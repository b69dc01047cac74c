------------------------ MODULE ClosedLoadProperties ------------------------
(***************************************************************************)
(* What makes the closed-loop load generator of ClosedLoad correct.        *)
(***************************************************************************)
EXTENDS ClosedLoad, FiniteSetsExt

\* The figures of a report fit together: there is a latency for each success,
\* and no client is left that could still change one of them.
ReportConsistent ==
  main = "report" =>
    /\ latencies = success_cnt
    /\ \A c \in Clients : client[c] = "ended"

\* The loop is closed: a client thinks between its requests, whatever their
\* outcome, so that N users send at most N requests per think time.
RequestsBounded ==
  success_cnt + fail_cnt <= N * ((DURATION - 1) \div THINK_TIME + 1)

\* The throughput is taken over DURATION, though clients finish what they have
\* begun.  An experiment outlasts its end by less than one transfer and one
\* think time.
OverrunBounded ==
  main = "join" => clock < end_time + Max(Responses) + THINK_TIME
=============================================================================
