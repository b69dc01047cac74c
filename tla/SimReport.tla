------------------------------ MODULE SimReport ------------------------------
(***************************************************************************)
(* The figures Simulator::run computes when its loop has ended, and what   *)
(* the report (A-2/main.tex) says of them.                                 *)
(***************************************************************************)
EXTENDS WebSimProperties

Larger(a, b) == IF a >= b THEN a ELSE b

\* The numerators and the denominator of throughput, goodput and badput, and
\* utilisation as a fraction: every completed request counts as good.
Result ==
  [good     |-> Len(completed_requests),
   bad      |-> Len(timedout_requests),
   dropped  |-> dropped_requests,
   measured |-> Cardinality({i \in DOMAIN completed_requests :
                   all_requests[completed_requests[i]].arrival_time >= WARMUP_TIME}),
   busy     |-> MapThenSumSet(LAMBDA k : core[k].busy_time, Cores),
   interval |-> Larger(1, SIMTIME - WARMUP_TIME)]

\* main.tex:379, "Statistics collected only after warmup": the requests behind
\* the goodput are the ones answered after the warmup.
OnlyAfterWarmup ==
  ~running =>
    Result.good = Cardinality({i \in DOMAIN completed_requests :
                     all_requests[completed_requests[i]].completion_time >= WARMUP_TIME})

\* main.tex:192, "Core Utilization: Fraction of time cores are busy".
UtilizationIsAFraction == ~running => Result.busy <= NUM_CORES * Result.interval

\* main.tex:191, "Timeout Rate: Number of requests exceeding timeout
\* threshold": every request that was given up is counted.
EveryTimeoutCounted ==
  ~running => Result.bad = Cardinality({r \in ReqIds : all_requests[r].timed_out})

\* main.tex:38, "Closed-loop user model: request -> wait -> think -> repeat":
\* a user that is not waiting for an answer has its next request ahead.
UsersComeBack ==
  running =>
    \A u \in Users :
      \/ \E e \in evq : e.type = "USER_ARRIVAL" /\ e.user = u
      \/ \E r \in ReqIds : all_requests[r].user_id = u /\ Awaited(r)
=============================================================================
