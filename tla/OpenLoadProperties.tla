------------------------- MODULE OpenLoadProperties -------------------------
(***************************************************************************)
(* What makes the open-loop load generator of OpenLoad correct.            *)
(***************************************************************************)
EXTENDS OpenLoad

MainPlaces == {"lead", "reset_failed", "clear", "spawn", "grace", "report", "pause", "done"}

\* Every variable has its type, and no rate beyond the last is measured.
TypeOK ==
  /\ clock \in Nat /\ wake \in Nat /\ exp_start \in Nat
  /\ completed \in Nat /\ failed \in Nat /\ latencies \in Nat /\ sent \in Nat
  /\ main \in MainPlaces
  /\ round \in 1 .. ROUNDS
  /\ thread \in [Slots -> [at : {"none", "init", "perform", "counted"},
                           round : 0 .. ROUNDS, start : Nat]]

\* While the main thread measures a rate.
Measuring == main \in {"spawn", "grace", "report"}

\* A request counts for the rate it was sent at: when the counters are reset
\* nothing of the rate before is left that could still count, though nobody
\* joins the detached threads.
RoundsApart ==
  main \in {"reset_failed", "clear", "spawn", "grace", "report"} =>
    \A s \in InFlight : thread[s].round = round

\* Every request of a rate is completed, failed or in flight.
EveryRequestCounted ==
  Measuring => completed + failed
                 + Cardinality({s \in InFlight : thread[s].at # "counted"}) = sent

\* Up to the report there is a latency for each completed request, or its
\* thread is about to record it.
LatencyPerCompletion ==
  main \in {"spawn", "grace"} =>
    latencies + Cardinality({s \in InFlight : thread[s].at = "counted"}) = completed

\* The report reads latencies without the lock.  Only a request that took at
\* least the time the main thread has waited can disturb it.
OnlyLateAnswersDisturb ==
  main = "report" => \A s \in InFlight : clock - thread[s].start >= GRACE
=============================================================================
