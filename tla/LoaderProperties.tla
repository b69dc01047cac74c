-------------------------- MODULE LoaderProperties --------------------------
(***************************************************************************)
(* What makes the load generator of Loader correct.                        *)
(***************************************************************************)
EXTENDS Loader, FiniteSets

WorkerPlaces == {"loop", "pop", "waiting", "woken", "popped", "http", "answered",
                 "counted", "stopping", "ended"}
KillerPlaces == {"loop", "check", "stop", "set_done", "notify_all", "cancel", "ended"}
MainPlaces   == {"loop", "sleep", "push", "notify_one", "set_done", "notify_all",
                 "join_killer", "join_pool", "returned"}

\* Every variable has its type.
TypeOK ==
  /\ q_ \in Nat /\ successful \in Nat /\ latencies \in Nat /\ failures \in Nat
  /\ done_ \in BOOLEAN /\ stop \in BOOLEAN
  /\ worker \in [Workers -> WorkerPlaces]
  /\ prev \in [Workers -> Nat]
  /\ cancelled \in 0 .. NUM_WORKERS
  /\ killer \in KillerPlaces
  /\ main \in MainPlaces

\* The successes a worker has counted and not yet recorded.
Unrecorded == {w \in Workers : worker[w] = "counted"}

Smaller(a, b) == IF a <= b THEN a ELSE b

\* A success that counts is recorded once, whenever the killer cancels its
\* worker: the latencies are the counted successes up to the target, less the
\* ones whose worker is on its way to record them.
EverySuccessRecorded ==
  latencies + Cardinality(Unrecorded) = Smaller(successful, target_successes)

\* The test reports exactly target_successes requests, read when no thread
\* can change them any more.
ReportsTarget ==
  main = "returned" =>
    /\ latencies = target_successes
    /\ killer = "ended" /\ \A w \in Workers : worker[w] = "ended"

\* The run is never cut short: stop comes only once the target is reached.
StopsAtTarget == stop => successful >= target_successes

\* A worker sends nothing more once it has seen the target reached, so that
\* each one adds at most one success to it.
SurplusBounded ==
  successful <= target_successes + NUM_WORKERS - (IF target_successes > 0 THEN 1 ELSE 0)

\* The workers do not all sleep while there is something to wake up for, a
\* task or the end of the run, except between the unlock of the queue and the
\* notification that follows it.
NoSleepingPool ==
  /\ Waiting # {}
  /\ \A w \in Workers : worker[w] \in {"waiting", "ended"}
  /\ q_ > 0 \/ done_
  => main \in {"notify_one", "notify_all"} \/ killer = "notify_all"

\* run_test returns, if the server fails finitely many requests.
RunReturns == <>(main = "returned")
=============================================================================
