------------------------------- MODULE Loader -------------------------------
(***************************************************************************)
(* The load generator of A-3 (run_test and WorkQueue of loader.cpp): the   *)
(* main thread pushes tasks at the arrival rate, a pool of workers pops    *)
(* them and sends one request each, and a killer thread cancels the        *)
(* workers once enough requests have succeeded.                            *)
(*                                                                         *)
(* A step is one access to a shared variable, one critical section or one  *)
(* wait; the relaxed atomics are read and written in one order for all     *)
(* threads.  A task carries only its scheduled time, so the queue is its   *)
(* length; latencies_ms, and service_times_ms, which is pushed with it,    *)
(* are one length too.                                                     *)
(***************************************************************************)
EXTENDS Integers

CONSTANTS
  NUM_WORKERS, NUM_REQUESTS,
  SUCCESS_CAP,     \* the 400 of target_successes
  MAX_QUEUE,       \* bound of the model: tasks in the queue
  MAX_FAILURES     \* bound of the model: requests the server fails

ASSUME LoaderAssumption ==
  /\ NUM_WORKERS \in Nat /\ NUM_REQUESTS \in Nat /\ SUCCESS_CAP \in Nat
  /\ MAX_QUEUE \in Nat /\ MAX_FAILURES \in Nat

Workers == 0 .. NUM_WORKERS - 1

target_successes == IF NUM_REQUESTS <= SUCCESS_CAP THEN NUM_REQUESTS ELSE SUCCESS_CAP

VARIABLES
  q_,          \* how many tasks the queue holds
  done_,       \* set_done was called
  successful,  \* the successes the workers have counted
  stop,
  latencies,   \* how many latencies are recorded
  failures,    \* how many requests have failed
  worker,      \* where each worker is
  prev,        \* what fetch_add last returned to each worker
  cancelled,   \* how many workers of the pool pthread_cancel was called for
  killer,      \* where the killer is
  main         \* where the main thread is

queue  == <<q_, done_>>
counts == <<successful, latencies, failures, prev>>
vars   == <<queue, counts, stop, worker, cancelled, killer, main>>

Init ==
  /\ q_ = 0 /\ done_ = FALSE
  /\ successful = 0 /\ latencies = 0 /\ failures = 0 /\ stop = FALSE
  /\ prev = [w \in Workers |-> 0]
  /\ worker = [w \in Workers |-> "loop"]
  /\ cancelled = 0
  /\ killer = "loop" /\ main = "loop"

-----------------------------------------------------------------------------
(* A worker. *)

WorkerMoves(w, from, to) ==
  /\ worker[w] \in from
  /\ worker' = [worker EXCEPT ![w] = to]
  /\ UNCHANGED <<cancelled, killer, main>>

\* The tests of stop before and after pop.
WorkerLoop(w)   == WorkerMoves(w, {"loop"}, IF stop THEN "ended" ELSE "pop")
                   /\ UNCHANGED <<queue, counts, stop>>
WorkerStarts(w) == WorkerMoves(w, {"popped"}, IF stop THEN "ended" ELSE "http")
                   /\ UNCHANGED <<queue, counts, stop>>

\* Mutant: the predicate of the wait leaves out done_.
PopForgetsDone(w) ==
  /\ WorkerMoves(w, {"pop", "woken"}, IF q_ > 0 THEN "popped" ELSE "waiting")
  /\ q_' = IF q_ > 0 THEN q_ - 1 ELSE 0
  /\ UNCHANGED <<done_, counts, stop>>

\* pop: the predicate is evaluated under the lock, which wait releases.
Pop(w) ==
  /\ WorkerMoves(w, {"pop", "woken"},
                 IF q_ > 0 THEN "popped" ELSE IF done_ THEN "ended" ELSE "waiting")
  /\ q_' = IF q_ > 0 THEN q_ - 1 ELSE 0
  /\ UNCHANGED <<done_, counts, stop>>

\* A condition variable may wake a waiter without a notification.
SpuriousWake(w) == WorkerMoves(w, {"waiting"}, "woken") /\ UNCHANGED <<queue, counts, stop>>

\* pthread_cancel was called for w.
CancelPending(w) == w < cancelled

\* http_get has its answer and passes its last cancellation point, or fails,
\* which it may do past the last point that a cancellation could hit.
HttpAnswers(w) == /\ ~CancelPending(w)
                  /\ WorkerMoves(w, {"http"}, "answered")
                  /\ UNCHANGED <<queue, counts, stop>>
HttpFails(w)   == /\ failures < MAX_FAILURES
                  /\ failures' = failures + 1
                  /\ WorkerMoves(w, {"http"}, "loop")
                  /\ UNCHANGED <<queue, successful, latencies, prev, stop>>

\* Mutant: the cancellation type is asynchronous.
CancelledAnywhere == {"waiting", "woken", "http", "answered", "counted"}

\* Where a deferred cancellation takes effect: the wait of pop, which a woken
\* waiter has not left, and the system calls of http_get.
CancellationPoints == {"waiting", "woken", "http"}

Cancelled(w) == /\ CancelPending(w)
                /\ WorkerMoves(w, CancellationPoints, "ended")
                /\ UNCHANGED <<queue, counts, stop>>

\* Mutant: prev is taken for the new value of successful.
AddFetch(w) ==
  /\ prev' = [prev EXCEPT ![w] = successful + 1]
  /\ successful' = successful + 1
  /\ WorkerMoves(w, {"answered"}, IF prev'[w] >= target_successes THEN "stopping" ELSE "counted")
  /\ UNCHANGED <<queue, latencies, failures, stop>>

\* fetch_add, and the branch on what it returned.
CountSuccess(w) ==
  /\ prev' = [prev EXCEPT ![w] = successful]
  /\ successful' = successful + 1
  /\ WorkerMoves(w, {"answered"}, IF prev'[w] >= target_successes THEN "stopping" ELSE "counted")
  /\ UNCHANGED <<queue, latencies, failures, stop>>

\* Mutant: the worker of the last success goes on.
RecordGoesOn(w) ==
  /\ latencies' = IF latencies < target_successes THEN latencies + 1 ELSE latencies
  /\ WorkerMoves(w, {"counted"}, "loop")
  /\ UNCHANGED <<queue, successful, failures, prev, stop>>

\* The section with the cancellation disabled and lat_m locked.
RecordLatency(w) ==
  /\ latencies' = IF latencies < target_successes THEN latencies + 1 ELSE latencies
  /\ WorkerMoves(w, {"counted"}, IF prev[w] + 1 >= target_successes THEN "stopping" ELSE "loop")
  /\ UNCHANGED <<queue, successful, failures, prev, stop>>

\* stop.store(true) and break, by the last success or by one too many.
WorkerStops(w) == /\ stop' = TRUE
                  /\ WorkerMoves(w, {"stopping"}, "ended")
                  /\ UNCHANGED <<queue, counts>>

WorkerStep(w) ==
  \/ WorkerLoop(w) \/ Pop(w) \/ WorkerStarts(w)
  \/ HttpAnswers(w) \/ HttpFails(w) \/ Cancelled(w)
  \/ CountSuccess(w) \/ RecordLatency(w) \/ WorkerStops(w)

-----------------------------------------------------------------------------
(* The queue's condition variable: notify_one wakes one waiter, if any.     *)

Waiting == {w \in Workers : worker[w] = "waiting"}

notify_one ==
  IF Waiting = {} THEN UNCHANGED worker
  ELSE \E w \in Waiting : worker' = [worker EXCEPT ![w] = "woken"]
notify_all == worker' = [w \in Workers |-> IF w \in Waiting THEN "woken" ELSE worker[w]]

-----------------------------------------------------------------------------
(* The killer. *)

KillerMoves(from, to) ==
  killer = from /\ killer' = to /\ UNCHANGED <<q_, counts, main>>

KillerLoop     == KillerMoves("loop", IF stop THEN "ended" ELSE "check")
                  /\ UNCHANGED <<done_, stop, worker, cancelled>>
KillerChecks   == KillerMoves("check", IF successful >= target_successes THEN "stop" ELSE "loop")
                  /\ UNCHANGED <<done_, stop, worker, cancelled>>
KillerStops    == KillerMoves("stop", "set_done")
                  /\ stop' = TRUE /\ UNCHANGED <<done_, worker, cancelled>>
KillerSetsDone == KillerMoves("set_done", "notify_all")
                  /\ done_' = TRUE /\ UNCHANGED <<stop, worker, cancelled>>
KillerNotifies == KillerMoves("notify_all", "cancel")
                  /\ notify_all /\ UNCHANGED <<done_, stop, cancelled>>

\* Mutant: the loop over the pool runs past its end.
KillerCancelsTooMany ==
  /\ KillerMoves("cancel", IF cancelled <= NUM_WORKERS THEN "cancel" ELSE "ended")
  /\ cancelled' = IF cancelled <= NUM_WORKERS THEN cancelled + 1 ELSE cancelled
  /\ UNCHANGED <<done_, stop, worker>>

\* The loop over the pool, one pthread_cancel at a time.
KillerCancels ==
  /\ KillerMoves("cancel", IF cancelled < NUM_WORKERS THEN "cancel" ELSE "ended")
  /\ cancelled' = IF cancelled < NUM_WORKERS THEN cancelled + 1 ELSE cancelled
  /\ UNCHANGED <<done_, stop, worker>>

KillerStep == \/ KillerLoop \/ KillerChecks \/ KillerStops
              \/ KillerSetsDone \/ KillerNotifies \/ KillerCancels

-----------------------------------------------------------------------------
(* The main thread.  The pool and the killer exist when it enters its loop; *)
(* until then the queue is empty and the workers could only have waited.   *)

MainMoves(from, to) ==
  main = from /\ main' = to /\ UNCHANGED <<counts, stop, cancelled, killer>>

MainLoop     == MainMoves("loop", IF stop THEN "set_done" ELSE "sleep")
                /\ UNCHANGED <<queue, worker>>

\* sleep_until returns; the bound of the queue delays it.
MainWakes    == /\ stop \/ q_ < MAX_QUEUE
                /\ MainMoves("sleep", IF stop THEN "set_done" ELSE "push")
                /\ UNCHANGED <<queue, worker>>
MainPushes   == MainMoves("push", "notify_one") /\ q_' = q_ + 1 /\ UNCHANGED <<done_, worker>>
MainNotifies == MainMoves("notify_one", "loop") /\ notify_one /\ UNCHANGED queue

MainSetsDone    == MainMoves("set_done", "notify_all") /\ done_' = TRUE /\ UNCHANGED <<q_, worker>>

\* Mutant: set_done notifies one waiter.
MainNotifiesOne == MainMoves("notify_all", "join_killer") /\ notify_one /\ UNCHANGED queue
MainNotifiesAll == MainMoves("notify_all", "join_killer") /\ notify_all /\ UNCHANGED queue
MainJoinsKiller == /\ killer = "ended"
                   /\ MainMoves("join_killer", "join_pool")
                   /\ UNCHANGED <<queue, worker>>

\* Mutant: the pool is not joined.
MainDetachesPool == MainMoves("join_pool", "returned") /\ UNCHANGED <<queue, worker>>
MainJoinsPool    == /\ \A w \in Workers : worker[w] = "ended"
                    /\ MainMoves("join_pool", "returned")
                    /\ UNCHANGED <<queue, worker>>

MainStep == \/ MainLoop \/ MainWakes \/ MainPushes \/ MainNotifies
            \/ MainSetsDone \/ MainNotifiesAll \/ MainJoinsKiller \/ MainJoinsPool

-----------------------------------------------------------------------------
Returned == main = "returned" /\ UNCHANGED vars

Next == \/ \E w \in Workers : WorkerStep(w) \/ SpuriousWake(w)
        \/ KillerStep
        \/ MainStep
        \/ Returned

Spec == Init /\ [][Next]_vars

\* Every thread keeps running, and http_get returns: the socket has send and
\* receive timeouts.  Nothing promises a spurious wake-up.
FairSpec ==
  /\ Spec
  /\ \A w \in Workers : WF_vars(WorkerStep(w))
  /\ WF_vars(KillerStep) /\ WF_vars(MainStep)
=============================================================================
