-------------------------------- MODULE Core --------------------------------
(***************************************************************************)
(* One CPU core of the simulated web server (struct Core of core.h and     *)
(* core.cpp): the threads bound to it wait in a run queue, one of them at  *)
(* a time holds the core for a slice.                                      *)
(*                                                                         *)
(* A core is a record                                                      *)
(*   runqueue        the queue of the active policy, oldest thread first   *)
(*   idle            the flag add_runnable tests before it dispatches      *)
(*   current_thread  the thread of the slice in flight, or NoThread        *)
(*   busy_time       the accumulator behind the reported utilisation       *)
(*   dispatched      the threads whose THREAD_SLICE_START the running      *)
(*                   handler has pushed, in order; empty between handlers  *)
(*                                                                         *)
(* The code pushes a thread on the deque and on the heap and pops it only  *)
(* from the one its policy uses; the other only grows and is never read.   *)
(* The record keeps the one that is read.                                  *)
(*                                                                         *)
(* The member functions are operators from a core to the set of cores      *)
(* they may leave: under SJF the heap decides which of several equally     *)
(* short jobs comes out first, and any of them may.  rem maps each thread  *)
(* that holds a request to the service that request still needs.           *)
(***************************************************************************)
EXTENDS Integers, Sequences, SequencesExt

CONSTANT SCHED_POLICY   \* the policy of the run, "RR" or "SJF"

ASSUME PolicyAssumption == SCHED_POLICY \in {"RR", "SJF"}

NoThread == -1          \* the null ThreadWorker pointer

NewCore == [runqueue |-> <<>>, idle |-> TRUE, current_thread |-> NoThread,
            busy_time |-> 0, dispatched |-> <<>>]

\* a has more service left than b, so the heap keeps it below b.
SJF_comparator(a, b, rem) ==
  a \in DOMAIN rem /\ b \in DOMAIN rem /\ rem[a] > rem[b]

\* The positions of the run queue that pop_one may take.
Tops(q, rem) ==
  IF SCHED_POLICY = "RR"
  THEN {i \in DOMAIN q : i = 1}
  ELSE {i \in DOMAIN q : \A j \in DOMAIN q : ~SJF_comparator(q[i], q[j], rem)}

\* Mutant: front() without pop_front().
DispatchKeeps(c, i) ==
  [c EXCEPT !.current_thread = c.runqueue[i],
            !.idle = FALSE,
            !.dispatched = Append(c.dispatched, c.runqueue[i])]

\* pop_one, and the dispatch of the popped thread by schedule_next_slice.
Dispatch(c, i) ==
  [c EXCEPT !.runqueue = RemoveAt(c.runqueue, i),
            !.current_thread = c.runqueue[i],
            !.idle = FALSE,
            !.dispatched = Append(c.dispatched, c.runqueue[i])]

schedule_next_slice(c, rem) ==
  IF c.runqueue = <<>>
  THEN {[c EXCEPT !.idle = TRUE, !.current_thread = NoThread]}
  ELSE {Dispatch(c, i) : i \in Tops(c.runqueue, rem)}

\* Mutant: dispatches without testing idle.
EagerRunnable(c, th, rem) ==
  schedule_next_slice([c EXCEPT !.runqueue = Append(c.runqueue, th)], rem)

\* Mutant: leaves the dispatch to somebody else.
LazyRunnable(c, th, rem) == {[c EXCEPT !.runqueue = Append(c.runqueue, th)]}

add_runnable(c, th, rem) ==
  LET queued == [c EXCEPT !.runqueue = Append(c.runqueue, th)]
  IN  IF c.idle THEN schedule_next_slice(queued, rem) ELSE {queued}
=============================================================================
