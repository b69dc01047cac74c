------------------------------- MODULE WebSim -------------------------------
(***************************************************************************)
(* The discrete-event web-server simulator of A-2/simulator: closed-loop   *)
(* users send requests to a server with a bounded pool of threads, each    *)
(* bound to one core; requests that find no thread wait in a bounded       *)
(* queue; cores run their threads in slices.  One action is one iteration  *)
(* of the loop of Simulator::run: it pops the least event by (time, seq)   *)
(* and runs the whole handler of that event.                               *)
(*                                                                         *)
(* Time is counted in integer ticks.  Requests are numbered from 1 in the  *)
(* order they are created, as next_req_id does, and stay in all_requests.  *)
(* Pointers are identifiers: NoReq and NoThread are the null pointers.     *)
(***************************************************************************)
EXTENDS Core

CONSTANTS
  NUM_USERS, NUM_CORES, MAX_THREADS, THREAD_QUEUE_LIMIT,
  QUANTUM, CONTEXT_SWITCH_OVERHEAD, CLOSED_LOOP,
  SIMTIME, WARMUP_TIME,
  \* what the random distributions of a run can return, in ticks
  ServiceTimes, Timeouts, ThinkTimes, StartTimes,
  \* the thresholds below which a remaining service counts as none: 1e-7 in
  \* Core::handle_slice_end and 1e-6 in Simulator::handle_request_timeout
  DoneEps, CheckEps

NoReq == 0
NoUser == -1

Users   == 0 .. NUM_USERS - 1
Cores   == 0 .. NUM_CORES - 1
Threads == 0 .. MAX_THREADS - 1

ASSUME SizesAssumption ==
  /\ NUM_USERS \in Nat /\ THREAD_QUEUE_LIMIT \in Nat
  /\ NUM_CORES \in Nat \ {0} /\ MAX_THREADS \in Nat \ {0}
ASSUME TimesAssumption ==
  /\ QUANTUM \in Nat \ {0} /\ CONTEXT_SWITCH_OVERHEAD \in Nat
  /\ SIMTIME \in Nat /\ WARMUP_TIME \in Nat
  /\ ServiceTimes \subseteq Nat \ {0} /\ ThinkTimes \subseteq Nat \ {0}
  /\ Timeouts \subseteq Nat /\ StartTimes \subseteq Nat
  /\ DoneEps \in Nat /\ CheckEps \in Nat /\ DoneEps <= CheckEps
ASSUME LoopAssumption == CLOSED_LOOP \in BOOLEAN

VARIABLES
  now,                \* the simulated clock
  evq,                \* the pending events
  seq_counter,        \* how many events were ever created
  all_requests,       \* every request of the run, by id
  completed_requests, \* ids of the requests answered in time, in that order
  timedout_requests,  \* ids of the requests answered too late
  dropped_requests,   \* how many requests found the queue full
  free_threads,       \* the idle part of the thread pool
  waiting_requests,   \* ids of the requests that wait for a thread
  thread_req,         \* the request each thread works on, or NoReq
  core,               \* the cores
  running             \* Simulator::run is still in its loop

vars == <<now, evq, seq_counter, all_requests, completed_requests,
          timedout_requests, dropped_requests, free_threads,
          waiting_requests, thread_req, core, running>>

-----------------------------------------------------------------------------
(* Events.  An event of a thread concerns the core the thread is bound to. *)

CoreOf(th) == th % NUM_CORES

Ev(t, ty, u, r, th, sl) ==
  [time |-> t, type |-> ty, user |-> u, req |-> r, thread |-> th,
   slice_len |-> sl, seq |-> 0]

\* Mutants: an arrival built by the constructor that takes no user; a thread
\* that is available again without the context switch.
AnonymousArrival(t, u) == Ev(t, "USER_ARRIVAL", NoUser, NoReq, NoThread, 0)
AvailableNow(t, th)    == Ev(now, "THREAD_AVAILABLE", NoUser, NoReq, th, 0)

UserArrival(t, u)     == Ev(t, "USER_ARRIVAL", u, NoReq, NoThread, 0)
SliceStart(t, th)     == Ev(t, "THREAD_SLICE_START", NoUser, NoReq, th, 0)
SliceEnd(t, th, sl)   == Ev(t, "THREAD_SLICE_END", NoUser, NoReq, th, sl)
ThreadAvailable(t, th) == Ev(t, "THREAD_AVAILABLE", NoUser, NoReq, th, 0)
RequestComplete(t, r) == Ev(t, "REQUEST_COMPLETE", NoUser, r, NoThread, 0)
CheckTimeout(t, r)    == Ev(t, "CHECK_TIMEOUT", NoUser, r, NoThread, 0)

\* Mutant: equal times leave the queue last in, first out.
BeforeLifo(a, b) == a.time < b.time \/ (a.time = b.time /\ a.seq >= b.seq)

\* EventCompare: a leaves the event queue before b.
Before(a, b) == a.time < b.time \/ (a.time = b.time /\ a.seq <= b.seq)

\* pop_event returns e and the loop of run goes on with it.
Pop(e, ty) ==
  /\ running
  /\ e.type = ty
  /\ e.time <= SIMTIME
  /\ \A f \in evq : Before(e, f)
  /\ now' = e.time

\* The handler of e has created the events es, in this order.
Emit(e, es) ==
  /\ evq' = (evq \ {e}) \cup {[es[i] EXCEPT !.seq = seq_counter + i] : i \in DOMAIN es}
  /\ seq_counter' = seq_counter + Len(es)

-----------------------------------------------------------------------------
(* Requests, and the pieces the handlers share. *)

NewRequest(u, t, service, timeout) ==
  [user_id |-> u, arrival_time |-> t, service_total |-> service,
   service_remaining |-> service, timeout_deadline |-> t + timeout,
   timed_out |-> FALSE, completion_time |-> -1]

mark_completed(q, t) == [q EXCEPT !.completion_time = t, !.service_remaining = 0]

\* The key of every thread that holds a request in the SJF heap.
Remaining ==
  [th \in {x \in Threads : thread_req[x] # NoReq} |->
     all_requests[thread_req[th]].service_remaining]

\* The handler leaves core k in the state c.
SetCore(k, c) == core' = [core EXCEPT ![k] = [c EXCEPT !.dispatched = <<>>]]

\* The events of the dispatches that led to c.
SliceStarts(t, c) == [i \in DOMAIN c.dispatched |-> SliceStart(t, c.dispatched[i])]

Shorter(a, b) == IF a <= b THEN a ELSE b

-----------------------------------------------------------------------------
(* reset_for_run, set_cores and schedule_initial_users. *)

Init ==
  /\ now = 0
  /\ \E start \in [Users -> StartTimes] :
       evq = {[UserArrival(start[u], u) EXCEPT !.seq = u + 1] : u \in Users}
  /\ seq_counter = NUM_USERS
  /\ all_requests = <<>>
  /\ completed_requests = <<>>
  /\ timedout_requests = <<>>
  /\ dropped_requests = 0
  /\ free_threads = [i \in 1 .. MAX_THREADS |-> i - 1]
  /\ waiting_requests = <<>>
  /\ thread_req = [th \in Threads |-> NoReq]
  /\ core = [k \in Cores |-> NewCore]
  /\ running = TRUE

-----------------------------------------------------------------------------
(* handle_user_arrival, one action for each answer of admit_request. *)

\* The request of an arrival, created before it is admitted.
Arrives(e) ==
  /\ Pop(e, "USER_ARRIVAL")
  /\ \E service \in ServiceTimes, timeout \in Timeouts :
       all_requests' = Append(all_requests, NewRequest(e.user, e.time, service, timeout))
  /\ UNCHANGED <<completed_requests, timedout_requests, running>>

\* A thread is free: it takes the request and becomes runnable on its core.
ArrivalRuns ==
  /\ free_threads # <<>>
  /\ \E e \in evq :
       LET th == Head(free_threads)
           r  == Len(all_requests) + 1
       IN  /\ Arrives(e)
           /\ thread_req' = [thread_req EXCEPT ![th] = r]
           /\ \E c \in add_runnable(core[CoreOf(th)], th, Remaining') :
                /\ SetCore(CoreOf(th), c)
                /\ Emit(e, Append(SliceStarts(e.time, c),
                                  CheckTimeout(all_requests'[r].timeout_deadline, r)))
  /\ free_threads' = Tail(free_threads)
  /\ UNCHANGED <<waiting_requests, dropped_requests>>

\* No thread is free, the queue has room.
ArrivalWaits ==
  /\ free_threads = <<>>
  /\ Len(waiting_requests) < THREAD_QUEUE_LIMIT
  /\ \E e \in evq :
       LET r == Len(all_requests) + 1
       IN  /\ Arrives(e)
           /\ waiting_requests' = Append(waiting_requests, r)
           /\ Emit(e, <<CheckTimeout(all_requests'[r].timeout_deadline, r)>>)
  /\ UNCHANGED <<free_threads, thread_req, core, dropped_requests>>

\* The queue is full: the request is dropped and the user thinks again.
ArrivalDropped ==
  /\ free_threads = <<>>
  /\ Len(waiting_requests) >= THREAD_QUEUE_LIMIT
  /\ \E e \in evq, think \in ThinkTimes :
       /\ Arrives(e)
       /\ Emit(e, <<UserArrival(e.time + think, e.user)>>)
  /\ dropped_requests' = dropped_requests + 1
  /\ UNCHANGED <<free_threads, waiting_requests, thread_req, core>>

handle_user_arrival == ArrivalRuns \/ ArrivalWaits \/ ArrivalDropped

-----------------------------------------------------------------------------
(* The slices of a core.  A slice event whose thread lost its request would *)
(* make the core look for other work, as the code's tests for a null       *)
(* request do.                                                             *)

handle_thread_slice_start ==
  \E e \in evq :
    LET th == e.thread
        r  == thread_req[th]
        k  == CoreOf(th)
        sl == Shorter(QUANTUM, all_requests[r].service_remaining)
    IN  /\ Pop(e, "THREAD_SLICE_START")
        /\ \E c \in IF r = NoReq THEN schedule_next_slice(core[k], Remaining) ELSE {core[k]} :
             /\ SetCore(k, c)
             /\ Emit(e, IF r = NoReq THEN SliceStarts(e.time, c)
                                     ELSE <<SliceEnd(e.time + sl, th, sl)>>)
        /\ UNCHANGED <<all_requests, completed_requests, timedout_requests, dropped_requests,
                       free_threads, waiting_requests, thread_req, running>>

\* Mutants: the accounting line commented out in Core::handle_slice_end; no
\* warmup.
AccountedWithSwitch(e) ==
  [core[CoreOf(e.thread)] EXCEPT !.busy_time = @ + e.slice_len + CONTEXT_SWITCH_OVERHEAD]
AccountedAlways(e) == [core[CoreOf(e.thread)] EXCEPT !.busy_time = @ + e.slice_len]

\* Simulator::handle_thread_slice_end accounts the slice to the core.
Accounted(e) ==
  [core[CoreOf(e.thread)] EXCEPT
     !.busy_time = @ + IF e.time >= WARMUP_TIME THEN e.slice_len ELSE 0]

\* What the request of the slice still needs once the slice e is over.
LeftAfter(e) == all_requests[thread_req[e.thread]].service_remaining - e.slice_len

\* Mutants: the head of the queue is assigned but not popped; the thread goes
\* back to the pool whoever waits.
ReleaseKeepsHead(th) ==
  /\ thread_req' = [thread_req EXCEPT ![th] = IF waiting_requests = <<>> THEN NoReq
                                             ELSE Head(waiting_requests)]
  /\ free_threads' = IF waiting_requests = <<>> THEN Append(free_threads, th) ELSE free_threads
  /\ UNCHANGED waiting_requests
ReleaseIgnoresQueue(th) ==
  /\ thread_req' = [thread_req EXCEPT ![th] = NoReq]
  /\ free_threads' = Append(free_threads, th)
  /\ UNCHANGED waiting_requests

\* ThreadWorker::release and QueueingSystem::release_thread_to_pool: the
\* thread takes the oldest waiting request or goes back to the pool.
release_thread_to_pool(th) ==
  IF waiting_requests = <<>>
  THEN /\ thread_req' = [thread_req EXCEPT ![th] = NoReq]
       /\ free_threads' = Append(free_threads, th)
       /\ UNCHANGED waiting_requests
  ELSE /\ thread_req' = [thread_req EXCEPT ![th] = Head(waiting_requests)]
       /\ waiting_requests' = Tail(waiting_requests)
       /\ UNCHANGED free_threads

\* The slice was the last one of its request: the thread is released, which
\* makes it runnable again if a request waits, and the core goes on.
SliceEndCompletes ==
  \E e \in evq :
    LET th == e.thread
        r  == thread_req[th]
        k  == CoreOf(th)
    IN  /\ Pop(e, "THREAD_SLICE_END")
        /\ r # NoReq
        /\ LeftAfter(e) <= DoneEps
        /\ all_requests' = [all_requests EXCEPT ![r] = mark_completed(@, e.time)]
        /\ release_thread_to_pool(th)
        /\ \E c1 \in IF waiting_requests = <<>> THEN {Accounted(e)}
                     ELSE add_runnable(Accounted(e), th, Remaining') :
           \E c2 \in schedule_next_slice(c1, Remaining') :
             /\ SetCore(k, c2)
             /\ Emit(e, <<RequestComplete(e.time, r)>> \o SliceStarts(e.time, c2))
        /\ UNCHANGED <<completed_requests, timedout_requests, dropped_requests, running>>

\* The request needs more: the core is free at once, the thread becomes
\* runnable again after the context switch.
SliceEndPreempts ==
  \E e \in evq :
    LET th == e.thread
        r  == thread_req[th]
        k  == CoreOf(th)
    IN  /\ Pop(e, "THREAD_SLICE_END")
        /\ r = NoReq \/ LeftAfter(e) > DoneEps
        /\ all_requests' = IF r = NoReq THEN all_requests
                           ELSE [all_requests EXCEPT ![r].service_remaining = LeftAfter(e)]
        /\ \E c \in IF r = NoReq THEN schedule_next_slice(Accounted(e), Remaining)
                    ELSE {[Accounted(e) EXCEPT !.idle = TRUE, !.current_thread = NoThread]} :
             /\ SetCore(k, c)
             /\ Emit(e, IF r = NoReq THEN SliceStarts(e.time, c)
                        ELSE <<ThreadAvailable(e.time + CONTEXT_SWITCH_OVERHEAD, th)>>)
        /\ UNCHANGED <<completed_requests, timedout_requests, dropped_requests,
                       free_threads, waiting_requests, thread_req, running>>

handle_thread_available ==
  \E e \in evq :
    LET th == e.thread
        k  == CoreOf(th)
    IN  /\ Pop(e, "THREAD_AVAILABLE")
        /\ \E c1 \in add_runnable(core[k], th, Remaining) :
           \E c2 \in IF c1.idle THEN schedule_next_slice(c1, Remaining) ELSE {c1} :
             /\ SetCore(k, c2)
             /\ Emit(e, SliceStarts(e.time, c2))
        /\ UNCHANGED <<all_requests, completed_requests, timedout_requests, dropped_requests,
                       free_threads, waiting_requests, thread_req, running>>

-----------------------------------------------------------------------------
(* handle_request_complete and handle_request_timeout (CHECK_TIMEOUT). *)

\* Mutant: the flag set by CHECK_TIMEOUT is forgotten, and the deadline itself
\* still counts.
TooLateByClock(r, t) == t > all_requests[r].timeout_deadline

\* The answer of request r comes at time t after its user gave up.
TooLate(r, t) == all_requests[r].timed_out \/ t >= all_requests[r].timeout_deadline

CompleteInTime ==
  \E e \in evq, think \in ThinkTimes :
    /\ Pop(e, "REQUEST_COMPLETE")
    /\ ~TooLate(e.req, e.time)
    /\ all_requests' = [all_requests EXCEPT ![e.req].completion_time = e.time]
    /\ completed_requests' = Append(completed_requests, e.req)
    /\ Emit(e, IF CLOSED_LOOP
               THEN <<UserArrival(e.time + think, all_requests[e.req].user_id)>>
               ELSE <<>>)
    /\ UNCHANGED <<timedout_requests, dropped_requests, free_threads,
                   waiting_requests, thread_req, core, running>>

CompleteLate ==
  \E e \in evq :
    /\ Pop(e, "REQUEST_COMPLETE")
    /\ TooLate(e.req, e.time)
    /\ all_requests' = [all_requests EXCEPT ![e.req].timed_out = TRUE]
    /\ timedout_requests' = Append(timedout_requests, e.req)
    /\ Emit(e, <<>>)
    /\ UNCHANGED <<completed_requests, dropped_requests, free_threads,
                   waiting_requests, thread_req, core, running>>

handle_request_complete == CompleteInTime \/ CompleteLate

\* The deadline of a request that has all its service is of no consequence.
TimeoutIgnored ==
  \E e \in evq :
    /\ Pop(e, "CHECK_TIMEOUT")
    /\ all_requests[e.req].service_remaining <= CheckEps
    /\ Emit(e, <<>>)
    /\ UNCHANGED <<all_requests, completed_requests, timedout_requests, dropped_requests,
                   free_threads, waiting_requests, thread_req, core, running>>

\* The user gives up and thinks; the request stays where it is.
UserGivesUp ==
  \E e \in evq, think \in ThinkTimes :
    /\ Pop(e, "CHECK_TIMEOUT")
    /\ all_requests[e.req].service_remaining > CheckEps
    /\ all_requests' = [all_requests EXCEPT ![e.req].timed_out = TRUE]
    /\ Emit(e, <<UserArrival(e.time + think, all_requests[e.req].user_id)>>)
    /\ UNCHANGED <<completed_requests, timedout_requests, dropped_requests,
                   free_threads, waiting_requests, thread_req, core, running>>

handle_request_timeout == TimeoutIgnored \/ UserGivesUp

-----------------------------------------------------------------------------
(* The loop of Simulator::run ends when no event is left, or at the first   *)
(* one past simtime, which is popped and sets the clock.                    *)

\* Mutant: the loop does not test for an empty event queue.
LoopEndsBySimtime ==
  /\ running
  /\ running' = FALSE
  /\ \E e \in evq : /\ e.time > SIMTIME
                    /\ \A f \in evq : Before(e, f)
                    /\ now' = e.time
                    /\ evq' = evq \ {e}
  /\ UNCHANGED <<seq_counter, all_requests, completed_requests, timedout_requests,
                 dropped_requests, free_threads, waiting_requests, thread_req, core>>

LoopEnds ==
  /\ running
  /\ running' = FALSE
  /\ \/ evq = {} /\ UNCHANGED <<now, evq>>
     \/ \E e \in evq : /\ e.time > SIMTIME
                       /\ \A f \in evq : Before(e, f)
                       /\ now' = e.time
                       /\ evq' = evq \ {e}
  /\ UNCHANGED <<seq_counter, all_requests, completed_requests, timedout_requests,
                 dropped_requests, free_threads, waiting_requests, thread_req, core>>

\* run has returned.
Returned == ~running /\ UNCHANGED vars

Next ==
  \/ handle_user_arrival
  \/ handle_thread_slice_start
  \/ SliceEndCompletes
  \/ SliceEndPreempts
  \/ handle_thread_available
  \/ handle_request_complete
  \/ handle_request_timeout
  \/ LoopEnds
  \/ Returned

Spec == Init /\ [][Next]_vars

\* The loop is the only thread of the program and nothing in it blocks.
FairSpec == Spec /\ WF_vars(Next)
=============================================================================
