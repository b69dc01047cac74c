-------------------------- MODULE WebSimProperties --------------------------
(***************************************************************************)
(* What makes the simulator of WebSim correct.                             *)
(***************************************************************************)
EXTENDS WebSim

ReqIds == 1 .. Len(all_requests)

-----------------------------------------------------------------------------
(* Types.  A pointer is null or leads to an object that exists.            *)

EventTypes == {"USER_ARRIVAL", "THREAD_SLICE_START", "THREAD_SLICE_END",
               "THREAD_AVAILABLE", "REQUEST_COMPLETE", "CHECK_TIMEOUT"}
SliceTypes == {"THREAD_SLICE_START", "THREAD_SLICE_END"}
ThreadTypes == SliceTypes \cup {"THREAD_AVAILABLE"}
RequestTypes == {"REQUEST_COMPLETE", "CHECK_TIMEOUT"}

Event == [time : Nat, type : EventTypes, user : Users \cup {NoUser}, req : Nat,
          thread : Threads \cup {NoThread}, slice_len : Nat, seq : Nat]

Request == [user_id : Users, arrival_time : Nat, service_total : Nat,
            service_remaining : Nat, timeout_deadline : Nat,
            timed_out : BOOLEAN, completion_time : Nat \cup {-1}]

CoreState == [runqueue : Seq(Threads), idle : BOOLEAN,
              current_thread : Threads \cup {NoThread}, busy_time : Nat,
              dispatched : {<<>>}]

\* An event refers to a user, a thread or one of the requests ids.
EventOf(ids) ==
  {e \in Event : /\ e.type = "USER_ARRIVAL" => e.user \in Users
                 /\ e.type \in ThreadTypes => e.thread \in Threads
                 /\ e.type \in RequestTypes => e.req \in ids}

\* The threads bound to core k.
ThreadsOf(k) == {th \in Threads : CoreOf(th) = k}

\* Every variable has its type, no identifier dangles, and the run queue of a
\* core holds threads bound to that core.
TypeOK ==
  /\ now \in Nat /\ seq_counter \in Nat /\ dropped_requests \in Nat
  /\ running \in BOOLEAN
  /\ all_requests \in Seq(Request)
  /\ evq \subseteq EventOf(ReqIds)
  /\ completed_requests \in Seq(ReqIds)
  /\ timedout_requests \in Seq(ReqIds)
  /\ waiting_requests \in Seq(ReqIds)
  /\ free_threads \in Seq(Threads)
  /\ thread_req \in [Threads -> ReqIds \cup {NoReq}]
  /\ core \in [Cores -> CoreState]
  /\ \A k \in Cores : core[k].runqueue \in Seq(ThreadsOf(k))

-----------------------------------------------------------------------------
(* Cores and threads. *)

SlicesOf(k) == {e \in evq : e.type \in SliceTypes /\ CoreOf(e.thread) = k}

\* The core c and its slices in flight agree.
RunsOne(c, slices) ==
  IF c.idle THEN slices = {} /\ c.current_thread = NoThread
            ELSE \E e \in slices : slices = {e} /\ c.current_thread = e.thread

\* A core runs one thread at a time: the idle flag is down exactly while one
\* slice of the core is in flight, and then current_thread names its thread
\* (schedule_next_slice, handle_slice_start and handle_slice_end of core.cpp).
OneSlicePerCore == running => \A k \in Cores : RunsOne(core[k], SlicesOf(k))

\* Where a thread is: the pool, the run queue of a core, an event.
PlacesOfThread(th) ==
  {<<"pool", i, 0>> : i \in {j \in DOMAIN free_threads : free_threads[j] = th}}
  \cup (UNION {{<<"runqueue", i, k>> :
                  i \in {j \in DOMAIN core[k].runqueue : core[k].runqueue[j] = th}} : k \in Cores})
  \cup {<<"event", e.seq, 0>> : e \in {f \in evq : f.type \in ThreadTypes /\ f.thread = th}}

\* A thread is in exactly one place, holds a request exactly when it is out
\* of the pool, and never queues at a core other than its own: no thread is
\* lost, doubled or migrated by the hand-overs between
\* QueueingSystem::admit_request, release_thread_to_pool and the core.
ThreadInOnePlace ==
  running => \A th \in Threads :
    /\ Cardinality(PlacesOfThread(th)) = 1
    /\ thread_req[th] = NoReq <=> \E i \in DOMAIN free_threads : free_threads[i] = th
    /\ \A k \in Cores : (\E i \in DOMAIN core[k].runqueue : core[k].runqueue[i] = th) => k = CoreOf(th)

\* A core that stopped for a context switch leaves its run queue alone until
\* something calls add_runnable.  Whenever an idle core has queued threads, a
\* THREAD_AVAILABLE of that core comes within one context switch: no queued
\* thread waits for an event that is not scheduled.
NoLostWakeup ==
  \A k \in Cores :
    running /\ core[k].idle /\ core[k].runqueue # <<>> =>
      \E e \in evq : /\ e.type = "THREAD_AVAILABLE" /\ CoreOf(e.thread) = k
                     /\ e.time <= now + CONTEXT_SWITCH_OVERHEAD

-----------------------------------------------------------------------------
(* Requests. *)

Holds(s, x) == \E i \in DOMAIN s : s[i] = x
Positions(s, x) == {i \in DOMAIN s : s[i] = x}

Pending(ty, r) == \E e \in evq : e.type = ty /\ e.req = r

\* The server still has to answer r.
InServer(r) == \/ Holds(waiting_requests, r)
               \/ \E th \in Threads : thread_req[th] = r
               \/ Pending("REQUEST_COMPLETE", r)

PlacesOfRequest(r) ==
  {<<"waiting", i>> : i \in Positions(waiting_requests, r)}
  \cup {<<"thread", th>> : th \in {x \in Threads : thread_req[x] = r}}
  \cup {<<"answer", e.seq>> : e \in {f \in evq : f.type = "REQUEST_COMPLETE" /\ f.req = r}}
  \cup {<<"completed", i>> : i \in Positions(completed_requests, r)}
  \cup {<<"timedout", i>> : i \in Positions(timedout_requests, r)}

\* A request is in one place: it waits, or one thread has it, or its answer
\* is under way, or it is counted once as completed or as timed out.  The
\* ones that are nowhere are exactly the dropped ones, so that the counts of
\* the final report add up to the requests that were sent.
RequestInOnePlace ==
  /\ \A r \in ReqIds : Cardinality(PlacesOfRequest(r)) <= 1
  /\ Cardinality({r \in ReqIds : PlacesOfRequest(r) = {}}) = dropped_requests

\* Requests get their threads in the order they arrived, and none waits
\* while a thread is free (admit_request and release_thread_to_pool).
FifoAdmission ==
  /\ waiting_requests # <<>> => free_threads = <<>>
  /\ Len(waiting_requests) <= THREAD_QUEUE_LIMIT
  /\ \A i \in DOMAIN waiting_requests :
       /\ \A j \in 1 .. i - 1 : waiting_requests[j] < waiting_requests[i]
       /\ \A th \in Threads : thread_req[th] < waiting_requests[i]

\* When the events run out before simtime every admitted request has been
\* answered: no request is left with nothing scheduled that would serve it.
NothingStranded ==
  evq = {} /\ now <= SIMTIME => \A r \in ReqIds : ~InServer(r)

\* The user of r is still waiting for the answer.
Awaited(r) == InServer(r) /\ ~all_requests[r].timed_out

\* The closed loop: every user either thinks, with one arrival ahead of it,
\* or waits for one answer.  An answer racing the deadline must wake the
\* user exactly once, whichever is handled first and whatever becomes of the
\* abandoned request (handle_request_complete, handle_request_timeout).
OneTokenPerUser ==
  running => \A u \in Users :
    Cardinality({e \in evq : e.type = "USER_ARRIVAL" /\ e.user = u})
      + Cardinality({r \in ReqIds : all_requests[r].user_id = u /\ Awaited(r)}) = 1

\* Nobody is told two different things about a request: it counts as
\* completed only if it was answered before its deadline, it is given up only
\* once the deadline is reached, and no request in the server stays awaited
\* past its deadline.
VerdictsAgree ==
  \A r \in ReqIds :
    LET q == all_requests[r]
    IN  /\ Holds(completed_requests, r) => ~q.timed_out /\ q.completion_time < q.timeout_deadline
        /\ Holds(timedout_requests, r) => q.completion_time >= q.timeout_deadline
        /\ q.timed_out => q.timeout_deadline <= now
        /\ Awaited(r) => now <= q.timeout_deadline

-----------------------------------------------------------------------------
(* Time and work. *)

Slices(service) == (service + QUANTUM - 1) \div QUANTUM

\* An answer takes at least the service of its request and one context
\* switch for each preemption, whatever the schedule was.
ResponseLowerBound ==
  \A r \in ReqIds :
    LET q == all_requests[r]
    IN  q.completion_time # -1 =>
          q.completion_time - q.arrival_time
            >= q.service_total + (Slices(q.service_total) - 1) * CONTEXT_SWITCH_OVERHEAD

\* The busy time of the cores is the service the requests have received: no
\* slice is lost or counted twice on the way (with no warmup to leave out).
WorkConserved ==
  MapThenSumSet(LAMBDA k : core[k].busy_time, Cores)
    = MapThenSumSet(LAMBDA r : all_requests[r].service_total - all_requests[r].service_remaining,
                    ReqIds)

\* The slices of a core do not overlap: since the warmup ended it was busy
\* for at most the time elapsed, plus the slice that straddled the end of
\* the warmup and is counted whole.
UtilizationBound ==
  \A k \in Cores :
    core[k].busy_time <= IF now < WARMUP_TIME THEN 0 ELSE now - WARMUP_TIME + QUANTUM

\* std::priority_queue never re-sorts: while a thread waits in a run queue
\* its key, the service its request still needs, must exist and not change.
KeysStable ==
  \A k \in Cores, th \in Threads :
    Holds(core[k].runqueue, th) /\ Holds(core'[k].runqueue, th) =>
      /\ th \in DOMAIN Remaining /\ th \in DOMAIN Remaining'
      /\ Remaining[th] = Remaining'[th]
SJFKeysStable == [][KeysStable]_vars

\* The loop of run always gets past simtime: no chain of events holds the
\* clock for ever.
Terminates == <>~running
=============================================================================
