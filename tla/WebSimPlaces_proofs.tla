------------------------- MODULE WebSimPlaces_proofs -------------------------
(***************************************************************************)
(* No thread, no request and no user of the simulator is lost or doubled,  *)
(* whatever the sizes, the policy and the times.  Every handler is first   *)
(* reduced to its effect: the events it takes and creates, and what it     *)
(* does to the cores, the pool and the requests.  The invariants are then  *)
(* proved effect by effect.                                                *)
(***************************************************************************)
EXTENDS WebSim_proofs

-----------------------------------------------------------------------------
(* Sequences without repetition. *)

Distinct(s) == \A i, j \in DOMAIN s : s[i] = s[j] => i = j

LEMMA RemoveDistinct ==
  ASSUME NEW S, NEW s \in Seq(S), NEW i \in DOMAIN s, Distinct(s)
  PROVE  /\ Distinct(RemoveAt(s, i)) /\ RemoveAt(s, i) \in Seq(S)
         /\ ToSet(RemoveAt(s, i)) = ToSet(s) \ {s[i]}
<1> DEFINE q == RemoveAt(s, i)
<1>1. /\ q \in Seq(S) /\ Len(s) \in Nat /\ DOMAIN s = 1 .. Len(s) /\ DOMAIN q = 1 .. Len(s) - 1
      /\ \A j \in 1 .. Len(s) - 1 : q[j] = IF j < i THEN s[j] ELSE s[j + 1]
  BY RemoveAtExact
<1> HIDE DEF q
<1>2. Distinct(q)
  <2> SUFFICES ASSUME NEW j \in 1 .. Len(s) - 1, NEW m \in 1 .. Len(s) - 1, q[j] = q[m]
               PROVE  j = m
    BY <1>1 DEF Distinct
  <2>1. j \in DOMAIN s /\ j + 1 \in DOMAIN s /\ m \in DOMAIN s /\ m + 1 \in DOMAIN s
    BY <1>1
  <2> QED
    BY <1>1, <2>1 DEF Distinct
<1>3. \A j \in 1 .. Len(s) - 1 : q[j] \in ToSet(s) \ {s[i]}
  <2> TAKE j \in 1 .. Len(s) - 1
  <2>1. j \in DOMAIN s /\ j + 1 \in DOMAIN s
    BY <1>1
  <2> QED
    BY <1>1, <2>1 DEF Distinct, ToSet
<1>4. \A x \in ToSet(s) \ {s[i]} : \E j \in 1 .. Len(s) - 1 : q[j] = x
  <2> TAKE x \in ToSet(s) \ {s[i]}
  <2>1. PICK m \in DOMAIN s : x = s[m] /\ m # i
    BY DEF ToSet
  <2>2. CASE m < i
    <3>1. m \in 1 .. Len(s) - 1
      BY <1>1, <2>2
    <3> QED
      BY <1>1, <2>1, <2>2, <3>1
  <2>3. CASE m > i
    <3>1. m - 1 \in 1 .. Len(s) - 1 /\ ~(m - 1 < i) /\ (m - 1) + 1 = m
      BY <1>1, <2>3
    <3> QED
      BY <1>1, <2>1, <3>1
  <2> QED
    BY <1>1, <2>1, <2>2, <2>3
<1>5. ToSet(q) = ToSet(s) \ {s[i]}
  <2>1. \A x : x \in ToSet(q) <=> \E j \in 1 .. Len(s) - 1 : q[j] = x
    BY <1>1 DEF ToSet
  <2> QED
    BY <1>3, <1>4, <2>1
<1> QED
  BY <1>1, <1>2, <1>5 DEF q

LEMMA AppendDistinct ==
  ASSUME NEW S, NEW s \in Seq(S), NEW x \in S
  PROVE  /\ Append(s, x) \in Seq(S) /\ Append(s, x) # <<>>
         /\ ToSet(Append(s, x)) = ToSet(s) \cup {x}
         /\ Distinct(s) /\ x \notin ToSet(s) => Distinct(Append(s, x))
<1> DEFINE q == Append(s, x)
<1>1. /\ q \in Seq(S) /\ q # <<>> /\ Len(s) \in Nat /\ DOMAIN s = 1 .. Len(s)
      /\ DOMAIN q = 1 .. Len(s) + 1 /\ q[Len(s) + 1] = x
      /\ \A j \in 1 .. Len(s) : q[j] = s[j]
  BY AppendProperties, LenProperties
<1> HIDE DEF q
<1>2. ToSet(q) = ToSet(s) \cup {x}
  <2>1. \A j \in 1 .. Len(s) + 1 : j = Len(s) + 1 \/ j \in 1 .. Len(s)
    BY <1>1
  <2>2. Len(s) + 1 \in 1 .. Len(s) + 1 /\ \A j \in 1 .. Len(s) : j \in 1 .. Len(s) + 1
    BY <1>1
  <2> QED
    BY <1>1, <2>1, <2>2 DEF ToSet
<1>3. ASSUME Distinct(s), x \notin ToSet(s) PROVE Distinct(q)
  BY <1>1, <1>3 DEF Distinct, ToSet
<1> QED
  BY <1>1, <1>2, <1>3 DEF q

-----------------------------------------------------------------------------
(* What the operators of Core do to the run queue. *)

Queue(k) == ToSet(core[k].runqueue)

\* The core c has been offered the threads A and is left in the state d,
\* having started the thread x, or none.
Outcome(c, A, d, x) ==
  /\ d.busy_time = c.busy_time /\ Distinct(d.runqueue)
  /\ ToSet(d.runqueue) = (ToSet(c.runqueue) \cup A) \ {x}
  /\ x # NoThread => x \in ToSet(c.runqueue) \cup A
  /\ d.dispatched = IF x = NoThread THEN <<>> ELSE <<x>>
  /\ d.idle => d.runqueue = <<>>

LEMMA ScheduleExact ==
  ASSUME NEW k, NEW rem, NEW c \in CoreRec(k), c.dispatched = <<>>, Distinct(c.runqueue),
         NEW d \in schedule_next_slice(c, rem)
  PROVE  \E x \in Threads \cup {NoThread} : Outcome(c, {}, d, x)
<1>1. c.runqueue \in Seq(ThreadsOf(k))
  BY DEF CoreRec
<1>2. CASE c.runqueue = <<>>
  <2>1. d = [c EXCEPT !.idle = TRUE, !.current_thread = NoThread]
    BY <1>2 DEF schedule_next_slice
  <2>2. /\ d.runqueue = <<>> /\ d.busy_time = c.busy_time /\ d.dispatched = <<>>
    BY <1>2, <2>1 DEF CoreRec
  <2>3. Outcome(c, {}, d, NoThread)
    BY <1>2, <2>2 DEF Outcome, Distinct, ToSet
  <2> QED
    BY <2>3
<1>3. CASE c.runqueue # <<>>
  <2>1. PICK i \in DOMAIN c.runqueue : d = Dispatch(c, i)
    BY <1>3 DEF schedule_next_slice, Tops
  <2> DEFINE x == c.runqueue[i]
  <2>2. /\ ~d.idle /\ d.dispatched = <<x>> /\ x \in ThreadsOf(k)
    BY <2>1, DispatchType
  <2>3. d.runqueue = RemoveAt(c.runqueue, i) /\ d.busy_time = c.busy_time
    BY <2>1 DEF Dispatch, CoreRec
  <2>4. Distinct(d.runqueue) /\ ToSet(d.runqueue) = ToSet(c.runqueue) \ {x}
    BY <1>1, <2>3, RemoveDistinct
  <2>5. x \in ToSet(c.runqueue) /\ x \in Threads /\ x # NoThread
    BY <2>2, SizesAssumption DEF ToSet, ThreadsOf, Threads, NoThread
  <2> HIDE DEF x
  <2>6. Outcome(c, {}, d, x)
    BY <2>2, <2>3, <2>4, <2>5 DEF Outcome
  <2> QED
    BY <2>5, <2>6
<1> QED
  BY <1>2, <1>3

\* The core with one more thread in its queue.
WithThread(c, th) == [c EXCEPT !.runqueue = Append(c.runqueue, th)]

LEMMA Queued ==
  ASSUME NEW k, NEW c \in CoreRec(k), c.dispatched = <<>>, Distinct(c.runqueue),
         NEW th \in ThreadsOf(k), th \notin ToSet(c.runqueue)
  PROVE  LET d == WithThread(c, th)
         IN  /\ d \in CoreRec(k) /\ d.dispatched = <<>> /\ Distinct(d.runqueue)
             /\ d.idle = c.idle /\ d.busy_time = c.busy_time
             /\ d.runqueue # <<>> /\ ToSet(d.runqueue) = ToSet(c.runqueue) \cup {th}
<1> DEFINE q == Append(c.runqueue, th)
           d == [c EXCEPT !.runqueue = q]
<1>1. c.runqueue \in Seq(ThreadsOf(k))
  BY DEF CoreRec
<1>2. /\ q \in Seq(ThreadsOf(k)) /\ q # <<>> /\ Distinct(q)
      /\ ToSet(q) = ToSet(c.runqueue) \cup {th}
  BY <1>1, AppendDistinct
<1> HIDE DEF q
<1>3. /\ d \in CoreRec(k) /\ d.dispatched = <<>> /\ d.runqueue = q
      /\ d.idle = c.idle /\ d.busy_time = c.busy_time
  BY <1>2 DEF CoreRec
<1>4. WithThread(c, th) = d
  BY DEF WithThread, q
<1> HIDE DEF d
<1> QED
  BY <1>2, <1>3, <1>4

LEMMA AddExact ==
  ASSUME NEW k, NEW rem, NEW c \in CoreRec(k), c.dispatched = <<>>, Distinct(c.runqueue),
         NEW th \in ThreadsOf(k), th \notin ToSet(c.runqueue), NEW d \in add_runnable(c, th, rem)
  PROVE  \E x \in Threads \cup {NoThread} : Outcome(c, {th}, d, x) /\ ~d.idle
<1> DEFINE q == WithThread(c, th)
<1>1. /\ q \in CoreRec(k) /\ q.dispatched = <<>> /\ Distinct(q.runqueue)
      /\ q.idle = c.idle /\ q.busy_time = c.busy_time
      /\ q.runqueue # <<>> /\ ToSet(q.runqueue) = ToSet(c.runqueue) \cup {th}
  BY Queued
<1>2. d \in IF c.idle THEN schedule_next_slice(q, rem) ELSE {q}
  BY DEF add_runnable, WithThread
<1> HIDE DEF q
<1>3. CASE c.idle
  <2>1. PICK x \in Threads \cup {NoThread} : Outcome(q, {}, d, x)
    BY <1>1, <1>2, <1>3, ScheduleExact
  <2>2. ~d.idle
    BY <1>1, <1>2, <1>3, ScheduleOutcome DEF Started
  <2>3. Outcome(c, {th}, d, x)
    BY <1>1, <2>1 DEF Outcome
  <2> QED
    BY <2>2, <2>3
<1>4. CASE ~c.idle
  <2>1. NoThread \notin Threads
    BY SizesAssumption DEF Threads, NoThread
  <2>2. ToSet(c.runqueue) \cup {th} \subseteq Threads
    BY ElementOfSeq DEF CoreRec, ThreadsOf, ToSet
  <2>3. Outcome(c, {th}, d, NoThread) /\ ~d.idle
    BY <1>1, <1>2, <1>4, <2>1, <2>2 DEF Outcome
  <2> QED
    BY <2>3
<1> QED
  BY <1>3, <1>4

-----------------------------------------------------------------------------
(* What a handler does to the event queue. *)

\* The events N are new: they come after every event ever created.
New(N, t) ==
  /\ seq_counter' \in Nat /\ seq_counter' >= seq_counter
  /\ \A n \in N : /\ n.seq \in Nat /\ n.seq > seq_counter /\ n.seq <= seq_counter'
                  /\ n.time \in Nat /\ n.time >= t
  /\ \A m, n \in N : m.seq = n.seq => m = n

\* The loop of run takes e, an event of type ty, and its handler creates N.
Handles(e, ty, N) ==
  /\ running = TRUE /\ running' = TRUE
  /\ e \in evq /\ e.type = ty /\ e.time \in Nat /\ e.time <= SIMTIME /\ now' = e.time
  /\ \A f \in evq : Before(e, f)
  /\ evq' = (evq \ {e}) \cup N
  /\ New(N, e.time)

\* n is the event a as it was pushed, with its number.
Stamped(n, a) ==
  /\ n.time = a.time /\ n.type = a.type /\ n.user = a.user /\ n.req = a.req
  /\ n.thread = a.thread /\ n.slice_len = a.slice_len

LEMMA Stamps ==
  ASSUME NEW a \in Event, NEW i \in Nat
  PROVE  LET n == [a EXCEPT !.seq = seq_counter + i]
         IN  Stamped(n, a) /\ n.seq = seq_counter + i /\ n.time \in Nat
  BY DEF Stamped, Event

LEMMA EmitNone ==
  ASSUME TypeOK, NEW e \in evq, NEW ty, Pop(e, ty), running' = running, Emit(e, <<>>)
  PROVE  Handles(e, ty, {})
<1>1. evq' = evq \ {e} /\ seq_counter' = seq_counter /\ seq_counter \in Nat
  BY DEF Emit, TypeOK
<1>2. running = TRUE /\ e.time \in Nat
  BY PopType
<1> QED
  BY <1>1, <1>2 DEF Handles, New, Pop

LEMMA EmitOne ==
  ASSUME TypeOK, NEW e \in evq, NEW ty, Pop(e, ty), running' = running,
         NEW a \in Event, a.time >= e.time, Emit(e, <<a>>)
  PROVE  \E n : Stamped(n, a) /\ Handles(e, ty, {n})
<1> DEFINE n == [a EXCEPT !.seq = seq_counter + 1]
<1>1. evq' = (evq \ {e}) \cup {n} /\ seq_counter' = seq_counter + 1 /\ seq_counter \in Nat
  BY DEF Emit, TypeOK
<1>2. running = TRUE /\ e.time \in Nat
  BY PopType
<1>3. Stamped(n, a) /\ n.seq = seq_counter + 1 /\ n.time \in Nat
  BY Stamps
<1> HIDE DEF n
<1>4. n.time >= e.time
  BY <1>3 DEF Stamped
<1>5. Handles(e, ty, {n})
  BY <1>1, <1>2, <1>3, <1>4 DEF Handles, New, Pop
<1> QED
  BY <1>3, <1>5

LEMMA EmitTwo ==
  ASSUME TypeOK, NEW e \in evq, NEW ty, Pop(e, ty), running' = running,
         NEW a \in Event, a.time >= e.time, NEW b \in Event, b.time >= e.time,
         Emit(e, <<a, b>>)
  PROVE  \E m, n : Stamped(m, a) /\ Stamped(n, b) /\ Handles(e, ty, {m, n})
<1> DEFINE m == [a EXCEPT !.seq = seq_counter + 1]
           n == [b EXCEPT !.seq = seq_counter + 2]
           es == <<a, b>>
<1>1. seq_counter' = seq_counter + 2 /\ seq_counter \in Nat
  BY DEF Emit, TypeOK
<1>2. evq' = (evq \ {e}) \cup {m, n}
  <2>1. DOMAIN es = {1, 2} /\ es[1] = a /\ es[2] = b
    OBVIOUS
  <2>2. evq' = (evq \ {e}) \cup {[es[i] EXCEPT !.seq = seq_counter + i] : i \in DOMAIN es}
    BY DEF Emit
  <2> HIDE DEF es
  <2>3. {[es[i] EXCEPT !.seq = seq_counter + i] : i \in DOMAIN es} = {m, n}
    BY <2>1
  <2> QED
    BY <2>2, <2>3
<1>3. running = TRUE /\ e.time \in Nat
  BY PopType
<1>4. /\ Stamped(m, a) /\ m.seq = seq_counter + 1 /\ m.time \in Nat
      /\ Stamped(n, b) /\ n.seq = seq_counter + 2 /\ n.time \in Nat
  BY Stamps
<1> HIDE DEF m, n
<1>5. m.time >= e.time /\ n.time >= e.time
  BY <1>4 DEF Stamped
<1>6. Handles(e, ty, {m, n})
  BY <1>1, <1>2, <1>3, <1>4, <1>5 DEF Handles, New, Pop
<1> QED
  BY <1>4, <1>6

\* S are the starts of slices a handler creates at time t: one, of the thread
\* x, or none.
Starting(S, x, t) ==
  IF x = NoThread THEN S = {}
  ELSE \E s : /\ S = {s} /\ s.type = "THREAD_SLICE_START" /\ s.thread = x /\ s.time = t

\* A handler that dispatches x, or no thread, and creates nothing else.
LEMMA EmitStarts ==
  ASSUME TypeOK, NEW e \in evq, NEW ty, Pop(e, ty), running' = running,
         NEW x \in Threads \cup {NoThread}, NEW c,
         c.dispatched = IF x = NoThread THEN <<>> ELSE <<x>>,
         Emit(e, SliceStarts(e.time, c))
  PROVE  \E S : Starting(S, x, e.time) /\ Handles(e, ty, S)
<1>1. CASE x = NoThread
  <2>1. Emit(e, <<>>)
    BY <1>1, StartsCases
  <2> QED
    BY <1>1, <2>1, EmitNone DEF Starting
<1>2. CASE x # NoThread
  <2> DEFINE a == SliceStart(e.time, x)
  <2>1. a \in Event /\ a.type = "THREAD_SLICE_START" /\ a.thread = x /\ a.time = e.time
        /\ e.time \in Nat /\ a.time >= e.time
    <3>1. x \in Threads /\ e.time \in Nat
      BY <1>2, PopType
    <3>2. ReqIds \subseteq Nat
      BY DEF ReqIds
    <3>3. a \in EventOf(ReqIds)
      BY <3>1, <3>2, EventConstructors
    <3> QED
      BY <3>1, <3>3 DEF EventOf, SliceStart, Ev
  <2>2. Emit(e, <<a>>)
    BY <1>2, StartsCases
  <2> HIDE DEF a
  <2>3. PICK n : Stamped(n, a) /\ Handles(e, ty, {n})
    BY <2>1, <2>2, EmitOne
  <2> QED
    BY <1>2, <2>1, <2>3 DEF Starting, Stamped
<1> QED
  BY <1>1, <1>2

\* A handler that also creates the event b.
LEMMA EmitStartsAnd ==
  ASSUME TypeOK, NEW e \in evq, NEW ty, Pop(e, ty), running' = running,
         NEW x \in Threads \cup {NoThread}, NEW c,
         c.dispatched = IF x = NoThread THEN <<>> ELSE <<x>>,
         NEW b \in Event, b.time >= e.time,
         \/ Emit(e, Append(SliceStarts(e.time, c), b))
         \/ Emit(e, <<b>> \o SliceStarts(e.time, c))
  PROVE  \E S, n : Starting(S, x, e.time) /\ Stamped(n, b) /\ Handles(e, ty, S \cup {n})
<1>1. CASE x = NoThread
  <2>1. Emit(e, <<b>>)
    BY <1>1, StartsCases, ShortSequences
  <2>2. PICK n : Stamped(n, b) /\ Handles(e, ty, {n})
    BY <2>1, EmitOne
  <2>3. {n} = {} \cup {n}
    OBVIOUS
  <2> QED
    BY <1>1, <2>2, <2>3 DEF Starting
<1>2. CASE x # NoThread
  <2> DEFINE a == SliceStart(e.time, x)
  <2>1. a \in Event /\ a.type = "THREAD_SLICE_START" /\ a.thread = x /\ a.time = e.time
        /\ e.time \in Nat /\ a.time >= e.time
    <3>1. x \in Threads /\ e.time \in Nat
      BY <1>2, PopType
    <3>2. ReqIds \subseteq Nat
      BY DEF ReqIds
    <3>3. a \in EventOf(ReqIds)
      BY <3>1, <3>2, EventConstructors
    <3> QED
      BY <3>1, <3>3 DEF EventOf, SliceStart, Ev
  <2>2. Emit(e, <<a, b>>) \/ Emit(e, <<b, a>>)
    <3>1. SliceStarts(e.time, c) = <<a>>
      BY <1>2, StartsCases
    <3> HIDE DEF a
    <3>2. Append(<<a>>, b) = <<a, b>> /\ <<b>> \o <<a>> = <<b, a>>
      BY ShortSequences
    <3> QED
      BY <3>1, <3>2
  <2> HIDE DEF a
  <2>3. PICK m, n : Stamped(m, a) /\ Stamped(n, b) /\ Handles(e, ty, {m} \cup {n})
    <3>1. CASE Emit(e, <<a, b>>)
      <4>1. PICK m, n : Stamped(m, a) /\ Stamped(n, b) /\ Handles(e, ty, {m, n})
        BY <2>1, <3>1, EmitTwo
      <4>2. {m, n} = {m} \cup {n}
        OBVIOUS
      <4> QED
        BY <4>1, <4>2
    <3>2. CASE Emit(e, <<b, a>>)
      <4>1. PICK n, m : Stamped(n, b) /\ Stamped(m, a) /\ Handles(e, ty, {n, m})
        BY <2>1, <3>2, EmitTwo
      <4>2. {n, m} = {m} \cup {n}
        OBVIOUS
      <4>3. Handles(e, ty, {m} \cup {n})
        BY <4>1, <4>2
      <4> QED
        BY <4>1, <4>3
    <3> QED
      BY <2>2, <3>1, <3>2
  <2>4. Starting({m}, x, e.time)
    BY <1>2, <2>1, <2>3 DEF Starting, Stamped
  <2> QED
    BY <2>3, <2>4
<1> QED
  BY <1>1, <1>2

-----------------------------------------------------------------------------
(* Where the threads are. *)

ThreadEvs == {e \in evq : e.type \in ThreadTypes}

\* A thread that holds a request is in the run queue of its core or has one
\* event, and a thread of the pool is in neither.
ThreadsPlaced ==
  /\ \A k \in Cores : /\ Distinct(core[k].runqueue)
                      /\ \A th \in Queue(k) : thread_req[th] # NoReq
  /\ \A e \in ThreadEvs : /\ thread_req[e.thread] # NoReq
                          /\ e.thread \notin Queue(CoreOf(e.thread))
  /\ \A e, f \in ThreadEvs : e.thread = f.thread => e = f
  /\ running => \A th \in Threads : thread_req[th] # NoReq =>
                  th \in Queue(CoreOf(th)) \/ \E e \in ThreadEvs : e.thread = th

\* What the effects below rest on.
Steady == PoolInv /\ OneSlicePerCore /\ ThreadsPlaced

-----------------------------------------------------------------------------
(* The effects of the handlers. *)

\* The threads A have joined the queue of core k and x, if it is a thread, has
\* left it.
QueueBecomes(k, A, x) ==
  /\ \A j \in Cores \ {k} : core'[j].runqueue = core[j].runqueue
  /\ Distinct(core'[k].runqueue)
  /\ Queue(k)' = (Queue(k) \cup A) \ {x}
  /\ x # NoThread => x \in Queue(k) \cup A

\* Core k was offered the threads A and has started x, or no thread.
CoreBecomes(k, A, x) ==
  /\ QueueBecomes(k, A, x)
  /\ \A j \in Cores \ {k} : core'[j] = core[j]
  /\ core'[k].idle => core'[k].runqueue = <<>>

\* The event e of a user creates its next request.
Creates(e) ==
  /\ e.user \in Users
  /\ \E service \in ServiceTimes, timeout \in Timeouts :
       all_requests' = Append(all_requests, NewRequest(e.user, e.time, service, timeout))
  /\ UNCHANGED <<completed_requests, timedout_requests>>

IsArrival(n, u) == n.type = "USER_ARRIVAL" /\ n.user = u
IsDeadline(n) ==
  /\ n.type = "CHECK_TIMEOUT" /\ n.req = NextId
  /\ n.time = all_requests'[NextId].timeout_deadline

RunsEffect(e) ==
  /\ Creates(e) /\ Admits
  /\ LET h == Head(free_threads)
         k == CoreOf(h)
     IN  \E x \in Threads \cup {NoThread} : \E S, n :
           /\ Handles(e, "USER_ARRIVAL", S \cup {n})
           /\ Starting(S, x, e.time) /\ IsDeadline(n)
           /\ CoreBecomes(k, {h}, x)
           /\ ~core'[k].idle /\ core'[k].busy_time = core[k].busy_time

WaitsEffect(e) ==
  /\ Creates(e) /\ Queues /\ UNCHANGED core
  /\ \E n : Handles(e, "USER_ARRIVAL", {n}) /\ IsDeadline(n)

DroppedEffect(e) ==
  /\ Creates(e) /\ Drops /\ UNCHANGED core
  /\ \E n : Handles(e, "USER_ARRIVAL", {n}) /\ IsArrival(n, e.user)

StartsEffect(e) ==
  /\ UNCHANGED <<core, all_requests, free_threads, thread_req, waiting_requests,
                 dropped_requests, completed_requests, timedout_requests>>
  /\ \E n : /\ Handles(e, "THREAD_SLICE_START", {n})
            /\ n.type = "THREAD_SLICE_END" /\ n.thread = e.thread
            /\ n.slice_len = Shorter(QUANTUM, all_requests[thread_req[e.thread]].service_remaining)
            /\ n.slice_len \in Nat /\ n.time = e.time + n.slice_len

CompletesEffect(e) ==
  /\ LeftAfter(e) <= DoneEps /\ Releases(e.thread)
  /\ all_requests' = [all_requests EXCEPT
                        ![thread_req[e.thread]] = mark_completed(@, e.time)]
  /\ UNCHANGED <<completed_requests, timedout_requests>>
  /\ LET k == CoreOf(e.thread)
     IN  /\ core'[k].busy_time = Accounted(e).busy_time
         /\ \E x \in Threads \cup {NoThread} : \E S, n :
              /\ Handles(e, "THREAD_SLICE_END", S \cup {n})
              /\ Starting(S, x, e.time)
              /\ n.type = "REQUEST_COMPLETE" /\ n.req = thread_req[e.thread] /\ n.time = e.time
              /\ CoreBecomes(k, IF waiting_requests = <<>> THEN {} ELSE {e.thread}, x)

PreemptsEffect(e) ==
  /\ LeftAfter(e) > DoneEps /\ LeftAfter(e) \in Nat
  /\ all_requests' = [all_requests EXCEPT
                        ![thread_req[e.thread]].service_remaining = LeftAfter(e)]
  /\ UNCHANGED <<free_threads, thread_req, waiting_requests, dropped_requests,
                 completed_requests, timedout_requests>>
  /\ LET k == CoreOf(e.thread)
     IN  /\ \A j \in Cores \ {k} : core'[j] = core[j]
         /\ core'[k].runqueue = core[k].runqueue
         /\ core'[k].busy_time = Accounted(e).busy_time
         /\ \E n : /\ Handles(e, "THREAD_SLICE_END", {n})
                   /\ n.type = "THREAD_AVAILABLE" /\ n.thread = e.thread
                   /\ n.time = e.time + CONTEXT_SWITCH_OVERHEAD

AvailableEffect(e) ==
  /\ UNCHANGED <<all_requests, free_threads, thread_req, waiting_requests,
                 dropped_requests, completed_requests, timedout_requests>>
  /\ LET k == CoreOf(e.thread)
     IN  \E x \in Threads \cup {NoThread} : \E S :
           /\ Handles(e, "THREAD_AVAILABLE", S)
           /\ Starting(S, x, e.time)
           /\ CoreBecomes(k, {e.thread}, x)
           /\ ~core'[k].idle /\ core'[k].busy_time = core[k].busy_time

\* Neither the pool nor a core notices.
ServerKept == UNCHANGED <<core, free_threads, thread_req, waiting_requests, dropped_requests>>

InTimeEffect(e) ==
  /\ ServerKept /\ ~TooLate(e.req, e.time)
  /\ all_requests' = [all_requests EXCEPT ![e.req].completion_time = e.time]
  /\ completed_requests' = Append(completed_requests, e.req)
  /\ UNCHANGED timedout_requests
  /\ \/ ~CLOSED_LOOP /\ Handles(e, "REQUEST_COMPLETE", {})
     \/ CLOSED_LOOP /\ \E n : /\ Handles(e, "REQUEST_COMPLETE", {n})
                              /\ IsArrival(n, all_requests[e.req].user_id)

LateEffect(e) ==
  /\ ServerKept /\ TooLate(e.req, e.time)
  /\ all_requests' = [all_requests EXCEPT ![e.req].timed_out = TRUE]
  /\ timedout_requests' = Append(timedout_requests, e.req)
  /\ UNCHANGED completed_requests
  /\ Handles(e, "REQUEST_COMPLETE", {})

IgnoredEffect(e) ==
  /\ ServerKept /\ all_requests[e.req].service_remaining <= CheckEps
  /\ UNCHANGED <<all_requests, completed_requests, timedout_requests>>
  /\ Handles(e, "CHECK_TIMEOUT", {})

GivesUpEffect(e) ==
  /\ ServerKept /\ all_requests[e.req].service_remaining > CheckEps
  /\ all_requests' = [all_requests EXCEPT ![e.req].timed_out = TRUE]
  /\ UNCHANGED <<completed_requests, timedout_requests>>
  /\ \E n : Handles(e, "CHECK_TIMEOUT", {n}) /\ IsArrival(n, all_requests[e.req].user_id)

\* The effect of handling the event e.
Effect(e) ==
  \/ RunsEffect(e) \/ WaitsEffect(e) \/ DroppedEffect(e)
  \/ StartsEffect(e) \/ CompletesEffect(e) \/ PreemptsEffect(e) \/ AvailableEffect(e)
  \/ InTimeEffect(e) \/ LateEffect(e) \/ IgnoredEffect(e) \/ GivesUpEffect(e)

-----------------------------------------------------------------------------
(* Every handler has its effect. *)

\* A core between two handlers, and its queue.
LEMMA CoreFacts ==
  ASSUME Steady, NEW k \in Cores
  PROVE  /\ core[k] \in CoreRec(k) /\ core[k].dispatched = <<>> /\ Distinct(core[k].runqueue)
         /\ Queue(k) \subseteq ThreadsOf(k) /\ Queue(k) \subseteq Threads
         /\ \A th \in Queue(k) : thread_req[th] # NoReq /\ CoreOf(th) = k
<1>1. core[k] \in CoreRec(k) /\ core[k].dispatched = <<>>
  BY CoreIsRec DEF Steady, PoolInv
<1>2. Queue(k) \subseteq ThreadsOf(k)
  BY <1>1, ElementOfSeq DEF CoreRec, Queue, ToSet
<1>3. /\ Distinct(core[k].runqueue)
      /\ \A th \in Queue(k) : thread_req[th] # NoReq
  BY DEF Steady, ThreadsPlaced
<1> QED
  BY <1>1, <1>2, <1>3 DEF ThreadsOf

LEMMA SetCoreExact ==
  ASSUME Steady, NEW k \in Cores, NEW c \in CoreRec(k), c.runqueue = core[k].runqueue,
         NEW d \in CoreRec(k), SetCore(k, d), NEW A, NEW x, Outcome(c, A, d, x)
  PROVE  CoreBecomes(k, A, x) /\ core'[k].busy_time = c.busy_time /\ core'[k].idle = d.idle
<1>1. /\ \A j \in Cores \ {k} : core'[j] = core[j]
      /\ core'[k].runqueue = d.runqueue /\ core'[k].idle = d.idle
      /\ core'[k].busy_time = d.busy_time
  BY DEF SetCore, Steady, PoolInv, TypeOK, CoreRec
<1> QED
  BY <1>1 DEF CoreBecomes, QueueBecomes, Outcome, Queue

\* A thread event, and the thread in the hands of its handler.
LEMMA ThreadEventFacts ==
  ASSUME Steady, NEW e \in evq, NEW ty \in ThreadTypes, Pop(e, ty)
  PROVE  /\ e.thread \in Threads /\ CoreOf(e.thread) \in Cores
         /\ e.thread \in ThreadsOf(CoreOf(e.thread)) /\ e.thread \notin Queue(CoreOf(e.thread))
         /\ thread_req[e.thread] # NoReq /\ thread_req[e.thread] \in ReqIds
         /\ all_requests[thread_req[e.thread]] \in Request
         /\ running /\ e.time \in Nat /\ e.slice_len \in Nat /\ e \in ThreadEvs
<1>1. e \in ThreadEvs
  BY DEF ThreadEvs, Pop
<1>2. thread_req[e.thread] # NoReq /\ e.thread \notin Queue(CoreOf(e.thread))
  BY <1>1 DEF Steady, ThreadsPlaced
<1>3. TypeOK
  BY DEF Steady, PoolInv
<1> QED
  BY <1>1, <1>2, <1>3, SliceEventType, PopType

\* The request of an arrival and its deadline.
LEMMA ArrivesFacts ==
  ASSUME TypeOK, NEW e \in evq, Arrives(e)
  PROVE  /\ Creates(e) /\ Pop(e, "USER_ARRIVAL") /\ running' = running /\ e.time \in Nat
         /\ NextId \in ReqIds' /\ NextId \in Nat /\ Len(all_requests)' = NextId
         /\ LET d == all_requests'[NextId].timeout_deadline
                c == CheckTimeout(d, NextId)
            IN  /\ d \in Nat /\ d >= e.time /\ c \in Event /\ c.time = d
                /\ c.type = "CHECK_TIMEOUT" /\ c.req = NextId
<1>1. PICK service \in ServiceTimes, timeout \in Timeouts :
        all_requests' = Append(all_requests, NewRequest(e.user, e.time, service, timeout))
  BY DEF Arrives
<1>2. /\ e.user \in Users /\ e.time \in Nat /\ Pop(e, "USER_ARRIVAL") /\ running' = running
      /\ NextId \in ReqIds' /\ NextId \in Nat
      /\ UNCHANGED <<completed_requests, timedout_requests>>
  BY ArrivesType DEF Arrives, NextId
<1>3. Creates(e)
  BY <1>1, <1>2 DEF Creates
<1> DEFINE q == NewRequest(e.user, e.time, service, timeout)
<1>4. q \in Request
  BY <1>2, TimesAssumption DEF NewRequest, Request
<1>5. all_requests'[NextId] = q /\ Len(all_requests') = NextId
  BY <1>1, <1>4, AppendProperties DEF TypeOK, NextId
<1>6. q.timeout_deadline = e.time + timeout /\ timeout \in Nat
  BY TimesAssumption DEF NewRequest
<1> HIDE DEF q
<1> DEFINE d == all_requests'[NextId].timeout_deadline
           c == CheckTimeout(d, NextId)
<1>7. d \in Nat /\ d >= e.time
  BY <1>2, <1>5, <1>6
<1> HIDE DEF d
<1>8. c \in EventOf(ReqIds')
  <2>1. ReqIds' \subseteq Nat
    BY DEF ReqIds
  <2> QED
    BY <1>2, <1>7, <2>1, EventConstructors
<1>9. c \in Event /\ c.time = d /\ c.type = "CHECK_TIMEOUT" /\ c.req = NextId
  BY <1>8 DEF EventOf, CheckTimeout, Ev
<1> QED
  BY <1>2, <1>3, <1>5, <1>7, <1>9 DEF d

LEMMA RunsHasEffect == ASSUME Steady, ArrivalRuns PROVE \E e \in evq : RunsEffect(e)
<1> DEFINE h == Head(free_threads)
           k == CoreOf(h)
           b == CheckTimeout(all_requests'[NextId].timeout_deadline, NextId)
<1>1. PICK e \in evq :
        /\ Arrives(e)
        /\ thread_req' = [thread_req EXCEPT ![h] = NextId]
        /\ \E c \in add_runnable(core[k], h, Remaining') :
             SetCore(k, c) /\ Emit(e, Append(SliceStarts(e.time, c), b))
  BY DEF ArrivalRuns, NextId
<1>2. PICK c \in add_runnable(core[k], h, Remaining') :
        SetCore(k, c) /\ Emit(e, Append(SliceStarts(e.time, c), b))
  BY <1>1
<1>3. TypeOK
  BY DEF Steady, PoolInv
<1>4. /\ Creates(e) /\ Pop(e, "USER_ARRIVAL") /\ running' = running /\ e.time \in Nat
      /\ Len(all_requests)' = NextId /\ b \in Event /\ b.time >= e.time
      /\ b.time = all_requests'[NextId].timeout_deadline
      /\ b.type = "CHECK_TIMEOUT" /\ b.req = NextId
  BY <1>1, <1>3, ArrivesFacts
<1> HIDE DEF b
<1>5. Admits
  BY <1>1, <1>4 DEF ArrivalRuns, Admits
<1>6. h \in Threads /\ k \in Cores /\ h \in ThreadsOf(k) /\ thread_req[h] = NoReq
  <2>1. /\ 1 \in DOMAIN free_threads /\ free_threads[1] \in Threads /\ h = free_threads[1]
    BY <1>3, PoolTypes, EmptySeq, LenProperties, ElementOfSeq, HeadTailProperties DEF ArrivalRuns
  <2> HIDE DEF h
  <2>2. thread_req[h] = NoReq
    BY <2>1 DEF Steady, PoolInv, PoolExact
  <2> QED
    BY <2>1, <2>2, CoreOfType DEF ThreadsOf
<1> HIDE DEF h, k
<1>7. /\ core[k] \in CoreRec(k) /\ core[k].dispatched = <<>> /\ Distinct(core[k].runqueue)
      /\ h \notin ToSet(core[k].runqueue)
  BY <1>6, CoreFacts DEF Queue
<1>8. PICK x \in Threads \cup {NoThread} : Outcome(core[k], {h}, c, x) /\ ~c.idle
  BY <1>2, <1>6, <1>7, AddExact
<1>9. c \in CoreRec(k)
  BY <1>2, <1>6, <1>7, AddOutcome
<1>10. CoreBecomes(k, {h}, x) /\ ~core'[k].idle /\ core'[k].busy_time = core[k].busy_time
  BY <1>2, <1>6, <1>7, <1>8, <1>9, SetCoreExact
<1>11. PICK S, n : Starting(S, x, e.time) /\ Stamped(n, b) /\ Handles(e, "USER_ARRIVAL", S \cup {n})
  <2>1. c.dispatched = IF x = NoThread THEN <<>> ELSE <<x>>
    BY <1>8 DEF Outcome
  <2> QED
    BY <1>2, <1>3, <1>4, <2>1, EmitStartsAnd
<1>12. IsDeadline(n)
  BY <1>4, <1>11 DEF Stamped, IsDeadline
<1> QED
  BY <1>4, <1>5, <1>10, <1>11, <1>12 DEF RunsEffect, h, k

LEMMA WaitsHasEffect == ASSUME Steady, ArrivalWaits PROVE \E e \in evq : WaitsEffect(e)
<1> DEFINE b == CheckTimeout(all_requests'[NextId].timeout_deadline, NextId)
<1>1. PICK e \in evq :
        Arrives(e) /\ waiting_requests' = Append(waiting_requests, NextId) /\ Emit(e, <<b>>)
  BY DEF ArrivalWaits, NextId
<1>2. TypeOK
  BY DEF Steady, PoolInv
<1>3. /\ Creates(e) /\ Pop(e, "USER_ARRIVAL") /\ running' = running
      /\ Len(all_requests)' = NextId /\ b \in Event /\ b.time >= e.time
      /\ b.time = all_requests'[NextId].timeout_deadline
      /\ b.type = "CHECK_TIMEOUT" /\ b.req = NextId
  BY <1>1, <1>2, ArrivesFacts
<1> HIDE DEF b
<1>4. PICK n : Stamped(n, b) /\ Handles(e, "USER_ARRIVAL", {n})
  BY <1>1, <1>2, <1>3, EmitOne
<1>5. IsDeadline(n)
  BY <1>3, <1>4 DEF Stamped, IsDeadline
<1>6. Queues /\ UNCHANGED core
  BY <1>1, <1>3 DEF ArrivalWaits, Queues
<1> QED
  BY <1>3, <1>4, <1>5, <1>6 DEF WaitsEffect

\* The next arrival of a user.
LEMMA NextArrivalFacts ==
  ASSUME NEW t \in Nat, NEW u \in Users, NEW think \in ThinkTimes
  PROVE  LET a == UserArrival(t + think, u)
         IN  a \in Event /\ a.time >= t /\ IsArrival(a, u)
<1>1. t + think \in Nat /\ t + think >= t
  BY TimesAssumption
<1>2. UserArrival(t + think, u) \in EventOf({})
  BY <1>1, EventConstructors
<1> QED
  BY <1>1, <1>2 DEF EventOf, UserArrival, Ev, IsArrival

LEMMA DroppedHasEffect == ASSUME Steady, ArrivalDropped PROVE \E e \in evq : DroppedEffect(e)
<1>1. PICK e \in evq, think \in ThinkTimes :
        Arrives(e) /\ Emit(e, <<UserArrival(e.time + think, e.user)>>)
  BY DEF ArrivalDropped
<1> DEFINE b == UserArrival(e.time + think, e.user)
<1>2. TypeOK
  BY DEF Steady, PoolInv
<1>3. /\ Creates(e) /\ Pop(e, "USER_ARRIVAL") /\ running' = running
      /\ Len(all_requests)' = NextId /\ e.time \in Nat
  BY <1>1, <1>2, ArrivesFacts
<1>4. b \in Event /\ b.time >= e.time /\ IsArrival(b, e.user)
  BY <1>3, NextArrivalFacts DEF Creates
<1>5. Emit(e, <<b>>)
  BY <1>1
<1> HIDE DEF b
<1>6. PICK n : Stamped(n, b) /\ Handles(e, "USER_ARRIVAL", {n})
  BY <1>2, <1>3, <1>4, <1>5, EmitOne
<1>7. IsArrival(n, e.user)
  BY <1>4, <1>6 DEF Stamped, IsArrival
<1>8. Drops /\ UNCHANGED core
  BY <1>3 DEF ArrivalDropped, Drops
<1> QED
  BY <1>3, <1>6, <1>7, <1>8 DEF DroppedEffect

\* A thread event is an event of one of the three kinds.
LEMMA ThreadKinds == /\ "THREAD_SLICE_START" \in ThreadTypes /\ "THREAD_SLICE_END" \in ThreadTypes
                     /\ "THREAD_AVAILABLE" \in ThreadTypes
  BY DEF ThreadTypes, SliceTypes

LEMMA StartsHasEffect ==
  ASSUME Steady, handle_thread_slice_start PROVE \E e \in evq : StartsEffect(e)
<1>1. PICK e \in evq :
        /\ Pop(e, "THREAD_SLICE_START")
        /\ thread_req[e.thread] # NoReq =>
             LET sl == Shorter(QUANTUM, all_requests[thread_req[e.thread]].service_remaining)
             IN  /\ SetCore(CoreOf(e.thread), core[CoreOf(e.thread)])
                 /\ Emit(e, <<SliceEnd(e.time + sl, e.thread, sl)>>)
  BY DEF handle_thread_slice_start
<1> DEFINE th == e.thread
           k  == CoreOf(th)
           sl == Shorter(QUANTUM, all_requests[thread_req[th]].service_remaining)
           b  == SliceEnd(e.time + sl, th, sl)
<1>2. TypeOK
  BY DEF Steady, PoolInv
<1>3. /\ th \in Threads /\ k \in Cores /\ thread_req[th] # NoReq /\ e.time \in Nat
      /\ all_requests[thread_req[th]] \in Request
  BY <1>1, ThreadEventFacts, ThreadKinds
<1>4. sl \in Nat
  BY <1>3, TimesAssumption DEF Shorter, Request
<1>5. SetCore(k, core[k]) /\ Emit(e, <<b>>)
  BY <1>1, <1>3
<1>6. core' = core
  <2>1. core[k] \in CoreState /\ core[k] = [core[k] EXCEPT !.dispatched = <<>>]
    BY <1>2, <1>3 DEF TypeOK, CoreState
  <2> QED
    BY <1>2, <1>3, <1>5, <2>1 DEF SetCore, TypeOK
<1>7. /\ b \in Event /\ b.time = e.time + sl /\ b.time >= e.time /\ b.slice_len = sl
      /\ b.type = "THREAD_SLICE_END" /\ b.thread = th
  <2>1. e.time + sl \in Nat /\ e.time + sl >= e.time
    BY <1>3, <1>4
  <2> HIDE DEF sl, k
  <2>2. b \in EventOf({})
    BY <1>3, <1>4, <2>1, EventConstructors
  <2> QED
    BY <2>1, <2>2 DEF EventOf, SliceEnd, Ev
<1>8. running' = running
  BY DEF handle_thread_slice_start
<1> HIDE DEF b
<1>9. PICK n : Stamped(n, b) /\ Handles(e, "THREAD_SLICE_START", {n})
  BY <1>1, <1>2, <1>5, <1>7, <1>8, EmitOne
<1>10. /\ n.type = "THREAD_SLICE_END" /\ n.thread = th /\ n.slice_len = sl
       /\ n.slice_len \in Nat /\ n.time = e.time + n.slice_len
  BY <1>4, <1>7, <1>9 DEF Stamped
<1>11. UNCHANGED <<all_requests, free_threads, thread_req, waiting_requests,
                   dropped_requests, completed_requests, timedout_requests>>
  BY DEF handle_thread_slice_start
<1> QED
  BY <1>6, <1>9, <1>10, <1>11 DEF StartsEffect

LEMMA AvailableHasEffect ==
  ASSUME Steady, handle_thread_available PROVE \E e \in evq : AvailableEffect(e)
<1>1. PICK e \in evq :
        /\ Pop(e, "THREAD_AVAILABLE")
        /\ \E c1 \in add_runnable(core[CoreOf(e.thread)], e.thread, Remaining) :
           \E c2 \in IF c1.idle THEN schedule_next_slice(c1, Remaining) ELSE {c1} :
             /\ SetCore(CoreOf(e.thread), c2)
             /\ Emit(e, SliceStarts(e.time, c2))
  BY DEF handle_thread_available
<1> DEFINE th == e.thread
           k  == CoreOf(th)
<1>2. TypeOK
  BY DEF Steady, PoolInv
<1>3. k \in Cores /\ th \in ThreadsOf(k) /\ th \notin Queue(k)
  BY <1>1, ThreadEventFacts, ThreadKinds
<1>4. PICK c \in add_runnable(core[k], th, Remaining) :
        \E c2 \in IF c.idle THEN schedule_next_slice(c, Remaining) ELSE {c} :
          SetCore(k, c2) /\ Emit(e, SliceStarts(e.time, c2))
  BY <1>1
<1> HIDE DEF k, th
<1>5. /\ core[k] \in CoreRec(k) /\ core[k].dispatched = <<>> /\ Distinct(core[k].runqueue)
      /\ th \notin ToSet(core[k].runqueue)
  BY <1>3, CoreFacts DEF Queue
<1>6. PICK x \in Threads \cup {NoThread} : Outcome(core[k], {th}, c, x) /\ ~c.idle
  BY <1>3, <1>4, <1>5, AddExact
<1>7. c \in CoreRec(k)
  BY <1>3, <1>4, <1>5, AddOutcome
<1>8. SetCore(k, c) /\ Emit(e, SliceStarts(e.time, c))
  BY <1>4, <1>6
<1>9. CoreBecomes(k, {th}, x) /\ ~core'[k].idle /\ core'[k].busy_time = core[k].busy_time
  BY <1>3, <1>5, <1>6, <1>7, <1>8, SetCoreExact
<1>10. running' = running
  BY DEF handle_thread_available
<1>11. PICK S : Starting(S, x, e.time) /\ Handles(e, "THREAD_AVAILABLE", S)
  <2>1. c.dispatched = IF x = NoThread THEN <<>> ELSE <<x>>
    BY <1>6 DEF Outcome
  <2> QED
    BY <1>1, <1>2, <1>8, <1>10, <2>1, EmitStarts
<1>12. UNCHANGED <<all_requests, free_threads, thread_req, waiting_requests,
                   dropped_requests, completed_requests, timedout_requests>>
  BY DEF handle_thread_available
<1> QED
  BY <1>9, <1>11, <1>12 DEF AvailableEffect, k, th

\* A core with its slice accounted has the queue it had.
LEMMA AccountedFacts ==
  ASSUME Steady, NEW e \in evq, NEW ty \in ThreadTypes, Pop(e, ty)
  PROVE  LET k == CoreOf(e.thread)
             c == Accounted(e)
         IN  /\ c \in CoreRec(k) /\ c.dispatched = <<>>
             /\ c.idle = core[k].idle /\ c.runqueue = core[k].runqueue
<1> DEFINE k == CoreOf(e.thread)
<1>1. Accounted(e) \in CoreRec(k) /\ Accounted(e).dispatched = <<>> /\ Accounted(e).idle = core[k].idle
  BY AccountedType DEF Steady, PoolInv
<1>2. core[k] \in CoreRec(k)
  BY ThreadEventFacts, CoreFacts
<1>3. Accounted(e).runqueue = core[k].runqueue
  <2>1. \A b : [core[k] EXCEPT !.busy_time = b].runqueue = core[k].runqueue
    BY <1>2 DEF CoreRec
  <2> QED
    BY <2>1 DEF Accounted
<1> QED
  BY <1>1, <1>3

LEMMA CompletesHasEffect ==
  ASSUME Steady, SliceEndCompletes PROVE \E e \in evq : CompletesEffect(e)
<1>1. PICK e \in evq :
        /\ Pop(e, "THREAD_SLICE_END")
        /\ thread_req[e.thread] # NoReq
        /\ LeftAfter(e) <= DoneEps
        /\ all_requests' = [all_requests EXCEPT
                              ![thread_req[e.thread]] = mark_completed(@, e.time)]
        /\ release_thread_to_pool(e.thread)
        /\ \E c1 \in IF waiting_requests = <<>> THEN {Accounted(e)}
                    ELSE add_runnable(Accounted(e), e.thread, Remaining') :
           \E c2 \in schedule_next_slice(c1, Remaining') :
             /\ SetCore(CoreOf(e.thread), c2)
             /\ Emit(e, <<RequestComplete(e.time, thread_req[e.thread])>>
                          \o SliceStarts(e.time, c2))
  BY DEF SliceEndCompletes
<1> DEFINE th == e.thread
           k  == CoreOf(th)
           r  == thread_req[th]
           c0 == Accounted(e)
           b  == RequestComplete(e.time, r)
           A  == IF waiting_requests = <<>> THEN {} ELSE {th}
<1>2. PICK c1 \in IF waiting_requests = <<>> THEN {c0} ELSE add_runnable(c0, th, Remaining') :
      \E c2 \in schedule_next_slice(c1, Remaining') :
        SetCore(k, c2) /\ Emit(e, <<b>> \o SliceStarts(e.time, c2))
  BY <1>1
<1>3. PICK c2 \in schedule_next_slice(c1, Remaining') :
        SetCore(k, c2) /\ Emit(e, <<b>> \o SliceStarts(e.time, c2))
  BY <1>2
<1>4. TypeOK /\ running' = running
      /\ UNCHANGED <<completed_requests, timedout_requests, dropped_requests>>
  BY DEF Steady, PoolInv, SliceEndCompletes
<1>5. /\ th \in Threads /\ k \in Cores /\ th \in ThreadsOf(k) /\ th \notin Queue(k)
      /\ r \in ReqIds /\ r # NoReq /\ e.time \in Nat /\ running
  BY <1>1, ThreadEventFacts, ThreadKinds
<1>6. /\ c0 \in CoreRec(k) /\ c0.dispatched = <<>> /\ ~c0.idle
      /\ c0.runqueue = core[k].runqueue /\ Distinct(c0.runqueue)
  <2>1. ~core[k].idle
    BY <1>1, <1>4, SliceEventCore DEF SliceTypes, Steady
  <2> QED
    BY <1>1, <1>5, <2>1, AccountedFacts, CoreFacts, ThreadKinds
<1>7. b \in Event /\ b.time = e.time /\ b.type = "REQUEST_COMPLETE" /\ b.req = r
  <2>1. ReqIds \subseteq Nat
    BY DEF ReqIds
  <2>2. b \in EventOf(ReqIds)
    BY <1>5, <2>1, EventConstructors
  <2> QED
    BY <2>2 DEF EventOf, RequestComplete, Ev
<1>8. Releases(th)
  <2>1. Len(all_requests)' = Len(all_requests)
    BY <1>1, <1>4 DEF TypeOK
  <2> QED
    BY <1>1, <1>4, <2>1 DEF Releases
<1> HIDE DEF th, k, r, c0, b
<1>9. c2 \in CoreRec(k) /\ \E x \in Threads \cup {NoThread} : Outcome(c0, A, c2, x)
  <2>1. CASE waiting_requests = <<>>
    BY <1>2, <1>3, <1>6, <2>1, ScheduleOutcome, ScheduleExact
  <2>2. CASE waiting_requests # <<>>
    <3>1. c1 = WithThread(c0, th)
      BY <1>2, <1>6, <2>2 DEF add_runnable, WithThread
    <3>2. /\ c1 \in CoreRec(k) /\ c1.dispatched = <<>> /\ Distinct(c1.runqueue)
          /\ c1.busy_time = c0.busy_time /\ ToSet(c1.runqueue) = ToSet(c0.runqueue) \cup {th}
      <4>1. th \in ThreadsOf(k) /\ th \notin ToSet(c0.runqueue)
        BY <1>5, <1>6 DEF Queue
      <4> QED
        BY <1>6, <3>1, <4>1, Queued
    <3>3. PICK x \in Threads \cup {NoThread} : Outcome(c1, {}, c2, x)
      BY <1>3, <3>2, ScheduleExact
    <3>4. Outcome(c0, {th}, c2, x)
      BY <3>2, <3>3 DEF Outcome
    <3> QED
      BY <1>3, <2>2, <3>2, <3>4, ScheduleOutcome
  <2> QED
    BY <2>1, <2>2
<1>10. PICK x \in Threads \cup {NoThread} : Outcome(c0, A, c2, x)
  BY <1>9
<1>11. CoreBecomes(k, A, x) /\ core'[k].busy_time = c0.busy_time
  BY <1>3, <1>5, <1>6, <1>9, <1>10, SetCoreExact
<1>12. PICK S, n : /\ Starting(S, x, e.time) /\ Stamped(n, b)
                   /\ Handles(e, "THREAD_SLICE_END", S \cup {n})
  <2>1. c2.dispatched = IF x = NoThread THEN <<>> ELSE <<x>>
    BY <1>10 DEF Outcome
  <2>2. b.time >= e.time
    BY <1>5, <1>7
  <2> QED
    BY <1>1, <1>3, <1>4, <1>7, <2>1, <2>2, EmitStartsAnd
<1>13. n.type = "REQUEST_COMPLETE" /\ n.req = r /\ n.time = e.time
  BY <1>7, <1>12 DEF Stamped
<1> QED
  BY <1>1, <1>4, <1>8, <1>11, <1>12, <1>13 DEF CompletesEffect, th, k, r, c0

LEMMA PreemptsHasEffect ==
  ASSUME Steady, SliceEndPreempts PROVE \E e \in evq : PreemptsEffect(e)
<1>1. PICK e \in evq :
        /\ Pop(e, "THREAD_SLICE_END")
        /\ thread_req[e.thread] # NoReq =>
             /\ LeftAfter(e) > DoneEps
             /\ all_requests' = [all_requests EXCEPT
                                   ![thread_req[e.thread]].service_remaining = LeftAfter(e)]
             /\ SetCore(CoreOf(e.thread), [Accounted(e) EXCEPT !.idle = TRUE, !.current_thread = NoThread])
             /\ Emit(e, <<ThreadAvailable(e.time + CONTEXT_SWITCH_OVERHEAD, e.thread)>>)
  BY DEF SliceEndPreempts
<1> DEFINE th == e.thread
           k  == CoreOf(th)
           c0 == Accounted(e)
           c  == [c0 EXCEPT !.idle = TRUE, !.current_thread = NoThread]
           b  == ThreadAvailable(e.time + CONTEXT_SWITCH_OVERHEAD, th)
<1>2. /\ TypeOK /\ running' = running
      /\ UNCHANGED <<free_threads, thread_req, waiting_requests, dropped_requests,
                      completed_requests, timedout_requests>>
  BY DEF Steady, PoolInv, SliceEndPreempts
<1>3. /\ th \in Threads /\ k \in Cores /\ thread_req[th] # NoReq /\ e.time \in Nat
      /\ e.slice_len \in Nat /\ all_requests[thread_req[th]] \in Request
  BY <1>1, ThreadEventFacts, ThreadKinds
<1>4. /\ LeftAfter(e) > DoneEps /\ SetCore(k, c) /\ Emit(e, <<b>>)
      /\ all_requests' = [all_requests EXCEPT ![thread_req[th]].service_remaining = LeftAfter(e)]
  BY <1>1, <1>3
<1>5. LeftAfter(e) \in Nat
  <2>1. all_requests[thread_req[th]].service_remaining \in Nat
    BY <1>3 DEF Request
  <2> QED
    BY <1>3, <1>4, <2>1, TimesAssumption DEF LeftAfter
<1>6. c0 \in CoreRec(k) /\ c0.dispatched = <<>> /\ c0.runqueue = core[k].runqueue
  BY <1>1, AccountedFacts, ThreadKinds
<1>7. /\ b \in Event /\ b.time = e.time + CONTEXT_SWITCH_OVERHEAD /\ b.time >= e.time
      /\ b.type = "THREAD_AVAILABLE" /\ b.thread = th
  <2>1. e.time + CONTEXT_SWITCH_OVERHEAD \in Nat /\ e.time + CONTEXT_SWITCH_OVERHEAD >= e.time
    BY <1>3, TimesAssumption
  <2>2. b \in EventOf({})
    BY <1>3, <2>1, EventConstructors
  <2> QED
    BY <2>1, <2>2 DEF EventOf, ThreadAvailable, Ev
<1> HIDE DEF b, c0
<1>8. /\ \A j \in Cores \ {k} : core'[j] = core[j]
      /\ core'[k].runqueue = core[k].runqueue /\ core'[k].busy_time = c0.busy_time
  BY <1>2, <1>3, <1>4, <1>6 DEF SetCore, TypeOK, CoreRec
<1>9. PICK n : Stamped(n, b) /\ Handles(e, "THREAD_SLICE_END", {n})
  BY <1>1, <1>2, <1>4, <1>7, EmitOne
<1>10. /\ n.type = "THREAD_AVAILABLE" /\ n.thread = th
       /\ n.time = e.time + CONTEXT_SWITCH_OVERHEAD
  BY <1>7, <1>9 DEF Stamped
<1> QED
  BY <1>2, <1>4, <1>5, <1>8, <1>9, <1>10 DEF PreemptsEffect, c0

\* The events of requests.
LEMMA VerdictHasEffect ==
  ASSUME Steady, handle_request_complete \/ handle_request_timeout
  PROVE  \E e \in evq : InTimeEffect(e) \/ LateEffect(e) \/ IgnoredEffect(e) \/ GivesUpEffect(e)
<1> USE DEF ServerKept
<1>1. TypeOK
  BY DEF Steady, PoolInv
<1>2. CASE CompleteInTime
  <2>1. PICK e \in evq, think \in ThinkTimes :
          /\ Pop(e, "REQUEST_COMPLETE")
          /\ ~TooLate(e.req, e.time)
          /\ all_requests' = [all_requests EXCEPT ![e.req].completion_time = e.time]
          /\ completed_requests' = Append(completed_requests, e.req)
          /\ Emit(e, IF CLOSED_LOOP
                     THEN <<UserArrival(e.time + think, all_requests[e.req].user_id)>>
                     ELSE <<>>)
    BY <1>2 DEF CompleteInTime
  <2>2. ServerKept /\ running' = running /\ UNCHANGED timedout_requests
    BY <1>2 DEF CompleteInTime
  <2>3. e.time \in Nat /\ all_requests[e.req].user_id \in Users
    BY <1>1, <2>1, RequestEventType DEF RequestTypes
  <2> DEFINE b == UserArrival(e.time + think, all_requests[e.req].user_id)
  <2>4. b \in Event /\ b.time >= e.time /\ IsArrival(b, all_requests[e.req].user_id)
    BY <2>3, NextArrivalFacts
  <2>5. IF CLOSED_LOOP THEN Emit(e, <<b>>) ELSE Emit(e, <<>>)
    BY <2>1
  <2> HIDE DEF b
  <2>6. \/ ~CLOSED_LOOP /\ Handles(e, "REQUEST_COMPLETE", {})
        \/ CLOSED_LOOP /\ \E n : /\ Handles(e, "REQUEST_COMPLETE", {n})
                                 /\ IsArrival(n, all_requests[e.req].user_id)
    <3>1. CASE CLOSED_LOOP
      <4>1. PICK n : Stamped(n, b) /\ Handles(e, "REQUEST_COMPLETE", {n})
        BY <1>1, <2>1, <2>2, <2>4, <2>5, <3>1, EmitOne
      <4> QED
        BY <2>4, <3>1, <4>1 DEF Stamped, IsArrival
    <3>2. CASE ~CLOSED_LOOP
      BY <1>1, <2>1, <2>2, <2>5, <3>2, EmitNone
    <3> QED
      BY <3>1, <3>2
  <2> QED
    BY <2>1, <2>2, <2>6 DEF InTimeEffect
<1>3. CASE CompleteLate
  <2>1. PICK e \in evq :
          /\ Pop(e, "REQUEST_COMPLETE") /\ TooLate(e.req, e.time) /\ Emit(e, <<>>)
          /\ all_requests' = [all_requests EXCEPT ![e.req].timed_out = TRUE]
          /\ timedout_requests' = Append(timedout_requests, e.req)
    BY <1>3 DEF CompleteLate
  <2>2. ServerKept /\ running' = running /\ UNCHANGED completed_requests
    BY <1>3 DEF CompleteLate
  <2> QED
    BY <1>1, <2>1, <2>2, EmitNone DEF LateEffect
<1>4. CASE TimeoutIgnored
  <2>1. PICK e \in evq :
          /\ Pop(e, "CHECK_TIMEOUT") /\ Emit(e, <<>>)
          /\ all_requests[e.req].service_remaining <= CheckEps
    BY <1>4 DEF TimeoutIgnored
  <2>2. /\ ServerKept /\ running' = running
        /\ UNCHANGED <<all_requests, completed_requests, timedout_requests>>
    BY <1>4 DEF TimeoutIgnored
  <2> QED
    BY <1>1, <2>1, <2>2, EmitNone DEF IgnoredEffect
<1>5. CASE UserGivesUp
  <2>1. PICK e \in evq, think \in ThinkTimes :
          /\ Pop(e, "CHECK_TIMEOUT") /\ all_requests[e.req].service_remaining > CheckEps
          /\ all_requests' = [all_requests EXCEPT ![e.req].timed_out = TRUE]
          /\ Emit(e, <<UserArrival(e.time + think, all_requests[e.req].user_id)>>)
    BY <1>5 DEF UserGivesUp
  <2>2. ServerKept /\ running' = running /\ UNCHANGED <<completed_requests, timedout_requests>>
    BY <1>5 DEF UserGivesUp
  <2>3. e.time \in Nat /\ all_requests[e.req].user_id \in Users
    BY <1>1, <2>1, RequestEventType DEF RequestTypes
  <2> DEFINE b == UserArrival(e.time + think, all_requests[e.req].user_id)
  <2>4. b \in Event /\ b.time >= e.time /\ IsArrival(b, all_requests[e.req].user_id)
    BY <2>3, NextArrivalFacts
  <2> HIDE DEF b
  <2>5. PICK n : Stamped(n, b) /\ Handles(e, "CHECK_TIMEOUT", {n})
    BY <1>1, <2>1, <2>2, <2>4, EmitOne DEF b
  <2> QED
    BY <2>1, <2>2, <2>4, <2>5 DEF GivesUpEffect, Stamped, IsArrival
<1> QED
  BY <1>2, <1>3, <1>4, <1>5 DEF handle_request_complete, handle_request_timeout

\* A step of the program handles an event, ends the loop, or changes nothing.
LEMMA StepHasEffect ==
  ASSUME Steady, [Next]_vars
  PROVE  (\E e \in evq : Effect(e)) \/ LoopEnds \/ UNCHANGED vars
<1>1. CASE handle_user_arrival
  BY <1>1, RunsHasEffect, WaitsHasEffect, DroppedHasEffect DEF handle_user_arrival, Effect
<1>2. CASE handle_thread_slice_start \/ handle_thread_available
  BY <1>2, StartsHasEffect, AvailableHasEffect DEF Effect
<1>3. CASE SliceEndCompletes \/ SliceEndPreempts
  BY <1>3, CompletesHasEffect, PreemptsHasEffect DEF Effect
<1>4. CASE handle_request_complete \/ handle_request_timeout
  BY <1>4, VerdictHasEffect DEF Effect
<1> QED
  BY <1>1, <1>2, <1>3, <1>4 DEF Next, Returned

-----------------------------------------------------------------------------
(* No thread is lost or doubled. *)

\* Among the events N one is of a thread, x; none is if x is no thread.
Moves(N, x) ==
  IF x = NoThread THEN \A n \in N : n.type \notin ThreadTypes
  ELSE \E s \in N : /\ s.type \in ThreadTypes /\ s.thread = x
                    /\ \A n \in N : n.type \in ThreadTypes => n = s

\* The handler of e hands the thread h of core k over: to the queue if h is in
\* A, and to nobody otherwise.  The thread x leaves the queue, or h itself is
\* passed on at once, and gets the only new thread event.
LEMMA HandOver ==
  ASSUME Steady, NEW e, NEW ty, NEW N, Handles(e, ty, N),
         NEW k \in Cores, NEW h \in ThreadsOf(k), h \notin Queue(k),
         e \in ThreadEvs => e.thread = h,
         \A f \in ThreadEvs : f.thread = h => f = e,
         NEW A, A \subseteq {h}, NEW x \in Threads \cup {NoThread}, QueueBecomes(k, A, x),
         Moves(N, x), thread_req'[h] # NoReq <=> h \in A,
         \A th \in Threads \ {h} : thread_req'[th] = thread_req[th]
  PROVE  ThreadsPlaced'
<1> DEFINE Q(j) == ToSet(core[j].runqueue)
           R(j) == ToSet(core'[j].runqueue)
           E == ThreadEvs
           F == ThreadEvs'
<1>1. /\ \A j \in Cores : /\ Q(j) \subseteq Threads /\ Distinct(core[j].runqueue)
                          /\ \A th \in Q(j) : thread_req[th] # NoReq /\ CoreOf(th) = j
      /\ h \in Threads /\ CoreOf(h) = k /\ h \notin Q(k) /\ NoThread \notin Threads
  BY CoreFacts, SizesAssumption DEF ThreadsOf, Threads, NoThread, Queue
<1>2. /\ \A j \in Cores \ {k} : R(j) = Q(j)
      /\ R(k) = (Q(k) \cup A) \ {x}
      /\ x # NoThread => x \in Q(k) \cup A
      /\ \A j \in Cores : Distinct(core'[j].runqueue)
  BY <1>1 DEF QueueBecomes, Queue
<1>3. F = (E \ {e}) \cup {n \in N : n.type \in ThreadTypes}
  BY DEF Handles, ThreadEvs
<1>4. /\ running = TRUE /\ running' = TRUE
      /\ \A f \in E : /\ thread_req[f.thread] # NoReq /\ f.thread \notin Q(CoreOf(f.thread))
                      /\ f.thread \in Threads /\ CoreOf(f.thread) \in Cores
      /\ \A f, g \in E : f.thread = g.thread => f = g
      /\ \A th \in Threads : thread_req[th] # NoReq =>
            th \in Q(CoreOf(th)) \/ \E f \in E : f.thread = th
  <2>1. \A f \in E : f.thread \in Threads /\ CoreOf(f.thread) \in Cores
    BY CoreOfType DEF ThreadEvs, TypeOK, EventOf, Steady, PoolInv
  <2> QED
    BY <2>1 DEF Steady, Handles, ThreadsPlaced, Queue
<1>5. x # NoThread => x \in Threads /\ CoreOf(x) = k /\ thread_req'[x] # NoReq /\ x \notin R(k)
  <2>1. CASE x # NoThread /\ x = h
    BY <1>1, <1>2, <2>1
  <2>2. CASE x # NoThread /\ x # h
    <3>1. x \in Q(k)
      BY <1>2, <2>2
    <3> QED
      BY <1>1, <1>2, <2>2, <3>1
  <2> QED
    BY <2>1, <2>2
<1>6. /\ \A f \in E : f.thread = h => f = e
      /\ e \in E => e.thread = h
  OBVIOUS
<1>7. \A n \in N : n.type \in ThreadTypes => x # NoThread /\ n.thread = x
  BY DEF Moves
<1>8. \A m, n \in N : m.type \in ThreadTypes /\ n.type \in ThreadTypes => m = n
  BY DEF Moves
<1>9. x # NoThread => \E s \in F : s.thread = x
  BY <1>3 DEF Moves
<1> HIDE DEF Q, R, E, F
<1>10. ASSUME NEW j \in Cores, NEW th \in R(j) PROVE thread_req'[th] # NoReq
  BY <1>1, <1>2, <1>10
<1>11. ASSUME NEW f \in E \ {e}
       PROVE  /\ f.thread # x /\ thread_req'[f.thread] # NoReq
              /\ f.thread \notin R(CoreOf(f.thread))
  <2>1. f.thread \in Threads \ {h} /\ thread_req[f.thread] # NoReq
        /\ f.thread \notin Q(CoreOf(f.thread)) /\ CoreOf(f.thread) \in Cores
    BY <1>4, <1>6
  <2>2. f.thread # x
    <3> SUFFICES ASSUME f.thread = x PROVE FALSE
      OBVIOUS
    <3>1. x # NoThread /\ x \in Q(k) /\ CoreOf(x) = k
      BY <1>1, <1>2, <1>5, <2>1
    <3> QED
      BY <2>1, <3>1
  <2>3. f.thread \notin R(CoreOf(f.thread))
    BY <1>2, <2>1
  <2> QED
    BY <2>1, <2>2, <2>3
<1>12. ASSUME NEW f \in F PROVE thread_req'[f.thread] # NoReq /\ f.thread \notin R(CoreOf(f.thread))
  <2>1. CASE f \in E \ {e}
    BY <1>11, <2>1
  <2>2. CASE f \in N /\ f.type \in ThreadTypes
    <3>1. x # NoThread /\ f.thread = x
      BY <1>7, <2>2
    <3> QED
      BY <1>5, <3>1
  <2> QED
    BY <1>3, <2>1, <2>2
<1>13. \A f, g \in F : f.thread = g.thread => f = g
  <2>1. \A f \in F : f \in E \ {e} \/ (f.thread = x /\ f \in N /\ f.type \in ThreadTypes)
    BY <1>3, <1>7
  <2> QED
    BY <1>4, <1>8, <1>11, <2>1
<1>14. ASSUME NEW th \in Threads, thread_req'[th] # NoReq, th \notin R(CoreOf(th))
       PROVE  \E f \in F : f.thread = th
  <2>1. CASE th = x
    BY <1>1, <1>9, <2>1
  <2>2. CASE th = h /\ th # x
    BY <1>1, <1>2, <1>14, <2>2
  <2>3. CASE th # h /\ th # x
    <3>1. thread_req[th] # NoReq /\ CoreOf(th) \in Cores
      BY <1>14, <2>3, CoreOfType
    <3>2. th \notin Q(CoreOf(th))
      BY <1>2, <1>14, <2>3, <3>1
    <3>3. PICK f \in E : f.thread = th
      BY <1>4, <3>1, <3>2
    <3>4. f # e
      BY <1>6, <2>3, <3>3
    <3> QED
      BY <1>3, <3>3, <3>4
  <2> QED
    BY <2>1, <2>2, <2>3
<1>15. \A th \in Threads : thread_req'[th] # NoReq =>
         th \in R(CoreOf(th)) \/ \E f \in F : f.thread = th
  BY <1>14
<1> QED
  BY <1>2, <1>4, <1>10, <1>12, <1>13, <1>15 DEF ThreadsPlaced, Queue, Q, R, F

\* A handler that concerns no thread.
LEMMA NoHandOver ==
  ASSUME Steady, NEW e, NEW ty, NEW N, Handles(e, ty, N), ty \notin ThreadTypes,
         \A n \in N : n.type \notin ThreadTypes, UNCHANGED <<core, thread_req>>
  PROVE  ThreadsPlaced'
<1>1. ThreadEvs' = ThreadEvs
  BY DEF Handles, ThreadEvs
<1>2. ThreadsPlaced /\ running = TRUE /\ running' = TRUE
  BY DEF Steady, Handles
<1>3. \A k : Queue(k)' = Queue(k)
  BY DEF Queue
<1> QED
  BY <1>1, <1>2, <1>3 DEF ThreadsPlaced

LEMMA StartsMove ==
  ASSUME NEW S, NEW x \in Threads \cup {NoThread}, NEW t, Starting(S, x, t)
  PROVE  Moves(S, x) /\ \A n : n.type \notin ThreadTypes => Moves(S \cup {n}, x)
  BY ThreadKinds DEF Starting, Moves

\* The thread an arrival finds at the head of the pool.
LEMMA PoolHead ==
  ASSUME Steady, free_threads # <<>>
  PROVE  LET h == Head(free_threads)
         IN  /\ h \in Threads /\ thread_req[h] = NoReq /\ CoreOf(h) \in Cores
             /\ h \in ThreadsOf(CoreOf(h)) /\ h \notin Queue(CoreOf(h))
             /\ \A f \in ThreadEvs : f.thread # h
<1> DEFINE h == Head(free_threads)
<1>1. free_threads \in Seq(Threads) /\ PoolExact /\ ThreadsPlaced
  BY DEF Steady, PoolInv, TypeOK
<1>2. 1 \in DOMAIN free_threads /\ h = free_threads[1] /\ h \in Threads
  BY <1>1, HeadTailProperties, LenProperties
<1> HIDE DEF h
<1>3. thread_req[h] = NoReq /\ CoreOf(h) \in Cores /\ h \in ThreadsOf(CoreOf(h))
  BY <1>1, <1>2, CoreOfType DEF PoolExact, ThreadsOf
<1>4. h \notin Queue(CoreOf(h)) /\ \A f \in ThreadEvs : f.thread # h
  BY <1>1, <1>3 DEF ThreadsPlaced
<1> QED
  BY <1>2, <1>3, <1>4 DEF h

\* What the release of a thread does.
LEMMA ReleaseFacts ==
  ASSUME PoolInv, NEW th \in Threads, Releases(th)
  PROVE  /\ thread_req[th] # NoReq /\ thread_req[th] \in ReqIds
         /\ \A a \in Threads \ {th} : thread_req'[a] = thread_req[a]
         /\ waiting_requests = <<>> => /\ thread_req'[th] = NoReq
                                       /\ waiting_requests' = waiting_requests
         /\ waiting_requests # <<>> => /\ thread_req'[th] = waiting_requests[1]
                                       /\ waiting_requests[1] \in ReqIds
                                       /\ waiting_requests[1] # NoReq
                                       /\ waiting_requests' = Tail(waiting_requests)
<1>1. /\ thread_req[th] # NoReq /\ thread_req[th] \in ReqIds /\ DOMAIN thread_req = Threads
      /\ waiting_requests \in Seq(ReqIds)
  BY DEF Releases, PoolInv, TypeOK
<1>2. waiting_requests # <<>> => /\ Head(waiting_requests) = waiting_requests[1]
                                 /\ waiting_requests[1] \in ReqIds /\ waiting_requests[1] # NoReq
  BY <1>1, HeadTailProperties, EmptySeq, LenProperties DEF ReqIds, NoReq
<1> QED
  BY <1>1, <1>2 DEF Releases, release_thread_to_pool

\* The effects that move a thread.
LEMMA EffectsMove ==
  ASSUME Steady, NEW e \in evq,
         RunsEffect(e) \/ AvailableEffect(e) \/ CompletesEffect(e)
           \/ StartsEffect(e) \/ PreemptsEffect(e)
  PROVE  ThreadsPlaced'
<1>1. DOMAIN thread_req = Threads /\ ThreadsPlaced /\ TypeOK /\ PoolInv /\ NextId # NoReq
  BY LenProperties DEF Steady, PoolInv, TypeOK, NextId, NoReq
<1>2. ASSUME NEW ty \in ThreadTypes, e.type = ty
      PROVE  /\ e.thread \in Threads /\ CoreOf(e.thread) \in Cores /\ e \in ThreadEvs
             /\ e.thread \in ThreadsOf(CoreOf(e.thread)) /\ e.thread \notin Queue(CoreOf(e.thread))
             /\ thread_req[e.thread] # NoReq
             /\ \A f \in ThreadEvs : f.thread = e.thread => f = e
  <2>1. e \in ThreadEvs /\ e.thread \in Threads
    BY <1>1, <1>2 DEF ThreadEvs, TypeOK, EventOf
  <2> QED
    BY <1>1, <2>1, CoreOfType DEF ThreadsPlaced, ThreadsOf
<1>3. CASE RunsEffect(e)
  <2> DEFINE h == Head(free_threads)
             k == CoreOf(h)
  <2>1. PICK x \in Threads \cup {NoThread} : \E S, n :
           /\ Handles(e, "USER_ARRIVAL", S \cup {n})
           /\ Starting(S, x, e.time) /\ IsDeadline(n) /\ CoreBecomes(k, {h}, x)
    BY <1>3 DEF RunsEffect
  <2>2. PICK S, n : /\ Handles(e, "USER_ARRIVAL", S \cup {n})
                    /\ Starting(S, x, e.time) /\ IsDeadline(n) /\ CoreBecomes(k, {h}, x)
    BY <2>1
  <2>3. free_threads # <<>> /\ thread_req' = [thread_req EXCEPT ![h] = NextId]
    BY <1>3 DEF RunsEffect, Admits
  <2>4. /\ h \in Threads /\ k \in Cores /\ h \in ThreadsOf(k) /\ h \notin Queue(k)
        /\ \A f \in ThreadEvs : f.thread # h
    BY <2>3, PoolHead
  <2> HIDE DEF h, k
  <2>5. e \notin ThreadEvs /\ n.type \notin ThreadTypes
    BY <2>2 DEF Handles, ThreadEvs, ThreadTypes, SliceTypes, IsDeadline
  <2>6. Moves(S \cup {n}, x)
    BY <2>2, <2>5, StartsMove
  <2>7. thread_req'[h] # NoReq /\ \A th \in Threads \ {h} : thread_req'[th] = thread_req[th]
    BY <1>1, <2>3, <2>4
  <2>8. QueueBecomes(k, {h}, x)
    BY <2>2 DEF CoreBecomes
  <2> QED
    BY <2>2, <2>4, <2>5, <2>6, <2>7, <2>8, HandOver
<1>4. CASE AvailableEffect(e)
  <2> DEFINE h == e.thread
             k == CoreOf(h)
  <2>1. PICK x \in Threads \cup {NoThread} : \E S :
           /\ Handles(e, "THREAD_AVAILABLE", S) /\ Starting(S, x, e.time) /\ CoreBecomes(k, {h}, x)
    BY <1>4 DEF AvailableEffect
  <2>2. PICK S : /\ Handles(e, "THREAD_AVAILABLE", S) /\ Starting(S, x, e.time)
                 /\ CoreBecomes(k, {h}, x)
    BY <2>1
  <2>3. thread_req' = thread_req
    BY <1>4 DEF AvailableEffect
  <2>4. /\ h \in Threads /\ k \in Cores /\ h \in ThreadsOf(k) /\ h \notin Queue(k) /\ thread_req[h] # NoReq
        /\ \A f \in ThreadEvs : f.thread = h => f = e
    BY <1>2, <2>2, ThreadKinds DEF Handles
  <2>5. Moves(S, x) /\ QueueBecomes(k, {h}, x)
    BY <2>2, StartsMove DEF CoreBecomes
  <2>6. e.thread = h
    OBVIOUS
  <2> HIDE DEF h, k
  <2>7. thread_req'[h] # NoReq /\ \A th \in Threads \ {h} : thread_req'[th] = thread_req[th]
    BY <2>3, <2>4
  <2> QED
    BY <2>2, <2>4, <2>5, <2>6, <2>7, HandOver
<1>5. CASE CompletesEffect(e)
  <2> DEFINE h == e.thread
             k == CoreOf(h)
             A == IF waiting_requests = <<>> THEN {} ELSE {h}
  <2>1. PICK x \in Threads \cup {NoThread} : \E S, n :
           /\ Handles(e, "THREAD_SLICE_END", S \cup {n}) /\ Starting(S, x, e.time)
           /\ n.type = "REQUEST_COMPLETE" /\ CoreBecomes(k, A, x)
    BY <1>5 DEF CompletesEffect
  <2>2. PICK S, n :
           /\ Handles(e, "THREAD_SLICE_END", S \cup {n}) /\ Starting(S, x, e.time)
           /\ n.type = "REQUEST_COMPLETE" /\ CoreBecomes(k, A, x)
    BY <2>1
  <2>3. Releases(h)
    BY <1>5 DEF CompletesEffect
  <2>4. /\ h \in Threads /\ k \in Cores /\ h \in ThreadsOf(k) /\ h \notin Queue(k)
        /\ \A f \in ThreadEvs : f.thread = h => f = e
    BY <1>2, <2>2, ThreadKinds DEF Handles
  <2>5. n.type \notin ThreadTypes
    BY <2>2 DEF ThreadTypes, SliceTypes
  <2>6. Moves(S \cup {n}, x) /\ QueueBecomes(k, A, x)
    BY <2>2, <2>5, StartsMove DEF CoreBecomes
  <2>7. (thread_req'[h] # NoReq <=> h \in A) /\ \A th \in Threads \ {h} : thread_req'[th] = thread_req[th]
    BY <1>1, <2>3, <2>4, ReleaseFacts
  <2>8. A \subseteq {h} /\ e.thread = h
    OBVIOUS
  <2> HIDE DEF h, k, A
  <2> QED
    BY <2>2, <2>4, <2>6, <2>7, <2>8, HandOver
<1>6. CASE StartsEffect(e) \/ PreemptsEffect(e)
  <2> DEFINE h == e.thread
             k == CoreOf(h)
  <2>1. PICK n : \E ty \in ThreadTypes : Handles(e, ty, {n}) /\ n.type \in ThreadTypes /\ n.thread = h
    BY <1>6, ThreadKinds DEF StartsEffect, PreemptsEffect
  <2>2. PICK ty \in ThreadTypes : Handles(e, ty, {n})
    BY <2>1
  <2>3. thread_req' = thread_req /\ \A j \in Cores : core'[j].runqueue = core[j].runqueue
    <3>1. CASE StartsEffect(e)
      BY <3>1 DEF StartsEffect
    <3>2. CASE PreemptsEffect(e)
      BY <3>2 DEF PreemptsEffect
    <3> QED
      BY <1>6, <3>1, <3>2
  <2>4. /\ h \in Threads /\ k \in Cores /\ h \in ThreadsOf(k) /\ h \notin Queue(k) /\ thread_req[h] # NoReq
        /\ \A f \in ThreadEvs : f.thread = h => f = e
    BY <1>2, <2>2 DEF Handles
  <2>5. e.thread = h
    OBVIOUS
  <2> HIDE DEF h, k
  <2>6. Moves({n}, h)
    BY <2>1, <2>4, SizesAssumption DEF Moves, Threads, NoThread
  <2>7. QueueBecomes(k, {h}, h)
    <3>1. Queue(k)' = Queue(k) /\ Distinct(core'[k].runqueue)
      BY <1>1, <2>4, <2>3 DEF Queue, ThreadsPlaced
    <3> QED
      BY <2>4, <2>3, <3>1 DEF QueueBecomes
  <2>8. thread_req'[h] # NoReq /\ \A th \in Threads \ {h} : thread_req'[th] = thread_req[th]
    BY <2>4, <2>3
  <2> QED
    BY <2>1, <2>2, <2>4, <2>5, <2>6, <2>7, <2>8, HandOver
<1> QED
  BY <1>3, <1>4, <1>5, <1>6

\* An event that concerns no thread and whose handler creates none that does.
Quiet(e, ty, N) ==
  Handles(e, ty, N) /\ ty \notin ThreadTypes /\ \A n \in N : n.type \notin ThreadTypes

LEMMA QuietEffects ==
  ASSUME NEW e \in evq,
         WaitsEffect(e) \/ DroppedEffect(e) \/ InTimeEffect(e)
           \/ LateEffect(e) \/ IgnoredEffect(e) \/ GivesUpEffect(e)
  PROVE  (\E ty, N : Quiet(e, ty, N)) /\ UNCHANGED <<core, thread_req>>
<1> SUFFICES \E ty, N : Quiet(e, ty, N)
  BY DEF WaitsEffect, Queues, DroppedEffect, Drops, InTimeEffect, LateEffect,
         IgnoredEffect, GivesUpEffect, ServerKept
<1>1. CASE WaitsEffect(e)
  <2>1. PICK n : Handles(e, "USER_ARRIVAL", {n}) /\ IsDeadline(n)
    BY <1>1 DEF WaitsEffect
  <2>2. Quiet(e, "USER_ARRIVAL", {n})
    BY <2>1 DEF Quiet, IsDeadline, ThreadTypes, SliceTypes
  <2> QED
    BY <2>2
<1>2. CASE DroppedEffect(e)
  <2>1. PICK n : Handles(e, "USER_ARRIVAL", {n}) /\ IsArrival(n, e.user)
    BY <1>2 DEF DroppedEffect
  <2>2. Quiet(e, "USER_ARRIVAL", {n})
    BY <2>1 DEF Quiet, IsArrival, ThreadTypes, SliceTypes
  <2> QED
    BY <2>2
<1>3. CASE InTimeEffect(e)
  <2>1. CASE ~CLOSED_LOOP
    <3>1. Quiet(e, "REQUEST_COMPLETE", {})
      BY <1>3, <2>1 DEF InTimeEffect, Quiet, ThreadTypes, SliceTypes
    <3> QED
      BY <3>1
  <2>2. CASE CLOSED_LOOP
    <3>1. PICK n : /\ Handles(e, "REQUEST_COMPLETE", {n})
                   /\ IsArrival(n, all_requests[e.req].user_id)
      BY <1>3, <2>2 DEF InTimeEffect
    <3>2. Quiet(e, "REQUEST_COMPLETE", {n})
      BY <3>1 DEF Quiet, IsArrival, ThreadTypes, SliceTypes
    <3> QED
      BY <3>2
  <2> QED
    BY <2>1, <2>2
<1>4. CASE LateEffect(e)
  <2>1. Quiet(e, "REQUEST_COMPLETE", {})
    BY <1>4 DEF LateEffect, Quiet, ThreadTypes, SliceTypes
  <2> QED
    BY <2>1
<1>5. CASE IgnoredEffect(e)
  <2>1. Quiet(e, "CHECK_TIMEOUT", {})
    BY <1>5 DEF IgnoredEffect, Quiet, ThreadTypes, SliceTypes
  <2> QED
    BY <2>1
<1>6. CASE GivesUpEffect(e)
  <2>1. PICK n : /\ Handles(e, "CHECK_TIMEOUT", {n})
                 /\ IsArrival(n, all_requests[e.req].user_id)
    BY <1>6 DEF GivesUpEffect
  <2>2. Quiet(e, "CHECK_TIMEOUT", {n})
    BY <2>1 DEF Quiet, IsArrival, ThreadTypes, SliceTypes
  <2> QED
    BY <2>2
<1> QED
  BY <1>1, <1>2, <1>3, <1>4, <1>5, <1>6

LEMMA ThreadsNext == ASSUME Steady, [Next]_vars PROVE ThreadsPlaced'
<1>1. CASE \E e \in evq : Effect(e)
  <2>1. PICK e \in evq : Effect(e)
    BY <1>1
  <2>2. CASE RunsEffect(e) \/ AvailableEffect(e) \/ CompletesEffect(e)
               \/ StartsEffect(e) \/ PreemptsEffect(e)
    BY <2>2, EffectsMove
  <2>3. CASE WaitsEffect(e) \/ DroppedEffect(e) \/ InTimeEffect(e)
               \/ LateEffect(e) \/ IgnoredEffect(e) \/ GivesUpEffect(e)
    BY <2>3, QuietEffects, NoHandOver DEF Quiet
  <2> QED
    BY <2>1, <2>2, <2>3 DEF Effect
<1>2. CASE LoopEnds
  <2>1. evq' \subseteq evq /\ running' = FALSE /\ UNCHANGED <<core, thread_req>>
    BY <1>2 DEF LoopEnds
  <2>2. ThreadEvs' \subseteq ThreadEvs /\ \A k : Queue(k)' = Queue(k)
    BY <2>1 DEF ThreadEvs, Queue
  <2> QED
    BY <2>1, <2>2 DEF Steady, ThreadsPlaced
<1>3. CASE UNCHANGED vars
  <2>1. /\ ThreadEvs' = ThreadEvs /\ \A k : Queue(k)' = Queue(k)
        /\ UNCHANGED <<core, thread_req, running>>
    BY <1>3 DEF ThreadEvs, Queue, vars
  <2> QED
    BY <2>1 DEF Steady, ThreadsPlaced
<1> QED
  BY <1>1, <1>2, <1>3, StepHasEffect

LEMMA ThreadsInit == Init => ThreadsPlaced
<1> SUFFICES ASSUME Init PROVE ThreadsPlaced
  OBVIOUS
<1>1. \A k \in Cores : core[k].runqueue = <<>>
  BY DEF Init, NewCore
<1>2. ThreadEvs = {}
  BY DEF Init, ThreadEvs, ThreadTypes, SliceTypes, UserArrival, Ev
<1>3. \A th \in Threads : thread_req[th] = NoReq
  BY DEF Init
<1>4. \A k \in Cores : Distinct(core[k].runqueue) /\ Queue(k) = {}
  BY <1>1 DEF Distinct, Queue, ToSet
<1> QED
  BY <1>2, <1>3, <1>4 DEF ThreadsPlaced

LEMMA SteadyInvariant == Spec => []Steady
<1>1. Init => ThreadsPlaced
  BY ThreadsInit
<1>2. PoolInv /\ OneSlicePerCore /\ ThreadsPlaced /\ [Next]_vars => ThreadsPlaced'
  BY ThreadsNext DEF Steady
<1>3. PoolInv /\ OneSlicePerCore /\ ThreadsPlaced => Steady
  BY DEF Steady
<1> QED
  BY <1>1, <1>2, <1>3, PoolInvariant, CoreExclusive, PTL DEF Spec

-----------------------------------------------------------------------------
(* The queue of events. *)

\* Nothing pending is in the past, and the numbers of the events tell them
\* apart.
EventsOrdered ==
  /\ \A e \in evq : now <= e.time /\ e.seq <= seq_counter
  /\ \A e, f \in evq : e.seq = f.seq => e = f

LEMMA EventsHandled ==
  ASSUME TypeOK, EventsOrdered, NEW e, NEW ty, NEW N, Handles(e, ty, N) PROVE EventsOrdered'
<1>1. /\ seq_counter \in Nat /\ seq_counter' \in Nat /\ seq_counter <= seq_counter'
      /\ now' = e.time /\ evq' = (evq \ {e}) \cup N /\ e.time \in Nat
  BY DEF TypeOK, Handles, New
<1>2. \A f \in evq : f.seq \in Nat /\ f.time \in Nat
  BY DEF TypeOK, EventOf, Event
<1>3. \A f \in evq : e.time <= f.time /\ f.seq <= seq_counter /\ f.seq <= seq_counter'
  BY <1>1, <1>2 DEF Handles, Before, EventsOrdered
<1>4. /\ \A n \in N : n.seq \in Nat /\ n.time \in Nat /\ n.seq > seq_counter
                      /\ n.seq <= seq_counter' /\ n.time >= e.time
      /\ \A m, n \in N : m.seq = n.seq => m = n
  BY DEF Handles, New
<1>5. \A f \in evq' : now' <= f.time /\ f.seq <= seq_counter'
  BY <1>1, <1>3, <1>4
<1>6. ASSUME NEW f \in evq', NEW g \in evq', f.seq = g.seq PROVE f = g
  <2>1. CASE f \in evq /\ g \in evq
    BY <1>6, <2>1 DEF EventsOrdered
  <2>2. CASE f \in N /\ g \in N
    BY <1>4, <1>6, <2>2
  <2>3. \A a \in evq, b \in N : a.seq # b.seq
    BY <1>1, <1>2, <1>3, <1>4
  <2> QED
    BY <1>1, <1>6, <2>1, <2>2, <2>3
<1> QED
  BY <1>5, <1>6 DEF EventsOrdered

\* Whatever the handler, it takes one event and creates new ones.
LEMMA EffectHandles ==
  ASSUME NEW e \in evq, Effect(e) PROVE \E ty, N : Handles(e, ty, N)
  BY DEF Effect, RunsEffect, WaitsEffect, DroppedEffect, StartsEffect, CompletesEffect,
         PreemptsEffect, AvailableEffect, InTimeEffect, LateEffect, IgnoredEffect, GivesUpEffect

LEMMA EventsNext == ASSUME Steady, EventsOrdered, [Next]_vars PROVE EventsOrdered'
<1>1. TypeOK
  BY DEF Steady, PoolInv
<1>2. CASE \E e \in evq : Effect(e)
  BY <1>1, <1>2, EffectHandles, EventsHandled
<1>3. CASE LoopEnds
  <2>1. CASE evq = {}
    BY <1>3, <2>1 DEF LoopEnds, EventsOrdered
  <2>2. CASE evq # {}
    <3>1. PICK e \in evq : /\ \A f \in evq : Before(e, f)
                           /\ now' = e.time /\ evq' = evq \ {e} /\ seq_counter' = seq_counter
      BY <1>3, <2>2 DEF LoopEnds
    <3>2. \A f \in evq : f.seq \in Nat /\ f.time \in Nat
      BY <1>1 DEF TypeOK, EventOf, Event
    <3> QED
      BY <3>1, <3>2 DEF EventsOrdered, Before
  <2> QED
    BY <2>1, <2>2
<1>4. CASE UNCHANGED vars
  BY <1>4 DEF vars, EventsOrdered
<1> QED
  BY <1>2, <1>3, <1>4, StepHasEffect

LEMMA EventsInit == Init => EventsOrdered
<1> SUFFICES ASSUME Init PROVE EventsOrdered
  OBVIOUS
<1>1. PICK start \in [Users -> StartTimes] :
        evq = {[UserArrival(start[u], u) EXCEPT !.seq = u + 1] : u \in Users}
  BY DEF Init
<1>2. \A e \in evq : \E u \in Users : /\ e = [UserArrival(start[u], u) EXCEPT !.seq = u + 1]
                                      /\ e.time = start[u] /\ e.seq = u + 1
  BY <1>1 DEF UserArrival, Ev
<1>3. now = 0 /\ seq_counter = NUM_USERS /\ \A u \in Users : start[u] \in Nat
  BY TimesAssumption DEF Init
<1>4. \A e \in evq : now <= e.time /\ e.seq <= seq_counter
  BY <1>2, <1>3, SizesAssumption DEF Users
<1>5. \A e, f \in evq : e.seq = f.seq => e = f
  BY <1>2, SizesAssumption DEF Users
<1> QED
  BY <1>4, <1>5 DEF EventsOrdered

LEMMA EventsInvariant == Spec => []EventsOrdered
<1>1. Steady /\ EventsOrdered /\ [Next]_vars => EventsOrdered'
  BY EventsNext
<1> QED
  BY <1>1, EventsInit, SteadyInvariant, PTL DEF Spec

-----------------------------------------------------------------------------
(* A thread is in one place. *)

LEMMA OnePlace ==
  ASSUME Steady, EventsOrdered, running, NEW th \in Threads
  PROVE  \E p : PlacesOfThread(th) = {p}
<1> DEFINE I == {i \in DOMAIN free_threads : free_threads[i] = th}
           R(k) == {i \in DOMAIN core[k].runqueue : core[k].runqueue[i] = th}
           E == {e \in evq : e.type \in ThreadTypes /\ e.thread = th}
           h == CoreOf(th)
<1>1. /\ \A i, j \in I : i = j
      /\ thread_req[th] = NoReq <=> I # {}
      /\ h \in Cores
  BY CoreOfType DEF Steady, PoolInv, PoolExact
<1>2. /\ \A k \in Cores : (R(k) # {} <=> th \in Queue(k)) /\ \A i, j \in R(k) : i = j
      /\ \A k \in Cores : th \in Queue(k) => k = h
  BY CoreFacts DEF Queue, ToSet, Distinct
<1>3. /\ E # {} => thread_req[th] # NoReq /\ th \notin Queue(h)
      /\ \A e, f \in E : e = f
      /\ \A k \in Cores : th \in Queue(k) => thread_req[th] # NoReq
      /\ thread_req[th] # NoReq => th \in Queue(h) \/ E # {}
  BY DEF Steady, ThreadsPlaced, ThreadEvs
<1>4. \A p : p \in PlacesOfThread(th) <=>
        \/ \E i \in I : p = <<"pool", i, 0>>
        \/ \E k \in Cores : \E i \in R(k) : p = <<"runqueue", i, k>>
        \/ \E e \in E : p = <<"event", e.seq, 0>>
  <2> DEFINE A == {<<"pool", i, 0>> : i \in I}
             B(k) == {<<"runqueue", i, k>> : i \in R(k)}
             U == UNION {B(k) : k \in Cores}
             C == {<<"event", e.seq, 0>> : e \in E}
  <2>1. PlacesOfThread(th) = A \cup U \cup C
    BY DEF PlacesOfThread
  <2>2. \A p : /\ p \in A <=> \E i \in I : p = <<"pool", i, 0>>
               /\ p \in C <=> \E e \in E : p = <<"event", e.seq, 0>>
    OBVIOUS
  <2>3. \A p : p \in U <=> \E k \in Cores : p \in B(k)
    OBVIOUS
  <2>4. \A p : \A k \in Cores : p \in B(k) <=> \E i \in R(k) : p = <<"runqueue", i, k>>
    OBVIOUS
  <2> HIDE DEF A, B, U, C, I, R, E
  <2> QED
    BY <2>1, <2>2, <2>3, <2>4
<1> HIDE DEF I, R, E, h
<1>5. CASE thread_req[th] = NoReq
  <2>1. PICK i \in I : I = {i}
    BY <1>1, <1>5
  <2>2. E = {} /\ \A k \in Cores : R(k) = {}
    BY <1>2, <1>3, <1>5
  <2>3. \A p : p \in PlacesOfThread(th) <=> p = <<"pool", i, 0>>
    BY <1>4, <2>1, <2>2
  <2>4. PlacesOfThread(th) = {<<"pool", i, 0>>}
    BY <2>3
  <2> QED
    BY <2>4
<1>6. CASE th \in Queue(h)
  <2>1. PICK i \in R(h) : R(h) = {i}
    BY <1>1, <1>2, <1>6
  <2>2. E = {} /\ I = {} /\ \A k \in Cores \ {h} : R(k) = {}
    BY <1>1, <1>2, <1>3, <1>6
  <2>3. \A p : p \in PlacesOfThread(th) <=> p = <<"runqueue", i, h>>
    BY <1>1, <1>4, <2>1, <2>2
  <2>4. PlacesOfThread(th) = {<<"runqueue", i, h>>}
    BY <2>3
  <2> QED
    BY <2>4
<1>7. CASE thread_req[th] # NoReq /\ th \notin Queue(h)
  <2>1. PICK e \in E : E = {e}
    BY <1>3, <1>7
  <2>2. I = {} /\ \A k \in Cores : R(k) = {}
    BY <1>1, <1>2, <1>7
  <2>3. \A p : p \in PlacesOfThread(th) <=> p = <<"event", e.seq, 0>>
    BY <1>4, <2>1, <2>2
  <2>4. PlacesOfThread(th) = {<<"event", e.seq, 0>>}
    BY <2>3
  <2> QED
    BY <2>4
<1> QED
  BY <1>1, <1>3, <1>5, <1>6, <1>7

\* No thread is lost, doubled or migrated, whatever the order of the events,
\* the policy and the sizes: admit_request, release_thread_to_pool,
\* add_runnable and schedule_next_slice hand each thread over exactly once,
\* and a thread is out of the pool exactly while it holds a request.
THEOREM ThreadsNeverLost == Spec => []ThreadInOnePlace
<1>1. Steady /\ EventsOrdered => ThreadInOnePlace
  <2> SUFFICES ASSUME Steady, EventsOrdered, running, NEW th \in Threads
               PROVE  /\ Cardinality(PlacesOfThread(th)) = 1
                      /\ thread_req[th] = NoReq <=> \E i \in DOMAIN free_threads : free_threads[i] = th
                      /\ \A k \in Cores : (\E i \in DOMAIN core[k].runqueue : core[k].runqueue[i] = th)
                                             => k = CoreOf(th)
    BY DEF ThreadInOnePlace
  <2>1. Cardinality(PlacesOfThread(th)) = 1
    <3>1. PICK p : PlacesOfThread(th) = {p}
      BY OnePlace
    <3> QED
      BY <3>1, FS_Singleton
  <2>2. thread_req[th] = NoReq <=> \E i \in DOMAIN free_threads : free_threads[i] = th
    BY DEF Steady, PoolInv, PoolExact
  <2>3. ASSUME NEW k \in Cores, \E i \in DOMAIN core[k].runqueue : core[k].runqueue[i] = th
        PROVE  k = CoreOf(th)
    BY <2>3, CoreFacts DEF Queue, ToSet
  <2> QED
    BY <2>1, <2>2, <2>3
<1> QED
  BY <1>1, SteadyInvariant, EventsInvariant, PTL

-----------------------------------------------------------------------------
(* No queued thread is forgotten by its core. *)

\* A thread of core k is to become runnable within a context switch.
Wakes(k) ==
  \E e \in evq : /\ e.type = "THREAD_AVAILABLE" /\ CoreOf(e.thread) = k
                 /\ e.time <= now + CONTEXT_SWITCH_OVERHEAD
Paused(k) == core[k].idle /\ core[k].runqueue # <<>>

\* A core keeps its wake-up while the events handled are not its own.
LEMMA WakeupKept ==
  ASSUME TypeOK, EventsOrdered, NEW e, NEW ty, NEW N, Handles(e, ty, N),
         NEW k, Wakes(k), ty = "THREAD_AVAILABLE" => CoreOf(e.thread) # k
  PROVE  Wakes(k)'
<1>1. PICK f \in evq : /\ f.type = "THREAD_AVAILABLE" /\ CoreOf(f.thread) = k
                       /\ f.time <= now + CONTEXT_SWITCH_OVERHEAD
  BY DEF Wakes
<1>2. f \in evq'
  BY <1>1 DEF Handles
<1>3. now' = e.time /\ e.time \in Nat /\ now \in Nat /\ now <= e.time /\ f.time \in Nat
  BY <1>1 DEF Handles, EventsOrdered, TypeOK, EventOf, Event
<1>4. f.time <= now' + CONTEXT_SWITCH_OVERHEAD
  BY <1>1, <1>3, TimesAssumption
<1> QED
  BY <1>1, <1>2, <1>4 DEF Wakes

LEMMA WakeupEffect ==
  ASSUME Steady, EventsOrdered, NoLostWakeup, NEW e \in evq, Effect(e),
         NEW k \in Cores, Paused(k)'
  PROVE  Wakes(k)'
<1>1. TypeOK /\ (running /\ Paused(k) => Wakes(k))
  BY DEF Steady, PoolInv, NoLostWakeup, Paused, Wakes
<1>2. ASSUME NEW ty, NEW N, Handles(e, ty, N), core'[k] = core[k],
             ty = "THREAD_AVAILABLE" => CoreOf(e.thread) # k
      PROVE  Wakes(k)'
  <2>1. Wakes(k)
    BY <1>1, <1>2 DEF Handles, Paused
  <2> QED
    BY <1>1, <1>2, <2>1, WakeupKept
<1>3. CASE RunsEffect(e)
  <2>1. PICK ty, N : Handles(e, ty, N) /\ ty = "USER_ARRIVAL"
    BY <1>3 DEF RunsEffect
  <2>2. core'[k] = core[k]
    BY <1>3 DEF RunsEffect, CoreBecomes, Paused
  <2> QED
    BY <1>2, <2>1, <2>2
<1>4. CASE AvailableEffect(e)
  <2>1. PICK N : Handles(e, "THREAD_AVAILABLE", N)
    BY <1>4 DEF AvailableEffect
  <2>2. core'[k] = core[k] /\ CoreOf(e.thread) # k
    BY <1>4 DEF AvailableEffect, CoreBecomes, Paused
  <2> QED
    BY <1>2, <2>1, <2>2
<1>5. CASE CompletesEffect(e)
  <2>1. PICK ty, N : Handles(e, ty, N) /\ ty = "THREAD_SLICE_END"
    BY <1>5 DEF CompletesEffect
  <2>2. core'[k] = core[k]
    BY <1>5 DEF CompletesEffect, CoreBecomes, Paused
  <2> QED
    BY <1>2, <2>1, <2>2
<1>6. CASE PreemptsEffect(e)
  <2>1. PICK n : /\ Handles(e, "THREAD_SLICE_END", {n})
                 /\ n.type = "THREAD_AVAILABLE" /\ n.thread = e.thread
                 /\ n.time = e.time + CONTEXT_SWITCH_OVERHEAD
    BY <1>6 DEF PreemptsEffect
  <2>2. CASE k = CoreOf(e.thread)
    <3>1. n \in evq' /\ now' = e.time /\ n.time \in Nat
      BY <2>1 DEF Handles, New
    <3> QED
      BY <2>1, <2>2, <3>1 DEF Wakes
  <2>3. CASE k # CoreOf(e.thread)
    BY <1>2, <1>6, <2>1, <2>3 DEF PreemptsEffect
  <2> QED
    BY <2>2, <2>3
<1>7. CASE StartsEffect(e)
  <2>1. PICK ty, N : Handles(e, ty, N) /\ ty = "THREAD_SLICE_START"
    BY <1>7 DEF StartsEffect
  <2> QED
    BY <1>2, <1>7, <2>1 DEF StartsEffect
<1>8. CASE WaitsEffect(e) \/ DroppedEffect(e) \/ InTimeEffect(e)
             \/ LateEffect(e) \/ IgnoredEffect(e) \/ GivesUpEffect(e)
  <2>1. PICK ty, N : Quiet(e, ty, N)
    BY <1>8, QuietEffects
  <2>2. core' = core
    BY <1>8, QuietEffects
  <2> QED
    BY <1>2, <2>1, <2>2, ThreadKinds DEF Quiet
<1> QED
  BY <1>3, <1>4, <1>5, <1>6, <1>7, <1>8 DEF Effect

\* A core that stopped for a context switch finds its queued threads again:
\* a THREAD_AVAILABLE of that core comes within one context switch, for every
\* number of cores and threads and every overhead, zero included
\* (Core::handle_slice_end, which leaves the queue alone, and add_runnable).
THEOREM WakeupsNeverLost == Spec => []NoLostWakeup
<1>1. Init => NoLostWakeup
  BY DEF Init, NewCore, NoLostWakeup
<1>2. ASSUME Steady, EventsOrdered, NoLostWakeup, [Next]_vars PROVE NoLostWakeup'
  <2>1. CASE \E e \in evq : Effect(e)
    <3>1. \A k \in Cores : Paused(k)' => Wakes(k)'
      BY <1>2, <2>1, WakeupEffect
    <3> QED
      BY <3>1 DEF NoLostWakeup, Paused, Wakes
  <2>2. CASE LoopEnds
    BY <2>2 DEF LoopEnds, NoLostWakeup
  <2>3. CASE UNCHANGED vars
    BY <1>2, <2>3 DEF vars, NoLostWakeup
  <2> QED
    BY <1>2, <2>1, <2>2, <2>3, StepHasEffect
<1>3. Steady /\ EventsOrdered /\ NoLostWakeup /\ [Next]_vars => NoLostWakeup'
  BY <1>2
<1> QED
  BY <1>1, <1>3, SteadyInvariant, EventsInvariant, PTL DEF Spec

-----------------------------------------------------------------------------
(* The slices of a core do not overlap. *)

\* How busy a core may have been at time t.
Bound(t) == IF t < WARMUP_TIME THEN 0 ELSE t - WARMUP_TIME + QUANTUM

\* When a slice began its core had been busy for no more than the time so far.
SlicesBounded ==
  \A e \in evq : e.type = "THREAD_SLICE_END" =>
    /\ e.slice_len <= QUANTUM /\ e.slice_len <= e.time
    /\ core[CoreOf(e.thread)].busy_time <= Bound(e.time - e.slice_len)

BusyInv == UtilizationBound /\ SlicesBounded

LEMMA BoundGrows ==
  ASSUME NEW s \in Nat, NEW t \in Nat, s <= t, NEW b \in Nat, b <= Bound(s) PROVE b <= Bound(t)
  BY TimesAssumption DEF Bound

LEMMA SliceBound ==
  ASSUME NEW t \in Nat, NEW sl \in Nat, sl <= QUANTUM, sl <= t,
         NEW b \in Nat, b <= Bound(t - sl)
  PROVE  b + (IF t >= WARMUP_TIME THEN sl ELSE 0) <= Bound(t)
  BY TimesAssumption DEF Bound

\* A handler that accounts for nothing.
LEMMA BusyKept ==
  ASSUME TypeOK, EventsOrdered, BusyInv, NEW e, NEW ty, NEW N, Handles(e, ty, N),
         \A k \in Cores : core'[k].busy_time = core[k].busy_time,
         \A n \in N : n.type # "THREAD_SLICE_END"
  PROVE  BusyInv'
<1>1. now' = e.time /\ e.time \in Nat /\ now \in Nat /\ now <= e.time /\ evq' = (evq \ {e}) \cup N
  BY DEF Handles, EventsOrdered, TypeOK
<1>2. \A k \in Cores : core[k].busy_time \in Nat
  BY DEF TypeOK, CoreState
<1>3. UtilizationBound'
  <2>1. \A k \in Cores : core[k].busy_time <= Bound(now)
    BY DEF BusyInv, UtilizationBound, Bound
  <2>2. \A k \in Cores : core[k].busy_time <= Bound(now')
    BY <1>1, <1>2, <2>1, BoundGrows
  <2> QED
    BY <2>2 DEF UtilizationBound, Bound
<1>4. SlicesBounded'
  <2> SUFFICES ASSUME NEW f \in evq', f.type = "THREAD_SLICE_END"
               PROVE  /\ f.slice_len <= QUANTUM /\ f.slice_len <= f.time
                      /\ core'[CoreOf(f.thread)].busy_time <= Bound(f.time - f.slice_len)
    BY DEF SlicesBounded, Bound
  <2>1. f \in evq
    BY <1>1
  <2>2. CoreOf(f.thread) \in Cores
    BY <2>1, CoreOfType DEF TypeOK, EventOf, ThreadTypes, SliceTypes
  <2> QED
    BY <2>1, <2>2 DEF BusyInv, SlicesBounded
<1> QED
  BY <1>3, <1>4 DEF BusyInv

\* A slice begins.
LEMMA BusyStarts ==
  ASSUME Steady, EventsOrdered, BusyInv, NEW e \in evq, StartsEffect(e) PROVE BusyInv'
<1>1. PICK n : /\ Handles(e, "THREAD_SLICE_START", {n})
               /\ n.type = "THREAD_SLICE_END" /\ n.thread = e.thread
               /\ n.slice_len = Shorter(QUANTUM, all_requests[thread_req[e.thread]].service_remaining)
               /\ n.slice_len \in Nat /\ n.time = e.time + n.slice_len
  BY DEF StartsEffect
<1>2. core' = core /\ TypeOK
  BY DEF StartsEffect, Steady, PoolInv
<1>3. now' = e.time /\ e.time \in Nat /\ now \in Nat /\ now <= e.time /\ evq' = (evq \ {e}) \cup {n}
  BY <1>1, <1>2 DEF Handles, EventsOrdered, TypeOK
<1>4. \A k \in Cores : core[k].busy_time \in Nat
  BY <1>2 DEF TypeOK, CoreState
<1>5. \A k \in Cores : core[k].busy_time <= Bound(e.time)
  <2>1. \A k \in Cores : core[k].busy_time <= Bound(now)
    BY DEF BusyInv, UtilizationBound, Bound
  <2> QED
    BY <1>3, <1>4, <2>1, BoundGrows
<1>6. UtilizationBound'
  BY <1>2, <1>3, <1>5 DEF UtilizationBound, Bound
<1>7. n.slice_len <= QUANTUM /\ n.slice_len <= n.time /\ n.time - n.slice_len = e.time
  <2>1. n.slice_len <= QUANTUM
    <3>1. thread_req[e.thread] \in ReqIds
      <4>1. e.type \in ThreadTypes
        BY <1>1, ThreadKinds DEF Handles
      <4>2. e.thread \in Threads /\ thread_req[e.thread] # NoReq
        BY <1>2, <4>1 DEF Steady, ThreadsPlaced, ThreadEvs, TypeOK, EventOf
      <4> QED
        BY <1>2, <4>2 DEF TypeOK
    <3>2. \A r \in ReqIds : all_requests[r] \in Request
      BY <1>2, ElementOfSeq DEF TypeOK, ReqIds
    <3>3. all_requests[thread_req[e.thread]].service_remaining \in Nat
      BY <3>1, <3>2 DEF Request
    <3> QED
      BY <1>1, <3>3, TimesAssumption DEF Shorter
  <2> QED
    BY <1>1, <1>3, <2>1
<1>8. CoreOf(n.thread) \in Cores
  <2>1. e.type \in ThreadTypes
    BY <1>1, ThreadKinds DEF Handles
  <2> QED
    BY <1>1, <1>2, <2>1, CoreOfType DEF TypeOK, EventOf
<1>9. SlicesBounded'
  <2> SUFFICES ASSUME NEW f \in evq', f.type = "THREAD_SLICE_END"
               PROVE  /\ f.slice_len <= QUANTUM /\ f.slice_len <= f.time
                      /\ core'[CoreOf(f.thread)].busy_time <= Bound(f.time - f.slice_len)
    BY DEF SlicesBounded, Bound
  <2>1. CASE f \in evq
    BY <1>2, <2>1 DEF BusyInv, SlicesBounded
  <2>2. CASE f = n
    BY <1>2, <1>5, <1>7, <1>8, <2>2
  <2> QED
    BY <1>3, <2>1, <2>2
<1> QED
  BY <1>6, <1>9 DEF BusyInv

\* A slice ends and is accounted for.
LEMMA BusyEnds ==
  ASSUME Steady, EventsOrdered, BusyInv, NEW e \in evq,
         NEW N, Handles(e, "THREAD_SLICE_END", N), \A n \in N : n.type # "THREAD_SLICE_END",
         core'[CoreOf(e.thread)].busy_time = Accounted(e).busy_time,
         \A j \in Cores \ {CoreOf(e.thread)} : core'[j] = core[j]
  PROVE  BusyInv'
<1> DEFINE k == CoreOf(e.thread)
           b == core[k].busy_time
<1>1. TypeOK /\ e.type = "THREAD_SLICE_END" /\ running = TRUE
  BY DEF Handles, Steady, PoolInv
<1>2. k \in Cores /\ e.slice_len \in Nat /\ e.time \in Nat /\ b \in Nat
  <2>1. e.thread \in Threads /\ e.slice_len \in Nat /\ e.time \in Nat
    BY <1>1 DEF TypeOK, EventOf, Event, ThreadTypes, SliceTypes
  <2>2. k \in Cores
    BY <2>1, CoreOfType
  <2> QED
    BY <1>1, <2>1, <2>2 DEF TypeOK, CoreState
<1>3. now' = e.time /\ now \in Nat /\ now <= e.time /\ evq' = (evq \ {e}) \cup N
  BY <1>1 DEF Handles, EventsOrdered, TypeOK
<1>4. core'[k].busy_time = b + (IF e.time >= WARMUP_TIME THEN e.slice_len ELSE 0)
  BY <1>1, <1>2 DEF Accounted, TypeOK, CoreState
<1>5. b <= Bound(e.time - e.slice_len) /\ e.slice_len <= QUANTUM /\ e.slice_len <= e.time
  BY <1>1 DEF BusyInv, SlicesBounded
<1>6. \A f \in evq \ {e} : f.type = "THREAD_SLICE_END" => CoreOf(f.thread) # k
  <2>1. RunsOne(core[k], SlicesOf(k))
    BY <1>1, <1>2 DEF Steady, OneSlicePerCore
  <2>2. \A f, g \in SlicesOf(k) : f = g
    BY <2>1 DEF RunsOne
  <2> QED
    BY <1>1, <2>2 DEF SlicesOf, SliceTypes
<1>7. \A j \in Cores : core[j].busy_time \in Nat /\ core[j].busy_time <= Bound(now)
  <2>1. \A j \in Cores : core[j].busy_time \in Nat
    BY <1>1 DEF TypeOK, CoreState
  <2> QED
    BY <2>1 DEF BusyInv, UtilizationBound, Bound
<1> HIDE DEF k, b
<1>8. core'[k].busy_time <= Bound(e.time)
  BY <1>2, <1>4, <1>5, SliceBound
<1>9. \A j \in Cores \ {k} : core'[j] = core[j] /\ core'[j].busy_time <= Bound(e.time)
  <2>1. \A j \in Cores : core[j].busy_time <= Bound(e.time)
    BY <1>2, <1>3, <1>7, BoundGrows
  <2> QED
    BY <2>1 DEF k
<1>10. UtilizationBound'
  BY <1>3, <1>8, <1>9 DEF UtilizationBound, Bound
<1>11. SlicesBounded'
  <2> SUFFICES ASSUME NEW f \in evq', f.type = "THREAD_SLICE_END"
               PROVE  /\ f.slice_len <= QUANTUM /\ f.slice_len <= f.time
                      /\ core'[CoreOf(f.thread)].busy_time <= Bound(f.time - f.slice_len)
    BY DEF SlicesBounded, Bound
  <2>1. f \in evq \ {e}
    BY <1>3
  <2>2. CoreOf(f.thread) \in Cores \ {k}
    BY <1>1, <1>6, <2>1, CoreOfType DEF TypeOK, EventOf, ThreadTypes, SliceTypes
  <2> QED
    BY <1>9, <2>1, <2>2 DEF BusyInv, SlicesBounded
<1> QED
  BY <1>10, <1>11 DEF BusyInv

\* The end of the loop, which may take one event.
LEMMA EndsFacts ==
  ASSUME TypeOK, EventsOrdered, LoopEnds
  PROVE  /\ running = TRUE /\ running' = FALSE /\ evq' \subseteq evq
         /\ now \in Nat /\ now' \in Nat /\ now <= now'
         /\ (evq' = evq /\ now' = now /\ evq = {}) \/ now' > SIMTIME
         /\ UNCHANGED <<seq_counter, all_requests, completed_requests, timedout_requests,
                        dropped_requests, free_threads, waiting_requests, thread_req, core>>
<1>1. now \in Nat /\ \A e \in evq : e.time \in Nat /\ now <= e.time
  BY DEF TypeOK, EventsOrdered, EventOf, Event
<1>2. /\ running = TRUE /\ running' = FALSE
      /\ UNCHANGED <<seq_counter, all_requests, completed_requests, timedout_requests,
                     dropped_requests, free_threads, waiting_requests, thread_req, core>>
  BY DEF LoopEnds, TypeOK
<1>3. CASE evq = {} /\ UNCHANGED <<now, evq>>
  BY <1>1, <1>2, <1>3
<1>4. CASE \E e \in evq : e.time > SIMTIME /\ now' = e.time /\ evq' = evq \ {e}
  BY <1>1, <1>2, <1>4
<1> QED
  BY <1>3, <1>4 DEF LoopEnds

LEMMA BusyEffect ==
  ASSUME Steady, EventsOrdered, BusyInv, NEW e \in evq, Effect(e) PROVE BusyInv'
<1>1. TypeOK
  BY DEF Steady, PoolInv
<1>2. ASSUME NEW S, NEW x, Starting(S, x, e.time) PROVE \A s \in S : s.type # "THREAD_SLICE_END"
  BY <1>2 DEF Starting
<1>3. CASE RunsEffect(e)
  <2>1. PICK x : \E S, n :
           Handles(e, "USER_ARRIVAL", S \cup {n}) /\ Starting(S, x, e.time) /\ IsDeadline(n)
    BY <1>3 DEF RunsEffect
  <2>2. PICK S, n :
           Handles(e, "USER_ARRIVAL", S \cup {n}) /\ Starting(S, x, e.time) /\ IsDeadline(n)
    BY <2>1
  <2>3. \A k \in Cores : core'[k].busy_time = core[k].busy_time
    BY <1>3 DEF RunsEffect, CoreBecomes
  <2>4. \A m \in S \cup {n} : m.type # "THREAD_SLICE_END"
    BY <1>2, <2>2 DEF IsDeadline
  <2> QED
    BY <1>1, <2>2, <2>3, <2>4, BusyKept
<1>4. CASE AvailableEffect(e)
  <2>1. PICK x : \E S : Handles(e, "THREAD_AVAILABLE", S) /\ Starting(S, x, e.time)
    BY <1>4 DEF AvailableEffect
  <2>2. PICK S : Handles(e, "THREAD_AVAILABLE", S) /\ Starting(S, x, e.time)
    BY <2>1
  <2>3. \A k \in Cores : core'[k].busy_time = core[k].busy_time
    BY <1>4 DEF AvailableEffect, CoreBecomes
  <2> QED
    BY <1>1, <1>2, <2>2, <2>3, BusyKept
<1>5. CASE CompletesEffect(e)
  <2>1. PICK x : \E S, n : /\ Handles(e, "THREAD_SLICE_END", S \cup {n}) /\ Starting(S, x, e.time)
                           /\ n.type = "REQUEST_COMPLETE"
    BY <1>5 DEF CompletesEffect
  <2>2. PICK S, n : /\ Handles(e, "THREAD_SLICE_END", S \cup {n}) /\ Starting(S, x, e.time)
                    /\ n.type = "REQUEST_COMPLETE"
    BY <2>1
  <2>3. /\ core'[CoreOf(e.thread)].busy_time = Accounted(e).busy_time
        /\ \A j \in Cores \ {CoreOf(e.thread)} : core'[j] = core[j]
    BY <1>5 DEF CompletesEffect, CoreBecomes
  <2>4. \A m \in S \cup {n} : m.type # "THREAD_SLICE_END"
    BY <1>2, <2>2
  <2> QED
    BY <2>2, <2>3, <2>4, BusyEnds
<1>6. CASE PreemptsEffect(e)
  <2>1. PICK n : Handles(e, "THREAD_SLICE_END", {n}) /\ n.type = "THREAD_AVAILABLE"
    BY <1>6 DEF PreemptsEffect
  <2>2. /\ core'[CoreOf(e.thread)].busy_time = Accounted(e).busy_time
        /\ \A j \in Cores \ {CoreOf(e.thread)} : core'[j] = core[j]
    BY <1>6 DEF PreemptsEffect
  <2> QED
    BY <2>1, <2>2, BusyEnds
<1>7. CASE StartsEffect(e)
  BY <1>7, BusyStarts
<1>8. CASE WaitsEffect(e) \/ DroppedEffect(e) \/ InTimeEffect(e)
             \/ LateEffect(e) \/ IgnoredEffect(e) \/ GivesUpEffect(e)
  <2>1. PICK ty, N : Quiet(e, ty, N)
    BY <1>8, QuietEffects
  <2>2. core' = core
    BY <1>8, QuietEffects
  <2> QED
    BY <1>1, <2>1, <2>2, ThreadKinds, BusyKept DEF Quiet
<1> QED
  BY <1>3, <1>4, <1>5, <1>6, <1>7, <1>8 DEF Effect

\* Since the warmup ended a core was busy for at most the time elapsed, plus
\* one quantum for the slice that straddles the end of the warmup, whatever
\* the policy and the sizes: the slices that Simulator::handle_thread_slice_end
\* accounts to a core never overlap.
THEOREM UtilizationBounded == Spec => []UtilizationBound
<1>1. Init => BusyInv
  <2> SUFFICES ASSUME Init PROVE BusyInv
    OBVIOUS
  <2>1. \A k \in Cores : core[k].busy_time = 0
    BY DEF Init, NewCore
  <2>2. \A e \in evq : e.type # "THREAD_SLICE_END"
    BY DEF Init, UserArrival, Ev
  <2>3. now = 0
    BY DEF Init
  <2> QED
    BY <2>1, <2>2, <2>3, TimesAssumption DEF BusyInv, UtilizationBound, SlicesBounded
<1>2. ASSUME Steady, EventsOrdered, BusyInv, [Next]_vars PROVE BusyInv'
  <2>1. CASE LoopEnds
    <3>1. /\ evq' \subseteq evq /\ core' = core /\ now' \in Nat /\ now \in Nat /\ now <= now'
      BY <1>2, <2>1, EndsFacts DEF Steady, PoolInv
    <3>2. \A k \in Cores : core[k].busy_time \in Nat /\ core[k].busy_time <= Bound(now)
      BY <1>2 DEF BusyInv, UtilizationBound, Bound, Steady, PoolInv, TypeOK, CoreState
    <3>3. \A k \in Cores : core[k].busy_time <= Bound(now')
      BY <3>1, <3>2, BoundGrows
    <3> QED
      BY <1>2, <3>1, <3>3 DEF BusyInv, UtilizationBound, SlicesBounded, Bound
  <2>2. CASE UNCHANGED vars
    BY <1>2, <2>2 DEF vars, BusyInv, UtilizationBound, SlicesBounded
  <2> QED
    BY <1>2, <2>1, <2>2, StepHasEffect, BusyEffect
<1>3. Steady /\ EventsOrdered /\ BusyInv /\ [Next]_vars => BusyInv'
  BY <1>2
<1>4. BusyInv => UtilizationBound
  BY DEF BusyInv
<1> QED
  BY <1>1, <1>3, <1>4, SteadyInvariant, EventsInvariant, PTL DEF Spec

-----------------------------------------------------------------------------
(* What the handlers do to the requests. *)

\* Request r keeps its user, its times and its total service.
Becomes(r, remaining, timed_out, completion_time) ==
  LET a == all_requests[r]
      b == all_requests'[r]
  IN  /\ b.user_id = a.user_id /\ b.arrival_time = a.arrival_time
      /\ b.service_total = a.service_total /\ b.timeout_deadline = a.timeout_deadline
      /\ b.service_remaining = remaining /\ b.timed_out = timed_out
      /\ b.completion_time = completion_time

\* Every request but q stays as it is.
OnlyRequest(q) ==
  /\ Len(all_requests)' = Len(all_requests) /\ ReqIds' = ReqIds
  /\ \A r \in ReqIds \ {q} : all_requests'[r] = all_requests[r]

LEMMA RequestChanged ==
  ASSUME TypeOK, NEW q \in ReqIds, NEW d, all_requests' = [all_requests EXCEPT ![q] = d]
  PROVE  /\ OnlyRequest(q) /\ all_requests'[q] = d /\ all_requests[q] \in Request
<1>1. all_requests \in Seq(Request) /\ DOMAIN all_requests = ReqIds
  BY DEF TypeOK, ReqIds
<1>2. all_requests[q] \in Request
  BY <1>1, ElementOfSeq DEF ReqIds
<1>3. Len(all_requests') = Len(all_requests) /\ DOMAIN all_requests' = DOMAIN all_requests
  BY <1>1
<1> QED
  BY <1>1, <1>2, <1>3 DEF OnlyRequest, ReqIds

\* A new request.
LEMMA RequestCreated ==
  ASSUME TypeOK, NEW e \in evq, Creates(e), e.time \in Nat
  PROVE  /\ NextId \notin ReqIds /\ ReqIds' = ReqIds \cup {NextId} /\ NextId \in Nat \ {0}
         /\ \A r \in ReqIds : all_requests'[r] = all_requests[r]
         /\ LET q == all_requests'[NextId]
            IN  /\ q.user_id = e.user /\ q.arrival_time = e.time /\ q.timed_out = FALSE
                /\ q.completion_time = -1 /\ q.timeout_deadline \in Nat
                /\ q.timeout_deadline >= e.time
                /\ q.service_total \in ServiceTimes /\ q.service_remaining = q.service_total
<1>1. PICK service \in ServiceTimes, timeout \in Timeouts :
        all_requests' = Append(all_requests, NewRequest(e.user, e.time, service, timeout))
  BY DEF Creates
<1> DEFINE q == NewRequest(e.user, e.time, service, timeout)
<1>2. /\ q.user_id = e.user /\ q.arrival_time = e.time /\ q.timed_out = FALSE
      /\ q.completion_time = -1 /\ q.timeout_deadline = e.time + timeout
      /\ q.service_total = service /\ q.service_remaining = service /\ timeout \in Nat
  BY TimesAssumption DEF NewRequest
<1>3. q \in Request
  BY TimesAssumption DEF NewRequest, Request, Creates
<1> HIDE DEF q
<1>4. /\ all_requests \in Seq(Request) /\ Len(all_requests) \in Nat
      /\ Len(all_requests') = Len(all_requests) + 1
      /\ \A r \in 1 .. Len(all_requests) : all_requests'[r] = all_requests[r]
      /\ all_requests'[NextId] = q
  BY <1>1, <1>3, AppendProperties, LenProperties DEF TypeOK, NextId, q
<1>5. /\ NextId \notin ReqIds /\ ReqIds' = ReqIds \cup {NextId} /\ NextId \in Nat \ {0}
  BY <1>4 DEF ReqIds, NextId
<1> QED
  BY <1>2, <1>4, <1>5 DEF ReqIds

LEMMA CompletesRequest ==
  ASSUME TypeOK, NEW e, NEW r, r = thread_req[e.thread], r \in ReqIds, CompletesEffect(e)
  PROVE  OnlyRequest(r) /\ Becomes(r, 0, all_requests[r].timed_out, e.time)
<1> DEFINE d == mark_completed(all_requests[r], e.time)
<1>1. all_requests' = [all_requests EXCEPT ![r] = d]
  BY DEF CompletesEffect
<1> HIDE DEF d
<1>2. OnlyRequest(r) /\ all_requests'[r] = d /\ all_requests[r] \in Request
  BY <1>1, RequestChanged
<1>3. Becomes(r, 0, all_requests[r].timed_out, e.time)
  BY <1>2 DEF d, mark_completed, Becomes, Request
<1> QED
  BY <1>2, <1>3

LEMMA PreemptsRequest ==
  ASSUME TypeOK, NEW e, NEW r, r = thread_req[e.thread], r \in ReqIds, PreemptsEffect(e)
  PROVE  /\ OnlyRequest(r)
         /\ Becomes(r, LeftAfter(e), all_requests[r].timed_out, all_requests[r].completion_time)
<1> DEFINE d == [all_requests[r] EXCEPT !.service_remaining = LeftAfter(e)]
<1>1. all_requests' = [all_requests EXCEPT ![r] = d]
  BY DEF PreemptsEffect
<1> HIDE DEF d
<1>2. OnlyRequest(r) /\ all_requests'[r] = d /\ all_requests[r] \in Request
  BY <1>1, RequestChanged
<1>3. Becomes(r, LeftAfter(e), all_requests[r].timed_out, all_requests[r].completion_time)
  BY <1>2 DEF d, Becomes, Request
<1> QED
  BY <1>2, <1>3

LEMMA InTimeRequest ==
  ASSUME TypeOK, NEW e, e.req \in ReqIds, InTimeEffect(e)
  PROVE  /\ OnlyRequest(e.req)
         /\ Becomes(e.req, all_requests[e.req].service_remaining,
                    all_requests[e.req].timed_out, e.time)
<1> DEFINE d == [all_requests[e.req] EXCEPT !.completion_time = e.time]
<1>1. all_requests' = [all_requests EXCEPT ![e.req] = d]
  BY DEF InTimeEffect
<1> HIDE DEF d
<1>2. OnlyRequest(e.req) /\ all_requests'[e.req] = d /\ all_requests[e.req] \in Request
  BY <1>1, RequestChanged
<1>3. Becomes(e.req, all_requests[e.req].service_remaining,
            all_requests[e.req].timed_out, e.time)
  BY <1>2 DEF d, Becomes, Request
<1> QED
  BY <1>2, <1>3

LEMMA GivenUpRequest ==
  ASSUME TypeOK, NEW e, e.req \in ReqIds, LateEffect(e) \/ GivesUpEffect(e)
  PROVE  /\ OnlyRequest(e.req)
         /\ Becomes(e.req, all_requests[e.req].service_remaining,
                    TRUE, all_requests[e.req].completion_time)
<1> DEFINE d == [all_requests[e.req] EXCEPT !.timed_out = TRUE]
<1>1. all_requests' = [all_requests EXCEPT ![e.req] = d]
  BY DEF LateEffect, GivesUpEffect
<1> HIDE DEF d
<1>2. OnlyRequest(e.req) /\ all_requests'[e.req] = d /\ all_requests[e.req] \in Request
  BY <1>1, RequestChanged
<1>3. Becomes(e.req, all_requests[e.req].service_remaining,
            TRUE, all_requests[e.req].completion_time)
  BY <1>2 DEF d, Becomes, Request
<1> QED
  BY <1>2, <1>3

-----------------------------------------------------------------------------
(* The keys of the run queues. *)

\* While a thread is queued no handler changes its request or what the
\* request still needs.
LEMMA KeyKept ==
  ASSUME Steady, NEW e \in evq, Effect(e), NEW k \in Cores, NEW th \in Queue(k)
  PROVE  /\ thread_req'[th] = thread_req[th]
         /\ all_requests'[thread_req[th]].service_remaining
              = all_requests[thread_req[th]].service_remaining
<1> DEFINE r == thread_req[th]
<1>1. TypeOK /\ DOMAIN thread_req = Threads /\ all_requests \in Seq(Request)
  BY DEF Steady, PoolInv, TypeOK
<1>2. th \in Threads /\ r # NoReq /\ CoreOf(th) = k
  BY CoreFacts
<1>3. r \in ReqIds /\ ReqIds = DOMAIN all_requests
  BY <1>1, <1>2 DEF TypeOK, ReqIds
<1>4. ASSUME NEW f \in ThreadEvs PROVE f.thread \in Threads /\ f.thread # th /\ thread_req[f.thread] # r
  <2>1. f.thread \in Threads /\ f.thread # th
    BY <1>1, <1>2, <1>4 DEF ThreadEvs, TypeOK, EventOf, Steady, ThreadsPlaced
  <2> QED
    BY <1>2, <2>1 DEF Steady, PoolInv, PoolExact
<1> HIDE DEF r
<1>5. ASSUME Creates(e) PROVE all_requests'[r] = all_requests[r]
  BY <1>1, <1>3, <1>5 DEF Creates, ReqIds
<1>6. ASSUME NEW q, NEW d, all_requests' = [all_requests EXCEPT ![q] = d], q # r
      PROVE  all_requests'[r] = all_requests[r]
  BY <1>1, <1>3, <1>6
<1>7. CASE RunsEffect(e)
  <2>1. free_threads # <<>> /\ thread_req' = [thread_req EXCEPT ![Head(free_threads)] = NextId]
    BY <1>7 DEF RunsEffect, Admits
  <2>2. Head(free_threads) \in Threads /\ thread_req[Head(free_threads)] = NoReq
    BY <2>1, PoolHead
  <2>3. thread_req'[th] = r
    BY <1>1, <1>2, <2>1, <2>2 DEF r
  <2> QED
    BY <1>5, <1>7, <2>3 DEF RunsEffect, r
<1>8. CASE WaitsEffect(e) \/ DroppedEffect(e)
  BY <1>5, <1>8 DEF WaitsEffect, DroppedEffect, Queues, Drops, r
<1>9. CASE CompletesEffect(e)
  <2>1. e \in ThreadEvs
    BY <1>9, ThreadKinds DEF CompletesEffect, Handles, ThreadEvs
  <2>2. e.thread \in Threads /\ e.thread # th /\ thread_req[e.thread] # r
    BY <1>4, <2>1
  <2>3. all_requests'[r] = all_requests[r]
    BY <1>6, <1>9, <2>2 DEF CompletesEffect
  <2>4. thread_req'[th] = thread_req[th]
    BY <1>2, <1>9, <2>2, ReleaseFacts DEF CompletesEffect, Steady
  <2> QED
    BY <2>3, <2>4 DEF r
<1>10. CASE PreemptsEffect(e)
  <2>1. e \in ThreadEvs
    BY <1>10, ThreadKinds DEF PreemptsEffect, Handles, ThreadEvs
  <2>2. thread_req[e.thread] # r
    BY <1>4, <2>1
  <2>3. all_requests'[r] = all_requests[r]
    BY <1>1, <1>3, <1>10, <2>2 DEF PreemptsEffect
  <2> QED
    BY <1>10, <2>3 DEF PreemptsEffect, r
<1>11. CASE StartsEffect(e) \/ AvailableEffect(e) \/ IgnoredEffect(e)
  BY <1>11 DEF StartsEffect, AvailableEffect, IgnoredEffect, ServerKept
<1>12. CASE InTimeEffect(e) \/ LateEffect(e) \/ GivesUpEffect(e)
  <2>1. e.type \in RequestTypes
    BY <1>12 DEF InTimeEffect, LateEffect, GivesUpEffect, Handles, RequestTypes
  <2>2. e.req \in ReqIds
    BY <1>1, <2>1 DEF TypeOK, EventOf
  <2>3. all_requests'[r].service_remaining = all_requests[r].service_remaining
    BY <1>1, <1>3, <1>12, <2>2, InTimeRequest, GivenUpRequest DEF OnlyRequest, Becomes
  <2>4. thread_req' = thread_req
    BY <1>12 DEF InTimeEffect, LateEffect, GivesUpEffect, ServerKept
  <2> QED
    BY <2>3, <2>4 DEF r
<1> QED
  BY <1>7, <1>8, <1>9, <1>10, <1>11, <1>12 DEF Effect

\* The key of a queued thread exists and does not change while it waits, so
\* that the heap of SJF, which std::priority_queue never sorts again, stays a
\* heap (SJF_comparator of core.h and the handlers that write
\* service_remaining); for every policy, number of threads and time.
THEOREM KeysNeverChange == Spec => SJFKeysStable
<1>1. ASSUME Steady, Steady', [Next]_vars PROVE KeysStable
  <2> SUFFICES ASSUME NEW k \in Cores, NEW th \in Threads,
                      Holds(core[k].runqueue, th), Holds(core'[k].runqueue, th)
               PROVE  /\ th \in DOMAIN Remaining /\ th \in DOMAIN Remaining'
                      /\ Remaining[th] = Remaining'[th]
    BY DEF KeysStable
  <2>1. th \in Queue(k) /\ th \in ToSet(core'[k].runqueue)
    BY DEF Holds, Queue, ToSet
  <2>2. thread_req[th] # NoReq
    BY <1>1, <2>1, CoreFacts
  <2>3. thread_req'[th] # NoReq
    BY <1>1, <2>1 DEF Steady, ThreadsPlaced, Queue
  <2>4. /\ thread_req'[th] = thread_req[th]
        /\ all_requests'[thread_req[th]].service_remaining
             = all_requests[thread_req[th]].service_remaining
    <3>1. CASE LoopEnds
      BY <3>1 DEF LoopEnds
    <3>2. CASE UNCHANGED vars
      BY <3>2 DEF vars
    <3> QED
      BY <1>1, <2>1, <3>1, <3>2, StepHasEffect, KeyKept
  <2> QED
    BY <2>2, <2>3, <2>4 DEF Remaining
<1>2. Steady /\ Steady' /\ [Next]_vars => [KeysStable]_vars
  BY <1>1
<1> QED
  BY <1>2, SteadyInvariant, PTL DEF Spec, SJFKeysStable

-----------------------------------------------------------------------------
(* Nothing is left behind when the events run out. *)

LEMMA NobodyLeft ==
  ASSUME Steady, NoLostWakeup, running, evq = {}, NEW r \in ReqIds PROVE ~InServer(r)
<1>1. \A k \in Cores : core[k].runqueue = <<>>
  <2> SUFFICES ASSUME NEW k \in Cores, core[k].runqueue # <<>> PROVE FALSE
    OBVIOUS
  <2>1. ~core[k].idle
    BY DEF NoLostWakeup
  <2>2. SlicesOf(k) # {}
    BY <2>1 DEF Steady, OneSlicePerCore, RunsOne
  <2> QED
    BY <2>2 DEF SlicesOf
<1>2. \A th \in Threads : thread_req[th] = NoReq
  <2> SUFFICES ASSUME NEW th \in Threads, thread_req[th] # NoReq PROVE FALSE
    OBVIOUS
  <2>1. th \in Queue(CoreOf(th))
    BY DEF Steady, ThreadsPlaced, ThreadEvs
  <2> QED
    BY <1>1, <2>1, CoreOfType DEF Queue, ToSet
<1>3. waiting_requests = <<>>
  <2>1. 0 \in Threads
    BY SizesAssumption DEF Threads
  <2>2. \E i \in DOMAIN free_threads : free_threads[i] = 0
    BY <1>2, <2>1 DEF Steady, PoolInv, PoolExact
  <2>3. free_threads # <<>>
    BY <2>2
  <2> QED
    BY <2>3 DEF Steady, PoolInv, FifoAdmission
<1>4. r # NoReq
  BY DEF ReqIds, NoReq
<1> QED
  BY <1>2, <1>3, <1>4 DEF InServer, Holds, Pending

\* When the events run out before simtime the server is empty: no request
\* ever waits with nothing scheduled that would serve it, whatever the number
\* of users, cores and threads, the policy and the times.
THEOREM NobodyStranded == Spec => []NothingStranded
<1>1. Steady /\ NoLostWakeup /\ running => NothingStranded
  BY NobodyLeft DEF NothingStranded
<1>2. ASSUME NothingStranded, Steady, Steady', (running => NothingStranded)', EventsOrdered,
             [Next]_vars
      PROVE  NothingStranded'
  <2>1. running' => NothingStranded'
    BY <1>2
  <2>2. CASE \E e \in evq : Effect(e)
    <3>1. running' = TRUE
      BY <2>2, EffectHandles DEF Handles
    <3> QED
      BY <1>2, <2>1, <3>1
  <2>3. CASE LoopEnds
    <3>1. CASE now' > SIMTIME
      <4>1. now' \in Nat
        BY <1>2 DEF Steady, PoolInv, TypeOK
      <4> QED
        BY <3>1, <4>1, TimesAssumption DEF NothingStranded
    <3>2. CASE evq' = evq /\ now' = now
      BY <1>2, <2>3, <3>2 DEF LoopEnds, NothingStranded, InServer, Pending, ReqIds
    <3> QED
      BY <1>2, <2>3, <3>1, <3>2, EndsFacts DEF Steady, PoolInv
  <2>4. CASE UNCHANGED vars
    BY <1>2, <2>4 DEF vars, NothingStranded, InServer, Pending, ReqIds
  <2> QED
    BY <1>2, <2>2, <2>3, <2>4, StepHasEffect
<1>3. NothingStranded /\ Steady /\ Steady' /\ (running => NothingStranded)' /\ EventsOrdered
        /\ [Next]_vars => NothingStranded'
  BY <1>2
<1>4. Init => NothingStranded
  BY LenProperties DEF Init, NothingStranded, ReqIds
<1> QED
  BY <1>1, <1>3, <1>4, SteadyInvariant, WakeupsNeverLost, EventsInvariant, PTL DEF Spec
=============================================================================
