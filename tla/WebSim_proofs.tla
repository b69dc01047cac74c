---------------------------- MODULE WebSim_proofs ----------------------------
(***************************************************************************)
(* Type correctness, mutual exclusion of the slices of a core, and the     *)
(* thread pool, which is the first-come-first-served station of Station,   *)
(* for every number of users, cores and threads, every limit of the queue, *)
(* both policies, and every choice of times.                               *)
(***************************************************************************)
EXTENDS WebSimRefinement, SequenceTheorems, FiniteSetTheorems, TLAPS

-----------------------------------------------------------------------------
(* The operators of Core. *)

\* Core k in the middle of a handler.
CoreRec(k) == [runqueue : Seq(ThreadsOf(k)), idle : BOOLEAN,
               current_thread : Threads \cup {NoThread}, busy_time : Nat,
               dispatched : Seq(ThreadsOf(k))]

\* The two ways schedule_next_slice can leave core k.
Stopped(d) == d.idle /\ d.current_thread = NoThread /\ d.dispatched = <<>>
Started(d, k) == /\ ~d.idle
                 /\ \E th \in ThreadsOf(k) : d.current_thread = th /\ d.dispatched = <<th>>

\* Removing a position moves the later elements one place up.
LEMMA RemoveAtExact ==
  ASSUME NEW S, NEW s \in Seq(S), NEW i \in DOMAIN s
  PROVE  /\ RemoveAt(s, i) \in Seq(S) /\ Len(s) \in Nat /\ DOMAIN s = 1 .. Len(s)
         /\ DOMAIN RemoveAt(s, i) = 1 .. Len(s) - 1
         /\ \A j \in 1 .. Len(s) - 1 : RemoveAt(s, i)[j] = IF j < i THEN s[j] ELSE s[j + 1]
<1> DEFINE p == SubSeq(s, 1, i - 1)
           q == SubSeq(s, i + 1, Len(s))
<1> HIDE DEF p, q
<1>1. i \in 1 .. Len(s) /\ Len(s) \in Nat /\ DOMAIN s = 1 .. Len(s)
      /\ \A j \in 1 .. Len(s) : s[j] \in S
  BY LenProperties, ElementOfSeq
<1>2. /\ p \in Seq(S) /\ Len(p) = i - 1
      /\ \A j \in 1 .. i - 1 : p[j] = s[j]
  BY <1>1, SubSeqProperties DEF p
<1>3. /\ q \in Seq(S) /\ Len(q) = Len(s) - i
      /\ \A j \in 1 .. Len(s) - i : q[j] = s[i + j]
  <2>1. /\ i + 1 \in Int /\ Len(s) \in Int /\ \A j \in i + 1 .. Len(s) : s[j] \in S
        /\ Len(s) - (i + 1) + 1 = Len(s) - i
        /\ \A j \in 1 .. Len(s) - i : (i + 1) + j - 1 = i + j
    BY <1>1
  <2>2. q \in Seq(S)
    BY <2>1, SubSeqProperties DEF q
  <2>3. Len(q) = IF i + 1 <= Len(s) THEN Len(s) - (i + 1) + 1 ELSE 0
    BY <2>1, SubSeqProperties DEF q
  <2>4. \A j \in 1 .. Len(s) - (i + 1) + 1 : q[j] = s[(i + 1) + j - 1]
    BY <2>1, SubSeqProperties DEF q
  <2>5. Len(q) = Len(s) - i
    BY <1>1, <2>3
  <2> QED
    BY <2>1, <2>2, <2>4, <2>5
<1>4. /\ p \o q \in Seq(S) /\ Len(p \o q) = Len(s) - 1
      /\ \A j \in 1 .. Len(s) - 1 : (p \o q)[j] = IF j <= i - 1 THEN p[j] ELSE q[j - (i - 1)]
  <2>1. /\ p \o q \in Seq(S) /\ Len(p \o q) = Len(p) + Len(q)
        /\ \A j \in 1 .. Len(p) + Len(q) :
              (p \o q)[j] = IF j <= Len(p) THEN p[j] ELSE q[j - Len(p)]
    <3>1. p \in Seq(S) /\ q \in Seq(S)
      BY <1>2, <1>3
    <3> QED
      BY <3>1, ConcatProperties, Zenon
  <2>2. Len(p) + Len(q) = Len(s) - 1
    BY <1>1, <1>2, <1>3
  <2>3. Len(p) = i - 1
    BY <1>2
  <2> QED
    BY <2>1, <2>2, <2>3, Zenon
<1>5. RemoveAt(s, i) = p \o q
  BY DEF RemoveAt, p, q
<1>6. DOMAIN (p \o q) = 1 .. Len(s) - 1
  BY <1>4, LenProperties
<1>7. ASSUME NEW j \in 1 .. Len(s) - 1
      PROVE  (p \o q)[j] = IF j < i THEN s[j] ELSE s[j + 1]
  <2>1. CASE j < i
    BY <1>1, <1>2, <1>4, <2>1
  <2>2. CASE ~(j < i)
    <3>1. j - (i - 1) \in 1 .. Len(s) - i /\ i + (j - (i - 1)) = j + 1 /\ ~(j <= i - 1)
      BY <1>1, <2>2
    <3> QED
      BY <1>3, <1>4, <2>2, <3>1
  <2> QED
    BY <2>1, <2>2
<1> QED
  BY <1>1, <1>4, <1>5, <1>6, <1>7

\* So it leaves a sequence of elements of the old one.
LEMMA RemoveAtType ==
  ASSUME NEW S, NEW s \in Seq(S), NEW i \in DOMAIN s
  PROVE  /\ RemoveAt(s, i) \in Seq(S)
         /\ \A j \in DOMAIN RemoveAt(s, i) : \E m \in DOMAIN s : RemoveAt(s, i)[j] = s[m]
<1>1. /\ RemoveAt(s, i) \in Seq(S) /\ Len(s) \in Nat /\ DOMAIN s = 1 .. Len(s)
      /\ DOMAIN RemoveAt(s, i) = 1 .. Len(s) - 1
      /\ \A j \in 1 .. Len(s) - 1 : RemoveAt(s, i)[j] = IF j < i THEN s[j] ELSE s[j + 1]
  BY RemoveAtExact
<1>2. ASSUME NEW j \in 1 .. Len(s) - 1 PROVE \E m \in DOMAIN s : RemoveAt(s, i)[j] = s[m]
  <2>1. j \in DOMAIN s /\ j + 1 \in DOMAIN s
    BY <1>1
  <2> QED
    BY <1>1, <2>1
<1> QED
  BY <1>1, <1>2

\* Every thread is bound to a core that exists.
LEMMA CoreOfType == \A th \in Threads : CoreOf(th) \in Cores
  BY SizesAssumption DEF CoreOf, Threads, Cores

\* Starting a thread of the queue.
LEMMA DispatchType ==
  ASSUME NEW k, NEW c \in CoreRec(k), NEW i \in DOMAIN c.runqueue
  PROVE  LET d == Dispatch(c, i)
         IN  /\ d \in CoreRec(k) /\ ~d.idle
             /\ c.runqueue[i] \in ThreadsOf(k) /\ d.current_thread = c.runqueue[i]
             /\ c.dispatched = <<>> => d.dispatched = <<c.runqueue[i]>>
<1> DEFINE starts == Append(c.dispatched, c.runqueue[i])
           rest == RemoveAt(c.runqueue, i)
<1>1. /\ c.runqueue \in Seq(ThreadsOf(k)) /\ c.runqueue[i] \in ThreadsOf(k)
      /\ c.runqueue[i] \in Threads
  BY DEF CoreRec, ThreadsOf
<1>2. rest \in Seq(ThreadsOf(k))
  BY <1>1, RemoveAtType
<1>3. starts \in Seq(ThreadsOf(k)) /\ (c.dispatched = <<>> => starts = <<c.runqueue[i]>>)
  <2>1. c.dispatched \in Seq(ThreadsOf(k))
    BY DEF CoreRec
  <2>2. starts \in Seq(ThreadsOf(k))
    BY <1>1, <2>1, AppendProperties
  <2>3. c.dispatched = <<>> => starts = <<c.runqueue[i]>>
    OBVIOUS
  <2> QED
    BY <2>2, <2>3
<1> HIDE DEF starts, rest
<1>4. Dispatch(c, i) = [runqueue |-> rest, idle |-> FALSE,
        current_thread |-> c.runqueue[i], busy_time |-> c.busy_time, dispatched |-> starts]
  <2>1. Dispatch(c, i) = [c EXCEPT !.runqueue = rest, !.current_thread = c.runqueue[i],
                                   !.idle = FALSE, !.dispatched = starts]
    BY DEF Dispatch, starts, rest
  <2> QED
    BY <2>1 DEF CoreRec
<1>5. Dispatch(c, i) \in CoreRec(k)
  BY <1>1, <1>2, <1>3, <1>4 DEF CoreRec
<1> QED
  BY <1>1, <1>3, <1>4, <1>5

\* schedule_next_slice stops the core, or starts one thread of its queue.
LEMMA ScheduleOutcome ==
  ASSUME NEW k, NEW rem, NEW c \in CoreRec(k), NEW d \in schedule_next_slice(c, rem)
  PROVE  /\ d \in CoreRec(k)
         /\ c.dispatched = <<>> =>
              IF c.runqueue = <<>> THEN Stopped(d) ELSE Started(d, k)
<1>1. CASE c.runqueue = <<>>
  BY <1>1 DEF schedule_next_slice, CoreRec, Stopped
<1>2. CASE c.runqueue # <<>>
  <2>1. PICK i \in DOMAIN c.runqueue : d = Dispatch(c, i)
    BY <1>2 DEF schedule_next_slice, Tops
  <2> QED
    BY <1>2, <2>1, DispatchType DEF Started
<1> QED
  BY <1>1, <1>2

\* add_runnable starts an idle core and leaves a busy one to its thread.
LEMMA AddOutcome ==
  ASSUME NEW k, NEW rem, NEW c \in CoreRec(k), c.dispatched = <<>>,
         NEW th \in ThreadsOf(k), NEW d \in add_runnable(c, th, rem)
  PROVE  /\ d \in CoreRec(k)
         /\ \/ c.idle /\ Started(d, k)
            \/ /\ ~c.idle /\ ~d.idle
               /\ d.current_thread = c.current_thread /\ d.dispatched = <<>>
<1> DEFINE q == Append(c.runqueue, th)
           queued == [c EXCEPT !.runqueue = q]
<1>1. q \in Seq(ThreadsOf(k)) /\ q # <<>>
  BY AppendProperties DEF CoreRec
<1> HIDE DEF q
<1>2. queued = [runqueue |-> q, idle |-> c.idle,
                current_thread |-> c.current_thread, busy_time |-> c.busy_time,
                dispatched |-> <<>>]
  BY DEF CoreRec
<1>3. queued \in CoreRec(k) /\ queued.dispatched = <<>> /\ queued.runqueue # <<>>
  BY <1>1, <1>2 DEF CoreRec
<1> HIDE DEF queued
<1>4. CASE c.idle
  <2>1. d \in schedule_next_slice(queued, rem)
    BY <1>4 DEF add_runnable, queued, q
  <2> QED
    BY <1>3, <1>4, <2>1, ScheduleOutcome
<1>5. CASE ~c.idle
  BY <1>2, <1>3, <1>5 DEF add_runnable, queued, q
<1> QED
  BY <1>4, <1>5

-----------------------------------------------------------------------------
(* Events and the shared pieces of the handlers. *)

\* The constructors build events of their type.
LEMMA EventConstructors ==
  ASSUME NEW ids, ids \subseteq Nat, NEW t \in Nat
  PROVE  /\ \A u \in Users : UserArrival(t, u) \in EventOf(ids)
         /\ \A th \in Threads : /\ SliceStart(t, th) \in EventOf(ids)
                               /\ ThreadAvailable(t, th) \in EventOf(ids)
                               /\ \A sl \in Nat : SliceEnd(t, th, sl) \in EventOf(ids)
         /\ \A r \in ids : /\ RequestComplete(t, r) \in EventOf(ids)
                          /\ CheckTimeout(t, r) \in EventOf(ids)
  BY DEF EventOf, Event, EventTypes, SliceTypes, ThreadTypes, RequestTypes, NoReq, Ev,
         UserArrival, SliceStart, ThreadAvailable, SliceEnd, RequestComplete, CheckTimeout

\* Stamping an event keeps its type.
LEMMA StampType ==
  ASSUME NEW ids, NEW x \in EventOf(ids), NEW n \in Nat
  PROVE  [x EXCEPT !.seq = n] \in EventOf(ids)
  BY DEF EventOf, Event

\* The sequence of one element.
LEMMA OneElement ==
  ASSUME NEW S, NEW x \in S
  PROVE  <<x>> \in Seq(S)
  OBVIOUS

\* A handler that creates well-formed events leaves a well-formed queue.
LEMMA EmitType ==
  ASSUME NEW ids, NEW e, NEW es \in Seq(EventOf(ids)), evq \subseteq EventOf(ids),
         seq_counter \in Nat, Emit(e, es)
  PROVE  evq' \subseteq EventOf(ids) /\ seq_counter' \in Nat
<1>1. Len(es) \in Nat /\ \A i \in DOMAIN es : es[i] \in EventOf(ids) /\ seq_counter + i \in Nat
  BY LenProperties
<1>2. \A i \in DOMAIN es : [es[i] EXCEPT !.seq = seq_counter + i] \in EventOf(ids)
  BY <1>1, StampType
<1> QED
  BY <1>1, <1>2 DEF Emit

\* The events of the dispatches of a handler.
LEMMA SliceStartsType ==
  ASSUME NEW ids, ids \subseteq Nat, NEW t \in Nat, NEW c, c.dispatched \in Seq(Threads)
  PROVE  SliceStarts(t, c) \in Seq(EventOf(ids))
<1>1. /\ Len(c.dispatched) \in Nat /\ DOMAIN c.dispatched = 1 .. Len(c.dispatched)
      /\ \A i \in DOMAIN c.dispatched : c.dispatched[i] \in Threads
  BY LenProperties
<1>2. \A i \in 1 .. Len(c.dispatched) : SliceStart(t, c.dispatched[i]) \in EventOf(ids)
  BY <1>1, EventConstructors
<1>3. SliceStarts(t, c) \in [1 .. Len(c.dispatched) -> EventOf(ids)]
  BY <1>1, <1>2 DEF SliceStarts
<1> QED
  BY <1>1, <1>3, SeqDef

\* A core between two handlers is a core in the middle of one.
LEMMA CoreIsRec ==
  ASSUME TypeOK, NEW k \in Cores
  PROVE  core[k] \in CoreRec(k) /\ core[k].dispatched = <<>>
  BY EmptySeq DEF TypeOK, CoreState, CoreRec

\* Writing back a core keeps the type of core.
LEMMA SetCoreType ==
  ASSUME TypeOK, NEW k \in Cores, NEW c \in CoreRec(k), SetCore(k, c)
  PROVE  /\ core' \in [Cores -> CoreState]
         /\ \A j \in Cores : core'[j].runqueue \in Seq(ThreadsOf(j))
<1> DEFINE d == [c EXCEPT !.dispatched = <<>>]
<1>1. c.runqueue \in Seq(Threads)
  BY SeqMonotonic DEF CoreRec, ThreadsOf
<1>2. d \in CoreState /\ d.runqueue \in Seq(ThreadsOf(k))
  BY <1>1 DEF CoreRec, CoreState
<1>3. core' = [core EXCEPT ![k] = d]
  BY DEF SetCore
<1> HIDE DEF d
<1> QED
  BY <1>2, <1>3 DEF TypeOK

-----------------------------------------------------------------------------
(* Type correctness, action by action. *)

\* The first event of the queue has its type, and so does the clock after it.
LEMMA PopType ==
  ASSUME TypeOK, NEW e \in evq, NEW ty, Pop(e, ty)
  PROVE  /\ running = TRUE /\ e.type = ty
         /\ e \in EventOf(ReqIds) /\ e.time \in Nat /\ e.slice_len \in Nat /\ now' \in Nat
  BY DEF TypeOK, Pop, EventOf, Event

\* Identifiers of requests stay valid while all_requests grows.
LEMMA IdsGrow ==
  ASSUME TypeOK, ReqIds \subseteq ReqIds'
  PROVE  /\ evq \subseteq EventOf(ReqIds')
         /\ completed_requests \in Seq(ReqIds') /\ timedout_requests \in Seq(ReqIds')
         /\ waiting_requests \in Seq(ReqIds')
         /\ thread_req \in [Threads -> ReqIds' \cup {NoReq}]
<1>1. evq \subseteq EventOf(ReqIds')
  BY DEF TypeOK, EventOf
<1>2. /\ completed_requests \in Seq(ReqIds') /\ timedout_requests \in Seq(ReqIds')
      /\ waiting_requests \in Seq(ReqIds')
  BY SeqMonotonic DEF TypeOK
<1>3. thread_req \in [Threads -> ReqIds' \cup {NoReq}]
  BY DEF TypeOK
<1> QED
  BY <1>1, <1>2, <1>3

\* The request of an arrival gets the next identifier.
LEMMA ArrivesType ==
  ASSUME TypeOK, NEW e \in evq, Arrives(e)
  PROVE  LET r == Len(all_requests) + 1
         IN  /\ all_requests' \in Seq(Request)
             /\ ReqIds \subseteq ReqIds' /\ r \in ReqIds' /\ r \in Nat
             /\ all_requests'[r].timeout_deadline \in Nat
             /\ e.user \in Users /\ e.time \in Nat /\ now' \in Nat
             /\ completed_requests' = completed_requests
             /\ timedout_requests' = timedout_requests /\ running' \in BOOLEAN
<1>1. PICK service \in ServiceTimes, timeout \in Timeouts :
        all_requests' = Append(all_requests, NewRequest(e.user, e.time, service, timeout))
  BY DEF Arrives
<1>2. e.user \in Users /\ e.time \in Nat /\ now' \in Nat
  BY PopType DEF Arrives, EventOf
<1>3. service \in Nat /\ timeout \in Nat
  BY TimesAssumption
<1>4. NewRequest(e.user, e.time, service, timeout) \in Request
  BY <1>2, <1>3 DEF NewRequest, Request
<1>5. /\ all_requests' \in Seq(Request) /\ Len(all_requests') = Len(all_requests) + 1
      /\ all_requests'[Len(all_requests) + 1] \in Request
      /\ Len(all_requests) \in Nat
  BY <1>1, <1>4, AppendProperties, LenProperties DEF TypeOK
<1>6. all_requests'[Len(all_requests) + 1].timeout_deadline \in Nat
  BY <1>5 DEF Request
<1>7. /\ ReqIds \subseteq ReqIds' /\ Len(all_requests) + 1 \in ReqIds'
      /\ Len(all_requests) + 1 \in Nat
  BY <1>5 DEF ReqIds
<1> QED
  BY <1>2, <1>5, <1>6, <1>7 DEF Arrives, TypeOK

LEMMA TypeInit == Init => TypeOK
<1> SUFFICES ASSUME Init PROVE TypeOK
  OBVIOUS
<1>1. evq \subseteq EventOf(ReqIds)
  <2>1. PICK start \in [Users -> StartTimes] :
          evq = {[UserArrival(start[u], u) EXCEPT !.seq = u + 1] : u \in Users}
    BY DEF Init
  <2>2. \A u \in Users : u + 1 \in Nat /\ start[u] \in Nat
    BY <2>1, SizesAssumption, TimesAssumption DEF Users
  <2>3. ReqIds \subseteq Nat
    BY DEF ReqIds
  <2>4. \A u \in Users : [UserArrival(start[u], u) EXCEPT !.seq = u + 1] \in EventOf(ReqIds)
    BY <2>2, <2>3, EventConstructors, StampType
  <2> QED
    BY <2>1, <2>4
<1>2. free_threads \in Seq(Threads)
  <2>1. free_threads \in [1 .. MAX_THREADS -> Threads]
    BY SizesAssumption DEF Init, Threads
  <2>2. MAX_THREADS \in Nat
    BY SizesAssumption
  <2> QED
    BY <2>1, <2>2, SeqDef
<1>3. \A k \in Cores : core[k] \in CoreState /\ core[k].runqueue \in Seq(ThreadsOf(k))
  BY EmptySeq DEF Init, NewCore, CoreState
<1>4. core \in [Cores -> CoreState]
  BY <1>3 DEF Init
<1>5. thread_req \in [Threads -> ReqIds \cup {NoReq}]
  BY DEF Init
<1>6. /\ all_requests \in Seq(Request) /\ completed_requests \in Seq(ReqIds)
      /\ timedout_requests \in Seq(ReqIds) /\ waiting_requests \in Seq(ReqIds)
  BY EmptySeq DEF Init
<1>7. /\ now \in Nat /\ seq_counter \in Nat /\ dropped_requests \in Nat /\ running \in BOOLEAN
  BY SizesAssumption DEF Init
<1> QED
  BY <1>1, <1>2, <1>3, <1>4, <1>5, <1>6, <1>7 DEF TypeOK

\* A request that finds a free thread.
LEMMA ArrivalRunsType == ASSUME TypeOK, ArrivalRuns PROVE TypeOK'
<1> DEFINE th == Head(free_threads)
           k  == CoreOf(th)
           r  == Len(all_requests) + 1
<1>1. PICK e \in evq :
        /\ Arrives(e)
        /\ thread_req' = [thread_req EXCEPT ![th] = r]
        /\ \E c \in add_runnable(core[k], th, Remaining') :
             /\ SetCore(k, c)
             /\ Emit(e, Append(SliceStarts(e.time, c),
                               CheckTimeout(all_requests'[r].timeout_deadline, r)))
  BY DEF ArrivalRuns
<1>2. PICK c \in add_runnable(core[k], th, Remaining') :
        /\ SetCore(k, c)
        /\ Emit(e, Append(SliceStarts(e.time, c),
                          CheckTimeout(all_requests'[r].timeout_deadline, r)))
  BY <1>1
<1>3. /\ th \in Threads /\ Tail(free_threads) \in Seq(Threads)
  BY HeadTailProperties DEF TypeOK, ArrivalRuns
<1>4. k \in Cores /\ th \in ThreadsOf(k)
  BY <1>3, CoreOfType DEF ThreadsOf
<1>5. c \in CoreRec(k)
  BY <1>2, <1>4, CoreIsRec, AddOutcome
<1>6. /\ core' \in [Cores -> CoreState]
      /\ \A j \in Cores : core'[j].runqueue \in Seq(ThreadsOf(j))
  BY <1>2, <1>4, <1>5, SetCoreType
<1>7. /\ all_requests' \in Seq(Request)
      /\ ReqIds \subseteq ReqIds' /\ r \in ReqIds' /\ r \in Nat
      /\ all_requests'[r].timeout_deadline \in Nat
      /\ e.time \in Nat /\ now' \in Nat
      /\ completed_requests' = completed_requests
      /\ timedout_requests' = timedout_requests /\ running' \in BOOLEAN
  BY <1>1, ArrivesType
<1>8. evq' \subseteq EventOf(ReqIds') /\ seq_counter' \in Nat
  <2>1. ReqIds' \subseteq Nat
    BY DEF ReqIds
  <2>2. c.dispatched \in Seq(Threads)
    BY <1>5, SeqMonotonic DEF CoreRec, ThreadsOf
  <2>3. Append(SliceStarts(e.time, c), CheckTimeout(all_requests'[r].timeout_deadline, r))
          \in Seq(EventOf(ReqIds'))
    BY <1>7, <2>1, <2>2, SliceStartsType, EventConstructors, AppendProperties
  <2> QED
    BY <1>2, <1>7, <2>3, IdsGrow, EmitType DEF TypeOK
<1>9. thread_req' \in [Threads -> ReqIds' \cup {NoReq}]
  BY <1>1, <1>3, <1>7, IdsGrow
<1> QED
  BY <1>3, <1>6, <1>7, <1>8, <1>9, IdsGrow DEF TypeOK, ArrivalRuns

\* A request that finds no thread free and room in the queue.
LEMMA ArrivalWaitsType == ASSUME TypeOK, ArrivalWaits PROVE TypeOK'
<1> DEFINE r == Len(all_requests) + 1
<1>1. PICK e \in evq :
        /\ Arrives(e)
        /\ waiting_requests' = Append(waiting_requests, r)
        /\ Emit(e, <<CheckTimeout(all_requests'[r].timeout_deadline, r)>>)
  BY DEF ArrivalWaits
<1>2. /\ all_requests' \in Seq(Request)
      /\ ReqIds \subseteq ReqIds' /\ r \in ReqIds' /\ r \in Nat
      /\ all_requests'[r].timeout_deadline \in Nat
      /\ e.time \in Nat /\ now' \in Nat
      /\ completed_requests' = completed_requests
      /\ timedout_requests' = timedout_requests /\ running' \in BOOLEAN
  BY <1>1, ArrivesType
<1>3. evq' \subseteq EventOf(ReqIds') /\ seq_counter' \in Nat
  <2>1. ReqIds' \subseteq Nat
    BY DEF ReqIds
  <2>2. CheckTimeout(all_requests'[r].timeout_deadline, r) \in EventOf(ReqIds')
    BY <1>2, <2>1, EventConstructors
  <2> QED
    BY <1>1, <1>2, <2>2, IdsGrow, OneElement, EmitType DEF TypeOK
<1>4. waiting_requests' \in Seq(ReqIds')
  BY <1>1, <1>2, IdsGrow, AppendProperties
<1> QED
  BY <1>2, <1>3, <1>4, IdsGrow DEF TypeOK, ArrivalWaits

\* A request that finds the queue full.
LEMMA ArrivalDroppedType == ASSUME TypeOK, ArrivalDropped PROVE TypeOK'
<1>1. PICK e \in evq, think \in ThinkTimes :
        Arrives(e) /\ Emit(e, <<UserArrival(e.time + think, e.user)>>)
  BY DEF ArrivalDropped
<1>2. /\ all_requests' \in Seq(Request) /\ ReqIds \subseteq ReqIds'
      /\ e.user \in Users /\ e.time \in Nat /\ now' \in Nat
      /\ completed_requests' = completed_requests
      /\ timedout_requests' = timedout_requests /\ running' \in BOOLEAN
  BY <1>1, ArrivesType
<1>3. evq' \subseteq EventOf(ReqIds') /\ seq_counter' \in Nat
  <2>1. ReqIds' \subseteq Nat /\ e.time + think \in Nat
    BY <1>2, TimesAssumption DEF ReqIds
  <2>2. UserArrival(e.time + think, e.user) \in EventOf(ReqIds')
    BY <1>2, <2>1, EventConstructors
  <2> QED
    BY <1>1, <1>2, <2>2, IdsGrow, OneElement, EmitType DEF TypeOK
<1>4. dropped_requests' \in Nat
  BY DEF TypeOK, ArrivalDropped
<1> QED
  BY <1>2, <1>3, <1>4, IdsGrow DEF TypeOK, ArrivalDropped

\* The thread of a slice event, its core and its request.
LEMMA SliceEventType ==
  ASSUME TypeOK, NEW e \in evq, NEW ty \in ThreadTypes, Pop(e, ty)
  PROVE  /\ e.thread \in Threads /\ CoreOf(e.thread) \in Cores
         /\ e.thread \in ThreadsOf(CoreOf(e.thread))
         /\ thread_req[e.thread] \in ReqIds \cup {NoReq}
         /\ thread_req[e.thread] # NoReq =>
              /\ thread_req[e.thread] \in ReqIds
              /\ all_requests[thread_req[e.thread]] \in Request
<1>1. e.thread \in Threads /\ CoreOf(e.thread) \in Cores
  BY PopType, CoreOfType DEF EventOf
<1>2. thread_req[e.thread] \in ReqIds \cup {NoReq}
  BY <1>1 DEF TypeOK
<1>3. \A r \in ReqIds : all_requests[r] \in Request
  BY ElementOfSeq DEF TypeOK, ReqIds
<1> QED
  BY <1>1, <1>2, <1>3 DEF ThreadsOf

\* The events a core creates are well-formed.
LEMMA DispatchEvents ==
  ASSUME TypeOK, NEW k, NEW c \in CoreRec(k), NEW t \in Nat
  PROVE  SliceStarts(t, c) \in Seq(EventOf(ReqIds))
<1>1. ReqIds \subseteq Nat
  BY DEF ReqIds
<1>2. c.dispatched \in Seq(Threads)
  BY SeqMonotonic DEF CoreRec, ThreadsOf
<1> QED
  BY <1>1, <1>2, SliceStartsType

\* A slice starts.
LEMMA SliceStartType == ASSUME TypeOK, handle_thread_slice_start PROVE TypeOK'
<1>1. PICK e \in evq :
        /\ Pop(e, "THREAD_SLICE_START")
        /\ \E c \in IF thread_req[e.thread] = NoReq
                   THEN schedule_next_slice(core[CoreOf(e.thread)], Remaining)
                   ELSE {core[CoreOf(e.thread)]} :
             /\ SetCore(CoreOf(e.thread), c)
             /\ LET sl == Shorter(QUANTUM, all_requests[thread_req[e.thread]].service_remaining)
                IN  Emit(e, IF thread_req[e.thread] = NoReq THEN SliceStarts(e.time, c)
                            ELSE <<SliceEnd(e.time + sl, e.thread, sl)>>)
  BY DEF handle_thread_slice_start
<1> DEFINE th == e.thread
           k  == CoreOf(th)
           r  == thread_req[th]
           sl == Shorter(QUANTUM, all_requests[r].service_remaining)
<1>2. PICK c \in IF r = NoReq THEN schedule_next_slice(core[k], Remaining) ELSE {core[k]} :
        /\ SetCore(k, c)
        /\ Emit(e, IF r = NoReq THEN SliceStarts(e.time, c)
                   ELSE <<SliceEnd(e.time + sl, th, sl)>>)
  BY <1>1
<1>3. /\ th \in Threads /\ k \in Cores /\ e.time \in Nat /\ now' \in Nat
      /\ r # NoReq => all_requests[r] \in Request
  BY <1>1, PopType, SliceEventType DEF ThreadTypes, SliceTypes
<1>4. c \in CoreRec(k)
  BY <1>2, <1>3, CoreIsRec, ScheduleOutcome
<1>5. r # NoReq => sl \in Nat
  BY <1>3, TimesAssumption DEF Shorter, Request
<1>6. evq' \subseteq EventOf(ReqIds) /\ seq_counter' \in Nat
  <2>1. CASE r = NoReq
    BY <1>2, <1>3, <1>4, <2>1, DispatchEvents, EmitType DEF TypeOK
  <2>2. CASE r # NoReq
    <3>1. e.time + sl \in Nat /\ ReqIds \subseteq Nat
      BY <1>3, <1>5, <2>2 DEF ReqIds
    <3>2. SliceEnd(e.time + sl, th, sl) \in EventOf(ReqIds)
      BY <1>3, <1>5, <2>2, <3>1, EventConstructors
    <3> QED
      BY <1>2, <2>2, <3>2, OneElement, EmitType DEF TypeOK
  <2> QED
    BY <2>1, <2>2
<1>7. /\ core' \in [Cores -> CoreState]
      /\ \A j \in Cores : core'[j].runqueue \in Seq(ThreadsOf(j))
  BY <1>2, <1>3, <1>4, SetCoreType
<1> QED
  BY <1>3, <1>6, <1>7 DEF TypeOK, ReqIds, handle_thread_slice_start

\* A thread comes back from a context switch.
LEMMA ThreadAvailableType == ASSUME TypeOK, handle_thread_available PROVE TypeOK'
<1>1. PICK e \in evq :
        /\ Pop(e, "THREAD_AVAILABLE")
        /\ \E c1 \in add_runnable(core[CoreOf(e.thread)], e.thread, Remaining) :
           \E c2 \in IF c1.idle THEN schedule_next_slice(c1, Remaining) ELSE {c1} :
             /\ SetCore(CoreOf(e.thread), c2)
             /\ Emit(e, SliceStarts(e.time, c2))
  BY DEF handle_thread_available
<1> DEFINE th == e.thread
           k  == CoreOf(th)
<1>2. /\ th \in ThreadsOf(k) /\ k \in Cores /\ e.time \in Nat /\ now' \in Nat
  BY <1>1, PopType, SliceEventType DEF ThreadTypes
<1>3. PICK c1 \in add_runnable(core[k], th, Remaining) :
      \E c2 \in IF c1.idle THEN schedule_next_slice(c1, Remaining) ELSE {c1} :
        SetCore(k, c2) /\ Emit(e, SliceStarts(e.time, c2))
  BY <1>1
<1>4. c1 \in CoreRec(k) /\ ~c1.idle
  BY <1>2, CoreIsRec, AddOutcome DEF Started
<1>5. SetCore(k, c1) /\ Emit(e, SliceStarts(e.time, c1))
  BY <1>3, <1>4
<1>6. /\ core' \in [Cores -> CoreState]
      /\ \A j \in Cores : core'[j].runqueue \in Seq(ThreadsOf(j))
  BY <1>2, <1>4, <1>5, SetCoreType
<1>7. evq' \subseteq EventOf(ReqIds) /\ seq_counter' \in Nat
  BY <1>2, <1>4, <1>5, DispatchEvents, EmitType DEF TypeOK
<1> QED
  BY <1>2, <1>6, <1>7 DEF TypeOK, ReqIds, handle_thread_available

\* Updating one request.
LEMMA UpdateType ==
  ASSUME TypeOK, NEW r \in ReqIds, NEW q \in Request,
         all_requests' = [all_requests EXCEPT ![r] = q]
  PROVE  all_requests' \in Seq(Request) /\ ReqIds' = ReqIds
  BY ExceptSeq DEF TypeOK, ReqIds

\* Accounting a slice leaves everything else of the core as it was.
LEMMA AccountedType ==
  ASSUME TypeOK, NEW e \in evq, NEW ty \in ThreadTypes, Pop(e, ty)
  PROVE  LET k == CoreOf(e.thread)
         IN  /\ Accounted(e) \in CoreRec(k) /\ Accounted(e).dispatched = <<>>
             /\ Accounted(e).idle = core[k].idle
<1> DEFINE k == CoreOf(e.thread)
           b == core[k].busy_time + IF e.time >= WARMUP_TIME THEN e.slice_len ELSE 0
<1>1. k \in Cores /\ e.slice_len \in Nat
  BY SliceEventType, PopType
<1>2. core[k] \in CoreRec(k) /\ core[k].dispatched = <<>> /\ core[k].busy_time \in Nat
  BY <1>1, CoreIsRec DEF CoreRec
<1>3. b \in Nat
  BY <1>1, <1>2
<1> HIDE DEF b
<1>4. Accounted(e) = [core[k] EXCEPT !.busy_time = b]
  BY DEF Accounted, b
<1> QED
  BY <1>2, <1>3, <1>4 DEF CoreRec

\* The last slice of a request ends.
LEMMA SliceEndCompletesType == ASSUME TypeOK, SliceEndCompletes PROVE TypeOK'
<1>1. PICK e \in evq :
        /\ Pop(e, "THREAD_SLICE_END")
        /\ thread_req[e.thread] # NoReq
        /\ all_requests' = [all_requests EXCEPT ![thread_req[e.thread]] =
                               mark_completed(all_requests[thread_req[e.thread]], e.time)]
        /\ release_thread_to_pool(e.thread)
        /\ \E c1 \in IF waiting_requests = <<>> THEN {Accounted(e)}
                    ELSE add_runnable(Accounted(e), e.thread, Remaining') :
           \E c2 \in schedule_next_slice(c1, Remaining') :
             /\ SetCore(CoreOf(e.thread), c2)
             /\ Emit(e, <<RequestComplete(e.time, thread_req[e.thread])>>
                          \o SliceStarts(e.time, c2))
  BY DEF SliceEndCompletes
<1> DEFINE th == e.thread
           k  == CoreOf(th)
           r  == thread_req[th]
<1>2. PICK c1 \in IF waiting_requests = <<>> THEN {Accounted(e)}
                  ELSE add_runnable(Accounted(e), th, Remaining') :
      \E c2 \in schedule_next_slice(c1, Remaining') :
        /\ SetCore(k, c2)
        /\ Emit(e, <<RequestComplete(e.time, r)>> \o SliceStarts(e.time, c2))
  BY <1>1
<1>3. PICK c2 \in schedule_next_slice(c1, Remaining') :
        /\ SetCore(k, c2)
        /\ Emit(e, <<RequestComplete(e.time, r)>> \o SliceStarts(e.time, c2))
  BY <1>2
<1>4. /\ th \in Threads /\ th \in ThreadsOf(k) /\ k \in Cores /\ e.time \in Nat /\ now' \in Nat
      /\ r \in ReqIds /\ all_requests[r] \in Request
  BY <1>1, PopType, SliceEventType DEF ThreadTypes, SliceTypes
<1>5. c2 \in CoreRec(k)
  <2>1. Accounted(e) \in CoreRec(k) /\ Accounted(e).dispatched = <<>>
    BY <1>1, AccountedType DEF ThreadTypes, SliceTypes
  <2>2. c1 \in CoreRec(k)
    BY <1>2, <1>4, <2>1, AddOutcome
  <2> QED
    BY <1>3, <2>2, ScheduleOutcome
<1>6. all_requests' \in Seq(Request) /\ ReqIds' = ReqIds
  <2>1. mark_completed(all_requests[r], e.time) \in Request
    BY <1>4 DEF mark_completed, Request
  <2> QED
    BY <1>1, <1>4, <2>1, UpdateType
<1>7. evq' \subseteq EventOf(ReqIds) /\ seq_counter' \in Nat
  <2>1. ReqIds \subseteq Nat
    BY DEF ReqIds
  <2>2. <<RequestComplete(e.time, r)>> \in Seq(EventOf(ReqIds))
    BY <1>4, <2>1, EventConstructors, OneElement
  <2>3. <<RequestComplete(e.time, r)>> \o SliceStarts(e.time, c2) \in Seq(EventOf(ReqIds))
    BY <1>4, <1>5, <2>2, DispatchEvents, ConcatProperties
  <2> QED
    BY <1>3, <2>3, EmitType DEF TypeOK
<1>8. /\ core' \in [Cores -> CoreState]
      /\ \A j \in Cores : core'[j].runqueue \in Seq(ThreadsOf(j))
  BY <1>3, <1>4, <1>5, SetCoreType
<1>9. /\ thread_req' \in [Threads -> ReqIds \cup {NoReq}]
      /\ free_threads' \in Seq(Threads) /\ waiting_requests' \in Seq(ReqIds)
  <2>1. CASE waiting_requests = <<>>
    <3>1. /\ thread_req' = [thread_req EXCEPT ![th] = NoReq]
          /\ free_threads' = Append(free_threads, th) /\ waiting_requests' = waiting_requests
      BY <1>1, <2>1 DEF release_thread_to_pool
    <3>2. Append(free_threads, th) \in Seq(Threads)
      BY <1>4, AppendProperties DEF TypeOK
    <3> QED
      BY <3>1, <3>2 DEF TypeOK
  <2>2. CASE waiting_requests # <<>>
    <3>1. /\ thread_req' = [thread_req EXCEPT ![th] = Head(waiting_requests)]
          /\ waiting_requests' = Tail(waiting_requests) /\ free_threads' = free_threads
      BY <1>1, <2>2 DEF release_thread_to_pool
    <3>2. Head(waiting_requests) \in ReqIds /\ Tail(waiting_requests) \in Seq(ReqIds)
      BY <2>2, HeadTailProperties DEF TypeOK
    <3> QED
      BY <3>1, <3>2 DEF TypeOK
  <2> QED
    BY <2>1, <2>2
<1> QED
  BY <1>4, <1>6, <1>7, <1>8, <1>9 DEF TypeOK, SliceEndCompletes

\* A slice ends and its request needs another one.
LEMMA SliceEndPreemptsType == ASSUME TypeOK, SliceEndPreempts PROVE TypeOK'
<1>1. PICK e \in evq :
        /\ Pop(e, "THREAD_SLICE_END")
        /\ thread_req[e.thread] = NoReq \/ LeftAfter(e) > DoneEps
        /\ all_requests' = IF thread_req[e.thread] = NoReq THEN all_requests
                           ELSE [all_requests EXCEPT
                                   ![thread_req[e.thread]].service_remaining = LeftAfter(e)]
        /\ \E c \in IF thread_req[e.thread] = NoReq
                   THEN schedule_next_slice(Accounted(e), Remaining)
                   ELSE {[Accounted(e) EXCEPT !.idle = TRUE, !.current_thread = NoThread]} :
             /\ SetCore(CoreOf(e.thread), c)
             /\ Emit(e, IF thread_req[e.thread] = NoReq THEN SliceStarts(e.time, c)
                        ELSE <<ThreadAvailable(e.time + CONTEXT_SWITCH_OVERHEAD, e.thread)>>)
  BY DEF SliceEndPreempts
<1> DEFINE th == e.thread
           k  == CoreOf(th)
           r  == thread_req[th]
<1>2. PICK c \in IF r = NoReq THEN schedule_next_slice(Accounted(e), Remaining)
                 ELSE {[Accounted(e) EXCEPT !.idle = TRUE, !.current_thread = NoThread]} :
        /\ SetCore(k, c)
        /\ Emit(e, IF r = NoReq THEN SliceStarts(e.time, c)
                   ELSE <<ThreadAvailable(e.time + CONTEXT_SWITCH_OVERHEAD, th)>>)
  BY <1>1
<1>3. /\ th \in Threads /\ k \in Cores /\ e.time \in Nat /\ now' \in Nat
      /\ e.slice_len \in Nat
      /\ r # NoReq => r \in ReqIds /\ all_requests[r] \in Request
  BY <1>1, PopType, SliceEventType DEF ThreadTypes, SliceTypes
<1>4. c \in CoreRec(k)
  <2>1. Accounted(e) \in CoreRec(k) /\ Accounted(e).dispatched = <<>>
    BY <1>1, AccountedType DEF ThreadTypes, SliceTypes
  <2>2. [Accounted(e) EXCEPT !.idle = TRUE, !.current_thread = NoThread] \in CoreRec(k)
    BY <2>1 DEF CoreRec
  <2> QED
    BY <1>2, <2>1, <2>2, ScheduleOutcome
<1>5. all_requests' \in Seq(Request) /\ ReqIds' = ReqIds
  <2>1. CASE r = NoReq
    BY <1>1, <2>1 DEF TypeOK, ReqIds
  <2>2. CASE r # NoReq
    <3>1. LeftAfter(e) \in Nat
      BY <1>1, <1>3, <2>2, TimesAssumption DEF LeftAfter, Request
    <3>2. [all_requests[r] EXCEPT !.service_remaining = LeftAfter(e)] \in Request
      BY <1>3, <2>2, <3>1 DEF Request
    <3>3. all_requests' = [all_requests EXCEPT ![r] =
                             [all_requests[r] EXCEPT !.service_remaining = LeftAfter(e)]]
      BY <1>1, <2>2
    <3> QED
      BY <1>3, <2>2, <3>2, <3>3, UpdateType
  <2> QED
    BY <2>1, <2>2
<1>6. evq' \subseteq EventOf(ReqIds) /\ seq_counter' \in Nat
  <2>1. CASE r = NoReq
    BY <1>2, <1>3, <1>4, <2>1, DispatchEvents, EmitType DEF TypeOK
  <2>2. CASE r # NoReq
    <3>1. e.time + CONTEXT_SWITCH_OVERHEAD \in Nat /\ ReqIds \subseteq Nat
      BY <1>3, TimesAssumption DEF ReqIds
    <3>2. ThreadAvailable(e.time + CONTEXT_SWITCH_OVERHEAD, th) \in EventOf(ReqIds)
      BY <1>3, <3>1, EventConstructors
    <3> QED
      BY <1>2, <2>2, <3>2, OneElement, EmitType DEF TypeOK
  <2> QED
    BY <2>1, <2>2
<1>7. /\ core' \in [Cores -> CoreState]
      /\ \A j \in Cores : core'[j].runqueue \in Seq(ThreadsOf(j))
  BY <1>2, <1>3, <1>4, SetCoreType
<1> QED
  BY <1>3, <1>5, <1>6, <1>7 DEF TypeOK, SliceEndPreempts

\* The request of an answer or of a deadline, and its user.
LEMMA RequestEventType ==
  ASSUME TypeOK, NEW e \in evq, NEW ty \in RequestTypes, Pop(e, ty)
  PROVE  /\ e.req \in ReqIds /\ all_requests[e.req] \in Request
         /\ all_requests[e.req].user_id \in Users /\ e.time \in Nat /\ now' \in Nat
<1>1. e.req \in ReqIds /\ e.time \in Nat /\ now' \in Nat
  BY PopType DEF EventOf
<1>2. all_requests[e.req] \in Request
  BY <1>1, ElementOfSeq DEF TypeOK, ReqIds
<1> QED
  BY <1>1, <1>2 DEF Request

\* The arrival that an answer or a timeout schedules for a user.
LEMMA NextArrivalType ==
  ASSUME NEW t \in Nat, NEW u \in Users, NEW think \in ThinkTimes
  PROVE  <<UserArrival(t + think, u)>> \in Seq(EventOf(ReqIds))
<1>1. t + think \in Nat /\ ReqIds \subseteq Nat
  BY TimesAssumption DEF ReqIds
<1> QED
  BY <1>1, EventConstructors, OneElement

\* An answer that comes in time.
LEMMA CompleteInTimeType == ASSUME TypeOK, CompleteInTime PROVE TypeOK'
<1>1. PICK e \in evq, think \in ThinkTimes :
        /\ Pop(e, "REQUEST_COMPLETE")
        /\ all_requests' = [all_requests EXCEPT ![e.req].completion_time = e.time]
        /\ completed_requests' = Append(completed_requests, e.req)
        /\ Emit(e, IF CLOSED_LOOP
                   THEN <<UserArrival(e.time + think, all_requests[e.req].user_id)>>
                   ELSE <<>>)
  BY DEF CompleteInTime
<1>2. /\ e.req \in ReqIds /\ all_requests[e.req] \in Request
      /\ all_requests[e.req].user_id \in Users /\ e.time \in Nat /\ now' \in Nat
  BY <1>1, RequestEventType DEF RequestTypes
<1>3. all_requests' \in Seq(Request) /\ ReqIds' = ReqIds
  <2>1. [all_requests[e.req] EXCEPT !.completion_time = e.time] \in Request
    BY <1>2 DEF Request
  <2>2. all_requests' = [all_requests EXCEPT ![e.req] =
                           [all_requests[e.req] EXCEPT !.completion_time = e.time]]
    BY <1>1
  <2> QED
    BY <1>2, <2>1, <2>2, UpdateType
<1>4. evq' \subseteq EventOf(ReqIds) /\ seq_counter' \in Nat
  <2>1. /\ <<UserArrival(e.time + think, all_requests[e.req].user_id)>> \in Seq(EventOf(ReqIds))
        /\ <<>> \in Seq(EventOf(ReqIds))
    BY <1>1, <1>2, NextArrivalType, EmptySeq
  <2> QED
    BY <1>1, <2>1, EmitType DEF TypeOK
<1>5. completed_requests' \in Seq(ReqIds)
  BY <1>1, <1>2, AppendProperties DEF TypeOK
<1> QED
  BY <1>2, <1>3, <1>4, <1>5 DEF TypeOK, CompleteInTime

\* An answer that comes too late.
LEMMA CompleteLateType == ASSUME TypeOK, CompleteLate PROVE TypeOK'
<1>1. PICK e \in evq :
        /\ Pop(e, "REQUEST_COMPLETE")
        /\ all_requests' = [all_requests EXCEPT ![e.req].timed_out = TRUE]
        /\ timedout_requests' = Append(timedout_requests, e.req)
        /\ Emit(e, <<>>)
  BY DEF CompleteLate
<1>2. e.req \in ReqIds /\ all_requests[e.req] \in Request /\ now' \in Nat
  BY <1>1, RequestEventType DEF RequestTypes
<1>3. all_requests' \in Seq(Request) /\ ReqIds' = ReqIds
  <2>1. [all_requests[e.req] EXCEPT !.timed_out = TRUE] \in Request
    BY <1>2 DEF Request
  <2>2. all_requests' = [all_requests EXCEPT ![e.req] =
                           [all_requests[e.req] EXCEPT !.timed_out = TRUE]]
    BY <1>1
  <2> QED
    BY <1>2, <2>1, <2>2, UpdateType
<1>4. evq' \subseteq EventOf(ReqIds) /\ seq_counter' \in Nat
  BY <1>1, EmptySeq, EmitType DEF TypeOK
<1>5. timedout_requests' \in Seq(ReqIds)
  BY <1>1, <1>2, AppendProperties DEF TypeOK
<1> QED
  BY <1>2, <1>3, <1>4, <1>5 DEF TypeOK, CompleteLate

\* A deadline of no consequence.
LEMMA TimeoutIgnoredType == ASSUME TypeOK, TimeoutIgnored PROVE TypeOK'
<1>1. PICK e \in evq : Pop(e, "CHECK_TIMEOUT") /\ Emit(e, <<>>)
  BY DEF TimeoutIgnored
<1>2. now' \in Nat
  BY <1>1, PopType
<1>3. evq' \subseteq EventOf(ReqIds) /\ seq_counter' \in Nat
  BY <1>1, EmptySeq, EmitType DEF TypeOK
<1> QED
  BY <1>2, <1>3 DEF TypeOK, ReqIds, TimeoutIgnored

\* A user gives up.
LEMMA UserGivesUpType == ASSUME TypeOK, UserGivesUp PROVE TypeOK'
<1>1. PICK e \in evq, think \in ThinkTimes :
        /\ Pop(e, "CHECK_TIMEOUT")
        /\ all_requests' = [all_requests EXCEPT ![e.req].timed_out = TRUE]
        /\ Emit(e, <<UserArrival(e.time + think, all_requests[e.req].user_id)>>)
  BY DEF UserGivesUp
<1>2. /\ e.req \in ReqIds /\ all_requests[e.req] \in Request
      /\ all_requests[e.req].user_id \in Users /\ e.time \in Nat /\ now' \in Nat
  BY <1>1, RequestEventType DEF RequestTypes
<1>3. all_requests' \in Seq(Request) /\ ReqIds' = ReqIds
  <2>1. [all_requests[e.req] EXCEPT !.timed_out = TRUE] \in Request
    BY <1>2 DEF Request
  <2>2. all_requests' = [all_requests EXCEPT ![e.req] =
                           [all_requests[e.req] EXCEPT !.timed_out = TRUE]]
    BY <1>1
  <2> QED
    BY <1>2, <2>1, <2>2, UpdateType
<1>4. evq' \subseteq EventOf(ReqIds) /\ seq_counter' \in Nat
  BY <1>1, <1>2, NextArrivalType, EmitType DEF TypeOK
<1> QED
  BY <1>2, <1>3, <1>4 DEF TypeOK, UserGivesUp

\* The loop ends.
LEMMA LoopEndsType == ASSUME TypeOK, LoopEnds PROVE TypeOK'
<1>1. now' \in Nat /\ evq' \subseteq EventOf(ReqIds)
  BY DEF TypeOK, LoopEnds, EventOf, Event
<1> QED
  BY <1>1 DEF TypeOK, ReqIds, LoopEnds

\* Type correctness is kept by every step.
LEMMA TypeNext == TypeOK /\ [Next]_vars => TypeOK'
<1> SUFFICES ASSUME TypeOK, [Next]_vars PROVE TypeOK'
  OBVIOUS
<1>1. CASE handle_user_arrival
  BY <1>1, ArrivalRunsType, ArrivalWaitsType, ArrivalDroppedType DEF handle_user_arrival
<1>2. CASE handle_thread_slice_start
  BY <1>2, SliceStartType
<1>3. CASE SliceEndCompletes
  BY <1>3, SliceEndCompletesType
<1>4. CASE SliceEndPreempts
  BY <1>4, SliceEndPreemptsType
<1>5. CASE handle_thread_available
  BY <1>5, ThreadAvailableType
<1>6. CASE handle_request_complete
  BY <1>6, CompleteInTimeType, CompleteLateType DEF handle_request_complete
<1>7. CASE handle_request_timeout
  BY <1>7, TimeoutIgnoredType, UserGivesUpType DEF handle_request_timeout
<1>8. CASE LoopEnds
  BY <1>8, LoopEndsType
<1>9. CASE UNCHANGED vars
  BY <1>9 DEF vars, TypeOK, ReqIds
<1> QED
  BY <1>1, <1>2, <1>3, <1>4, <1>5, <1>6, <1>7, <1>8, <1>9 DEF Next, Returned

\* Every variable keeps its type, no event and no thread ever refers to a
\* request, a thread or a user that does not exist, and a core only ever
\* queues threads that are bound to it, whatever the sizes and the times.
THEOREM TypeCorrect == Spec => []TypeOK
<1>1. Init => TypeOK
  BY TypeInit
<1>2. TypeOK /\ [Next]_vars => TypeOK'
  BY TypeNext
<1> QED
  BY <1>1, <1>2, PTL DEF Spec

-----------------------------------------------------------------------------
(* One slice per core. *)

\* The positions of es that are slices of core j.
NewSlices(es, j) == {i \in DOMAIN es : es[i].type \in SliceTypes /\ CoreOf(es[i].thread) = j}

\* A handler replaces its event by the ones it creates.
LEMMA SlicesAfter ==
  ASSUME NEW ids, NEW j, NEW e, NEW es \in Seq(EventOf(ids)), Emit(e, es)
  PROVE  SlicesOf(j)' = (SlicesOf(j) \ {e})
                          \cup {[es[i] EXCEPT !.seq = seq_counter + i] : i \in NewSlices(es, j)}
<1>1. \A i \in DOMAIN es : /\ [es[i] EXCEPT !.seq = seq_counter + i].type = es[i].type
                          /\ [es[i] EXCEPT !.seq = seq_counter + i].thread = es[i].thread
  BY DEF EventOf, Event
<1> QED
  BY <1>1 DEF Emit, SlicesOf, NewSlices

\* No slice of core j comes or goes.
LEMMA SlicesKept ==
  ASSUME NEW ids, NEW j, NEW e, NEW es \in Seq(EventOf(ids)), Emit(e, es),
         e \notin SlicesOf(j), NewSlices(es, j) = {}
  PROVE  SlicesOf(j)' = SlicesOf(j)
<1>1. SlicesOf(j)' = (SlicesOf(j) \ {e})
                       \cup {[es[i] EXCEPT !.seq = seq_counter + i] : i \in NewSlices(es, j)}
  BY SlicesAfter
<1>2. SlicesOf(j) \ {e} = SlicesOf(j)
  OBVIOUS
<1> QED
  BY <1>1, <1>2

\* The only slice of core j ends.
LEMMA SlicesGone ==
  ASSUME NEW ids, NEW j, NEW e, NEW es \in Seq(EventOf(ids)), Emit(e, es),
         SlicesOf(j) \subseteq {e}, NewSlices(es, j) = {}
  PROVE  SlicesOf(j)' = {}
  BY SlicesAfter

\* Core j gets one new slice and had no other.
LEMMA SlicesOne ==
  ASSUME NEW ids, NEW j, NEW e, NEW es \in Seq(EventOf(ids)), Emit(e, es),
         SlicesOf(j) \subseteq {e}, NEW i \in DOMAIN es, NewSlices(es, j) = {i}
  PROVE  \E x \in SlicesOf(j)' : SlicesOf(j)' = {x} /\ x.thread = es[i].thread
<1> DEFINE x == [es[i] EXCEPT !.seq = seq_counter + i]
<1>1. SlicesOf(j)' = {x}
  BY SlicesAfter
<1>2. x.thread = es[i].thread
  BY DEF EventOf, Event
<1> QED
  BY <1>1, <1>2

\* The events of the dispatches of a core that made at most one.
LEMMA StartsCases ==
  ASSUME NEW t, NEW c
  PROVE  /\ c.dispatched = <<>> => SliceStarts(t, c) = <<>>
         /\ \A th : c.dispatched = <<th>> => SliceStarts(t, c) = <<SliceStart(t, th)>>
<1>1. c.dispatched = <<>> => SliceStarts(t, c) = <<>>
  BY DEF SliceStarts
<1>2. ASSUME NEW th, c.dispatched = <<th>>
      PROVE  SliceStarts(t, c) = <<SliceStart(t, th)>>
  <2> DEFINE a == SliceStart(t, th)
             s == SliceStarts(t, c)
  <2>1. s = [i \in 1 .. 1 |-> SliceStart(t, <<th>>[i])]
    BY <1>2 DEF SliceStarts
  <2>2. \A i \in 1 .. 1 : SliceStart(t, <<th>>[i]) = a
    OBVIOUS
  <2> HIDE DEF a, s
  <2>3. s = [i \in 1 .. 1 |-> a]
    BY <2>1, <2>2, Zenon DEF a
  <2>4. s \in Seq({a}) /\ Len(s) = 1 /\ s[1] = a
    BY <2>3
  <2>5. <<a>> \in Seq({a}) /\ Len(<<a>>) = 1 /\ <<a>>[1] = a
    OBVIOUS
  <2>6. s = <<a>>
    BY <2>4, <2>5, SeqEqual
  <2> QED
    BY <2>6 DEF a, s
<1> QED
  BY <1>1, <1>2

\* The core written back agrees with the slices it ends up with.
LEMMA SetCoreExclusive ==
  ASSUME TypeOK, NEW k \in Cores, NEW c \in CoreRec(k), SetCore(k, c)
  PROVE  /\ \A j \in Cores \ {k} : core'[j] = core[j]
         /\ core'[k].idle = c.idle /\ core'[k].current_thread = c.current_thread
  BY DEF SetCore, TypeOK, CoreRec

\* The slices among the events of a handler that makes at most one.
LEMMA NewSlicesCases ==
  ASSUME NEW j
  PROVE  /\ NewSlices(<<>>, j) = {}
         /\ \A a : a.type \notin SliceTypes => NewSlices(<<a>>, j) = {}
         /\ \A a : a.type \in SliceTypes =>
              NewSlices(<<a>>, j) = IF CoreOf(a.thread) = j THEN {1} ELSE {}
         /\ \A a, b : a.type \in SliceTypes /\ b.type \notin SliceTypes =>
              /\ NewSlices(<<a, b>>, j) = IF CoreOf(a.thread) = j THEN {1} ELSE {}
              /\ NewSlices(<<b, a>>, j) = IF CoreOf(a.thread) = j THEN {2} ELSE {}
  BY DEF NewSlices

\* A handler that leaves the cores alone and creates no slice.
LEMMA QuietStep ==
  ASSUME OneSlicePerCore, running, NEW e, e.type \notin SliceTypes,
         NEW ids, NEW es \in Seq(EventOf(ids)), Emit(e, es),
         \A j \in Cores : NewSlices(es, j) = {}, core' = core
  PROVE  OneSlicePerCore'
<1>1. \A j \in Cores : SlicesOf(j)' = SlicesOf(j)
  BY SlicesKept DEF SlicesOf
<1> QED
  BY <1>1 DEF OneSlicePerCore

\* A handler of core k that leaves it in agreement with its slices.
LEMMA CoreStep ==
  ASSUME TypeOK, OneSlicePerCore, running, NEW e, NEW k \in Cores,
         e.type \in SliceTypes => CoreOf(e.thread) = k,
         NEW ids, NEW es \in Seq(EventOf(ids)), Emit(e, es),
         \A j \in Cores \ {k} : NewSlices(es, j) = {},
         NEW c \in CoreRec(k), SetCore(k, c), RunsOne(c, SlicesOf(k)')
  PROVE  OneSlicePerCore'
<1>1. ASSUME NEW j \in Cores \ {k} PROVE RunsOne(core'[j], SlicesOf(j)')
  <2>1. SlicesOf(j)' = SlicesOf(j)
    BY SlicesKept DEF SlicesOf
  <2>2. core'[j] = core[j]
    BY SetCoreExclusive
  <2> QED
    BY <2>1, <2>2 DEF OneSlicePerCore
<1>2. RunsOne(core'[k], SlicesOf(k)')
  BY SetCoreExclusive DEF RunsOne
<1> QED
  BY <1>1, <1>2 DEF OneSlicePerCore

\* Core k had no slice but e, and the new slices are those of its new state.
LEMMA SlicesReplaced ==
  ASSUME NEW k, NEW e, NEW ids, NEW es \in Seq(EventOf(ids)), Emit(e, es),
         SlicesOf(k) \subseteq {e}, NEW c,
         \/ c.idle /\ c.current_thread = NoThread /\ NewSlices(es, k) = {}
         \/ /\ ~c.idle
            /\ \E i \in DOMAIN es : NewSlices(es, k) = {i} /\ es[i].thread = c.current_thread
  PROVE  RunsOne(c, SlicesOf(k)')
<1>1. CASE c.idle /\ c.current_thread = NoThread /\ NewSlices(es, k) = {}
  <2>1. SlicesOf(k)' = {}
    BY <1>1, SlicesGone
  <2> QED
    BY <1>1, <2>1 DEF RunsOne
<1>2. CASE /\ ~c.idle
           /\ \E i \in DOMAIN es : NewSlices(es, k) = {i} /\ es[i].thread = c.current_thread
  <2>1. PICK i \in DOMAIN es : NewSlices(es, k) = {i} /\ es[i].thread = c.current_thread
    BY <1>2
  <2>2. PICK x \in SlicesOf(k)' : SlicesOf(k)' = {x} /\ x.thread = es[i].thread
    BY <2>1, SlicesOne
  <2> QED
    BY <1>2, <2>1, <2>2 DEF RunsOne
<1> QED
  BY <1>1, <1>2

\* The handler of an event of core k is alone on it: the event was the only
\* slice of k, or k had none.
LEMMA AloneOnCore ==
  ASSUME OneSlicePerCore, running, NEW k \in Cores, NEW e \in evq,
         core[k].idle \/ (e.type \in SliceTypes /\ CoreOf(e.thread) = k)
  PROVE  /\ SlicesOf(k) \subseteq {e}
         /\ e.type \in SliceTypes /\ CoreOf(e.thread) = k =>
              ~core[k].idle /\ core[k].current_thread = e.thread
<1>1. RunsOne(core[k], SlicesOf(k))
  BY DEF OneSlicePerCore
<1>2. e.type \in SliceTypes /\ CoreOf(e.thread) = k => e \in SlicesOf(k)
  BY DEF SlicesOf
<1> HIDE DEF SlicesOf
<1> QED
  BY <1>1, <1>2 DEF RunsOne

\* The start of a thread of core k, as an event.
LEMMA StartEvent ==
  ASSUME NEW k, NEW th \in ThreadsOf(k), NEW t \in Nat, NEW ids, ids \subseteq Nat
  PROVE  LET start == SliceStart(t, th)
         IN  /\ start \in EventOf(ids) /\ start.type \in SliceTypes
             /\ start.thread = th /\ CoreOf(start.thread) = k
<1>1. th \in Threads /\ CoreOf(th) = k
  BY DEF ThreadsOf
<1>2. SliceStart(t, th) \in EventOf(ids)
  BY <1>1, EventConstructors
<1> QED
  BY <1>1, <1>2 DEF SliceStart, Ev, SliceTypes

\* Appending to the shortest sequences.
LEMMA ShortSequences ==
  /\ \A a : Append(<<>>, a) = <<a>> /\ <<a>> \o <<>> = <<a>>
  /\ \A a, b : Append(<<a>>, b) = <<a, b>> /\ <<a>> \o <<b>> = <<a, b>>
<1>1. ASSUME NEW a, NEW b
      PROVE  /\ Append(<<>>, a) = <<a>> /\ <<a>> \o <<>> = <<a>>
             /\ Append(<<a>>, b) = <<a, b>> /\ <<a>> \o <<b>> = <<a, b>>
  <2> DEFINE S == {a, b}
             ab == <<a, b>>
  <2>1. /\ <<>> \in Seq(S) /\ Len(<<>>) = 0 /\ <<a>> \in Seq(S) /\ Len(<<a>>) = 1 /\ <<a>>[1] = a
        /\ <<b>> \in Seq(S) /\ Len(<<b>>) = 1 /\ <<b>>[1] = b
        /\ ab \in Seq(S) /\ Len(ab) = 2 /\ ab[1] = a /\ ab[2] = b
    OBVIOUS
  <2>2. Append(<<>>, a) = <<a>>
    BY <2>1, AppendProperties, SeqEqual
  <2>3. <<a>> \o <<>> = <<a>>
    BY <2>1, ConcatEmptySeq
  <2>4. Append(<<a>>, b) = ab
    <3> DEFINE x == Append(<<a>>, b)
    <3>1. x \in Seq(S) /\ Len(x) = 2 /\ x[1] = a /\ x[2] = b
      BY <2>1, AppendProperties
    <3> HIDE DEF x, ab
    <3>2. x = ab
      BY <2>1, <3>1, SeqEqual
    <3> QED
      BY <3>2 DEF x
  <2>5. <<a>> \o <<b>> = ab
    <3> DEFINE x == <<a>> \o <<b>>
    <3>1. x \in Seq(S) /\ Len(x) = 2 /\ x[1] = a /\ x[2] = b
      BY <2>1, ConcatProperties
    <3> HIDE DEF x, ab
    <3>2. x = ab
      BY <2>1, <3>1, SeqEqual
    <3> QED
      BY <3>2 DEF x
  <2> QED
    BY <2>2, <2>3, <2>4, <2>5
<1> QED
  BY <1>1

\* A handler of an event of core k, which has no other slice, starts at most
\* one thread of k, and creates at most one other event x.
LEMMA Redispatch ==
  ASSUME TypeOK, OneSlicePerCore, running, NEW k \in Cores, NEW e \in evq,
         core[k].idle \/ e.type \in SliceTypes, e.type \in SliceTypes => CoreOf(e.thread) = k,
         NEW c \in CoreRec(k), SetCore(k, c), Stopped(c) \/ Started(c, k),
         NEW ids, ids \subseteq Nat, NEW t \in Nat,
         \/ Emit(e, SliceStarts(t, c))
         \/ \E x \in EventOf(ids) :
              /\ x.type \notin SliceTypes
              /\ Emit(e, <<x>> \o SliceStarts(t, c)) \/ Emit(e, Append(SliceStarts(t, c), x))
  PROVE  OneSlicePerCore'
<1>1. SlicesOf(k) \subseteq {e}
  BY AloneOnCore
<1>2. ASSUME NEW es \in Seq(EventOf(ids)), Emit(e, es),
             \A j \in Cores \ {k} : NewSlices(es, j) = {},
             \/ c.idle /\ c.current_thread = NoThread /\ NewSlices(es, k) = {}
             \/ /\ ~c.idle
                /\ \E i \in DOMAIN es : NewSlices(es, k) = {i} /\ es[i].thread = c.current_thread
      PROVE  OneSlicePerCore'
  <2>1. RunsOne(c, SlicesOf(k)')
    BY <1>1, <1>2, SlicesReplaced
  <2> QED
    BY <1>2, <2>1, CoreStep
<1>3. CASE Stopped(c)
  <2>1. SliceStarts(t, c) = <<>> /\ c.idle /\ c.current_thread = NoThread
    BY <1>3, StartsCases DEF Stopped
  <2>2. ASSUME NEW x \in EventOf(ids), x.type \notin SliceTypes, Emit(e, <<x>>)
        PROVE  OneSlicePerCore'
    <3>1. <<x>> \in Seq(EventOf(ids)) /\ \A j \in Cores : NewSlices(<<x>>, j) = {}
      BY <2>2, OneElement, NewSlicesCases
    <3> QED
      BY <1>2, <2>1, <2>2, <3>1
  <2>3. CASE Emit(e, <<>>)
    <3>1. <<>> \in Seq(EventOf(ids)) /\ \A j \in Cores : NewSlices(<<>>, j) = {}
      BY EmptySeq, NewSlicesCases
    <3> QED
      BY <1>2, <2>1, <2>3, <3>1
  <2> QED
    BY <2>1, <2>2, <2>3, ShortSequences
<1>4. CASE Started(c, k)
  <2>1. PICK th \in ThreadsOf(k) : c.current_thread = th /\ c.dispatched = <<th>> /\ ~c.idle
    BY <1>4 DEF Started
  <2> DEFINE start == SliceStart(t, th)
  <2>2. /\ start \in EventOf(ids) /\ start.type \in SliceTypes
        /\ start.thread = th /\ CoreOf(start.thread) = k
    BY StartEvent
  <2>3. SliceStarts(t, c) = <<start>>
    BY <2>1, StartsCases
  <2> HIDE DEF start
  <2>4. CASE Emit(e, <<start>>)
    <3> DEFINE es == <<start>>
    <3>1. es \in Seq(EventOf(ids)) /\ 1 \in DOMAIN es /\ es[1].thread = c.current_thread
      BY <2>1, <2>2
    <3>2. NewSlices(es, k) = {1} /\ \A j \in Cores \ {k} : NewSlices(es, j) = {}
      BY <2>2, NewSlicesCases
    <3> QED
      BY <1>2, <2>1, <2>4, <3>1, <3>2
  <2>5. ASSUME NEW x \in EventOf(ids), x.type \notin SliceTypes, Emit(e, <<x, start>>)
        PROVE  OneSlicePerCore'
    <3> DEFINE es == <<x, start>>
    <3>1. es \in Seq(EventOf(ids)) /\ 2 \in DOMAIN es /\ es[2].thread = c.current_thread
      BY <2>1, <2>2
    <3>2. NewSlices(es, k) = {2} /\ \A j \in Cores \ {k} : NewSlices(es, j) = {}
      BY <2>2, <2>5, NewSlicesCases
    <3> QED
      BY <1>2, <2>1, <2>5, <3>1, <3>2
  <2>6. ASSUME NEW x \in EventOf(ids), x.type \notin SliceTypes, Emit(e, <<start, x>>)
        PROVE  OneSlicePerCore'
    <3> DEFINE es == <<start, x>>
    <3>1. es \in Seq(EventOf(ids)) /\ 1 \in DOMAIN es /\ es[1].thread = c.current_thread
      BY <2>1, <2>2
    <3>2. NewSlices(es, k) = {1} /\ \A j \in Cores \ {k} : NewSlices(es, j) = {}
      BY <2>2, <2>6, NewSlicesCases
    <3> QED
      BY <1>2, <2>1, <2>6, <3>1, <3>2
  <2>7. \A x : <<x>> \o <<start>> = <<x, start>> /\ Append(<<start>>, x) = <<start, x>>
    BY ShortSequences
  <2>8. CASE Emit(e, SliceStarts(t, c))
    BY <2>3, <2>4, <2>8
  <2>9. CASE \E x \in EventOf(ids) :
               /\ x.type \notin SliceTypes
               /\ Emit(e, <<x>> \o SliceStarts(t, c)) \/ Emit(e, Append(SliceStarts(t, c), x))
    <3>1. PICK x \in EventOf(ids) :
            /\ x.type \notin SliceTypes
            /\ Emit(e, <<x, start>>) \/ Emit(e, <<start, x>>)
      BY <2>3, <2>7, <2>9
    <3> QED
      BY <2>5, <2>6, <3>1
  <2> QED
    BY <2>8, <2>9
<1> QED
  BY <1>3, <1>4

\* A request that finds a free thread.
LEMMA ArrivalRunsExclusive ==
  ASSUME TypeOK, OneSlicePerCore, ArrivalRuns PROVE OneSlicePerCore'
<1>1. PICK th \in Threads : th = Head(free_threads)
  BY HeadTailProperties DEF TypeOK, ArrivalRuns
<1> DEFINE k  == CoreOf(th)
           r  == Len(all_requests) + 1
           check == CheckTimeout(all_requests'[r].timeout_deadline, r)
<1>2. PICK e \in evq :
        /\ Arrives(e)
        /\ \E c \in add_runnable(core[k], th, Remaining') :
             SetCore(k, c) /\ Emit(e, Append(SliceStarts(e.time, c), check))
  BY <1>1 DEF ArrivalRuns
<1>3. PICK c \in add_runnable(core[k], th, Remaining') :
        SetCore(k, c) /\ Emit(e, Append(SliceStarts(e.time, c), check))
  BY <1>2
<1>4. k \in Cores /\ th \in ThreadsOf(k)
  BY CoreOfType DEF ThreadsOf
<1>5. Pop(e, "USER_ARRIVAL")
  BY <1>2 DEF Arrives
<1>6. running /\ e.type \notin SliceTypes /\ e \notin SlicesOf(k) /\ e.time \in Nat
  <2>1. running
    BY <1>5 DEF Pop
  <2>2. e.type = "USER_ARRIVAL" /\ e.time \in Nat
    BY <1>5, PopType
  <2> QED
    BY <2>1, <2>2 DEF SliceTypes, SlicesOf
<1> HIDE DEF k
<1>7. /\ c \in CoreRec(k)
      /\ \/ core[k].idle /\ Started(c, k)
         \/ /\ ~core[k].idle /\ ~c.idle
            /\ c.current_thread = core[k].current_thread /\ c.dispatched = <<>>
  <2>1. core[k] \in CoreRec(k) /\ core[k].dispatched = <<>>
    BY <1>4, CoreIsRec
  <2> DEFINE rem == Remaining'
  <2>2. c \in add_runnable(core[k], th, rem)
    BY <1>3
  <2> HIDE DEF rem, check
  <2> QED
    BY <1>4, <2>1, <2>2, AddOutcome
<1>8. check \in EventOf(ReqIds') /\ check.type \notin SliceTypes
  <2>1. r \in ReqIds' /\ all_requests'[r].timeout_deadline \in Nat /\ ReqIds' \subseteq Nat
    BY <1>2, ArrivesType DEF ReqIds
  <2>2. check \in EventOf(ReqIds')
    BY <2>1, EventConstructors
  <2> QED
    BY <2>2 DEF CheckTimeout, Ev, SliceTypes
<1> HIDE DEF check
<1>9. CASE core[k].idle
  <2>1. ReqIds' \subseteq Nat
    BY DEF ReqIds
  <2> QED
    BY <1>3, <1>4, <1>6, <1>7, <1>8, <1>9, <2>1, Redispatch
<1>10. CASE ~core[k].idle
  <2> DEFINE es == <<check>>
  <2>1. SliceStarts(e.time, c) = <<>>
    BY <1>7, <1>10, StartsCases
  <2>2. Append(SliceStarts(e.time, c), check) = es
    BY <2>1, ShortSequences
  <2>3. es \in Seq(EventOf(ReqIds'))
    BY <1>8, OneElement
  <2>4. \A j \in Cores : NewSlices(es, j) = {}
    BY <1>8, NewSlicesCases
  <2> HIDE DEF es
  <2>5. Emit(e, es)
    BY <1>3, <2>2
  <2>6. SlicesOf(k)' = SlicesOf(k)
    BY <1>4, <1>6, <2>3, <2>4, <2>5, SlicesKept
  <2>7. RunsOne(core[k], SlicesOf(k))
    BY <1>4, <1>6 DEF OneSlicePerCore
  <2>8. RunsOne(c, SlicesOf(k)')
    BY <1>7, <1>10, <2>6, <2>7 DEF RunsOne
  <2> QED
    BY <1>3, <1>4, <1>6, <1>7, <2>3, <2>4, <2>5, <2>8, CoreStep
<1> QED
  BY <1>9, <1>10

\* A handler that leaves the cores alone and creates at most one event, which
\* is no slice.
LEMMA QuietHandler ==
  ASSUME TypeOK, OneSlicePerCore, NEW e \in evq, NEW ty \in EventTypes \ SliceTypes, Pop(e, ty),
         core' = core, NEW ids,
         Emit(e, <<>>) \/ \E x \in EventOf(ids) : x.type \notin SliceTypes /\ Emit(e, <<x>>)
  PROVE  OneSlicePerCore'
<1>1. running /\ e.type \notin SliceTypes
  BY DEF Pop
<1>2. CASE Emit(e, <<>>)
  BY <1>1, <1>2, EmptySeq, NewSlicesCases, QuietStep
<1>3. ASSUME NEW x \in EventOf(ids), x.type \notin SliceTypes, Emit(e, <<x>>)
      PROVE  OneSlicePerCore'
  <2>1. <<x>> \in Seq(EventOf(ids)) /\ \A j \in Cores : NewSlices(<<x>>, j) = {}
    BY <1>3, OneElement, NewSlicesCases
  <2> QED
    BY <1>1, <1>3, <2>1, QuietStep
<1> QED
  BY <1>2, <1>3

\* A request that finds no thread.
LEMMA ArrivalQueuedExclusive ==
  ASSUME TypeOK, OneSlicePerCore, ArrivalWaits \/ ArrivalDropped PROVE OneSlicePerCore'
<1> USE DEF EventTypes, SliceTypes
<1>1. ReqIds' \subseteq Nat
  BY DEF ReqIds
<1>2. CASE ArrivalWaits
  <2> DEFINE r == Len(all_requests) + 1
             check == CheckTimeout(all_requests'[r].timeout_deadline, r)
  <2>1. PICK e \in evq : Arrives(e) /\ Emit(e, <<check>>)
    BY <1>2 DEF ArrivalWaits
  <2>2. check \in EventOf(ReqIds')
    BY <1>1, <2>1, ArrivesType, EventConstructors
  <2>3. check.type \notin SliceTypes
    BY DEF CheckTimeout, Ev
  <2>4. Pop(e, "USER_ARRIVAL") /\ core' = core
    BY <1>2, <2>1 DEF Arrives, ArrivalWaits
  <2> HIDE DEF check
  <2> QED
    BY <2>1, <2>2, <2>3, <2>4, QuietHandler
<1>3. CASE ArrivalDropped
  <2>1. PICK e \in evq, think \in ThinkTimes :
          Arrives(e) /\ Emit(e, <<UserArrival(e.time + think, e.user)>>)
    BY <1>3 DEF ArrivalDropped
  <2> DEFINE again == UserArrival(e.time + think, e.user)
  <2>2. e.time + think \in Nat /\ e.user \in Users
    BY <2>1, ArrivesType, TimesAssumption
  <2>3. again \in EventOf(ReqIds')
    BY <1>1, <2>2, EventConstructors
  <2>4. again.type \notin SliceTypes
    BY DEF UserArrival, Ev
  <2>5. Pop(e, "USER_ARRIVAL") /\ core' = core
    BY <1>3, <2>1 DEF Arrives, ArrivalDropped
  <2> HIDE DEF again
  <2>6. Emit(e, <<again>>)
    BY <2>1 DEF again
  <2> QED
    BY <2>3, <2>4, <2>5, <2>6, QuietHandler
<1> QED
  BY <1>2, <1>3

\* An answer or a deadline.
LEMMA VerdictExclusive ==
  ASSUME TypeOK, OneSlicePerCore, handle_request_complete \/ handle_request_timeout
  PROVE  OneSlicePerCore'
<1> USE DEF EventTypes, SliceTypes, RequestTypes
<1>1. PICK e \in evq, ty \in RequestTypes :
        /\ Pop(e, ty) /\ core' = core
        /\ \/ Emit(e, <<>>)
           \/ \E think \in ThinkTimes :
                Emit(e, <<UserArrival(e.time + think, all_requests[e.req].user_id)>>)
  <2>1. CASE CompleteInTime
    <3>1. PICK e \in evq, think \in ThinkTimes :
            /\ Pop(e, "REQUEST_COMPLETE") /\ core' = core
            /\ Emit(e, IF CLOSED_LOOP
                       THEN <<UserArrival(e.time + think, all_requests[e.req].user_id)>>
                       ELSE <<>>)
      BY <2>1 DEF CompleteInTime
    <3> QED
      BY <3>1
  <2>2. CASE CompleteLate
    BY <2>2 DEF CompleteLate
  <2>3. CASE TimeoutIgnored
    BY <2>3 DEF TimeoutIgnored
  <2>4. CASE UserGivesUp
    BY <2>4 DEF UserGivesUp
  <2> QED
    BY <2>1, <2>2, <2>3, <2>4 DEF handle_request_complete, handle_request_timeout
<1>2. CASE Emit(e, <<>>)
  BY <1>1, <1>2, QuietHandler
<1>3. ASSUME NEW think \in ThinkTimes,
             Emit(e, <<UserArrival(e.time + think, all_requests[e.req].user_id)>>)
      PROVE  OneSlicePerCore'
  <2> DEFINE again == UserArrival(e.time + think, all_requests[e.req].user_id)
  <2>1. e.time + think \in Nat /\ all_requests[e.req].user_id \in Users /\ ReqIds \subseteq Nat
    BY <1>1, RequestEventType, TimesAssumption DEF ReqIds
  <2>2. again \in EventOf(ReqIds)
    BY <2>1, EventConstructors
  <2>3. again.type \notin SliceTypes
    BY DEF UserArrival, Ev
  <2>4. Emit(e, <<again>>)
    BY <1>3
  <2> HIDE DEF again
  <2> QED
    BY <1>1, <2>2, <2>3, <2>4, QuietHandler
<1> QED
  BY <1>1, <1>2, <1>3
\* A slice event of core k, the only one it has.
LEMMA SliceEventCore ==
  ASSUME TypeOK, OneSlicePerCore, NEW e \in evq, NEW ty \in SliceTypes, Pop(e, ty)
  PROVE  LET k == CoreOf(e.thread)
         IN  /\ running /\ e.type \in SliceTypes /\ e.time \in Nat
             /\ e.thread \in ThreadsOf(k) /\ k \in Cores
             /\ SlicesOf(k) \subseteq {e}
             /\ ~core[k].idle /\ core[k].current_thread = e.thread
<1>1. running /\ e.type \in SliceTypes
  BY DEF Pop
<1>2. e.time \in Nat
  BY PopType
<1>3. e.thread \in ThreadsOf(CoreOf(e.thread)) /\ CoreOf(e.thread) \in Cores
  BY SliceEventType DEF ThreadTypes
<1> QED
  BY <1>1, <1>2, <1>3, AloneOnCore

\* A slice starts.
LEMMA SliceStartExclusive ==
  ASSUME TypeOK, OneSlicePerCore, handle_thread_slice_start PROVE OneSlicePerCore'
<1>1. PICK e \in evq :
        /\ Pop(e, "THREAD_SLICE_START")
        /\ \E c \in IF thread_req[e.thread] = NoReq
                   THEN schedule_next_slice(core[CoreOf(e.thread)], Remaining)
                   ELSE {core[CoreOf(e.thread)]} :
             /\ SetCore(CoreOf(e.thread), c)
             /\ LET sl == Shorter(QUANTUM, all_requests[thread_req[e.thread]].service_remaining)
                IN  Emit(e, IF thread_req[e.thread] = NoReq THEN SliceStarts(e.time, c)
                            ELSE <<SliceEnd(e.time + sl, e.thread, sl)>>)
  BY DEF handle_thread_slice_start
<1> DEFINE th == e.thread
           k  == CoreOf(th)
           r  == thread_req[th]
           sl == Shorter(QUANTUM, all_requests[r].service_remaining)
<1>2. PICK c \in IF r = NoReq THEN schedule_next_slice(core[k], Remaining) ELSE {core[k]} :
        /\ SetCore(k, c)
        /\ Emit(e, IF r = NoReq THEN SliceStarts(e.time, c)
                   ELSE <<SliceEnd(e.time + sl, th, sl)>>)
  BY <1>1
<1>3. /\ running /\ e.type \in SliceTypes /\ e.time \in Nat
      /\ th \in ThreadsOf(k) /\ k \in Cores /\ SlicesOf(k) \subseteq {e}
      /\ ~core[k].idle /\ core[k].current_thread = th
  BY <1>1, SliceEventCore DEF SliceTypes
<1>4. core[k] \in CoreRec(k) /\ core[k].dispatched = <<>>
  BY <1>3, CoreIsRec
<1>5. CASE r = NoReq
  <2>1. c \in schedule_next_slice(core[k], Remaining) /\ SetCore(k, c)
        /\ Emit(e, SliceStarts(e.time, c))
    BY <1>2, <1>5
  <2>2. c \in CoreRec(k) /\ (Stopped(c) \/ Started(c, k))
    BY <1>4, <2>1, ScheduleOutcome
  <2>3. ReqIds \subseteq Nat
    BY DEF ReqIds
  <2> QED
    BY <1>3, <2>1, <2>2, <2>3, Redispatch
<1>6. CASE r # NoReq
  <2> DEFINE end == SliceEnd(e.time + sl, th, sl)
             es  == <<end>>
  <2>1. c = core[k] /\ SetCore(k, c) /\ Emit(e, es)
    BY <1>2, <1>6
  <2>2. end \in EventOf(ReqIds)
    <3>1. all_requests[r] \in Request
      BY <1>1, <1>6, SliceEventType DEF SliceTypes, ThreadTypes
    <3>2. sl \in Nat
      BY <3>1, TimesAssumption DEF Shorter, Request
    <3>3. e.time + sl \in Nat /\ ReqIds \subseteq Nat /\ th \in Threads
      BY <1>3, <3>2 DEF ReqIds, ThreadsOf
    <3> QED
      BY <3>2, <3>3, EventConstructors
  <2>3. end.type \in SliceTypes /\ end.thread = th /\ CoreOf(end.thread) = k
    BY DEF SliceEnd, Ev, SliceTypes
  <2> HIDE DEF end
  <2>4. es \in Seq(EventOf(ReqIds)) /\ 1 \in DOMAIN es /\ es[1].thread = th
    BY <2>2, <2>3
  <2>5. NewSlices(es, k) = {1} /\ \A j \in Cores \ {k} : NewSlices(es, j) = {}
    BY <2>3, NewSlicesCases
  <2> HIDE DEF es, k, th
  <2>6. RunsOne(c, SlicesOf(k)')
    BY <1>3, <2>1, <2>4, <2>5, SlicesReplaced
  <2> QED
    BY <1>3, <1>4, <2>1, <2>4, <2>5, <2>6, CoreStep DEF k, th
<1> QED
  BY <1>5, <1>6

\* A thread comes back from a context switch.
LEMMA ThreadAvailableExclusive ==
  ASSUME TypeOK, OneSlicePerCore, handle_thread_available PROVE OneSlicePerCore'
<1>1. PICK e \in evq :
        /\ Pop(e, "THREAD_AVAILABLE")
        /\ \E c1 \in add_runnable(core[CoreOf(e.thread)], e.thread, Remaining) :
           \E c2 \in IF c1.idle THEN schedule_next_slice(c1, Remaining) ELSE {c1} :
             /\ SetCore(CoreOf(e.thread), c2)
             /\ Emit(e, SliceStarts(e.time, c2))
  BY DEF handle_thread_available
<1> DEFINE th == e.thread
           k  == CoreOf(th)
<1>2. th \in ThreadsOf(k) /\ k \in Cores /\ e.time \in Nat
  BY <1>1, PopType, SliceEventType DEF ThreadTypes
<1>3. running /\ e.type \notin SliceTypes /\ e \notin SlicesOf(k)
  BY <1>1 DEF Pop, SliceTypes, SlicesOf
<1>4. core[k] \in CoreRec(k) /\ core[k].dispatched = <<>>
  BY <1>2, CoreIsRec
<1>5. PICK c \in add_runnable(core[k], th, Remaining) :
        \E c2 \in IF c.idle THEN schedule_next_slice(c, Remaining) ELSE {c} :
          SetCore(k, c2) /\ Emit(e, SliceStarts(e.time, c2))
  BY <1>1
<1> HIDE DEF k, th
<1>6. /\ c \in CoreRec(k)
      /\ \/ core[k].idle /\ Started(c, k)
         \/ /\ ~core[k].idle /\ ~c.idle
            /\ c.current_thread = core[k].current_thread /\ c.dispatched = <<>>
  <2>1. th \in ThreadsOf(k)
    BY <1>2
  <2>2. c \in CoreRec(k)
    BY <1>4, <2>1, AddOutcome
  <2>3. \/ core[k].idle /\ Started(c, k)
        \/ /\ ~core[k].idle /\ ~c.idle
           /\ c.current_thread = core[k].current_thread /\ c.dispatched = <<>>
    BY <1>4, <2>1, AddOutcome
  <2> QED
    BY <2>2, <2>3
<1>7. SetCore(k, c) /\ Emit(e, SliceStarts(e.time, c))
  BY <1>5, <1>6 DEF Started
<1>8. CASE core[k].idle
  <2>1. ReqIds \subseteq Nat
    BY DEF ReqIds
  <2> QED
    BY <1>2, <1>3, <1>6, <1>7, <1>8, <2>1, Redispatch
<1>9. CASE ~core[k].idle
  <2> DEFINE es == <<>>
  <2>1. Emit(e, es) /\ es \in Seq(EventOf(ReqIds)) /\ \A j \in Cores : NewSlices(es, j) = {}
    BY <1>6, <1>7, <1>9, StartsCases, EmptySeq, NewSlicesCases
  <2>2. SlicesOf(k)' = SlicesOf(k)
    BY <1>2, <1>3, <2>1, SlicesKept
  <2>3. RunsOne(core[k], SlicesOf(k))
    BY <1>2, <1>3 DEF OneSlicePerCore
  <2>4. RunsOne(c, SlicesOf(k)')
    BY <1>6, <1>9, <2>2, <2>3 DEF RunsOne
  <2> QED
    BY <1>2, <1>3, <1>6, <1>7, <2>1, <2>4, CoreStep
<1> QED
  BY <1>8, <1>9

\* The last slice of a request ends.
LEMMA SliceEndCompletesExclusive ==
  ASSUME TypeOK, OneSlicePerCore, SliceEndCompletes PROVE OneSlicePerCore'
<1>1. PICK e \in evq :
        /\ Pop(e, "THREAD_SLICE_END")
        /\ thread_req[e.thread] # NoReq
        /\ \E c1 \in IF waiting_requests = <<>> THEN {Accounted(e)}
                    ELSE add_runnable(Accounted(e), e.thread, Remaining') :
           \E c2 \in schedule_next_slice(c1, Remaining') :
             /\ SetCore(CoreOf(e.thread), c2)
             /\ Emit(e, <<RequestComplete(e.time, thread_req[e.thread])>>
                          \o SliceStarts(e.time, c2))
  BY DEF SliceEndCompletes
<1> DEFINE th == e.thread
           k  == CoreOf(th)
           answer == RequestComplete(e.time, thread_req[th])
           c0 == Accounted(e)
<1>2. PICK c1 \in IF waiting_requests = <<>> THEN {c0} ELSE add_runnable(c0, th, Remaining') :
      \E c2 \in schedule_next_slice(c1, Remaining') :
        SetCore(k, c2) /\ Emit(e, <<answer>> \o SliceStarts(e.time, c2))
  BY <1>1
<1>3. PICK c2 \in schedule_next_slice(c1, Remaining') :
        SetCore(k, c2) /\ Emit(e, <<answer>> \o SliceStarts(e.time, c2))
  BY <1>2
<1>4. /\ running /\ e.type \in SliceTypes /\ e.time \in Nat
      /\ th \in ThreadsOf(k) /\ k \in Cores /\ ~core[k].idle
  BY <1>1, SliceEventCore DEF SliceTypes
<1>5. answer \in EventOf(ReqIds) /\ answer.type \notin SliceTypes
  <2>1. thread_req[th] \in ReqIds /\ ReqIds \subseteq Nat
    BY <1>1, SliceEventType DEF SliceTypes, ThreadTypes, ReqIds
  <2>2. answer \in EventOf(ReqIds)
    BY <1>4, <2>1, EventConstructors
  <2> QED
    BY <2>2 DEF RequestComplete, Ev, SliceTypes
<1>6. c0 \in CoreRec(k) /\ c0.dispatched = <<>> /\ ~c0.idle
  <2>1. c0 \in CoreRec(k) /\ c0.dispatched = <<>> /\ c0.idle = core[k].idle
    BY <1>1, AccountedType DEF ThreadTypes, SliceTypes
  <2> QED
    BY <1>4, <2>1
<1> HIDE DEF k, th, answer, c0
<1>7. c1 \in CoreRec(k) /\ c1.dispatched = <<>>
  <2>1. CASE waiting_requests = <<>>
    BY <1>2, <1>6, <2>1
  <2>2. CASE waiting_requests # <<>>
    <3>1. c1 \in add_runnable(c0, th, Remaining')
      BY <1>2, <2>2
    <3>2. th \in ThreadsOf(k)
      BY <1>4
    <3>3. c0 \in CoreRec(k) /\ c0.dispatched = <<>>
      BY <1>6
    <3>4. c1 \in CoreRec(k)
      BY <3>1, <3>2, <3>3, AddOutcome
    <3>5. c0.idle \/ c1.dispatched = <<>>
      BY <3>1, <3>2, <3>3, AddOutcome
    <3> QED
      BY <1>6, <3>4, <3>5
  <2> QED
    BY <2>1, <2>2
<1>8. c2 \in CoreRec(k) /\ (Stopped(c2) \/ Started(c2, k))
  BY <1>7, ScheduleOutcome
<1>9. ReqIds \subseteq Nat /\ CoreOf(e.thread) = k
  BY DEF ReqIds, k, th
<1> QED
  BY <1>3, <1>4, <1>5, <1>8, <1>9, Redispatch

\* A slice ends and its request needs another one.
LEMMA SliceEndPreemptsExclusive ==
  ASSUME TypeOK, OneSlicePerCore, SliceEndPreempts PROVE OneSlicePerCore'
<1>1. PICK e \in evq :
        /\ Pop(e, "THREAD_SLICE_END")
        /\ \E c \in IF thread_req[e.thread] = NoReq
                   THEN schedule_next_slice(Accounted(e), Remaining)
                   ELSE {[Accounted(e) EXCEPT !.idle = TRUE, !.current_thread = NoThread]} :
             /\ SetCore(CoreOf(e.thread), c)
             /\ Emit(e, IF thread_req[e.thread] = NoReq THEN SliceStarts(e.time, c)
                        ELSE <<ThreadAvailable(e.time + CONTEXT_SWITCH_OVERHEAD, e.thread)>>)
  BY DEF SliceEndPreempts
<1> DEFINE th == e.thread
           k  == CoreOf(th)
           r  == thread_req[th]
           c0 == Accounted(e)
           switched == ThreadAvailable(e.time + CONTEXT_SWITCH_OVERHEAD, th)
<1>2. PICK c \in IF r = NoReq THEN schedule_next_slice(c0, Remaining)
                 ELSE {[c0 EXCEPT !.idle = TRUE, !.current_thread = NoThread]} :
        /\ SetCore(k, c)
        /\ Emit(e, IF r = NoReq THEN SliceStarts(e.time, c) ELSE <<switched>>)
  BY <1>1
<1>3. /\ running /\ e.type \in SliceTypes /\ e.time \in Nat
      /\ th \in ThreadsOf(k) /\ k \in Cores /\ SlicesOf(k) \subseteq {e}
  BY <1>1, SliceEventCore DEF SliceTypes
<1>4. c0 \in CoreRec(k) /\ c0.dispatched = <<>>
  BY <1>1, AccountedType DEF ThreadTypes, SliceTypes
<1>5. switched \in EventOf(ReqIds) /\ switched.type \notin SliceTypes
  <2>1. e.time + CONTEXT_SWITCH_OVERHEAD \in Nat /\ ReqIds \subseteq Nat /\ th \in Threads
    BY <1>3, TimesAssumption DEF ReqIds, ThreadsOf
  <2>2. switched \in EventOf(ReqIds)
    BY <2>1, EventConstructors
  <2> QED
    BY <2>2 DEF ThreadAvailable, Ev, SliceTypes
<1>6. ReqIds \subseteq Nat /\ CoreOf(e.thread) = k
  BY DEF ReqIds
<1> HIDE DEF k, th, c0, switched
<1>7. CASE r = NoReq
  <2>1. /\ c \in schedule_next_slice(c0, Remaining) /\ SetCore(k, c)
        /\ Emit(e, SliceStarts(e.time, c))
    BY <1>2, <1>7
  <2>2. c \in CoreRec(k) /\ (Stopped(c) \/ Started(c, k))
    BY <1>4, <2>1, ScheduleOutcome
  <2> QED
    BY <1>3, <1>6, <2>1, <2>2, Redispatch
<1>8. CASE r # NoReq
  <2> DEFINE es == <<switched>>
  <2>1. /\ c = [c0 EXCEPT !.idle = TRUE, !.current_thread = NoThread]
        /\ SetCore(k, c) /\ Emit(e, es)
    BY <1>2, <1>8
  <2>2. c \in CoreRec(k) /\ c.idle /\ c.current_thread = NoThread
    BY <1>4, <2>1 DEF CoreRec
  <2>3. es \in Seq(EventOf(ReqIds)) /\ \A j \in Cores : NewSlices(es, j) = {}
    BY <1>5, OneElement, NewSlicesCases
  <2> HIDE DEF es
  <2>4. RunsOne(c, SlicesOf(k)')
    BY <1>3, <2>1, <2>2, <2>3, SlicesReplaced
  <2> QED
    BY <1>3, <1>6, <2>1, <2>2, <2>3, <2>4, CoreStep
<1> QED
  BY <1>7, <1>8

\* Every handler keeps the slices of a core apart.
LEMMA ExclusiveNext ==
  ASSUME TypeOK, OneSlicePerCore, [Next]_vars PROVE OneSlicePerCore'
<1>1. CASE handle_user_arrival
  BY <1>1, ArrivalRunsExclusive, ArrivalQueuedExclusive DEF handle_user_arrival
<1>2. CASE handle_thread_slice_start
  BY <1>2, SliceStartExclusive
<1>3. CASE SliceEndCompletes
  BY <1>3, SliceEndCompletesExclusive
<1>4. CASE SliceEndPreempts
  BY <1>4, SliceEndPreemptsExclusive
<1>5. CASE handle_thread_available
  BY <1>5, ThreadAvailableExclusive
<1>6. CASE handle_request_complete \/ handle_request_timeout
  BY <1>6, VerdictExclusive
<1>7. CASE LoopEnds
  BY <1>7 DEF LoopEnds, OneSlicePerCore
<1>8. CASE UNCHANGED vars
  BY <1>8 DEF vars, OneSlicePerCore, RunsOne, SlicesOf
<1> QED
  BY <1>1, <1>2, <1>3, <1>4, <1>5, <1>6, <1>7, <1>8 DEF Next, Returned

\* Whatever the policy, the number of cores and threads and the times, a core
\* runs at most one thread at a time, its idle flag tells whether it does, and
\* current_thread tells which: add_runnable, handle_slice_start and
\* handle_slice_end of core.cpp never start a second slice on a busy core.
THEOREM CoreExclusive == Spec => []OneSlicePerCore
<1>1. Init => OneSlicePerCore
  <2> SUFFICES ASSUME Init PROVE OneSlicePerCore
    OBVIOUS
  <2>1. ASSUME NEW k \in Cores PROVE SlicesOf(k) = {} /\ core[k] = NewCore
    BY DEF Init, SlicesOf, SliceTypes, UserArrival, Ev
  <2> QED
    BY <2>1 DEF OneSlicePerCore, RunsOne, NewCore
<1>2. TypeOK /\ OneSlicePerCore /\ [Next]_vars => OneSlicePerCore'
  BY ExclusiveNext
<1> QED
  BY <1>1, <1>2, TypeCorrect, PTL DEF Spec

-----------------------------------------------------------------------------
(* What a step does to the pool and to the queue of requests. *)

NextId == Len(all_requests) + 1

Admits ==
  /\ free_threads # <<>>
  /\ Len(all_requests)' = NextId
  /\ thread_req' = [thread_req EXCEPT ![Head(free_threads)] = NextId]
  /\ free_threads' = Tail(free_threads)
  /\ UNCHANGED <<waiting_requests, dropped_requests>>

Queues ==
  /\ free_threads = <<>>
  /\ Len(waiting_requests) < THREAD_QUEUE_LIMIT
  /\ Len(all_requests)' = NextId
  /\ waiting_requests' = Append(waiting_requests, NextId)
  /\ UNCHANGED <<free_threads, thread_req, dropped_requests>>

Drops ==
  /\ free_threads = <<>>
  /\ Len(waiting_requests) >= THREAD_QUEUE_LIMIT
  /\ Len(all_requests)' = NextId
  /\ dropped_requests' = dropped_requests + 1
  /\ UNCHANGED <<free_threads, thread_req, waiting_requests>>

Releases(th) ==
  /\ thread_req[th] # NoReq
  /\ release_thread_to_pool(th)
  /\ UNCHANGED <<Len(all_requests), dropped_requests>>

LeavesPool == UNCHANGED <<Len(all_requests), free_threads, thread_req,
                          waiting_requests, dropped_requests>>

\* A handler does one of these things to the pool.
LEMMA PoolStep ==
  ASSUME TypeOK, [Next]_vars
  PROVE  Admits \/ Queues \/ Drops \/ (\E th \in Threads : Releases(th)) \/ LeavesPool
<1>1. ASSUME NEW e \in evq, Arrives(e) PROVE Len(all_requests)' = NextId
  BY <1>1, ArrivesType, AppendProperties DEF Arrives, TypeOK, NextId
<1>2. CASE ArrivalRuns
  BY <1>1, <1>2 DEF ArrivalRuns, Admits, NextId
<1>3. CASE ArrivalWaits
  BY <1>1, <1>3 DEF ArrivalWaits, Queues, NextId
<1>4. CASE ArrivalDropped
  BY <1>1, <1>4 DEF ArrivalDropped, Drops
<1>5. CASE SliceEndCompletes
  <2>1. PICK e \in evq :
          /\ Pop(e, "THREAD_SLICE_END") /\ thread_req[e.thread] # NoReq
          /\ all_requests' = [all_requests EXCEPT ![thread_req[e.thread]] = mark_completed(@, e.time)]
          /\ release_thread_to_pool(e.thread)
    BY <1>5 DEF SliceEndCompletes
  <2>2. e.thread \in Threads
    BY <2>1, SliceEventType DEF ThreadTypes, SliceTypes
  <2>3. Len(all_requests)' = Len(all_requests)
    BY <2>1 DEF TypeOK
  <2>4. dropped_requests' = dropped_requests
    BY <1>5 DEF SliceEndCompletes
  <2> QED
    BY <2>1, <2>2, <2>3, <2>4 DEF Releases
<1>6. CASE SliceEndPreempts
  <2>1. Len(all_requests)' = Len(all_requests)
    BY <1>6 DEF SliceEndPreempts, TypeOK
  <2> QED
    BY <1>6, <2>1 DEF SliceEndPreempts, LeavesPool
<1>7. CASE CompleteInTime \/ CompleteLate \/ UserGivesUp
  <2>1. \E r, q : all_requests' = [all_requests EXCEPT ![r] = q]
    BY <1>7, Zenon DEF CompleteInTime, CompleteLate, UserGivesUp
  <2>2. Len(all_requests)' = Len(all_requests)
    BY <2>1 DEF TypeOK
  <2> QED
    BY <1>7, <2>2 DEF CompleteInTime, CompleteLate, UserGivesUp, LeavesPool
<1>8. CASE TimeoutIgnored \/ handle_thread_slice_start \/ handle_thread_available
  BY <1>8 DEF TimeoutIgnored, handle_thread_slice_start, handle_thread_available, LeavesPool
<1>9. CASE LoopEnds \/ UNCHANGED vars
  BY <1>9 DEF LoopEnds, vars, LeavesPool
<1> QED
  BY <1>2, <1>3, <1>4, <1>5, <1>6, <1>7, <1>8, <1>9
     DEF Next, Returned, handle_user_arrival, handle_request_complete, handle_request_timeout

-----------------------------------------------------------------------------
(* The inductive invariant. *)

\* The pool holds the threads without a request, each once, and no two
\* threads share a request.
PoolExact ==
  /\ \A th \in Threads :
       thread_req[th] = NoReq <=> \E i \in DOMAIN free_threads : free_threads[i] = th
  /\ \A i, j \in DOMAIN free_threads : free_threads[i] = free_threads[j] => i = j
  /\ \A a, b \in Threads : thread_req[a] = thread_req[b] /\ thread_req[a] # NoReq => a = b

PoolInv == TypeOK /\ PoolExact /\ FifoAdmission

LEMMA PoolInit == Init => PoolInv
<1> SUFFICES ASSUME Init PROVE PoolInv
  OBVIOUS
<1>1. free_threads = [i \in 1 .. MAX_THREADS |-> i - 1] /\ DOMAIN free_threads = 1 .. MAX_THREADS
  BY DEF Init
<1>2. \A th \in Threads : th + 1 \in DOMAIN free_threads /\ free_threads[th + 1] = th
  BY <1>1, SizesAssumption DEF Threads
<1>3. /\ thread_req = [th \in Threads |-> NoReq]
      /\ \A i, j \in DOMAIN free_threads : free_threads[i] = free_threads[j] => i = j
  BY <1>1, SizesAssumption DEF Init
<1>4. PoolExact
  BY <1>2, <1>3 DEF PoolExact
<1>5. FifoAdmission
  BY SizesAssumption DEF FifoAdmission, Init
<1> QED
  BY <1>4, <1>5, TypeInit DEF PoolInv

\* Types of the variables of the pool, as the step proofs need them.
LEMMA PoolTypes ==
  ASSUME TypeOK
  PROVE  /\ Len(all_requests) \in Nat /\ ReqIds = 1 .. Len(all_requests)
         /\ free_threads \in Seq(Threads) /\ waiting_requests \in Seq(ReqIds)
         /\ waiting_requests \in Seq(Nat)
         /\ \A i \in DOMAIN waiting_requests :
              waiting_requests[i] \in Nat \ {0} /\ waiting_requests[i] < NextId
         /\ \A th \in Threads : thread_req[th] \in Nat /\ thread_req[th] < NextId
         /\ DOMAIN thread_req = Threads
<1>1. /\ Len(all_requests) \in Nat /\ ReqIds = 1 .. Len(all_requests)
      /\ free_threads \in Seq(Threads) /\ waiting_requests \in Seq(ReqIds)
      /\ thread_req \in [Threads -> ReqIds \cup {NoReq}]
  BY LenProperties DEF TypeOK, ReqIds
<1>2. waiting_requests \in Seq(Nat)
  BY <1>1, SeqMonotonic
<1>3. \A i \in DOMAIN waiting_requests : waiting_requests[i] \in ReqIds
  BY <1>1, LenProperties, ElementOfSeq
<1>4. /\ NextId \in Nat \ {0} /\ NextId = Len(all_requests) + 1
      /\ \A r \in ReqIds : r \in Nat \ {0} /\ r < NextId
  BY <1>1 DEF NextId
<1>5. \A th \in Threads : thread_req[th] \in Nat /\ thread_req[th] < NextId
  BY <1>1, <1>4 DEF NoReq
<1> QED
  BY <1>1, <1>2, <1>3, <1>4, <1>5

LEMMA AdmitsKeeps == ASSUME PoolInv, TypeOK', Admits PROVE PoolExact' /\ FifoAdmission'
<1> DEFINE h == Head(free_threads)
<1>1. /\ h \in Threads /\ h = free_threads[1] /\ 1 \in DOMAIN free_threads
      /\ Len(free_threads') = Len(free_threads) - 1
      /\ DOMAIN free_threads = 1 .. Len(free_threads) /\ Len(free_threads) \in Nat \ {0}
      /\ DOMAIN free_threads' = 1 .. Len(free_threads) - 1
      /\ \A i \in 1 .. Len(free_threads) - 1 : free_threads'[i] = free_threads[i + 1]
  BY PoolTypes, HeadTailProperties, LenProperties, EmptySeq DEF PoolInv, Admits
<1>2. thread_req[h] = NoReq
  BY <1>1 DEF PoolInv, PoolExact
<1>3. /\ thread_req'[h] = NextId /\ NextId # NoReq
      /\ \A th \in Threads \ {h} : thread_req'[th] = thread_req[th]
      /\ \A th \in Threads : thread_req[th] # NextId
  BY <1>1, PoolTypes DEF Admits, PoolInv, NextId, NoReq
<1>4. \A th \in Threads :
        thread_req'[th] = NoReq <=> \E i \in DOMAIN free_threads' : free_threads'[i] = th
  <2> TAKE th \in Threads
  <2>1. CASE th = h
    <3>1. ASSUME NEW i \in 1 .. Len(free_threads) - 1 PROVE free_threads'[i] # h
      <4>1. i + 1 \in DOMAIN free_threads /\ i + 1 # 1
        BY <1>1
      <4>2. \A a, b \in DOMAIN free_threads : free_threads[a] = free_threads[b] => a = b
        BY DEF PoolInv, PoolExact
      <4> QED
        BY <1>1, <4>1, <4>2
    <3> QED
      BY <1>1, <1>3, <2>1, <3>1
  <2>2. CASE th # h
    <3>1. (\E i \in DOMAIN free_threads : free_threads[i] = th)
            <=> \E i \in DOMAIN free_threads' : free_threads'[i] = th
      <4>1. ASSUME NEW i \in DOMAIN free_threads, free_threads[i] = th
            PROVE  i - 1 \in DOMAIN free_threads' /\ free_threads'[i - 1] = th
        <5>1. i # 1 /\ i \in 1 .. Len(free_threads)
          BY <1>1, <2>2, <4>1
        <5>2. i - 1 \in 1 .. Len(free_threads) - 1 /\ (i - 1) + 1 = i
          BY <1>1, <5>1
        <5> QED
          BY <1>1, <4>1, <5>2
      <4>2. ASSUME NEW i \in DOMAIN free_threads', free_threads'[i] = th
            PROVE  i + 1 \in DOMAIN free_threads /\ free_threads[i + 1] = th
        BY <1>1, <4>2
      <4> QED
        BY <4>1, <4>2
    <3>2. thread_req[th] = NoReq <=> \E i \in DOMAIN free_threads : free_threads[i] = th
      BY DEF PoolInv, PoolExact
    <3>3. thread_req'[th] = thread_req[th]
      BY <1>3, <2>2
    <3> QED
      BY <3>1, <3>2, <3>3
  <2> QED
    BY <2>1, <2>2
<1>5. \A i, j \in DOMAIN free_threads' : free_threads'[i] = free_threads'[j] => i = j
  <2>1. \A a, b \in DOMAIN free_threads : free_threads[a] = free_threads[b] => a = b
    BY DEF PoolInv, PoolExact
  <2> TAKE i, j \in DOMAIN free_threads'
  <2>2. i + 1 \in DOMAIN free_threads /\ j + 1 \in DOMAIN free_threads /\ (i + 1 = j + 1 => i = j)
    BY <1>1
  <2> QED
    BY <1>1, <2>1, <2>2
<1>6. \A a, b \in Threads : thread_req'[a] = thread_req'[b] /\ thread_req'[a] # NoReq => a = b
  <2>1. \A a, b \in Threads : thread_req[a] = thread_req[b] /\ thread_req[a] # NoReq => a = b
    BY DEF PoolInv, PoolExact
  <2> SUFFICES ASSUME NEW a \in Threads, NEW b \in Threads,
                      thread_req'[a] = thread_req'[b], thread_req'[a] # NoReq
               PROVE  a = b
    OBVIOUS
  <2>2. CASE a = h \/ b = h
    BY <1>3, <2>2
  <2>3. CASE a # h /\ b # h
    BY <1>3, <2>1, <2>3
  <2> QED
    BY <2>2, <2>3
<1>7. waiting_requests' = <<>>
  BY DEF Admits, PoolInv, FifoAdmission
<1> QED
  BY <1>4, <1>5, <1>6, <1>7, SizesAssumption DEF PoolExact, FifoAdmission

LEMMA QueuesKeeps == ASSUME PoolInv, TypeOK', Queues PROVE PoolExact' /\ FifoAdmission'
<1>1. /\ Len(waiting_requests') = Len(waiting_requests) + 1
      /\ Len(waiting_requests) \in Nat
      /\ DOMAIN waiting_requests = 1 .. Len(waiting_requests)
      /\ DOMAIN waiting_requests' = 1 .. Len(waiting_requests) + 1
      /\ waiting_requests'[Len(waiting_requests) + 1] = NextId
      /\ \A i \in DOMAIN waiting_requests : waiting_requests'[i] = waiting_requests[i]
      /\ NextId \in Nat
  <2>1. NextId \in Nat /\ waiting_requests \in Seq(Nat)
    BY PoolTypes DEF PoolInv, NextId
  <2> QED
    BY <2>1, AppendProperties, LenProperties DEF Queues
<1>2. PoolExact'
  BY DEF PoolInv, PoolExact, Queues
<1>3. Len(waiting_requests') <= THREAD_QUEUE_LIMIT
  BY <1>1, SizesAssumption DEF Queues
<1>4. \A i \in DOMAIN waiting_requests' :
        /\ \A j \in 1 .. i - 1 : waiting_requests'[j] < waiting_requests'[i]
        /\ \A th \in Threads : thread_req'[th] < waiting_requests'[i]
  <2> TAKE i \in DOMAIN waiting_requests'
  <2>1. CASE i = Len(waiting_requests) + 1
    BY <1>1, <2>1, PoolTypes DEF PoolInv, Queues
  <2>2. CASE i \in DOMAIN waiting_requests
    BY <1>1, <2>2 DEF PoolInv, FifoAdmission, Queues
  <2> QED
    BY <1>1, <2>1, <2>2
<1> QED
  BY <1>2, <1>3, <1>4 DEF FifoAdmission, Queues

LEMMA ReleasesKeeps ==
  ASSUME PoolInv, TypeOK', NEW x \in Threads, Releases(x) PROVE PoolExact' /\ FifoAdmission'
<1>1. /\ thread_req[x] # NoReq /\ DOMAIN thread_req = Threads
      /\ \A i \in DOMAIN free_threads : free_threads[i] # x
      /\ DOMAIN free_threads = 1 .. Len(free_threads) /\ Len(free_threads) \in Nat
  BY PoolTypes, LenProperties DEF Releases, PoolInv, PoolExact
<1>2. CASE waiting_requests = <<>>
  <2>1. /\ thread_req' = [thread_req EXCEPT ![x] = NoReq]
        /\ free_threads' = Append(free_threads, x) /\ waiting_requests' = <<>>
    BY <1>2 DEF Releases, release_thread_to_pool
  <2>2. /\ DOMAIN free_threads' = 1 .. Len(free_threads) + 1
        /\ free_threads'[Len(free_threads) + 1] = x
        /\ \A i \in DOMAIN free_threads : free_threads'[i] = free_threads[i]
    BY <1>1, <2>1, PoolTypes, AppendProperties, LenProperties DEF PoolInv
  <2>3. PoolExact'
    BY <1>1, <2>1, <2>2 DEF PoolInv, PoolExact
  <2>4. FifoAdmission'
    BY <2>1, SizesAssumption DEF FifoAdmission
  <2> QED
    BY <2>3, <2>4
<1>3. CASE waiting_requests # <<>>
  <2>1. /\ thread_req' = [thread_req EXCEPT ![x] = waiting_requests[1]]
        /\ waiting_requests' = Tail(waiting_requests)
        /\ free_threads' = free_threads /\ free_threads = <<>>
    BY <1>3, PoolTypes, HeadTailProperties
       DEF Releases, release_thread_to_pool, PoolInv, FifoAdmission
  <2>2. /\ DOMAIN waiting_requests = 1 .. Len(waiting_requests)
        /\ Len(waiting_requests) \in Nat \ {0}
        /\ Len(waiting_requests') = Len(waiting_requests) - 1
        /\ DOMAIN waiting_requests' = 1 .. Len(waiting_requests) - 1
        /\ \A i \in 1 .. Len(waiting_requests) - 1 :
             waiting_requests'[i] = waiting_requests[i + 1]
    BY <1>3, <2>1, PoolTypes, HeadTailProperties, LenProperties, EmptySeq DEF PoolInv
  <2>3. waiting_requests[1] # NoReq /\ \A th \in Threads : thread_req[th] # waiting_requests[1]
    BY <2>2, PoolTypes DEF PoolInv, FifoAdmission, NoReq
  <2>4. PoolExact'
    BY <1>1, <2>1, <2>3 DEF PoolInv, PoolExact
  <2>5. Len(waiting_requests') <= THREAD_QUEUE_LIMIT
    BY <2>2, SizesAssumption DEF PoolInv, FifoAdmission
  <2>6. \A i \in DOMAIN waiting_requests' :
          /\ \A j \in 1 .. i - 1 : waiting_requests'[j] < waiting_requests'[i]
          /\ \A th \in Threads : thread_req'[th] < waiting_requests'[i]
    <3> TAKE i \in DOMAIN waiting_requests'
    <3>1. i + 1 \in DOMAIN waiting_requests /\ waiting_requests'[i] = waiting_requests[i + 1]
      BY <2>2
    <3>2. \A j \in 1 .. i - 1 : j + 1 \in 1 .. (i + 1) - 1 /\ waiting_requests'[j] = waiting_requests[j + 1]
      BY <2>2
    <3>3. waiting_requests[1] < waiting_requests[i + 1]
      BY <2>2, <3>1 DEF PoolInv, FifoAdmission
    <3> QED
      BY <1>1, <2>1, <3>1, <3>2, <3>3 DEF PoolInv, FifoAdmission
  <2> QED
    BY <2>1, <2>4, <2>5, <2>6 DEF FifoAdmission
<1> QED
  BY <1>2, <1>3

LEMMA PoolNext == PoolInv /\ [Next]_vars => PoolInv'
<1> SUFFICES ASSUME PoolInv, [Next]_vars PROVE PoolInv'
  OBVIOUS
<1>1. TypeOK /\ TypeOK'
  BY TypeNext DEF PoolInv
<1>2. CASE Drops \/ LeavesPool
  BY <1>1, <1>2 DEF Drops, LeavesPool, PoolInv, PoolExact, FifoAdmission
<1> QED
  BY <1>1, <1>2, PoolStep, AdmitsKeeps, QueuesKeeps, ReleasesKeeps DEF PoolInv

LEMMA PoolInvariant == Spec => []PoolInv
  BY PoolInit, PoolNext, PTL DEF Spec

\* Requests get their threads in the order they arrived and none waits while
\* a thread is free, for every size of the pool and of the queue
\* (QueueingSystem::admit_request, release_thread_to_pool).
THEOREM FirstComeFirstServed == Spec => []FifoAdmission
<1>1. PoolInv => FifoAdmission
  BY DEF PoolInv
<1> QED
  BY <1>1, PoolInvariant, PTL

-----------------------------------------------------------------------------
(* How many requests are in service. *)

Busy == {th \in Threads : thread_req[th] # NoReq}

\* Every busy thread counts: threads and their requests correspond.
LEMMA BusyCount ==
  ASSUME PoolInv
  PROVE  /\ free_threads = <<>> => Cardinality(InService) = MAX_THREADS
         /\ free_threads # <<>> => Cardinality(InService) < MAX_THREADS
         /\ Cardinality(InService) \in Nat
<1>1. IsFiniteSet(Threads) /\ Cardinality(Threads) = MAX_THREADS
  BY FS_Interval, SizesAssumption DEF Threads
<1>2. IsFiniteSet(Busy) /\ Cardinality(Busy) <= MAX_THREADS
      /\ (Cardinality(Busy) = MAX_THREADS => Busy = Threads) /\ Cardinality(Busy) \in Nat
  BY <1>1, FS_Subset, FS_CardinalityType DEF Busy
<1>3. Cardinality(InService) = Cardinality(Busy)
  <2> DEFINE f == [th \in Busy |-> thread_req[th]]
  <2>1. f \in Bijection(Busy, InService)
    BY DEF Bijection, Injection, IsInjective, Surjection, InService, Busy, PoolInv, PoolExact
  <2>2. ExistsBijection(Busy, InService)
    BY <2>1 DEF ExistsBijection
  <2> QED
    BY <1>2, <2>2, FS_Bijection
<1>4. free_threads = <<>> => Busy = Threads
  BY DEF PoolInv, PoolExact, Busy
<1>5. free_threads # <<>> => Busy # Threads
  <2> SUFFICES ASSUME free_threads # <<>> PROVE Busy # Threads
    OBVIOUS
  <2>1. 1 \in DOMAIN free_threads /\ free_threads[1] \in Threads
    BY PoolTypes, EmptySeq, LenProperties, ElementOfSeq DEF PoolInv
  <2> QED
    BY <2>1 DEF PoolInv, PoolExact, Busy
<1> QED
  BY <1>1, <1>2, <1>3, <1>4, <1>5, SizesAssumption

-----------------------------------------------------------------------------
(* The refinement. *)

\* Station counts with an operator of its own, which is the same.
LEMMA SameCount == Pool!Cardinality(InService) = Cardinality(InService)
  BY DEF Cardinality, Pool!Cardinality

LEMMA StationInit == Init => Pool!Init
  BY SizesAssumption DEF Init, Pool!Init, InService, Threads, NoReq

\* Each thing a handler does to the pool is a step of the station.
LEMMA StationNext == PoolInv /\ [Next]_vars => [Pool!Next]_(Pool!vars)
<1> SUFFICES ASSUME PoolInv, [Next]_vars PROVE [Pool!Next]_(Pool!vars)
  OBVIOUS
<1>1. TypeOK /\ Len(waiting_requests) \in Nat
  BY PoolTypes, LenProperties DEF PoolInv
<1>2. CASE Admits
  <2>1. /\ Head(free_threads) \in Threads /\ thread_req[Head(free_threads)] = NoReq
        /\ DOMAIN thread_req = Threads /\ NextId # NoReq
    <3>1. /\ 1 \in DOMAIN free_threads /\ free_threads[1] \in Threads
          /\ Head(free_threads) = free_threads[1]
      BY <1>1, <1>2, PoolTypes, EmptySeq, LenProperties, ElementOfSeq, HeadTailProperties DEF Admits
    <3> QED
      BY <1>1, <3>1, PoolTypes DEF PoolInv, PoolExact, NextId, NoReq
  <2>2. InService' = InService \cup {NextId}
    BY <1>2, <2>1 DEF Admits, InService
  <2> QED
    BY <1>2, <2>2, BusyCount, SameCount DEF Admits, Pool!Next, Pool!Arrives, Pool!Enters, NextId
<1>3. CASE Queues
  BY <1>1, <1>3, BusyCount, SameCount DEF Queues, Pool!Next, Pool!Arrives, Pool!Waits, InService, NextId
<1>4. CASE Drops
  <2>1. Len(waiting_requests) = THREAD_QUEUE_LIMIT
    BY <1>1, <1>4, SizesAssumption DEF Drops, PoolInv, FifoAdmission
  <2> QED
    BY <1>4, <2>1, BusyCount, SameCount DEF Drops, Pool!Next, Pool!Arrives, Pool!TurnedAway, InService, NextId
<1>5. ASSUME NEW x \in Threads, Releases(x) PROVE Pool!Leaves(thread_req[x])
  <2>1. thread_req[x] # NoReq /\ DOMAIN thread_req = Threads
    BY <1>1, <1>5, PoolTypes DEF Releases
  <2>2. CASE waiting_requests = <<>>
    <3>1. InService' = InService \ {thread_req[x]}
      BY <1>5, <2>1, <2>2 DEF Releases, release_thread_to_pool, InService, PoolInv, PoolExact
    <3> QED
      BY <1>5, <2>2, <3>1 DEF Releases, release_thread_to_pool, Pool!Leaves
  <2>3. CASE waiting_requests # <<>>
    <3>1. Head(waiting_requests) # NoReq
      BY <1>1, <2>3, PoolTypes, EmptySeq, LenProperties, HeadTailProperties DEF NoReq
    <3>2. InService' = (InService \ {thread_req[x]}) \cup {Head(waiting_requests)}
      BY <1>5, <2>1, <2>3, <3>1 DEF Releases, release_thread_to_pool, InService, PoolInv, PoolExact
    <3> QED
      BY <1>5, <2>3, <3>2 DEF Releases, release_thread_to_pool, Pool!Leaves
  <2> QED
    BY <2>2, <2>3
<1>6. \A x \in Threads : Releases(x) => thread_req[x] \in InService
  BY DEF Releases, InService
<1>7. CASE LeavesPool
  BY <1>7 DEF LeavesPool, Pool!vars, InService
<1> QED
  BY <1>1, <1>2, <1>3, <1>4, <1>5, <1>6, <1>7, PoolStep DEF Pool!Next

\* The thread pool and its queue are a first-come-first-served station with
\* MAX_THREADS servers and THREAD_QUEUE_LIMIT places: no behaviour of the
\* simulator lets a request overtake another, wait beside a free thread, be
\* dropped while there is room, or leave the server without being served.
THEOREM StationRefined == Spec => ImplementsStation
  BY StationInit, StationNext, PoolInvariant, PTL DEF Spec, ImplementsStation, Pool!Spec
=============================================================================
