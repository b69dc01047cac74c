------------------------ MODULE WebSimRequests_proofs ------------------------
(***************************************************************************)
(* No request of the simulator is lost, counted twice or told two          *)
(* different things, and every user of a closed loop goes on, whatever     *)
(* the sizes, the policy and the times.  No request is answered sooner     *)
(* than its slices take, and no work of the cores is lost or charged       *)
(* twice.                                                                  *)
(***************************************************************************)
EXTENDS WebSimPlaces_proofs, Counting_proofs

-----------------------------------------------------------------------------
(* The stages of a request: admitted but not served, answered, counted. *)

Unserved(r) == Holds(waiting_requests, r) \/ \E th \in Threads : thread_req[th] = r
Counted(r) == Holds(completed_requests, r) \/ Holds(timedout_requests, r)
Answers == {e \in evq : e.type = "REQUEST_COMPLETE"}
Checks == {e \in evq : e.type = "CHECK_TIMEOUT"}

\* A request is answered once, and counted once after that; answers are never
\* past simtime, so that the end of the loop drops none.
RequestsPlaced ==
  /\ \A r \in ReqIds : Unserved(r) => all_requests[r].completion_time = -1
  /\ \A e \in Answers : /\ all_requests[e.req].completion_time = e.time /\ e.time <= SIMTIME
                        /\ ~Counted(e.req)
  /\ \A e, f \in Answers : e.req = f.req => e = f
  /\ Distinct(completed_requests) /\ Distinct(timedout_requests)
  /\ \A r \in ReqIds : Counted(r) => all_requests[r].completion_time # -1
  /\ \A r \in ReqIds : ~(Holds(completed_requests, r) /\ Holds(timedout_requests, r))

\* What a request still needs after whole quanta is never between the two
\* thresholds: a request is done for handle_slice_end exactly if it is done for
\* handle_request_timeout.
GapAvoided ==
  \A s \in ServiceTimes :
    /\ s > CheckEps
    /\ \A k \in Nat : s - k * QUANTUM <= DoneEps \/ s - k * QUANTUM > CheckEps

\* Request r has received k quanta.
Received(r, k) ==
  all_requests[r].service_remaining = all_requests[r].service_total - k * QUANTUM

\* A request that is not served yet has received whole quanta, and a slice in
\* flight takes a quantum or all that is left.
WholeSlices ==
  /\ \A r \in ReqIds : all_requests[r].service_total \in ServiceTimes
  /\ \A r \in ReqIds : Unserved(r) => \E k \in Nat : Received(r, k)
  /\ \A e \in evq : e.type = "THREAD_SLICE_END" =>
       e.slice_len = Shorter(QUANTUM, all_requests[thread_req[e.thread]].service_remaining)

\* What is known of request r once it was answered or given up.
VerdictOf(r) ==
  LET q == all_requests[r]
  IN  /\ q.completion_time # -1 => q.service_remaining = 0
      /\ q.timed_out => q.timeout_deadline <= now
      /\ q.timed_out /\ q.completion_time # -1 => q.completion_time >= q.timeout_deadline
      /\ Holds(completed_requests, r) => ~q.timed_out /\ q.completion_time < q.timeout_deadline
      /\ Holds(timedout_requests, r) => q.completion_time >= q.timeout_deadline

VerdictsKept ==
  /\ \A r \in ReqIds : VerdictOf(r)
  /\ \A c \in Checks : c.time = all_requests[c.req].timeout_deadline

\* The check c of the deadline of r goes before the slice that ends the service of r.
Watches(c, r) ==
  /\ c.req = r
  /\ \A e \in evq : e.type = "THREAD_SLICE_END" /\ thread_req[e.thread] = r => c.seq < e.seq

\* The deadline of every awaited request is watched, and an answer that is not
\* awaited any more knows it.
DeadlinesWatched ==
  /\ \A r \in ReqIds : Unserved(r) => all_requests[r].service_remaining > CheckEps
  /\ \A c, d \in Checks : c.req = d.req => c = d
  /\ \A c \in Checks : IF Unserved(c.req) THEN ~all_requests[c.req].timed_out
                       ELSE all_requests[c.req].completion_time # -1
  /\ \A r \in ReqIds : running /\ Unserved(r) /\ ~all_requests[r].timed_out =>
       \E c \in Checks : Watches(c, r)
  /\ \A e \in Answers : \/ all_requests[e.req].timed_out
                        \/ e.time < all_requests[e.req].timeout_deadline

Arrivals(u) == {e \in evq : e.type = "USER_ARRIVAL" /\ e.user = u}
AwaitedOf(u) == {r \in ReqIds : all_requests[r].user_id = u /\ Awaited(r)}

\* A user thinks or waits.
Tokens ==
  running => \A u \in Users :
    \/ AwaitedOf(u) = {} /\ \E e \in Arrivals(u) : Arrivals(u) = {e}
    \/ Arrivals(u) = {} /\ \E r \in AwaitedOf(u) : AwaitedOf(u) = {r}

-----------------------------------------------------------------------------
(* How the handlers move requests between the stages. *)

LEMMA StagesTypes ==
  ASSUME TypeOK
  PROVE  /\ ReqIds \subseteq Nat \ {0} /\ DOMAIN thread_req = Threads /\ NextId \notin ReqIds
         /\ \A r : Unserved(r) /\ r # NoReq => r \in ReqIds
         /\ \A r : Counted(r) => r \in ReqIds
         /\ \A e \in Answers \cup Checks : e.req \in ReqIds /\ e.time \in Nat /\ e.seq \in Nat
         /\ \A r \in ReqIds : all_requests[r] \in Request
         /\ seq_counter \in Nat /\ now \in Nat
<1>1. /\ waiting_requests \in Seq(ReqIds) /\ completed_requests \in Seq(ReqIds)
      /\ timedout_requests \in Seq(ReqIds) /\ thread_req \in [Threads -> ReqIds \cup {NoReq}]
      /\ seq_counter \in Nat /\ now \in Nat /\ all_requests \in Seq(Request)
  BY DEF TypeOK
<1>2. ReqIds \subseteq Nat \ {0} /\ NextId \notin ReqIds
  BY <1>1, LenProperties DEF ReqIds, NextId
<1>3. /\ \A i \in DOMAIN waiting_requests : waiting_requests[i] \in ReqIds
      /\ \A i \in DOMAIN completed_requests : completed_requests[i] \in ReqIds
      /\ \A i \in DOMAIN timedout_requests : timedout_requests[i] \in ReqIds
  BY <1>1, ElementOfSeq
<1>4. \A e \in Answers \cup Checks : e.req \in ReqIds /\ e.time \in Nat /\ e.seq \in Nat
  BY DEF TypeOK, Answers, Checks, EventOf, Event, RequestTypes
<1>5. \A r \in ReqIds : all_requests[r] \in Request
  BY <1>1, ElementOfSeq DEF ReqIds
<1> QED
  BY <1>1, <1>2, <1>3, <1>4, <1>5 DEF Unserved, Counted, Holds

\* The events of each kind after a handler.
LEMMA StagesEvents ==
  ASSUME NEW e, NEW ty, NEW N, Handles(e, ty, N)
  PROVE  /\ Answers' = (Answers \ {e}) \cup {n \in N : n.type = "REQUEST_COMPLETE"}
         /\ Checks' = (Checks \ {e}) \cup {n \in N : n.type = "CHECK_TIMEOUT"}
         /\ \A u : Arrivals(u)' = (Arrivals(u) \ {e}) \cup {n \in N : IsArrival(n, u)}
         /\ ty # "REQUEST_COMPLETE" => e \notin Answers
         /\ ty # "CHECK_TIMEOUT" => e \notin Checks
         /\ ty # "USER_ARRIVAL" => \A u : e \notin Arrivals(u)
  BY DEF Handles, Answers, Checks, Arrivals, IsArrival

LEMMA UnservedKept ==
  ASSUME UNCHANGED <<waiting_requests, thread_req>>
  PROVE  \A r : Unserved(r)' <=> Unserved(r)
  BY DEF Unserved, Holds

LEMMA HoldsAppended ==
  ASSUME NEW S, NEW s \in Seq(S), NEW x \in S
  PROVE  \A y : Holds(Append(s, x), y) <=> Holds(s, y) \/ y = x
<1>1. ToSet(Append(s, x)) = ToSet(s) \cup {x}
  BY AppendDistinct
<1>2. \A t, y : Holds(t, y) <=> y \in ToSet(t)
  BY DEF Holds, ToSet
<1> QED
  BY <1>1, <1>2

\* An admitted request.
LEMMA UnservedAdmitted ==
  ASSUME Steady, NEW e \in evq, RunsEffect(e) \/ WaitsEffect(e)
  PROVE  \A r : r # NoReq => (Unserved(r)' <=> Unserved(r) \/ r = NextId)
<1>1. TypeOK /\ DOMAIN thread_req = Threads /\ waiting_requests \in Seq(Nat) /\ NextId \in Nat
  <2>1. TypeOK /\ waiting_requests \in Seq(ReqIds) /\ ReqIds \subseteq Nat
    BY DEF Steady, PoolInv, TypeOK, ReqIds
  <2>2. waiting_requests \in Seq(Nat)
    BY <2>1, SeqMonotonic
  <2> QED
    BY <2>1, <2>2, LenProperties DEF TypeOK, NextId
<1>2. CASE RunsEffect(e)
  <2> DEFINE h == Head(free_threads)
  <2>1. /\ thread_req' = [thread_req EXCEPT ![h] = NextId] /\ waiting_requests' = waiting_requests
        /\ free_threads # <<>>
    BY <1>2 DEF RunsEffect, Admits
  <2>2. h \in Threads /\ thread_req[h] = NoReq
    BY <2>1, PoolHead
  <2> HIDE DEF h
  <2> QED
    BY <1>1, <2>1, <2>2 DEF Unserved, Holds
<1>3. CASE WaitsEffect(e)
  <2>1. /\ waiting_requests' = Append(waiting_requests, NextId) /\ thread_req' = thread_req
    BY <1>3 DEF WaitsEffect, Queues
  <2>2. \A r : Holds(waiting_requests', r) <=> Holds(waiting_requests, r) \/ r = NextId
    BY <1>1, <2>1, HoldsAppended
  <2> QED
    BY <2>1, <2>2 DEF Unserved
<1> QED
  BY <1>2, <1>3

\* A served request leaves, whether or not its thread takes another.
LEMMA UnservedReleased ==
  ASSUME Steady, NEW th \in Threads, Releases(th)
  PROVE  \A r : r # NoReq => (Unserved(r)' <=> Unserved(r) /\ r # thread_req[th])
<1> DEFINE q == thread_req[th]
<1>1. /\ DOMAIN thread_req = Threads /\ waiting_requests \in Seq(ReqIds) /\ q # NoReq
      /\ \A a \in Threads \ {th} : thread_req'[a] = thread_req[a] /\ thread_req[a] # q
      /\ \A i \in DOMAIN waiting_requests : waiting_requests[i] # q
  <2>1. \A a \in Threads \ {th} : thread_req'[a] = thread_req[a]
    BY ReleaseFacts DEF Steady
  <2>2. q # NoReq /\ q \in ReqIds
    BY ReleaseFacts DEF Steady
  <2>3. \A a \in Threads \ {th} : thread_req[a] # q
    BY <2>2 DEF Steady, PoolInv, PoolExact
  <2>4. \A i \in DOMAIN waiting_requests : waiting_requests[i] # q
    <3>1. \A i \in DOMAIN waiting_requests : q < waiting_requests[i]
      BY DEF Steady, PoolInv, FifoAdmission
    <3>2. q \in Nat
      BY <2>2 DEF ReqIds
    <3> QED
      BY <3>1, <3>2
  <2> QED
    BY <2>1, <2>2, <2>3, <2>4 DEF Steady, PoolInv, TypeOK
<1>2. CASE waiting_requests = <<>>
  <2>1. thread_req'[th] = NoReq /\ waiting_requests' = waiting_requests
    BY <1>2, ReleaseFacts DEF Steady
  <2> HIDE DEF q
  <2>2. \A r : r # NoReq =>
          ((\E a \in Threads : thread_req'[a] = r) <=> (\E a \in Threads : thread_req[a] = r) /\ r # q)
    BY <1>1, <2>1 DEF q
  <2> QED
    BY <1>1, <1>2, <2>1, <2>2 DEF Unserved, Holds, q
<1>3. CASE waiting_requests # <<>>
  <2> DEFINE w == waiting_requests
  <2>1. thread_req'[th] = w[1] /\ waiting_requests' = Tail(w)
    BY <1>3, ReleaseFacts DEF Steady
  <2>2. /\ Len(w) \in Nat \ {0} /\ DOMAIN w = 1 .. Len(w)
        /\ DOMAIN Tail(w) = 1 .. Len(w) - 1
        /\ \A i \in 1 .. Len(w) - 1 : Tail(w)[i] = w[i + 1]
    BY <1>1, <1>3, HeadTailProperties, LenProperties, EmptySeq
  <2> HIDE DEF w
  <2>3. \A i \in DOMAIN w : i # 1 => i - 1 \in DOMAIN Tail(w) /\ Tail(w)[i - 1] = w[i]
    BY <2>2
  <2>4. \A r : Holds(w, r) <=> r = w[1] \/ Holds(Tail(w), r)
    <3>1. 1 \in DOMAIN w /\ \A i \in DOMAIN Tail(w) : i + 1 \in DOMAIN w /\ Tail(w)[i] = w[i + 1]
      BY <2>2
    <3> QED
      BY <2>3, <3>1 DEF Holds
  <2>5. \A r : ~(r = q /\ Holds(w, r))
    BY <1>1 DEF Holds, w
  <2>6. \A r : (\E a \in Threads : thread_req'[a] = r)
                 <=> r = w[1] \/ ((\E a \in Threads : thread_req[a] = r) /\ r # q)
    <3> HIDE DEF q
    <3> QED
      BY <1>1, <2>1 DEF q
  <2>7. waiting_requests = w /\ waiting_requests' = Tail(w)
    BY <2>1 DEF w
  <2> HIDE DEF q
  <2>8. \A r : Unserved(r)' <=> Holds(Tail(w), r) \/ \E a \in Threads : thread_req'[a] = r
    BY <2>7 DEF Unserved
  <2>9. \A r : Unserved(r) <=> Holds(w, r) \/ \E a \in Threads : thread_req[a] = r
    BY <2>7 DEF Unserved
  <2>10. \A r : Unserved(r)' <=> Unserved(r) /\ r # q
    BY <2>4, <2>5, <2>6, <2>8, <2>9
  <2> QED
    BY <2>10 DEF q
<1> QED
  BY <1>2, <1>3

\* The request of a slice.
LEMMA SliceFacts ==
  ASSUME Steady, NEW e \in evq, e.type \in ThreadTypes
  PROVE  LET r == thread_req[e.thread]
         IN  /\ e.thread \in Threads /\ r \in ReqIds /\ r # NoReq /\ Unserved(r) /\ e \in ThreadEvs
             /\ \A f \in ThreadEvs : f.thread \in Threads /\ (thread_req[f.thread] = r => f = e)
<1> DEFINE r == thread_req[e.thread]
<1>1. e \in ThreadEvs /\ \A f \in ThreadEvs : f.thread \in Threads
  BY DEF ThreadEvs, Steady, PoolInv, TypeOK, EventOf
<1>2. r # NoReq /\ r \in ReqIds
  BY <1>1 DEF Steady, ThreadsPlaced, PoolInv, TypeOK
<1>3. \A f \in ThreadEvs : thread_req[f.thread] = r => f = e
  BY <1>1, <1>2 DEF Steady, ThreadsPlaced, PoolInv, PoolExact
<1> QED
  BY <1>1, <1>2, <1>3 DEF Unserved

\* A step that answers and counts nothing.
LEMMA PlacedKept ==
  ASSUME TypeOK, RequestsPlaced, Answers' = Answers,
         UNCHANGED <<completed_requests, timedout_requests>>,
         ReqIds \subseteq ReqIds',
         \A r \in ReqIds :
           /\ all_requests'[r].completion_time = all_requests[r].completion_time
           /\ Unserved(r)' => Unserved(r),
         \A r \in ReqIds' \ ReqIds : all_requests'[r].completion_time = -1
  PROVE  RequestsPlaced'
<1>1. \A r : Counted(r)' <=> Counted(r)
  BY DEF Counted, Holds
<1>2. \A r : Counted(r) => r \in ReqIds
  BY StagesTypes
<1>3. \A e \in Answers : e.req \in ReqIds
  BY StagesTypes
<1>4. \A r \in ReqIds' : Unserved(r)' => all_requests'[r].completion_time = -1
  BY DEF RequestsPlaced
<1>5. \A e \in Answers' : /\ all_requests'[e.req].completion_time = e.time /\ e.time <= SIMTIME
                          /\ ~Counted(e.req)'
  BY <1>1, <1>3 DEF RequestsPlaced
<1>6. \A r \in ReqIds' : Counted(r)' => all_requests'[r].completion_time # -1
  BY <1>1, <1>2 DEF RequestsPlaced
<1>7. \A r \in ReqIds' : ~(Holds(completed_requests', r) /\ Holds(timedout_requests', r))
  BY <1>2 DEF RequestsPlaced, Counted
<1>8. Distinct(completed_requests') /\ Distinct(timedout_requests')
  BY DEF RequestsPlaced
<1>9. \A e, f \in Answers' : e.req = f.req => e = f
  BY DEF RequestsPlaced
<1> HIDE DEF Counted, Unserved
<1> QED
  BY <1>4, <1>5, <1>6, <1>7, <1>8, <1>9 DEF RequestsPlaced

\* A request is answered.
LEMMA PlacedAnswered ==
  ASSUME Steady, RequestsPlaced, NEW e \in evq, CompletesEffect(e) PROVE RequestsPlaced'
<1> DEFINE r == thread_req[e.thread]
<1>1. PICK x : \E S, n :
        /\ Handles(e, "THREAD_SLICE_END", S \cup {n}) /\ Starting(S, x, e.time)
        /\ n.type = "REQUEST_COMPLETE" /\ n.req = r /\ n.time = e.time
  BY DEF CompletesEffect
<1>2. PICK S, n :
        /\ Handles(e, "THREAD_SLICE_END", S \cup {n}) /\ Starting(S, x, e.time)
        /\ n.type = "REQUEST_COMPLETE" /\ n.req = r /\ n.time = e.time
  BY <1>1
<1>3. TypeOK /\ e.type = "THREAD_SLICE_END" /\ e.time \in Nat /\ e.time <= SIMTIME
  BY <1>2 DEF Handles, Steady, PoolInv
<1>4. e.thread \in Threads /\ r \in ReqIds /\ r # NoReq /\ Unserved(r)
  BY <1>3, SliceFacts, ThreadKinds
<1>5. Answers' = Answers \cup {n}
  <2>1. \A s \in S : s.type # "REQUEST_COMPLETE"
    BY <1>2 DEF Starting
  <2> QED
    BY <1>2, <2>1, StagesEvents
<1>6. \A q \in ReqIds : Unserved(q)' <=> Unserved(q) /\ q # r
  BY <1>4, UnservedReleased, StagesTypes DEF CompletesEffect, Steady, PoolInv, NoReq
<1>7. OnlyRequest(r) /\ all_requests'[r].completion_time = e.time
  BY <1>3, <1>4, CompletesRequest DEF Becomes
<1>8. /\ UNCHANGED <<completed_requests, timedout_requests>>
      /\ \A q : Counted(q)' <=> Counted(q)
  BY DEF CompletesEffect, Counted, Holds
<1>9. /\ \A q : Counted(q) => q \in ReqIds
      /\ \A f \in Answers : f.req \in ReqIds /\ f.time \in Nat
  BY <1>3, StagesTypes
<1> HIDE DEF r
<1>10. all_requests[r].completion_time = -1 /\ ~Counted(r)
  BY <1>4 DEF RequestsPlaced
<1>11. \A f \in Answers : f.req # r
  BY <1>9, <1>10 DEF RequestsPlaced
<1> HIDE DEF Counted, Unserved
<1>12. \A q \in ReqIds' : Unserved(q)' => all_requests'[q].completion_time = -1
  BY <1>6, <1>7 DEF OnlyRequest, RequestsPlaced
<1>13. \A f \in Answers' : /\ all_requests'[f.req].completion_time = f.time /\ f.time <= SIMTIME
                           /\ ~Counted(f.req)'
  <2> TAKE f \in Answers'
  <2>1. CASE f = n
    BY <1>2, <1>3, <1>7, <1>8, <1>10, <2>1
  <2>2. CASE f \in Answers
    BY <1>7, <1>8, <1>9, <1>11, <2>2 DEF OnlyRequest, RequestsPlaced
  <2> QED
    BY <1>5, <2>1, <2>2
<1>14. \A f, g \in Answers' : f.req = g.req => f = g
  BY <1>2, <1>5, <1>11 DEF RequestsPlaced
<1>15. \A q \in ReqIds' : Counted(q)' => all_requests'[q].completion_time # -1
  BY <1>3, <1>7, <1>8 DEF OnlyRequest, RequestsPlaced
<1>16. \A q \in ReqIds' : ~(Holds(completed_requests', q) /\ Holds(timedout_requests', q))
  BY <1>7, <1>8 DEF OnlyRequest, RequestsPlaced
<1>17. Distinct(completed_requests') /\ Distinct(timedout_requests')
  BY <1>8 DEF RequestsPlaced
<1> QED
  BY <1>12, <1>13, <1>14, <1>15, <1>16, <1>17 DEF RequestsPlaced

LEMMA DistinctAppended ==
  ASSUME NEW S, NEW s \in Seq(S), NEW x \in S, Distinct(s), ~Holds(s, x)
  PROVE  Distinct(Append(s, x))
<1>1. x \notin ToSet(s)
  BY DEF Holds, ToSet
<1> QED
  BY <1>1, AppendDistinct

\* An answer is counted.
LEMMA PlacedCounted ==
  ASSUME Steady, RequestsPlaced, NEW e \in evq, InTimeEffect(e) \/ LateEffect(e)
  PROVE  RequestsPlaced'
<1> DEFINE r == e.req
<1>1. TypeOK /\ e \in Answers
  BY DEF InTimeEffect, LateEffect, Handles, Answers, Steady, PoolInv
<1>2. r \in ReqIds /\ e.time \in Nat
  BY <1>1, StagesTypes
<1>3. Answers' = Answers \ {e}
  <2>1. CASE LateEffect(e) \/ ~CLOSED_LOOP
    <3>1. Handles(e, "REQUEST_COMPLETE", {})
      BY <2>1 DEF LateEffect, InTimeEffect
    <3> QED
      BY <3>1, StagesEvents
  <2>2. CASE InTimeEffect(e) /\ CLOSED_LOOP
    <3>1. PICK n : /\ Handles(e, "REQUEST_COMPLETE", {n})
                   /\ IsArrival(n, all_requests[e.req].user_id)
      BY <2>2 DEF InTimeEffect
    <3> QED
      BY <3>1, StagesEvents DEF IsArrival
  <2> QED
    BY <2>1, <2>2
<1>4. all_requests[r].completion_time = e.time /\ ~Counted(r) /\ \A f \in Answers \ {e} : f.req # r
  BY <1>1 DEF RequestsPlaced
<1>5. OnlyRequest(r) /\ all_requests'[r].completion_time = e.time
  BY <1>1, <1>2, <1>4, InTimeRequest, GivenUpRequest DEF Becomes
<1>6. ReqIds' = ReqIds /\ \A q \in ReqIds : all_requests'[q].completion_time = all_requests[q].completion_time
  BY <1>4, <1>5 DEF OnlyRequest
<1>7. \A q : Unserved(q)' <=> Unserved(q)
  BY UnservedKept DEF InTimeEffect, LateEffect, ServerKept
<1>8. completed_requests \in Seq(ReqIds) /\ timedout_requests \in Seq(ReqIds)
  BY <1>1 DEF TypeOK
<1>9. /\ \A f \in Answers : f.req \in ReqIds
      /\ \A q \in ReqIds : Counted(q) => all_requests[q].completion_time # -1
      /\ \A q \in ReqIds : ~(Holds(completed_requests, q) /\ Holds(timedout_requests, q))
      /\ Distinct(completed_requests) /\ Distinct(timedout_requests)
  BY <1>1, StagesTypes DEF RequestsPlaced
<1> HIDE DEF r
<1>10. \/ /\ Distinct(completed_requests') /\ timedout_requests' = timedout_requests
          /\ \A q : Holds(completed_requests', q) <=> Holds(completed_requests, q) \/ q = r
       \/ /\ Distinct(timedout_requests') /\ completed_requests' = completed_requests
          /\ \A q : Holds(timedout_requests', q) <=> Holds(timedout_requests, q) \/ q = r
  <2>1. CASE InTimeEffect(e)
    <3>1. completed_requests' = Append(completed_requests, r) /\ timedout_requests' = timedout_requests
      BY <2>1 DEF InTimeEffect, r
    <3> QED
      BY <1>2, <1>4, <1>8, <1>9, <3>1, HoldsAppended, DistinctAppended DEF Counted
  <2>2. CASE LateEffect(e)
    <3>1. timedout_requests' = Append(timedout_requests, r) /\ completed_requests' = completed_requests
      BY <2>2 DEF LateEffect, r
    <3> QED
      BY <1>2, <1>4, <1>8, <1>9, <3>1, HoldsAppended, DistinctAppended DEF Counted
  <2> QED
    BY <2>1, <2>2
<1>11. \A q : Counted(q)' <=> Counted(q) \/ q = r
  BY <1>10 DEF Counted, Holds
<1>12. Distinct(completed_requests') /\ Distinct(timedout_requests')
  BY <1>9, <1>10
<1>13. \A q \in ReqIds' : ~(Holds(completed_requests', q) /\ Holds(timedout_requests', q))
  BY <1>4, <1>6, <1>9, <1>10 DEF Counted
<1> HIDE DEF Counted, Unserved
<1>14. \A q \in ReqIds' : Unserved(q)' => all_requests'[q].completion_time = -1
  BY <1>6, <1>7 DEF RequestsPlaced
<1>15. \A f \in Answers' : /\ all_requests'[f.req].completion_time = f.time /\ f.time <= SIMTIME
                           /\ ~Counted(f.req)'
  BY <1>3, <1>4, <1>6, <1>9, <1>11 DEF RequestsPlaced
<1>16. \A f, g \in Answers' : f.req = g.req => f = g
  BY <1>3 DEF RequestsPlaced
<1>17. \A q \in ReqIds' : Counted(q)' => all_requests'[q].completion_time # -1
  BY <1>2, <1>4, <1>6, <1>9, <1>11
<1> QED
  BY <1>12, <1>13, <1>14, <1>15, <1>16, <1>17 DEF RequestsPlaced

\* A request is admitted, and the check of its deadline is scheduled.
LEMMA AdmittedStages ==
  ASSUME Steady, NEW e \in evq, RunsEffect(e) \/ WaitsEffect(e)
  PROVE  /\ Creates(e) /\ e.type = "USER_ARRIVAL" /\ e.time \in Nat /\ now' = e.time /\ running
         /\ Answers' = Answers
         /\ \A u : Arrivals(u)' = Arrivals(u) \ {e}
         /\ \A r \in ReqIds' : Unserved(r)' <=> Unserved(r) \/ r = NextId
         /\ \E n : IsDeadline(n) /\ Checks' = Checks \cup {n} /\ n.seq \in Nat /\ n.seq > seq_counter
         /\ \A f \in evq' \ evq : f.type # "THREAD_SLICE_END"
<1>1. Creates(e)
  BY DEF RunsEffect, WaitsEffect
<1>2. PICK N, n : /\ Handles(e, "USER_ARRIVAL", N \cup {n}) /\ IsDeadline(n)
                  /\ \A m \in N : m.type = "THREAD_SLICE_START"
  <2>1. CASE RunsEffect(e)
    <3>1. PICK x : \E S, n : /\ Handles(e, "USER_ARRIVAL", S \cup {n})
                             /\ Starting(S, x, e.time) /\ IsDeadline(n)
      BY <2>1 DEF RunsEffect
    <3>2. PICK S, n : /\ Handles(e, "USER_ARRIVAL", S \cup {n})
                      /\ Starting(S, x, e.time) /\ IsDeadline(n)
      BY <3>1
    <3>3. \A m \in S : m.type = "THREAD_SLICE_START"
      BY <3>2 DEF Starting
    <3> QED
      BY <3>2, <3>3
  <2>2. CASE WaitsEffect(e)
    <3>1. PICK n : Handles(e, "USER_ARRIVAL", {n}) /\ IsDeadline(n)
      BY <2>2 DEF WaitsEffect
    <3> DEFINE N == {}
    <3>2. {n} = N \cup {n} /\ \A m \in N : m.type = "THREAD_SLICE_START"
      OBVIOUS
    <3> HIDE DEF N
    <3>3. Handles(e, "USER_ARRIVAL", N \cup {n}) /\ IsDeadline(n)
      BY <3>1, <3>2
    <3> QED
      BY <3>2, <3>3
  <2> QED
    BY <2>1, <2>2
<1>3. e.type = "USER_ARRIVAL" /\ e.time \in Nat /\ now' = e.time /\ running
  BY <1>2 DEF Handles
<1>4. n.seq \in Nat /\ n.seq > seq_counter /\ n.type = "CHECK_TIMEOUT"
  BY <1>2 DEF Handles, New, IsDeadline
<1>5. {m \in N \cup {n} : m.type = "REQUEST_COMPLETE"} = {}
  BY <1>2, <1>4
<1>6. {m \in N \cup {n} : m.type = "CHECK_TIMEOUT"} = {n}
  BY <1>2, <1>4
<1>7. \A u : {m \in N \cup {n} : IsArrival(m, u)} = {}
  BY <1>2, <1>4 DEF IsArrival
<1>8. e \notin Answers /\ e \notin Checks
  BY <1>3 DEF Answers, Checks
<1>9. Answers' = Answers /\ Checks' = Checks \cup {n} /\ \A u : Arrivals(u)' = Arrivals(u) \ {e}
  BY <1>2, <1>5, <1>6, <1>7, <1>8, StagesEvents
<1>10. \A r \in ReqIds' : Unserved(r)' <=> Unserved(r) \/ r = NextId
  <2>1. \A r \in ReqIds' : r # NoReq
    BY DEF ReqIds, NoReq
  <2> QED
    BY <2>1, UnservedAdmitted
<1>11. \A f \in evq' \ evq : f.type # "THREAD_SLICE_END"
  BY <1>2, <1>4 DEF Handles
<1> QED
  BY <1>1, <1>2, <1>3, <1>4, <1>9, <1>10, <1>11

\* A request is dropped, and its user thinks again.
LEMMA DroppedStages ==
  ASSUME Steady, NEW e \in evq, DroppedEffect(e)
  PROVE  /\ Creates(e) /\ e.type = "USER_ARRIVAL" /\ e.time \in Nat /\ now' = e.time /\ running
         /\ Answers' = Answers /\ Checks' = Checks
         /\ \A r : Unserved(r)' <=> Unserved(r)
         /\ \E n : \A u : Arrivals(u)' = (Arrivals(u) \ {e}) \cup (IF u = e.user THEN {n} ELSE {})
         /\ \A f \in evq' \ evq : f.type # "THREAD_SLICE_END"
<1>1. PICK n : Handles(e, "USER_ARRIVAL", {n}) /\ IsArrival(n, e.user)
  BY DEF DroppedEffect
<1>2. e.type = "USER_ARRIVAL" /\ e.time \in Nat /\ now' = e.time /\ running
  BY <1>1 DEF Handles
<1>3. Answers' = Answers /\ Checks' = Checks
  <2>1. /\ {m \in {n} : m.type = "REQUEST_COMPLETE"} = {}
        /\ {m \in {n} : m.type = "CHECK_TIMEOUT"} = {}
    BY <1>1 DEF IsArrival
  <2>2. e \notin Answers /\ e \notin Checks
    BY <1>2 DEF Answers, Checks
  <2>3. /\ Answers' = (Answers \ {e}) \cup {m \in {n} : m.type = "REQUEST_COMPLETE"}
        /\ Checks' = (Checks \ {e}) \cup {m \in {n} : m.type = "CHECK_TIMEOUT"}
    BY <1>1, StagesEvents
  <2> QED
    BY <2>1, <2>2, <2>3
<1>4. \A u : Arrivals(u)' = (Arrivals(u) \ {e}) \cup (IF u = e.user THEN {n} ELSE {})
  <2>1. \A u : {m \in {n} : IsArrival(m, u)} = (IF u = e.user THEN {n} ELSE {})
    BY <1>1 DEF IsArrival
  <2>2. \A u : Arrivals(u)' = (Arrivals(u) \ {e}) \cup {m \in {n} : IsArrival(m, u)}
    BY <1>1, StagesEvents
  <2> QED
    BY <2>1, <2>2
<1>5. \A r : Unserved(r)' <=> Unserved(r)
  BY UnservedKept DEF DroppedEffect, Drops
<1>6. \A f \in evq' \ evq : f.type # "THREAD_SLICE_END"
  BY <1>1 DEF Handles, IsArrival
<1> QED
  BY <1>1, <1>2, <1>3, <1>4, <1>5, <1>6 DEF DroppedEffect

\* A thread goes on and its request stays where it is.
LEMMA ThreadStages ==
  ASSUME Steady, NEW e \in evq, StartsEffect(e) \/ AvailableEffect(e) \/ PreemptsEffect(e)
  PROVE  /\ Answers' = Answers /\ Checks' = Checks /\ \A u : Arrivals(u)' = Arrivals(u)
         /\ \A r : Unserved(r)' <=> Unserved(r)
         /\ UNCHANGED <<completed_requests, timedout_requests, thread_req>>
         /\ now' = e.time /\ running
<1>1. PICK ty, N : /\ Handles(e, ty, N) /\ ty \in ThreadTypes
                   /\ \A n \in N : n.type \in ThreadTypes
  <2>1. CASE StartsEffect(e)
    <3>1. PICK n : Handles(e, "THREAD_SLICE_START", {n}) /\ n.type = "THREAD_SLICE_END"
      BY <2>1 DEF StartsEffect
    <3> QED
      BY <3>1, ThreadKinds
  <2>2. CASE PreemptsEffect(e)
    <3>1. PICK n : Handles(e, "THREAD_SLICE_END", {n}) /\ n.type = "THREAD_AVAILABLE"
      BY <2>2 DEF PreemptsEffect
    <3> QED
      BY <3>1, ThreadKinds
  <2>3. CASE AvailableEffect(e)
    <3>1. PICK x : \E S : Handles(e, "THREAD_AVAILABLE", S) /\ Starting(S, x, e.time)
      BY <2>3 DEF AvailableEffect
    <3>2. PICK S : Handles(e, "THREAD_AVAILABLE", S) /\ Starting(S, x, e.time)
      BY <3>1
    <3> QED
      BY <3>2, ThreadKinds DEF Starting
  <2> QED
    BY <2>1, <2>2, <2>3
<1>2. \A n : n.type \in ThreadTypes =>
        n.type # "REQUEST_COMPLETE" /\ n.type # "CHECK_TIMEOUT" /\ n.type # "USER_ARRIVAL"
  BY DEF ThreadTypes, SliceTypes
<1>3. e.type \in ThreadTypes /\ now' = e.time /\ running
  BY <1>1 DEF Handles
<1>4. e \notin Answers /\ e \notin Checks /\ \A u : e \notin Arrivals(u)
  BY <1>2, <1>3 DEF Answers, Checks, Arrivals
<1>5. /\ {n \in N : n.type = "REQUEST_COMPLETE"} = {}
      /\ {n \in N : n.type = "CHECK_TIMEOUT"} = {}
      /\ \A u : {n \in N : IsArrival(n, u)} = {}
  BY <1>1, <1>2 DEF IsArrival
<1>6. Answers' = Answers /\ Checks' = Checks /\ \A u : Arrivals(u)' = Arrivals(u)
  <2>1. /\ Answers' = (Answers \ {e}) \cup {n \in N : n.type = "REQUEST_COMPLETE"}
        /\ Checks' = (Checks \ {e}) \cup {n \in N : n.type = "CHECK_TIMEOUT"}
        /\ \A u : Arrivals(u)' = (Arrivals(u) \ {e}) \cup {n \in N : IsArrival(n, u)}
    BY <1>1, StagesEvents
  <2> QED
    BY <1>4, <1>5, <2>1
<1>7. UNCHANGED <<waiting_requests, completed_requests, timedout_requests, thread_req>>
  BY DEF StartsEffect, AvailableEffect, PreemptsEffect
<1> QED
  BY <1>3, <1>6, <1>7, UnservedKept

\* A deadline is checked.
LEMMA CheckStages ==
  ASSUME Steady, NEW e \in evq, IgnoredEffect(e) \/ GivesUpEffect(e)
  PROVE  /\ Answers' = Answers /\ Checks' = Checks \ {e} /\ e \in Checks
         /\ \A r : Unserved(r)' <=> Unserved(r)
         /\ UNCHANGED <<completed_requests, timedout_requests, thread_req>>
         /\ now' = e.time /\ running
         /\ IgnoredEffect(e) => \A u : Arrivals(u)' = Arrivals(u)
         /\ GivesUpEffect(e) =>
              LET v == all_requests[e.req].user_id
              IN  \E n : \A u : Arrivals(u)' = IF u = v THEN Arrivals(u) \cup {n} ELSE Arrivals(u)
<1>1. /\ UNCHANGED <<waiting_requests, completed_requests, timedout_requests, thread_req>>
      /\ \A r : Unserved(r)' <=> Unserved(r)
  BY UnservedKept DEF IgnoredEffect, GivesUpEffect, ServerKept
<1>2. CASE IgnoredEffect(e)
  <2>1. Handles(e, "CHECK_TIMEOUT", {})
    BY <1>2 DEF IgnoredEffect
  <2>2. e \in Checks /\ now' = e.time /\ running
    BY <2>1 DEF Checks, Handles
  <2>3. Answers' = Answers /\ Checks' = Checks \ {e} /\ \A u : Arrivals(u)' = Arrivals(u)
    BY <2>1, StagesEvents
  <2>4. ~GivesUpEffect(e)
    <3>1. all_requests[e.req].service_remaining \in Nat
      BY <2>2, StagesTypes DEF Steady, PoolInv, Request
    <3> QED
      BY <1>2, <3>1, TimesAssumption DEF IgnoredEffect, GivesUpEffect
  <2>5. GivesUpEffect(e) =>
          LET v == all_requests[e.req].user_id
          IN  \E n : \A u : Arrivals(u)' = IF u = v THEN Arrivals(u) \cup {n} ELSE Arrivals(u)
    BY <2>4, Zenon
  <2>6. /\ UNCHANGED <<completed_requests, timedout_requests, thread_req>>
        /\ \A r : Unserved(r)' <=> Unserved(r)
    BY <1>1
  <2>7. IgnoredEffect(e) => \A u : Arrivals(u)' = Arrivals(u)
    BY <2>3
  <2>8. Answers' = Answers /\ Checks' = Checks \ {e}
    BY <2>3
  <2> QED
    BY <2>2, <2>5, <2>6, <2>7, <2>8, Zenon
<1>3. CASE GivesUpEffect(e)
  <2> DEFINE v == all_requests[e.req].user_id
  <2>1. PICK n : Handles(e, "CHECK_TIMEOUT", {n}) /\ IsArrival(n, v)
    BY <1>3 DEF GivesUpEffect
  <2>2. e \in Checks /\ now' = e.time /\ running
    BY <2>1 DEF Checks, Handles
  <2>3. Answers' = Answers /\ Checks' = Checks \ {e}
    <3>1. /\ Answers' = (Answers \ {e}) \cup {m \in {n} : m.type = "REQUEST_COMPLETE"}
          /\ Checks' = (Checks \ {e}) \cup {m \in {n} : m.type = "CHECK_TIMEOUT"}
          /\ e \notin Answers
      BY <2>1, StagesEvents
    <3>2. n.type = "USER_ARRIVAL"
      BY <2>1 DEF IsArrival
    <3> QED
      BY <3>1, <3>2
  <2> HIDE DEF v
  <2>4. \A u : Arrivals(u)' = IF u = v THEN Arrivals(u) \cup {n} ELSE Arrivals(u)
    <3>1. \A u : {m \in {n} : IsArrival(m, u)} = IF u = v THEN {n} ELSE {}
      BY <2>1 DEF IsArrival
    <3>2. \A u : e \notin Arrivals(u)
      BY <2>2 DEF Checks, Arrivals
    <3>3. \A u : Arrivals(u)' = (Arrivals(u) \ {e}) \cup {m \in {n} : IsArrival(m, u)}
      BY <2>1, StagesEvents
    <3> QED
      BY <3>1, <3>2, <3>3
  <2>5. ~IgnoredEffect(e)
    <3>1. all_requests[e.req].service_remaining \in Nat
      BY <2>2, StagesTypes DEF Steady, PoolInv, Request
    <3> QED
      BY <1>3, <3>1, TimesAssumption DEF IgnoredEffect, GivesUpEffect
  <2> QED
    BY <1>1, <2>2, <2>3, <2>4, <2>5 DEF v
<1> QED
  BY <1>2, <1>3

\* A request is served and its answer created; an answer is delivered.
LEMMA AnsweredStages ==
  ASSUME Steady, NEW e \in evq, CompletesEffect(e)
  PROVE  LET r == thread_req[e.thread]
         IN  /\ \E n : /\ Answers' = Answers \cup {n} /\ n.req = r /\ n.time = e.time
             /\ Checks' = Checks /\ \A u : Arrivals(u)' = Arrivals(u)
             /\ r \in ReqIds /\ Unserved(r) /\ e.type = "THREAD_SLICE_END"
             /\ \A q \in ReqIds : Unserved(q)' <=> Unserved(q) /\ q # r
             /\ OnlyRequest(r) /\ Becomes(r, 0, all_requests[r].timed_out, e.time)
             /\ UNCHANGED <<completed_requests, timedout_requests, dropped_requests>>
             /\ e.time \in Nat /\ e.time <= SIMTIME /\ now' = e.time /\ running
             /\ \A f \in evq' \ evq : f.type # "THREAD_SLICE_END"
<1> DEFINE r == thread_req[e.thread]
<1>1. PICK x : \E S, n :
        /\ Handles(e, "THREAD_SLICE_END", S \cup {n}) /\ Starting(S, x, e.time)
        /\ n.type = "REQUEST_COMPLETE" /\ n.req = r /\ n.time = e.time
  BY DEF CompletesEffect
<1>2. PICK S, n :
        /\ Handles(e, "THREAD_SLICE_END", S \cup {n}) /\ Starting(S, x, e.time)
        /\ n.type = "REQUEST_COMPLETE" /\ n.req = r /\ n.time = e.time
  BY <1>1
<1>3. /\ TypeOK /\ e.type = "THREAD_SLICE_END" /\ e.time \in Nat /\ e.time <= SIMTIME
      /\ now' = e.time /\ running
  BY <1>2 DEF Handles, Steady, PoolInv
<1>4. e.thread \in Threads /\ r \in ReqIds /\ r # NoReq /\ Unserved(r)
  BY <1>3, SliceFacts, ThreadKinds
<1>5. \A s \in S : s.type = "THREAD_SLICE_START"
  BY <1>2 DEF Starting
<1>6. /\ {m \in S \cup {n} : m.type = "REQUEST_COMPLETE"} = {n}
      /\ {m \in S \cup {n} : m.type = "CHECK_TIMEOUT"} = {}
      /\ \A u : {m \in S \cup {n} : IsArrival(m, u)} = {}
  BY <1>2, <1>5 DEF IsArrival
<1>7. /\ Answers' = Answers \cup {n} /\ Checks' = Checks /\ \A u : Arrivals(u)' = Arrivals(u)
  <2>1. e \notin Answers /\ e \notin Checks /\ \A u : e \notin Arrivals(u)
    BY <1>3 DEF Answers, Checks, Arrivals
  <2>2. /\ Answers' = (Answers \ {e}) \cup {m \in S \cup {n} : m.type = "REQUEST_COMPLETE"}
        /\ Checks' = (Checks \ {e}) \cup {m \in S \cup {n} : m.type = "CHECK_TIMEOUT"}
        /\ \A u : Arrivals(u)' = (Arrivals(u) \ {e}) \cup {m \in S \cup {n} : IsArrival(m, u)}
    BY <1>2, StagesEvents
  <2> QED
    BY <1>6, <2>1, <2>2
<1>8. \A q \in ReqIds : Unserved(q)' <=> Unserved(q) /\ q # r
  BY <1>3, <1>4, UnservedReleased, StagesTypes DEF CompletesEffect, NoReq
<1>9. OnlyRequest(r) /\ Becomes(r, 0, all_requests[r].timed_out, e.time)
  BY <1>3, <1>4, CompletesRequest
<1>10. UNCHANGED <<completed_requests, timedout_requests, dropped_requests>>
  BY DEF CompletesEffect, Releases
<1>11. \A f \in evq' \ evq : f.type # "THREAD_SLICE_END"
  BY <1>2, <1>5 DEF Handles
<1> QED
  BY <1>2, <1>3, <1>4, <1>7, <1>8, <1>9, <1>10, <1>11

LEMMA CountedStages ==
  ASSUME Steady, NEW e \in evq, InTimeEffect(e) \/ LateEffect(e)
  PROVE  /\ e \in Answers /\ Answers' = Answers \ {e} /\ Checks' = Checks
         /\ e.req \in ReqIds /\ OnlyRequest(e.req) /\ e.time \in Nat
         /\ \A r : Unserved(r)' <=> Unserved(r)
         /\ \A r : Counted(r)' <=> Counted(r) \/ r = e.req
         /\ now' = e.time /\ running /\ UNCHANGED <<dropped_requests, thread_req>>
         /\ LateEffect(e) => \A u : Arrivals(u)' = Arrivals(u)
         /\ InTimeEffect(e) /\ CLOSED_LOOP =>
              LET v == all_requests[e.req].user_id
              IN  \E n : \A u : Arrivals(u)' = IF u = v THEN Arrivals(u) \cup {n} ELSE Arrivals(u)
         /\ evq' \ evq \subseteq {f \in evq' : f.type = "USER_ARRIVAL"}
<1> DEFINE v == all_requests[e.req].user_id
<1>1. /\ TypeOK /\ e \in Answers /\ now' = e.time /\ running
      /\ UNCHANGED <<dropped_requests, thread_req, waiting_requests>>
  BY DEF InTimeEffect, LateEffect, Handles, Answers, Steady, PoolInv, ServerKept
<1>2. /\ e.req \in ReqIds /\ e.time \in Nat
      /\ completed_requests \in Seq(ReqIds) /\ timedout_requests \in Seq(ReqIds)
  BY <1>1, StagesTypes DEF TypeOK
<1>3. OnlyRequest(e.req)
  BY <1>1, <1>2, InTimeRequest, GivenUpRequest
<1>4. \A r : Unserved(r)' <=> Unserved(r)
  BY <1>1, UnservedKept
<1>5. \A r : Counted(r)' <=> Counted(r) \/ r = e.req
  <2>1. CASE InTimeEffect(e)
    <3>1. completed_requests' = Append(completed_requests, e.req) /\ timedout_requests' = timedout_requests
      BY <2>1 DEF InTimeEffect
    <3>2. \A r : Holds(completed_requests', r) <=> Holds(completed_requests, r) \/ r = e.req
      BY <1>2, <3>1, HoldsAppended
    <3> QED
      BY <3>1, <3>2 DEF Counted
  <2>2. CASE LateEffect(e)
    <3>1. timedout_requests' = Append(timedout_requests, e.req) /\ completed_requests' = completed_requests
      BY <2>2 DEF LateEffect
    <3>2. \A r : Holds(timedout_requests', r) <=> Holds(timedout_requests, r) \/ r = e.req
      BY <1>2, <3>1, HoldsAppended
    <3> QED
      BY <3>1, <3>2 DEF Counted
  <2> QED
    BY <2>1, <2>2
<1>6. ~(InTimeEffect(e) /\ LateEffect(e))
  BY DEF InTimeEffect, LateEffect
<1>7. e \notin Checks /\ \A u : e \notin Arrivals(u)
  BY <1>1 DEF Answers, Checks, Arrivals
<1>8. CASE LateEffect(e) \/ ~CLOSED_LOOP
  <2>1. Handles(e, "REQUEST_COMPLETE", {})
    BY <1>8 DEF LateEffect, InTimeEffect
  <2>2. Answers' = Answers \ {e} /\ Checks' = Checks /\ \A u : Arrivals(u)' = Arrivals(u)
    BY <1>7, <2>1, StagesEvents
  <2>3. evq' \ evq \subseteq {f \in evq' : f.type = "USER_ARRIVAL"}
    BY <2>1 DEF Handles
  <2> QED
    BY <1>1, <1>2, <1>3, <1>4, <1>5, <1>6, <1>8, <2>2, <2>3
<1>9. CASE InTimeEffect(e) /\ CLOSED_LOOP
  <2>1. PICK n : Handles(e, "REQUEST_COMPLETE", {n}) /\ IsArrival(n, v)
    BY <1>9 DEF InTimeEffect
  <2> HIDE DEF v
  <2>2. /\ {m \in {n} : m.type = "REQUEST_COMPLETE"} = {}
        /\ {m \in {n} : m.type = "CHECK_TIMEOUT"} = {}
        /\ \A u : {m \in {n} : IsArrival(m, u)} = IF u = v THEN {n} ELSE {}
    BY <2>1 DEF IsArrival
  <2>3. /\ Answers' = (Answers \ {e}) \cup {m \in {n} : m.type = "REQUEST_COMPLETE"}
        /\ Checks' = (Checks \ {e}) \cup {m \in {n} : m.type = "CHECK_TIMEOUT"}
        /\ \A u : Arrivals(u)' = (Arrivals(u) \ {e}) \cup {m \in {n} : IsArrival(m, u)}
    BY <2>1, StagesEvents
  <2>4. /\ Answers' = Answers \ {e} /\ Checks' = Checks
        /\ \A u : Arrivals(u)' = IF u = v THEN Arrivals(u) \cup {n} ELSE Arrivals(u)
    BY <1>7, <2>2, <2>3
  <2>5. evq' \ evq \subseteq {f \in evq' : f.type = "USER_ARRIVAL"}
    BY <2>1 DEF Handles, IsArrival
  <2> QED
    BY <1>1, <1>2, <1>3, <1>4, <1>5, <1>6, <1>9, <2>4, <2>5 DEF v
<1> QED
  BY <1>8, <1>9

LEMMA PlacedEffect ==
  ASSUME Steady, RequestsPlaced, NEW e \in evq, Effect(e) PROVE RequestsPlaced'
<1>0. TypeOK /\ \A r \in ReqIds : all_requests[r] \in Request
  BY StagesTypes DEF Steady, PoolInv
<1>1. CASE RunsEffect(e) \/ WaitsEffect(e) \/ DroppedEffect(e)
  <2>1. Creates(e) /\ e.time \in Nat /\ Answers' = Answers
    BY <1>1, AdmittedStages, DroppedStages
  <2>2. \A r \in ReqIds : r \in ReqIds' /\ (Unserved(r)' => Unserved(r))
    <3>1. ReqIds \subseteq ReqIds' /\ NextId \notin ReqIds
      BY <1>0, <2>1, RequestCreated
    <3> QED
      BY <1>1, <3>1, AdmittedStages, DroppedStages
  <2>3. /\ \A r \in ReqIds : all_requests'[r].completion_time = all_requests[r].completion_time
        /\ \A r \in ReqIds' \ ReqIds : all_requests'[r].completion_time = -1
    BY <1>0, <2>1, RequestCreated
  <2>4. UNCHANGED <<completed_requests, timedout_requests>>
    BY <2>1 DEF Creates
  <2> QED
    BY <1>0, <2>1, <2>2, <2>3, <2>4, PlacedKept
<1>2. CASE StartsEffect(e) \/ AvailableEffect(e) \/ PreemptsEffect(e)
  <2>1. ReqIds' = ReqIds /\ \A r \in ReqIds : all_requests'[r].completion_time = all_requests[r].completion_time
    <3>1. CASE StartsEffect(e) \/ AvailableEffect(e)
      BY <3>1 DEF StartsEffect, AvailableEffect, ReqIds
    <3>2. CASE PreemptsEffect(e)
      <4> DEFINE r == thread_req[e.thread]
      <4>1. e.type \in ThreadTypes
        BY <3>2, ThreadKinds DEF PreemptsEffect, Handles
      <4>2. r \in ReqIds
        BY <4>1, SliceFacts
      <4>3. /\ OnlyRequest(r)
            /\ Becomes(r, LeftAfter(e), all_requests[r].timed_out, all_requests[r].completion_time)
        BY <1>0, <3>2, <4>2, PreemptsRequest
      <4> HIDE DEF r
      <4> QED
        BY <4>3 DEF OnlyRequest, Becomes
    <3> QED
      BY <1>2, <3>1, <3>2
  <2>2. /\ Answers' = Answers /\ UNCHANGED <<completed_requests, timedout_requests>>
        /\ \A r : Unserved(r)' <=> Unserved(r)
    BY <1>2, ThreadStages
  <2> QED
    BY <1>0, <2>1, <2>2, PlacedKept
<1>3. CASE IgnoredEffect(e) \/ GivesUpEffect(e)
  <2>1. /\ Answers' = Answers /\ UNCHANGED <<completed_requests, timedout_requests>>
        /\ \A r : Unserved(r)' <=> Unserved(r)
        /\ e \in Checks
    BY <1>3, CheckStages
  <2>2. e.req \in ReqIds
    BY <1>0, <2>1, StagesTypes
  <2>3. ReqIds' = ReqIds /\ \A r \in ReqIds : all_requests'[r].completion_time = all_requests[r].completion_time
    <3>1. CASE IgnoredEffect(e)
      BY <3>1 DEF IgnoredEffect, ReqIds
    <3>2. CASE GivesUpEffect(e)
      BY <1>0, <2>2, <3>2, GivenUpRequest DEF OnlyRequest, Becomes
    <3> QED
      BY <1>3, <3>1, <3>2
  <2> QED
    BY <1>0, <2>1, <2>3, PlacedKept
<1> QED
  BY <1>1, <1>2, <1>3, PlacedAnswered, PlacedCounted DEF Effect

LEMMA PlacedNext ==
  ASSUME Steady, EventsOrdered, RequestsPlaced, [Next]_vars PROVE RequestsPlaced'
<1>1. CASE LoopEnds
  <2>1. TypeOK /\ \A f \in Answers : f.time <= SIMTIME /\ f.time \in Nat
    BY StagesTypes DEF RequestsPlaced, Steady, PoolInv
  <2>2. evq' = evq \/ \E f \in evq : f.time > SIMTIME /\ evq' = evq \ {f}
    BY <1>1 DEF LoopEnds
  <2>3. Answers' = Answers
    <3>1. CASE evq' = evq
      BY <3>1 DEF Answers
    <3>2. CASE \E f \in evq : f.time > SIMTIME /\ evq' = evq \ {f}
      <4>1. PICK f \in evq : f.time > SIMTIME /\ evq' = evq \ {f}
        BY <3>2
      <4>2. f \notin Answers
        BY <2>1, <4>1, TimesAssumption
      <4> QED
        BY <4>1, <4>2 DEF Answers
    <3> QED
      BY <2>2, <3>1, <3>2
  <2>4. UNCHANGED <<all_requests, completed_requests, timedout_requests, waiting_requests, thread_req>>
    BY <1>1 DEF LoopEnds
  <2> QED
    BY <2>1, <2>3, <2>4, UnservedKept, PlacedKept DEF ReqIds
<1>2. CASE UNCHANGED vars
  <2>1. UNCHANGED <<evq, all_requests, completed_requests, timedout_requests, waiting_requests, thread_req>>
    BY <1>2 DEF vars
  <2>2. Answers' = Answers
    BY <2>1 DEF Answers
  <2> QED
    BY <2>1, <2>2, UnservedKept, PlacedKept DEF ReqIds, Steady, PoolInv
<1> QED
  BY <1>1, <1>2, StepHasEffect, PlacedEffect

LEMMA PlacedInit == Init => RequestsPlaced
<1> SUFFICES ASSUME Init PROVE RequestsPlaced
  OBVIOUS
<1>1. /\ all_requests = <<>> /\ completed_requests = <<>> /\ timedout_requests = <<>>
      /\ ReqIds = {}
  BY DEF Init, ReqIds
<1>2. Answers = {}
  BY DEF Init, Answers, UserArrival, Ev
<1>3. Distinct(completed_requests) /\ Distinct(timedout_requests)
  BY <1>1 DEF Distinct
<1> QED
  BY <1>1, <1>2, <1>3 DEF RequestsPlaced

LEMMA PlacedInvariant == Spec => []RequestsPlaced
<1>1. Steady /\ EventsOrdered /\ RequestsPlaced /\ [Next]_vars => RequestsPlaced'
  BY PlacedNext
<1> QED
  BY <1>1, PlacedInit, SteadyInvariant, EventsInvariant, PTL DEF Spec

-----------------------------------------------------------------------------
(* A request is in one place. *)

Placed(r) == Unserved(r) \/ (\E e \in Answers : e.req = r) \/ Counted(r)

LEMMA OnePlaceOfRequest ==
  ASSUME Steady, RequestsPlaced, NEW r \in ReqIds
  PROVE  /\ Placed(r) => \E p : PlacesOfRequest(r) = {p}
         /\ ~Placed(r) => PlacesOfRequest(r) = {}
<1> DEFINE W == Positions(waiting_requests, r)
           T == {th \in Threads : thread_req[th] = r}
           A == {e \in Answers : e.req = r}
           C == Positions(completed_requests, r)
           D == Positions(timedout_requests, r)
<1>0. TypeOK /\ r \in Nat \ {0} /\ r # NoReq
  BY DEF Steady, PoolInv, ReqIds, NoReq
<1>1. \A p : p \in PlacesOfRequest(r) <=>
        \/ \E i \in W : p = <<"waiting", i>>
        \/ \E th \in T : p = <<"thread", th>>
        \/ \E e \in A : p = <<"answer", e.seq>>
        \/ \E i \in C : p = <<"completed", i>>
        \/ \E i \in D : p = <<"timedout", i>>
  BY DEF PlacesOfRequest, Answers
<1>2. /\ Unserved(r) <=> W # {} \/ T # {}
      /\ Counted(r) <=> C # {} \/ D # {}
      /\ (\E e \in Answers : e.req = r) <=> A # {}
  BY DEF Unserved, Counted, Holds, Positions
<1>3. \A i, j \in W : i = j
  <2>1. /\ \A i \in DOMAIN waiting_requests : \A j \in 1 .. i - 1 : waiting_requests[j] < waiting_requests[i]
        /\ DOMAIN waiting_requests \subseteq Nat \ {0}
    BY <1>0, LenProperties DEF Steady, PoolInv, FifoAdmission, TypeOK
  <2>2. \A i, j \in W : ~(j < i)
    BY <1>0, <2>1 DEF Positions
  <2> QED
    BY <2>1, <2>2 DEF Positions
<1>4. \A a, b \in T : a = b
  BY <1>0 DEF Steady, PoolInv, PoolExact
<1>5. W = {} \/ T = {}
  <2>1. \A i \in DOMAIN waiting_requests, th \in Threads : thread_req[th] < waiting_requests[i]
    BY DEF Steady, PoolInv, FifoAdmission
  <2> QED
    BY <1>0, <2>1 DEF Positions
<1>6. /\ \A e, f \in A : e = f
      /\ A # {} => C = {} /\ D = {}
      /\ A # {} => all_requests[r].completion_time # -1
  <2>1. \A e \in A : ~Counted(r) /\ all_requests[r].completion_time = e.time /\ e.time \in Nat
    BY <1>0, StagesTypes DEF RequestsPlaced
  <2>2. \A e, f \in A : e = f
    BY DEF RequestsPlaced
  <2> HIDE DEF A, C, D
  <2> QED
    BY <1>2, <2>1, <2>2
<1>7. /\ \A i, j \in C : i = j
      /\ \A i, j \in D : i = j
      /\ C = {} \/ D = {}
      /\ C # {} \/ D # {} => all_requests[r].completion_time # -1
  BY DEF RequestsPlaced, Distinct, Positions, Counted, Holds
<1>8. W # {} \/ T # {} => all_requests[r].completion_time = -1
  BY <1>2 DEF RequestsPlaced
<1> HIDE DEF W, T, A, C, D
<1>9. CASE W # {}
  <2>1. PICK i \in W : W = {i}
    BY <1>3, <1>9
  <2>2. \A p : p \in PlacesOfRequest(r) <=> p = <<"waiting", i>>
    BY <1>1, <1>5, <1>6, <1>7, <1>8, <1>9, <2>1
  <2>3. PlacesOfRequest(r) = {<<"waiting", i>>}
    BY <2>2
  <2> QED
    BY <1>2, <1>9, <2>3 DEF Placed
<1>10. CASE T # {}
  <2>1. PICK th \in T : T = {th}
    BY <1>4, <1>10
  <2>2. \A p : p \in PlacesOfRequest(r) <=> p = <<"thread", th>>
    BY <1>1, <1>5, <1>6, <1>7, <1>8, <1>10, <2>1
  <2>3. PlacesOfRequest(r) = {<<"thread", th>>}
    BY <2>2
  <2> QED
    BY <1>2, <1>10, <2>3 DEF Placed
<1>11. CASE A # {}
  <2>1. PICK e \in A : A = {e}
    BY <1>6, <1>11
  <2>2. \A p : p \in PlacesOfRequest(r) <=> p = <<"answer", e.seq>>
    BY <1>1, <1>6, <1>8, <1>11, <2>1
  <2>3. PlacesOfRequest(r) = {<<"answer", e.seq>>}
    BY <2>2
  <2> QED
    BY <1>2, <1>11, <2>3 DEF Placed
<1>12. CASE C # {}
  <2>1. PICK i \in C : C = {i}
    BY <1>7, <1>12
  <2>2. \A p : p \in PlacesOfRequest(r) <=> p = <<"completed", i>>
    BY <1>1, <1>6, <1>7, <1>8, <1>12, <2>1
  <2>3. PlacesOfRequest(r) = {<<"completed", i>>}
    BY <2>2
  <2> QED
    BY <1>2, <1>12, <2>3 DEF Placed
<1>13. CASE D # {}
  <2>1. PICK i \in D : D = {i}
    BY <1>7, <1>13
  <2>2. \A p : p \in PlacesOfRequest(r) <=> p = <<"timedout", i>>
    BY <1>1, <1>6, <1>7, <1>8, <1>13, <2>1
  <2>3. PlacesOfRequest(r) = {<<"timedout", i>>}
    BY <2>2
  <2> QED
    BY <1>2, <1>13, <2>3 DEF Placed
<1>14. CASE W = {} /\ T = {} /\ A = {} /\ C = {} /\ D = {}
  <2>1. PlacesOfRequest(r) = {}
    BY <1>1, <1>14
  <2> QED
    BY <1>2, <1>14, <2>1 DEF Placed
<1> QED
  BY <1>9, <1>10, <1>11, <1>12, <1>13, <1>14

\* The requests that are nowhere.
Gone == {r \in ReqIds : ~Placed(r)}
GoneCounted == IsFiniteSet(Gone) /\ Cardinality(Gone) = dropped_requests

LEMMA GoneKept ==
  ASSUME TypeOK, dropped_requests' = dropped_requests, ReqIds \subseteq ReqIds',
         \A r \in ReqIds : Placed(r)' <=> Placed(r),
         \A r \in ReqIds' \ ReqIds : Placed(r)'
  PROVE  GoneCounted => GoneCounted'
<1> HIDE DEF Placed
<1>1. Gone' = Gone
  BY DEF Gone
<1> QED
  BY <1>1 DEF GoneCounted

\* Only a dropped request joins them.
LEMMA GoneEffect ==
  ASSUME Steady, RequestsPlaced, GoneCounted, NEW e \in evq, Effect(e) PROVE GoneCounted'
<1>0. TypeOK
  BY DEF Steady, PoolInv
<1>1. CASE RunsEffect(e) \/ WaitsEffect(e)
  <2>1. /\ Creates(e) /\ e.time \in Nat /\ Answers' = Answers
        /\ \A r \in ReqIds' : Unserved(r)' <=> Unserved(r) \/ r = NextId
    BY <1>1, AdmittedStages
  <2>2. ReqIds' = ReqIds \cup {NextId} /\ NextId \notin ReqIds
    BY <1>0, <2>1, RequestCreated
  <2>3. dropped_requests' = dropped_requests
    BY <1>1 DEF RunsEffect, WaitsEffect, Admits, Queues
  <2>4. \A r : Counted(r)' <=> Counted(r)
    BY <2>1 DEF Creates, Counted, Holds
  <2> HIDE DEF Unserved, Counted
  <2>5. /\ \A r \in ReqIds : Placed(r)' <=> Placed(r)
        /\ \A r \in ReqIds' \ ReqIds : Placed(r)'
    BY <2>1, <2>2, <2>4 DEF Placed
  <2> QED
    BY <1>0, <2>2, <2>3, <2>5, GoneKept
<1>2. CASE DroppedEffect(e)
  <2>1. /\ Creates(e) /\ e.time \in Nat /\ Answers' = Answers
        /\ \A r : Unserved(r)' <=> Unserved(r)
    BY <1>2, DroppedStages
  <2>2. ReqIds' = ReqIds \cup {NextId} /\ NextId \notin ReqIds /\ NextId \in Nat \ {0}
    BY <1>0, <2>1, RequestCreated
  <2>3. dropped_requests' = dropped_requests + 1
    BY <1>2 DEF DroppedEffect, Drops
  <2>4. \A r : Counted(r)' <=> Counted(r)
    BY <2>1 DEF Creates, Counted, Holds
  <2>5. NextId # NoReq
    BY <2>2 DEF NoReq
  <2>6. ~Unserved(NextId) /\ ~Counted(NextId) /\ \A f \in Answers : f.req # NextId
    BY <1>0, <2>2, <2>5, StagesTypes
  <2> HIDE DEF Unserved, Counted
  <2>7. \A r : Placed(r)' <=> Placed(r)
    BY <2>1, <2>4 DEF Placed
  <2>8. ~Placed(NextId)
    BY <2>6 DEF Placed
  <2> HIDE DEF Placed
  <2>9. Gone' = Gone \cup {NextId} /\ NextId \notin Gone
    BY <2>2, <2>7, <2>8 DEF Gone
  <2> HIDE DEF Gone
  <2>10. IsFiniteSet(Gone \cup {NextId}) /\ Cardinality(Gone \cup {NextId}) = Cardinality(Gone) + 1
    BY <2>9, FS_AddElement DEF GoneCounted
  <2> QED
    BY <2>3, <2>9, <2>10 DEF GoneCounted
<1>3. CASE StartsEffect(e) \/ AvailableEffect(e) \/ PreemptsEffect(e) \/ IgnoredEffect(e) \/ GivesUpEffect(e)
  <2>1. /\ Answers' = Answers /\ UNCHANGED <<completed_requests, timedout_requests>>
        /\ \A r : Unserved(r)' <=> Unserved(r)
    BY <1>3, ThreadStages, CheckStages
  <2>2. dropped_requests' = dropped_requests
    BY <1>3 DEF StartsEffect, AvailableEffect, PreemptsEffect, IgnoredEffect, GivesUpEffect, ServerKept
  <2>3. ReqIds' = ReqIds
    <3>1. CASE StartsEffect(e) \/ AvailableEffect(e) \/ IgnoredEffect(e)
      BY <3>1 DEF StartsEffect, AvailableEffect, IgnoredEffect, ReqIds
    <3>2. CASE PreemptsEffect(e)
      <4>1. e.type \in ThreadTypes
        BY <3>2, ThreadKinds DEF PreemptsEffect, Handles
      <4> QED
        BY <1>0, <3>2, <4>1, SliceFacts, PreemptsRequest DEF OnlyRequest
    <3>3. CASE GivesUpEffect(e)
      <4>1. e.req \in ReqIds
        BY <1>0, <3>3, CheckStages, StagesTypes
      <4> QED
        BY <1>0, <3>3, <4>1, GivenUpRequest DEF OnlyRequest
    <3> QED
      BY <1>3, <3>1, <3>2, <3>3
  <2>4. \A r : Counted(r)' <=> Counted(r)
    BY <2>1 DEF Counted, Holds
  <2> HIDE DEF Unserved, Counted
  <2>5. \A r \in ReqIds : Placed(r)' <=> Placed(r)
    BY <2>1, <2>4 DEF Placed
  <2> QED
    BY <1>0, <2>2, <2>3, <2>5, GoneKept
<1>4. CASE CompletesEffect(e)
  <2> DEFINE q == thread_req[e.thread]
  <2>1. /\ \E n : Answers' = Answers \cup {n} /\ n.req = q
        /\ q \in ReqIds /\ Unserved(q)
        /\ \A r \in ReqIds : Unserved(r)' <=> Unserved(r) /\ r # q
        /\ OnlyRequest(q)
        /\ UNCHANGED <<completed_requests, timedout_requests, dropped_requests>>
    BY <1>4, AnsweredStages
  <2>2. \A r : Counted(r)' <=> Counted(r)
    BY <2>1 DEF Counted, Holds
  <2> HIDE DEF q, Unserved, Counted
  <2>3. ReqIds' = ReqIds
    BY <2>1 DEF OnlyRequest
  <2>4. \A r \in ReqIds : Placed(r)' <=> Placed(r)
    BY <2>1, <2>2 DEF Placed
  <2> QED
    BY <1>0, <2>1, <2>3, <2>4, GoneKept
<1>5. CASE InTimeEffect(e) \/ LateEffect(e)
  <2>1. /\ e \in Answers /\ Answers' = Answers \ {e} /\ OnlyRequest(e.req)
        /\ \A r : Unserved(r)' <=> Unserved(r)
        /\ \A r : Counted(r)' <=> Counted(r) \/ r = e.req
        /\ dropped_requests' = dropped_requests
    BY <1>5, CountedStages
  <2>2. ReqIds' = ReqIds
    BY <2>1 DEF OnlyRequest
  <2> HIDE DEF Unserved, Counted
  <2>3. \A r \in ReqIds : Placed(r)' <=> Placed(r)
    BY <2>1 DEF Placed
  <2> QED
    BY <1>0, <2>1, <2>2, <2>3, GoneKept
<1> QED
  BY <1>1, <1>2, <1>3, <1>4, <1>5 DEF Effect

LEMMA GoneNext ==
  ASSUME Steady, RequestsPlaced, GoneCounted, [Next]_vars PROVE GoneCounted'
<1>1. TypeOK /\ \A f \in Answers : f.time <= SIMTIME /\ f.time \in Nat
  BY StagesTypes DEF RequestsPlaced, Steady, PoolInv
<1>2. CASE LoopEnds \/ UNCHANGED vars
  <2>1. /\ UNCHANGED <<all_requests, completed_requests, timedout_requests,
                       waiting_requests, thread_req, dropped_requests>>
        /\ evq' = evq \/ \E f \in evq : f.time > SIMTIME /\ evq' = evq \ {f}
    BY <1>2 DEF LoopEnds, vars
  <2>2. Answers' = Answers
    <3>1. CASE evq' = evq
      BY <3>1 DEF Answers
    <3>2. CASE \E f \in evq : f.time > SIMTIME /\ evq' = evq \ {f}
      <4>1. PICK f \in evq : f.time > SIMTIME /\ evq' = evq \ {f}
        BY <3>2
      <4>2. f \notin Answers
        BY <1>1, <4>1, TimesAssumption
      <4> QED
        BY <4>1, <4>2 DEF Answers
    <3> QED
      BY <2>1, <3>1, <3>2
  <2>3. ReqIds' = ReqIds /\ \A r : Counted(r)' <=> Counted(r)
    BY <2>1 DEF ReqIds, Counted, Holds
  <2>4. \A r : Unserved(r)' <=> Unserved(r)
    BY <2>1, UnservedKept
  <2> HIDE DEF Unserved, Counted
  <2>5. \A r \in ReqIds : Placed(r)' <=> Placed(r)
    BY <2>2, <2>3, <2>4 DEF Placed
  <2> QED
    BY <1>1, <2>1, <2>3, <2>5, GoneKept
<1> QED
  BY <1>2, StepHasEffect, GoneEffect

\* Every request waits, or is with one thread, or is being answered, or is
\* counted exactly once, and the ones that are nowhere are as many as
\* dropped_requests: the counts of the report add up to the requests sent,
\* whatever the policy, the sizes and the times.
THEOREM RequestsAccountedFor == Spec => []RequestInOnePlace
<1>1. Init => GoneCounted
  <2> SUFFICES ASSUME Init PROVE GoneCounted
    OBVIOUS
  <2>1. Gone = {} /\ dropped_requests = 0
    BY DEF Init, Gone, ReqIds
  <2> QED
    BY <2>1, FS_EmptySet DEF GoneCounted
<1>2. Steady /\ RequestsPlaced /\ GoneCounted /\ [Next]_vars => GoneCounted'
  BY GoneNext
<1>3. ASSUME Steady, RequestsPlaced, GoneCounted PROVE RequestInOnePlace
  <2>1. \A r \in ReqIds : Cardinality(PlacesOfRequest(r)) <= 1
    <3> TAKE r \in ReqIds
    <3>1. PlacesOfRequest(r) = {} \/ \E p : PlacesOfRequest(r) = {p}
      BY <1>3, OnePlaceOfRequest
    <3>2. Cardinality(PlacesOfRequest(r)) = 0 \/ Cardinality(PlacesOfRequest(r)) = 1
      BY <3>1, FS_EmptySet, FS_Singleton
    <3> QED
      BY <3>2
  <2>2. \A r \in ReqIds : PlacesOfRequest(r) = {} <=> ~Placed(r)
    BY <1>3, OnePlaceOfRequest
  <2>3. {r \in ReqIds : PlacesOfRequest(r) = {}} = Gone
    BY <2>2 DEF Gone
  <2> QED
    BY <1>3, <2>1, <2>3 DEF RequestInOnePlace, GoneCounted
<1>4. Steady /\ RequestsPlaced /\ GoneCounted => RequestInOnePlace
  BY <1>3
<1> QED
  BY <1>1, <1>2, <1>4, SteadyInvariant, PlacedInvariant, PTL DEF Spec

-----------------------------------------------------------------------------
(* The slices in flight. *)

\* Only the start of a slice creates its end.
LEMMA SliceEnds ==
  ASSUME Steady, NEW e \in evq, Effect(e), NEW f \in evq', f.type = "THREAD_SLICE_END"
  PROVE  \/ f \in evq \ {e}
         \/ /\ StartsEffect(e) /\ f.thread = e.thread /\ f.seq \in Nat /\ f.seq > seq_counter
            /\ f.slice_len = Shorter(QUANTUM, all_requests[thread_req[e.thread]].service_remaining)
            /\ f.time = e.time + f.slice_len
<1>1. ASSUME NEW ty, NEW N, Handles(e, ty, N), \A n \in N : n.type # "THREAD_SLICE_END"
      PROVE  f \in evq \ {e}
  BY <1>1 DEF Handles
<1>2. CASE RunsEffect(e)
  <2>1. PICK x : \E S, n : /\ Handles(e, "USER_ARRIVAL", S \cup {n})
                           /\ Starting(S, x, e.time) /\ IsDeadline(n)
    BY <1>2 DEF RunsEffect
  <2>2. PICK S, n : /\ Handles(e, "USER_ARRIVAL", S \cup {n})
                    /\ Starting(S, x, e.time) /\ IsDeadline(n)
    BY <2>1
  <2>3. \A m \in S \cup {n} : m.type # "THREAD_SLICE_END"
    BY <2>2 DEF Starting, IsDeadline
  <2> QED
    BY <1>1, <2>2, <2>3
<1>3. CASE CompletesEffect(e)
  <2>1. PICK x : \E S, n : /\ Handles(e, "THREAD_SLICE_END", S \cup {n})
                           /\ Starting(S, x, e.time) /\ n.type = "REQUEST_COMPLETE"
    BY <1>3 DEF CompletesEffect
  <2>2. PICK S, n : /\ Handles(e, "THREAD_SLICE_END", S \cup {n})
                    /\ Starting(S, x, e.time) /\ n.type = "REQUEST_COMPLETE"
    BY <2>1
  <2>3. \A m \in S \cup {n} : m.type # "THREAD_SLICE_END"
    BY <2>2 DEF Starting
  <2> QED
    BY <1>1, <2>2, <2>3
<1>4. CASE AvailableEffect(e)
  <2>1. PICK x : \E S : Handles(e, "THREAD_AVAILABLE", S) /\ Starting(S, x, e.time)
    BY <1>4 DEF AvailableEffect
  <2>2. PICK S : Handles(e, "THREAD_AVAILABLE", S) /\ Starting(S, x, e.time)
    BY <2>1
  <2>3. \A m \in S : m.type # "THREAD_SLICE_END"
    BY <2>2 DEF Starting
  <2> QED
    BY <1>1, <2>2, <2>3
<1>5. CASE PreemptsEffect(e)
  <2>1. PICK n : Handles(e, "THREAD_SLICE_END", {n}) /\ n.type = "THREAD_AVAILABLE"
    BY <1>5 DEF PreemptsEffect
  <2> QED
    BY <1>1, <2>1
<1>6. CASE WaitsEffect(e) \/ DroppedEffect(e) \/ InTimeEffect(e)
             \/ LateEffect(e) \/ IgnoredEffect(e) \/ GivesUpEffect(e)
  <2>1. PICK ty, N : Quiet(e, ty, N)
    BY <1>6, QuietEffects
  <2>2. \A n \in N : n.type # "THREAD_SLICE_END"
    BY <2>1, ThreadKinds DEF Quiet
  <2> QED
    BY <1>1, <2>1, <2>2 DEF Quiet
<1>7. CASE StartsEffect(e)
  <2>1. PICK n :
          /\ Handles(e, "THREAD_SLICE_START", {n})
          /\ n.type = "THREAD_SLICE_END" /\ n.thread = e.thread
          /\ n.slice_len = Shorter(QUANTUM, all_requests[thread_req[e.thread]].service_remaining)
          /\ n.time = e.time + n.slice_len
    BY <1>7 DEF StartsEffect
  <2>2. n.seq \in Nat /\ n.seq > seq_counter
    BY <2>1 DEF Handles, New
  <2> QED
    BY <1>7, <2>1, <2>2 DEF Handles
<1> QED
  BY <1>2, <1>3, <1>4, <1>5, <1>6, <1>7 DEF Effect

\* The threads of the other events keep their requests.
LEMMA OthersServed ==
  ASSUME Steady, NEW e \in evq, Effect(e), NEW f \in ThreadEvs, f # e
  PROVE  /\ f.thread \in Threads /\ thread_req'[f.thread] = thread_req[f.thread]
         /\ thread_req[f.thread] \in ReqIds /\ Unserved(thread_req[f.thread])
         /\ e.type \in ThreadTypes => e.thread # f.thread /\ thread_req[f.thread] # thread_req[e.thread]
<1>1. /\ f.thread \in Threads /\ thread_req[f.thread] \in ReqIds /\ thread_req[f.thread] # NoReq
      /\ Unserved(thread_req[f.thread]) /\ f \in evq /\ f.type \in ThreadTypes
  BY SliceFacts DEF ThreadEvs
<1>2. ASSUME e.type \in ThreadTypes
      PROVE  e.thread # f.thread /\ thread_req[f.thread] # thread_req[e.thread] /\ e.thread \in Threads
  BY <1>1, <1>2, SliceFacts
<1>3. CASE RunsEffect(e)
  <2>1. thread_req' = [thread_req EXCEPT ![Head(free_threads)] = NextId] /\ free_threads # <<>>
    BY <1>3 DEF RunsEffect, Admits
  <2>2. thread_req[Head(free_threads)] = NoReq /\ DOMAIN thread_req = Threads
    BY <2>1, PoolHead DEF Steady, PoolInv, TypeOK
  <2> QED
    BY <1>1, <1>2, <2>1, <2>2
<1>4. CASE CompletesEffect(e)
  <2>1. e.type \in ThreadTypes /\ Releases(e.thread)
    BY <1>4, ThreadKinds DEF CompletesEffect, Handles
  <2>2. \A a \in Threads \ {e.thread} : thread_req'[a] = thread_req[a]
    BY <1>2, <2>1, ReleaseFacts DEF Steady
  <2> QED
    BY <1>1, <1>2, <2>1, <2>2
<1>5. CASE ~RunsEffect(e) /\ ~CompletesEffect(e)
  <2>1. thread_req' = thread_req
    BY <1>5 DEF Effect, WaitsEffect, Queues, DroppedEffect, Drops, StartsEffect, PreemptsEffect,
                AvailableEffect, InTimeEffect, LateEffect, IgnoredEffect, GivesUpEffect, ServerKept
  <2> QED
    BY <1>1, <1>2, <2>1
<1> QED
  BY <1>3, <1>4, <1>5

\* The request of a slice that ends is served or has received a quantum more.
LEMMA SliceReceived ==
  ASSUME Steady, WholeSlices, NEW e \in evq, e.type = "THREAD_SLICE_END", LeftAfter(e) > DoneEps,
         NEW r, r = thread_req[e.thread]
  PROVE  /\ e.slice_len = QUANTUM /\ LeftAfter(e) = all_requests[r].service_remaining - QUANTUM
         /\ \A k \in Nat : Received(r, k) =>
              LeftAfter(e) = all_requests[r].service_total - (k + 1) * QUANTUM
<1>1. r \in ReqIds
  BY SliceFacts, ThreadKinds
<1>2. all_requests[r].service_remaining \in Nat /\ all_requests[r].service_total \in Nat
  BY <1>1, StagesTypes DEF Steady, PoolInv, Request
<1>3. e.slice_len = Shorter(QUANTUM, all_requests[r].service_remaining)
  BY DEF WholeSlices
<1>4. LeftAfter(e) = all_requests[r].service_remaining - e.slice_len
  BY DEF LeftAfter
<1>5. e.slice_len = QUANTUM
  BY <1>2, <1>3, <1>4, TimesAssumption DEF Shorter
<1>6. ASSUME NEW k \in Nat, Received(r, k)
      PROVE  LeftAfter(e) = all_requests[r].service_total - (k + 1) * QUANTUM
  <2> DEFINE a == k * QUANTUM
             b == (k + 1) * QUANTUM
  <2>1. a \in Nat /\ b = a + QUANTUM
    BY TimesAssumption
  <2>2. all_requests[r].service_remaining = all_requests[r].service_total - a
    BY <1>6 DEF Received
  <2> HIDE DEF a, b
  <2>3. LeftAfter(e) = all_requests[r].service_total - b
    BY <1>2, <1>4, <1>5, <2>1, <2>2, TimesAssumption
  <2> QED
    BY <2>3 DEF b
<1> QED
  BY <1>4, <1>5, <1>6

\* The request the event e is about.
Subject(e) == IF e.type \in ThreadTypes THEN thread_req[e.thread] ELSE e.req

\* Only the request of the event changes, and never in what it was sent with.
LEMMA SubjectOnly ==
  ASSUME Steady, NEW e \in evq, Effect(e)
  PROVE  /\ ReqIds \subseteq ReqIds'
         /\ \A q \in ReqIds : LET a == all_requests[q]
                                  b == all_requests'[q]
                              IN  /\ b.user_id = a.user_id /\ b.arrival_time = a.arrival_time
                                  /\ b.service_total = a.service_total
                                  /\ b.timeout_deadline = a.timeout_deadline
                                  /\ q # Subject(e) => b = a
<1>0. TypeOK
  BY DEF Steady, PoolInv
<1>1. CASE RunsEffect(e) \/ WaitsEffect(e) \/ DroppedEffect(e)
  <2>1. Creates(e) /\ e.time \in Nat
    BY <1>1, AdmittedStages, DroppedStages
  <2> QED
    BY <1>0, <2>1, RequestCreated
<1>2. CASE StartsEffect(e) \/ AvailableEffect(e) \/ IgnoredEffect(e)
  BY <1>2 DEF StartsEffect, AvailableEffect, IgnoredEffect, ReqIds
<1>3. ASSUME NEW r \in ReqIds, r = Subject(e), OnlyRequest(r),
             NEW a, NEW b, NEW c, Becomes(r, a, b, c)
      PROVE  /\ ReqIds' = ReqIds
             /\ \A q \in ReqIds : /\ all_requests'[q].user_id = all_requests[q].user_id
                                  /\ all_requests'[q].arrival_time = all_requests[q].arrival_time
                                  /\ all_requests'[q].service_total = all_requests[q].service_total
                                  /\ all_requests'[q].timeout_deadline = all_requests[q].timeout_deadline
                                  /\ q # Subject(e) => all_requests'[q] = all_requests[q]
  BY <1>3 DEF OnlyRequest, Becomes
<1>4. CASE CompletesEffect(e) \/ PreemptsEffect(e)
  <2> DEFINE r == thread_req[e.thread]
  <2>1. e.type \in ThreadTypes
    BY <1>4, ThreadKinds DEF CompletesEffect, PreemptsEffect, Handles
  <2>2. r \in ReqIds /\ r = Subject(e)
    BY <2>1, SliceFacts DEF Subject
  <2>3. OnlyRequest(r) /\ \E a, b, c : Becomes(r, a, b, c)
    BY <1>0, <1>4, <2>2, CompletesRequest, PreemptsRequest
  <2> QED
    BY <1>3, <2>2, <2>3
<1>5. CASE InTimeEffect(e) \/ LateEffect(e) \/ GivesUpEffect(e)
  <2>1. e \in Answers \cup Checks
    BY <1>5 DEF InTimeEffect, LateEffect, GivesUpEffect, Handles, Answers, Checks
  <2>2. e.req \in ReqIds /\ e.type \notin ThreadTypes
    BY <1>0, <2>1, StagesTypes DEF Answers, Checks, ThreadTypes, SliceTypes
  <2>3. e.req = Subject(e)
    BY <2>2 DEF Subject
  <2>4. OnlyRequest(e.req) /\ \E a, b, c : Becomes(e.req, a, b, c)
    BY <1>0, <1>5, <2>2, InTimeRequest, GivenUpRequest
  <2> QED
    BY <1>3, <2>2, <2>3, <2>4
<1> QED
  BY <1>1, <1>2, <1>4, <1>5 DEF Effect

\* What a request still needs changes only when a slice of it ends.
LEMMA RemainingKept ==
  ASSUME Steady, NEW e \in evq, Effect(e), NEW q \in ReqIds,
         e.type = "THREAD_SLICE_END" => q # thread_req[e.thread]
  PROVE  all_requests'[q].service_remaining = all_requests[q].service_remaining
<1>0. TypeOK
  BY DEF Steady, PoolInv
<1>1. CASE q # Subject(e)
  BY <1>1, SubjectOnly
<1>2. CASE q = Subject(e) /\ e.type \in ThreadTypes
  <2>1. e.type # "THREAD_SLICE_END"
    BY <1>2 DEF Subject
  <2>2. ~CompletesEffect(e) /\ ~PreemptsEffect(e) /\ ~RunsEffect(e) /\ ~WaitsEffect(e) /\ ~DroppedEffect(e)
    BY <1>2, <2>1, AdmittedStages, DroppedStages DEF CompletesEffect, PreemptsEffect, Handles,
       ThreadTypes, SliceTypes
  <2>3. ~InTimeEffect(e) /\ ~LateEffect(e) /\ ~GivesUpEffect(e)
    BY <1>2 DEF InTimeEffect, LateEffect, GivesUpEffect, Handles, ThreadTypes, SliceTypes
  <2>4. all_requests' = all_requests
    BY <2>2, <2>3 DEF Effect, StartsEffect, AvailableEffect, IgnoredEffect
  <2> QED
    BY <2>4
<1>3. CASE q = Subject(e) /\ e.type \notin ThreadTypes
  <2>1. q = e.req
    BY <1>3 DEF Subject
  <2>2. ~CompletesEffect(e) /\ ~PreemptsEffect(e) /\ ~StartsEffect(e) /\ ~AvailableEffect(e)
    BY <1>3, ThreadKinds DEF CompletesEffect, PreemptsEffect, StartsEffect, AvailableEffect, Handles
  <2>3. CASE RunsEffect(e) \/ WaitsEffect(e) \/ DroppedEffect(e)
    <3>1. Creates(e) /\ e.time \in Nat
      BY <2>3, AdmittedStages, DroppedStages
    <3> QED
      BY <1>0, <3>1, RequestCreated
  <2>4. CASE InTimeEffect(e) \/ LateEffect(e) \/ GivesUpEffect(e)
    BY <1>0, <2>1, <2>4, InTimeRequest, GivenUpRequest DEF Becomes
  <2>5. CASE IgnoredEffect(e)
    BY <2>5 DEF IgnoredEffect
  <2> QED
    BY <2>2, <2>3, <2>4, <2>5 DEF Effect
<1> QED
  BY <1>1, <1>2, <1>3

\* Only the arrivals create requests.
LEMMA RequestsNew ==
  ASSUME Steady, NEW e \in evq, Effect(e), NEW r \in ReqIds', r \notin ReqIds
  PROVE  Creates(e) /\ e.time \in Nat /\ r = NextId
<1>0. TypeOK
  BY DEF Steady, PoolInv
<1>1. CASE RunsEffect(e) \/ WaitsEffect(e) \/ DroppedEffect(e)
  <2>1. Creates(e) /\ e.time \in Nat
    BY <1>1, AdmittedStages, DroppedStages
  <2> QED
    BY <1>0, <2>1, RequestCreated
<1>2. CASE StartsEffect(e) \/ AvailableEffect(e) \/ IgnoredEffect(e)
  BY <1>2 DEF StartsEffect, AvailableEffect, IgnoredEffect, ReqIds
<1>3. CASE CompletesEffect(e) \/ InTimeEffect(e) \/ LateEffect(e)
  BY <1>3, AnsweredStages, CountedStages DEF OnlyRequest
<1>4. CASE PreemptsEffect(e)
  <2>1. e.type \in ThreadTypes
    BY <1>4, ThreadKinds DEF PreemptsEffect, Handles
  <2> QED
    BY <1>0, <1>4, <2>1, SliceFacts, PreemptsRequest DEF OnlyRequest
<1>5. CASE GivesUpEffect(e)
  <2>1. e.req \in ReqIds
    BY <1>0, <1>5, CheckStages, StagesTypes
  <2> QED
    BY <1>0, <1>5, <2>1, GivenUpRequest DEF OnlyRequest
<1> QED
  BY <1>1, <1>2, <1>3, <1>4, <1>5 DEF Effect

\* A request leaves the threads and the queue when it is served, and joins
\* them when it is created.
LEMMA UnservedNext ==
  ASSUME Steady, NEW e \in evq, Effect(e), NEW r \in ReqIds', Unserved(r)'
  PROVE  \/ r \in ReqIds /\ Unserved(r) /\ (CompletesEffect(e) => r # thread_req[e.thread])
         \/ r = NextId /\ r \notin ReqIds /\ Creates(e) /\ e.time \in Nat /\ (RunsEffect(e) \/ WaitsEffect(e))
<1>0. TypeOK
  BY DEF Steady, PoolInv
<1> HIDE DEF Unserved
<1>1. CASE RunsEffect(e) \/ WaitsEffect(e)
  <2>1. /\ Creates(e) /\ e.time \in Nat /\ e.type = "USER_ARRIVAL"
        /\ Unserved(r)' <=> Unserved(r) \/ r = NextId
    BY <1>1, AdmittedStages
  <2>2. ReqIds' = ReqIds \cup {NextId} /\ NextId \notin ReqIds
    BY <1>0, <2>1, RequestCreated
  <2>3. ~CompletesEffect(e)
    BY <2>1 DEF CompletesEffect, Handles
  <2> QED
    BY <1>1, <2>1, <2>2, <2>3
<1>2. CASE DroppedEffect(e)
  <2>1. /\ Creates(e) /\ e.time \in Nat /\ e.type = "USER_ARRIVAL"
        /\ Unserved(r)' <=> Unserved(r)
    BY <1>2, DroppedStages
  <2>2. ReqIds' = ReqIds \cup {NextId} /\ NextId \notin ReqIds /\ NextId \in Nat \ {0}
    BY <1>0, <2>1, RequestCreated
  <2>3. NextId # NoReq
    BY <2>2 DEF NoReq
  <2>4. ~Unserved(NextId)
    BY <1>0, <2>2, <2>3, StagesTypes
  <2>5. ~CompletesEffect(e)
    BY <2>1 DEF CompletesEffect, Handles
  <2> QED
    BY <2>1, <2>2, <2>4, <2>5
<1>3. CASE CompletesEffect(e)
  BY <1>3, AnsweredStages DEF OnlyRequest
<1>4. CASE StartsEffect(e) \/ AvailableEffect(e) \/ PreemptsEffect(e) \/ IgnoredEffect(e)
             \/ GivesUpEffect(e) \/ InTimeEffect(e) \/ LateEffect(e)
  <2>1. Unserved(r)' <=> Unserved(r)
    BY <1>4, ThreadStages, CheckStages, CountedStages
  <2>2. r # NoReq
    BY DEF ReqIds, NoReq
  <2>3. r \in ReqIds
    BY <1>0, <2>1, <2>2, StagesTypes
  <2>4. CASE CompletesEffect(e)
    BY <2>4, AnsweredStages DEF OnlyRequest
  <2> QED
    BY <2>1, <2>3, <2>4
<1> QED
  BY <1>1, <1>2, <1>3, <1>4 DEF Effect

LEMMA WholeEffect ==
  ASSUME Steady, WholeSlices, NEW e \in evq, Effect(e) PROVE WholeSlices'
<1>0. TypeOK
  BY DEF Steady, PoolInv
<1>1. \A r \in ReqIds' : all_requests'[r].service_total \in ServiceTimes
  <2> TAKE r \in ReqIds'
  <2>1. CASE r \in ReqIds
    BY <2>1, SubjectOnly DEF WholeSlices
  <2>2. CASE r \notin ReqIds
    BY <1>0, <2>2, RequestsNew, RequestCreated
  <2> QED
    BY <2>1, <2>2
<1>2. \A r \in ReqIds' : Unserved(r)' => \E k \in Nat : Received(r, k)'
  <2> SUFFICES ASSUME NEW r \in ReqIds', Unserved(r)' PROVE \E k \in Nat : Received(r, k)'
    OBVIOUS
  <2>1. CASE r = NextId /\ r \notin ReqIds /\ Creates(e) /\ e.time \in Nat
    <3>1. /\ all_requests'[r].service_remaining = all_requests'[r].service_total
          /\ all_requests'[r].service_total \in Nat
      BY <1>0, <2>1, RequestCreated, TimesAssumption
    <3>2. 0 * QUANTUM = 0
      BY TimesAssumption
    <3>3. all_requests'[r].service_remaining = all_requests'[r].service_total - 0 * QUANTUM
      BY <3>1, <3>2
    <3> QED
      BY <3>3 DEF Received
  <2>2. CASE r \in ReqIds /\ Unserved(r) /\ (CompletesEffect(e) => r # thread_req[e.thread])
    <3>1. PICK k \in Nat : Received(r, k)
      BY <2>2 DEF WholeSlices
    <3>2. all_requests'[r].service_total = all_requests[r].service_total
      BY <2>2, SubjectOnly
    <3>3. CASE PreemptsEffect(e) /\ r = thread_req[e.thread]
      <4>1. e.type = "THREAD_SLICE_END" /\ LeftAfter(e) > DoneEps
        BY <3>3 DEF PreemptsEffect, Handles
      <4>2. LeftAfter(e) = all_requests[r].service_total - (k + 1) * QUANTUM
        BY <3>1, <3>3, <4>1, SliceReceived
      <4>3. all_requests'[r].service_remaining = LeftAfter(e)
        BY <1>0, <2>2, <3>3, PreemptsRequest DEF Becomes
      <4>4. Received(r, k + 1)'
        BY <3>2, <4>2, <4>3 DEF Received
      <4> QED
        BY <4>4
    <3>4. CASE ~PreemptsEffect(e) \/ r # thread_req[e.thread]
      <4>1. e.type = "THREAD_SLICE_END" => PreemptsEffect(e) \/ CompletesEffect(e)
        BY AdmittedStages, DroppedStages DEF Effect, StartsEffect, AvailableEffect, InTimeEffect,
           LateEffect, IgnoredEffect, GivesUpEffect, Handles
      <4>2. all_requests'[r].service_remaining = all_requests[r].service_remaining
        BY <2>2, <3>4, <4>1, RemainingKept
      <4>3. Received(r, k)'
        BY <3>1, <3>2, <4>2 DEF Received
      <4> QED
        BY <4>3
    <3> QED
      BY <3>3, <3>4
  <2> QED
    BY <2>1, <2>2, UnservedNext
<1>3. \A f \in evq' : f.type = "THREAD_SLICE_END" =>
        f.slice_len = Shorter(QUANTUM, all_requests'[thread_req'[f.thread]].service_remaining)
  <2> SUFFICES ASSUME NEW f \in evq', f.type = "THREAD_SLICE_END"
               PROVE  f.slice_len = Shorter(QUANTUM, all_requests'[thread_req'[f.thread]].service_remaining)
    OBVIOUS
  <2>1. CASE f \in evq \ {e}
    <3>1. f \in ThreadEvs
      BY <2>1, ThreadKinds DEF ThreadEvs
    <3>2. /\ thread_req'[f.thread] = thread_req[f.thread] /\ thread_req[f.thread] \in ReqIds
          /\ e.type \in ThreadTypes => thread_req[f.thread] # thread_req[e.thread]
      BY <2>1, <3>1, OthersServed
    <3>3. all_requests'[thread_req[f.thread]].service_remaining
            = all_requests[thread_req[f.thread]].service_remaining
      BY <3>2, RemainingKept, ThreadKinds
    <3> QED
      BY <2>1, <3>2, <3>3 DEF WholeSlices
  <2>2. CASE /\ StartsEffect(e) /\ f.thread = e.thread
             /\ f.slice_len = Shorter(QUANTUM, all_requests[thread_req[e.thread]].service_remaining)
    BY <2>2 DEF StartsEffect
  <2> QED
    BY <2>1, <2>2, SliceEnds
<1> QED
  BY <1>1, <1>2, <1>3 DEF WholeSlices

LEMMA WholeInvariant == Spec => []WholeSlices
<1>1. Init => WholeSlices
  <2> SUFFICES ASSUME Init PROVE WholeSlices
    OBVIOUS
  <2>1. \A e \in evq : e.type # "THREAD_SLICE_END"
    BY DEF Init, UserArrival, Ev
  <2>2. ReqIds = {}
    BY DEF Init, ReqIds
  <2> QED
    BY <2>1, <2>2 DEF WholeSlices
<1>2. ASSUME Steady, WholeSlices, [Next]_vars PROVE WholeSlices'
  <2>1. CASE LoopEnds \/ UNCHANGED vars
    <3>1. evq' \subseteq evq /\ UNCHANGED <<all_requests, waiting_requests, thread_req>>
      BY <2>1 DEF LoopEnds, vars
    <3>2. ReqIds' = ReqIds /\ \A r : Unserved(r)' <=> Unserved(r)
      BY <3>1, UnservedKept DEF ReqIds
    <3>3. \A r, k : Received(r, k)' <=> Received(r, k)
      BY <3>1 DEF Received
    <3> QED
      BY <1>2, <3>1, <3>2, <3>3 DEF WholeSlices
  <2> QED
    BY <1>2, <2>1, StepHasEffect, WholeEffect
<1>3. Steady /\ WholeSlices /\ [Next]_vars => WholeSlices'
  BY <1>2
<1> QED
  BY <1>1, <1>3, SteadyInvariant, PTL DEF Spec

-----------------------------------------------------------------------------
(* What the users are told. *)

LEMMA VerdictStays ==
  ASSUME TypeOK, TypeOK', now <= now', NEW r \in ReqIds, VerdictOf(r),
         all_requests'[r].timed_out = all_requests[r].timed_out,
         all_requests'[r].completion_time = all_requests[r].completion_time,
         all_requests'[r].timeout_deadline = all_requests[r].timeout_deadline,
         all_requests[r].completion_time # -1 =>
           all_requests'[r].service_remaining = all_requests[r].service_remaining,
         Holds(completed_requests', r) <=> Holds(completed_requests, r),
         Holds(timedout_requests', r) <=> Holds(timedout_requests, r)
  PROVE  VerdictOf(r)'
<1>1. now \in Nat /\ now' \in Nat /\ all_requests[r].timeout_deadline \in Nat
  BY StagesTypes DEF TypeOK, Request
<1> HIDE DEF Holds
<1> QED
  BY <1>1 DEF VerdictOf

\* A verdict on a request that was not counted.
LEMMA VerdictGiven ==
  ASSUME Steady, EventsOrdered, RequestsPlaced, VerdictsKept, NEW e \in evq,
         CompletesEffect(e) \/ InTimeEffect(e) \/ LateEffect(e) \/ GivesUpEffect(e),
         NEW r, r = Subject(e)
  PROVE  VerdictOf(r)'
<1> DEFINE a == all_requests[r]
           b == all_requests'[r]
<1>0. TypeOK /\ now <= e.time
  BY DEF Steady, PoolInv, EventsOrdered
<1>1. /\ r \in ReqIds /\ now' = e.time /\ e.time \in Nat /\ now \in Nat
      /\ ThreadTypes = {"THREAD_SLICE_START", "THREAD_SLICE_END", "THREAD_AVAILABLE"}
  <2>1. ThreadTypes = {"THREAD_SLICE_START", "THREAD_SLICE_END", "THREAD_AVAILABLE"}
    BY DEF ThreadTypes, SliceTypes
  <2>2. now' = e.time /\ e.time \in Nat /\ now \in Nat
    BY <1>0 DEF CompletesEffect, InTimeEffect, LateEffect, GivesUpEffect, Handles, TypeOK
  <2>3. CASE CompletesEffect(e)
    <3>1. e.type \in ThreadTypes
      BY <2>1, <2>3 DEF CompletesEffect, Handles
    <3> QED
      BY <2>1, <2>2, <3>1, SliceFacts DEF Subject
  <2>4. CASE InTimeEffect(e) \/ LateEffect(e) \/ GivesUpEffect(e)
    <3>1. e \in Answers \cup Checks /\ e.type \notin ThreadTypes
      BY <2>1, <2>4 DEF InTimeEffect, LateEffect, GivesUpEffect, Handles, Answers, Checks
    <3> QED
      BY <1>0, <2>1, <2>2, <3>1, StagesTypes DEF Subject
  <2> QED
    BY <2>1, <2>2, <2>3, <2>4
<1>2. VerdictOf(r)
  BY <1>1 DEF VerdictsKept
<1>3. a \in Request
  BY <1>0, <1>1, StagesTypes
<1>4. CASE CompletesEffect(e)
  <2>1. e.type \in ThreadTypes
    BY <1>4, ThreadKinds DEF CompletesEffect, Handles
  <2>2. r = thread_req[e.thread]
    BY <2>1 DEF Subject
  <2>3. a.completion_time = -1 /\ ~Counted(r)
    BY <1>1, <2>1, <2>2, SliceFacts DEF RequestsPlaced
  <2>4. Becomes(r, 0, a.timed_out, e.time)
    BY <1>0, <1>1, <1>4, <2>2, CompletesRequest
  <2>5. ~Holds(completed_requests', r) /\ ~Holds(timedout_requests', r)
    BY <1>4, <2>3 DEF CompletesEffect, Counted
  <2> HIDE DEF Holds
  <2>6. b.timeout_deadline = a.timeout_deadline /\ b.timed_out = a.timed_out
        /\ b.completion_time = e.time /\ b.service_remaining = 0
    BY <2>4 DEF Becomes
  <2>7. a.timed_out => a.timeout_deadline <= now
    BY <1>2 DEF VerdictOf
  <2>8. a.timeout_deadline \in Nat
    BY <1>3 DEF Request
  <2> HIDE DEF a, b
  <2>9. b.timed_out => b.timeout_deadline <= now' /\ b.completion_time >= b.timeout_deadline
    BY <1>0, <1>1, <2>6, <2>7, <2>8
  <2> QED
    BY <2>5, <2>6, <2>9 DEF VerdictOf, b
<1>5. CASE InTimeEffect(e)
  <2>1. e.type = "REQUEST_COMPLETE" /\ e \in Answers
    BY <1>5 DEF InTimeEffect, Handles, Answers
  <2>2. r = e.req
    BY <1>1, <2>1 DEF Subject
  <2>3. a.completion_time = e.time /\ ~Counted(r)
    BY <2>1, <2>2 DEF RequestsPlaced
  <2>4. Becomes(r, a.service_remaining, a.timed_out, e.time)
    BY <1>0, <1>1, <1>5, <2>2, InTimeRequest
  <2>5. ~Holds(timedout_requests', r) /\ ~a.timed_out /\ e.time < a.timeout_deadline
    BY <1>1, <1>3, <1>5, <2>2, <2>3 DEF InTimeEffect, Counted, TooLate, Request
  <2> HIDE DEF Holds
  <2>6. b.timeout_deadline = a.timeout_deadline /\ b.timed_out = a.timed_out
        /\ b.completion_time = e.time /\ b.service_remaining = a.service_remaining
    BY <2>4 DEF Becomes
  <2>7. a.service_remaining = 0
    BY <1>1, <1>2, <2>3 DEF VerdictOf
  <2> HIDE DEF a, b
  <2> QED
    BY <2>5, <2>6, <2>7 DEF VerdictOf, b
<1>6. CASE LateEffect(e)
  <2>1. e.type = "REQUEST_COMPLETE" /\ e \in Answers
    BY <1>6 DEF LateEffect, Handles, Answers
  <2>2. r = e.req
    BY <1>1, <2>1 DEF Subject
  <2>3. a.completion_time = e.time /\ ~Counted(r)
    BY <2>1, <2>2 DEF RequestsPlaced
  <2>4. Becomes(r, a.service_remaining, TRUE, a.completion_time)
    BY <1>0, <1>1, <1>6, <2>2, GivenUpRequest
  <2>5. ~Holds(completed_requests', r) /\ (a.timed_out \/ e.time >= a.timeout_deadline)
    BY <1>6, <2>2, <2>3 DEF LateEffect, Counted, TooLate
  <2> HIDE DEF Holds
  <2>6. b.timeout_deadline = a.timeout_deadline /\ b.timed_out = TRUE
        /\ b.completion_time = e.time /\ b.service_remaining = a.service_remaining
    BY <2>3, <2>4 DEF Becomes
  <2>7. a.service_remaining = 0 /\ (a.timed_out => a.timeout_deadline <= now)
    BY <1>1, <1>2, <2>3 DEF VerdictOf
  <2>8. a.timeout_deadline \in Nat
    BY <1>3 DEF Request
  <2> HIDE DEF a, b
  <2>9. b.timeout_deadline <= now' /\ b.completion_time >= b.timeout_deadline
    BY <1>0, <1>1, <2>5, <2>6, <2>7, <2>8
  <2> QED
    BY <2>5, <2>6, <2>7, <2>9 DEF VerdictOf, b
<1>7. CASE GivesUpEffect(e)
  <2>1. e.type = "CHECK_TIMEOUT" /\ e \in Checks
    BY <1>7 DEF GivesUpEffect, Handles, Checks
  <2>2. r = e.req
    BY <1>1, <2>1 DEF Subject
  <2>3. e.time = a.timeout_deadline
    BY <2>1, <2>2 DEF VerdictsKept
  <2>4. Becomes(r, a.service_remaining, TRUE, a.completion_time)
    BY <1>0, <1>1, <1>7, <2>2, GivenUpRequest
  <2>5. a.completion_time = -1
    <3>1. a.service_remaining # 0
      BY <1>7, <2>2, TimesAssumption DEF GivesUpEffect
    <3> QED
      BY <1>2, <3>1 DEF VerdictOf
  <2>6. ~Holds(completed_requests', r) /\ ~Holds(timedout_requests', r)
    BY <1>1, <1>7, <2>5 DEF GivesUpEffect, RequestsPlaced, Counted
  <2> HIDE DEF Holds
  <2>7. b.timeout_deadline = a.timeout_deadline /\ b.completion_time = -1
    BY <2>4, <2>5 DEF Becomes
  <2> HIDE DEF a, b
  <2> QED
    BY <1>1, <2>3, <2>6, <2>7 DEF VerdictOf, b
<1> QED
  BY <1>4, <1>5, <1>6, <1>7

\* The checks that are pending after a handler.
LEMMA ChecksNext ==
  ASSUME Steady, NEW e \in evq, Effect(e), NEW c \in Checks'
  PROVE  \/ c \in Checks /\ (GivesUpEffect(e) \/ IgnoredEffect(e) => c # e)
         \/ IsDeadline(c) /\ (RunsEffect(e) \/ WaitsEffect(e)) /\ c.req = NextId
<1>1. CASE RunsEffect(e) \/ WaitsEffect(e)
  <2>1. PICK n : IsDeadline(n) /\ Checks' = Checks \cup {n}
    BY <1>1, AdmittedStages
  <2>2. ~GivesUpEffect(e) /\ ~IgnoredEffect(e)
    BY <1>1, AdmittedStages DEF GivesUpEffect, IgnoredEffect, Handles
  <2> QED
    BY <1>1, <2>1, <2>2 DEF IsDeadline
<1>2. CASE GivesUpEffect(e) \/ IgnoredEffect(e)
  BY <1>2, CheckStages
<1>3. CASE ~(GivesUpEffect(e) \/ IgnoredEffect(e)) /\ ~(RunsEffect(e) \/ WaitsEffect(e))
  BY <1>3, DroppedStages, ThreadStages, AnsweredStages, CountedStages DEF Effect
<1> QED
  BY <1>1, <1>2, <1>3

LEMMA VerdictsEffect ==
  ASSUME Steady, Steady', EventsOrdered, RequestsPlaced, VerdictsKept, NEW e \in evq, Effect(e)
  PROVE  VerdictsKept'
<1>0. /\ TypeOK /\ TypeOK' /\ now <= now'
  <2>1. now' = e.time /\ now <= e.time
    BY EffectHandles DEF Handles, EventsOrdered
  <2> QED
    BY <2>1 DEF Steady, PoolInv
<1>1. ASSUME NEW r \in ReqIds' PROVE VerdictOf(r)'
  <2>1. CASE r \notin ReqIds
    <3>1. Creates(e) /\ e.time \in Nat /\ r = NextId
      BY <2>1, RequestsNew
    <3>2. ~Counted(r)
      BY <1>0, <2>1, StagesTypes
    <3>3. ~Holds(completed_requests', r) /\ ~Holds(timedout_requests', r)
      BY <3>1, <3>2 DEF Creates, Counted
    <3>4. all_requests'[r].timed_out = FALSE /\ all_requests'[r].completion_time = -1
      BY <1>0, <3>1, RequestCreated
    <3> HIDE DEF Holds
    <3> QED
      BY <3>3, <3>4 DEF VerdictOf
  <2>2. CASE /\ CompletesEffect(e) \/ InTimeEffect(e) \/ LateEffect(e) \/ GivesUpEffect(e)
             /\ r = Subject(e)
    BY <2>2, VerdictGiven
  <2>3. CASE /\ CompletesEffect(e) \/ InTimeEffect(e) \/ LateEffect(e) \/ GivesUpEffect(e)
             /\ r \in ReqIds /\ r # Subject(e)
    <3>1. VerdictOf(r) /\ all_requests'[r] = all_requests[r]
      BY <2>3, SubjectOnly DEF VerdictsKept
    <3>2. /\ Holds(completed_requests', r) <=> Holds(completed_requests, r)
          /\ Holds(timedout_requests', r) <=> Holds(timedout_requests, r)
      <4>1. CASE CompletesEffect(e) \/ GivesUpEffect(e)
        BY <4>1 DEF CompletesEffect, GivesUpEffect
      <4>2. CASE InTimeEffect(e) \/ LateEffect(e)
        <5>1. e \in Answers /\ e.req \in ReqIds
          BY <4>2, CountedStages
        <5>2. r # e.req
          BY <2>3, <5>1 DEF Subject, Answers, ThreadTypes, SliceTypes
        <5>3. completed_requests \in Seq(ReqIds) /\ timedout_requests \in Seq(ReqIds)
          BY <1>0 DEF TypeOK
        <5>4. \/ /\ completed_requests' = completed_requests
                 /\ timedout_requests' = Append(timedout_requests, e.req)
              \/ /\ completed_requests' = Append(completed_requests, e.req)
                 /\ timedout_requests' = timedout_requests
          BY <4>2 DEF InTimeEffect, LateEffect
        <5>5. \A q : /\ Holds(Append(completed_requests, e.req), q) <=>
                          Holds(completed_requests, q) \/ q = e.req
                     /\ Holds(Append(timedout_requests, e.req), q) <=>
                          Holds(timedout_requests, q) \/ q = e.req
          BY <5>1, <5>3, HoldsAppended
        <5> QED
          BY <5>2, <5>4, <5>5
      <4> QED
        BY <2>3, <4>1, <4>2
    <3> QED
      BY <1>0, <2>3, <3>1, <3>2, VerdictStays
  <2>4. CASE /\ RunsEffect(e) \/ WaitsEffect(e) \/ DroppedEffect(e) \/ StartsEffect(e)
                \/ AvailableEffect(e) \/ IgnoredEffect(e)
             /\ r \in ReqIds
    <3>1. /\ all_requests'[r] = all_requests[r]
          /\ UNCHANGED <<completed_requests, timedout_requests>>
      <4>1. CASE RunsEffect(e) \/ WaitsEffect(e) \/ DroppedEffect(e)
        <5>1. Creates(e) /\ e.time \in Nat
          BY <4>1, AdmittedStages, DroppedStages
        <5> QED
          BY <1>0, <2>4, <5>1, RequestCreated DEF Creates
      <4>2. CASE StartsEffect(e) \/ AvailableEffect(e) \/ IgnoredEffect(e)
        BY <4>2 DEF StartsEffect, AvailableEffect, IgnoredEffect
      <4> QED
        BY <2>4, <4>1, <4>2
    <3>2. VerdictOf(r)
      BY <2>4 DEF VerdictsKept
    <3> QED
      BY <1>0, <2>4, <3>1, <3>2, VerdictStays
  <2>5. CASE PreemptsEffect(e) /\ r \in ReqIds
    <3>1. VerdictOf(r) /\ UNCHANGED <<completed_requests, timedout_requests>>
      BY <2>5 DEF VerdictsKept, PreemptsEffect
    <3>2. e.type \in ThreadTypes
      BY <2>5, ThreadKinds DEF PreemptsEffect, Handles
    <3>3. CASE r # Subject(e)
      BY <1>0, <2>5, <3>1, <3>3, SubjectOnly, VerdictStays
    <3>4. CASE r = Subject(e)
      <4>1. r = thread_req[e.thread]
        BY <3>2, <3>4 DEF Subject
      <4>2. all_requests[r].completion_time = -1
        BY <2>5, <3>2, <4>1, SliceFacts DEF RequestsPlaced
      <4>3. Becomes(r, LeftAfter(e), all_requests[r].timed_out, all_requests[r].completion_time)
        BY <1>0, <2>5, <4>1, PreemptsRequest
      <4> QED
        BY <1>0, <2>5, <3>1, <4>2, <4>3, VerdictStays DEF Becomes
    <3> QED
      BY <3>3, <3>4
  <2> QED
    BY <2>1, <2>2, <2>3, <2>4, <2>5 DEF Effect
<1>2. ASSUME NEW c \in Checks' PROVE c.time = all_requests'[c.req].timeout_deadline
  <2>1. CASE c \in Checks
    <3>1. c.req \in ReqIds
      BY <1>0, <2>1, StagesTypes
    <3> QED
      BY <2>1, <3>1, SubjectOnly DEF VerdictsKept
  <2>2. CASE IsDeadline(c)
    BY <2>2 DEF IsDeadline
  <2> QED
    BY <2>1, <2>2, ChecksNext
<1> QED
  BY <1>1, <1>2 DEF VerdictsKept

LEMMA VerdictsNext ==
  ASSUME Steady, Steady', EventsOrdered, RequestsPlaced, VerdictsKept, [Next]_vars
  PROVE  VerdictsKept'
<1>1. CASE LoopEnds \/ UNCHANGED vars
  <2>1. /\ UNCHANGED <<all_requests, completed_requests, timedout_requests>>
        /\ now <= now' /\ evq' \subseteq evq /\ TypeOK /\ TypeOK'
    <3>1. TypeOK /\ TypeOK'
      BY DEF Steady, PoolInv
    <3>2. CASE LoopEnds
      BY <3>1, <3>2, EndsFacts
    <3>3. CASE UNCHANGED vars
      BY <3>1, <3>3 DEF vars, TypeOK
    <3> QED
      BY <1>1, <3>1, <3>2, <3>3
  <2>2. ReqIds' = ReqIds /\ Checks' \subseteq Checks
    BY <2>1 DEF ReqIds, Checks
  <2>3. ASSUME NEW r \in ReqIds PROVE VerdictOf(r)'
    <3>1. VerdictOf(r)
      BY DEF VerdictsKept
    <3> QED
      BY <2>1, <3>1, VerdictStays
  <2> QED
    BY <2>1, <2>2, <2>3 DEF VerdictsKept
<1> QED
  BY <1>1, StepHasEffect, VerdictsEffect

LEMMA VerdictsInvariant == Spec => []VerdictsKept
<1>1. Init => VerdictsKept
  <2> SUFFICES ASSUME Init PROVE VerdictsKept
    OBVIOUS
  <2>1. Checks = {}
    BY DEF Init, Checks, UserArrival, Ev
  <2>2. ReqIds = {}
    BY DEF Init, ReqIds
  <2> QED
    BY <2>1, <2>2 DEF VerdictsKept
<1>2. Steady /\ Steady' /\ EventsOrdered /\ RequestsPlaced /\ VerdictsKept /\ [Next]_vars
        => VerdictsKept'
  BY VerdictsNext
<1> QED
  BY <1>1, <1>2, SteadyInvariant, EventsInvariant, PlacedInvariant, PTL DEF Spec

-----------------------------------------------------------------------------
(* No deadline passes unnoticed. *)

\* How a request is given up and answered.
LEMMA FieldsNext ==
  ASSUME Steady, RequestsPlaced, NEW e \in evq, Effect(e), NEW q \in ReqIds
  PROVE  /\ (LateEffect(e) \/ GivesUpEffect(e)) /\ q = e.req => all_requests'[q].timed_out = TRUE
         /\ \/ (LateEffect(e) \/ GivesUpEffect(e)) /\ q = e.req
            \/ all_requests'[q].timed_out = all_requests[q].timed_out
         /\ all_requests[q].timed_out => all_requests'[q].timed_out
         /\ all_requests[q].completion_time # -1 => all_requests'[q].completion_time # -1
         /\ CompletesEffect(e) /\ q = thread_req[e.thread] =>
              /\ all_requests'[q].completion_time = e.time /\ e.time # -1
              /\ all_requests'[q].timed_out = all_requests[q].timed_out
<1>0. TypeOK
  BY DEF Steady, PoolInv
<1>1. CASE CompletesEffect(e)
  <2>1. e.type = "THREAD_SLICE_END" /\ e.time \in Nat
    BY <1>1 DEF CompletesEffect, Handles
  <2>2. ~LateEffect(e) /\ ~GivesUpEffect(e)
    BY <2>1 DEF LateEffect, GivesUpEffect, Handles
  <2>3. CASE q # thread_req[e.thread]
    <3>1. all_requests'[q] = all_requests[q]
      BY <2>1, <2>3, SubjectOnly, ThreadKinds DEF Subject
    <3> QED
      BY <2>2, <2>3, <3>1
  <2>4. CASE q = thread_req[e.thread]
    <3>1. Becomes(q, 0, all_requests[q].timed_out, e.time)
      BY <1>0, <1>1, <2>4, CompletesRequest
    <3> QED
      BY <2>1, <2>2, <3>1 DEF Becomes
  <2> QED
    BY <2>3, <2>4
<1>2. CASE PreemptsEffect(e)
  <2>1. e.type = "THREAD_SLICE_END"
    BY <1>2 DEF PreemptsEffect, Handles
  <2>2. ~LateEffect(e) /\ ~GivesUpEffect(e) /\ ~CompletesEffect(e)
    BY <1>2, <2>1, TimesAssumption DEF LateEffect, GivesUpEffect, Handles, PreemptsEffect, CompletesEffect
  <2>3. CASE q # thread_req[e.thread]
    <3>1. all_requests'[q] = all_requests[q]
      BY <2>1, <2>3, SubjectOnly, ThreadKinds DEF Subject
    <3> QED
      BY <2>2, <3>1
  <2>4. CASE q = thread_req[e.thread]
    <3>1. Becomes(q, LeftAfter(e), all_requests[q].timed_out, all_requests[q].completion_time)
      BY <1>0, <1>2, <2>4, PreemptsRequest
    <3> QED
      BY <2>2, <3>1 DEF Becomes
  <2> QED
    BY <2>3, <2>4
<1>3. CASE LateEffect(e) \/ GivesUpEffect(e)
  <2>1. e \in Answers \cup Checks /\ e.type # "THREAD_SLICE_END"
    BY <1>3 DEF LateEffect, GivesUpEffect, Handles, Answers, Checks
  <2>2. e.req \in ReqIds /\ ~CompletesEffect(e)
    BY <1>0, <2>1, StagesTypes DEF CompletesEffect, Handles
  <2>3. /\ OnlyRequest(e.req)
        /\ Becomes(e.req, all_requests[e.req].service_remaining, TRUE, all_requests[e.req].completion_time)
    BY <1>0, <1>3, <2>2, GivenUpRequest
  <2> QED
    BY <1>3, <2>2, <2>3 DEF OnlyRequest, Becomes
<1>4. CASE InTimeEffect(e)
  <2>1. e \in Answers /\ e.type = "REQUEST_COMPLETE"
    BY <1>4 DEF InTimeEffect, Handles, Answers
  <2>2. e.req \in ReqIds /\ e.time \in Nat /\ ~CompletesEffect(e) /\ ~LateEffect(e) /\ ~GivesUpEffect(e)
    BY <1>0, <1>4, <2>1, StagesTypes DEF CompletesEffect, LateEffect, GivesUpEffect, InTimeEffect, Handles
  <2>3. /\ OnlyRequest(e.req)
        /\ Becomes(e.req, all_requests[e.req].service_remaining, all_requests[e.req].timed_out, e.time)
    BY <1>0, <1>4, <2>2, InTimeRequest
  <2> QED
    BY <1>4, <2>2, <2>3 DEF OnlyRequest, Becomes
<1>5. CASE RunsEffect(e) \/ WaitsEffect(e) \/ DroppedEffect(e)
  <2>1. Creates(e) /\ e.time \in Nat /\ e.type = "USER_ARRIVAL"
    BY <1>5, AdmittedStages, DroppedStages
  <2>2. ~CompletesEffect(e) /\ ~LateEffect(e) /\ ~GivesUpEffect(e)
    BY <2>1 DEF CompletesEffect, LateEffect, GivesUpEffect, Handles
  <2>3. all_requests'[q] = all_requests[q]
    BY <1>0, <2>1, RequestCreated
  <2> QED
    BY <2>2, <2>3
<1>6. CASE StartsEffect(e) \/ AvailableEffect(e) \/ IgnoredEffect(e)
  <2>1. all_requests' = all_requests
    BY <1>6 DEF StartsEffect, AvailableEffect, IgnoredEffect
  <2>2. ~CompletesEffect(e) /\ ~LateEffect(e)
    BY <1>6 DEF CompletesEffect, LateEffect, StartsEffect, AvailableEffect, IgnoredEffect, Handles
  <2>3. ~GivesUpEffect(e)
    <3>1. CASE IgnoredEffect(e)
      <4>1. e \in Checks
        BY <3>1, CheckStages
      <4>2. all_requests[e.req].service_remaining \in Nat
        BY <1>0, <4>1, StagesTypes DEF Request
      <4> QED
        BY <3>1, <4>2, TimesAssumption DEF IgnoredEffect, GivesUpEffect
    <3>2. CASE StartsEffect(e) \/ AvailableEffect(e)
      BY <3>2 DEF GivesUpEffect, StartsEffect, AvailableEffect, Handles
    <3> QED
      BY <1>6, <3>1, <3>2
  <2> QED
    BY <2>1, <2>2, <2>3
<1> QED
  BY <1>1, <1>2, <1>3, <1>4, <1>5, <1>6 DEF Effect

\* A request leaves the threads and the queue only by being served.
LEMMA UnservedLeft ==
  ASSUME Steady, NEW e \in evq, Effect(e), NEW r \in ReqIds, Unserved(r)
  PROVE  Unserved(r)' \/ (CompletesEffect(e) /\ r = thread_req[e.thread])
<1>0. TypeOK
  BY DEF Steady, PoolInv
<1> HIDE DEF Unserved
<1>1. CASE RunsEffect(e) \/ WaitsEffect(e)
  <2>1. Creates(e) /\ e.time \in Nat /\ \A q \in ReqIds' : Unserved(q)' <=> Unserved(q) \/ q = NextId
    BY <1>1, AdmittedStages
  <2>2. r \in ReqIds'
    BY <1>0, <2>1, RequestCreated
  <2> QED
    BY <2>1, <2>2
<1>2. CASE CompletesEffect(e)
  BY <1>2, AnsweredStages
<1> QED
  BY <1>1, <1>2, DroppedStages, ThreadStages, CheckStages, CountedStages DEF Effect

LEMMA AnswersNext ==
  ASSUME Steady, NEW e \in evq, Effect(e), NEW a \in Answers'
  PROVE  \/ a \in Answers
         \/ CompletesEffect(e) /\ a.req = thread_req[e.thread] /\ a.time = e.time
            /\ e.type = "THREAD_SLICE_END"
<1>1. CASE CompletesEffect(e)
  BY <1>1, AnsweredStages
<1> QED
  BY <1>1, AdmittedStages, DroppedStages, ThreadStages, CheckStages, CountedStages DEF Effect

\* Only its handler takes a check away.
LEMMA ChecksLeft ==
  ASSUME Steady, NEW e \in evq, Effect(e), NEW c \in Checks
  PROVE  c \in Checks' \/ (c = e /\ (IgnoredEffect(e) \/ GivesUpEffect(e)))
  BY AdmittedStages, DroppedStages, ThreadStages, CheckStages, CountedStages, AnsweredStages DEF Effect

LEMMA WatchedRemaining ==
  ASSUME GapAvoided, Steady, WholeSlices, DeadlinesWatched, NEW e \in evq, Effect(e),
         NEW r \in ReqIds', Unserved(r)'
  PROVE  all_requests'[r].service_remaining > CheckEps
<1>0. TypeOK
  BY DEF Steady, PoolInv
<1>1. CASE r = NextId /\ Creates(e) /\ e.time \in Nat
  BY <1>0, <1>1, RequestCreated DEF GapAvoided
<1>2. CASE r \in ReqIds /\ Unserved(r) /\ (CompletesEffect(e) => r # thread_req[e.thread])
  <2>1. CASE PreemptsEffect(e) /\ r = thread_req[e.thread]
    <3>1. e.type = "THREAD_SLICE_END" /\ LeftAfter(e) > DoneEps
      BY <2>1 DEF PreemptsEffect, Handles
    <3>2. PICK k \in Nat : Received(r, k)
      BY <1>2 DEF WholeSlices
    <3>3. LeftAfter(e) = all_requests[r].service_total - (k + 1) * QUANTUM
      BY <2>1, <3>1, <3>2, SliceReceived
    <3>4. all_requests[r].service_total \in ServiceTimes /\ k + 1 \in Nat
      BY <1>2 DEF WholeSlices
    <3>5. LeftAfter(e) <= DoneEps \/ LeftAfter(e) > CheckEps
      BY <3>3, <3>4 DEF GapAvoided
    <3>6. Becomes(r, LeftAfter(e), all_requests[r].timed_out, all_requests[r].completion_time)
      BY <1>0, <1>2, <2>1, PreemptsRequest
    <3>7. all_requests'[r].service_remaining = LeftAfter(e)
      BY <3>6 DEF Becomes
    <3>8. LeftAfter(e) \in Nat
      BY <2>1 DEF PreemptsEffect
    <3> QED
      BY <3>1, <3>5, <3>7, <3>8, TimesAssumption
  <2>2. CASE ~PreemptsEffect(e) \/ r # thread_req[e.thread]
    <3>1. e.type = "THREAD_SLICE_END" => PreemptsEffect(e) \/ CompletesEffect(e)
      BY AdmittedStages, DroppedStages DEF Effect, StartsEffect, AvailableEffect, InTimeEffect,
         LateEffect, IgnoredEffect, GivesUpEffect, Handles
    <3>2. all_requests'[r].service_remaining = all_requests[r].service_remaining
      BY <1>2, <2>2, <3>1, RemainingKept
    <3> QED
      BY <1>2, <3>2 DEF DeadlinesWatched
  <2> QED
    BY <2>1, <2>2
<1> QED
  BY <1>1, <1>2, UnservedNext

LEMMA WatchedOnce ==
  ASSUME Steady, DeadlinesWatched, NEW e \in evq, Effect(e), NEW c \in Checks', NEW d \in Checks',
         c.req = d.req
  PROVE  c = d
<1>0. TypeOK
  BY DEF Steady, PoolInv
<1>1. CASE RunsEffect(e) \/ WaitsEffect(e)
  <2>1. PICK n : IsDeadline(n) /\ Checks' = Checks \cup {n}
    BY <1>1, AdmittedStages
  <2>2. n.req = NextId /\ \A x \in Checks : x.req \in ReqIds
    BY <1>0, <2>1, StagesTypes DEF IsDeadline
  <2>3. NextId \notin ReqIds
    BY <1>0, StagesTypes
  <2> QED
    BY <2>1, <2>2, <2>3 DEF DeadlinesWatched
<1>2. CASE ~(RunsEffect(e) \/ WaitsEffect(e))
  BY <1>2, ChecksNext DEF DeadlinesWatched
<1> QED
  BY <1>1, <1>2

LEMMA WatchedChecks ==
  ASSUME Steady, RequestsPlaced, DeadlinesWatched, NEW e \in evq, Effect(e), NEW c \in Checks'
  PROVE  IF Unserved(c.req)' THEN ~all_requests'[c.req].timed_out
                             ELSE all_requests'[c.req].completion_time # -1
<1>0. TypeOK
  BY DEF Steady, PoolInv
<1> DEFINE r == c.req
<1>1. CASE (RunsEffect(e) \/ WaitsEffect(e)) /\ r = NextId
  <2>1. Creates(e) /\ e.time \in Nat /\ \A q \in ReqIds' : Unserved(q)' <=> Unserved(q) \/ q = NextId
    BY <1>1, AdmittedStages
  <2>2. r \in ReqIds' /\ all_requests'[r].timed_out = FALSE
    BY <1>0, <1>1, <2>1, RequestCreated
  <2> HIDE DEF Unserved
  <2>3. Unserved(r)'
    BY <1>1, <2>1, <2>2
  <2> QED
    BY <2>2, <2>3
<1>2. CASE c \in Checks /\ (GivesUpEffect(e) \/ IgnoredEffect(e) => c # e)
  <2>1. r \in ReqIds /\ r \in ReqIds' /\ r # NextId
    BY <1>0, <1>2, StagesTypes, SubjectOnly
  <2> HIDE DEF Unserved
  <2>2. CASE Unserved(r)'
    <3>1. Unserved(r)
      BY <2>1, <2>2, UnservedNext
    <3>2. ~all_requests[r].timed_out
      BY <1>2, <3>1 DEF DeadlinesWatched
    <3>3. ~(GivesUpEffect(e) /\ r = e.req)
      <4>1. GivesUpEffect(e) => e \in Checks
        BY CheckStages
      <4> QED
        BY <1>2, <4>1 DEF DeadlinesWatched
    <3>4. ~(LateEffect(e) /\ r = e.req)
      <4>1. LateEffect(e) => e \in Answers
        BY CountedStages
      <4>2. all_requests[r].completion_time = -1
        BY <2>1, <3>1 DEF RequestsPlaced
      <4>3. \A a \in Answers : all_requests[a.req].completion_time = a.time /\ a.time \in Nat
        BY <1>0, StagesTypes DEF RequestsPlaced
      <4> QED
        BY <4>1, <4>2, <4>3
    <3> QED
      BY <2>1, <2>2, <3>2, <3>3, <3>4, FieldsNext
  <2>3. CASE ~Unserved(r)'
    <3>1. CASE Unserved(r)
      <4>1. CompletesEffect(e) /\ r = thread_req[e.thread]
        BY <2>1, <2>3, <3>1, UnservedLeft
      <4> QED
        BY <2>1, <2>3, <4>1, FieldsNext
    <3>2. CASE ~Unserved(r)
      <4>1. all_requests[r].completion_time # -1
        BY <1>2, <3>2 DEF DeadlinesWatched
      <4> QED
        BY <2>1, <2>3, <4>1, FieldsNext
    <3> QED
      BY <3>1, <3>2
  <2> QED
    BY <2>2, <2>3
<1> QED
  BY <1>1, <1>2, ChecksNext

LEMMA WatchesNext ==
  ASSUME Steady, EventsOrdered, RequestsPlaced, DeadlinesWatched, NEW e \in evq, Effect(e),
         NEW r \in ReqIds', Unserved(r)', ~all_requests'[r].timed_out
  PROVE  \E c \in Checks' : Watches(c, r)'
<1>0. TypeOK
  BY DEF Steady, PoolInv
<1>1. ASSUME NEW f \in evq', f.type = "THREAD_SLICE_END", f \in evq \ {e}
      PROVE  thread_req'[f.thread] = thread_req[f.thread] /\ thread_req[f.thread] \in ReqIds
  <2>1. f \in ThreadEvs
    BY <1>1, ThreadKinds DEF ThreadEvs
  <2> QED
    BY <1>1, <2>1, OthersServed
<1>2. CASE r = NextId /\ r \notin ReqIds /\ (RunsEffect(e) \/ WaitsEffect(e))
  <2>1. PICK n : IsDeadline(n) /\ Checks' = Checks \cup {n}
    BY <1>2, AdmittedStages
  <2>2. ~StartsEffect(e)
    BY <1>2, AdmittedStages DEF StartsEffect, Handles
  <2>3. \A f \in evq' : f.type = "THREAD_SLICE_END" => thread_req'[f.thread] # r
    BY <1>1, <1>2, <2>2, SliceEnds
  <2>4. n \in Checks' /\ Watches(n, r)'
    BY <1>2, <2>1, <2>3 DEF Watches, IsDeadline
  <2> QED
    BY <2>4
<1>3. CASE r \in ReqIds /\ Unserved(r)
  <2>1. ~all_requests[r].timed_out
    BY <1>3, FieldsNext
  <2>2. running
    BY EffectHandles DEF Handles
  <2>3. PICK c \in Checks : Watches(c, r)
    BY <1>3, <2>1, <2>2 DEF DeadlinesWatched
  <2>4. c \in Checks'
    <3>1. CASE c = e /\ IgnoredEffect(e)
      <4>1. all_requests[r].service_remaining > CheckEps /\ all_requests[r].service_remaining \in Nat
        BY <1>0, <1>3, StagesTypes DEF DeadlinesWatched, Request
      <4>2. all_requests[r].service_remaining <= CheckEps
        BY <2>3, <3>1 DEF Watches, IgnoredEffect
      <4> QED
        BY <4>1, <4>2, TimesAssumption
    <3>2. CASE c = e /\ GivesUpEffect(e)
      <4>1. r = e.req
        BY <2>3, <3>2 DEF Watches
      <4> QED
        BY <1>3, <3>2, <4>1, FieldsNext
    <3> QED
      BY <3>1, <3>2, ChecksLeft
  <2>5. c.seq \in Nat /\ c.seq <= seq_counter /\ seq_counter \in Nat
    BY <1>0, <2>3, StagesTypes DEF EventsOrdered, Checks
  <2>6. ASSUME NEW f \in evq', f.type = "THREAD_SLICE_END", thread_req'[f.thread] = r
        PROVE  c.seq < f.seq
    <3>1. CASE f \in evq \ {e}
      BY <1>1, <2>3, <2>6, <3>1 DEF Watches
    <3>2. CASE f.seq \in Nat /\ f.seq > seq_counter
      BY <2>5, <3>2
    <3> QED
      BY <2>6, <3>1, <3>2, SliceEnds
  <2>7. Watches(c, r)'
    BY <2>3, <2>6 DEF Watches
  <2> QED
    BY <2>4, <2>7
<1> QED
  BY <1>2, <1>3, UnservedNext

LEMMA WatchedAnswers ==
  ASSUME Steady, RequestsPlaced, VerdictsKept, DeadlinesWatched, NEW e \in evq, Effect(e),
         NEW a \in Answers'
  PROVE  all_requests'[a.req].timed_out \/ a.time < all_requests'[a.req].timeout_deadline
<1>0. TypeOK
  BY DEF Steady, PoolInv
<1>1. CASE a \in Answers
  <2>1. a.req \in ReqIds
    BY <1>0, <1>1, StagesTypes
  <2>2. all_requests'[a.req].timeout_deadline = all_requests[a.req].timeout_deadline
    BY <2>1, SubjectOnly
  <2>3. all_requests[a.req].timed_out => all_requests'[a.req].timed_out
    BY <2>1, FieldsNext
  <2> QED
    BY <1>1, <2>2, <2>3 DEF DeadlinesWatched
<1>2. CASE CompletesEffect(e) /\ a.req = thread_req[e.thread] /\ a.time = e.time
           /\ e.type = "THREAD_SLICE_END"
  <2> DEFINE r == a.req
  <2>1. r \in ReqIds /\ Unserved(r)
    BY <1>2, SliceFacts, ThreadKinds
  <2>2. all_requests'[r].timeout_deadline = all_requests[r].timeout_deadline
    BY <2>1, SubjectOnly
  <2>3. all_requests'[r].timed_out = all_requests[r].timed_out
    BY <1>2, <2>1, FieldsNext
  <2>4. CASE ~all_requests[r].timed_out
    <3>1. running /\ \A f \in evq : Before(e, f)
      BY EffectHandles DEF Handles
    <3>2. PICK c \in Checks : Watches(c, r)
      BY <2>1, <2>4, <3>1 DEF DeadlinesWatched
    <3>3. c.seq < e.seq /\ c.req = r /\ Before(e, c)
      BY <1>2, <3>1, <3>2 DEF Watches, Checks
    <3>4. c.time = all_requests[r].timeout_deadline
      BY <3>3 DEF VerdictsKept
    <3>5. c.seq \in Nat /\ e.seq \in Nat /\ c.time \in Nat /\ e.time \in Nat
      BY <1>0, StagesTypes DEF TypeOK, EventOf, Event
    <3>6. e.time < c.time
      BY <3>3, <3>5 DEF Before
    <3> QED
      BY <1>2, <2>2, <3>4, <3>6
  <2> QED
    BY <2>3, <2>4
<1> QED
  BY <1>1, <1>2, AnswersNext

LEMMA WatchedNext ==
  ASSUME GapAvoided, Steady, EventsOrdered, RequestsPlaced, WholeSlices, VerdictsKept,
         DeadlinesWatched, [Next]_vars
  PROVE  DeadlinesWatched'
<1>1. CASE \E e \in evq : Effect(e)
  <2>1. PICK e \in evq : Effect(e)
    BY <1>1
  <2>2. \A r \in ReqIds' : Unserved(r)' => all_requests'[r].service_remaining > CheckEps
    BY <2>1, WatchedRemaining
  <2>3. \A c, d \in Checks' : c.req = d.req => c = d
    BY <2>1, WatchedOnce
  <2>4. \A c \in Checks' : IF Unserved(c.req)' THEN ~all_requests'[c.req].timed_out
                           ELSE all_requests'[c.req].completion_time # -1
    BY <2>1, WatchedChecks
  <2>5. \A r \in ReqIds' : Unserved(r)' /\ ~all_requests'[r].timed_out =>
          \E c \in Checks' : Watches(c, r)'
    BY <2>1, WatchesNext
  <2>6. \A a \in Answers' : \/ all_requests'[a.req].timed_out
                            \/ a.time < all_requests'[a.req].timeout_deadline
    BY <2>1, WatchedAnswers
  <2> HIDE DEF Unserved
  <2> QED
    BY <2>2, <2>3, <2>4, <2>5, <2>6 DEF DeadlinesWatched
<1>2. CASE LoopEnds
  <2>1. /\ evq' \subseteq evq /\ running' = FALSE
        /\ UNCHANGED <<all_requests, waiting_requests, thread_req>>
    BY <1>2 DEF LoopEnds
  <2>2. /\ ReqIds' = ReqIds /\ Checks' \subseteq Checks /\ Answers' \subseteq Answers
        /\ \A r : Unserved(r)' <=> Unserved(r)
    BY <2>1, UnservedKept DEF ReqIds, Checks, Answers
  <2> HIDE DEF Unserved
  <2> QED
    BY <2>1, <2>2 DEF DeadlinesWatched
<1>3. CASE UNCHANGED vars
  <2>1. UNCHANGED <<evq, running, all_requests, waiting_requests, thread_req>>
    BY <1>3 DEF vars
  <2>2. /\ ReqIds' = ReqIds /\ Checks' = Checks /\ Answers' = Answers
        /\ \A r : Unserved(r)' <=> Unserved(r)
        /\ \A c, r : Watches(c, r)' <=> Watches(c, r)
    BY <2>1, UnservedKept DEF ReqIds, Checks, Answers, Watches
  <2> HIDE DEF Unserved
  <2> QED
    BY <2>1, <2>2 DEF DeadlinesWatched
<1> QED
  BY <1>1, <1>2, <1>3, StepHasEffect

LEMMA WatchedInvariant ==
  ASSUME GapAvoided PROVE Spec => []DeadlinesWatched
<1>1. Init => DeadlinesWatched
  <2> SUFFICES ASSUME Init PROVE DeadlinesWatched
    OBVIOUS
  <2>1. Checks = {} /\ Answers = {}
    BY DEF Init, Checks, Answers, UserArrival, Ev
  <2>2. ReqIds = {}
    BY DEF Init, ReqIds
  <2> QED
    BY <2>1, <2>2 DEF DeadlinesWatched
<1>2. Steady /\ EventsOrdered /\ RequestsPlaced /\ WholeSlices /\ VerdictsKept /\ DeadlinesWatched
        /\ [Next]_vars => DeadlinesWatched'
  BY WatchedNext
<1> QED
  BY <1>1, <1>2, SteadyInvariant, EventsInvariant, PlacedInvariant, WholeInvariant,
     VerdictsInvariant, PTL DEF Spec

\* Who still waits for an answer.
LEMMA AwaitedParts ==
  \A r \in ReqIds : Awaited(r) <=> /\ Unserved(r) \/ \E a \in Answers : a.req = r
                                   /\ ~all_requests[r].timed_out
  BY DEF Awaited, InServer, Unserved, Pending, Answers

AwaitedInTime == \A r \in ReqIds : Awaited(r) => now <= all_requests[r].timeout_deadline

\* The pending event that ends the wait for request r.
LEMMA AwaitedEnds ==
  ASSUME TypeOK, VerdictsKept, DeadlinesWatched, running, NEW r \in ReqIds, Awaited(r)
  PROVE  \E f \in evq : f.time <= all_requests[r].timeout_deadline
<1>1. all_requests[r].timeout_deadline \in Nat
  BY StagesTypes DEF Request
<1>2. CASE Unserved(r)
  <2>1. PICK c \in Checks : Watches(c, r)
    BY <1>2, AwaitedParts DEF DeadlinesWatched
  <2>2. c \in evq /\ c.time = all_requests[r].timeout_deadline
    BY <2>1 DEF Watches, VerdictsKept, Checks
  <2> QED
    BY <1>1, <2>2
<1>3. CASE \E a \in Answers : a.req = r
  <2>1. PICK a \in Answers : a.req = r
    BY <1>3
  <2>2. a \in evq /\ a.time \in Nat /\ a.time < all_requests[r].timeout_deadline
    BY <2>1, AwaitedParts, StagesTypes DEF DeadlinesWatched, Answers
  <2> QED
    BY <1>1, <2>2
<1> QED
  BY <1>2, <1>3, AwaitedParts

\* Nobody is told two different things about a request: a completion is before
\* its deadline and no user that gave up is answered, a request is given up
\* once its deadline has come, and none is awaited past it, whatever the
\* policy, the sizes and the times that avoid the gap between the thresholds
\* of handle_slice_end and handle_request_timeout.
THEOREM VerdictsNeverDiffer ==
  ASSUME GapAvoided PROVE Spec => []VerdictsAgree
<1>1. ASSUME Steady, EventsOrdered, VerdictsKept, DeadlinesWatched, running PROVE AwaitedInTime
  <2> SUFFICES ASSUME NEW r \in ReqIds, Awaited(r) PROVE now <= all_requests[r].timeout_deadline
    BY DEF AwaitedInTime
  <2>1. PICK f \in evq : f.time <= all_requests[r].timeout_deadline
    BY <1>1, AwaitedEnds DEF Steady, PoolInv
  <2>2. now <= f.time /\ now \in Nat /\ f.time \in Nat /\ all_requests[r].timeout_deadline \in Nat
    BY <1>1, StagesTypes DEF EventsOrdered, Steady, PoolInv, TypeOK, EventOf, Event, Request
  <2> QED
    BY <2>1, <2>2
<1>2. ASSUME Steady, Steady', EventsOrdered, VerdictsKept, DeadlinesWatched, AwaitedInTime,
             (running => AwaitedInTime)', [Next]_vars
      PROVE  AwaitedInTime'
  <2>1. CASE \E e \in evq : Effect(e)
    BY <1>2, <2>1, EffectHandles DEF Handles
  <2>2. CASE UNCHANGED vars
    BY <1>2, <2>2 DEF vars, AwaitedInTime, Awaited, InServer, Pending, ReqIds
  <2>3. CASE LoopEnds
    <3>1. /\ running /\ evq' \subseteq evq
          /\ UNCHANGED <<all_requests, waiting_requests, thread_req>>
      BY <2>3 DEF LoopEnds
    <3>2. ReqIds' = ReqIds /\ \A r \in ReqIds : Awaited(r)' => Awaited(r)
      BY <3>1 DEF ReqIds, Awaited, InServer, Pending
    <3> SUFFICES ASSUME NEW r \in ReqIds, Awaited(r)
                 PROVE  now' <= all_requests[r].timeout_deadline
      BY <3>1, <3>2 DEF AwaitedInTime
    <3>3. PICK f \in evq : f.time <= all_requests[r].timeout_deadline
      BY <1>2, <3>1, AwaitedEnds DEF Steady, PoolInv
    <3>4. PICK e \in evq : now' = e.time /\ \A g \in evq : Before(e, g)
      BY <2>3, <3>3 DEF LoopEnds
    <3>5. e.time \in Nat /\ f.time \in Nat /\ all_requests[r].timeout_deadline \in Nat
      BY <1>2, StagesTypes DEF Steady, PoolInv, TypeOK, EventOf, Event, Request
    <3>6. e.time <= f.time
      BY <3>4, <3>5 DEF Before
    <3> QED
      BY <3>3, <3>4, <3>5, <3>6
  <2> QED
    BY <1>2, <2>1, <2>2, <2>3, StepHasEffect
<1>3. Init => AwaitedInTime
  <2> SUFFICES ASSUME Init PROVE AwaitedInTime
    OBVIOUS
  <2>1. ReqIds = {}
    BY DEF Init, ReqIds
  <2> QED
    BY <2>1 DEF AwaitedInTime
<1>4. VerdictsKept /\ AwaitedInTime => VerdictsAgree
  BY DEF VerdictsKept, VerdictOf, AwaitedInTime, VerdictsAgree
<1>5. Steady /\ EventsOrdered /\ VerdictsKept /\ DeadlinesWatched /\ running => AwaitedInTime
  BY <1>1
<1>6. Steady /\ Steady' /\ EventsOrdered /\ VerdictsKept /\ DeadlinesWatched /\ AwaitedInTime
        /\ (running => AwaitedInTime)' /\ [Next]_vars => AwaitedInTime'
  BY <1>2
<1> QED
  BY <1>3, <1>4, <1>5, <1>6, SteadyInvariant, EventsInvariant, VerdictsInvariant,
     WatchedInvariant, PTL DEF Spec

-----------------------------------------------------------------------------
(* The users go on. *)

\* What ends and what begins the wait for a request.
LEMMA AwaitedNext ==
  ASSUME Steady, RequestsPlaced, VerdictsKept, DeadlinesWatched, NEW e \in evq, Effect(e)
  PROVE  /\ \A r \in ReqIds : Awaited(r)' <=>
              Awaited(r) /\ ~((InTimeEffect(e) \/ GivesUpEffect(e)) /\ r = e.req)
         /\ \A r \in ReqIds' \ ReqIds : Awaited(r)' <=> RunsEffect(e) \/ WaitsEffect(e)
         /\ InTimeEffect(e) \/ GivesUpEffect(e) => e.req \in ReqIds /\ Awaited(e.req)
         /\ InTimeEffect(e) \/ LateEffect(e) \/ GivesUpEffect(e) => e.req \in ReqIds
         /\ LateEffect(e) => all_requests[e.req].timed_out
<1>0. TypeOK
  BY DEF Steady, PoolInv
<1> DEFINE Asked(r) == \E a \in Answers : a.req = r
<1>1. /\ \A r : Awaited(r) <=> (Unserved(r) \/ Asked(r)) /\ ~all_requests[r].timed_out
      /\ \A r : Awaited(r)' <=> (Unserved(r)' \/ Asked(r)') /\ ~all_requests'[r].timed_out
  BY DEF Awaited, InServer, Unserved, Pending, Answers
<1>2. \A r \in ReqIds : r \in ReqIds' /\ r # NextId
  BY <1>0, StagesTypes, SubjectOnly
<1>3. \A r \in ReqIds : Asked(r) => /\ all_requests[r].completion_time # -1 /\ ~Unserved(r)
                                    /\ all_requests[r].service_remaining = 0
  <2> TAKE r \in ReqIds
  <2>1. SUFFICES ASSUME Asked(r)
                 PROVE  /\ all_requests[r].completion_time # -1 /\ ~Unserved(r)
                        /\ all_requests[r].service_remaining = 0
    OBVIOUS
  <2>2. all_requests[r].completion_time # -1
    BY <1>0, <2>1, StagesTypes DEF RequestsPlaced
  <2>3. ~Unserved(r)
    BY <2>2 DEF RequestsPlaced
  <2>4. VerdictOf(r)
    BY DEF VerdictsKept
  <2> QED
    BY <2>2, <2>3, <2>4 DEF VerdictOf
<1> HIDE DEF Unserved
<1>4. CASE RunsEffect(e) \/ WaitsEffect(e)
  <2>1. /\ Creates(e) /\ e.time \in Nat /\ e.type = "USER_ARRIVAL" /\ Answers' = Answers
        /\ \A r \in ReqIds' : Unserved(r)' <=> Unserved(r) \/ r = NextId
    BY <1>4, AdmittedStages
  <2>2. /\ ReqIds' = ReqIds \cup {NextId} /\ \A r \in ReqIds : all_requests'[r] = all_requests[r]
        /\ all_requests'[NextId].timed_out = FALSE
    BY <1>0, <2>1, RequestCreated
  <2>3. ~InTimeEffect(e) /\ ~GivesUpEffect(e) /\ ~LateEffect(e)
    BY <2>1 DEF InTimeEffect, GivesUpEffect, LateEffect, Handles
  <2>4. \A r : Asked(r)' <=> Asked(r)
    BY <2>1
  <2> HIDE DEF Asked
  <2> QED
    BY <1>1, <1>2, <1>4, <2>1, <2>2, <2>3, <2>4
<1>5. CASE DroppedEffect(e)
  <2>1. /\ Creates(e) /\ e.time \in Nat /\ e.type = "USER_ARRIVAL" /\ Answers' = Answers
        /\ \A r : Unserved(r)' <=> Unserved(r)
    BY <1>5, DroppedStages
  <2>2. /\ ReqIds' = ReqIds \cup {NextId} /\ \A r \in ReqIds : all_requests'[r] = all_requests[r]
        /\ NextId \in Nat \ {0} /\ NextId \notin ReqIds
    BY <1>0, <2>1, RequestCreated
  <2>3. ~InTimeEffect(e) /\ ~GivesUpEffect(e) /\ ~LateEffect(e) /\ ~RunsEffect(e) /\ ~WaitsEffect(e)
    <3>1. dropped_requests' = dropped_requests + 1 /\ dropped_requests \in Nat
      BY <1>0, <1>5 DEF DroppedEffect, Drops, TypeOK
    <3>2. dropped_requests' # dropped_requests
      BY <3>1
    <3> QED
      BY <2>1, <3>2 DEF InTimeEffect, GivesUpEffect, LateEffect, Handles, RunsEffect, WaitsEffect,
         Admits, Queues
  <2>4. ~Unserved(NextId) /\ ~Asked(NextId)
    <3>1. NextId # NoReq
      BY <2>2 DEF NoReq
    <3> QED
      BY <1>0, <2>2, <3>1, StagesTypes
  <2>5. \A r : Asked(r)' <=> Asked(r)
    BY <2>1
  <2> HIDE DEF Asked
  <2> QED
    BY <1>1, <1>2, <2>1, <2>2, <2>3, <2>4, <2>5
<1>6. CASE CompletesEffect(e)
  <2> DEFINE q == thread_req[e.thread]
  <2>1. /\ \E n : Answers' = Answers \cup {n} /\ n.req = q
        /\ q \in ReqIds /\ Unserved(q) /\ OnlyRequest(q) /\ e.type = "THREAD_SLICE_END"
        /\ \A r \in ReqIds : Unserved(r)' <=> Unserved(r) /\ r # q
    BY <1>6, AnsweredStages
  <2>2. ~InTimeEffect(e) /\ ~GivesUpEffect(e) /\ ~LateEffect(e)
    BY <2>1 DEF InTimeEffect, GivesUpEffect, LateEffect, Handles
  <2>3. \A r \in ReqIds : all_requests'[r].timed_out = all_requests[r].timed_out
    BY <2>2, FieldsNext
  <2>4. \A r : Asked(r)' <=> Asked(r) \/ r = q
    BY <2>1
  <2>5. ReqIds' = ReqIds
    BY <2>1 DEF OnlyRequest
  <2> HIDE DEF Asked, q
  <2> QED
    BY <1>1, <2>1, <2>2, <2>3, <2>4, <2>5
<1>7. CASE StartsEffect(e) \/ AvailableEffect(e) \/ PreemptsEffect(e) \/ IgnoredEffect(e)
  <2>1. Answers' = Answers /\ \A r : Unserved(r)' <=> Unserved(r)
    BY <1>7, ThreadStages, CheckStages
  <2>2. ~InTimeEffect(e) /\ ~LateEffect(e) /\ ~GivesUpEffect(e)
    <3>1. CASE IgnoredEffect(e)
      <4>1. e \in Checks
        BY <3>1, CheckStages
      <4>2. all_requests[e.req].service_remaining \in Nat
        BY <1>0, <4>1, StagesTypes DEF Request
      <4> QED
        BY <3>1, <4>2, TimesAssumption DEF IgnoredEffect, GivesUpEffect, InTimeEffect, LateEffect, Handles
    <3>2. CASE StartsEffect(e) \/ AvailableEffect(e) \/ PreemptsEffect(e)
      BY <3>2 DEF GivesUpEffect, InTimeEffect, LateEffect, StartsEffect, AvailableEffect,
         PreemptsEffect, Handles
    <3> QED
      BY <1>7, <3>1, <3>2
  <2>3. \A r \in ReqIds : all_requests'[r].timed_out = all_requests[r].timed_out
    BY <2>2, FieldsNext
  <2>4. \A r \in ReqIds' : r \in ReqIds
    <3>3. CASE StartsEffect(e) \/ AvailableEffect(e) \/ IgnoredEffect(e)
      BY <3>3 DEF StartsEffect, AvailableEffect, IgnoredEffect, ReqIds
    <3>4. CASE PreemptsEffect(e)
      <4>1. e.type \in ThreadTypes
        BY <3>4, ThreadKinds DEF PreemptsEffect, Handles
      <4> QED
        BY <1>0, <3>4, <4>1, SliceFacts, PreemptsRequest DEF OnlyRequest
    <3> QED
      BY <1>7, <3>3, <3>4
  <2>5. \A r : Asked(r)' <=> Asked(r)
    BY <2>1
  <2> HIDE DEF Asked
  <2> QED
    BY <1>1, <2>1, <2>2, <2>3, <2>4, <2>5
<1>8. CASE GivesUpEffect(e)
  <2>1. Answers' = Answers /\ e \in Checks /\ \A r : Unserved(r)' <=> Unserved(r)
    BY <1>8, CheckStages
  <2>2. e.req \in ReqIds /\ OnlyRequest(e.req)
    BY <1>0, <1>8, <2>1, StagesTypes, GivenUpRequest
  <2>3. ~InTimeEffect(e) /\ ~LateEffect(e)
    BY <1>8 DEF GivesUpEffect, InTimeEffect, LateEffect, Handles
  <2>4. \A r \in ReqIds : /\ r = e.req => all_requests'[r].timed_out
                          /\ r # e.req => all_requests'[r].timed_out = all_requests[r].timed_out
    BY <1>8, FieldsNext
  <2>5. Unserved(e.req) /\ ~all_requests[e.req].timed_out
    <3>1. all_requests[e.req].service_remaining # 0
      BY <1>8, TimesAssumption DEF GivesUpEffect
    <3>2. all_requests[e.req].completion_time = -1
      BY <2>2, <3>1 DEF VerdictsKept, VerdictOf
    <3> QED
      BY <2>1, <3>2 DEF DeadlinesWatched
  <2>6. ReqIds' = ReqIds
    BY <2>2 DEF OnlyRequest
  <2>7. \A r : Asked(r)' <=> Asked(r)
    BY <2>1
  <2> HIDE DEF Asked
  <2> QED
    BY <1>1, <1>8, <2>1, <2>2, <2>3, <2>4, <2>5, <2>6, <2>7
<1>9. CASE InTimeEffect(e)
  <2>1. /\ Answers' = Answers \ {e} /\ e \in Answers /\ \A r : Unserved(r)' <=> Unserved(r)
        /\ e.req \in ReqIds /\ OnlyRequest(e.req)
    BY <1>9, CountedStages
  <2>2. ~LateEffect(e) /\ ~GivesUpEffect(e) /\ ~all_requests[e.req].timed_out
    BY <1>9 DEF GivesUpEffect, InTimeEffect, LateEffect, Handles, TooLate
  <2>3. \A r \in ReqIds : all_requests'[r].timed_out = all_requests[r].timed_out
    BY <2>2, FieldsNext
  <2>4. \A r : Asked(r)' <=> Asked(r) /\ r # e.req
    BY <2>1 DEF RequestsPlaced
  <2>5. Asked(e.req) /\ ReqIds' = ReqIds
    BY <2>1 DEF OnlyRequest
  <2> HIDE DEF Asked
  <2> QED
    BY <1>1, <1>3, <1>9, <2>1, <2>2, <2>3, <2>4, <2>5
<1>10. CASE LateEffect(e)
  <2>1. /\ Answers' = Answers \ {e} /\ e \in Answers /\ \A r : Unserved(r)' <=> Unserved(r)
        /\ e.req \in ReqIds /\ OnlyRequest(e.req) /\ e.time \in Nat
    BY <1>10, CountedStages
  <2>2. ~InTimeEffect(e) /\ ~GivesUpEffect(e) /\ TooLate(e.req, e.time)
    BY <1>10 DEF GivesUpEffect, InTimeEffect, LateEffect, Handles
  <2>3. all_requests[e.req].timed_out
    <3>1. all_requests[e.req].timeout_deadline \in Nat
      BY <1>0, <2>1, StagesTypes DEF Request
    <3>2. all_requests[e.req].timed_out \/ e.time < all_requests[e.req].timeout_deadline
      BY <2>1 DEF DeadlinesWatched
    <3> QED
      BY <2>1, <2>2, <3>1, <3>2 DEF TooLate
  <2>4. \A r \in ReqIds : all_requests'[r].timed_out <=> all_requests[r].timed_out
    BY <2>1, <2>3, FieldsNext
  <2>5. \A r : r # e.req => (Asked(r)' <=> Asked(r))
    BY <2>1
  <2>6. ReqIds' = ReqIds
    BY <2>1 DEF OnlyRequest
  <2> HIDE DEF Asked
  <2> QED
    BY <1>1, <2>1, <2>2, <2>3, <2>4, <2>5, <2>6
<1> QED
  BY <1>4, <1>5, <1>6, <1>7, <1>8, <1>9, <1>10 DEF Effect

\* The requests that user u waits for after a handler.
LEMMA AwaitedOfNext ==
  ASSUME Steady, RequestsPlaced, VerdictsKept, DeadlinesWatched, NEW e \in evq, Effect(e), NEW u
  PROVE  /\ RunsEffect(e) \/ WaitsEffect(e) =>
              AwaitedOf(u)' = IF u = e.user THEN AwaitedOf(u) \cup {NextId} ELSE AwaitedOf(u)
         /\ InTimeEffect(e) \/ GivesUpEffect(e) =>
              /\ AwaitedOf(u)' = AwaitedOf(u) \ {e.req}
              /\ e.req \in AwaitedOf(u) <=> u = all_requests[e.req].user_id
         /\ ~(RunsEffect(e) \/ WaitsEffect(e) \/ InTimeEffect(e) \/ GivesUpEffect(e)) =>
              AwaitedOf(u)' = AwaitedOf(u)
<1>0. TypeOK
  BY DEF Steady, PoolInv
<1>1. \A r \in ReqIds : r \in ReqIds' /\ all_requests'[r].user_id = all_requests[r].user_id
  BY SubjectOnly
<1>2. \A r \in ReqIds : r \in AwaitedOf(u)' <=>
         r \in AwaitedOf(u) /\ ~((InTimeEffect(e) \/ GivesUpEffect(e)) /\ r = e.req)
  BY <1>1, AwaitedNext DEF AwaitedOf
<1>3. /\ InTimeEffect(e) \/ GivesUpEffect(e) => e.req \in ReqIds /\ Awaited(e.req)
      /\ \A r \in ReqIds' \ ReqIds : Awaited(r)' <=> RunsEffect(e) \/ WaitsEffect(e)
  BY AwaitedNext
<1>4. /\ \A r : r \in AwaitedOf(u) <=> r \in ReqIds /\ all_requests[r].user_id = u /\ Awaited(r)
      /\ \A r : r \in AwaitedOf(u)' <=> r \in ReqIds' /\ all_requests'[r].user_id = u /\ Awaited(r)'
  BY DEF AwaitedOf
<1>5. CASE RunsEffect(e) \/ WaitsEffect(e)
  <2>1. Creates(e) /\ e.time \in Nat /\ e.type = "USER_ARRIVAL"
    BY <1>5, AdmittedStages
  <2>2. /\ ReqIds' = ReqIds \cup {NextId} /\ NextId \notin ReqIds /\ all_requests'[NextId].user_id = e.user
    BY <1>0, <2>1, RequestCreated
  <2>3. ~InTimeEffect(e) /\ ~GivesUpEffect(e)
    BY <2>1 DEF InTimeEffect, GivesUpEffect, Handles
  <2> HIDE DEF AwaitedOf, Awaited, Effect, ReqIds, NextId
  <2>4. NextId \in AwaitedOf(u)' <=> u = e.user
    BY <1>3, <1>4, <1>5, <2>2
  <2>5. \A r : r \in AwaitedOf(u)' <=> r \in AwaitedOf(u) \/ (r = NextId /\ u = e.user)
    BY <1>2, <1>4, <2>2, <2>3, <2>4
  <2>6. AwaitedOf(u)' = IF u = e.user THEN AwaitedOf(u) \cup {NextId} ELSE AwaitedOf(u)
    BY <2>5
  <2> QED
    BY <1>5, <2>3, <2>6
<1>6. CASE ~(RunsEffect(e) \/ WaitsEffect(e))
  <2> HIDE DEF AwaitedOf, Awaited, Effect, ReqIds
  <2>1. \A r : r \in AwaitedOf(u)' => r \in ReqIds
    BY <1>3, <1>4, <1>6
  <2>2. \A r : r \in AwaitedOf(u)' <=>
          r \in AwaitedOf(u) /\ ~((InTimeEffect(e) \/ GivesUpEffect(e)) /\ r = e.req)
    BY <1>2, <1>4, <2>1
  <2>3. CASE InTimeEffect(e) \/ GivesUpEffect(e)
    <3>1. AwaitedOf(u)' = AwaitedOf(u) \ {e.req}
      BY <2>2, <2>3
    <3> QED
      BY <1>3, <1>4, <1>6, <2>3, <3>1
  <2>4. CASE ~(InTimeEffect(e) \/ GivesUpEffect(e))
    <3>1. AwaitedOf(u)' = AwaitedOf(u)
      BY <2>2, <2>4
    <3> QED
      BY <1>6, <2>4, <3>1
  <2> QED
    BY <2>3, <2>4
<1> QED
  BY <1>5, <1>6

LEMMA TokensEffect ==
  ASSUME CLOSED_LOOP, Steady, RequestsPlaced, VerdictsKept, DeadlinesWatched, Tokens,
         NEW e \in evq, Effect(e)
  PROVE  Tokens'
<1>0. TypeOK /\ running
  BY EffectHandles DEF Steady, PoolInv, Handles
<1> SUFFICES ASSUME NEW u \in Users
             PROVE  \/ AwaitedOf(u)' = {} /\ \E a \in Arrivals(u)' : Arrivals(u)' = {a}
                    \/ Arrivals(u)' = {} /\ \E r \in AwaitedOf(u)' : AwaitedOf(u)' = {r}
  BY DEF Tokens
<1>1. \/ AwaitedOf(u) = {} /\ \E a \in Arrivals(u) : Arrivals(u) = {a}
      \/ Arrivals(u) = {} /\ \E r \in AwaitedOf(u) : AwaitedOf(u) = {r}
  BY <1>0 DEF Tokens
<1>2. CASE RunsEffect(e) \/ WaitsEffect(e)
  <2>1. e.type = "USER_ARRIVAL" /\ Arrivals(u)' = Arrivals(u) \ {e}
    BY <1>2, AdmittedStages
  <2>2. e \in Arrivals(u) <=> u = e.user
    BY <2>1 DEF Arrivals
  <2>3. AwaitedOf(u)' = IF u = e.user THEN AwaitedOf(u) \cup {NextId} ELSE AwaitedOf(u)
    BY <1>2, AwaitedOfNext
  <2> HIDE DEF Arrivals, AwaitedOf
  <2>4. CASE u = e.user
    <3>1. AwaitedOf(u) = {} /\ Arrivals(u) = {e}
      BY <1>1, <2>2, <2>4
    <3>2. Arrivals(u)' = {} /\ AwaitedOf(u)' = {NextId}
      BY <2>1, <2>3, <2>4, <3>1
    <3> QED
      BY <3>2
  <2>5. CASE u # e.user
    <3>1. Arrivals(u)' = Arrivals(u) /\ AwaitedOf(u)' = AwaitedOf(u)
      BY <2>1, <2>2, <2>3, <2>5
    <3> QED
      BY <1>1, <3>1
  <2> QED
    BY <2>4, <2>5
<1>3. CASE DroppedEffect(e)
  <2>1. e.type = "USER_ARRIVAL"
    BY <1>3, DroppedStages
  <2>2. PICK n : Arrivals(u)' = (Arrivals(u) \ {e}) \cup (IF u = e.user THEN {n} ELSE {})
    BY <1>3, DroppedStages
  <2>3. e \in Arrivals(u) <=> u = e.user
    BY <2>1 DEF Arrivals
  <2>4. AwaitedOf(u)' = AwaitedOf(u)
    <3>1. dropped_requests' = dropped_requests + 1 /\ dropped_requests \in Nat
      BY <1>0, <1>3 DEF DroppedEffect, Drops, TypeOK
    <3>2. dropped_requests' # dropped_requests
      BY <3>1
    <3>3. ~InTimeEffect(e) /\ ~GivesUpEffect(e) /\ ~RunsEffect(e) /\ ~WaitsEffect(e)
      BY <2>1, <3>2 DEF InTimeEffect, GivesUpEffect, Handles, RunsEffect, WaitsEffect, Admits, Queues
    <3> QED
      BY <3>3, AwaitedOfNext
  <2> HIDE DEF Arrivals, AwaitedOf
  <2>5. CASE u = e.user
    <3>1. AwaitedOf(u) = {} /\ Arrivals(u) = {e}
      BY <1>1, <2>3, <2>5
    <3>2. Arrivals(u)' = {n} /\ AwaitedOf(u)' = {}
      BY <2>2, <2>4, <2>5, <3>1
    <3> QED
      BY <3>2
  <2>6. CASE u # e.user
    <3>1. Arrivals(u)' = Arrivals(u)
      BY <2>2, <2>3, <2>6
    <3> QED
      BY <1>1, <2>4, <3>1
  <2> QED
    BY <2>5, <2>6
<1>4. CASE InTimeEffect(e) \/ GivesUpEffect(e)
  <2> DEFINE v == all_requests[e.req].user_id
  <2>1. \E n : \A w : Arrivals(w)' = IF w = v THEN Arrivals(w) \cup {n} ELSE Arrivals(w)
    BY <1>4, CountedStages, CheckStages
  <2>2. PICK n : Arrivals(u)' = IF u = v THEN Arrivals(u) \cup {n} ELSE Arrivals(u)
    BY <2>1
  <2>3. AwaitedOf(u)' = AwaitedOf(u) \ {e.req} /\ (e.req \in AwaitedOf(u) <=> u = v)
    BY <1>4, AwaitedOfNext
  <2> HIDE DEF Arrivals, AwaitedOf, v
  <2>4. CASE u = v
    <3>1. Arrivals(u) = {} /\ AwaitedOf(u) = {e.req}
      BY <1>1, <2>3, <2>4
    <3>2. Arrivals(u)' = {n} /\ AwaitedOf(u)' = {}
      BY <2>2, <2>3, <2>4, <3>1
    <3> QED
      BY <3>2
  <2>5. CASE u # v
    <3>1. Arrivals(u)' = Arrivals(u) /\ AwaitedOf(u)' = AwaitedOf(u)
      BY <2>2, <2>3, <2>5
    <3> QED
      BY <1>1, <3>1
  <2> QED
    BY <2>4, <2>5
<1>5. CASE ~(RunsEffect(e) \/ WaitsEffect(e) \/ DroppedEffect(e) \/ InTimeEffect(e) \/ GivesUpEffect(e))
  <2>1. AwaitedOf(u)' = AwaitedOf(u)
    BY <1>5, AwaitedOfNext
  <2>2. Arrivals(u)' = Arrivals(u)
    <3>1. CASE StartsEffect(e) \/ AvailableEffect(e) \/ PreemptsEffect(e)
      BY <3>1, ThreadStages
    <3>2. CASE CompletesEffect(e)
      BY <3>2, AnsweredStages
    <3>3. CASE LateEffect(e)
      BY <3>3, CountedStages
    <3>4. CASE IgnoredEffect(e)
      BY <3>4, CheckStages
    <3> QED
      BY <1>5, <3>1, <3>2, <3>3, <3>4 DEF Effect
  <2> QED
    BY <1>1, <2>1, <2>2
<1> QED
  BY <1>2, <1>3, <1>4, <1>5

LEMMA TokensInit == Init => Tokens
<1> SUFFICES ASSUME Init PROVE Tokens
  OBVIOUS
<1>1. PICK start \in [Users -> StartTimes] :
        evq = {[UserArrival(start[u], u) EXCEPT !.seq = u + 1] : u \in Users}
  BY DEF Init
<1> DEFINE n(u) == [UserArrival(start[u], u) EXCEPT !.seq = u + 1]
<1>2. \A u \in Users : n(u).type = "USER_ARRIVAL" /\ n(u).user = u
  BY DEF UserArrival, Ev
<1>3. evq = {n(u) : u \in Users}
  BY <1>1
<1> HIDE DEF n
<1>4. \A u \in Users : Arrivals(u) = {n(u)}
  BY <1>2, <1>3 DEF Arrivals
<1>5. ReqIds = {}
  BY DEF Init, ReqIds
<1>6. \A u \in Users : AwaitedOf(u) = {}
  BY <1>5 DEF AwaitedOf
<1> QED
  BY <1>4, <1>6 DEF Tokens

LEMMA TokensInvariant ==
  ASSUME CLOSED_LOOP, GapAvoided PROVE Spec => []Tokens
<1>1. ASSUME Steady, RequestsPlaced, VerdictsKept, DeadlinesWatched, Tokens, [Next]_vars
      PROVE  Tokens'
  <2>1. CASE \E e \in evq : Effect(e)
    BY <1>1, <2>1, TokensEffect
  <2>2. CASE LoopEnds
    <3>1. ~running'
      BY <2>2 DEF LoopEnds
    <3> QED
      BY <3>1 DEF Tokens
  <2>3. CASE UNCHANGED vars
    <3>1. UNCHANGED <<evq, running, all_requests, waiting_requests, thread_req>>
      BY <2>3 DEF vars
    <3>2. \A u : Arrivals(u)' = Arrivals(u)
      BY <3>1 DEF Arrivals
    <3>3. \A u : AwaitedOf(u)' = AwaitedOf(u)
      BY <3>1 DEF AwaitedOf, Awaited, InServer, Pending, ReqIds
    <3> HIDE DEF Arrivals, AwaitedOf
    <3> QED
      BY <1>1, <3>1, <3>2, <3>3 DEF Tokens
  <2> QED
    BY <1>1, <2>1, <2>2, <2>3, StepHasEffect
<1>2. Steady /\ RequestsPlaced /\ VerdictsKept /\ DeadlinesWatched /\ Tokens /\ [Next]_vars => Tokens'
  BY <1>1
<1> QED
  BY <1>2, TokensInit, SteadyInvariant, PlacedInvariant, VerdictsInvariant, WatchedInvariant,
     PTL DEF Spec

\* Every user of the closed loop either thinks, with one arrival ahead of it,
\* or waits for one answer: an answer racing its deadline wakes the user
\* exactly once, whatever the sizes, the policy and the times that avoid the
\* gap between the two thresholds.
THEOREM UsersKeepOneToken ==
  ASSUME CLOSED_LOOP, GapAvoided PROVE Spec => []OneTokenPerUser
<1>1. ASSUME Tokens PROVE OneTokenPerUser
  <2> SUFFICES ASSUME running, NEW u \in Users
               PROVE  Cardinality(Arrivals(u)) + Cardinality(AwaitedOf(u)) = 1
    BY DEF OneTokenPerUser, Arrivals, AwaitedOf
  <2>1. \/ AwaitedOf(u) = {} /\ \E a : Arrivals(u) = {a}
        \/ Arrivals(u) = {} /\ \E r : AwaitedOf(u) = {r}
    BY <1>1 DEF Tokens
  <2> HIDE DEF Arrivals, AwaitedOf
  <2>2. /\ AwaitedOf(u) = {} => Cardinality(AwaitedOf(u)) = 0
        /\ Arrivals(u) = {} => Cardinality(Arrivals(u)) = 0
    BY FS_EmptySet
  <2>3. /\ \A a : Arrivals(u) = {a} => Cardinality(Arrivals(u)) = 1
        /\ \A r : AwaitedOf(u) = {r} => Cardinality(AwaitedOf(u)) = 1
    BY FS_Singleton
  <2>4. CASE Cardinality(Arrivals(u)) = 1 /\ Cardinality(AwaitedOf(u)) = 0
    BY <2>4
  <2>5. CASE Cardinality(Arrivals(u)) = 0 /\ Cardinality(AwaitedOf(u)) = 1
    BY <2>5
  <2>6. \/ Cardinality(Arrivals(u)) = 1 /\ Cardinality(AwaitedOf(u)) = 0
        \/ Cardinality(Arrivals(u)) = 0 /\ Cardinality(AwaitedOf(u)) = 1
    BY <2>1, <2>2, <2>3, Zenon
  <2> QED
    BY <2>4, <2>5, <2>6
<1>2. Tokens => OneTokenPerUser
  BY <1>1
<1> QED
  BY <1>2, TokensInvariant, PTL


-----------------------------------------------------------------------------
(* The loop of the users, as UserLoop tells it. *)

AnsweredIds == {completed_requests[i] : i \in DOMAIN completed_requests}
GivenUpIds == {r \in ReqIds : all_requests[r].timed_out}

\* The request a user with the awaited requests S waits for.
Wait(open, S) == IF open /\ S # {} THEN CHOOSE r \in S : TRUE ELSE 0

LEMMA WaitIs ==
  /\ \A S : Wait(FALSE, S) = 0
  /\ \A b : Wait(b, {}) = 0
  /\ \A r : Wait(TRUE, {r}) = r
  BY DEF Wait

\* The requests created by a handler.
LEMMA SentNext ==
  ASSUME Steady, NEW e \in evq, Effect(e)
  PROVE  /\ RunsEffect(e) \/ WaitsEffect(e) \/ DroppedEffect(e) =>
              Len(all_requests)' = NextId /\ ReqIds' = ReqIds \cup {NextId}
         /\ ~(RunsEffect(e) \/ WaitsEffect(e) \/ DroppedEffect(e)) =>
              Len(all_requests)' = Len(all_requests) /\ ReqIds' = ReqIds
<1>0. TypeOK /\ all_requests \in Seq(Request)
  BY DEF Steady, PoolInv, TypeOK
<1>1. CASE RunsEffect(e) \/ WaitsEffect(e) \/ DroppedEffect(e)
  <2>1. PICK q : all_requests' = Append(all_requests, q)
    BY <1>1 DEF RunsEffect, WaitsEffect, DroppedEffect, Creates
  <2>2. /\ Len(all_requests') = NextId
        /\ DOMAIN all_requests' = 1 .. NextId /\ DOMAIN all_requests = 1 .. NextId - 1
        /\ NextId \in Nat \ {0}
    BY <1>0, <2>1 DEF NextId
  <2> QED
    BY <1>1, <2>2 DEF ReqIds
<1>2. CASE ~(RunsEffect(e) \/ WaitsEffect(e) \/ DroppedEffect(e))
  <2>1. \/ all_requests' = all_requests
        \/ \E r, q : all_requests' = [all_requests EXCEPT ![r] = q]
    BY <1>2, Zenon DEF Effect, StartsEffect, CompletesEffect, PreemptsEffect, AvailableEffect,
             InTimeEffect, LateEffect, IgnoredEffect, GivesUpEffect
  <2>2. Len(all_requests') = Len(all_requests) /\ DOMAIN all_requests' = DOMAIN all_requests
    BY <1>0, <2>1
  <2> QED
    BY <1>2, <2>2 DEF ReqIds
<1> QED
  BY <1>1, <1>2

\* A request is answered in time, or given up, by the handler that ends the wait
\* for it; an answer that comes late changes neither.
LEMMA OutcomesNext ==
  ASSUME Steady, RequestsPlaced, VerdictsKept, DeadlinesWatched, NEW e \in evq, Effect(e)
  PROVE  /\ InTimeEffect(e) => AnsweredIds' = AnsweredIds \cup {e.req}
         /\ ~InTimeEffect(e) => AnsweredIds' = AnsweredIds
         /\ GivesUpEffect(e) => GivenUpIds' = GivenUpIds \cup {e.req}
         /\ ~GivesUpEffect(e) => GivenUpIds' = GivenUpIds
<1>0. TypeOK /\ completed_requests \in Seq(ReqIds)
  BY DEF Steady, PoolInv, TypeOK
<1>1. /\ InTimeEffect(e) => AnsweredIds' = AnsweredIds \cup {e.req}
      /\ ~InTimeEffect(e) => AnsweredIds' = AnsweredIds
  <2>1. CASE InTimeEffect(e)
    <3>1. e.req \in ReqIds /\ completed_requests' = Append(completed_requests, e.req)
      BY <2>1, CountedStages DEF InTimeEffect
    <3>2. ToSet(completed_requests') = ToSet(completed_requests) \cup {e.req}
      BY <1>0, <3>1, AppendDistinct
    <3> QED
      BY <2>1, <3>2 DEF AnsweredIds, ToSet
  <2>2. CASE ~InTimeEffect(e)
    <3>1. completed_requests' = completed_requests
      BY <2>2 DEF Effect, RunsEffect, WaitsEffect, DroppedEffect, Creates, StartsEffect,
           CompletesEffect, PreemptsEffect, AvailableEffect, LateEffect, IgnoredEffect, GivesUpEffect
    <3> QED
      BY <2>2, <3>1 DEF AnsweredIds
  <2> QED
    BY <2>1, <2>2
<1>2. GivenUpIds' \cap ReqIds = {q \in ReqIds : all_requests'[q].timed_out}
  BY SubjectOnly DEF GivenUpIds
<1>3. GivesUpEffect(e) => GivenUpIds' \cap ReqIds = GivenUpIds \cup {e.req}
  <2> SUFFICES ASSUME GivesUpEffect(e) PROVE GivenUpIds' \cap ReqIds = GivenUpIds \cup {e.req}
    OBVIOUS
  <2>1. /\ e.req \in ReqIds /\ all_requests'[e.req].timed_out = TRUE
        /\ \A q \in ReqIds : q # e.req => all_requests'[q].timed_out = all_requests[q].timed_out
    BY AwaitedNext, FieldsNext
  <2> QED
    BY <1>2, <2>1 DEF GivenUpIds
<1>4. ~GivesUpEffect(e) => GivenUpIds' \cap ReqIds = GivenUpIds
  <2> SUFFICES ASSUME ~GivesUpEffect(e) PROVE GivenUpIds' \cap ReqIds = GivenUpIds
    OBVIOUS
  <2>1. ASSUME NEW q \in ReqIds
        PROVE  all_requests'[q].timed_out <=> all_requests[q].timed_out
    <3>1. CASE LateEffect(e) /\ q = e.req
      BY <3>1, AwaitedNext, FieldsNext
    <3> QED
      BY <3>1, FieldsNext
  <2> QED
    BY <1>2, <2>1 DEF GivenUpIds
<1>5. GivenUpIds' \subseteq ReqIds
  <2>1. ASSUME NEW r \in ReqIds', r \notin ReqIds PROVE ~all_requests'[r].timed_out
    <3>1. Creates(e) /\ e.time \in Nat /\ r = NextId
      BY <2>1, RequestsNew
    <3> QED
      BY <1>0, <3>1, RequestCreated
  <2> QED
    BY <2>1 DEF GivenUpIds
<1> QED
  BY <1>1, <1>3, <1>4, <1>5

LEMMA LoopInit == Init => Loop!Init
<1> SUFFICES ASSUME Init PROVE Loop!Init
  OBVIOUS
<1>1. ReqIds = {} /\ Len(all_requests) = 0 /\ completed_requests = <<>> /\ running = TRUE
  BY DEF Init, ReqIds
<1>2. \A u \in Users : AwaitedBy(u) = 0
  BY <1>1 DEF AwaitedBy
<1>3. {completed_requests[i] : i \in DOMAIN completed_requests} = {}
  BY <1>1
<1> QED
  BY <1>1, <1>2, <1>3 DEF Loop!Init

LEMMA AwaitedByIs ==
  /\ \A u : AwaitedBy(u) = Wait(running, AwaitedOf(u))
  /\ \A u : AwaitedBy(u)' = Wait(running', AwaitedOf(u)')
  BY DEF AwaitedBy, AwaitedOf, Wait

\* What a handler does to the users that wait.
LEMMA WaitersNext ==
  ASSUME CLOSED_LOOP, Steady, RequestsPlaced, VerdictsKept, DeadlinesWatched, Tokens,
         NEW e \in evq, Effect(e)
  PROVE  /\ RunsEffect(e) \/ WaitsEffect(e) =>
              /\ e.user \in Users /\ AwaitedBy(e.user) = 0 /\ AwaitedBy(e.user)' = NextId
              /\ \A u : u # e.user => AwaitedBy(u)' = AwaitedBy(u)
         /\ InTimeEffect(e) \/ GivesUpEffect(e) =>
              \E v \in Users :
                /\ AwaitedBy(v) = e.req /\ AwaitedBy(v)' = 0
                /\ \A u : u # v => AwaitedBy(u)' = AwaitedBy(u)
         /\ ~(RunsEffect(e) \/ WaitsEffect(e) \/ InTimeEffect(e) \/ GivesUpEffect(e)) =>
              \A u : AwaitedBy(u)' = AwaitedBy(u)
         /\ DroppedEffect(e) => e.user \in Users /\ AwaitedBy(e.user) = 0
<1>0. TypeOK /\ running = TRUE /\ running' = TRUE
  BY EffectHandles DEF Steady, PoolInv, Handles, TypeOK
<1>1. \A u : AwaitedBy(u) = Wait(TRUE, AwaitedOf(u)) /\ AwaitedBy(u)' = Wait(TRUE, AwaitedOf(u)')
  BY <1>0, AwaitedByIs
<1>2. \A u \in Users : \/ AwaitedOf(u) = {} /\ \E a \in Arrivals(u) : Arrivals(u) = {a}
                       \/ Arrivals(u) = {} /\ \E r \in AwaitedOf(u) : AwaitedOf(u) = {r}
  BY <1>0 DEF Tokens
<1>3. ASSUME RunsEffect(e) \/ WaitsEffect(e) \/ DroppedEffect(e)
      PROVE  e.user \in Users /\ AwaitedOf(e.user) = {}
  <2>1. e.type = "USER_ARRIVAL" /\ e.user \in Users
    BY <1>3, AdmittedStages, DroppedStages DEF Creates
  <2>2. e \in Arrivals(e.user)
    BY <2>1 DEF Arrivals
  <2> HIDE DEF Arrivals, AwaitedOf
  <2> QED
    BY <1>2, <2>1, <2>2
<1>4. ASSUME InTimeEffect(e) \/ GivesUpEffect(e)
      PROVE  \E v \in Users : /\ AwaitedOf(v) = {e.req} /\ AwaitedOf(v)' = {}
                              /\ \A u : u # v => AwaitedOf(u)' = AwaitedOf(u)
  <2> DEFINE v == all_requests[e.req].user_id
  <2>1. e.req \in ReqIds
    BY <1>4, AwaitedNext
  <2>2. v \in Users
    BY <1>0, <2>1, StagesTypes DEF Request
  <2>3. \A u : /\ AwaitedOf(u)' = AwaitedOf(u) \ {e.req}
               /\ e.req \in AwaitedOf(u) <=> u = v
    BY <1>4, AwaitedOfNext
  <2> HIDE DEF v, AwaitedOf, Arrivals
  <2>4. AwaitedOf(v) = {e.req}
    BY <1>2, <2>2, <2>3
  <2>5. \A u : u # v => AwaitedOf(u)' = AwaitedOf(u)
    BY <2>3
  <2> QED
    BY <2>2, <2>3, <2>4, <2>5
<1>5. RunsEffect(e) \/ WaitsEffect(e) =>
        /\ AwaitedOf(e.user)' = AwaitedOf(e.user) \cup {NextId}
        /\ \A u : u # e.user => AwaitedOf(u)' = AwaitedOf(u)
  BY AwaitedOfNext
<1>6. ~(RunsEffect(e) \/ WaitsEffect(e) \/ InTimeEffect(e) \/ GivesUpEffect(e)) =>
        \A u : AwaitedOf(u)' = AwaitedOf(u)
  BY AwaitedOfNext
<1> HIDE DEF AwaitedOf, AwaitedBy, Wait, RunsEffect, WaitsEffect, DroppedEffect, InTimeEffect,
             GivesUpEffect
<1>7. RunsEffect(e) \/ WaitsEffect(e) =>
        AwaitedOf(e.user) = {} /\ AwaitedOf(e.user)' = {NextId} /\ e.user \in Users
  BY <1>3, <1>5
<1>8. ASSUME RunsEffect(e) \/ WaitsEffect(e)
      PROVE  /\ e.user \in Users /\ AwaitedBy(e.user) = 0 /\ AwaitedBy(e.user)' = NextId
             /\ \A u : u # e.user => AwaitedBy(u)' = AwaitedBy(u)
  BY <1>1, <1>5, <1>7, <1>8, WaitIs
<1>9. ASSUME InTimeEffect(e) \/ GivesUpEffect(e)
      PROVE  \E v \in Users : /\ AwaitedBy(v) = e.req /\ AwaitedBy(v)' = 0
                              /\ \A u : u # v => AwaitedBy(u)' = AwaitedBy(u)
  BY <1>1, <1>4, <1>9, WaitIs
<1>10. DroppedEffect(e) => e.user \in Users /\ AwaitedBy(e.user) = 0
  BY <1>1, <1>3, WaitIs
<1> QED
  BY <1>1, <1>6, <1>8, <1>9, <1>10

LEMMA LoopEffect ==
  ASSUME CLOSED_LOOP, Steady, RequestsPlaced, VerdictsKept, DeadlinesWatched, Tokens,
         NEW e \in evq, Effect(e)
  PROVE  Loop!Next \/ UNCHANGED Loop!vars
<1> DEFINE aw == [u \in Users |-> AwaitedBy(u)]
           n == Len(all_requests)
           ans == {completed_requests[i] : i \in DOMAIN completed_requests}
           giv == {r \in ReqIds : all_requests[r].timed_out}
<1>0. TypeOK /\ running = TRUE /\ running' = TRUE /\ ans = AnsweredIds /\ giv = GivenUpIds
      /\ ans' = AnsweredIds' /\ giv' = GivenUpIds'
  BY EffectHandles DEF Steady, PoolInv, Handles, AnsweredIds, GivenUpIds
<1>1. \A u \in Users : aw[u] = AwaitedBy(u)
  OBVIOUS
<1>3. (\A u : AwaitedBy(u)' = AwaitedBy(u)) => aw' = aw
  OBVIOUS
<1>4. \A v \in Users : \A x :
       (AwaitedBy(v)' = x /\ \A u : u # v => AwaitedBy(u)' = AwaitedBy(u)) =>
         aw' = [aw EXCEPT ![v] = x]
  OBVIOUS
<1>5. CASE RunsEffect(e) \/ WaitsEffect(e) \/ DroppedEffect(e)
  <2>1. ~InTimeEffect(e) /\ ~GivesUpEffect(e)
    BY <1>5, AdmittedStages, DroppedStages DEF InTimeEffect, GivesUpEffect, Handles
  <2>2. n' = n + 1 /\ UNCHANGED <<ans, giv>>
    BY <1>0, <1>5, <2>1, SentNext, OutcomesNext DEF NextId
  <2>3. e.user \in Users /\ aw[e.user] = 0
    BY <1>1, <1>5, WaitersNext
  <2>4. aw' = aw \/ aw' = [aw EXCEPT ![e.user] = n + 1]
    <3>1. CASE RunsEffect(e) \/ WaitsEffect(e)
      BY <1>4, <3>1, WaitersNext DEF NextId
    <3>2. CASE ~(RunsEffect(e) \/ WaitsEffect(e))
      BY <1>3, <2>1, <3>2, WaitersNext
    <3> QED
      BY <3>1, <3>2
  <2> HIDE DEF aw, n, ans, giv
  <2>5. Loop!Sends(e.user)
    BY <2>2, <2>3, <2>4 DEF Loop!Sends, aw, n, ans, giv
  <2> QED
    BY <1>0, <2>3, <2>5 DEF Loop!Next
<1>6. CASE InTimeEffect(e) \/ GivesUpEffect(e)
  <2>1. ~(RunsEffect(e) \/ WaitsEffect(e) \/ DroppedEffect(e))
    BY <1>6, AdmittedStages, DroppedStages DEF InTimeEffect, GivesUpEffect, Handles
  <2>2. n' = n
    BY <2>1, SentNext
  <2>3. PICK v \in Users : /\ AwaitedBy(v) = e.req /\ AwaitedBy(v)' = 0
                           /\ \A u : u # v => AwaitedBy(u)' = AwaitedBy(u)
    BY <1>6, WaitersNext
  <2>4. aw[v] = e.req /\ aw' = [aw EXCEPT ![v] = 0]
    BY <1>1, <1>4, <2>3
  <2>5. e.req # 0
    BY <1>0, <1>6, AwaitedNext, StagesTypes
  <2>6. \/ ans' = ans \cup {e.req} /\ giv' = giv
        \/ giv' = giv \cup {e.req} /\ ans' = ans
    <3>1. ~(InTimeEffect(e) /\ GivesUpEffect(e))
      BY DEF InTimeEffect, GivesUpEffect, Handles
    <3> QED
      BY <1>0, <1>6, <3>1, OutcomesNext
  <2> HIDE DEF aw, n, ans, giv
  <2>7. Loop!LearnsOf(v)
    BY <2>2, <2>4, <2>5, <2>6 DEF Loop!LearnsOf, aw, n, ans, giv
  <2> QED
    BY <1>0, <2>7 DEF Loop!Next
<1>7. CASE ~(RunsEffect(e) \/ WaitsEffect(e) \/ DroppedEffect(e) \/ InTimeEffect(e) \/ GivesUpEffect(e))
  <2>1. n' = n /\ UNCHANGED <<ans, giv>>
    BY <1>0, <1>7, SentNext, OutcomesNext
  <2>2. aw' = aw
    BY <1>3, <1>7, WaitersNext
  <2> HIDE DEF aw, n, ans, giv
  <2> QED
    BY <1>0, <2>1, <2>2 DEF Loop!vars, aw, n, ans, giv
<1> QED
  BY <1>5, <1>6, <1>7

LEMMA LoopNext ==
  ASSUME CLOSED_LOOP, Steady, RequestsPlaced, VerdictsKept, DeadlinesWatched, Tokens, [Next]_vars
  PROVE  [Loop!Next]_(Loop!vars)
<1>1. CASE LoopEnds
  <2>1. /\ running /\ running \in BOOLEAN /\ running' = FALSE
        /\ UNCHANGED <<all_requests, completed_requests>>
    BY <1>1 DEF LoopEnds, Steady, PoolInv, TypeOK
  <2>2. \A u : AwaitedBy(u)' = 0
    BY <2>1, AwaitedByIs DEF Wait
  <2>3. Loop!Closes
    BY <2>1, <2>2 DEF Loop!Closes, ReqIds
  <2> QED
    BY <2>1, <2>3 DEF Loop!Next
<1>2. CASE UNCHANGED vars
  <2>1. UNCHANGED <<all_requests, completed_requests, running, evq, waiting_requests, thread_req>>
    BY <1>2 DEF vars
  <2>2. \A u : AwaitedBy(u)' = AwaitedBy(u)
    BY <2>1 DEF AwaitedBy, Awaited, InServer, Pending, ReqIds
  <2> QED
    BY <2>1, <2>2 DEF Loop!vars, ReqIds
<1> QED
  BY <1>1, <1>2, StepHasEffect, LoopEffect

\* A user of the closed loop has one request at a time and learns one thing
\* about it: the handlers of arrivals, answers and deadlines implement UserLoop,
\* whatever the sizes, the policy and the times that avoid the gap between the
\* two thresholds.
THEOREM UserLoopRefined ==
  ASSUME CLOSED_LOOP, GapAvoided PROVE Spec => ImplementsUserLoop
<1>1. Steady /\ RequestsPlaced /\ VerdictsKept /\ DeadlinesWatched /\ Tokens /\ [Next]_vars
      => [Loop!Next]_(Loop!vars)
  BY LoopNext
<1> QED
  BY <1>1, LoopInit, SteadyInvariant, PlacedInvariant, VerdictsInvariant, WatchedInvariant,
     TokensInvariant, PTL DEF Spec, ImplementsUserLoop, Loop!Spec

-----------------------------------------------------------------------------
(* Response times. *)

\* No request is done while a little of its service is left.
NothingNegligible ==
  \A s \in ServiceTimes, k \in Nat : s - k * QUANTUM <= 0 \/ s - k * QUANTUM > DoneEps

\* A quantum and the context switch after it.
Turn == QUANTUM + CONTEXT_SWITCH_OVERHEAD

\* At time t request r has had the time for the quanta it has received and
\* the context switches after them.
Due(r, t) == \A k \in Nat : Received(r, k) => all_requests[r].arrival_time + k * Turn <= t

\* When the slice of the event f began or begins at the earliest.
Since(f) == IF f.type = "THREAD_SLICE_END" THEN f.time - f.slice_len ELSE f.time

\* No slice of a request comes before the context switch of the slice before
\* it, nor would one if it came now to a request that waits.
Paced ==
  /\ \A r \in ReqIds : Unserved(r) => all_requests[r].service_remaining > 0
  /\ \A f \in ThreadEvs : Due(thread_req[f.thread], Since(f))
  /\ running => \A r \in ReqIds :
       Unserved(r) /\ (\A f \in ThreadEvs : thread_req[f.thread] # r) => Due(r, now)

LEMMA Turns ==
  /\ Turn \in Nat \ {0} /\ 0 * Turn = 0 /\ 0 * QUANTUM = 0
  /\ \A k \in Nat : /\ k * Turn \in Nat /\ k * QUANTUM \in Nat /\ k * CONTEXT_SWITCH_OVERHEAD \in Nat
                    /\ (k + 1) * Turn = k * Turn + QUANTUM + CONTEXT_SWITCH_OVERHEAD
                    /\ (k + 1) * QUANTUM = k * QUANTUM + QUANTUM
                    /\ k * Turn = k * QUANTUM + k * CONTEXT_SWITCH_OVERHEAD
  BY TimesAssumption DEF Turn

\* The number of quanta is what the remaining service says it is.
LEMMA QuantaDiffer ==
  ASSUME NEW j \in Nat, NEW k \in Nat, j * QUANTUM = k * QUANTUM PROVE j = k
  BY TimesAssumption

LEMMA DueLater ==
  ASSUME NEW r, NEW s \in Int, NEW t \in Int, s <= t, Due(r, s),
         all_requests[r].arrival_time \in Nat,
         LET a == all_requests[r]
             b == all_requests'[r]
         IN  /\ b.arrival_time = a.arrival_time /\ b.service_total = a.service_total
             /\ b.service_remaining = a.service_remaining
  PROVE  \A k \in Nat : Received(r, k)' => all_requests'[r].arrival_time + k * Turn <= t
<1> SUFFICES ASSUME NEW k \in Nat, Received(r, k)'
             PROVE  all_requests'[r].arrival_time + k * Turn <= t
  OBVIOUS
<1>1. Received(r, k)
  BY DEF Received
<1>2. all_requests[r].arrival_time + k * Turn <= s
  BY <1>1 DEF Due
<1>3. k * Turn \in Nat
  BY Turns
<1> HIDE DEF Turn
<1> QED
  BY <1>2, <1>3

LEMMA DueNew ==
  ASSUME TypeOK, NEW e \in evq, Creates(e), e.time \in Nat, NEW r, r = NextId
  PROVE  \A k \in Nat : Received(r, k)' => all_requests'[r].arrival_time + k * Turn <= e.time
<1> SUFFICES ASSUME NEW k \in Nat, Received(r, k)'
             PROVE  all_requests'[r].arrival_time + k * Turn <= e.time
  OBVIOUS
<1>1. LET q == all_requests'[r]
      IN  /\ q.arrival_time = e.time /\ q.service_remaining = q.service_total
          /\ q.service_total \in Nat
  BY RequestCreated, TimesAssumption
<1> DEFINE a == k * QUANTUM
<1>2. a \in Nat /\ all_requests'[r].service_remaining = all_requests'[r].service_total - a
  BY Turns DEF Received
<1>3. a = 0
  <2> HIDE DEF a
  <2> QED
    BY <1>1, <1>2
<1>4. k = 0
  BY <1>3, Turns, QuantaDiffer
<1>5. k * Turn = 0
  BY <1>4, Turns
<1> HIDE DEF a
<1> QED
  BY <1>1, <1>5

\* The events of threads a handler creates.
LEMMA NewThreadEvents ==
  ASSUME Steady, NEW e \in evq, Effect(e), NEW f \in ThreadEvs', f \notin evq \ {e}
  PROVE  \/ f.type = "THREAD_SLICE_START" /\ f.time = e.time /\ ~PreemptsEffect(e)
         \/ /\ f.type = "THREAD_SLICE_END" /\ StartsEffect(e) /\ f.thread = e.thread
            /\ f.time = e.time + f.slice_len
         \/ /\ f.type = "THREAD_AVAILABLE" /\ PreemptsEffect(e) /\ f.thread = e.thread
            /\ f.time = e.time + CONTEXT_SWITCH_OVERHEAD
<1>0. f \in evq' /\ f.type \in ThreadTypes
  BY DEF ThreadEvs
<1>1. ASSUME NEW ty, NEW N, Handles(e, ty, N) PROVE f \in N /\ e.type = ty
  BY <1>0, <1>1 DEF Handles
<1>2. ASSUME NEW S, NEW x, Starting(S, x, e.time), f \in S
      PROVE  f.type = "THREAD_SLICE_START" /\ f.time = e.time
  BY <1>2 DEF Starting
<1>3. CASE RunsEffect(e)
  <2>1. PICK x : \E S, n : /\ Handles(e, "USER_ARRIVAL", S \cup {n})
                           /\ Starting(S, x, e.time) /\ IsDeadline(n)
    BY <1>3 DEF RunsEffect
  <2>2. PICK S, n : /\ Handles(e, "USER_ARRIVAL", S \cup {n})
                    /\ Starting(S, x, e.time) /\ IsDeadline(n)
    BY <2>1
  <2>3. f \in S
    BY <1>0, <1>1, <2>2 DEF IsDeadline, ThreadTypes, SliceTypes
  <2>4. ~PreemptsEffect(e)
    BY <2>2 DEF Handles, PreemptsEffect
  <2> QED
    BY <1>2, <2>2, <2>3, <2>4
<1>4. CASE CompletesEffect(e)
  <2>1. PICK x : \E S, n : /\ Handles(e, "THREAD_SLICE_END", S \cup {n})
                           /\ Starting(S, x, e.time) /\ n.type = "REQUEST_COMPLETE"
    BY <1>4 DEF CompletesEffect
  <2>2. PICK S, n : /\ Handles(e, "THREAD_SLICE_END", S \cup {n})
                    /\ Starting(S, x, e.time) /\ n.type = "REQUEST_COMPLETE"
    BY <2>1
  <2>3. f \in S
    BY <1>0, <1>1, <2>2 DEF ThreadTypes, SliceTypes
  <2>4. ~PreemptsEffect(e)
    BY <1>4, TimesAssumption DEF CompletesEffect, PreemptsEffect
  <2> QED
    BY <1>2, <2>2, <2>3, <2>4
<1>5. CASE AvailableEffect(e)
  <2>1. PICK x : \E S : Handles(e, "THREAD_AVAILABLE", S) /\ Starting(S, x, e.time)
    BY <1>5 DEF AvailableEffect
  <2>2. PICK S : Handles(e, "THREAD_AVAILABLE", S) /\ Starting(S, x, e.time)
    BY <2>1
  <2>3. ~PreemptsEffect(e)
    BY <2>2 DEF Handles, PreemptsEffect
  <2> QED
    BY <1>1, <1>2, <2>2, <2>3
<1>6. CASE PreemptsEffect(e)
  <2>1. PICK n : /\ Handles(e, "THREAD_SLICE_END", {n}) /\ n.type = "THREAD_AVAILABLE"
                 /\ n.thread = e.thread /\ n.time = e.time + CONTEXT_SWITCH_OVERHEAD
    BY <1>6 DEF PreemptsEffect
  <2> QED
    BY <1>1, <1>6, <2>1
<1>7. CASE WaitsEffect(e) \/ DroppedEffect(e) \/ InTimeEffect(e)
             \/ LateEffect(e) \/ IgnoredEffect(e) \/ GivesUpEffect(e)
  <2>1. PICK ty, N : Quiet(e, ty, N)
    BY <1>7, QuietEffects
  <2> QED
    BY <1>0, <1>1, <2>1 DEF Quiet
<1>8. CASE StartsEffect(e)
  <2>1. PICK n : /\ Handles(e, "THREAD_SLICE_START", {n}) /\ n.type = "THREAD_SLICE_END"
                 /\ n.thread = e.thread /\ n.time = e.time + n.slice_len
    BY <1>8 DEF StartsEffect
  <2> QED
    BY <1>1, <1>8, <2>1
<1> QED
  BY <1>3, <1>4, <1>5, <1>6, <1>7, <1>8 DEF Effect

\* What the times of a request depend on, when no slice of it ends.
LEMMA DueKept ==
  ASSUME Steady, NEW e \in evq, Effect(e), NEW r \in ReqIds, NEW s \in Int, NEW t \in Int, s <= t,
         Due(r, s), e.type = "THREAD_SLICE_END" => r # thread_req[e.thread]
  PROVE  \A k \in Nat : Received(r, k)' => all_requests'[r].arrival_time + k * Turn <= t
<1>1. LET a == all_requests[r]
          b == all_requests'[r]
      IN  /\ b.arrival_time = a.arrival_time /\ b.service_total = a.service_total
          /\ b.service_remaining = a.service_remaining
  BY SubjectOnly, RemainingKept
<1>2. all_requests[r].arrival_time \in Nat
  BY StagesTypes DEF Steady, PoolInv, Request
<1> QED
  BY <1>1, <1>2, DueLater

\* A request that could begin a slice now.
LEMMA DueNext ==
  ASSUME Steady, EventsOrdered, Paced, NEW e \in evq, Effect(e), NEW r \in ReqIds', Unserved(r)',
         \A f \in ThreadEvs : thread_req[f.thread] = r => f = e,
         ~PreemptsEffect(e) \/ r # thread_req[e.thread]
  PROVE  \A k \in Nat : Received(r, k)' => all_requests'[r].arrival_time + k * Turn <= e.time
<1>0. TypeOK
  BY DEF Steady, PoolInv
<1>1. CASE r = NextId /\ Creates(e) /\ e.time \in Nat
  BY <1>0, <1>1, DueNew
<1>2. CASE r \in ReqIds /\ Unserved(r) /\ (CompletesEffect(e) => r # thread_req[e.thread])
  <2>1. e.type = "THREAD_SLICE_END" => PreemptsEffect(e) \/ CompletesEffect(e)
    BY AdmittedStages, DroppedStages DEF Effect, StartsEffect, AvailableEffect, InTimeEffect,
       LateEffect, IgnoredEffect, GivesUpEffect, Handles
  <2>2. e.type = "THREAD_SLICE_END" => r # thread_req[e.thread]
    BY <1>2, <2>1
  <2>3. e.time \in Nat /\ now \in Nat /\ now <= e.time /\ running
    BY <1>0, EffectHandles DEF Handles, EventsOrdered, TypeOK
  <2>4. CASE \A f \in ThreadEvs : thread_req[f.thread] # r
    <3>1. Due(r, now)
      BY <1>2, <2>3, <2>4 DEF Paced
    <3> QED
      BY <1>2, <2>2, <2>3, <3>1, DueKept
  <2>5. CASE e \in ThreadEvs /\ thread_req[e.thread] = r
    <3>1. Due(r, e.time)
      BY <2>2, <2>5 DEF Paced, Since
    <3> QED
      BY <1>2, <2>2, <2>3, <3>1, DueKept
  <2> QED
    BY <2>4, <2>5
<1> QED
  BY <1>1, <1>2, UnservedNext

\* The thread event of a request that had another one is that one.
LEMMA OneThreadEvent ==
  ASSUME Steady, Steady', NEW e \in evq, Effect(e), NEW f \in ThreadEvs', f \notin evq \ {e},
         NEW g \in ThreadEvs, thread_req[g.thread] = thread_req'[f.thread]
  PROVE  g = e
<1> SUFFICES ASSUME g # e PROVE FALSE
  OBVIOUS
<1>1. thread_req'[g.thread] = thread_req[g.thread]
  BY OthersServed DEF ThreadEvs
<1>2. g \in evq \ {e} /\ g \in ThreadEvs'
  BY EffectHandles DEF Handles, ThreadEvs
<1>3. /\ f.thread \in Threads /\ g.thread \in Threads
      /\ thread_req'[f.thread] # NoReq
      /\ \A a, b \in Threads : thread_req'[a] = thread_req'[b] /\ thread_req'[a] # NoReq => a = b
      /\ f.thread = g.thread => f = g
  BY <1>2 DEF Steady, PoolInv, PoolExact, ThreadsPlaced, TypeOK, EventOf, ThreadEvs
<1> QED
  BY <1>1, <1>2, <1>3

\* The context switch that follows a slice.
LEMMA DuePreempted ==
  ASSUME Steady, WholeSlices, Paced, NEW e \in evq, PreemptsEffect(e),
         NEW r, r = thread_req[e.thread]
  PROVE  \A k \in Nat : Received(r, k)' =>
           all_requests'[r].arrival_time + k * Turn <= e.time + CONTEXT_SWITCH_OVERHEAD
<1>1. e.type = "THREAD_SLICE_END" /\ LeftAfter(e) > DoneEps /\ TypeOK
  BY DEF PreemptsEffect, Handles, Steady, PoolInv
<1>2. r \in ReqIds /\ Unserved(r) /\ e \in ThreadEvs
  BY <1>1, SliceFacts, ThreadKinds
<1>3. PICK j \in Nat : Received(r, j)
  BY <1>2 DEF WholeSlices
<1>4. LeftAfter(e) = all_requests[r].service_total - (j + 1) * QUANTUM /\ e.slice_len = QUANTUM
  BY <1>1, <1>3, SliceReceived
<1>5. LET a == all_requests[r]
          b == all_requests'[r]
      IN  /\ b.arrival_time = a.arrival_time /\ b.service_total = a.service_total
          /\ b.service_remaining = LeftAfter(e) /\ a.arrival_time \in Nat /\ a.service_total \in Nat
  BY <1>1, <1>2, PreemptsRequest, StagesTypes DEF Becomes, Request
<1>6. Due(r, e.time - QUANTUM) /\ e.time \in Nat
  BY <1>1, <1>2, <1>4 DEF Paced, Since, TypeOK, EventOf, Event
<1>7. all_requests[r].arrival_time + j * Turn <= e.time - QUANTUM
  BY <1>3, <1>6 DEF Due
<1> SUFFICES ASSUME NEW k \in Nat, Received(r, k)'
             PROVE  all_requests'[r].arrival_time + k * Turn <= e.time + CONTEXT_SWITCH_OVERHEAD
  OBVIOUS
<1> DEFINE got == k * QUANTUM
           had == (j + 1) * QUANTUM
           took == j * Turn
<1>8. got \in Nat /\ had \in Nat /\ took \in Nat
  <2>1. j + 1 \in Nat
    OBVIOUS
  <2> QED
    BY <2>1, Turns
<1>9. /\ all_requests'[r].service_remaining = all_requests'[r].service_total - got
      /\ LeftAfter(e) = all_requests[r].service_total - had
      /\ all_requests[r].arrival_time + took <= e.time - QUANTUM
  BY <1>4, <1>7 DEF Received
<1>10. k = j + 1
  <2>1. got = had
    <3> DEFINE total == all_requests[r].service_total
    <3> HIDE DEF got, had, took
    <3>1. total - got = total - had /\ total \in Nat
      BY <1>5, <1>9
    <3> HIDE DEF total
    <3> QED
      BY <1>8, <3>1
  <2> QED
    BY <2>1, QuantaDiffer
<1>11. k * Turn = took + QUANTUM + CONTEXT_SWITCH_OVERHEAD
  BY <1>10, Turns
<1> HIDE DEF got, had, took, Turn
<1> QED
  BY <1>5, <1>6, <1>8, <1>9, <1>11, TimesAssumption

LEMMA PacedEffect ==
  ASSUME Steady, Steady', EventsOrdered, WholeSlices, Paced, NEW e \in evq, Effect(e)
  PROVE  Paced'
<1>0. TypeOK /\ TypeOK'
  BY DEF Steady, PoolInv
<1>1. ASSUME NEW r \in ReqIds', Unserved(r)' PROVE all_requests'[r].service_remaining > 0
  <2>1. CASE r = NextId /\ r \notin ReqIds /\ Creates(e) /\ e.time \in Nat
    <3>1. all_requests'[r].service_total \in ServiceTimes
          /\ all_requests'[r].service_remaining = all_requests'[r].service_total
      BY <1>0, <2>1, RequestCreated
    <3>2. all_requests'[r].service_total \in Nat \ {0}
      BY <3>1, TimesAssumption
    <3> QED
      BY <3>1, <3>2
  <2>2. CASE r \in ReqIds /\ Unserved(r) /\ (CompletesEffect(e) => r # thread_req[e.thread])
    <3>1. CASE PreemptsEffect(e) /\ r = thread_req[e.thread]
      <4>1. all_requests'[r].service_remaining = LeftAfter(e)
        BY <1>0, <2>2, <3>1, PreemptsRequest DEF Becomes
      <4> QED
        BY <3>1, <4>1, TimesAssumption DEF PreemptsEffect
    <3>2. CASE ~PreemptsEffect(e) \/ r # thread_req[e.thread]
      <4>1. e.type = "THREAD_SLICE_END" => PreemptsEffect(e) \/ CompletesEffect(e)
        BY AdmittedStages, DroppedStages DEF Effect, StartsEffect, AvailableEffect, InTimeEffect,
           LateEffect, IgnoredEffect, GivesUpEffect, Handles
      <4>2. all_requests'[r].service_remaining = all_requests[r].service_remaining
        BY <2>2, <3>2, <4>1, RemainingKept
      <4> QED
        BY <2>2, <4>2 DEF Paced
    <3> QED
      BY <3>1, <3>2
  <2> QED
    BY <1>1, <2>1, <2>2, UnservedNext
<1>2. ASSUME NEW f \in ThreadEvs' PROVE Due(thread_req[f.thread], Since(f))'
  <2> DEFINE Good(r) == \A k \in Nat : Received(r, k)' => all_requests'[r].arrival_time + k * Turn <= Since(f)
  <2>0. SUFFICES ASSUME NEW r, r = thread_req'[f.thread] PROVE Good(r)
    BY Zenon DEF Due, Received, Since
  <2>1. /\ f.time \in Nat /\ f.slice_len \in Nat /\ f.thread \in Threads
        /\ r \in ReqIds' /\ Unserved(r)' /\ Since(f) \in Int
    <3>1. f.time \in Nat /\ f.slice_len \in Nat /\ f.thread \in Threads
      BY <1>0, <1>2 DEF TypeOK, ThreadEvs, EventOf, Event
    <3>2. r # NoReq
      BY <1>2, <2>0 DEF Steady, ThreadsPlaced
    <3>3. r \in ReqIds'
      BY <1>0, <2>0, <3>1, <3>2 DEF TypeOK
    <3>4. Unserved(r)'
      BY <2>0, <3>1 DEF Unserved
    <3> QED
      BY <3>1, <3>3, <3>4 DEF Since
  <2>2. CASE f \in evq \ {e}
    <3>1. f \in ThreadEvs /\ r = thread_req[f.thread] /\ r \in ReqIds
          /\ (e.type = "THREAD_SLICE_END" => r # thread_req[e.thread])
      <4>1. f \in ThreadEvs
        BY <1>2, <2>2 DEF ThreadEvs
      <4>2. f # e /\ f \in evq
        BY <2>2
      <4>3. /\ thread_req'[f.thread] = thread_req[f.thread] /\ thread_req[f.thread] \in ReqIds
            /\ e.type \in ThreadTypes => thread_req[f.thread] # thread_req[e.thread]
        BY <4>1, <4>2, OthersServed
      <4> QED
        BY <2>0, <4>1, <4>3, ThreadKinds
    <3>2. Due(r, Since(f))
      BY <3>1 DEF Paced
    <3>3. \A k \in Nat : Received(r, k)' => all_requests'[r].arrival_time + k * Turn <= Since(f)
      BY <2>1, <3>1, <3>2, DueKept
    <3> QED
      BY <3>3
  <2>3. ASSUME f \notin evq \ {e}, Since(f) = e.time, ~PreemptsEffect(e) PROVE Good(r)
    <3>1. \A g \in ThreadEvs : thread_req[g.thread] = r => g = e
      BY <1>2, <2>0, <2>3, OneThreadEvent
    <3>2. \A k \in Nat : Received(r, k)' => all_requests'[r].arrival_time + k * Turn <= e.time
      BY <2>1, <2>3, <3>1, DueNext
    <3> QED
      BY <2>3, <3>2
  <2>4. CASE f.type = "THREAD_SLICE_START" /\ f.time = e.time /\ ~PreemptsEffect(e) /\ f \notin evq \ {e}
    BY <2>3, <2>4 DEF Since
  <2>5. CASE /\ f.type = "THREAD_SLICE_END" /\ StartsEffect(e) /\ f.thread = e.thread
             /\ f.time = e.time + f.slice_len /\ f \notin evq \ {e}
    <3>1. ~PreemptsEffect(e) /\ e.time \in Nat
      BY <2>5 DEF StartsEffect, PreemptsEffect, Handles
    <3>2. Since(f) = e.time
      BY <2>1, <2>5, <3>1 DEF Since
    <3> QED
      BY <2>3, <2>5, <3>1, <3>2
  <2>6. CASE /\ f.type = "THREAD_AVAILABLE" /\ PreemptsEffect(e) /\ f.thread = e.thread
             /\ f.time = e.time + CONTEXT_SWITCH_OVERHEAD
    <3>1. r = thread_req[e.thread]
      BY <2>0, <2>6 DEF PreemptsEffect
    <3>2. \A k \in Nat : Received(r, k)' => all_requests'[r].arrival_time + k * Turn <= f.time
      BY <2>6, <3>1, DuePreempted
    <3> QED
      BY <2>6, <3>2 DEF Since
  <2> QED
    BY <1>2, <2>2, <2>4, <2>5, <2>6, NewThreadEvents
<1>3. ASSUME NEW r \in ReqIds', Unserved(r)', \A f \in ThreadEvs' : thread_req'[f.thread] # r
      PROVE  Due(r, now)'
  <2>1. now' = e.time
    BY EffectHandles DEF Handles
  <2>2. \A f \in ThreadEvs : thread_req[f.thread] = r => f = e
    <3> SUFFICES ASSUME NEW f \in ThreadEvs, thread_req[f.thread] = r, f # e PROVE FALSE
      OBVIOUS
    <3>1. thread_req'[f.thread] = r
      BY OthersServed DEF ThreadEvs
    <3>2. f \in ThreadEvs'
      BY EffectHandles DEF Handles, ThreadEvs
    <3> QED
      BY <1>3, <3>1, <3>2
  <2>3. ~PreemptsEffect(e) \/ r # thread_req[e.thread]
    <3> SUFFICES ASSUME PreemptsEffect(e) PROVE thread_req[e.thread] # r
      OBVIOUS
    <3>1. PICK n : Handles(e, "THREAD_SLICE_END", {n}) /\ n.type = "THREAD_AVAILABLE" /\ n.thread = e.thread
      BY DEF PreemptsEffect
    <3>2. n \in ThreadEvs'
      BY <3>1, ThreadKinds DEF Handles, ThreadEvs
    <3>3. thread_req' = thread_req
      BY DEF PreemptsEffect
    <3> QED
      BY <1>3, <3>1, <3>2, <3>3
  <2>4. \A k \in Nat : Received(r, k)' => all_requests'[r].arrival_time + k * Turn <= e.time
    BY <1>3, <2>2, <2>3, DueNext
  <2> QED
    BY <2>1, <2>4 DEF Due
<1> QED
  BY <1>1, <1>2, <1>3 DEF Paced

LEMMA PacedInvariant == Spec => []Paced
<1>1. Init => Paced
  <2> SUFFICES ASSUME Init PROVE Paced
    OBVIOUS
  <2>1. ThreadEvs = {}
    BY DEF Init, ThreadEvs, ThreadTypes, SliceTypes, UserArrival, Ev
  <2>2. ReqIds = {}
    BY DEF Init, ReqIds
  <2> QED
    BY <2>1, <2>2 DEF Paced
<1>2. ASSUME Steady, Steady', EventsOrdered, WholeSlices, Paced, [Next]_vars PROVE Paced'
  <2>1. CASE LoopEnds \/ UNCHANGED vars
    <3>1. /\ evq' \subseteq evq /\ UNCHANGED <<all_requests, waiting_requests, thread_req>>
          /\ running' = FALSE \/ UNCHANGED vars
      BY <2>1 DEF LoopEnds, vars
    <3>2. ReqIds' = ReqIds /\ ThreadEvs' \subseteq ThreadEvs /\ \A r : Unserved(r)' <=> Unserved(r)
      BY <3>1, UnservedKept DEF ReqIds, ThreadEvs
    <3>3. \A r, t : Due(r, t)' <=> Due(r, t)
      BY <3>1 DEF Due, Received
    <3>4. (\A r \in ReqIds : Unserved(r) => all_requests[r].service_remaining > 0)'
      BY <1>2, <3>1, <3>2 DEF Paced
    <3>5. \A f \in ThreadEvs' : Due(thread_req[f.thread], Since(f))'
      BY <1>2, <3>1, <3>2, <3>3 DEF Paced, Due, Received
    <3>6. (running => \A r \in ReqIds :
             Unserved(r) /\ (\A f \in ThreadEvs : thread_req[f.thread] # r) => Due(r, now))'
      <4>1. CASE running' = FALSE
        BY <4>1
      <4>2. CASE UNCHANGED vars
        <5>1. now' = now /\ running' = running /\ thread_req' = thread_req /\ ThreadEvs' = ThreadEvs
          BY <4>2 DEF vars, ThreadEvs
        <5> QED
          BY <1>2, <3>2, <3>3, <5>1 DEF Paced
      <4> QED
        BY <3>1, <4>1, <4>2
    <3> QED
      BY <3>4, <3>5, <3>6 DEF Paced
  <2> QED
    BY <1>2, <2>1, StepHasEffect, PacedEffect
<1>3. Steady /\ Steady' /\ EventsOrdered /\ WholeSlices /\ Paced /\ [Next]_vars => Paced'
  BY <1>2
<1> QED
  BY <1>1, <1>3, SteadyInvariant, EventsInvariant, WholeInvariant, PTL DEF Spec

\* The number of slices of a service that ends in slice j + 1.
LEMMA SlicesCounted ==
  ASSUME NEW s \in Nat, NEW j \in Nat, j * QUANTUM < s, s <= (j + 1) * QUANTUM
  PROVE  Slices(s) = j + 1
<1> DEFINE x == s + QUANTUM - 1
<1>1. /\ QUANTUM \in Nat \ {0} /\ x \in Nat /\ j + 1 \in Nat
      /\ (j + 1) * QUANTUM <= x /\ x < (j + 2) * QUANTUM
  BY TimesAssumption
<1>2. x \div QUANTUM = j + 1
  BY <1>1
<1> QED
  BY <1>2 DEF Slices

\* What a request that has an answer has waited.
Answered(r) ==
  LET q == all_requests[r]
  IN  q.completion_time # -1 =>
        q.completion_time - q.arrival_time
          >= q.service_total + (Slices(q.service_total) - 1) * CONTEXT_SWITCH_OVERHEAD

\* Under NothingNegligible a request is done when all of its service is.
LEMMA LastSliceIsAll ==
  ASSUME NothingNegligible, Steady, WholeSlices, Paced, NEW e \in evq, CompletesEffect(e),
         NEW r, r = thread_req[e.thread]
  PROVE  /\ e.type = "THREAD_SLICE_END" /\ e \in ThreadEvs /\ TypeOK /\ r \in ReqIds /\ Unserved(r)
         /\ LET left == all_requests[r].service_remaining
            IN  left \in Nat /\ left > 0 /\ left <= QUANTUM /\ e.slice_len = left
<1>1. e.type = "THREAD_SLICE_END" /\ LeftAfter(e) <= DoneEps /\ TypeOK /\ r \in ReqIds /\ Unserved(r)
      /\ e \in ThreadEvs
  <2>1. e.type = "THREAD_SLICE_END"
    BY DEF CompletesEffect, Handles
  <2> QED
    BY <2>1, SliceFacts, ThreadKinds DEF CompletesEffect, Steady, PoolInv
<1> DEFINE left == all_requests[r].service_remaining
           total == all_requests[r].service_total
<1>2. left \in Nat /\ total \in Nat /\ total \in ServiceTimes /\ left > 0
  BY <1>1, StagesTypes DEF WholeSlices, Paced, Steady, PoolInv, Request
<1>3. PICK j \in Nat : Received(r, j)
  BY <1>1 DEF WholeSlices
<1> DEFINE had == j * QUANTUM
<1>4. had \in Nat /\ (j + 1) * QUANTUM = had + QUANTUM
  BY Turns
<1>5. left = total - had
  BY <1>3 DEF Received
<1>6. e.slice_len = Shorter(QUANTUM, left) /\ LeftAfter(e) = left - e.slice_len
  BY <1>1 DEF WholeSlices, LeftAfter
<1>7. total - had - QUANTUM <= 0 \/ total - had - QUANTUM > DoneEps
  <2>1. total - (j + 1) * QUANTUM <= 0 \/ total - (j + 1) * QUANTUM > DoneEps
    BY <1>2 DEF NothingNegligible
  <2> HIDE DEF total, had
  <2> QED
    BY <1>2, <1>4, <2>1, TimesAssumption
<1>8. left <= QUANTUM /\ e.slice_len = left
  <2> HIDE DEF left, total, had
  <2> QED
    BY <1>1, <1>2, <1>4, <1>5, <1>6, <1>7, TimesAssumption DEF Shorter
<1> QED
  BY <1>1, <1>2, <1>8

LEMMA LastSlice ==
  ASSUME NothingNegligible, Steady, WholeSlices, Paced, NEW e \in evq, CompletesEffect(e),
         NEW r, r = thread_req[e.thread]
  PROVE  /\ r \in ReqIds
         /\ e.time - all_requests[r].arrival_time
               >= all_requests[r].service_total
                    + (Slices(all_requests[r].service_total) - 1) * CONTEXT_SWITCH_OVERHEAD
<1>1. e.type = "THREAD_SLICE_END" /\ e \in ThreadEvs /\ TypeOK /\ r \in ReqIds /\ Unserved(r)
  BY LastSliceIsAll
<1> DEFINE left == all_requests[r].service_remaining
           total == all_requests[r].service_total
           arrived == all_requests[r].arrival_time
<1>2. /\ left \in Nat /\ left > 0 /\ left <= QUANTUM /\ e.slice_len = left
      /\ total \in Nat /\ arrived \in Nat
  BY <1>1, LastSliceIsAll, StagesTypes DEF Steady, PoolInv, Request
<1>3. PICK j \in Nat : Received(r, j)
  BY <1>1 DEF WholeSlices
<1> DEFINE had == j * QUANTUM
           took == j * Turn
           switched == j * CONTEXT_SWITCH_OVERHEAD
<1>4. /\ had \in Nat /\ took \in Nat /\ switched \in Nat /\ took = had + switched
      /\ (j + 1) * QUANTUM = had + QUANTUM
  BY Turns
<1>5. left = total - had
  BY <1>3 DEF Received
<1>6. arrived + took <= e.time - e.slice_len /\ e.time \in Nat
  <2>1. Due(r, e.time - e.slice_len)
    BY <1>1 DEF Paced, Since
  <2> QED
    BY <1>1, <1>3, <2>1 DEF Due, TypeOK, EventOf, Event
<1> HIDE DEF left, total, arrived, took, switched
<1>7. Slices(total) = j + 1
  <2>1. had < total /\ total <= had + QUANTUM
    <3> HIDE DEF had
    <3> QED
      BY <1>2, <1>4, <1>5, TimesAssumption
  <2> QED
    BY <1>2, <1>4, <2>1, SlicesCounted
<1>8. (Slices(total) - 1) * CONTEXT_SWITCH_OVERHEAD = switched
  <2>1. Slices(total) - 1 = j
    BY <1>7
  <2> QED
    BY <2>1 DEF switched
<1>9. e.time - arrived >= total + switched
  <2> HIDE DEF had
  <2> QED
    BY <1>2, <1>4, <1>5, <1>6
<1> QED
  BY <1>1, <1>8, <1>9 DEF total, arrived

LEMMA NewRequestOnly ==
  ASSUME Steady, NEW e \in evq, Effect(e), NEW r \in ReqIds', r \notin ReqIds
  PROVE  /\ all_requests'[r].completion_time = -1
         /\ all_requests'[r].service_total \in Nat
         /\ all_requests'[r].service_remaining = all_requests'[r].service_total
<1>0. TypeOK
  BY DEF Steady, PoolInv
<1>1. CASE RunsEffect(e) \/ WaitsEffect(e) \/ DroppedEffect(e)
  <2>1. Creates(e) /\ e.time \in Nat
    BY <1>1, AdmittedStages, DroppedStages
  <2>2. r = NextId
    BY <1>0, <2>1, RequestCreated
  <2> QED
    BY <1>0, <2>1, <2>2, RequestCreated, TimesAssumption
<1>2. ASSUME NEW q \in ReqIds, OnlyRequest(q) PROVE FALSE
  BY <1>2 DEF OnlyRequest
<1>3. ~CompletesEffect(e) /\ ~PreemptsEffect(e)
  <2>1. ASSUME CompletesEffect(e) \/ PreemptsEffect(e) PROVE e.type = "THREAD_SLICE_END"
    BY <2>1 DEF CompletesEffect, PreemptsEffect, Handles
  <2> QED
    BY <1>0, <1>2, <2>1, CompletesRequest, PreemptsRequest, SliceFacts, ThreadKinds
<1>4. ~InTimeEffect(e) /\ ~LateEffect(e) /\ ~GivesUpEffect(e)
  <2>1. ASSUME InTimeEffect(e) \/ LateEffect(e) \/ GivesUpEffect(e) PROVE e.req \in ReqIds
    BY <1>0, <2>1 DEF InTimeEffect, LateEffect, GivesUpEffect, Handles, TypeOK, EventOf, RequestTypes, ReqIds
  <2> QED
    BY <1>0, <1>2, <2>1, InTimeRequest, GivenUpRequest
<1>5. CASE StartsEffect(e) \/ AvailableEffect(e) \/ IgnoredEffect(e)
  BY <1>5 DEF StartsEffect, AvailableEffect, IgnoredEffect, ReqIds
<1> QED
  BY <1>1, <1>3, <1>4, <1>5 DEF Effect

LEMMA AnsweredEffect ==
  ASSUME NothingNegligible, Steady, RequestsPlaced, WholeSlices, Paced,
         ResponseLowerBound, NEW e \in evq, Effect(e), NEW r \in ReqIds'
  PROVE  Answered(r)'
<1>0. TypeOK
  BY DEF Steady, PoolInv
<1>1. CASE r \notin ReqIds
  <2>1. all_requests'[r].completion_time = -1
    BY <1>1, NewRequestOnly
  <2> QED
    BY <2>1 DEF Answered
<1>2. CASE r \in ReqIds /\ all_requests'[r].completion_time = all_requests[r].completion_time
  <2>1. /\ all_requests'[r].arrival_time = all_requests[r].arrival_time
        /\ all_requests'[r].service_total = all_requests[r].service_total
    BY <1>2, SubjectOnly
  <2>2. Answered(r)
    BY <1>2 DEF ResponseLowerBound, Answered
  <2> QED
    BY <1>2, <2>1, <2>2 DEF Answered
<1>3. CASE CompletesEffect(e) /\ r = thread_req[e.thread]
  <2>1. r \in ReqIds /\ Becomes(r, 0, all_requests[r].timed_out, e.time)
    BY <1>0, <1>3, LastSlice, CompletesRequest
  <2> QED
    BY <1>3, <2>1, LastSlice DEF Becomes, Answered
<1>4. ASSUME r \in ReqIds, ~(CompletesEffect(e) /\ r = thread_req[e.thread])
      PROVE  all_requests'[r].completion_time = all_requests[r].completion_time
  <2>1. CASE r # Subject(e)
    BY <1>4, <2>1, SubjectOnly
  <2>2. CASE r = Subject(e) /\ e.type \in ThreadTypes
    <3>1. r = thread_req[e.thread] /\ ~CompletesEffect(e)
      BY <1>4, <2>2 DEF Subject
    <3>2. CASE PreemptsEffect(e)
      BY <1>0, <1>4, <3>1, <3>2, PreemptsRequest DEF Becomes
    <3>3. CASE StartsEffect(e) \/ AvailableEffect(e)
      BY <3>3 DEF StartsEffect, AvailableEffect
    <3> QED
      BY <2>2, <3>1, <3>2, <3>3, AdmittedStages, DroppedStages DEF Effect, InTimeEffect, LateEffect,
         IgnoredEffect, GivesUpEffect, Handles, ThreadTypes, SliceTypes
  <2>3. CASE r = e.req /\ e.type \notin ThreadTypes
    <3>1. CASE InTimeEffect(e)
      <4>1. e \in Answers
        BY <3>1 DEF InTimeEffect, Handles, Answers
      <4> QED
        BY <1>0, <1>4, <2>3, <3>1, <4>1, InTimeRequest DEF RequestsPlaced, Becomes
    <3>2. CASE LateEffect(e) \/ GivesUpEffect(e)
      BY <1>0, <1>4, <2>3, <3>2, GivenUpRequest DEF Becomes
    <3>3. CASE IgnoredEffect(e)
      BY <3>3 DEF IgnoredEffect
    <3>4. CASE RunsEffect(e) \/ WaitsEffect(e) \/ DroppedEffect(e)
      <4>1. Creates(e) /\ e.time \in Nat
        BY <3>4, AdmittedStages, DroppedStages
      <4> QED
        BY <1>0, <1>4, <4>1, RequestCreated
    <3> QED
      BY <2>3, <3>1, <3>2, <3>3, <3>4, ThreadKinds DEF Effect, StartsEffect, CompletesEffect,
         PreemptsEffect, AvailableEffect, Handles
  <2> QED
    BY <2>1, <2>2, <2>3 DEF Subject
<1> QED
  BY <1>1, <1>2, <1>3, <1>4

\* A request is answered no sooner than its service and the context switches
\* between its slices allow, counted from its arrival, whatever the schedule,
\* provided that no request is done while a little of its service is left.
THEOREM ResponsesTakeTime ==
  ASSUME NothingNegligible PROVE Spec => []ResponseLowerBound
<1>1. Init => ResponseLowerBound
  BY DEF Init, ReqIds, ResponseLowerBound
<1>2. ASSUME Steady, RequestsPlaced, WholeSlices, Paced, ResponseLowerBound, [Next]_vars
      PROVE  ResponseLowerBound'
  <2>1. CASE LoopEnds \/ UNCHANGED vars
    <3>1. all_requests' = all_requests /\ ReqIds' = ReqIds
      BY <2>1 DEF LoopEnds, vars, ReqIds
    <3> QED
      BY <1>2, <3>1 DEF ResponseLowerBound
  <2>2. CASE \E e \in evq : Effect(e)
    BY <1>2, <2>2, AnsweredEffect DEF ResponseLowerBound, Answered
  <2> QED
    BY <1>2, <2>1, <2>2, StepHasEffect
<1>3. Steady /\ RequestsPlaced /\ WholeSlices /\ Paced /\ ResponseLowerBound /\ [Next]_vars
        => ResponseLowerBound'
  BY <1>2
<1> QED
  BY <1>1, <1>3, SteadyInvariant, PlacedInvariant, WholeInvariant, PacedInvariant, PTL DEF Spec

-----------------------------------------------------------------------------
(* Work. *)

BusyTimes == [k \in Cores |-> core[k].busy_time]
Served    == [r \in ReqIds |-> all_requests[r].service_total - all_requests[r].service_remaining]

\* The sums of WorkConserved, counted; no request is served more than it needs.
WorkCounted ==
  /\ Cardinality(Pairs(Cores, BusyTimes)) = Cardinality(Pairs(ReqIds, Served))
  /\ \A r \in ReqIds : Served[r] \in Nat

LEMMA CoresFinite == IsFiniteSet(Cores)
<1>1. 0 \in Int /\ NUM_CORES - 1 \in Int
  BY SizesAssumption
<1> QED
  BY <1>1, FS_Interval DEF Cores

LEMMA RequestsFinite == ASSUME TypeOK PROVE IsFiniteSet(ReqIds)
<1>1. Len(all_requests) \in Nat /\ 1 \in Int
  BY DEF TypeOK
<1> QED
  BY <1>1, FS_Interval DEF ReqIds

LEMMA BusyTimesNat == ASSUME TypeOK PROVE \A k \in Cores : BusyTimes[k] \in Nat
BY DEF TypeOK, CoreState, BusyTimes

\* A slice that ends adds its length to the time of its core and, as nothing
\* is dropped, to the service of its request.
LEMMA SliceCounts ==
  ASSUME NothingNegligible, WARMUP_TIME = 0, Steady, Steady', WholeSlices, Paced, WorkCounted,
         NEW e \in evq, CompletesEffect(e) \/ PreemptsEffect(e)
  PROVE  WorkCounted'
<1> DEFINE r == thread_req[e.thread]
           k == CoreOf(e.thread)
           left == all_requests[r].service_remaining
<1>0. TypeOK /\ TypeOK'
  BY DEF Steady, PoolInv
<1>1. e.type = "THREAD_SLICE_END" /\ r \in ReqIds /\ k \in Cores /\ e.time \in Nat /\ e.slice_len \in Nat
  <2>1. e.type = "THREAD_SLICE_END"
    BY DEF CompletesEffect, PreemptsEffect, Handles
  <2>2. r \in ReqIds /\ e.thread \in Threads
    BY <1>0, <2>1, SliceFacts, ThreadKinds
  <2>3. e.time \in Nat /\ e.slice_len \in Nat
    BY <1>0 DEF TypeOK, EventOf, Event
  <2>4. k \in Cores
    BY <2>2, CoreOfType
  <2> QED
    BY <2>1, <2>2, <2>3, <2>4
<1>2. /\ ReqIds' = ReqIds /\ \A q \in ReqIds \ {r} : all_requests'[q] = all_requests[q]
      /\ all_requests'[r].service_total = all_requests[r].service_total
      /\ all_requests'[r].service_remaining = left - e.slice_len
      /\ left \in Nat /\ e.slice_len <= left
  <2>1. CASE CompletesEffect(e)
    <3>1. OnlyRequest(r) /\ Becomes(r, 0, all_requests[r].timed_out, e.time)
      BY <1>0, <1>1, <2>1, CompletesRequest
    <3>2. e.slice_len = left /\ left \in Nat
      BY <2>1, LastSliceIsAll
    <3> QED
      BY <3>1, <3>2 DEF OnlyRequest, Becomes
  <2>2. CASE PreemptsEffect(e)
    <3>1. /\ OnlyRequest(r)
          /\ Becomes(r, LeftAfter(e), all_requests[r].timed_out, all_requests[r].completion_time)
      BY <1>0, <1>1, <2>2, PreemptsRequest
    <3>2. left \in Nat /\ LeftAfter(e) \in Nat /\ LeftAfter(e) = left - e.slice_len
      BY <1>1, <2>2, StagesTypes DEF Steady, PoolInv, Request, PreemptsEffect, LeftAfter
    <3>3. e.slice_len <= left
      <4> HIDE DEF left
      <4> QED
        BY <1>1, <3>2
    <3> QED
      BY <3>1, <3>2, <3>3 DEF OnlyRequest, Becomes
  <2> QED
    BY <2>1, <2>2
<1>3. /\ core'[k].busy_time = core[k].busy_time + e.slice_len
      /\ \A j \in Cores \ {k} : core'[j] = core[j]
  <2>1. core'[k].busy_time = Accounted(e).busy_time /\ \A j \in Cores \ {k} : core'[j] = core[j]
    BY DEF CompletesEffect, PreemptsEffect, CoreBecomes
  <2>2. core[k] \in CoreRec(k)
    BY <1>0, <1>1, CoreFacts
  <2>3. Accounted(e).busy_time = core[k].busy_time + e.slice_len
    BY <1>1, <2>2 DEF Accounted, CoreRec
  <2> QED
    BY <2>1, <2>3
<1>4. /\ \A j \in Cores : BusyTimes[j] \in Nat /\ BusyTimes'[j] \in Nat
      /\ BusyTimes'[k] = BusyTimes[k] + e.slice_len
      /\ \A j \in Cores \ {k} : BusyTimes'[j] = BusyTimes[j]
  <2>1. \A j \in Cores : core[j].busy_time \in Nat /\ core'[j].busy_time \in Nat
    BY <1>0 DEF TypeOK, CoreState
  <2> QED
    BY <1>1, <1>3, <2>1 DEF BusyTimes
<1>5. Served'[r] = Served[r] + e.slice_len /\ Served[r] \in Nat /\ Served'[r] \in Nat
  <2>1. all_requests[r].service_total \in Nat
    BY <1>1, StagesTypes DEF Steady, PoolInv, Request
  <2>2. /\ Served[r] = all_requests[r].service_total - left
        /\ Served'[r] = all_requests[r].service_total - (left - e.slice_len)
        /\ Served[r] \in Nat
    BY <1>1, <1>2 DEF Served, WorkCounted
  <2> HIDE DEF left
  <2> QED
    BY <1>1, <1>2, <2>1, <2>2
<1>6. \A q \in ReqIds \ {r} : Served'[q] = Served[q]
  BY <1>2 DEF Served
<1>7. \A q \in ReqIds : Served[q] \in Nat /\ Served'[q] \in Nat
  BY <1>5, <1>6 DEF WorkCounted
<1> HIDE DEF r, k, left
<1>8. Cardinality(Pairs(Cores, BusyTimes')) + BusyTimes[k]
        = Cardinality(Pairs(Cores, BusyTimes)) + BusyTimes'[k]
  BY <1>1, <1>4, CoresFinite, PairsChanged
<1>9. Cardinality(Pairs(ReqIds, Served')) + Served[r]
        = Cardinality(Pairs(ReqIds, Served)) + Served'[r]
  BY <1>0, <1>1, <1>6, <1>7, RequestsFinite, PairsChanged
<1>10. /\ Cardinality(Pairs(Cores, BusyTimes)) \in Nat /\ Cardinality(Pairs(Cores, BusyTimes')) \in Nat
       /\ Cardinality(Pairs(ReqIds, Served)) \in Nat /\ Cardinality(Pairs(ReqIds, Served')) \in Nat
  <2>1. IsFiniteSet(Pairs(Cores, BusyTimes)) /\ IsFiniteSet(Pairs(Cores, BusyTimes'))
    BY <1>4, CoresFinite, PairsFinite
  <2>2. IsFiniteSet(Pairs(ReqIds, Served)) /\ IsFiniteSet(Pairs(ReqIds, Served'))
    BY <1>0, <1>7, RequestsFinite, PairsFinite
  <2> QED
    BY <2>1, <2>2, FS_CardinalityType
<1>11. Cardinality(Pairs(Cores, BusyTimes')) = Cardinality(Pairs(ReqIds, Served'))
  <2>1. Cardinality(Pairs(Cores, BusyTimes)) = Cardinality(Pairs(ReqIds, Served))
    BY DEF WorkCounted
  <2>2. BusyTimes[k] \in Nat /\ BusyTimes'[k] \in Nat
    BY <1>1, <1>4
  <2> QED
    BY <1>1, <1>4, <1>5, <1>8, <1>9, <1>10, <2>1, <2>2
<1> QED
  BY <1>2, <1>7, <1>11 DEF WorkCounted, Cores

\* Nothing else counts.
LEMMA OthersDoNot ==
  ASSUME Steady, WorkCounted, NEW e \in evq, Effect(e), ~CompletesEffect(e), ~PreemptsEffect(e)
  PROVE  WorkCounted'
<1>1. \A j \in Cores : BusyTimes'[j] = BusyTimes[j]
  <2>1. CASE RunsEffect(e)
    BY <2>1 DEF RunsEffect, CoreBecomes, BusyTimes
  <2>2. CASE AvailableEffect(e)
    BY <2>2 DEF AvailableEffect, CoreBecomes, BusyTimes
  <2>3. CASE StartsEffect(e)
    BY <2>3 DEF StartsEffect, BusyTimes
  <2>4. CASE WaitsEffect(e) \/ DroppedEffect(e) \/ InTimeEffect(e)
               \/ LateEffect(e) \/ IgnoredEffect(e) \/ GivesUpEffect(e)
    BY <2>4, QuietEffects DEF BusyTimes
  <2> QED
    BY <2>1, <2>2, <2>3, <2>4 DEF Effect
<1>2. e.type # "THREAD_SLICE_END"
  BY AdmittedStages, DroppedStages DEF Effect, StartsEffect, AvailableEffect, InTimeEffect,
     LateEffect, IgnoredEffect, GivesUpEffect, Handles
<1>3. ReqIds \subseteq ReqIds' /\ \A q \in ReqIds : Served'[q] = Served[q]
  BY <1>2, SubjectOnly, RemainingKept DEF Served
<1>4. \A q \in ReqIds' \ ReqIds : Served'[q] = 0
  <2> TAKE q \in ReqIds' \ ReqIds
  <2>1. /\ all_requests'[q].service_total \in Nat
        /\ all_requests'[q].service_remaining = all_requests'[q].service_total
    BY NewRequestOnly
  <2> QED
    BY <2>1 DEF Served
<1>5. Pairs(Cores, BusyTimes') = Pairs(Cores, BusyTimes)
  BY <1>1, PairsSame
<1>6. Pairs(ReqIds', Served') = Pairs(ReqIds, Served)
  BY <1>3, <1>4, PairsGrown
<1>7. \A q \in ReqIds' : Served'[q] \in Nat
  BY <1>3, <1>4 DEF WorkCounted
<1> QED
  BY <1>5, <1>6, <1>7 DEF WorkCounted, Cores

\* The sums of WorkConserved are the numbers of pairs.
LEMMA BusySum ==
  ASSUME TypeOK
  PROVE  MapThenSumSet(LAMBDA k : core[k].busy_time, Cores) = Cardinality(Pairs(Cores, BusyTimes))
<1> DEFINE Adds(sum) == sum = [s \in SUBSET Cores |->
             IF s = {} THEN 0
             ELSE core[CHOOSE x \in s : TRUE].busy_time + sum[s \ {CHOOSE x \in s : TRUE}]]
<1>1. \A sum : AddsUp(sum, Cores, BusyTimes) <=> Adds(sum)
  <2> TAKE sum
  <2> DEFINE F(s) == IF s = {} THEN 0
                     ELSE BusyTimes[CHOOSE x \in s : TRUE] + sum[s \ {CHOOSE x \in s : TRUE}]
             A(s) == IF s = {} THEN 0
                     ELSE core[CHOOSE x \in s : TRUE].busy_time + sum[s \ {CHOOSE x \in s : TRUE}]
  <2>1. ASSUME NEW s \in SUBSET Cores PROVE F(s) = A(s)
    <3>1. CASE s # {}
      <4>1. (CHOOSE x \in s : TRUE) \in Cores
        BY <3>1
      <4>2. BusyTimes[CHOOSE x \in s : TRUE] = core[CHOOSE x \in s : TRUE].busy_time
        BY <4>1 DEF BusyTimes
      <4> QED
        BY <4>2
    <3> QED
      BY <3>1
  <2>2. [s \in SUBSET Cores |-> F(s)] = [s \in SUBSET Cores |-> A(s)]
    <3> HIDE DEF F, A
    <3> QED
      BY <2>1
  <2> QED
    BY <2>2 DEF AddsUp
<1>2. \E sum : AddsUp(sum, Cores, BusyTimes)
  BY BusyTimesNat, CoresFinite, SumsExist
<1>3. Adds(CHOOSE sum : Adds(sum))
  <2> HIDE DEF Adds
  <2> QED
    BY <1>1, <1>2, Zenon
<1>4. MapThenSumSet(LAMBDA k : core[k].busy_time, Cores) = (CHOOSE sum : Adds(sum))[Cores]
  BY Zenon DEF MapThenSumSet, MapThenFoldSet
<1>5. AddsUp(CHOOSE sum : Adds(sum), Cores, BusyTimes)
  <2> HIDE DEF Adds
  <2> QED
    BY <1>1, <1>3
<1>6. \A sum : AddsUp(sum, Cores, BusyTimes) => sum[Cores] = Cardinality(Pairs(Cores, BusyTimes))
  BY BusyTimesNat, CoresFinite, SumIsCount
<1> HIDE DEF Adds
<1> QED
  BY <1>4, <1>5, <1>6

LEMMA ServedSum ==
  ASSUME TypeOK, \A r \in ReqIds : Served[r] \in Nat
  PROVE  MapThenSumSet(LAMBDA r : all_requests[r].service_total - all_requests[r].service_remaining,
                       ReqIds)
           = Cardinality(Pairs(ReqIds, Served))
<1> DEFINE Adds(sum) == sum = [s \in SUBSET ReqIds |->
             IF s = {} THEN 0
             ELSE (all_requests[CHOOSE x \in s : TRUE].service_total
                     - all_requests[CHOOSE x \in s : TRUE].service_remaining)
                  + sum[s \ {CHOOSE x \in s : TRUE}]]
<1>1. \A sum : AddsUp(sum, ReqIds, Served) <=> Adds(sum)
  <2> TAKE sum
  <2> DEFINE F(s) == IF s = {} THEN 0
                     ELSE Served[CHOOSE x \in s : TRUE] + sum[s \ {CHOOSE x \in s : TRUE}]
             A(s) == IF s = {} THEN 0
                     ELSE (all_requests[CHOOSE x \in s : TRUE].service_total
                             - all_requests[CHOOSE x \in s : TRUE].service_remaining)
                          + sum[s \ {CHOOSE x \in s : TRUE}]
  <2>1. ASSUME NEW s \in SUBSET ReqIds PROVE F(s) = A(s)
    <3>1. CASE s # {}
      <4>1. (CHOOSE x \in s : TRUE) \in ReqIds
        BY <3>1
      <4>2. Served[CHOOSE x \in s : TRUE]
              = all_requests[CHOOSE x \in s : TRUE].service_total
                  - all_requests[CHOOSE x \in s : TRUE].service_remaining
        BY <4>1 DEF Served
      <4> QED
        BY <4>2
    <3> QED
      BY <3>1
  <2>2. [s \in SUBSET ReqIds |-> F(s)] = [s \in SUBSET ReqIds |-> A(s)]
    <3> HIDE DEF F, A
    <3> QED
      BY <2>1
  <2> QED
    BY <2>2 DEF AddsUp
<1>2. \E sum : AddsUp(sum, ReqIds, Served)
  BY RequestsFinite, SumsExist
<1>3. Adds(CHOOSE sum : Adds(sum))
  <2> HIDE DEF Adds
  <2> QED
    BY <1>1, <1>2, Zenon
<1>4. MapThenSumSet(LAMBDA r : all_requests[r].service_total - all_requests[r].service_remaining,
                    ReqIds)
        = (CHOOSE sum : Adds(sum))[ReqIds]
  BY Zenon DEF MapThenSumSet, MapThenFoldSet
<1>5. AddsUp(CHOOSE sum : Adds(sum), ReqIds, Served)
  <2> HIDE DEF Adds
  <2> QED
    BY <1>1, <1>3
<1>6. \A sum : AddsUp(sum, ReqIds, Served) => sum[ReqIds] = Cardinality(Pairs(ReqIds, Served))
  BY RequestsFinite, SumIsCount
<1> HIDE DEF Adds
<1> QED
  BY <1>4, <1>5, <1>6

\* The cores together were busy for exactly the service the requests have
\* received: no slice is lost, counted twice or charged to another core, for
\* any policy, sizes and times, when all time is measured (no warmup) and no
\* request is done while a little of its service is left.
THEOREM NoWorkLost ==
  ASSUME NothingNegligible, WARMUP_TIME = 0 PROVE Spec => []WorkConserved
<1>1. Init => WorkCounted
  <2> SUFFICES ASSUME Init PROVE WorkCounted
    OBVIOUS
  <2>1. ReqIds = {}
    BY DEF Init, ReqIds
  <2>2. \A k \in Cores : BusyTimes[k] = 0
    BY DEF Init, NewCore, BusyTimes
  <2>3. Pairs(Cores, BusyTimes) = {} /\ Pairs(ReqIds, Served) = {}
    BY <2>1, <2>2 DEF Pairs
  <2> QED
    BY <2>1, <2>3 DEF WorkCounted
<1>2. ASSUME Steady, Steady', WholeSlices, Paced, WorkCounted, [Next]_vars PROVE WorkCounted'
  <2>1. CASE LoopEnds \/ UNCHANGED vars
    <3>1. ReqIds' = ReqIds /\ BusyTimes' = BusyTimes /\ Served' = Served
      BY <2>1 DEF LoopEnds, vars, ReqIds, BusyTimes, Served
    <3> QED
      BY <1>2, <3>1 DEF WorkCounted, Cores
  <2>2. CASE \E e \in evq : Effect(e)
    BY <1>2, <2>2, SliceCounts, OthersDoNot
  <2> QED
    BY <1>2, <2>1, <2>2, StepHasEffect
<1>3. Steady /\ Steady' /\ WholeSlices /\ Paced /\ WorkCounted /\ [Next]_vars => WorkCounted'
  BY <1>2
<1>4. ASSUME Steady, WorkCounted PROVE WorkConserved
  BY <1>4, BusySum, ServedSum DEF WorkConserved, WorkCounted, Steady, PoolInv
<1>5. Steady /\ WorkCounted => WorkConserved
  BY <1>4
<1> QED
  BY <1>1, <1>3, <1>5, SteadyInvariant, WholeInvariant, PacedInvariant, PTL DEF Spec
=============================================================================
