--------------------------- MODULE Loader_proofs ---------------------------
(***************************************************************************)
(* Proofs about the load generator of Loader: the counter of successes,    *)
(* the recorded latencies and stop agree, run_test reports exactly the     *)
(* requests it was asked for, and the pool never sleeps while a task is in *)
(* the queue, for any number of workers and requests.                      *)
(*                                                                         *)
(* The workers with the calls of http_get (HttpLoader) implement those of  *)
(* Loader, so that all of this holds for them; each of them owns its       *)
(* descriptor, and every success counted is backed by a reply, for any     *)
(* number of workers, addresses and faults.                                *)
(***************************************************************************)
EXTENDS HttpLoaderProperties, FiniteSetTheorems, TLAPS

LEMMA TargetNat == target_successes \in Nat
BY LoaderAssumption DEF LoaderAssumption, target_successes

\* notify_one and notify_all only move workers from the wait to the wake-up.
OnlyWakes ==
  /\ worker' \in [Workers -> WorkerPlaces]
  /\ \A w \in Workers : worker'[w] = worker[w] \/ (worker[w] = "waiting" /\ worker'[w] = "woken")

LEMMA NotifyOneWakes == ASSUME TypeOK, notify_one PROVE OnlyWakes
<1>1. CASE Waiting = {}
  BY <1>1 DEF notify_one, OnlyWakes, TypeOK
<1>2. CASE \E w \in Waiting : worker' = [worker EXCEPT ![w] = "woken"]
  BY <1>2 DEF Waiting, OnlyWakes, TypeOK, WorkerPlaces
<1> QED BY <1>1, <1>2 DEF notify_one

LEMMA NotifyAllWakes == ASSUME TypeOK, notify_all PROVE OnlyWakes
BY DEF notify_all, Waiting, OnlyWakes, TypeOK, WorkerPlaces

-----------------------------------------------------------------------------
(* Types. *)

LEMMA TypeInit == Init => TypeOK
<1> SUFFICES ASSUME Init PROVE TypeOK
  OBVIOUS
<1>1. /\ worker \in [Workers -> WorkerPlaces] /\ prev \in [Workers -> Nat]
      /\ killer \in KillerPlaces /\ main \in MainPlaces
  BY DEF Init, WorkerPlaces, KillerPlaces, MainPlaces
<1>2. cancelled \in 0 .. NUM_WORKERS
  BY LoaderAssumption DEF LoaderAssumption, Init
<1>3. done_ \in BOOLEAN /\ stop \in BOOLEAN
  BY Zenon DEF Init
<1>4. q_ \in Nat /\ successful \in Nat /\ latencies \in Nat /\ failures \in Nat
  BY DEF Init
<1> QED BY <1>1, <1>2, <1>3, <1>4 DEF TypeOK

LEMMA TypeWorker == ASSUME TypeOK, NEW w \in Workers, WorkerStep(w) \/ SpuriousWake(w)
                    PROVE  TypeOK'
<1> USE DEF TypeOK, WorkerMoves, WorkerPlaces, queue, counts
<1>1. CASE WorkerLoop(w)    BY <1>1 DEF WorkerLoop
<1>2. CASE Pop(w)           BY <1>2 DEF Pop
<1>3. CASE WorkerStarts(w)  BY <1>3 DEF WorkerStarts
<1>4. CASE HttpAnswers(w)   BY <1>4 DEF HttpAnswers
<1>5. CASE HttpFails(w)     BY <1>5 DEF HttpFails
<1>6. CASE Cancelled(w)     BY <1>6 DEF Cancelled
<1>7. CASE CountSuccess(w)  BY <1>7 DEF CountSuccess
<1>8. CASE RecordLatency(w) BY <1>8 DEF RecordLatency
<1>9. CASE WorkerStops(w)   BY <1>9 DEF WorkerStops
<1>10. CASE SpuriousWake(w) BY <1>10 DEF SpuriousWake
<1> QED BY <1>1, <1>2, <1>3, <1>4, <1>5, <1>6, <1>7, <1>8, <1>9, <1>10 DEF WorkerStep

LEMMA TypeKiller == ASSUME TypeOK, KillerStep PROVE TypeOK'
<1> USE DEF TypeOK, KillerMoves, KillerPlaces, counts
<1>1. CASE KillerLoop     BY <1>1 DEF KillerLoop
<1>2. CASE KillerChecks   BY <1>2 DEF KillerChecks
<1>3. CASE KillerStops    BY <1>3 DEF KillerStops
<1>4. CASE KillerSetsDone BY <1>4 DEF KillerSetsDone
<1>5. CASE KillerNotifies BY <1>5, NotifyAllWakes DEF KillerNotifies, OnlyWakes
<1>6. CASE KillerCancels  BY <1>6, LoaderAssumption DEF LoaderAssumption, KillerCancels
<1> QED BY <1>1, <1>2, <1>3, <1>4, <1>5, <1>6 DEF KillerStep

LEMMA TypeMain == ASSUME TypeOK, MainStep PROVE TypeOK'
<1> USE DEF TypeOK, MainMoves, MainPlaces, queue, counts
<1>1. CASE MainLoop        BY <1>1 DEF MainLoop
<1>2. CASE MainWakes       BY <1>2 DEF MainWakes
<1>3. CASE MainPushes      BY <1>3 DEF MainPushes
<1>4. CASE MainNotifies    BY <1>4, NotifyOneWakes DEF MainNotifies, OnlyWakes
<1>5. CASE MainSetsDone    BY <1>5 DEF MainSetsDone
<1>6. CASE MainNotifiesAll BY <1>6, NotifyAllWakes DEF MainNotifiesAll, OnlyWakes
<1>7. CASE MainJoinsKiller BY <1>7 DEF MainJoinsKiller
<1>8. CASE MainJoinsPool   BY <1>8 DEF MainJoinsPool
<1> QED BY <1>1, <1>2, <1>3, <1>4, <1>5, <1>6, <1>7, <1>8 DEF MainStep

LEMMA TypeStutter == ASSUME TypeOK, UNCHANGED vars PROVE TypeOK'
BY DEF TypeOK, vars, queue, counts

LEMMA TypeNext == TypeOK /\ [Next]_vars => TypeOK'
BY TypeWorker, TypeKiller, TypeMain, TypeStutter DEF Next, Returned

\* Every variable of the load generator keeps its type.
THEOREM LoaderTypeCorrect == Spec => []TypeOK
BY TypeInit, TypeNext, PTL DEF Spec

-----------------------------------------------------------------------------
(* stop is stored by whoever has seen the target reached: a worker by what *)
(* its fetch_add returned, the killer by a load.  In between the counter   *)
(* only grows.                                                             *)

TargetSeen ==
  /\ \A w \in Workers :
       /\ worker[w] = "stopping" => successful >= target_successes
       /\ worker[w] = "counted" => prev[w] + 1 <= successful
  /\ killer = "stop" => successful >= target_successes

StopInv == TypeOK /\ StopsAtTarget /\ TargetSeen

LEMMA StopInit == Init => StopInv
BY TypeInit DEF Init, StopInv, StopsAtTarget, TargetSeen

LEMMA StopWorker == ASSUME StopInv, NEW w \in Workers, WorkerStep(w) \/ SpuriousWake(w)
                    PROVE  StopsAtTarget' /\ TargetSeen'
<1>t. target_successes \in Nat BY TargetNat
<1>c. target_successes' = target_successes BY DEF target_successes
<1> USE <1>t, <1>c
        DEF StopInv, StopsAtTarget, TargetSeen, TypeOK, WorkerMoves, WorkerPlaces, queue, counts
<1>1. CASE WorkerLoop(w)    BY <1>1 DEF WorkerLoop
<1>2. CASE Pop(w)           BY <1>2 DEF Pop
<1>3. CASE WorkerStarts(w)  BY <1>3 DEF WorkerStarts
<1>4. CASE HttpAnswers(w)   BY <1>4 DEF HttpAnswers
<1>5. CASE HttpFails(w)     BY <1>5 DEF HttpFails
<1>6. CASE Cancelled(w)     BY <1>6 DEF Cancelled
<1>7. CASE CountSuccess(w)  BY <1>7 DEF CountSuccess
<1>8. CASE RecordLatency(w) BY <1>8 DEF RecordLatency
<1>9. CASE WorkerStops(w)   BY <1>9 DEF WorkerStops
<1>10. CASE SpuriousWake(w) BY <1>10 DEF SpuriousWake
<1> QED BY <1>1, <1>2, <1>3, <1>4, <1>5, <1>6, <1>7, <1>8, <1>9, <1>10 DEF WorkerStep

LEMMA StopKiller == ASSUME StopInv, KillerStep PROVE StopsAtTarget' /\ TargetSeen'
<1>t. target_successes \in Nat BY TargetNat
<1>c. target_successes' = target_successes BY DEF target_successes
<1> USE <1>t, <1>c
        DEF StopInv, StopsAtTarget, TargetSeen, TypeOK, KillerMoves, KillerPlaces, counts
<1>1. CASE KillerLoop     BY <1>1 DEF KillerLoop
<1>2. CASE KillerChecks   BY <1>2 DEF KillerChecks
<1>3. CASE KillerStops    BY <1>3 DEF KillerStops
<1>4. CASE KillerSetsDone BY <1>4 DEF KillerSetsDone
<1>5. CASE KillerNotifies BY <1>5, NotifyAllWakes DEF KillerNotifies, OnlyWakes
<1>6. CASE KillerCancels  BY <1>6 DEF KillerCancels
<1> QED BY <1>1, <1>2, <1>3, <1>4, <1>5, <1>6 DEF KillerStep

LEMMA StopMain == ASSUME StopInv, MainStep PROVE StopsAtTarget' /\ TargetSeen'
<1>c. target_successes' = target_successes BY DEF target_successes
<1> USE <1>c
        DEF StopInv, StopsAtTarget, TargetSeen, TypeOK, MainMoves, MainPlaces, queue, counts
<1>1. CASE MainLoop        BY <1>1 DEF MainLoop
<1>2. CASE MainWakes       BY <1>2 DEF MainWakes
<1>3. CASE MainPushes      BY <1>3 DEF MainPushes
<1>4. CASE MainNotifies    BY <1>4, NotifyOneWakes DEF MainNotifies, OnlyWakes
<1>5. CASE MainSetsDone    BY <1>5 DEF MainSetsDone
<1>6. CASE MainNotifiesAll BY <1>6, NotifyAllWakes DEF MainNotifiesAll, OnlyWakes
<1>7. CASE MainJoinsKiller BY <1>7 DEF MainJoinsKiller
<1>8. CASE MainJoinsPool   BY <1>8 DEF MainJoinsPool
<1> QED BY <1>1, <1>2, <1>3, <1>4, <1>5, <1>6, <1>7, <1>8 DEF MainStep

LEMMA StopNext == StopInv /\ [Next]_vars => StopInv'
<1> SUFFICES ASSUME StopInv, [Next]_vars PROVE StopInv'
  OBVIOUS
<1>1. TypeOK' BY TypeNext DEF StopInv
<1>2. CASE UNCHANGED vars
  BY <1>1, <1>2 DEF StopInv, StopsAtTarget, TargetSeen, vars, queue, counts, target_successes
<1> QED BY <1>1, <1>2, StopWorker, StopKiller, StopMain DEF Next, Returned, StopInv

\* A run of the load generator is never cut short.
THEOREM StopOnlyAtTarget == Spec => []StopsAtTarget
<1>1. StopInv => StopsAtTarget BY DEF StopInv
<1> QED BY StopInit, StopNext, <1>1, PTL DEF Spec

-----------------------------------------------------------------------------
(* Every success is recorded.  The step of a worker changes Unrecorded by   *)
(* that worker only, the other threads do not change it.                   *)

LEMMA UnrecordedFinite == IsFiniteSet(Unrecorded) /\ Cardinality(Unrecorded) \in Nat
<1>1. IsFiniteSet(Workers) BY FS_Interval, LoaderAssumption DEF LoaderAssumption, Workers
<1>2. IsFiniteSet(Unrecorded) BY <1>1, FS_Subset DEF Unrecorded
<1> QED BY <1>2, FS_CardinalityType

RecordInv == TypeOK /\ EverySuccessRecorded

LEMMA RecordInit == Init => RecordInv
<1> SUFFICES ASSUME Init PROVE EverySuccessRecorded
  BY TypeInit DEF RecordInv
<1>1. Unrecorded = {} BY DEF Init, Unrecorded
<1> QED BY <1>1, FS_EmptySet, TargetNat DEF Init, EverySuccessRecorded, Smaller

\* What leaves the counts and Unrecorded alone preserves the invariant.
LEMMA RecordSame ==
  ASSUME EverySuccessRecorded, UNCHANGED <<latencies, successful>>, Unrecorded' = Unrecorded
  PROVE  EverySuccessRecorded'
<1>1. target_successes' = target_successes BY DEF target_successes
<1> QED BY <1>1 DEF EverySuccessRecorded, Smaller

\* A worker that neither reaches nor leaves "counted" leaves Unrecorded alone.
LEMMA UnrecordedSame ==
  ASSUME TypeOK, NEW w \in Workers, NEW from, NEW to,
         WorkerMoves(w, from, to), "counted" \notin from, to # "counted"
  PROVE  Unrecorded' = Unrecorded
BY DEF TypeOK, WorkerMoves, Unrecorded

LEMMA RecordCount == ASSUME RecordInv, NEW w \in Workers, CountSuccess(w)
                     PROVE  EverySuccessRecorded'
<1>t. target_successes \in Nat /\ target_successes' = target_successes
  BY TargetNat DEF target_successes
<1>f. IsFiniteSet(Unrecorded) /\ Cardinality(Unrecorded) \in Nat BY UnrecordedFinite
<1>0. /\ successful \in Nat /\ latencies \in Nat
      /\ successful' = successful + 1 /\ latencies' = latencies
      /\ prev'[w] = successful
  BY DEF RecordInv, TypeOK, CountSuccess
<1>1. CASE successful >= target_successes
  <2>1. Unrecorded' = Unrecorded
    BY <1>1, <1>0, <1>t DEF CountSuccess, WorkerMoves, RecordInv, TypeOK, Unrecorded
  <2>2. Cardinality(Unrecorded') = Cardinality(Unrecorded) BY <2>1
  <2>3. latencies + Cardinality(Unrecorded) = target_successes
    BY <1>0, <1>1, <1>t DEF RecordInv, EverySuccessRecorded, Smaller
  <2> QED BY <2>2, <2>3, <1>0, <1>1, <1>t, <1>f DEF EverySuccessRecorded, Smaller
<1>2. CASE successful < target_successes
  <2>p. ~(prev'[w] >= target_successes) BY <1>2, <1>0, <1>t
  <2>0. worker' = [worker EXCEPT ![w] = "counted"] /\ worker[w] = "answered"
    BY <2>p DEF CountSuccess, WorkerMoves
  <2>1. Unrecorded' = Unrecorded \cup {w} /\ w \notin Unrecorded
    BY <2>0 DEF RecordInv, TypeOK, Unrecorded
  <2>2. Cardinality(Unrecorded') = Cardinality(Unrecorded) + 1
    BY <2>1, <1>f, FS_AddElement
  <2> QED BY <2>2, <1>0, <1>2, <1>t, <1>f DEF RecordInv, EverySuccessRecorded, Smaller
<1> QED BY <1>1, <1>2, <1>0, <1>t

LEMMA RecordRecords == ASSUME RecordInv, NEW w \in Workers, RecordLatency(w)
                       PROVE  EverySuccessRecorded'
<1>t. target_successes \in Nat /\ target_successes' = target_successes
  BY TargetNat DEF target_successes
<1>f. IsFiniteSet(Unrecorded) /\ Cardinality(Unrecorded) \in Nat BY UnrecordedFinite
<1>0. /\ successful \in Nat /\ latencies \in Nat /\ successful' = successful
      /\ latencies' = IF latencies < target_successes THEN latencies + 1 ELSE latencies
  BY DEF RecordInv, TypeOK, RecordLatency
<1>1. Unrecorded' = Unrecorded \ {w} /\ w \in Unrecorded
  <2> DEFINE to == IF prev[w] + 1 >= target_successes THEN "stopping" ELSE "loop"
  <2>1. to # "counted" OBVIOUS
  <2>2. worker' = [worker EXCEPT ![w] = to] /\ worker[w] = "counted"
    BY DEF RecordLatency, WorkerMoves
  <2> HIDE DEF to
  <2> QED BY <2>1, <2>2 DEF RecordInv, TypeOK, Unrecorded
<1>2. Cardinality(Unrecorded') = Cardinality(Unrecorded) - 1
  BY <1>1, <1>f, FS_RemoveElement
<1>3. Cardinality(Unrecorded) # 0 BY <1>1, <1>f, FS_EmptySet
<1> QED BY <1>0, <1>2, <1>3, <1>t, <1>f DEF RecordInv, EverySuccessRecorded, Smaller

LEMMA RecordWorker == ASSUME RecordInv, NEW w \in Workers, WorkerStep(w) \/ SpuriousWake(w)
                      PROVE  EverySuccessRecorded'
<1>0. TypeOK /\ EverySuccessRecorded BY DEF RecordInv
<1>1. CASE WorkerLoop(w)
  BY <1>0, <1>1, UnrecordedSame, RecordSame DEF WorkerLoop, counts
<1>2. CASE Pop(w)
  BY <1>0, <1>2, UnrecordedSame, RecordSame DEF Pop, counts
<1>3. CASE WorkerStarts(w)
  BY <1>0, <1>3, UnrecordedSame, RecordSame DEF WorkerStarts, counts
<1>4. CASE HttpAnswers(w)
  BY <1>0, <1>4, UnrecordedSame, RecordSame DEF HttpAnswers, counts
<1>5. CASE HttpFails(w)
  BY <1>0, <1>5, UnrecordedSame, RecordSame DEF HttpFails
<1>6. CASE Cancelled(w)
  BY <1>0, <1>6, UnrecordedSame, RecordSame DEF Cancelled, CancellationPoints, counts
<1>7. CASE CountSuccess(w)  BY <1>7, RecordCount
<1>8. CASE RecordLatency(w) BY <1>8, RecordRecords
<1>9. CASE WorkerStops(w)
  BY <1>0, <1>9, UnrecordedSame, RecordSame DEF WorkerStops, counts
<1>10. CASE SpuriousWake(w)
  BY <1>0, <1>10, UnrecordedSame, RecordSame DEF SpuriousWake, counts
<1> QED BY <1>1, <1>2, <1>3, <1>4, <1>5, <1>6, <1>7, <1>8, <1>9, <1>10 DEF WorkerStep

\* The killer and the main thread at most wake workers up.
LEMMA OthersWake ==
  ASSUME TypeOK, KillerStep \/ MainStep
  PROVE  UNCHANGED counts /\ (UNCHANGED worker \/ OnlyWakes)
<1>1. CASE KillerStep
  BY <1>1, NotifyAllWakes
  DEF KillerStep, KillerMoves, KillerLoop, KillerChecks, KillerStops, KillerSetsDone,
      KillerNotifies, KillerCancels
<1>2. CASE MainStep
  BY <1>2, NotifyOneWakes, NotifyAllWakes
  DEF MainStep, MainMoves, MainLoop, MainWakes, MainPushes, MainNotifies, MainSetsDone,
      MainNotifiesAll, MainJoinsKiller, MainJoinsPool
<1> QED BY <1>1, <1>2

LEMMA RecordOthers == ASSUME RecordInv, KillerStep \/ MainStep PROVE EverySuccessRecorded'
<1>1. UNCHANGED counts /\ (UNCHANGED worker \/ OnlyWakes) BY OthersWake DEF RecordInv
<1>2. Unrecorded' = Unrecorded BY <1>1 DEF Unrecorded, OnlyWakes
<1> QED BY <1>1, <1>2, RecordSame DEF RecordInv, counts

LEMMA RecordNext == RecordInv /\ [Next]_vars => RecordInv'
<1> SUFFICES ASSUME RecordInv, [Next]_vars PROVE RecordInv'
  OBVIOUS
<1>1. TypeOK' BY TypeNext DEF RecordInv
<1>2. CASE UNCHANGED vars
  BY <1>1, <1>2, RecordSame DEF RecordInv, Unrecorded, vars, counts
<1> QED BY <1>1, <1>2, RecordWorker, RecordOthers DEF Next, Returned, RecordInv

\* No cancellation loses a success that was counted.
THEOREM SuccessesRecorded == Spec => []EverySuccessRecorded
<1>1. RecordInv => EverySuccessRecorded BY DEF RecordInv
<1> QED BY RecordInit, RecordNext, <1>1, PTL DEF Spec

-----------------------------------------------------------------------------
(* The end of the test.  What has ended stays ended, and the main thread   *)
(* joins everybody on its way out.                                         *)

EndedStays ==
  /\ stop => stop'
  /\ killer = "ended" => killer' = "ended"
  /\ \A w \in Workers : worker[w] = "ended" => worker'[w] = "ended"

Joined ==
  /\ main \in {"set_done", "notify_all", "join_killer", "join_pool", "returned"} => stop
  /\ main \in {"join_pool", "returned"} => killer = "ended"
  /\ main = "returned" => \A w \in Workers : worker[w] = "ended"

LEMMA WorkerKeepsEnded ==
  ASSUME TypeOK, NEW w \in Workers, WorkerStep(w) \/ SpuriousWake(w)
  PROVE  EndedStays /\ UNCHANGED <<killer, main>>
<1>1. /\ UNCHANGED <<killer, main>> /\ worker[w] # "ended"
      /\ \E to : worker' = [worker EXCEPT ![w] = to]
  BY DEF WorkerStep, WorkerMoves, WorkerLoop, Pop, WorkerStarts, HttpAnswers, HttpFails, Cancelled,
         CancellationPoints, CountSuccess, RecordLatency, WorkerStops, SpuriousWake
<1>2. stop => stop'
  BY Zenon DEF WorkerStep, WorkerLoop, Pop, WorkerStarts, HttpAnswers, HttpFails, Cancelled,
         CountSuccess, RecordLatency, WorkerStops, SpuriousWake
<1>3. \A v \in Workers : worker[v] = "ended" => worker'[v] = "ended"
  BY <1>1 DEF TypeOK
<1> QED BY <1>1, <1>2, <1>3 DEF EndedStays

LEMMA KillerKeepsEnded ==
  ASSUME TypeOK, KillerStep PROVE EndedStays /\ UNCHANGED main
<1>1. UNCHANGED worker \/ OnlyWakes BY OthersWake
<1>2. UNCHANGED main /\ killer # "ended"
  BY DEF KillerStep, KillerMoves, KillerLoop, KillerChecks, KillerStops, KillerSetsDone,
         KillerNotifies, KillerCancels
<1>3. stop => stop'
  BY Zenon DEF KillerStep, KillerLoop, KillerChecks, KillerStops, KillerSetsDone,
         KillerNotifies, KillerCancels
<1> QED BY <1>1, <1>2, <1>3 DEF EndedStays, OnlyWakes

LEMMA MainKeepsEnded ==
  ASSUME TypeOK, MainStep PROVE EndedStays
<1>1. UNCHANGED worker \/ OnlyWakes BY OthersWake
<1>2. UNCHANGED killer
  BY DEF MainStep, MainMoves, MainLoop, MainWakes, MainPushes, MainNotifies, MainSetsDone,
         MainNotifiesAll, MainJoinsKiller, MainJoinsPool
<1>3. stop => stop'
  BY Zenon DEF MainStep, MainMoves, MainLoop, MainWakes, MainPushes, MainNotifies, MainSetsDone,
         MainNotifiesAll, MainJoinsKiller, MainJoinsPool
<1> QED BY <1>1, <1>2, <1>3 DEF EndedStays, OnlyWakes

LEMMA JoinedMain == ASSUME TypeOK, Joined, MainStep PROVE Joined'
<1>1. EndedStays BY MainKeepsEnded
<1> USE <1>1 DEF Joined, EndedStays, MainMoves
<1>2. CASE MainLoop        BY <1>2 DEF MainLoop
<1>3. CASE MainWakes       BY <1>3 DEF MainWakes
<1>4. CASE MainPushes      BY <1>4 DEF MainPushes
<1>5. CASE MainNotifies    BY <1>5 DEF MainNotifies
<1>6. CASE MainSetsDone    BY <1>6 DEF MainSetsDone
<1>7. CASE MainNotifiesAll BY <1>7 DEF MainNotifiesAll
<1>8. CASE MainJoinsKiller BY <1>8 DEF MainJoinsKiller
<1>9. CASE MainJoinsPool   BY <1>9 DEF MainJoinsPool
<1> QED BY <1>2, <1>3, <1>4, <1>5, <1>6, <1>7, <1>8, <1>9 DEF MainStep

LEMMA JoinedNext == TypeOK /\ Joined /\ [Next]_vars => Joined'
<1> SUFFICES ASSUME TypeOK, Joined, [Next]_vars PROVE Joined'
  OBVIOUS
<1>1. CASE UNCHANGED vars BY <1>1 DEF Joined, vars
<1>2. CASE MainStep BY <1>2, JoinedMain
<1>3. CASE KillerStep BY <1>3, KillerKeepsEnded DEF Joined, EndedStays
<1>4. CASE \E w \in Workers : WorkerStep(w) \/ SpuriousWake(w)
  BY <1>4, WorkerKeepsEnded DEF Joined, EndedStays
<1> QED BY <1>1, <1>2, <1>3, <1>4 DEF Next, Returned

ReturnInv == StopInv /\ RecordInv /\ Joined

LEMMA ReturnInit == Init => ReturnInv
<1>1. Init => Joined BY DEF Init, Joined
<1> QED BY <1>1, StopInit, RecordInit DEF ReturnInv

LEMMA ReturnNext == ReturnInv /\ [Next]_vars => ReturnInv'
BY StopNext, RecordNext, JoinedNext DEF ReturnInv, StopInv

LEMMA ReturnReports == ReturnInv => ReportsTarget
<1> SUFFICES ASSUME ReturnInv, main = "returned" PROVE ReportsTarget
  BY DEF ReportsTarget
<1>1. stop /\ killer = "ended" /\ \A w \in Workers : worker[w] = "ended"
  BY DEF ReturnInv, Joined
<1>2. Unrecorded = {} BY <1>1 DEF Unrecorded
<1>3. successful >= target_successes BY <1>1 DEF ReturnInv, StopInv, StopsAtTarget
<1>4. Cardinality(Unrecorded) = 0 BY <1>2, FS_EmptySet
<1>5. latencies \in Nat /\ successful \in Nat BY DEF ReturnInv, StopInv, TypeOK
<1>6. latencies = target_successes
  BY <1>3, <1>4, <1>5, TargetNat DEF ReturnInv, RecordInv, EverySuccessRecorded, Smaller
<1> QED BY <1>1, <1>6 DEF ReportsTarget

\* run_test reports exactly target_successes requests.
THEOREM TargetReported == Spec => []ReportsTarget
BY ReturnInit, ReturnNext, ReturnReports, PTL DEF Spec

-----------------------------------------------------------------------------
(* The surplus.  A worker whose success reaches or passes the target is on *)
(* its way out, so that each worker passes the target at most once.        *)

Leaving == {w \in Workers : \/ worker[w] \in {"stopping", "ended"}
                            \/ worker[w] = "counted" /\ prev[w] + 1 >= target_successes}

\* The successes from the target on were counted by workers that leave.
SurplusLeaves ==
  \/ successful < target_successes
  \/ successful + (IF target_successes > 0 THEN 1 ELSE 0) <= target_successes + Cardinality(Leaving)

SurplusInv == TypeOK /\ SurplusLeaves

LEMMA LeavingFinite ==
  /\ IsFiniteSet(Leaving) /\ Cardinality(Leaving) \in Nat
  /\ Cardinality(Leaving) <= NUM_WORKERS
<1>1. IsFiniteSet(Workers) /\ Cardinality(Workers) = NUM_WORKERS
  BY FS_Interval, LoaderAssumption DEF LoaderAssumption, Workers
<1>2. Leaving \in SUBSET Workers BY DEF Leaving
<1>3. IsFiniteSet(Leaving) /\ Cardinality(Leaving) <= NUM_WORKERS
  BY <1>1, <1>2, FS_Subset
<1> QED BY <1>3, FS_CardinalityType

LEMMA SurplusInit == Init => SurplusInv
<1> SUFFICES ASSUME Init PROVE SurplusLeaves
  BY TypeInit DEF SurplusInv
<1>1. successful = 0 BY DEF Init
<1> QED BY <1>1, TargetNat, LeavingFinite DEF SurplusLeaves

\* A worker that counts a success at the target or past it starts to leave.
LEMMA SurplusCount == ASSUME SurplusInv, NEW w \in Workers, CountSuccess(w)
                      PROVE  SurplusLeaves'
<1>t. target_successes \in Nat /\ target_successes' = target_successes
  BY TargetNat DEF target_successes
<1>f. IsFiniteSet(Leaving) /\ Cardinality(Leaving) \in Nat BY LeavingFinite
<1>0. /\ successful \in Nat /\ successful' = successful + 1
      /\ prev' = [prev EXCEPT ![w] = successful] /\ prev'[w] = successful
      /\ worker[w] = "answered"
      /\ worker' = [worker EXCEPT ![w] = IF prev'[w] >= target_successes THEN "stopping"
                                                                       ELSE "counted"]
  BY DEF SurplusInv, TypeOK, CountSuccess, WorkerMoves
<1>1. CASE successful + 1 < target_successes
  BY <1>0, <1>1, <1>t DEF SurplusLeaves
<1>2. CASE successful + 1 >= target_successes
  <2>1. w \notin Leaving BY <1>0 DEF Leaving
  <2>2. worker'[w] = "stopping" \/ (worker'[w] = "counted" /\ prev'[w] + 1 >= target_successes)
    BY <1>0, <1>2, <1>t DEF SurplusInv, TypeOK
  <2>3. \A v \in Workers \ {w} : worker'[v] = worker[v] /\ prev'[v] = prev[v]
    BY <1>0 DEF SurplusInv, TypeOK
  <2>4. Leaving' = Leaving \cup {w}
    BY <2>2, <2>3, <1>t DEF Leaving
  <2>5. Cardinality(Leaving') = Cardinality(Leaving) + 1
    BY <2>1, <2>4, <1>f, FS_AddElement
  <2> QED BY <2>5, <1>0, <1>2, <1>t, <1>f DEF SurplusInv, SurplusLeaves
<1> QED BY <1>1, <1>2, <1>0, <1>t

\* Nobody who leaves comes back.
LEMMA SurplusSame ==
  ASSUME SurplusInv, UNCHANGED successful, Leaving \subseteq Leaving'
  PROVE  SurplusLeaves'
<1>t. target_successes \in Nat /\ target_successes' = target_successes
  BY TargetNat DEF target_successes
<1>1. IsFiniteSet(Workers) BY FS_Interval, LoaderAssumption DEF LoaderAssumption, Workers
<1>2. Leaving' \in SUBSET Workers BY DEF Leaving
<1>3. IsFiniteSet(Leaving') /\ Cardinality(Leaving') \in Nat
  BY <1>1, <1>2, FS_Subset, FS_CardinalityType
<1>4. Cardinality(Leaving) <= Cardinality(Leaving')
  BY <1>3, FS_Subset
<1>5. Cardinality(Leaving) \in Nat /\ successful \in Nat
  BY LeavingFinite DEF SurplusInv, TypeOK
<1> QED BY <1>t, <1>3, <1>4, <1>5 DEF SurplusInv, SurplusLeaves

\* A worker leaves Leaving alone or joins it, unless it counts a success.
LEMMA LeavingGrows ==
  ASSUME TypeOK, NEW w \in Workers, NEW from, NEW to,
         WorkerMoves(w, from, to), UNCHANGED prev,
         worker[w] \in {"stopping", "ended", "counted"} => to \in {"stopping", "ended"} \/ w \notin Leaving
  PROVE  Leaving \subseteq Leaving'
<1>1. target_successes' = target_successes BY DEF target_successes
<1>2. worker' = [worker EXCEPT ![w] = to] BY DEF WorkerMoves
<1>3. \A v \in Workers \ {w} : worker'[v] = worker[v] BY <1>2 DEF TypeOK
<1>4. worker'[w] = to BY <1>2 DEF TypeOK
<1>5. w \in Leaving => w \in Leaving' BY <1>4 DEF Leaving
<1> QED BY <1>1, <1>3, <1>5 DEF Leaving

LEMMA SurplusWorker == ASSUME SurplusInv, NEW w \in Workers, WorkerStep(w) \/ SpuriousWake(w)
                       PROVE  SurplusLeaves'
<1>0. TypeOK BY DEF SurplusInv
<1>1. CASE WorkerLoop(w)
  <2>1. Leaving \subseteq Leaving'
    BY <1>0, <1>1, LeavingGrows DEF WorkerLoop, WorkerMoves, counts
  <2> QED BY <1>1, <2>1, SurplusSame DEF WorkerLoop, counts
<1>2. CASE Pop(w)
  <2>1. Leaving \subseteq Leaving'
    BY <1>0, <1>2, LeavingGrows DEF Pop, WorkerMoves, counts
  <2> QED BY <1>2, <2>1, SurplusSame DEF Pop, counts
<1>3. CASE WorkerStarts(w)
  <2>1. Leaving \subseteq Leaving'
    BY <1>0, <1>3, LeavingGrows DEF WorkerStarts, WorkerMoves, counts
  <2> QED BY <1>3, <2>1, SurplusSame DEF WorkerStarts, counts
<1>4. CASE HttpAnswers(w)
  <2>1. Leaving \subseteq Leaving'
    BY <1>0, <1>4, LeavingGrows DEF HttpAnswers, WorkerMoves, counts
  <2> QED BY <1>4, <2>1, SurplusSame DEF HttpAnswers, counts
<1>5. CASE HttpFails(w)
  <2>1. Leaving \subseteq Leaving'
    BY <1>0, <1>5, LeavingGrows DEF HttpFails, WorkerMoves
  <2> QED BY <1>5, <2>1, SurplusSame DEF HttpFails
<1>6. CASE Cancelled(w)
  <2>1. Leaving \subseteq Leaving'
    BY <1>0, <1>6, LeavingGrows DEF Cancelled, WorkerMoves, counts
  <2> QED BY <1>6, <2>1, SurplusSame DEF Cancelled, counts
<1>7. CASE CountSuccess(w) BY <1>7, SurplusCount
<1>8. CASE RecordLatency(w)
  <2> DEFINE to == IF prev[w] + 1 >= target_successes THEN "stopping" ELSE "loop"
  <2>1. /\ WorkerMoves(w, {"counted"}, to) /\ worker[w] = "counted"
        /\ UNCHANGED <<prev, successful>>
    BY <1>8 DEF RecordLatency, WorkerMoves
  <2>2. to = "stopping" \/ w \notin Leaving
    BY <2>1 DEF Leaving
  <2> HIDE DEF to
  <2>3. Leaving \subseteq Leaving'
    BY <1>0, <2>1, <2>2, LeavingGrows
  <2> QED BY <2>1, <2>3, SurplusSame
<1>9. CASE WorkerStops(w)
  <2>1. Leaving \subseteq Leaving'
    BY <1>0, <1>9, LeavingGrows DEF WorkerStops, WorkerMoves, counts
  <2> QED BY <1>9, <2>1, SurplusSame DEF WorkerStops, counts
<1>10. CASE SpuriousWake(w)
  <2>1. Leaving \subseteq Leaving'
    BY <1>0, <1>10, LeavingGrows DEF SpuriousWake, WorkerMoves, counts
  <2> QED BY <1>10, <2>1, SurplusSame DEF SpuriousWake, counts
<1> QED BY <1>1, <1>2, <1>3, <1>4, <1>5, <1>6, <1>7, <1>8, <1>9, <1>10 DEF WorkerStep

LEMMA SurplusNext == SurplusInv /\ [Next]_vars => SurplusInv'
<1> SUFFICES ASSUME SurplusInv, [Next]_vars PROVE SurplusInv'
  OBVIOUS
<1>1. TypeOK' BY TypeNext DEF SurplusInv
<1>2. CASE UNCHANGED vars
  <2>1. Leaving' = Leaving BY <1>2 DEF Leaving, vars, counts, target_successes
  <2> QED BY <1>1, <1>2, <2>1, SurplusSame DEF SurplusInv, vars, counts
<1>3. CASE KillerStep \/ MainStep
  <2>1. UNCHANGED counts /\ (UNCHANGED worker \/ OnlyWakes)
    BY <1>3, OthersWake DEF SurplusInv
  <2>2. Leaving' = Leaving BY <2>1 DEF Leaving, OnlyWakes, counts, target_successes
  <2> QED BY <1>1, <2>1, <2>2, SurplusSame DEF SurplusInv, counts
<1> QED BY <1>1, <1>2, <1>3, SurplusWorker DEF Next, Returned, SurplusInv

LEMMA SurplusIsBounded == SurplusInv => SurplusBounded
<1> SUFFICES ASSUME SurplusInv PROVE SurplusBounded
  OBVIOUS
<1>1. successful \in Nat BY DEF SurplusInv, TypeOK
<1>2. NUM_WORKERS \in Nat BY LoaderAssumption DEF LoaderAssumption
<1> QED BY <1>1, <1>2, TargetNat, LeavingFinite DEF SurplusInv, SurplusLeaves, SurplusBounded

\* At most one success per worker beyond the target.
THEOREM SurplusIsSmall == Spec => []SurplusBounded
BY SurplusInit, SurplusNext, SurplusIsBounded, PTL DEF Spec


-----------------------------------------------------------------------------
(* No wake-up is lost.  While a worker waits every task has its own wake-up: *)
(* a woken worker, or the notification the main thread is about to give; and *)
(* nobody waits once the end of the run was notified, which is why the       *)
(* cancellation of a woken worker cannot strand another one.                 *)

Woken == {w \in Workers : worker[w] = "woken"}

TasksNotified ==
  Waiting # {} => q_ <= Cardinality(Woken) + (IF main = "notify_one" THEN 1 ELSE 0)

EndNotified ==
  /\ done_ /\ Waiting # {} => main = "notify_all" \/ killer = "notify_all"
  /\ killer \in {"notify_all", "cancel"} => done_
  /\ killer = "cancel" \/ cancelled > 0 => done_ /\ Waiting = {}

WakeInv == TypeOK /\ TasksNotified /\ EndNotified

LEMMA WokenFinite == /\ IsFiniteSet(Woken) /\ Cardinality(Woken) \in Nat
                     /\ IsFiniteSet(Woken') /\ Cardinality(Woken') \in Nat
<1>1. IsFiniteSet(Workers) BY FS_Interval, LoaderAssumption DEF LoaderAssumption, Workers
<1>2. Woken \in SUBSET Workers /\ Woken' \in SUBSET Workers BY DEF Woken
<1> QED BY <1>1, <1>2, FS_Subset, FS_CardinalityType

LEMMA WakeInit == Init => WakeInv
<1> SUFFICES ASSUME Init PROVE TasksNotified /\ EndNotified
  BY TypeInit DEF WakeInv
<1>1. Waiting = {} BY DEF Init, Waiting
<1>2. killer = "loop" /\ cancelled = 0 BY DEF Init
<1> QED BY <1>1, <1>2 DEF TasksNotified, EndNotified

\* Nobody starts to wait, and nobody who was woken goes away.
LEMMA WakeSame ==
  ASSUME WakeInv, UNCHANGED <<q_, done_, cancelled, killer, main>>,
         Waiting' \subseteq Waiting, Woken \subseteq Woken'
  PROVE  TasksNotified' /\ EndNotified'
<1>1. Cardinality(Woken) <= Cardinality(Woken')
  BY WokenFinite, FS_Subset
<1>2. TasksNotified'
  BY <1>1, WokenFinite DEF WakeInv, TasksNotified, TypeOK
<1>3. EndNotified'
  BY DEF WakeInv, EndNotified
<1> QED BY <1>2, <1>3

\* What a worker that moves does to the two sets.
LEMMA WorkerWakes ==
  ASSUME TypeOK, NEW w \in Workers, NEW from, NEW to, WorkerMoves(w, from, to)
  PROVE  /\ UNCHANGED <<cancelled, killer, main>> /\ worker[w] \in from
         /\ Waiting' = IF to = "waiting" THEN Waiting \cup {w} ELSE Waiting \ {w}
         /\ Woken' = IF to = "woken" THEN Woken \cup {w} ELSE Woken \ {w}
         /\ w \in Woken <=> worker[w] = "woken"
         /\ w \in Waiting <=> worker[w] = "waiting"
<1>1. UNCHANGED <<cancelled, killer, main>> /\ worker[w] \in from
  BY DEF WorkerMoves
<1>2. worker'[w] = to /\ \A v \in Workers : v # w => worker'[v] = worker[v]
  BY DEF WorkerMoves, TypeOK
<1> QED BY <1>1, <1>2 DEF Waiting, Woken

\* Away from the queue.
LEMMA WorkerElsewhere ==
  ASSUME WakeInv, NEW w \in Workers, NEW from, NEW to, WorkerMoves(w, from, to),
         UNCHANGED queue, from \cap {"waiting", "woken"} = {}, to \notin {"waiting", "woken"}
  PROVE  TasksNotified' /\ EndNotified'
<1>1. Waiting' = Waiting /\ Woken' = Woken /\ UNCHANGED <<cancelled, killer, main>>
  BY WorkerWakes DEF WakeInv
<1> QED BY <1>1, WakeSame DEF queue

LEMMA WakePop == ASSUME WakeInv, NEW w \in Workers, Pop(w) PROVE TasksNotified' /\ EndNotified'
<1>0. TypeOK /\ q_ \in Nat /\ done_' = done_ BY DEF WakeInv, TypeOK, Pop
<1> DEFINE to == IF q_ > 0 THEN "popped" ELSE IF done_ THEN "ended" ELSE "waiting"
<1>1. WorkerMoves(w, {"pop", "woken"}, to) BY DEF Pop
<1>2. to # "woken" OBVIOUS
<1>3. /\ UNCHANGED <<cancelled, killer, main>> /\ Woken' = Woken \ {w} /\ w \notin Waiting
      /\ Waiting' = IF to = "waiting" THEN Waiting \cup {w} ELSE Waiting \ {w}
  <2> HIDE DEF to
  <2> QED BY <1>0, <1>1, <1>2, WorkerWakes
<1>4. CASE q_ > 0
  <2>1. q_' = q_ - 1 /\ Waiting' = Waiting
    BY <1>3, <1>4 DEF Pop
  <2>2. Cardinality(Woken') >= Cardinality(Woken) - 1
    BY <1>3, WokenFinite, FS_RemoveElement
  <2>3. TasksNotified'
    BY <1>0, <1>3, <2>1, <2>2, WokenFinite DEF WakeInv, TasksNotified
  <2>4. EndNotified' BY <1>0, <1>3, <2>1 DEF WakeInv, EndNotified
  <2> QED BY <2>3, <2>4
<1>5. CASE ~(q_ > 0)
  <2>1. q_' = 0 BY <1>5 DEF Pop
  <2>2. TasksNotified' BY <2>1, WokenFinite DEF TasksNotified
  <2>3. done_ => Waiting' = Waiting BY <1>3, <1>5
  <2>4. EndNotified' BY <1>0, <1>3, <2>3 DEF WakeInv, EndNotified
  <2> QED BY <2>2, <2>4
<1> QED BY <1>4, <1>5

LEMMA WakeWorker == ASSUME WakeInv, NEW w \in Workers, WorkerStep(w) \/ SpuriousWake(w)
                    PROVE  TasksNotified' /\ EndNotified'
<1>0. TypeOK BY DEF WakeInv
<1>1. CASE WorkerLoop(w)   BY <1>1, WorkerElsewhere DEF WorkerLoop
<1>2. CASE Pop(w)          BY <1>2, WakePop
<1>3. CASE WorkerStarts(w) BY <1>3, WorkerElsewhere DEF WorkerStarts
<1>4. CASE HttpAnswers(w)  BY <1>4, WorkerElsewhere DEF HttpAnswers
<1>5. CASE HttpFails(w)    BY <1>5, WorkerElsewhere DEF HttpFails
<1>6. CASE Cancelled(w)
  <2>1. cancelled > 0 BY <1>0, <1>6 DEF Cancelled, CancelPending, Workers, TypeOK
  <2>2. /\ UNCHANGED <<q_, done_, cancelled, killer, main>>
        /\ Waiting' = Waiting \ {w}
    BY <1>0, <1>6, WorkerWakes DEF Cancelled, queue
  <2>3. done_' /\ Waiting' = {} BY <2>1, <2>2 DEF WakeInv, EndNotified
  <2> QED BY <2>2, <2>3 DEF TasksNotified, EndNotified
<1>7. CASE CountSuccess(w)
  <2> DEFINE to == IF prev'[w] >= target_successes THEN "stopping" ELSE "counted"
  <2>1. WorkerMoves(w, {"answered"}, to) /\ UNCHANGED queue BY <1>7 DEF CountSuccess
  <2>2. to \notin {"waiting", "woken"} OBVIOUS
  <2> HIDE DEF to
  <2> QED BY <2>1, <2>2, WorkerElsewhere
<1>8. CASE RecordLatency(w)
  <2> DEFINE to == IF prev[w] + 1 >= target_successes THEN "stopping" ELSE "loop"
  <2>1. WorkerMoves(w, {"counted"}, to) /\ UNCHANGED queue BY <1>8 DEF RecordLatency
  <2>2. to \notin {"waiting", "woken"} OBVIOUS
  <2> HIDE DEF to
  <2> QED BY <2>1, <2>2, WorkerElsewhere
<1>9. CASE WorkerStops(w) BY <1>9, WorkerElsewhere DEF WorkerStops
<1>10. CASE SpuriousWake(w)
  <2>1. /\ UNCHANGED <<q_, done_, cancelled, killer, main>>
        /\ Waiting' = Waiting \ {w} /\ Woken' = Woken \cup {w}
    BY <1>0, <1>10, WorkerWakes DEF SpuriousWake, queue
  <2> QED BY <2>1, WakeSame
<1> QED BY <1>1, <1>2, <1>3, <1>4, <1>5, <1>6, <1>7, <1>8, <1>9, <1>10 DEF WorkerStep

LEMMA NotifyAllEmpties == ASSUME TypeOK, notify_all PROVE Waiting' = {}
BY DEF notify_all, Waiting, TypeOK

LEMMA WakeKiller == ASSUME WakeInv, KillerStep PROVE TasksNotified' /\ EndNotified'
<1>0. TypeOK /\ UNCHANGED <<q_, main>> /\ killer \in KillerPlaces
  BY DEF WakeInv, TypeOK, KillerStep, KillerLoop, KillerChecks, KillerStops, KillerSetsDone,
         KillerNotifies, KillerCancels, KillerMoves
<1>1. CASE KillerLoop \/ KillerChecks \/ KillerStops \/ KillerSetsDone
  <2>1. /\ UNCHANGED <<worker, cancelled>> /\ killer \notin {"notify_all", "cancel"}
        /\ killer' # "cancel" /\ (done_' = done_ \/ done_' = TRUE)
        /\ killer' = "notify_all" \/ done_' # done_ => done_' = TRUE /\ killer' = "notify_all"
    BY <1>1 DEF KillerLoop, KillerChecks, KillerStops, KillerSetsDone, KillerMoves
  <2>2. Waiting' = Waiting /\ Woken' = Woken BY <2>1 DEF Waiting, Woken
  <2>3. TasksNotified' BY <1>0, <2>2 DEF WakeInv, TasksNotified
  <2>4. EndNotified' BY <1>0, <2>1, <2>2 DEF WakeInv, EndNotified
  <2> QED BY <2>3, <2>4
<1>2. CASE KillerNotifies
  <2>1. Waiting' = {} /\ done_ /\ done_' = done_
    BY <1>0, <1>2, NotifyAllEmpties DEF KillerNotifies, KillerMoves, WakeInv, EndNotified
  <2> QED BY <2>1 DEF TasksNotified, EndNotified
<1>3. CASE KillerCancels
  <2>1. Waiting = {} /\ done_ /\ done_' = done_ /\ worker' = worker
    BY <1>0, <1>3 DEF KillerCancels, KillerMoves, WakeInv, EndNotified
  <2>2. Waiting' = {} BY <2>1 DEF Waiting
  <2> QED BY <2>1, <2>2 DEF TasksNotified, EndNotified
<1> QED BY <1>1, <1>2, <1>3 DEF KillerStep

LEMMA WakeMain == ASSUME WakeInv, MainStep PROVE TasksNotified' /\ EndNotified'
<1>0. TypeOK /\ UNCHANGED <<cancelled, killer>> /\ q_ \in Nat
  BY DEF WakeInv, TypeOK, MainStep, MainLoop, MainWakes, MainPushes, MainNotifies, MainSetsDone,
         MainNotifiesAll, MainJoinsKiller, MainJoinsPool, MainMoves
<1>1. CASE MainLoop \/ MainWakes \/ MainJoinsKiller \/ MainJoinsPool
  <2>1. /\ UNCHANGED <<worker, q_, done_>> /\ main \notin {"notify_one", "notify_all"}
    BY <1>1 DEF MainLoop, MainWakes, MainJoinsKiller, MainJoinsPool, MainMoves, queue
  <2>2. Waiting' = Waiting /\ Woken' = Woken BY <2>1 DEF Waiting, Woken
  <2>3. TasksNotified' BY <1>0, <2>1, <2>2, WokenFinite DEF WakeInv, TasksNotified
  <2>4. EndNotified' BY <1>0, <2>1, <2>2 DEF WakeInv, EndNotified
  <2> QED BY <2>3, <2>4
<1>2. CASE MainPushes
  <2>1. /\ q_' = q_ + 1 /\ UNCHANGED <<worker, done_>>
        /\ main = "push" /\ main' = "notify_one"
    BY <1>2 DEF MainPushes, MainMoves
  <2>2. Waiting' = Waiting /\ Woken' = Woken BY <2>1 DEF Waiting, Woken
  <2>3. TasksNotified' BY <1>0, <2>1, <2>2, WokenFinite DEF WakeInv, TasksNotified
  <2>4. EndNotified' BY <1>0, <2>1, <2>2 DEF WakeInv, EndNotified
  <2> QED BY <2>3, <2>4
<1>3. CASE MainNotifies
  <2>1. UNCHANGED <<q_, done_>> /\ main = "notify_one" /\ main' = "loop" /\ notify_one
    BY <1>3 DEF MainNotifies, MainMoves, queue
  <2>2. CASE Waiting = {}
    <3>1. Waiting' = {} BY <2>1, <2>2 DEF notify_one, Waiting
    <3> QED BY <1>0, <2>1, <2>2, <3>1 DEF WakeInv, TasksNotified, EndNotified
  <2>3. CASE Waiting # {}
    <3>1. PICK w \in Waiting : worker' = [worker EXCEPT ![w] = "woken"]
      BY <2>1, <2>3 DEF notify_one
    <3>2. Waiting' = Waiting \ {w} /\ Woken' = Woken \cup {w} /\ w \notin Woken
      BY <1>0, <3>1 DEF Waiting, Woken, TypeOK
    <3>3. Cardinality(Woken') = Cardinality(Woken) + 1
      BY <3>2, WokenFinite, FS_AddElement
    <3>4. TasksNotified' BY <1>0, <2>1, <2>3, <3>3, WokenFinite DEF WakeInv, TasksNotified
    <3>5. EndNotified' BY <1>0, <2>1, <3>2 DEF WakeInv, EndNotified
    <3> QED BY <3>4, <3>5
  <2> QED BY <2>2, <2>3
<1>4. CASE MainSetsDone
  <2>1. /\ done_' = TRUE /\ UNCHANGED <<q_, worker>>
        /\ main = "set_done" /\ main' = "notify_all"
    BY <1>4 DEF MainSetsDone, MainMoves
  <2>2. Waiting' = Waiting /\ Woken' = Woken BY <2>1 DEF Waiting, Woken
  <2>3. TasksNotified' BY <1>0, <2>1, <2>2, WokenFinite DEF WakeInv, TasksNotified
  <2>4. EndNotified' BY <1>0, <2>1, <2>2 DEF WakeInv, EndNotified
  <2> QED BY <2>3, <2>4
<1>5. CASE MainNotifiesAll
  <2>1. Waiting' = {} /\ UNCHANGED done_
    BY <1>0, <1>5, NotifyAllEmpties DEF MainNotifiesAll, queue
  <2> QED BY <1>0, <2>1 DEF WakeInv, TasksNotified, EndNotified
<1> QED BY <1>1, <1>2, <1>3, <1>4, <1>5 DEF MainStep

LEMMA WakeNext == WakeInv /\ [Next]_vars => WakeInv'
<1> SUFFICES ASSUME WakeInv, [Next]_vars PROVE WakeInv'
  OBVIOUS
<1>1. TypeOK' BY TypeNext DEF WakeInv
<1>2. CASE UNCHANGED vars
  <2>1. UNCHANGED <<q_, done_, cancelled, killer, main, worker>> BY <1>2 DEF vars, queue
  <2>2. Waiting' = Waiting /\ Woken' = Woken BY <2>1 DEF Waiting, Woken
  <2> QED BY <1>1, <2>1, <2>2, WakeSame DEF WakeInv
<1> QED BY <1>1, <1>2, WakeWorker, WakeKiller, WakeMain DEF Next, Returned, WakeInv

LEMMA NobodyOversleeps == WakeInv => NoSleepingPool
<1> SUFFICES ASSUME WakeInv, Waiting # {}, \A w \in Workers : worker[w] \in {"waiting", "ended"},
                    q_ > 0 \/ done_
             PROVE  main \in {"notify_one", "notify_all"} \/ killer = "notify_all"
  BY DEF NoSleepingPool
<1>1. Woken = {} BY DEF Woken
<1>2. Cardinality(Woken) = 0 BY <1>1, FS_EmptySet
<1>3. q_ > 0 => main = "notify_one" BY <1>2 DEF WakeInv, TasksNotified, TypeOK
<1> QED BY <1>3 DEF WakeInv, EndNotified

\* The pool never sleeps through a task or the end of the run, for any number
\* of workers and tasks and wherever the cancellations hit.
THEOREM PoolNeverOversleeps == Spec => []NoSleepingPool
BY WakeInit, WakeNext, NobodyOversleeps, PTL DEF Spec

-----------------------------------------------------------------------------
(* The composition implements Loader. *)

LEMMA HttpStepIsWorkerStep ==
  ASSUME NEW w \in Workers, HttpStep(w) PROVE WorkerStep(w) \/ UNCHANGED vars
<1> USE DEF Goes, Returns, WorkerStep
<1>1. CASE Resolves(w) \/ ResolveFails(w)
  BY <1>1 DEF Resolves, ResolveFails
<1>2. CASE SocketOpens(w) \/ SocketFails(w)
  BY <1>2 DEF SocketOpens, SocketFails
<1>3. CASE Connects(w) \/ ConnectFails(w) \/ AddressesTried(w)
  BY <1>3 DEF Connects, ConnectFails, AddressesTried
<1>4. CASE Sends(w) \/ SendFails(w) \/ SendKills(w)
  BY <1>4 DEF Sends, SendFails, SendKills
<1>5. CASE Receives(w) \/ ReplyEnds(w) \/ ReplyTimesOut(w)
  BY <1>5 DEF Receives, ReplyEnds, ReplyTimesOut
<1> QED
  BY <1>1, <1>2, <1>3, <1>4, <1>5 DEF HttpStep

LEMMA HttpNextIsNext == [HttpNext]_hvars => [Next]_vars
<1> SUFFICES ASSUME [HttpNext]_hvars PROVE [Next]_vars
  OBVIOUS
<1>1. ASSUME NEW w \in Workers, HttpWorkerStep(w) PROVE [Next]_vars
  <2>1. CASE HttpStep(w)
    BY <2>1, HttpStepIsWorkerStep DEF Next
  <2>2. CASE HttpCancelled(w) \/ OutsideStep(w)
    BY <2>2 DEF HttpCancelled, OutsideStep, WorkerStep, Next
  <2> QED
    BY <1>1, <2>1, <2>2 DEF HttpWorkerStep
<1>2. CASE UNCHANGED hvars
  BY <1>2 DEF hvars
<1> QED
  BY <1>1, <1>2 DEF HttpNext, Next

\* With every call of http_get in place, and whatever fails in them, a worker
\* does what a worker of Loader does (http_get and its caller in run_test).
THEOREM HttpImplementsLoader == HttpSpec => Spec
<1>1. HttpInit => Init
  BY DEF HttpInit
<1> QED
  BY <1>1, HttpNextIsNext, PTL DEF HttpSpec, Spec

\* The counts of the load test are right with http_get in place: what is
\* proved of Loader holds for the composition.
THEOREM HttpCountsRight == HttpSpec => [](EverySuccessRecorded /\ ReportsTarget /\ SurplusBounded)
  BY HttpImplementsLoader, SuccessesRecorded, TargetReported, SurplusIsSmall, PTL

-----------------------------------------------------------------------------
(* Ownership of the descriptors. *)

CallNames == {"getaddrinfo", "socket", "connect", "send", "recv"}
WithSocket == {"connect", "send", "recv"}

HttpTypeOK ==
  /\ call \in [Workers -> CallNames] /\ sockfd \in [Workers -> Fds \cup {NoFd}]
  /\ open \subseteq [fd : Fds, by : Workers] /\ lists \subseteq Workers

\* What w holds, by the call it is at.
Owns(w) ==
  /\ call[w] # "getaddrinfo" => worker[w] = "http" \/ (worker[w] = "ended" /\ CancelPending(w))
  /\ call[w] = "socket" => sockfd[w] = NoFd
  /\ w \in lists => call[w] \in {"socket", "connect"}
  /\ \A o \in open : o.by = w => o.fd = sockfd[w] /\ call[w] \in WithSocket
  /\ call[w] \in WithSocket => [fd |-> sockfd[w], by |-> w] \in open

OneOwner == \A o, p \in open : o.fd = p.fd => o = p

HttpInv == TypeOK /\ HttpTypeOK /\ OneOwner /\ \A w \in Workers : Owns(w)

LEMMA OwnersInit == HttpInit => HttpInv
<1> SUFFICES ASSUME HttpInit PROVE HttpInv
  OBVIOUS
<1>1. HttpTypeOK
  BY DEF HttpInit, HttpTypeOK, CallNames
<1>2. OneOwner /\ \A w \in Workers : Owns(w)
  BY DEF HttpInit, OneOwner, Owns, WithSocket
<1> QED
  BY <1>1, <1>2, TypeInit DEF HttpInit, HttpInv

\* A step outside http_get leaves everything where it is.
LEMMA OwnersOutside ==
  ASSUME HttpInv, TypeOK', UNCHANGED http,
         \A w \in Workers : call[w] # "getaddrinfo" =>
           worker'[w] = "http" \/ (worker'[w] = "ended" /\ CancelPending(w)')
  PROVE  HttpInv'
<1>1. ASSUME NEW w \in Workers PROVE Owns(w)'
  BY DEF HttpInv, Owns, http, local
<1>2. HttpTypeOK' /\ OneOwner'
  BY DEF HttpInv, HttpTypeOK, OneOwner, http, local
<1> QED
  BY <1>1, <1>2 DEF HttpInv

\* Closing the descriptor of w closes nobody else's.
LEMMA ClosesOwn ==
  ASSUME HttpInv, NEW w \in Workers, call[w] \in WithSocket, Closed(w)
  PROVE  /\ open' = {o \in open : o.by # w}
         /\ open' \subseteq [fd : Fds, by : Workers] /\ OneOwner'
<1>1. ASSUME NEW o \in open PROVE o.fd = sockfd[w] <=> o.by = w
  <2>1. [fd |-> sockfd[w], by |-> w] \in open
    BY DEF HttpInv, Owns
  <2>2. o.fd = sockfd[w] => o.by = w
    BY <2>1 DEF HttpInv, OneOwner
  <2>3. o.by = w => o.fd = sockfd[w]
    BY DEF HttpInv, Owns
  <2> QED
    BY <2>2, <2>3
<1>2. open' = {o \in open : o.by # w}
  BY <1>1 DEF Closed
<1> QED
  BY <1>2 DEF HttpInv, HttpTypeOK, OneOwner

\* http_get returns with nothing open and nothing allocated.
LEMMA OwnersReturn ==
  ASSUME HttpInv, TypeOK', NEW w \in Workers, worker[w] = "http",
         open' = {o \in open : o.by # w}, OneOwner', w \notin lists',
         lists' \subseteq lists, sockfd' = sockfd,
         call' = [call EXCEPT ![w] = "getaddrinfo"],
         \A v \in Workers \ {w} : worker'[v] = worker[v], cancelled' = cancelled
  PROVE  HttpInv'
<1>1. HttpTypeOK'
  BY DEF HttpInv, HttpTypeOK, CallNames
<1>2. Owns(w)'
  BY <1>1 DEF HttpInv, HttpTypeOK, Owns, WithSocket
<1>3. ASSUME NEW v \in Workers \ {w} PROVE Owns(v)'
  <2>1. Owns(v) /\ call'[v] = call[v] /\ sockfd'[v] = sockfd[v] /\ worker'[v] = worker[v]
    BY DEF HttpInv, HttpTypeOK
  <2> QED
    BY <2>1 DEF Owns, CancelPending
<1> QED
  BY <1>1, <1>2, <1>3 DEF HttpInv

\* A call of http_get that goes on with the next one, open and lists as the
\* call of w leaves them.
LEMMA OwnersGo ==
  ASSUME HttpInv, NEW w \in Workers, worker[w] = "http", NEW c \in CallNames \ {"getaddrinfo"},
         Goes(w, c), HttpTypeOK', OneOwner',
         \A v \in Workers \ {w} : sockfd'[v] = sockfd[v] /\ (v \in lists' => v \in lists),
         \A o \in open' : o.by = w \/ o \in open,
         \A o \in open : o.by = w \/ o \in open',
         c = "socket" => sockfd'[w] = NoFd,
         w \in lists' => c \in {"socket", "connect"},
         \A o \in open' : o.by = w => o.fd = sockfd'[w] /\ c \in WithSocket,
         c \in WithSocket => [fd |-> sockfd'[w], by |-> w] \in open'
  PROVE  HttpInv'
<1>1. /\ call' = [call EXCEPT ![w] = c] /\ call'[w] = c
      /\ worker' = worker /\ UNCHANGED vars /\ cancelled' = cancelled
  BY DEF Goes, vars, HttpInv, HttpTypeOK
<1>2. Owns(w)'
  BY <1>1 DEF Owns
<1>3. ASSUME NEW v \in Workers \ {w} PROVE Owns(v)'
  <2>1. Owns(v) /\ call'[v] = call[v] /\ sockfd'[v] = sockfd[v] /\ (v \in lists' => v \in lists)
    BY <1>1 DEF HttpInv, HttpTypeOK
  <2> QED
    BY <1>1, <2>1 DEF Owns, CancelPending
<1>4. TypeOK'
  BY <1>1, TypeStutter DEF HttpInv
<1> QED
  BY <1>2, <1>3, <1>4 DEF HttpInv

\* The calls before a connection stands.
LEMMA OwnersConnecting ==
  ASSUME HttpInv, TypeOK', NEW w \in Workers,
         \/ Resolves(w) \/ ResolveFails(w) \/ SocketOpens(w) \/ SocketFails(w)
         \/ Connects(w) \/ ConnectFails(w) \/ AddressesTried(w)
  PROVE  HttpInv'
<1>0. Owns(w) /\ HttpTypeOK /\ OneOwner
  BY DEF HttpInv
<1>1. CASE Resolves(w)
  <2>1. HttpTypeOK' /\ OneOwner'
    BY <1>0, <1>1 DEF Resolves, Goes, HttpTypeOK, OneOwner, CallNames
  <2> QED
    <3>1. /\ worker[w] = "http" /\ Goes(w, "socket") /\ sockfd' = [sockfd EXCEPT ![w] = NoFd]
          /\ lists' = lists \cup {w} /\ open' = open /\ \A o \in open : o.by # w
      BY <1>0, <1>1 DEF Resolves, Calls, Owns, WithSocket
    <3>2. sockfd'[w] = NoFd /\ \A v \in Workers \ {w} : sockfd'[v] = sockfd[v]
      BY <1>0, <3>1 DEF HttpTypeOK
    <3>3. "socket" \in CallNames \ {"getaddrinfo"} /\ "socket" \notin WithSocket
      BY DEF WithSocket, CallNames
    <3>4. \A o \in open' : o.by # w
      BY <3>1
    <3> QED
      BY <2>1, <3>1, <3>2, <3>3, <3>4, OwnersGo
<1>2. CASE ResolveFails(w)
  <2>1. \A o \in open : o.by # w
    BY <1>0, <1>2 DEF ResolveFails, Calls, Owns, WithSocket
  <2> QED
    <3>1. /\ worker[w] = "http" /\ call' = [call EXCEPT ![w] = "getaddrinfo"] /\ w \notin lists
          /\ sockfd' = sockfd /\ lists' = lists /\ open' = open /\ HttpFails(w)
      BY <1>0, <1>2 DEF ResolveFails, Calls, Returns, Owns
    <3>2. cancelled' = cancelled /\ \A v \in Workers \ {w} : worker'[v] = worker[v]
      BY <3>1 DEF HttpFails, WorkerMoves, HttpInv, TypeOK
    <3>3. open' = {o \in open : o.by # w} /\ OneOwner'
      BY <1>0, <2>1, <3>1 DEF OneOwner
    <3> QED
      BY <3>1, <3>2, <3>3, OwnersReturn
<1>3. CASE SocketOpens(w)
  <2>1. PICK fd \in FreeFds : /\ sockfd' = [sockfd EXCEPT ![w] = fd]
                              /\ open' = open \cup {[fd |-> fd, by |-> w]}
    BY <1>3 DEF SocketOpens
  <2>2. /\ fd \in Fds /\ \A o \in open : o.fd # fd /\ o.by # w
        /\ call[w] = "socket" /\ worker[w] = "http" /\ Goes(w, "connect") /\ lists' = lists
    BY <1>0, <1>3 DEF FreeFds, SocketOpens, Calls, Owns, WithSocket
  <2>3. HttpTypeOK' /\ OneOwner'
    BY <1>0, <2>1, <2>2 DEF Goes, HttpTypeOK, OneOwner, CallNames
  <2> QED
    BY <1>0, <2>1, <2>2, <2>3, OwnersGo DEF Owns, WithSocket, CallNames, HttpTypeOK
<1>4. CASE SocketFails(w)
  <2>1. HttpTypeOK' /\ OneOwner'
    BY <1>0, <1>4 DEF SocketFails, Goes, HttpTypeOK, OneOwner, CallNames
  <2> QED
    <3>1. /\ worker[w] = "http" /\ Goes(w, "socket") /\ sockfd' = [sockfd EXCEPT ![w] = NoFd]
          /\ lists' = lists /\ open' = open /\ \A o \in open : o.by # w
      BY <1>0, <1>4 DEF SocketFails, Calls, Owns, WithSocket
    <3>2. sockfd'[w] = NoFd /\ \A v \in Workers \ {w} : sockfd'[v] = sockfd[v]
      BY <1>0, <3>1 DEF HttpTypeOK
    <3>3. "socket" \in CallNames \ {"getaddrinfo"} /\ "socket" \notin WithSocket
      BY DEF WithSocket, CallNames
    <3>4. \A o \in open' : o.by # w
      BY <3>1
    <3> QED
      BY <2>1, <3>1, <3>2, <3>3, <3>4, OwnersGo
<1>5. CASE Connects(w)
  <2>1. HttpTypeOK' /\ OneOwner'
    BY <1>0, <1>5 DEF Connects, Goes, HttpTypeOK, OneOwner, CallNames
  <2> QED
    BY <1>0, <1>5, <2>1, OwnersGo DEF Connects, Calls, Owns, WithSocket, CallNames, HttpTypeOK
<1>6. CASE ConnectFails(w)
  <2>1. open' = {o \in open : o.by # w} /\ OneOwner'
    BY <1>6, ClosesOwn DEF ConnectFails, Calls, WithSocket
  <2>2. HttpTypeOK'
    BY <1>0, <1>6, <2>1 DEF ConnectFails, Goes, HttpTypeOK, CallNames
  <2> QED
    BY <1>0, <1>6, <2>1, <2>2, OwnersGo DEF ConnectFails, Calls, Owns, WithSocket, CallNames, HttpTypeOK
<1>7. CASE AddressesTried(w)
  <2>1. sockfd[w] = NoFd /\ \A o \in open : o.by # w
    BY <1>0, <1>7 DEF AddressesTried, Calls, Owns, WithSocket
  <2> QED
    <3>1. /\ worker[w] = "http" /\ call' = [call EXCEPT ![w] = "getaddrinfo"] /\ HttpFails(w)
          /\ sockfd' = sockfd /\ lists' = lists \ {w} /\ open' = open
      BY <1>7, <2>1 DEF AddressesTried, Calls
    <3>2. cancelled' = cancelled /\ \A v \in Workers \ {w} : worker'[v] = worker[v]
      BY <3>1 DEF HttpFails, WorkerMoves, HttpInv, TypeOK
    <3>3. open' = {o \in open : o.by # w} /\ OneOwner'
      BY <1>0, <2>1, <3>1 DEF OneOwner
    <3> QED
      BY <3>1, <3>2, <3>3, OwnersReturn
<1> QED
  BY <1>1, <1>2, <1>3, <1>4, <1>5, <1>6, <1>7

\* The calls on the connection.
LEMMA OwnersConnected ==
  ASSUME HttpInv, TypeOK', NEW w \in Workers,
         \/ Sends(w) \/ SendFails(w) \/ SendKills(w)
         \/ Receives(w) \/ ReplyEnds(w) \/ ReplyTimesOut(w)
  PROVE  HttpInv'
<1>0. Owns(w) /\ HttpTypeOK /\ OneOwner
  BY DEF HttpInv
<1>1. CASE Sends(w) \/ Receives(w)
  <2>1. /\ worker[w] = "http" /\ Goes(w, "recv") /\ call[w] \in {"send", "recv"}
        /\ UNCHANGED <<sockfd, open, lists>>
    BY <1>1 DEF Sends, Receives, Calls
  <2>2. HttpTypeOK' /\ OneOwner'
    BY <1>0, <2>1 DEF Goes, HttpTypeOK, OneOwner, CallNames
  <2> QED
    BY <1>0, <2>1, <2>2, OwnersGo DEF Owns, WithSocket, CallNames, HttpTypeOK
<1>2. CASE SendFails(w) \/ ReplyEnds(w) \/ ReplyTimesOut(w)
  <2>1. /\ worker[w] = "http" /\ call[w] \in {"send", "recv"} /\ Closed(w)
        /\ \E ok \in BOOLEAN : Returns(w, ok)
        /\ sockfd' = sockfd
    BY <1>2 DEF SendFails, ReplyEnds, ReplyTimesOut, Calls, HasTime
  <2>2. open' = {o \in open : o.by # w} /\ OneOwner'
    BY <2>1, ClosesOwn DEF WithSocket
  <2>3. /\ call' = [call EXCEPT ![w] = "getaddrinfo"] /\ lists' = lists
        /\ cancelled' = cancelled /\ \A v \in Workers \ {w} : worker'[v] = worker[v]
    BY <2>1 DEF Returns, HttpAnswers, HttpFails, WorkerMoves, HttpInv, TypeOK
  <2>4. w \notin lists
    BY <1>0, <2>1 DEF Owns
  <2> QED
    BY <2>1, <2>2, <2>3, <2>4, OwnersReturn
<1>3. CASE SendKills(w)
  <2>1. UNCHANGED <<vars, call, sockfd, open, lists>>
    BY <1>3 DEF SendKills, local
  <2>2. ASSUME NEW v \in Workers PROVE Owns(v)'
    BY <2>1 DEF HttpInv, Owns, vars, CancelPending
  <2>3. HttpTypeOK' /\ OneOwner'
    BY <1>0, <2>1 DEF HttpTypeOK, OneOwner
  <2> QED
    BY <2>2, <2>3 DEF HttpInv
<1> QED
  BY <1>1, <1>2, <1>3

LEMMA OwnersNext == HttpInv /\ [HttpNext]_hvars => HttpInv'
<1> SUFFICES ASSUME HttpInv, [HttpNext]_hvars PROVE HttpInv'
  OBVIOUS
<1>1. TypeOK /\ TypeOK'
  BY HttpNextIsNext, TypeNext DEF HttpInv
<1>2. \A w \in Workers : Owns(w)
  BY DEF HttpInv
<1>3. ASSUME NEW w \in Workers, HttpWorkerStep(w) PROVE HttpInv'
  <2>1. CASE HttpStep(w)
    BY <1>1, <2>1, OwnersConnecting, OwnersConnected DEF HttpStep
  <2>2. CASE HttpCancelled(w)
    BY <1>1, <1>2, <2>2, OwnersOutside
       DEF HttpCancelled, Cancelled, WorkerMoves, Owns, CancelPending, TypeOK
  <2>3. CASE OutsideStep(w)
    <3>1. /\ UNCHANGED http /\ cancelled' = cancelled
          /\ worker[w] \notin {"http", "ended"}
          /\ \A v \in Workers \ {w} : worker'[v] = worker[v]
      BY <1>1, <2>3 DEF OutsideStep, WorkerLoop, Pop, WorkerStarts, CountSuccess,
                        RecordLatency, WorkerStops, WorkerMoves, TypeOK
    <3> QED
      BY <1>1, <1>2, <3>1, OwnersOutside DEF Owns, CancelPending
  <2> QED
    BY <1>3, <2>1, <2>2, <2>3 DEF HttpWorkerStep
<1>4. ASSUME NEW w \in Workers, SpuriousWake(w), UNCHANGED http PROVE HttpInv'
  BY <1>1, <1>2, <1>4, OwnersOutside DEF SpuriousWake, WorkerMoves, Owns, CancelPending, TypeOK
<1>5. ASSUME KillerStep \/ MainStep, UNCHANGED http PROVE HttpInv'
  <2>1. \A w \in Workers : worker'[w] = worker[w] \/ (worker[w] = "waiting" /\ worker'[w] = "woken")
    BY <1>1, <1>5, OthersWake DEF OnlyWakes
  <2>2. cancelled' >= cancelled /\ cancelled \in Nat /\ cancelled' \in Nat
    <3>1. cancelled \in Nat
      BY <1>1 DEF TypeOK
    <3> QED
      BY <1>5, <3>1 DEF KillerStep, KillerLoop, KillerChecks, KillerStops, KillerSetsDone,
            KillerNotifies, KillerCancels, MainStep, MainLoop, MainWakes, MainPushes, MainNotifies,
            MainSetsDone, MainNotifiesAll, MainJoinsKiller, MainJoinsPool, MainMoves
  <2>3. \A w \in Workers : CancelPending(w) => CancelPending(w)'
    BY <2>2 DEF CancelPending, Workers
  <2> QED
    BY <1>1, <1>2, <1>5, <2>1, <2>3, OwnersOutside DEF Owns
<1>6. CASE UNCHANGED hvars
  <2>1. UNCHANGED http /\ worker' = worker /\ cancelled' = cancelled
    BY <1>6 DEF hvars, vars
  <2> QED
    BY <1>1, <1>2, <2>1, OwnersOutside DEF Owns, CancelPending
<1> QED
  BY <1>3, <1>4, <1>5, <1>6 DEF HttpNext

\* On every path through http_get, with any calls failing and any worker
\* cancelled anywhere, a worker uses only the socket it opened, closes it, and
\* frees its list of addresses, unless it is cancelled in between.
THEOREM DescriptorsStayOwned == HttpSpec => []DescriptorsOwned
<1>1. HttpInv => DescriptorsOwned
  <2> SUFFICES ASSUME HttpInv PROVE DescriptorsOwned
    OBVIOUS
  <2>1. ASSUME NEW w \in Workers
        PROVE  /\ OpenedBy(w) # {} \/ w \in lists =>
                    worker[w] = "http" \/ (worker[w] = "ended" /\ CancelPending(w))
               /\ OpenedBy(w) \subseteq {[fd |-> sockfd[w], by |-> w]}
               /\ call[w] \in {"connect", "send", "recv"} => OpenedBy(w) # {}
    <3>1. Owns(w) /\ open \subseteq [fd : Fds, by : Workers]
      BY DEF HttpInv, HttpTypeOK
    <3> QED
      BY <3>1 DEF Owns, OpenedBy, WithSocket
  <2> QED
    BY <2>1 DEF DescriptorsOwned, HttpInv, OneOwner
<1> QED
  BY <1>1, OwnersInit, OwnersNext, PTL DEF HttpSpec


-----------------------------------------------------------------------------
(* Every success is backed by a reply.  A worker that has the time of its   *)
(* reply, or has returned with it, backs the next success it counts; the    *)
(* time is in the buffer only while the worker receives.                    *)

Backed == {w \in Workers : worker[w] = "answered" \/ (worker[w] = "http" /\ got[w] = "time")}

RepliesInv ==
  /\ got \in [Workers -> {"nothing", "text", "time"}] /\ replies \in Nat
  /\ \A w \in Workers : got[w] # "nothing" => call[w] = "recv"
  /\ successful + Cardinality(Backed) <= replies

LEMMA BackedFinite == /\ IsFiniteSet(Backed) /\ Cardinality(Backed) \in Nat
                      /\ IsFiniteSet(Backed') /\ Cardinality(Backed') \in Nat
<1>1. IsFiniteSet(Workers)
  BY FS_Interval, LoaderAssumption DEF LoaderAssumption, Workers
<1>2. Backed \in SUBSET Workers /\ Backed' \in SUBSET Workers
  BY DEF Backed
<1> QED
  BY <1>1, <1>2, FS_Subset, FS_CardinalityType

LEMMA RepliesInit == HttpInit => RepliesInv
<1> SUFFICES ASSUME HttpInit PROVE RepliesInv
  OBVIOUS
<1>1. Backed = {} /\ successful = 0
  BY DEF HttpInit, Init, Backed
<1> QED
  BY <1>1, FS_EmptySet DEF HttpInit, RepliesInv

\* No success is counted and nobody begins to back one.
LEMMA RepliesSame ==
  ASSUME TypeOK, RepliesInv, UNCHANGED <<successful, replies>>, Backed' \subseteq Backed,
         got' \in [Workers -> {"nothing", "text", "time"}],
         \A w \in Workers : got'[w] # "nothing" => call'[w] = "recv"
  PROVE  RepliesInv'
<1>1. Cardinality(Backed') <= Cardinality(Backed)
  BY BackedFinite, FS_Subset
<1>2. successful \in Nat
  BY DEF TypeOK
<1> QED
  BY <1>1, <1>2, BackedFinite DEF RepliesInv

\* http_get returns: TRUE only with a time in the reply.
LEMMA RepliesReturn ==
  ASSUME HttpInv, RepliesInv, NEW w \in Workers, NEW to \in WorkerPlaces,
         worker[w] = "http", worker' = [worker EXCEPT ![w] = to], to # "http",
         to = "answered" => got[w] = "time",
         got' = [got EXCEPT ![w] = "nothing"], call' = [call EXCEPT ![w] = "getaddrinfo"],
         UNCHANGED <<successful, replies>>
  PROVE  RepliesInv'
<1>1. TypeOK /\ HttpTypeOK
  BY DEF HttpInv
<1>2. \A v \in Workers : /\ worker'[v] = IF v = w THEN to ELSE worker[v]
                         /\ got'[v] = IF v = w THEN "nothing" ELSE got[v]
                         /\ call'[v] = IF v = w THEN "getaddrinfo" ELSE call[v]
  BY <1>1 DEF TypeOK, HttpTypeOK, RepliesInv
<1>3. Backed' \subseteq Backed
  BY <1>2 DEF Backed
<1>4. got' \in [Workers -> {"nothing", "text", "time"}]
  BY DEF RepliesInv
<1> QED
  BY <1>1, <1>2, <1>3, <1>4, RepliesSame DEF RepliesInv

LEMMA RepliesHttp ==
  ASSUME HttpInv, RepliesInv, NEW w \in Workers, HttpStep(w) PROVE RepliesInv'
<1>0. TypeOK /\ HttpTypeOK
  BY DEF HttpInv
<1>1. ASSUME UNCHANGED <<vars, got, replies>>, call[w] # "recv" \/ call'[w] = "recv",
             \A v \in Workers \ {w} : call'[v] = call[v]
      PROVE  RepliesInv'
  <2>1. UNCHANGED <<worker, successful>>
    BY <1>1 DEF vars, counts
  <2>2. Backed' = Backed
    BY <1>1, <2>1 DEF Backed
  <2> QED
    BY <1>0, <1>1, <2>1, <2>2, RepliesSame DEF RepliesInv
<1>2. CASE Resolves(w) \/ SocketOpens(w) \/ SocketFails(w) \/ Connects(w) \/ ConnectFails(w) \/ Sends(w)
  <2>1. UNCHANGED <<vars, got, replies>> /\ call[w] # "recv" /\ \E c : call' = [call EXCEPT ![w] = c]
    BY <1>2 DEF Resolves, SocketOpens, SocketFails, Connects, ConnectFails, Sends, Goes, Calls
  <2> QED
    BY <1>0, <1>1, <2>1 DEF HttpTypeOK
<1>3. CASE SendKills(w)
  BY <1>1, <1>3 DEF SendKills, local, Calls
<1>4. CASE ResolveFails(w) \/ SendFails(w) \/ ReplyTimesOut(w)
  <2>1. worker[w] = "http" /\ Returns(w, FALSE) /\ UNCHANGED replies
    BY <1>4 DEF ResolveFails, SendFails, ReplyTimesOut, Calls
  <2>2. worker' = [worker EXCEPT ![w] = "loop"] /\ UNCHANGED successful
    BY <2>1 DEF Returns, HttpFails, WorkerMoves
  <2>3. "loop" \in WorkerPlaces /\ "loop" # "http" /\ "loop" # "answered"
    BY DEF WorkerPlaces
  <2> QED
    BY <2>1, <2>2, <2>3, RepliesReturn DEF Returns
<1>5. CASE ReplyEnds(w)
  <2>1. worker[w] = "http" /\ Returns(w, HasTime(w)) /\ UNCHANGED replies
    BY <1>5 DEF ReplyEnds, Calls
  <2> DEFINE to == IF HasTime(w) THEN "answered" ELSE "loop"
  <2>2. worker' = [worker EXCEPT ![w] = to] /\ UNCHANGED successful
    BY <2>1 DEF Returns, HttpAnswers, HttpFails, WorkerMoves, counts
  <2>3. to \in WorkerPlaces /\ to # "http" /\ (to = "answered" => got[w] = "time")
    BY DEF WorkerPlaces, HasTime
  <2> HIDE DEF to
  <2> QED
    BY <2>1, <2>2, <2>3, RepliesReturn DEF Returns
<1>6. CASE AddressesTried(w)
  <2>1. worker[w] = "http" /\ call[w] = "socket" /\ UNCHANGED <<got, replies>>
    BY <1>6 DEF AddressesTried, Calls
  <2>2. got[w] = "nothing"
    BY <2>1 DEF RepliesInv
  <2>3. CASE sockfd[w] = NoFd
    <3>1. /\ worker' = [worker EXCEPT ![w] = "loop"] /\ UNCHANGED successful
          /\ call' = [call EXCEPT ![w] = "getaddrinfo"]
      BY <1>6, <2>3 DEF AddressesTried, HttpFails, WorkerMoves
    <3>2. got' = [got EXCEPT ![w] = "nothing"]
      BY <2>1, <2>2 DEF RepliesInv
    <3>3. "loop" \in WorkerPlaces /\ "loop" # "http" /\ "loop" # "answered"
      BY DEF WorkerPlaces
    <3> QED
      BY <2>1, <3>1, <3>2, <3>3, RepliesReturn
  <2>4. CASE sockfd[w] # NoFd
    <3>1. UNCHANGED vars /\ call' = [call EXCEPT ![w] = "send"]
      BY <1>6, <2>4 DEF AddressesTried, Goes
    <3> QED
      BY <1>0, <1>1, <2>1, <3>1 DEF HttpTypeOK
  <2> QED
    BY <2>3, <2>4
<1>7. CASE Receives(w)
  <2>1. /\ UNCHANGED vars /\ call[w] = "recv" /\ worker[w] = "http"
        /\ call' = [call EXCEPT ![w] = "recv"]
    BY <1>7 DEF Receives, Goes, Calls
  <2>2. call' = call /\ UNCHANGED <<worker, successful>>
    BY <1>0, <2>1 DEF HttpTypeOK, vars, counts
  <2>3. CASE got[w] = "nothing" /\ got' = [got EXCEPT ![w] = "text"] /\ UNCHANGED replies
    <3>1. /\ got' \in [Workers -> {"nothing", "text", "time"}] /\ got'[w] = "text"
          /\ \A v \in Workers \ {w} : got'[v] = got[v]
      BY <2>3 DEF RepliesInv
    <3>2. Backed' \subseteq Backed
      BY <2>2, <3>1 DEF Backed
    <3> QED
      BY <1>0, <2>1, <2>2, <2>3, <3>1, <3>2, RepliesSame DEF RepliesInv
  <2>4. CASE got[w] # "time" /\ got' = [got EXCEPT ![w] = "time"] /\ replies' = replies + 1
    <3>1. /\ got' \in [Workers -> {"nothing", "text", "time"}] /\ got'[w] = "time"
          /\ \A v \in Workers \ {w} : got'[v] = got[v]
      BY <2>4 DEF RepliesInv
    <3>2. Backed' = Backed \cup {w} /\ w \notin Backed
      BY <2>1, <2>2, <2>4, <3>1 DEF Backed
    <3>3. Cardinality(Backed') = Cardinality(Backed) + 1
      BY <3>2, BackedFinite, FS_AddElement
    <3>4. successful \in Nat
      BY <1>0 DEF TypeOK
    <3>5. successful' + Cardinality(Backed') <= replies' /\ replies' \in Nat
      BY <2>2, <2>4, <3>3, <3>4, BackedFinite DEF RepliesInv
    <3> QED
      BY <2>1, <2>2, <3>1, <3>5 DEF RepliesInv
  <2> QED
    BY <1>7, <2>3, <2>4 DEF Receives
<1> QED
  BY <1>2, <1>3, <1>4, <1>5, <1>6, <1>7 DEF HttpStep

LEMMA RepliesCounted ==
  ASSUME HttpInv, RepliesInv, NEW w \in Workers, CountSuccess(w), UNCHANGED http
  PROVE  RepliesInv'
<1>0. TypeOK /\ successful \in Nat
  BY DEF HttpInv, TypeOK
<1> DEFINE to == IF prev'[w] >= target_successes THEN "stopping" ELSE "counted"
<1>1. /\ successful' = successful + 1 /\ UNCHANGED <<got, replies, call>>
      /\ worker[w] = "answered" /\ worker' = [worker EXCEPT ![w] = to]
  BY DEF CountSuccess, WorkerMoves, http, local
<1>5. to \notin {"answered", "http"}
  OBVIOUS
<1> HIDE DEF to
<1>2. Backed' = Backed \ {w} /\ w \in Backed
  BY <1>0, <1>1, <1>5 DEF Backed, TypeOK
<1>3. Cardinality(Backed') = Cardinality(Backed) - 1
  BY <1>2, BackedFinite, FS_RemoveElement
<1>4. successful' + Cardinality(Backed') <= replies'
  BY <1>0, <1>1, <1>3, BackedFinite DEF RepliesInv
<1> QED
  BY <1>1, <1>4 DEF RepliesInv

\* Outside http_get nobody begins to back a success.
LEMMA RepliesElsewhere ==
  ASSUME HttpInv, RepliesInv, UNCHANGED http, UNCHANGED successful,
         \A w \in Workers : worker'[w] \in {"answered", "http"} =>
           worker'[w] = worker[w] \/ (worker'[w] = "http" /\ worker[w] \notin {"http", "ended"})
  PROVE  RepliesInv'
<1>1. UNCHANGED <<got, call, replies>>
  BY DEF http, local
<1>2. \A w \in Workers : worker[w] \notin {"http", "ended"} => got[w] = "nothing"
  <2> SUFFICES ASSUME NEW w \in Workers, worker[w] \notin {"http", "ended"} PROVE got[w] = "nothing"
    OBVIOUS
  <2>1. call[w] = "getaddrinfo"
    BY DEF HttpInv, Owns
  <2> QED
    BY <2>1 DEF RepliesInv
<1>3. Backed' \subseteq Backed
  BY <1>1, <1>2 DEF Backed
<1> QED
  BY <1>1, <1>3, RepliesSame DEF HttpInv, RepliesInv

LEMMA RepliesNext == HttpInv /\ RepliesInv /\ [HttpNext]_hvars => RepliesInv'
<1> SUFFICES ASSUME HttpInv, RepliesInv, [HttpNext]_hvars PROVE RepliesInv'
  OBVIOUS
<1>0. TypeOK
  BY DEF HttpInv
<1>1. ASSUME NEW w \in Workers, HttpWorkerStep(w) PROVE RepliesInv'
  <2>1. CASE HttpStep(w)
    BY <2>1, RepliesHttp
  <2>2. CASE HttpCancelled(w)
    <3>1. UNCHANGED http /\ UNCHANGED successful /\ worker' = [worker EXCEPT ![w] = "ended"]
      BY <2>2 DEF HttpCancelled, Cancelled, WorkerMoves, counts
    <3>2. \A v \in Workers : worker'[v] = worker[v] \/ worker'[v] = "ended"
      BY <1>0, <3>1 DEF TypeOK
    <3> QED
      BY <3>1, <3>2, RepliesElsewhere
  <2>3. CASE OutsideStep(w)
    <3>1. CASE CountSuccess(w)
      BY <2>3, <3>1, RepliesCounted DEF OutsideStep
    <3>2. CASE ~CountSuccess(w)
      <4>1. /\ UNCHANGED http /\ UNCHANGED successful
            /\ \E to : /\ worker' = [worker EXCEPT ![w] = to]
                       /\ to = "answered" => FALSE
                       /\ to = "http" => worker[w] = "popped"
        BY <2>3, <3>2 DEF OutsideStep, WorkerLoop, Pop, WorkerStarts, RecordLatency, WorkerStops,
                          WorkerMoves, counts
      <4>2. \A v \in Workers : worker'[v] \in {"answered", "http"} =>
              worker'[v] = worker[v] \/ (worker'[v] = "http" /\ worker[v] = "popped")
        BY <1>0, <4>1 DEF TypeOK
      <4> QED
        BY <4>1, <4>2, RepliesElsewhere
    <3> QED
      BY <3>1, <3>2
  <2> QED
    BY <1>1, <2>1, <2>2, <2>3 DEF HttpWorkerStep
<1>2. ASSUME NEW w \in Workers, SpuriousWake(w), UNCHANGED http PROVE RepliesInv'
  <2>1. UNCHANGED successful /\ worker' = [worker EXCEPT ![w] = "woken"]
    BY <1>2 DEF SpuriousWake, WorkerMoves, counts
  <2>2. \A v \in Workers : worker'[v] = worker[v] \/ worker'[v] = "woken"
    BY <1>0, <2>1 DEF TypeOK
  <2> QED
    BY <1>2, <2>1, <2>2, RepliesElsewhere
<1>3. ASSUME KillerStep \/ MainStep, UNCHANGED http PROVE RepliesInv'
  <2>1. UNCHANGED counts /\ \A v \in Workers : worker'[v] = worker[v] \/ worker'[v] = "woken"
    BY <1>0, <1>3, OthersWake DEF OnlyWakes
  <2> QED
    BY <1>3, <2>1, RepliesElsewhere DEF counts
<1>4. CASE UNCHANGED hvars
  <2>1. UNCHANGED <<http, worker, successful>>
    BY <1>4 DEF hvars, vars, counts
  <2> QED
    BY <2>1, RepliesElsewhere
<1> QED
  BY <1>1, <1>2, <1>3, <1>4 DEF HttpNext

\* A success is counted only for a reply that came as far as its time, wherever
\* calls fail and workers are cancelled.
THEOREM SuccessesBacked == HttpSpec => []SuccessesAnswered
<1>1. TypeOK /\ RepliesInv => SuccessesAnswered
  <2> SUFFICES ASSUME TypeOK, RepliesInv PROVE SuccessesAnswered
    OBVIOUS
  <2> DEFINE answered == {w \in Workers : worker[w] = "answered"}
  <2>1. answered \subseteq Backed
    BY DEF Backed
  <2>2. Cardinality(answered) <= Cardinality(Backed) /\ Cardinality(answered) \in Nat
    BY <2>1, BackedFinite, FS_Subset, FS_CardinalityType
  <2> HIDE DEF answered
  <2>3. successful + Cardinality(answered) <= replies
    BY <2>2, BackedFinite DEF TypeOK, RepliesInv
  <2> QED
    BY <2>3 DEF SuccessesAnswered, answered
<1>2. HttpInv => TypeOK
  BY DEF HttpInv
<1> QED
  BY <1>1, <1>2, OwnersInit, OwnersNext, RepliesInit, RepliesNext, PTL DEF HttpSpec

\* The pool never sleeps through a task with http_get in place.
THEOREM HttpPoolNeverOversleeps == HttpSpec => []NoSleepingPool
  BY HttpImplementsLoader, PoolNeverOversleeps, PTL
=============================================================================
