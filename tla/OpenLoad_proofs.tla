--------------------------- MODULE OpenLoad_proofs ---------------------------
(***************************************************************************)
(* Theorems about the open-loop load generator of OpenLoad: requests of    *)
(* one rate never count for the next, for all waiting times longer in sum  *)
(* than a transfer can take; every request sent is counted once, and every *)
(* completion has its latency.                                             *)
(***************************************************************************)
EXTENDS OpenLoadProperties, FiniteSetTheorems, TLAPS

USE OpenLoadAssumption

(* Every variable keeps its type: the detached threads of send_request touch
   only the counters, and the loop over the rates ends in time. *)
THEOREM OpenLoadTypeCorrect == Spec => []TypeOK
<1>1. Init => TypeOK
  BY DEF Init, TypeOK, MainPlaces, NoThread
<1>2. ASSUME TypeOK, [Next]_vars PROVE TypeOK'
  <2> USE <1>2 DEF TypeOK
  <2>1. ASSUME NEW s \in Slots, ThreadStep(s) PROVE TypeOK'
    <3>1. thread' \in [Slots -> [at : {"none", "init", "perform", "counted"},
                                 round : 0 .. ROUNDS, start : Nat]]
      BY <2>1 DEF ThreadStep, InitFails, Starts, Completes, Fails, Pushes, ThreadMoves, NoThread
    <3>2. completed' \in Nat /\ failed' \in Nat /\ latencies' \in Nat
      BY <2>1 DEF ThreadStep, InitFails, Starts, Completes, Fails, Pushes
    <3> QED BY <2>1, <3>1, <3>2
            DEF ThreadStep, InitFails, Starts, Completes, Fails, Pushes, ThreadMoves
  <2>2. CASE Spawn
    <3>1. PICK s \in Slots, gap \in Gaps :
            /\ MainMoves("spawn", "spawn", gap)
            /\ thread' = [thread EXCEPT ![s] = [at |-> "init", round |-> round, start |-> clock]]
      BY <2>2 DEF Spawn
    <3>2. thread' \in [Slots -> [at : {"none", "init", "perform", "counted"},
                                 round : 0 .. ROUNDS, start : Nat]]
      BY <3>1
    <3> QED BY <2>2, <3>1, <3>2 DEF Spawn, MainMoves, MainPlaces
  <2>3. CASE MainStep /\ ~Spawn
    BY <2>3 DEF MainStep, ResetCompleted, ResetFailed, ClearLatencies, ArrivalsEnd,
                ReportStarts, ReportEnds, NextRate, MainMoves, MainPlaces
  <2>4. CASE Tick
    BY <2>4 DEF Tick
  <2>5. CASE UNCHANGED vars
    BY <2>5 DEF vars
  <2> QED BY <2>1, <2>2, <2>3, <2>4, <2>5 DEF Next, Finished
<1> QED BY <1>1, <1>2, PTL DEF Spec

-----------------------------------------------------------------------------
(* How long the main thread has waited, or will have waited when its sleep
   ends, for a thread that is still in flight. *)
InTime ==
  \A s \in InFlight :
    /\ thread[s].start <= clock
    /\ clock <= thread[s].start + TIMEOUT
    /\ main = "grace"  => thread[s].start + GRACE <= wake
    /\ main = "report" => thread[s].start + GRACE <= wake /\ wake <= clock
    /\ main = "pause"  => thread[s].start + GRACE + PAUSE <= wake
    /\ main = "lead"   => thread[s].start + GRACE + PAUSE + LEAD <= wake

LEMMA InTimeInit == Init => InTime
  BY DEF Init, InTime, InFlight, NoThread

(* A thread step leaves the other threads as they are, and its own start and
   rate if it stays in flight. *)
LEMMA ThreadStepKeeps ==
  ASSUME TypeOK, NEW s \in Slots, ThreadStep(s)
  PROVE  /\ UNCHANGED <<clock, main, wake, round>>
         /\ InFlight' \subseteq InFlight
         /\ \A t \in InFlight' : /\ thread'[t].start = thread[t].start
                                 /\ thread'[t].round = thread[t].round
<1>1. PICK from \in {"init", "perform", "counted"},
           to \in {"none", "perform", "counted"} : ThreadMoves(s, from, to)
  BY DEF ThreadStep, InitFails, Starts, Completes, Fails, Pushes
<1> QED BY <1>1 DEF ThreadMoves, InFlight, NoThread, TypeOK

LEMMA InTimeStep ==
  ASSUME TypeOK, InTime, [Next]_vars
  PROVE  InTime'
<1>1. ASSUME NEW s \in Slots, ThreadStep(s) PROVE InTime'
  BY <1>1, ThreadStepKeeps DEF InTime
<1>2. CASE Spawn
  <2>1. PICK s \in Slots :
          thread' = [thread EXCEPT ![s] = [at |-> "init", round |-> round, start |-> clock]]
    BY <1>2 DEF Spawn
  <2>2. main' = "spawn" /\ clock' = clock
    BY <1>2 DEF Spawn, MainMoves
  <2> QED BY <2>1, <2>2 DEF InTime, InFlight, TypeOK
<1>3. CASE MainStep /\ ~Spawn
  <2>1. UNCHANGED <<thread, clock>> /\ InFlight' = InFlight
    BY <1>3 DEF MainStep, ResetCompleted, ResetFailed, ClearLatencies, ArrivalsEnd,
                ReportStarts, ReportEnds, NextRate, MainMoves, InFlight
  <2>2. \A s \in InFlight : thread[s].start \in Nat
    BY DEF InFlight, TypeOK
  <2> QED BY <1>3, <2>1, <2>2
          DEF InTime, MainStep, ResetCompleted, ResetFailed, ClearLatencies, ArrivalsEnd,
              ReportStarts, ReportEnds, NextRate, MainMoves, TypeOK
<1>4. CASE Tick
  BY <1>4 DEF Tick, InTime, InFlight, TypeOK
<1>5. CASE UNCHANGED vars
  BY <1>5 DEF vars, InTime, InFlight
<1> QED BY <1>1, <1>2, <1>3, <1>4, <1>5 DEF Next, Finished

(* A request counts for the rate it was sent at: 10 s, 20 s and 1 s of waiting
   are longer than the 30 s a transfer may take, so that nothing is in flight
   when the counters of load.cpp are reset. *)
THEOREM RequestsStayInTheirRound == Spec => []RoundsApart
<1>1. Init => RoundsApart
  BY DEF Init, RoundsApart
<1>2. ASSUME TypeOK, InTime, RoundsApart, [Next]_vars PROVE RoundsApart'
  <2>1. ASSUME NEW s \in Slots, ThreadStep(s) PROVE RoundsApart'
    BY <1>2, <2>1, ThreadStepKeeps DEF RoundsApart
  <2>2. CASE Spawn
    <3>1. PICK s \in Slots :
            thread' = [thread EXCEPT ![s] = [at |-> "init", round |-> round, start |-> clock]]
      BY <2>2 DEF Spawn
    <3>2. main = "spawn" /\ round' = round
      BY <2>2 DEF Spawn, MainMoves
    <3> QED BY <1>2, <3>1, <3>2 DEF RoundsApart, InFlight, TypeOK
  <2>3. CASE ResetCompleted
    <3>1. InFlight = {}
      <4>1. \A s \in InFlight : thread[s].start \in Nat
        BY <1>2 DEF InFlight, TypeOK
      <4> QED BY <1>2, <2>3, <4>1, PausesAssumption
              DEF InTime, ResetCompleted, MainMoves, TypeOK
    <3>2. InFlight' = InFlight
      BY <2>3 DEF ResetCompleted, InFlight
    <3> QED BY <3>1, <3>2 DEF RoundsApart
  <2>4. CASE MainStep /\ ~Spawn /\ ~ResetCompleted
    BY <1>2, <2>4 DEF RoundsApart, InFlight, MainStep, ResetFailed, ClearLatencies, ArrivalsEnd,
                      ReportStarts, ReportEnds, NextRate, MainMoves
  <2>5. CASE Tick \/ UNCHANGED vars
    BY <1>2, <2>5 DEF Tick, vars, RoundsApart, InFlight
  <2> QED BY <1>2, <2>1, <2>2, <2>3, <2>4, <2>5 DEF Next, Finished
<1> QED BY <1>1, <1>2, InTimeInit, InTimeStep, OpenLoadTypeCorrect, PTL DEF Spec

(* The report of load.cpp is disturbed only by answers that took at least the
   time the main thread waits before it. *)
THEOREM ReportAwaitsAnswers == Spec => []OnlyLateAnswersDisturb
<1>1. TypeOK /\ InTime => OnlyLateAnswersDisturb
  <2> SUFFICES ASSUME TypeOK, InTime, main = "report", NEW s \in InFlight
               PROVE  clock - thread[s].start >= GRACE
    BY DEF OnlyLateAnswersDisturb
  <2>1. thread[s].start \in Nat
    BY DEF InFlight, TypeOK
  <2> QED BY <2>1 DEF InTime, TypeOK
<1> QED BY <1>1, InTimeInit, InTimeStep, OpenLoadTypeCorrect, PTL DEF Spec


-----------------------------------------------------------------------------
(* The counts of a rate.  They are right from the first arrival on because
   nothing of the rate before is in flight while they are reset. *)
Uncounted == {s \in InFlight : thread[s].at # "counted"}
Unpushed  == {s \in InFlight : thread[s].at = "counted"}

Resetting ==
  /\ main \in {"reset_failed", "clear"} => InFlight = {} /\ completed = 0 /\ sent = 0
  /\ main = "clear" => failed = 0

CountsInv ==
  /\ Resetting
  /\ Measuring => completed + failed + Cardinality(Uncounted) = sent
  /\ main \in {"spawn", "grace"} => latencies + Cardinality(Unpushed) = completed

LEMMA CountsFinite ==
  /\ IsFiniteSet(Uncounted) /\ Cardinality(Uncounted) \in Nat
  /\ IsFiniteSet(Unpushed) /\ Cardinality(Unpushed) \in Nat
<1>1. IsFiniteSet(Slots)
  BY FS_Interval DEF Slots
<1>2. Uncounted \in SUBSET Slots /\ Unpushed \in SUBSET Slots
  BY DEF Uncounted, Unpushed, InFlight
<1> QED BY <1>1, <1>2, FS_Subset, FS_CardinalityType

LEMMA CountsInit == Init => CountsInv
  BY DEF Init, CountsInv, Resetting, Measuring

(* The threads, their places and the main thread as they were. *)
LEMMA CountsSame ==
  ASSUME CountsInv, UNCHANGED <<thread, completed, failed, latencies, sent>>,
         main' \in {"reset_failed", "clear"} => main' = main,
         main' \in {"spawn", "grace"} => main \in {"spawn", "grace"},
         main' = "report" => Measuring
  PROVE  CountsInv'
<1>1. Uncounted' = Uncounted /\ Unpushed' = Unpushed /\ InFlight' = InFlight
  BY DEF Uncounted, Unpushed, InFlight
<1> QED BY <1>1 DEF CountsInv, Resetting, Measuring

(* What a thread that moves does to the two sets. *)
LEMMA ThreadCounts ==
  ASSUME TypeOK, NEW s \in Slots, NEW from, NEW to, ThreadMoves(s, from, to), from # "none"
  PROVE  /\ UNCHANGED <<main, sent>> /\ s \in InFlight
         /\ s \in Uncounted <=> from # "counted"
         /\ s \in Unpushed <=> from = "counted"
         /\ Uncounted' = IF to \in {"none", "counted"} THEN Uncounted \ {s} ELSE Uncounted \cup {s}
         /\ Unpushed' = IF to = "counted" THEN Unpushed \cup {s} ELSE Unpushed \ {s}
<1>1. UNCHANGED <<main, sent>> /\ thread[s].at = from /\ DOMAIN thread = Slots
  BY DEF ThreadMoves, TypeOK
<1>2. thread'[s].at = to /\ \A t \in Slots : t # s => thread'[t] = thread[t]
  BY DEF ThreadMoves, TypeOK, NoThread
<1> QED BY <1>1, <1>2 DEF Uncounted, Unpushed, InFlight

LEMMA CountsThread ==
  ASSUME TypeOK, CountsInv, NEW s \in Slots, ThreadStep(s)
  PROVE  CountsInv'
<1>0. completed \in Nat /\ failed \in Nat /\ latencies \in Nat /\ sent \in Nat
  BY DEF TypeOK
<1>1. Cardinality(Uncounted) \in Nat /\ Cardinality(Unpushed) \in Nat
  BY CountsFinite
<1>2. /\ s \in Uncounted => Cardinality(Uncounted \ {s}) = Cardinality(Uncounted) - 1
      /\ s \in Unpushed => Cardinality(Unpushed \ {s}) = Cardinality(Unpushed) - 1
      /\ s \notin Unpushed => Cardinality(Unpushed \cup {s}) = Cardinality(Unpushed) + 1
  BY CountsFinite, FS_RemoveElement, FS_AddElement
<1>3. UNCHANGED <<main, sent>> /\ main \notin {"reset_failed", "clear"}
  <2>1. \E from, to : ThreadMoves(s, from, to) /\ from # "none"
    BY DEF ThreadStep, InitFails, Starts, Completes, Fails, Pushes
  <2> QED BY <2>1, ThreadCounts DEF CountsInv, Resetting
<1>4. CASE InitFails(s) \/ Fails(s)
  <2>1. /\ failed' = failed + 1 /\ UNCHANGED <<completed, latencies>>
        /\ ThreadMoves(s, "init", "none") \/ ThreadMoves(s, "perform", "none")
    BY <1>4 DEF InitFails, Fails
  <2>2. s \in Uncounted /\ Uncounted' = Uncounted \ {s} /\ Unpushed' = Unpushed
    BY <2>1, ThreadCounts
  <2> QED BY <1>0, <1>1, <1>2, <1>3, <2>1, <2>2 DEF CountsInv, Resetting, Measuring
<1>5. CASE Starts(s)
  <2>1. ThreadMoves(s, "init", "perform") /\ UNCHANGED <<completed, failed, latencies>>
    BY <1>5 DEF Starts
  <2>2. Uncounted' = Uncounted /\ Unpushed' = Unpushed
    BY <2>1, ThreadCounts
  <2> QED BY <1>3, <2>1, <2>2 DEF CountsInv, Resetting, Measuring
<1>6. CASE Completes(s)
  <2>1. /\ ThreadMoves(s, "perform", "counted")
        /\ completed' = completed + 1 /\ UNCHANGED <<failed, latencies>>
    BY <1>6 DEF Completes
  <2>2. /\ s \in Uncounted /\ s \notin Unpushed
        /\ Uncounted' = Uncounted \ {s} /\ Unpushed' = Unpushed \cup {s}
    BY <2>1, ThreadCounts
  <2> QED BY <1>0, <1>1, <1>2, <1>3, <2>1, <2>2 DEF CountsInv, Resetting, Measuring
<1>7. CASE Pushes(s)
  <2>1. /\ ThreadMoves(s, "counted", "none") /\ UNCHANGED <<completed, failed>>
        /\ main # "report" => latencies' = latencies + 1
    BY <1>7 DEF Pushes
  <2>2. /\ s \in Unpushed /\ s \notin Uncounted
        /\ Uncounted' = Uncounted /\ Unpushed' = Unpushed \ {s}
    BY <2>1, ThreadCounts
  <2> QED BY <1>0, <1>1, <1>2, <1>3, <2>1, <2>2 DEF CountsInv, Resetting, Measuring
<1> QED BY <1>4, <1>5, <1>6, <1>7 DEF ThreadStep

LEMMA CountsStep ==
  ASSUME TypeOK, InTime, CountsInv, [Next]_vars
  PROVE  CountsInv'
<1>1. ASSUME NEW s \in Slots, ThreadStep(s) PROVE CountsInv'
  BY <1>1, CountsThread
<1>2. CASE Spawn
  <2>1. PICK s \in Slots :
          /\ thread[s].at = "none"
          /\ thread' = [thread EXCEPT ![s] = [at |-> "init", round |-> round, start |-> clock]]
    BY <1>2 DEF Spawn
  <2>2. /\ main = "spawn" /\ main' = "spawn" /\ sent' = sent + 1
        /\ UNCHANGED <<completed, failed, latencies>>
    BY <1>2 DEF Spawn, MainMoves
  <2>3. Uncounted' = Uncounted \cup {s} /\ s \notin Uncounted /\ Unpushed' = Unpushed
    BY <2>1 DEF Uncounted, Unpushed, InFlight, TypeOK
  <2>4. Cardinality(Uncounted') = Cardinality(Uncounted) + 1
    BY <2>3, CountsFinite, FS_AddElement
  <2>5. completed' + failed' + Cardinality(Uncounted') = sent'
    BY <2>2, <2>4, CountsFinite DEF CountsInv, Measuring, TypeOK
  <2> QED BY <2>2, <2>3, <2>5 DEF CountsInv, Resetting, Measuring
<1>3. CASE ResetCompleted
  <2>1. InFlight = {}
    <3>1. \A s \in InFlight : thread[s].start \in Nat
      BY DEF InFlight, TypeOK
    <3> QED BY <1>3, <3>1, PausesAssumption DEF InTime, ResetCompleted, MainMoves, TypeOK
  <2>2. InFlight' = InFlight
    BY <1>3 DEF ResetCompleted, InFlight
  <2>3. main' = "reset_failed" /\ completed' = 0 /\ sent' = 0
    BY <1>3 DEF ResetCompleted, MainMoves
  <2> QED BY <2>1, <2>2, <2>3 DEF CountsInv, Resetting, Measuring
<1>4. CASE ResetFailed
  <2>1. InFlight' = InFlight /\ main = "reset_failed" /\ main' = "clear" /\ failed' = 0
        /\ UNCHANGED <<completed, sent>>
    BY <1>4 DEF ResetFailed, MainMoves, InFlight
  <2> QED BY <2>1 DEF CountsInv, Resetting, Measuring
<1>5. CASE ClearLatencies
  <2>1. /\ main = "clear" /\ main' = "spawn" /\ latencies' = 0
        /\ UNCHANGED <<completed, failed, sent, thread>>
    BY <1>5 DEF ClearLatencies, MainMoves
  <2>2. Uncounted' = {} /\ Unpushed' = {}
    BY <2>1 DEF CountsInv, Resetting, Uncounted, Unpushed, InFlight
  <2> QED BY <2>1, <2>2, FS_EmptySet DEF CountsInv, Resetting, Measuring
<1>6. CASE ArrivalsEnd \/ ReportStarts \/ ReportEnds \/ NextRate
  <2>1. UNCHANGED <<thread, completed, failed, latencies, sent>>
    BY <1>6 DEF ArrivalsEnd, ReportStarts, ReportEnds, NextRate
  <2>2. \/ main = "spawn" /\ main' = "grace"
        \/ main = "grace" /\ main' = "report"
        \/ main' \in {"pause", "lead", "done"}
    BY <1>6 DEF ArrivalsEnd, ReportStarts, ReportEnds, NextRate, MainMoves
  <2> QED BY <2>1, <2>2, CountsSame DEF Measuring
<1>7. CASE Tick \/ UNCHANGED vars
  <2>1. UNCHANGED <<main, thread, completed, failed, latencies, sent>>
    BY <1>7 DEF Tick, vars
  <2> QED BY <2>1, CountsSame DEF Measuring
<1> QED BY <1>1, <1>2, <1>3, <1>4, <1>5, <1>6, <1>7 DEF Next, MainStep, Finished

(* Every request of a rate is completed, failed or in flight, though the
   counters are reset one by one and nobody joins the detached threads. *)
THEOREM RequestsCounted == Spec => []EveryRequestCounted
<1>1. CountsInv => EveryRequestCounted
  BY DEF CountsInv, EveryRequestCounted, Uncounted
<1> QED BY <1>1, CountsInit, CountsStep, InTimeInit, InTimeStep, OpenLoadTypeCorrect, PTL DEF Spec

(* Up to the report there is a latency for every completed request whose
   thread is not about to record it. *)
THEOREM LatenciesMatch == Spec => []LatencyPerCompletion
<1>1. CountsInv => LatencyPerCompletion
  BY DEF CountsInv, LatencyPerCompletion, Unpushed
<1> QED BY <1>1, CountsInit, CountsStep, InTimeInit, InTimeStep, OpenLoadTypeCorrect, PTL DEF Spec
=============================================================================
