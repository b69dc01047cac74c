------------------------------ MODULE OpenLoad ------------------------------
(***************************************************************************)
(* The open-loop load generator of A-1 (open_load/load.cpp): for one       *)
(* arrival rate after the other, the main thread detaches a thread per     *)
(* request, waits a while, reports and goes on to the next rate with the   *)
(* same counters.                                                          *)
(*                                                                         *)
(* Time is a clock of whole ticks.  It does not pass while a thread can    *)
(* take a step, and no transfer outlasts CURLOPT_TIMEOUT.                  *)
(***************************************************************************)
EXTENDS Integers, FiniteSets

CONSTANTS
  ROUNDS,          \* how many rates are measured
  DURATION,        \* of the arrivals of one rate
  LEAD, GRACE, PAUSE,  \* the sleeps of 1 s, 10 s and 20 s
  TIMEOUT,         \* CURLOPT_TIMEOUT
  Gaps,            \* what exp_dist can return
  MAX_IN_FLIGHT    \* bound of the model: threads at one time

ASSUME OpenLoadAssumption ==
  /\ ROUNDS \in Nat \ {0} /\ DURATION \in Nat /\ MAX_IN_FLIGHT \in Nat
  /\ LEAD \in Nat /\ GRACE \in Nat /\ PAUSE \in Nat /\ TIMEOUT \in Nat
  /\ Gaps \subseteq Nat
\* 30 s are less than 10 s, 20 s and 1 s.
ASSUME PausesAssumption == TIMEOUT < GRACE + PAUSE + LEAD

Slots == 1 .. MAX_IN_FLIGHT

VARIABLES
  clock,
  main,        \* where the main thread is
  wake,        \* when its sleep ends
  round,       \* the rate it measures
  exp_start,
  completed, failed,
  latencies,   \* how many are recorded
  sent,        \* history: the threads created for this rate
  thread       \* the detached threads: where each is, its rate and start

vars == <<clock, main, wake, round, exp_start, completed, failed, latencies, sent, thread>>

NoThread == [at |-> "none", round |-> 0, start |-> 0]

Init ==
  /\ clock = 0 /\ main = "lead" /\ wake = LEAD /\ round = 1 /\ exp_start = 0
  /\ completed = 0 /\ failed = 0 /\ latencies = 0 /\ sent = 0
  /\ thread = [s \in Slots |-> NoThread]

-----------------------------------------------------------------------------
(* send_request. *)

ThreadMoves(s, from, to) ==
  /\ thread[s].at = from
  /\ thread' = [thread EXCEPT ![s] = IF to = "none" THEN NoThread ELSE [@ EXCEPT !.at = to]]
  /\ UNCHANGED <<clock, main, wake, round, exp_start, sent>>

\* Mutant: a thread without a handle returns uncounted.
InitFailsSilently(s) == ThreadMoves(s, "init", "none") /\ UNCHANGED <<completed, failed, latencies>>

\* curl_easy_init returns null, or the transfer starts.
InitFails(s) == /\ ThreadMoves(s, "init", "none")
                /\ failed' = failed + 1
                /\ UNCHANGED <<completed, latencies>>
Starts(s)    == ThreadMoves(s, "init", "perform") /\ UNCHANGED <<completed, failed, latencies>>

\* curl_easy_perform returns CURLE_OK, or an error.
Completes(s) == /\ ThreadMoves(s, "perform", "counted")
                /\ completed' = completed + 1
                /\ UNCHANGED <<failed, latencies>>
Fails(s)     == /\ ThreadMoves(s, "perform", "none")
                /\ failed' = failed + 1
                /\ UNCHANGED <<completed, latencies>>

\* Mutant: push_back without the lock may be lost to another one.
PushesUnlocked(s) == /\ ThreadMoves(s, "counted", "none")
                     /\ latencies' \in {latencies, latencies + 1}
                     /\ UNCHANGED <<completed, failed>>

\* push_back under lat_mtx.  The report reads and sorts without the lock: a
\* push that meets it may be lost.
Pushes(s) == /\ ThreadMoves(s, "counted", "none")
             /\ latencies' \in IF main = "report" THEN {latencies, latencies + 1}
                                                 ELSE {latencies + 1}
             /\ UNCHANGED <<completed, failed>>

ThreadStep(s) == \/ InitFails(s) \/ Starts(s) \/ Completes(s) \/ Fails(s) \/ Pushes(s)

-----------------------------------------------------------------------------
(* main. *)

\* The main thread moves on, and sleeps first if the new place is a sleep.
MainMoves(from, to, sleep) ==
  main = from /\ wake <= clock /\ main' = to /\ wake' = clock + sleep /\ UNCHANGED clock

ResetCompleted == /\ MainMoves("lead", "reset_failed", 0)
                  /\ completed' = 0 /\ sent' = 0
                  /\ UNCHANGED <<failed, latencies, round, exp_start, thread>>
ResetFailed    == /\ MainMoves("reset_failed", "clear", 0)
                  /\ failed' = 0
                  /\ UNCHANGED <<completed, latencies, round, exp_start, sent, thread>>
ClearLatencies == /\ MainMoves("clear", "spawn", 0)
                  /\ latencies' = 0 /\ exp_start' = clock
                  /\ UNCHANGED <<completed, failed, round, sent, thread>>

\* thread(send_request).detach() and the sleep until the next arrival.
Spawn ==
  /\ clock - exp_start < DURATION
  /\ \E s \in Slots, gap \in Gaps :
       /\ thread[s].at = "none"
       /\ \A t \in Slots : t < s => thread[t].at # "none"
       /\ MainMoves("spawn", "spawn", gap)
       /\ thread' = [thread EXCEPT ![s] = [at |-> "init", round |-> round, start |-> clock]]
  /\ sent' = sent + 1
  /\ UNCHANGED <<completed, failed, latencies, round, exp_start>>

\* Mutant: no time for late answers.
ReportsAtOnce == /\ clock - exp_start >= DURATION
                 /\ MainMoves("spawn", "grace", 0)
                 /\ UNCHANGED <<completed, failed, latencies, round, exp_start, sent, thread>>

ArrivalsEnd == /\ clock - exp_start >= DURATION
               /\ MainMoves("spawn", "grace", GRACE)
               /\ UNCHANGED <<completed, failed, latencies, round, exp_start, sent, thread>>

ReportStarts == /\ MainMoves("grace", "report", 0)
                /\ UNCHANGED <<completed, failed, latencies, round, exp_start, sent, thread>>

\* Mutant: the next rate follows at once.
NextAtOnce == /\ MainMoves("report", "pause", 0)
              /\ UNCHANGED <<completed, failed, latencies, round, exp_start, sent, thread>>

ReportEnds == /\ MainMoves("report", "pause", PAUSE)
              /\ UNCHANGED <<completed, failed, latencies, round, exp_start, sent, thread>>

\* Mutant: the loop over the rates runs once too often.
OneRateTooMany ==
  /\ IF round <= ROUNDS THEN MainMoves("pause", "lead", LEAD) /\ round' = round + 1
                        ELSE MainMoves("pause", "done", 0) /\ UNCHANGED round
  /\ UNCHANGED <<completed, failed, latencies, exp_start, sent, thread>>

NextRate ==
  /\ IF round < ROUNDS THEN MainMoves("pause", "lead", LEAD) /\ round' = round + 1
                       ELSE MainMoves("pause", "done", 0) /\ UNCHANGED round
  /\ UNCHANGED <<completed, failed, latencies, exp_start, sent, thread>>

MainStep == \/ ResetCompleted \/ ResetFailed \/ ClearLatencies
            \/ Spawn \/ ArrivalsEnd \/ ReportStarts \/ ReportEnds \/ NextRate

-----------------------------------------------------------------------------
(* Time. *)

InFlight == {s \in Slots : thread[s].at # "none"}

\* Time passes when nobody is due.
Tick ==
  /\ main # "done" /\ clock < wake
  /\ \A s \in InFlight : thread[s].at = "perform" /\ clock < thread[s].start + TIMEOUT
  /\ clock' = clock + 1
  /\ UNCHANGED <<main, wake, round, exp_start, completed, failed, latencies, sent, thread>>

\* main has returned, which ends the program.
Finished == main = "done" /\ UNCHANGED vars

Next == \/ \E s \in Slots : ThreadStep(s)
        \/ MainStep
        \/ Tick
        \/ Finished

Spec == Init /\ [][Next]_vars
=============================================================================
