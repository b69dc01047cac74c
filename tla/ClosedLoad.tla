----------------------------- MODULE ClosedLoad -----------------------------
(***************************************************************************)
(* The closed-loop load generator of A-1 (closed_load/closed_loop.cpp):    *)
(* for one number of users after the other, the main thread starts that    *)
(* many clients, joins them and reports.  A client requests, waits for the *)
(* answer, thinks, and requests again until the experiment is over; then   *)
(* it hands its own latencies over.                                        *)
(*                                                                         *)
(* Time is a clock of whole ticks.  It does not pass while a thread can    *)
(* take a step, and no transfer outlasts CURLOPT_TIMEOUT.                  *)
(***************************************************************************)
EXTENDS Integers

CONSTANTS
  FIRST_N, LAST_N, STEP_N,  \* the numbers of users: 10, 30 and so on up to 300
  DURATION, THINK_TIME,
  BREAK,           \* the sleep of 5 s between experiments
  TIMEOUT,         \* CURLOPT_TIMEOUT
  Staggers,        \* what the stagger can be, less than THINK_TIME
  Responses        \* how long a transfer can take

ASSUME ClosedLoadAssumption ==
  /\ FIRST_N \in Nat /\ LAST_N \in Nat /\ STEP_N \in Nat \ {0}
  /\ DURATION \in Nat \ {0} /\ THINK_TIME \in Nat \ {0} /\ BREAK \in Nat /\ TIMEOUT \in Nat
  /\ Staggers \subseteq 0 .. THINK_TIME - 1
  /\ Responses # {} /\ Responses \subseteq 0 .. TIMEOUT

VARIABLES
  clock,
  main,         \* where the main thread is
  wake,         \* when its sleep ends
  N,            \* the number of users of its experiment
  end_time,
  success_cnt, fail_cnt,
  latencies,    \* how many were handed over
  client,       \* where each client is
  due,          \* when its sleep or its transfer ends
  local         \* how many latencies it has, local_latencies

vars == <<clock, main, wake, N, end_time, success_cnt, fail_cnt, latencies,
          client, due, local>>

Clients == 1 .. N

Init ==
  /\ clock = 0 /\ main = "start" /\ wake = 0 /\ N = FIRST_N /\ end_time = 0
  /\ success_cnt = 0 /\ fail_cnt = 0 /\ latencies = 0
  /\ client = <<>> /\ due = <<>> /\ local = <<>>

-----------------------------------------------------------------------------
(* client_worker. *)

ClientMoves(c, from, to, at) ==
  /\ client[c] = from /\ due[c] <= clock
  /\ client' = [client EXCEPT ![c] = to]
  /\ due' = [due EXCEPT ![c] = at]
  /\ UNCHANGED <<clock, main, wake, N, end_time>>

\* curl_easy_init returns null: the client is gone.
CurlFails(c) == ClientMoves(c, "stagger", "ended", clock)
                /\ UNCHANGED <<success_cnt, fail_cnt, latencies, local>>
CurlReady(c) == ClientMoves(c, "stagger", "loop", clock)
                /\ UNCHANGED <<success_cnt, fail_cnt, latencies, local>>

\* Mutant: the experiment is over one request later.
RequestsAtEnd(c) ==
  /\ clock <= end_time
  /\ \E r \in Responses : ClientMoves(c, "loop", "perform", clock + r)
  /\ UNCHANGED <<success_cnt, fail_cnt, latencies, local>>

\* The test of the loop, and the transfer.
Requests(c) ==
  /\ clock < end_time
  /\ \E r \in Responses : ClientMoves(c, "loop", "perform", clock + r)
  /\ UNCHANGED <<success_cnt, fail_cnt, latencies, local>>
Leaves(c) ==
  /\ clock >= end_time
  /\ ClientMoves(c, "loop", "merge", clock)
  /\ UNCHANGED <<success_cnt, fail_cnt, latencies, local>>

Succeeds(c) ==
  /\ ClientMoves(c, "perform", "think", clock + THINK_TIME)
  /\ success_cnt' = success_cnt + 1
  /\ local' = [local EXCEPT ![c] = @ + 1]
  /\ UNCHANGED <<fail_cnt, latencies>>

\* Mutant: a client that failed does not think.
FailsAndRetries(c) ==
  /\ ClientMoves(c, "perform", "loop", clock)
  /\ fail_cnt' = fail_cnt + 1
  /\ UNCHANGED <<success_cnt, latencies, local>>

Fails(c) ==
  /\ ClientMoves(c, "perform", "think", clock + THINK_TIME)
  /\ fail_cnt' = fail_cnt + 1
  /\ UNCHANGED <<success_cnt, latencies, local>>

Thinks(c) == ClientMoves(c, "think", "loop", clock)
             /\ UNCHANGED <<success_cnt, fail_cnt, latencies, local>>

\* Under lat_mutex.
Merges(c) ==
  /\ ClientMoves(c, "merge", "ended", clock)
  /\ latencies' = latencies + local[c]
  /\ UNCHANGED <<success_cnt, fail_cnt, local>>

ClientStep(c) == \/ CurlFails(c) \/ CurlReady(c) \/ Requests(c) \/ Leaves(c)
                 \/ Succeeds(c) \/ Fails(c) \/ Thinks(c) \/ Merges(c)

-----------------------------------------------------------------------------
(* main. *)

\* The counters are reset before the first client exists, and creating a client
\* touches nothing that the ones before it read: one step.
StartExperiment ==
  /\ main = "start" /\ main' = "join"
  /\ success_cnt' = 0 /\ fail_cnt' = 0 /\ latencies' = 0
  /\ end_time' = clock + DURATION
  /\ client' = [c \in Clients |-> "stagger"]
  /\ local' = [c \in Clients |-> 0]
  /\ \E stagger \in [Clients -> Staggers] : due' = [c \in Clients |-> clock + stagger[c]]
  /\ UNCHANGED <<clock, wake, N>>

\* Mutant: the clients are detached, and the main thread sleeps for DURATION.
SleepsInstead ==
  /\ main = "join" /\ clock >= end_time /\ main' = "report"
  /\ UNCHANGED <<clock, wake, N, end_time, success_cnt, fail_cnt, latencies,
                 client, due, local>>

JoinAll ==
  /\ main = "join" /\ main' = "report"
  /\ \A c \in Clients : client[c] = "ended"
  /\ UNCHANGED <<clock, wake, N, end_time, success_cnt, fail_cnt, latencies,
                 client, due, local>>

\* The report and the sleep that follows it.
Report ==
  /\ main = "report" /\ main' = "break" /\ wake' = clock + BREAK
  /\ UNCHANGED <<clock, N, end_time, success_cnt, fail_cnt, latencies,
                 client, due, local>>

NextExperiment ==
  /\ main = "break" /\ wake <= clock
  /\ IF N + STEP_N <= LAST_N THEN main' = "start" /\ N' = N + STEP_N
                            ELSE main' = "done" /\ UNCHANGED N
  /\ client' = <<>> /\ due' = <<>> /\ local' = <<>>
  /\ UNCHANGED <<clock, wake, end_time, success_cnt, fail_cnt, latencies>>

MainStep == StartExperiment \/ JoinAll \/ Report \/ NextExperiment

-----------------------------------------------------------------------------
(* Time. *)

Tick ==
  /\ \/ main = "break" /\ clock < wake
     \/ main = "join" /\ \E c \in Clients : client[c] # "ended"
  /\ \A c \in DOMAIN client : client[c] = "ended" \/ clock < due[c]
  /\ clock' = clock + 1
  /\ UNCHANGED <<main, wake, N, end_time, success_cnt, fail_cnt, latencies,
                 client, due, local>>

Finished == main = "done" /\ UNCHANGED vars

Next == \/ \E c \in DOMAIN client : ClientStep(c)
        \/ MainStep
        \/ Tick
        \/ Finished

Spec == Init /\ [][Next]_vars
=============================================================================
