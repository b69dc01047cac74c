------------------------------ MODULE UserLoop ------------------------------
(***************************************************************************)
(* What the simulator promises its closed-loop users: a user sends one     *)
(* request at a time and learns one thing about it, that it was refused,   *)
(* that it was answered, or nothing in time, in which case the user gives  *)
(* it up for good.  Requests are numbered in the order they are sent.      *)
(***************************************************************************)
EXTENDS Naturals

CONSTANTS USERS

VARIABLES
  open,      \* the users are being simulated
  sent,      \* how many requests have been sent
  awaiting,  \* the request each user waits for, 0 if it thinks
  answered,  \* the requests answered in time
  given_up   \* the requests whose users gave up

vars == <<open, sent, awaiting, answered, given_up>>

Init ==
  /\ open = TRUE /\ sent = 0 /\ awaiting = [u \in USERS |-> 0]
  /\ answered = {} /\ given_up = {}

\* A thinking user sends its next request, and waits unless it is refused.
Sends(u) ==
  /\ awaiting[u] = 0
  /\ sent' = sent + 1
  /\ awaiting' \in {awaiting, [awaiting EXCEPT ![u] = sent + 1]}
  /\ UNCHANGED <<answered, given_up>>

LearnsOf(u) ==
  /\ awaiting[u] # 0
  /\ awaiting' = [awaiting EXCEPT ![u] = 0]
  /\ \/ answered' = answered \cup {awaiting[u]} /\ UNCHANGED given_up
     \/ given_up' = given_up \cup {awaiting[u]} /\ UNCHANGED answered
  /\ UNCHANGED sent

Closes ==
  /\ open' = FALSE /\ awaiting' = [u \in USERS |-> 0]
  /\ UNCHANGED <<sent, answered, given_up>>

Next ==
  /\ open
  /\ \/ open' = TRUE /\ \E u \in USERS : Sends(u) \/ LearnsOf(u)
     \/ Closes

Spec == Init /\ [][Next]_vars
=============================================================================
