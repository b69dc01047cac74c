------------------------------- MODULE Station -------------------------------
(***************************************************************************)
(* What the thread pool of the web server promises, without threads, cores *)
(* or time: a first-come-first-served station.  Arrivals are numbered in   *)
(* the order they come; the first SERVERS are in service, PLACES more can  *)
(* wait, whoever comes then is turned away.  Anyone in service may leave   *)
(* at any moment, and the one who has waited longest takes the place.      *)
(***************************************************************************)
EXTENDS Naturals, Sequences, FiniteSets

CONSTANTS SERVERS, PLACES

VARIABLES arrived, in_service, queue, turned_away

vars == <<arrived, in_service, queue, turned_away>>

Init == arrived = 0 /\ in_service = {} /\ queue = <<>> /\ turned_away = 0

Enters ==
  /\ Cardinality(in_service) < SERVERS
  /\ in_service' = in_service \cup {arrived + 1}
  /\ UNCHANGED <<queue, turned_away>>

Waits ==
  /\ Cardinality(in_service) = SERVERS
  /\ Len(queue) < PLACES
  /\ queue' = Append(queue, arrived + 1)
  /\ UNCHANGED <<in_service, turned_away>>

TurnedAway ==
  /\ Cardinality(in_service) = SERVERS
  /\ Len(queue) = PLACES
  /\ turned_away' = turned_away + 1
  /\ UNCHANGED <<in_service, queue>>

Arrives == arrived' = arrived + 1 /\ (Enters \/ Waits \/ TurnedAway)

Leaves(x) ==
  /\ IF queue = <<>>
     THEN in_service' = in_service \ {x} /\ UNCHANGED queue
     ELSE in_service' = (in_service \ {x}) \cup {Head(queue)} /\ queue' = Tail(queue)
  /\ UNCHANGED <<arrived, turned_away>>

Next == Arrives \/ \E x \in in_service : Leaves(x)

Spec == Init /\ [][Next]_vars
=============================================================================
