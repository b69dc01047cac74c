-------------------------- MODULE WebSimRefinement --------------------------
(***************************************************************************)
(* The simulator of WebSim implements two descriptions that know nothing   *)
(* of events, cores or time: the station its clients see, and the loop of  *)
(* its users.                                                              *)
(***************************************************************************)
EXTENDS WebSimProperties

\* A thread that holds a request is a busy server.
InService == {thread_req[th] : th \in Threads} \ {NoReq}

Pool == INSTANCE Station WITH
  SERVERS <- MAX_THREADS, PLACES <- THREAD_QUEUE_LIMIT,
  arrived <- Len(all_requests), in_service <- InService,
  queue <- waiting_requests, turned_away <- dropped_requests

\* Requests get their threads first come first served, whatever the cores do
\* with the threads: nobody is turned away or waits while a thread is free,
\* nobody overtakes, and a request leaves the server only by being served
\* (QueueingSystem::admit_request and release_thread_to_pool).
ImplementsStation == Pool!Spec

\* The request user u waits for.  When the loop of run ends, which may drop
\* the event of an answer, nobody waits any more.
AwaitedBy(u) ==
  LET mine == {r \in ReqIds : all_requests[r].user_id = u /\ Awaited(r)}
  IN  IF running /\ mine # {} THEN CHOOSE r \in mine : TRUE ELSE 0

Loop == INSTANCE UserLoop WITH
  USERS <- Users, open <- running, sent <- Len(all_requests),
  awaiting <- [u \in Users |-> AwaitedBy(u)],
  answered <- {completed_requests[i] : i \in DOMAIN completed_requests},
  given_up <- {r \in ReqIds : all_requests[r].timed_out}

\* A user has one request at a time and learns one thing about it; what
\* becomes of a request its user gave up is no event of the loop
\* (handle_user_arrival, handle_request_complete, handle_request_timeout).
ImplementsUserLoop == Loop!Spec
=============================================================================
