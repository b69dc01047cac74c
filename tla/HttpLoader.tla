----------------------------- MODULE HttpLoader -----------------------------
(***************************************************************************)
(* The workers of Loader with the calls of http_get (loader.cpp of A-3) in *)
(* place of the single step of Loader: the list of addresses, the sockets, *)
(* the request, the chunks of the reply.  The descriptors are those of the *)
(* process, shared by all workers; http_get holds its descriptor and its   *)
(* list in plain pointers, so that a cancellation inside leaves them open. *)
(* Every call that fails is one of at most MAX_FAULTS faults.              *)
(***************************************************************************)
EXTENDS LoaderProperties

CONSTANTS
  ADDRESSES,    \* how many addresses the name of the server has
  MAX_FAULTS    \* bound of the model: calls that fail, replies without a time

\* A request fails after at least one fault.
ASSUME HttpAssumption ==
  ADDRESSES \in Nat \ {0} /\ MAX_FAULTS \in Nat /\ MAX_FAULTS <= MAX_FAILURES

NoFd == -1
Fds  == 0 .. NUM_WORKERS   \* one per worker, and one more

VARIABLES
  call,      \* the next call of each worker inside http_get
  sockfd,    \* its local variable
  untried,   \* the addresses its loop over the list has left
  got,       \* what it has received: "nothing", "text", or digits after "Time = "
  open,      \* the open descriptors, with the worker that opened each
  lists,     \* the workers whose list of addresses is allocated
  faults,    \* how many faults there were
  replies,   \* how many replies have come as far as their time
  killed     \* SIGPIPE has ended the process

local == <<call, sockfd, untried, got>>
http  == <<local, open, lists, faults, replies, killed>>
hvars == <<vars, http>>

HttpInit ==
  /\ Init
  /\ call = [w \in Workers |-> "getaddrinfo"]
  /\ sockfd = [w \in Workers |-> NoFd]
  /\ untried = [w \in Workers |-> 0]
  /\ got = [w \in Workers |-> "nothing"]
  /\ open = {} /\ lists = {} /\ faults = 0 /\ replies = 0 /\ killed = FALSE

Calls(w, c) == worker[w] = "http" /\ call[w] = c
Fault == faults < MAX_FAULTS /\ faults' = faults + 1
Goes(w, c) == call' = [call EXCEPT ![w] = c] /\ UNCHANGED <<vars, killed>>

\* http_get returns: TRUE, or FALSE.
Returns(w, ok) ==
  /\ call' = [call EXCEPT ![w] = "getaddrinfo"]
  /\ got' = [got EXCEPT ![w] = "nothing"]
  /\ IF ok THEN HttpAnswers(w) ELSE HttpFails(w)
  /\ UNCHANGED <<untried, lists, killed>>

\* close(sockfd), which does not reset the variable.
Closed(w) == open' = {o \in open : o.fd # sockfd[w]}

-----------------------------------------------------------------------------
(* The loop over the addresses. *)

Resolves(w) ==
  /\ Calls(w, "getaddrinfo")
  /\ untried' = [untried EXCEPT ![w] = ADDRESSES]
  /\ sockfd' = [sockfd EXCEPT ![w] = NoFd]
  /\ lists' = lists \cup {w}
  /\ Goes(w, "socket") /\ UNCHANGED <<got, open, faults, replies>>

ResolveFails(w) ==
  /\ Calls(w, "getaddrinfo") /\ Fault
  /\ Returns(w, FALSE) /\ UNCHANGED <<sockfd, open, replies>>

FreeFds == {f \in Fds : \A o \in open : o.fd # f}

\* The system takes the lowest descriptor that is free.
SocketOpens(w) ==
  /\ Calls(w, "socket") /\ untried[w] > 0
  /\ \E fd \in FreeFds :
       /\ \A f \in FreeFds : fd <= f
       /\ sockfd' = [sockfd EXCEPT ![w] = fd]
       /\ open' = open \cup {[fd |-> fd, by |-> w]}
  /\ Goes(w, "connect") /\ UNCHANGED <<untried, got, lists, faults, replies>>

SocketFails(w) ==
  /\ Calls(w, "socket") /\ untried[w] > 0 /\ Fault
  /\ sockfd' = [sockfd EXCEPT ![w] = NoFd]
  /\ untried' = [untried EXCEPT ![w] = @ - 1]
  /\ Goes(w, "socket") /\ UNCHANGED <<got, open, lists, replies>>

\* connect succeeds and ends the loop; freeaddrinfo.
Connects(w) ==
  /\ Calls(w, "connect")
  /\ lists' = lists \ {w}
  /\ Goes(w, "send") /\ UNCHANGED <<sockfd, untried, got, open, faults, replies>>

\* Mutant: sockfd keeps the number of the closed descriptor.
ConnectFailsStale(w) ==
  /\ Calls(w, "connect") /\ ~CancelPending(w) /\ Fault
  /\ Closed(w) /\ untried' = [untried EXCEPT ![w] = @ - 1]
  /\ Goes(w, "socket") /\ UNCHANGED <<sockfd, got, lists, replies>>

\* connect fails, close, the next address.
ConnectFails(w) ==
  /\ Calls(w, "connect") /\ ~CancelPending(w) /\ Fault
  /\ Closed(w) /\ sockfd' = [sockfd EXCEPT ![w] = NoFd]
  /\ untried' = [untried EXCEPT ![w] = @ - 1]
  /\ Goes(w, "socket") /\ UNCHANGED <<got, lists, replies>>

\* No address is left: freeaddrinfo, and the test of sockfd.
AddressesTried(w) ==
  /\ Calls(w, "socket") /\ untried[w] = 0
  /\ IF sockfd[w] = NoFd
     THEN /\ call' = [call EXCEPT ![w] = "getaddrinfo"]
          /\ HttpFails(w) /\ UNCHANGED killed
     ELSE Goes(w, "send")
  /\ lists' = lists \ {w}
  /\ UNCHANGED <<sockfd, untried, got, open, faults, replies>>

-----------------------------------------------------------------------------
(* The request and the reply. *)

\* All of the request is sent, shutdown.
Sends(w) ==
  /\ Calls(w, "send")
  /\ Goes(w, "recv") /\ UNCHANGED <<sockfd, untried, got, open, lists, faults, replies>>

SendFails(w) ==
  /\ Calls(w, "send") /\ ~CancelPending(w) /\ Fault
  /\ Closed(w) /\ Returns(w, FALSE) /\ UNCHANGED <<sockfd, replies>>

\* The server has closed the connection already: send is called without
\* MSG_NOSIGNAL and nobody handles SIGPIPE.
SendKills(w) ==
  /\ Calls(w, "send") /\ Fault
  /\ killed' = TRUE
  /\ UNCHANGED <<vars, local, open, lists, replies>>

\* A chunk arrives; the one that brings the first digits of the time counts.
Receives(w) ==
  /\ Calls(w, "recv")
  /\ \/ got[w] = "nothing" /\ got' = [got EXCEPT ![w] = "text"] /\ UNCHANGED replies
     \/ got[w] # "time" /\ got' = [got EXCEPT ![w] = "time"] /\ replies' = replies + 1
  /\ Goes(w, "recv") /\ UNCHANGED <<sockfd, untried, open, lists, faults>>

\* What parse_buf finds in the reply: digits after "Time = ".
HasTime(w) == got[w] = "time"

\* Mutant: the end of the reply is taken for an interrupted call.
EndIgnored(w) ==
  /\ Calls(w, "recv") /\ ~CancelPending(w)
  /\ UNCHANGED hvars

\* Mutant: the result of parse_buf is not looked at.
EndUnparsed(w) ==
  /\ Calls(w, "recv") /\ ~CancelPending(w)
  /\ Closed(w) /\ Returns(w, got[w] # "nothing")
  /\ IF got[w] = "nothing" THEN Fault ELSE UNCHANGED faults
  /\ UNCHANGED <<sockfd, replies>>

\* recv returns 0, or an error other than a timeout, which keeps what came
\* before it: close, and the reply counts if parse_buf finds a time in it.
ReplyEnds(w) ==
  /\ Calls(w, "recv") /\ ~CancelPending(w)
  /\ Closed(w) /\ Returns(w, HasTime(w))
  /\ IF HasTime(w) THEN UNCHANGED faults ELSE Fault
  /\ UNCHANGED <<sockfd, replies>>

\* recv times out: whatever came, the request has failed.
ReplyTimesOut(w) ==
  /\ Calls(w, "recv") /\ ~CancelPending(w) /\ Fault
  /\ Closed(w) /\ Returns(w, FALSE) /\ UNCHANGED <<sockfd, replies>>

-----------------------------------------------------------------------------
(* The composition. *)

\* The calls of http_get in which a cancellation takes effect.
HttpCancelled(w) ==
  /\ call[w] # "socket"
  /\ Cancelled(w)
  /\ UNCHANGED http

HttpStep(w) ==
  \/ Resolves(w) \/ ResolveFails(w) \/ SocketOpens(w) \/ SocketFails(w)
  \/ Connects(w) \/ ConnectFails(w) \/ AddressesTried(w)
  \/ Sends(w) \/ SendFails(w) \/ SendKills(w)
  \/ Receives(w) \/ ReplyEnds(w) \/ ReplyTimesOut(w)

\* A step of the worker outside http_get.
OutsideStep(w) ==
  /\ WorkerLoop(w) \/ Pop(w) \/ WorkerStarts(w)
     \/ CountSuccess(w) \/ RecordLatency(w) \/ WorkerStops(w)
  /\ UNCHANGED http

HttpWorkerStep(w) == ~killed /\ (HttpStep(w) \/ HttpCancelled(w) \/ OutsideStep(w))

HttpNext ==
  \/ \E w \in Workers : HttpWorkerStep(w)
  \/ ~killed /\ (\/ \E w \in Workers : SpuriousWake(w)
                 \/ KillerStep \/ MainStep) /\ UNCHANGED http
  \/ (killed \/ main = "returned") /\ UNCHANGED hvars

HttpSpec == HttpInit /\ [][HttpNext]_hvars

\* The threads keep running while the process lives, as in Loader.
HttpFairSpec ==
  /\ HttpSpec
  /\ \A w \in Workers : WF_hvars(HttpWorkerStep(w))
  /\ WF_hvars(~killed /\ KillerStep /\ UNCHANGED http)
  /\ WF_hvars(~killed /\ MainStep /\ UNCHANGED http)
=============================================================================
