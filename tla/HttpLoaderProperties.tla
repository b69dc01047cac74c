------------------------ MODULE HttpLoaderProperties ------------------------
(***************************************************************************)
(* What makes http_get safe to run in many workers that may be cancelled.  *)
(***************************************************************************)
EXTENDS HttpLoader

OpenedBy(w) == {o \in open : o.by = w}

\* A socket is open only for a worker that is in http_get or was cancelled
\* there, and so is a list of addresses: every path closes what it opened, and
\* a cancellation leaves at most one of each.  connect, send and recv act on
\* the open socket of their own worker, never on a closed descriptor that the
\* system may have given to another one since.
DescriptorsOwned ==
  /\ \A w \in Workers :
       /\ OpenedBy(w) # {} \/ w \in lists =>
            worker[w] = "http" \/ (worker[w] = "ended" /\ CancelPending(w))
       /\ OpenedBy(w) \subseteq {[fd |-> sockfd[w], by |-> w]}
       /\ call[w] \in {"connect", "send", "recv"} => OpenedBy(w) # {}
  /\ \A o, p \in open : o.fd = p.fd => o = p

\* Every success that is counted is a reply that came as far as its time
\* (the tests at the end of http_get, fetch_add in run_test).
SuccessesAnswered ==
  successful + Cardinality({w \in Workers : worker[w] = "answered"}) <= replies

\* run_test returns, unless a signal ends the process: no call of http_get is
\* repeated for ever.
ReturnsOrKilled == <>(main = "returned" \/ killed)
=============================================================================
