--------------------------------- MODULE Mva ---------------------------------
(***************************************************************************)
(* Mean value analysis (mva.py of A-2): the throughput of one server and a *)
(* think time with 1, 2, ... users, each from the mean queue of one user   *)
(* fewer.  The floating-point numbers are fractions, the rounding of the   *)
(* code is left out; times are counted in 1/quantum of the code's unit, in *)
(* which all of them are whole.                                            *)
(***************************************************************************)
EXTENDS Integers

CONSTANTS
  USERS_MAX,                              \* --users_max
  SERVICES, OVERHEADS, QUANTA, THINKS     \* the values of the other options

ASSUME MvaAssumption ==
  /\ SERVICES \subseteq Nat \ {0} /\ OVERHEADS \subseteq Nat
  /\ QUANTA \subseteq Nat \ {0} /\ THINKS \subseteq Nat

VARIABLES
  S_ms, Z_ms,  \* the demand at the server and the delay
  n,           \* the users that have been computed
  Q_prev,      \* the mean queue with n users, num / den
  X            \* the throughput with n users, num / den

mva == <<S_ms, Z_ms, n, Q_prev, X>>

Fraction(a, b) == [num |-> a, den |-> b]

\* The demand: with use_quantum every quantum has its overhead, not rounded up.
Demand(service, overhead, quantum, use_quantum) ==
  IF use_quantum THEN service * quantum + service * overhead
                 ELSE (service + overhead) * quantum

Parsed ==
  \E service \in SERVICES, overhead \in OVERHEADS, quantum \in QUANTA,
     use_quantum \in BOOLEAN, think \in THINKS :
    /\ S_ms = Demand(service, overhead, quantum, use_quantum)
    /\ Z_ms = think * quantum

NothingComputed == n = 0 /\ Q_prev = Fraction(0, 1) /\ X = Fraction(0, 1)

\* Mutant: Q_prev is never set.
ForgetsQueue ==
  LET R_server == S_ms * (Q_prev.num + Q_prev.den)
      R_total  == Z_ms * Q_prev.den + R_server
  IN  /\ n < USERS_MAX /\ n' = n + 1
      /\ X' = Fraction((n + 1) * Q_prev.den, R_total)
      /\ UNCHANGED <<S_ms, Z_ms, Q_prev>>

\* Mutant: the user who arrives is not served itself.
ServesOthers ==
  LET R_server == S_ms * (IF n = 0 THEN 1 ELSE Q_prev.num)
      R_total  == Z_ms * Q_prev.den + R_server
  IN  /\ n < USERS_MAX /\ n' = n + 1
      /\ X' = Fraction((n + 1) * Q_prev.den, R_total)
      /\ Q_prev' = Fraction((n + 1) * R_server, R_total)
      /\ UNCHANGED <<S_ms, Z_ms>>

\* One turn of the loop of run_mva: an arriving user finds Q_prev at the
\* server.  R_server and R_total are multiples of 1 / Q_prev.den.
NextUser ==
  LET R_server == S_ms * (Q_prev.num + Q_prev.den)
      R_total  == Z_ms * Q_prev.den + R_server
  IN  /\ n < USERS_MAX /\ n' = n + 1
      /\ X' = Fraction((n + 1) * Q_prev.den, R_total)
      /\ Q_prev' = Fraction((n + 1) * R_server, R_total)
      /\ UNCHANGED <<S_ms, Z_ms>>

\* However many users there are and however short they think, the server is
\* never more than fully used (util of run_mva).
UtilizationAtMostOne == S_ms * X.num <= X.den
=============================================================================
