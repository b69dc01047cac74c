------------------------- MODULE ProgramsProperties -------------------------
(***************************************************************************)
(* What the command lines and mean value analysis should come to, stated   *)
(* without their loops.                                                    *)
(***************************************************************************)
EXTENDS Programs, FiniteSetsExt, Combinatorics

Positions == 1 .. Len(argv)

\* The positions of option names: an option that is not itself a value.
NamesAt ==
  CHOOSE P \in SUBSET Positions :
    \A k \in Positions : k \in P <=> argv[k] \in DOMAIN Kind[program] /\ k - 1 \notin P

\* The words that are neither options nor values.
Stray == {k \in Positions \ NamesAt : k - 1 \notin NamesAt}

\* Where reading stops: at --help in the load generator, else at the end.
Stop ==
  Min({Len(argv) + 1} \cup
      {k \in Stray : program = "loadgenerator" /\ argv[k] = "--help"})

Bad(k) ==
  \/ k \in NamesAt /\ (k = Len(argv) \/ ~Accepts(Kind[program][argv[k]], argv[k + 1]))
  \/ k \in Stray /\ (program = "websim" => argv[k] = "--help")

\* The value of option o is the one given last, or its default.
Told(o) ==
  LET given == {k \in NamesAt : argv[k] = o /\ k < Stop /\ k < Len(argv)}
  IN  IF given = {} THEN Default[program][o]
      ELSE Value(Kind[program][o], argv[Max(given) + 1])

HasOptions == program \in DOMAIN Kind

\* A program that runs does so with what its command line says, each option as
\* it was given last, whatever stands in between and whatever word an option
\* took for its value (param_setter and need_value, the loop over getopt_long).
RunsAsTold ==
  HasOptions /\ outcome = "running" => \A o \in DOMAIN Kind[program] : opts[o] = Told(o)

\* A program runs if and only if every word up to where it stops reading has
\* a meaning: no experiment starts from a misspelt option, a missing value or
\* a number that is none, where numbers are checked (param_setter, main).
RunsIfSound ==
  HasOptions /\ outcome # "parsing" =>
    (outcome = "running" <=>
       /\ \A k \in Positions : k < Stop => ~Bad(k)
       /\ program = "websim" =>
            Told("--service_time_dist") \in {"exponential", "uniform", "constant"})

\* The simulator draws from the distributions the command line asks for, in
\* whatever order it gives them and their parameters: common.h has built the
\* samplers from its defaults before main runs (main.cpp:114 to 124).
SamplersAsTold ==
  program = "websim" /\ outcome = "running" =>
    /\ service_dist.type = Told("--service_time_dist")
    /\ Told("--service_time_avg") =
         IF service_dist.type = "uniform" THEN service_dist.p2 ELSE service_dist.p1
    /\ timeout_dist = sampler("uniform", Told("--timeout_lower"), Told("--timeout_upper"))

\* The powers of b; the one with exponent 0 is 1 for every b.
Powers(b) == LET p[e \in Nat] == IF e = 0 THEN 1 ELSE b * p[e - 1] IN p

\* The product form: what m users, k of them at a server with demand s and the
\* others thinking for z, contribute to m! times its normalising constant.
Term(s, z, m, k) == Powers(s)[k] * Powers(z)[m - k] * (factorial[m] \div factorial[m - k])
Weight(s, z, m)  == MapThenSumSet(LAMBDA k : Term(s, z, m, k), 0 .. m)

\* Mean value analysis computes the throughput of the product form (run_mva).
ProductForm ==
  n > 0 => X.num * Weight(S_ms, Z_ms, n) = X.den * n * Weight(S_ms, Z_ms, n - 1)
=============================================================================
