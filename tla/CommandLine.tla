----------------------------- MODULE CommandLine -----------------------------
(***************************************************************************)
(* How the two programs with options get their parameters: main of websim  *)
(* (main.cpp, common.h), which reads its arguments with getopt_long, and   *)
(* param_setter of the load generator (loader.cpp of A-3).  An argument is *)
(* a word; times and shares are counted in tenths of the code's unit.      *)
(***************************************************************************)
EXTENDS Integers, Sequences, TLC

CONSTANTS
  WEBSIM_WORDS, LOADER_WORDS,  \* the words a command line is made of
  MAX_WORDS                    \* bound of the model: how many there are

ASSUME CommandLineAssumption == MAX_WORDS \in Nat

VARIABLES
  program,   \* "websim", "loadgenerator", or one whose options are not modelled
  argv,      \* its arguments
  optind,    \* the position of the next one to read
  opts,      \* the parameters: namespace common, or Params
  outcome,   \* "parsing", "running", "exit" (status 1), or "abort"
  service_dist, timeout_dist   \* the samplers of websim

cmdline == <<program, argv, optind, opts, outcome, service_dist, timeout_dist>>

-----------------------------------------------------------------------------
(* The options, how each reads its value, and what it is without the option. *)

WebsimOptions ==
  {"--users", "--num_cores", "--max_threads", "--thread_queue_limit", "--retry_limit",
   "--simtime", "--warmup", "--quantum", "--context_switch_overhead", "--think_base",
   "--think_mean_exp", "--service_time_avg", "--timeout_lower", "--timeout_upper",
   "--trace_on", "--closed_loop", "--trace_prefix", "--service_time_dist", "--rng_seed",
   "--sched_policy"}

LoaderOptions ==
  {"--arrival-rate", "--size", "--cpuLoad", "--num-requests", "--workers", "--admin-port",
   "--server-port", "--warmup", "--csv", "--device-write", "--memory", "--admin-host",
   "--server-host", "--cpus"}

WebsimKind == [o \in WebsimOptions |->
  CASE o \in {"--users", "--num_cores", "--max_threads", "--thread_queue_limit",
              "--retry_limit"}                        -> "atoi"
    [] o \in {"--trace_on", "--closed_loop"}          -> "flag"
    [] o \in {"--trace_prefix", "--service_time_dist"} -> "text"
    [] o = "--rng_seed"                               -> "stoul"
    [] o = "--sched_policy"                           -> "policy"
    [] OTHER                                          -> "atof"]

LoaderKind == [o \in LoaderOptions |->
  CASE o \in {"--csv", "--device-write", "--memory", "--admin-host", "--server-host"} -> "text"
    [] o = "--cpus" -> "parse_double"
    [] OTHER        -> "parse_int"]

WebsimDefault == [o \in WebsimOptions |->
  CASE o = "--users"              -> 50      [] o = "--num_cores"        -> 1
    [] o = "--max_threads"        -> 346     [] o = "--retry_limit"      -> 0
    [] o = "--thread_queue_limit" -> 10000   [] o = "--simtime"          -> 8000
    [] o = "--warmup"             -> 1000000 [] o = "--quantum"          -> 100
    [] o = "--think_base"         -> 40000   [] o = "--think_mean_exp"   -> 100
    [] o = "--timeout_lower"      -> 30000   [] o = "--timeout_upper"    -> 30010
    [] o = "--service_time_avg"   -> 300     [] o = "--context_switch_overhead" -> 2
    [] o = "--rng_seed"           -> 6190    [] o = "--sched_policy"     -> "RR"
    [] o = "--trace_prefix"       -> "runs/run"
    [] o = "--service_time_dist"  -> "exponential"
    [] o \in {"--trace_on", "--closed_loop"} -> TRUE]

LoaderDefault == [o \in LoaderOptions |->
  CASE o = "--arrival-rate" -> 10   [] o = "--size"        -> 100
    [] o = "--cpuLoad"      -> 350  [] o = "--num-requests" -> 5000
    [] o = "--workers"      -> 8    [] o = "--admin-port"  -> 8080
    [] o = "--server-port"  -> 80   [] o = "--warmup"      -> 2
    [] o = "--cpus"         -> 10   [] o = "--csv"         -> "loadtest.csv"
    [] o \in {"--device-write", "--memory"}       -> ""
    [] o \in {"--admin-host", "--server-host"}    -> "127.0.0.1"]

Kind    == [websim |-> WebsimKind, loadgenerator |-> LoaderKind]
Default == [websim |-> WebsimDefault, loadgenerator |-> LoaderDefault]

\* The number at the beginning of a word, and the words that are nothing else.
Leading == "0" :> 0 @@ "7" :> 7 @@ "20" :> 20 @@ "7x" :> 7
Numerals == DOMAIN Leading \ {"7x"}
Number(word) == IF word \in DOMAIN Leading THEN Leading[word] ELSE 0

\* What sched_policy_type knows.
Policies == {"RR", "SJF"}

\* parse_int and parse_double want a whole number, stoul (which throws) a
\* leading one, sched_policy a policy; atoi and atof take all.
Accepts(kind, word) ==
  /\ kind \in {"parse_int", "parse_double"} => word \in Numerals
  /\ kind = "stoul" => word \in DOMAIN Leading
  /\ kind = "policy" => word \in Policies

Value(kind, word) ==
  CASE kind \in {"text", "policy"}        -> word
    [] kind = "flag"                      -> Number(word) # 0
    [] kind \in {"atof", "parse_double"}  -> 10 * Number(word)
    [] OTHER                              -> Number(word)

sampler(type, a, b) == [type |-> type, p1 |-> a, p2 |-> b]

Lines(words) == UNION {[1 .. k -> words] : k \in 0 .. MAX_WORDS}

CmdInit ==
  /\ \/ program = "websim" /\ argv \in Lines(WEBSIM_WORDS)
     \/ program = "loadgenerator" /\ argv \in Lines(LOADER_WORDS)
  /\ optind = 1 /\ opts = Default[program] /\ outcome = "parsing"
  /\ service_dist = sampler("exponential", 300, 0)
  /\ timeout_dist = sampler("uniform", 30000, 30010)

-----------------------------------------------------------------------------
(* One action per turn of the loops. *)

Reading(p) == program = p /\ outcome = "parsing" /\ optind <= Len(argv)
Read(p)    == program = p /\ outcome = "parsing" /\ optind > Len(argv)
Word       == argv[optind]
Ends(o)    == outcome' = o /\ UNCHANGED <<program, argv, optind, opts>>

\* Mutant: the value is looked at and left where it is.
PeeksValue(p) ==
  /\ Reading(p) /\ Word \in DOMAIN Kind[p] /\ optind < Len(argv)
  /\ Accepts(Kind[p][Word], argv[optind + 1])
  /\ opts' = [opts EXCEPT ![Word] = Value(Kind[p][Word], argv[optind + 1])]
  /\ optind' = optind + 1
  /\ UNCHANGED <<program, argv, outcome, service_dist, timeout_dist>>

\* An option takes the word after it, whatever it looks like.
TakesValue(p) ==
  /\ Reading(p) /\ Word \in DOMAIN Kind[p] /\ optind < Len(argv)
  /\ Accepts(Kind[p][Word], argv[optind + 1])
  /\ opts' = [opts EXCEPT ![Word] = Value(Kind[p][Word], argv[optind + 1])]
  /\ optind' = optind + 2
  /\ UNCHANGED <<program, argv, outcome, service_dist, timeout_dist>>

\* There is no value, or not one the option accepts.
RejectsValue(p) ==
  /\ Reading(p) /\ Word \in DOMAIN Kind[p]
  /\ optind < Len(argv) => ~Accepts(Kind[p][Word], argv[optind + 1])
  /\ Ends(IF Kind[p][Word] = "stoul" /\ optind < Len(argv) THEN "abort" ELSE "exit")
  /\ UNCHANGED <<service_dist, timeout_dist>>

\* What getopt_long does with a word that is no option: one that looks like an
\* option is an error, another one is passed over.
WebsimUnknown ==
  /\ Reading("websim") /\ Word \notin DOMAIN Kind.websim
  /\ IF Word = "--help"
     THEN Ends("exit")
     ELSE optind' = optind + 1 /\ UNCHANGED <<program, argv, opts, outcome>>
  /\ UNCHANGED <<service_dist, timeout_dist>>

\* param_setter returns 0 after it has printed the usage, so that main goes on.
LoaderHelp ==
  /\ Reading("loadgenerator") /\ Word = "--help"
  /\ Ends("running") /\ UNCHANGED <<service_dist, timeout_dist>>

\* Mutant: an unknown word is passed over, as getopt_long does.
LoaderSkips ==
  /\ Reading("loadgenerator") /\ Word \notin DOMAIN Kind.loadgenerator \cup {"--help"}
  /\ optind' = optind + 1
  /\ UNCHANGED <<program, argv, opts, outcome, service_dist, timeout_dist>>

LoaderUnknown ==
  /\ Reading("loadgenerator") /\ Word \notin DOMAIN Kind.loadgenerator \cup {"--help"}
  /\ Ends("exit") /\ UNCHANGED <<service_dist, timeout_dist>>

LoaderRuns ==
  /\ Read("loadgenerator")
  /\ Ends("running") /\ UNCHANGED <<service_dist, timeout_dist>>

\* Mutant: the samplers are the ones common.h builds before main.
KeepsSamplers == UNCHANGED <<service_dist, timeout_dist>>

\* The samplers are built again from the options as they are in the end.
BuildsSamplers ==
  LET avg == opts["--service_time_avg"]
  IN  /\ timeout_dist' = sampler("uniform", opts["--timeout_lower"], opts["--timeout_upper"])
      /\ service_dist' =
           CASE opts["--service_time_dist"] = "exponential" -> sampler("exponential", avg, 0)
             [] opts["--service_time_dist"] = "uniform"     -> sampler("uniform", 100, avg)
             [] opts["--service_time_dist"] = "constant"    -> sampler("constant", avg, avg)
             [] OTHER                                       -> service_dist

WebsimRuns ==
  /\ Read("websim")
  /\ BuildsSamplers
  /\ Ends(IF opts["--service_time_dist"] \in {"exponential", "uniform", "constant"}
          THEN "running" ELSE "exit")

CmdNext ==
  \/ \E p \in {"websim", "loadgenerator"} : TakesValue(p) \/ RejectsValue(p)
  \/ WebsimUnknown \/ WebsimRuns
  \/ LoaderHelp \/ LoaderUnknown \/ LoaderRuns
=============================================================================
