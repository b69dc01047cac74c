------------------------------ MODULE Programs ------------------------------
(***************************************************************************)
(* The programs up to what they compute by themselves: websim and the load *)
(* generator to the point where they start the simulation or the test,     *)
(* mva.py, whose options are read by a library, through its whole loop.    *)
(***************************************************************************)
EXTENDS CommandLine, Mva

vars == <<cmdline, mva>>

MvaInit ==
  /\ program = "mva" /\ argv = <<>> /\ optind = 1 /\ opts = <<>> /\ outcome = "running"
  /\ service_dist = <<>> /\ timeout_dist = <<>>
  /\ Parsed

Init ==
  /\ \/ CmdInit /\ S_ms = 1 /\ Z_ms = 0
     \/ MvaInit
  /\ NothingComputed

Next ==
  \/ CmdNext /\ UNCHANGED mva
  \/ program = "mva" /\ NextUser /\ UNCHANGED cmdline
  \/ outcome # "parsing" /\ (program = "mva" => n = USERS_MAX) /\ UNCHANGED vars

Spec == Init /\ [][Next]_vars
=============================================================================
