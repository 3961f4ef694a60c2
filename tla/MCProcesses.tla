----------------------------- MODULE MCProcesses -----------------------------
(* The processes the tools start: shell commands, background processes and  *)
(* their logs.  They share no state, so unit says which of them a behaviour *)
(* is about.                                                                *)
EXTENDS Commands, Background, ProcessLogs
VARIABLE unit
allVars == <<unit, cmdVars, bgVars, logVars>>

NoCommand == /\ child = "zero" /\ hung = [s \in Streams |-> TRUE] /\ descendant = "none"
             /\ written = [s \in Streams |-> 0] /\ taken = [s \in Streams |-> 0]
             /\ reader = [s \in Streams |-> "done"] /\ held = [s \in Streams |-> Chunk(s, 0, 0)]
             /\ captured = 0 /\ channel = <<>> /\ output = [s \in Streams |-> <<>>]
             /\ main = "done" /\ reaped = TRUE /\ token = FALSE /\ expired = FALSE /\ outcome = [NoOutcome EXCEPT !.success = TRUE]

MCInit == /\ unit \in {"command", "background", "log"}
          /\ IF unit = "command" THEN CmdInit ELSE NoCommand
          /\ BgInit /\ LogInit
MCNext == /\ \/ unit = "command" /\ CmdNext /\ UNCHANGED <<bgVars, logVars>>
             \/ unit = "background" /\ BgNext /\ UNCHANGED <<cmdVars, logVars>>
             \/ unit = "log" /\ LogNext /\ UNCHANGED <<cmdVars, bgVars>>
          /\ UNCHANGED unit
MCSpec == MCInit /\ [][MCNext]_allVars /\ CmdFairness /\ BgFairness
=============================================================================
