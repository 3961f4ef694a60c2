------------------------------ MODULE MCStorage ------------------------------
(* The session log and the git checkpoints: one unit per behaviour, for they share no state. *)
EXTENDS SessionLog, Checkpoints
VARIABLE unit
allVars == <<unit, logVars, undoVars>>

MCInit == unit \in {"log", "checkpoints"} /\ LogInit /\ UndoInit
MCNext == /\ \/ unit = "log" /\ LogNext /\ UNCHANGED undoVars
             \/ unit = "checkpoints" /\ UndoNext /\ UNCHANGED logVars
          /\ UNCHANGED unit
MCSpec == MCInit /\ [][MCNext]_allVars
=============================================================================
