------------------------------- MODULE MCRuns -------------------------------
(* The control of runs, the loop of one run, and a batch of sub-agents:     *)
(* unit says which of them a behaviour is about, for they share no state.   *)
EXTENDS RunControl, AgentLoop, Delegation, TLC
VARIABLE unit
allVars == <<unit, vars, loopVars, batchVars>>
Symmetry == Permutations(Clients)

NoBatch == /\ batch = "refused" /\ tasks = 0 /\ spawned = 0 /\ childRun = [c \in Children |-> "none"] /\ results = <<>>
           /\ outcomes = [c \in Children |-> "none"] /\ stopped = {} /\ parentStop = FALSE /\ spent = FALSE
           /\ reports = <<>> /\ announced = {}
MCInit == /\ unit \in {"control", "loop", "batch"}
          /\ Init /\ LoopInit
          /\ IF unit = "batch" THEN BatchInit ELSE NoBatch
MCNext == /\ \/ unit = "control" /\ Next /\ UNCHANGED <<loopVars, batchVars>>
             \/ unit = "loop" /\ LoopNext /\ UNCHANGED <<vars, batchVars>>
             \/ unit = "batch" /\ BatchNext /\ UNCHANGED <<vars, loopVars>>
          /\ UNCHANGED unit
MCSpec == MCInit /\ [][MCNext]_allVars
MCFairSpec == MCSpec /\ Fairness /\ LoopFairness /\ BatchFairness
=============================================================================
