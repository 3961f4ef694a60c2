----------------------------- MODULE Delegation -----------------------------
(* One call of delegate_subagents: AgentSubagentExecutor::execute_batch and *)
(* the threads of its children.  The parent makes a session for each task,  *)
(* records the link, publishes the start and spawns the child's run; then   *)
(* it collects outcomes from a channel until all are in, the run is         *)
(* cancelled or the time budget is spent, and reports each child.  Threads  *)
(* are never joined: a child that was given up goes on until it sees its    *)
(* token.                                                                   *)
EXTENDS Naturals, Sequences, FiniteSets

CONSTANTS MaxTasks, MaxChildren  \* tasks asked for, and max_parallel_children

ASSUME TasksAssumption == MaxTasks \in Nat /\ MaxChildren \in Nat

VARIABLES
  batch,     \* where the parent is
  tasks,     \* how many tasks the call has
  spawned,   \* PendingChild records made
  childRun,  \* per spawned child: "running", "ended", or "panicked"
  results,   \* the channel: child and outcome, in the order sent
  outcomes,  \* what the parent knows of each child, "none" at first
  stopped,   \* children whose token the parent cancelled
  parentStop, \* the parent's token
  spent,     \* the time budget is used up
  reports,   \* reports made, in order
  announced  \* history: children with a SubagentStarted event

batchVars == <<batch, tasks, spawned, childRun, results, outcomes, stopped, parentStop, spent, reports, announced>>

Children == 1 .. MaxChildren

(* What a child's run may end with: an AgentOutcome, or an error.           *)
Outcomes == {"completed", "blocked"}
Failures == {"budget_reached", "failed"}

BatchInit ==
  /\ batch = "called"
  /\ tasks \in 0 .. MaxTasks
  /\ spawned = 0
  /\ childRun = [c \in Children |-> "none"]
  /\ results = <<>>
  /\ outcomes = [c \in Children |-> "none"]
  /\ stopped = {} /\ parentStop \in BOOLEAN /\ spent = FALSE
  /\ reports = <<>> /\ announced = {}

(* Too many tasks or none, or a run already cancelled: an error, and        *)
(* nothing was started.                                                     *)
Accept ==
  /\ batch = "called"
  /\ batch' = IF tasks \in 1 .. MaxChildren /\ ~parentStop THEN "spawning" ELSE "refused"
  /\ UNCHANGED <<tasks, spawned, childRun, results, outcomes, stopped, parentStop, spent, reports, announced>>

(* create, link, publish, spawn.  A failing store ends the call with an     *)
(* error, whatever was spawned before.                                      *)
Spawn ==
  /\ batch = "spawning"
  /\ spawned < tasks
  /\ ~parentStop
  /\ \/ /\ spawned' = spawned + 1
        /\ childRun' = [childRun EXCEPT ![spawned + 1] = "running"]
        /\ announced' = announced \cup {spawned + 1}
        /\ UNCHANGED batch
     \/ batch' = "failed" /\ UNCHANGED <<spawned, childRun, announced>>
  /\ UNCHANGED <<tasks, results, outcomes, stopped, parentStop, spent, reports>>

SpawningEnds ==
  /\ batch = "spawning"
  /\ spawned = tasks \/ parentStop
  /\ batch' = "collecting"
  /\ UNCHANGED <<tasks, spawned, childRun, results, outcomes, stopped, parentStop, spent, reports, announced>>

Known == {c \in 1 .. spawned : outcomes[c] # "none"}

(* Outcomes filed in the order in which they arrive. *)
CollectOutcomeInOrder ==
  /\ batch = "collecting"
  /\ Cardinality(Known) < spawned
  /\ ~parentStop /\ ~spent
  /\ results # <<>>
  /\ outcomes' = [outcomes EXCEPT ![Cardinality(Known) + 1] = Head(results).outcome]
  /\ results' = Tail(results)
  /\ UNCHANGED <<batch, tasks, spawned, childRun, stopped, parentStop, spent, reports, announced>>

(* One turn of the collecting loop, its tests in the code's order; the      *)
(* channel is found closed when every sender is gone and nothing is left.   *)
CollectOutcome ==
  /\ batch = "collecting"
  /\ Cardinality(Known) < spawned
  /\ ~parentStop /\ ~spent
  /\ results # <<>>
  /\ outcomes' = [outcomes EXCEPT ![Head(results).child] = Head(results).outcome]
  /\ results' = Tail(results)
  /\ UNCHANGED <<batch, tasks, spawned, childRun, stopped, parentStop, spent, reports, announced>>

(* The deadline is computed and never looked at. *)
ReasonWithoutDeadline ==
  IF parentStop THEN "cancelled"
  ELSE IF results = <<>> /\ \A c \in 1 .. spawned : childRun[c] # "running" THEN "failed"
  ELSE "none"

GiveUpReason ==
  IF parentStop THEN "cancelled"
  ELSE IF spent THEN "timed_out"
  ELSE IF results = <<>> /\ \A c \in 1 .. spawned : childRun[c] # "running" THEN "failed"
  ELSE "none"

(* The loop is left early: every child is told to stop, and those without   *)
(* an outcome get the error.                                                *)
GiveUp ==
  /\ batch = "collecting"
  /\ Cardinality(Known) < spawned
  /\ GiveUpReason # "none"
  /\ stopped' = 1 .. spawned
  /\ outcomes' = [c \in Children |-> IF c \in 1 .. spawned \ Known THEN GiveUpReason ELSE outcomes[c]]
  /\ batch' = "reporting"
  /\ UNCHANGED <<tasks, spawned, childRun, results, parentStop, spent, reports, announced>>

AllKnown ==
  /\ batch = "collecting"
  /\ Cardinality(Known) = spawned
  /\ batch' = "reporting"
  /\ UNCHANGED <<tasks, spawned, childRun, results, outcomes, stopped, parentStop, spent, reports, announced>>

(* The status of a child whose run returned an error is "cancelled"         *)
(* whenever the parent is cancelled by now, and else what became of it.     *)
StatusOf(c) ==
  IF parentStop /\ outcomes[c] \notin Outcomes THEN "cancelled" ELSE outcomes[c]

(* Publish SubagentCompleted or SubagentFailed and push the report.         *)
ReportChild ==
  /\ batch = "reporting"
  /\ Len(reports) < spawned
  /\ reports' = Append(reports, [child |-> Len(reports) + 1, status |-> StatusOf(Len(reports) + 1)])
  /\ UNCHANGED <<batch, tasks, spawned, childRun, results, outcomes, stopped, parentStop, spent, announced>>

ReturnReports ==
  /\ batch = "reporting"
  /\ Len(reports) = spawned
  /\ batch' = "ok"
  /\ UNCHANGED <<tasks, spawned, childRun, results, outcomes, stopped, parentStop, spent, reports, announced>>

(* A child's run ends by itself, with an answer, an error or a limit, or    *)
(* because it sees the token; it sends what became of it, unless its thread *)
(* panics.                                                                  *)
Told(c) == parentStop \/ c \in stopped

ChildEnds(c) ==
  /\ childRun[c] = "running"
  /\ \E outcome \in Outcomes \cup Failures :
       results' = Append(results, [child |-> c, outcome |-> outcome])
  /\ childRun' = [childRun EXCEPT ![c] = "ended"]
  /\ UNCHANGED <<batch, tasks, spawned, outcomes, stopped, parentStop, spent, reports, announced>>

ChildSeesToken(c) ==
  /\ childRun[c] = "running"
  /\ Told(c)
  /\ results' = Append(results, [child |-> c, outcome |-> "failed"])
  /\ childRun' = [childRun EXCEPT ![c] = "ended"]
  /\ UNCHANGED <<batch, tasks, spawned, outcomes, stopped, parentStop, spent, reports, announced>>

ChildPanics(c) ==
  /\ childRun[c] = "running"
  /\ childRun' = [childRun EXCEPT ![c] = "panicked"]
  /\ UNCHANGED <<batch, tasks, spawned, results, outcomes, stopped, parentStop, spent, reports, announced>>

CancelParent ==
  /\ ~parentStop
  /\ parentStop' = TRUE
  /\ UNCHANGED <<batch, tasks, spawned, childRun, results, outcomes, stopped, spent, reports, announced>>

BudgetRunsOut ==
  /\ batch = "collecting"
  /\ ~spent
  /\ spent' = TRUE
  /\ UNCHANGED <<batch, tasks, spawned, childRun, results, outcomes, stopped, parentStop, reports, announced>>

ParentStep == Accept \/ Spawn \/ SpawningEnds \/ CollectOutcome \/ GiveUp \/ AllKnown \/ ReportChild \/ ReturnReports

BatchNext ==
  \/ ParentStep
  \/ \E c \in Children : ChildEnds(c) \/ ChildSeesToken(c) \/ ChildPanics(c)
  \/ CancelParent \/ BudgetRunsOut

(* The parent's thread is scheduled, the clock goes on, and a child polls   *)
(* its token; nothing is assumed of a child that was not told to stop.      *)
BatchFairness ==
  /\ WF_batchVars(ParentStep)
  /\ WF_batchVars(BudgetRunsOut)
  /\ \A c \in Children : WF_batchVars(ChildSeesToken(c))

BatchSpec == BatchInit /\ [][BatchNext]_batchVars /\ BatchFairness

----------------------------------------------------------------------------
(* A call that returns reports has one for every child it announced, in the *)
(* order of the tasks, and for every task unless the run was cancelled; a   *)
(* child reported as completed did complete, however its answer raced with  *)
(* the budget and the cancellation.                                         *)
ReportsAreTrue ==
  batch = "ok" =>
    /\ {reports[i].child : i \in DOMAIN reports} = announced
    /\ \A i \in DOMAIN reports : /\ reports[i].child = i
                                 /\ reports[i].status = "completed" => childRun[i] = "ended"
    /\ Len(reports) = tasks \/ parentStop

(* A call that returns reports leaves no child at work unnoticed: a child   *)
(* that still runs has been told to stop.                                   *)
NoChildLeft == batch = "ok" => \A c \in announced : childRun[c] = "running" => Told(c)

(* The call returns within its budget, whatever its children do, and the    *)
(* children it gave up end.                                                 *)
BatchReturns ==
  /\ <>(batch \in {"ok", "refused", "failed"})
  /\ \A c \in Children : c \in stopped ~> childRun[c] # "running"

\* A batch that returns has told of every child what it did, and has left none
\* of them running untold (execute_batch).
BatchSettled == ReportsAreTrue /\ NoChildLeft
=============================================================================
