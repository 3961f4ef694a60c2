---------------------------- MODULE ExecutionPlan ----------------------------
(* The plan a task carries: TaskRun::execution_plan, current_plan and       *)
(* goal.current_milestone over the runs of one session                      *)
(* (crates/harness-agent/src/lib.rs).  A plan is read off the model's       *)
(* answers, cut into milestones, moved on by every successful tool call,    *)
(* revised on request, and settled when a run ends; a later run goes on     *)
(* from what update_task_run saved, which every action below ends with.     *)
(* A step is a model value: the wording of plans and goals is left out.     *)
EXTENDS Naturals, Sequences, SequencesExt, FiniteSets

CONSTANTS
  Answers,          \* step lists the model may write after "Plan:"
  MilestoneSize,    \* the 4 of chunks(4)
  MaxItems,         \* the 16 lines extract_plan keeps
  MaxSteps,         \* the 32 steps a plan is made from
  MaxPlanRevisions, \* MAX_PLAN_REVISIONS
  MaxPlanRuns       \* bound: runs of the session

ASSUME SizesAssumption ==
  /\ {MilestoneSize, MaxItems, MaxSteps} \subseteq Nat \ {0}
  /\ {MaxPlanRevisions, MaxPlanRuns} \subseteq Nat

VARIABLES
  planned,      \* execution_plan, or NoPlan
  currentPlan,  \* current_plan: the steps as last written
  structured,   \* structured_plan is there
  milestone,    \* goal.current_milestone: its index, 0 for None
  planMode,     \* task_mode of the last run
  planStatus,   \* completion_status
  planRuns,     \* runs started
  worked        \* history: steps of the task that record_plan_progress completed

planVars == <<planned, currentPlan, structured, milestone, planMode, planStatus, planRuns, worked>>

NoPlan == [revision |-> 0, status |-> "pending", milestones |-> <<>>]
EndStatuses == {"done", "blocked", "user_input", "limit", "cancelled"}

Task(step, status) == [step |-> step, status |-> status]
StepsOf(plan) == FlattenSeq([m \in DOMAIN plan.milestones |->
                   [t \in DOMAIN plan.milestones[m].tasks |-> plan.milestones[m].tasks[t].step]])

(* The tasks of a plan, each by its milestone and its index there.          *)
Places(plan) == UNION {{m} \X DOMAIN plan.milestones[m].tasks : m \in DOMAIN plan.milestones}
TaskAt(plan, p) == plan.milestones[p[1]].tasks[p[2]]
CompletedSteps(plan) == {TaskAt(plan, p).step : p \in {q \in Places(plan) : TaskAt(plan, q).status = "completed"}}

(* The first index of seq whose status is, or is not, the one given; or 0.  *)
Least(S) == IF S = {} THEN 0 ELSE CHOOSE i \in S : \A j \in S : i <= j
FirstWith(seq, status) == Least({i \in DOMAIN seq : seq[i].status = status})
FirstWithout(seq, status) == Least({i \in DOMAIN seq : seq[i].status # status})

(* sync_current_milestone: the first milestone that is not completed.       *)
Current(plan) == FirstWithout(plan.milestones, "completed")

(* execution_plan_from_implementation: at most MaxSteps steps, in chunks,   *)
(* every item Pending.                                                      *)
PlanOf(steps) ==
  LET kept == Min({MaxSteps, Len(steps)})
      Before(m) == (m - 1) * MilestoneSize
  IN [revision |-> 1, status |-> "pending",
      milestones |-> [m \in 1 .. (kept + MilestoneSize - 1) \div MilestoneSize |->
        [status |-> "pending",
         tasks |-> [t \in 1 .. Min({MilestoneSize, kept - Before(m)}) |-> Task(steps[Before(m) + t], "pending")]]]]

(* extract_plan pushes each new line with push_unique_bounded, which drops  *)
(* from the front: of a longer list the last MaxItems steps are kept.       *)
Extracted(steps) == SubSeq(steps, Max({1, Len(steps) - MaxItems + 1}), Len(steps))

SetTask(tasks, t, status) == IF t = 0 THEN tasks ELSE [tasks EXCEPT ![t].status = status]

(* advance_execution_plan: the open milestone is in progress, and so is its *)
(* first Pending task, whatever else of it is in progress or blocked.       *)
Advance(plan) ==
  LET m == Current(plan)
  IN IF plan = NoPlan THEN plan
     ELSE [plan EXCEPT !.status = "in_progress",
             !.milestones = IF m = 0 THEN @
               ELSE [plan.milestones EXCEPT ![m] = [status |-> "in_progress",
                       tasks |-> SetTask(@.tasks, FirstWith(@.tasks, "pending"), "in_progress")]]]

(* The milestone ends when nothing of it is in progress. *)
ProgressToEnd(plan) ==
  LET m == Current(plan)
      tasks == plan.milestones[m].tasks
      after == SetTask(tasks, FirstWith(tasks, "in_progress"), "completed")
      next == [plan.milestones EXCEPT ![m] =
                [status |-> IF FirstWith(after, "in_progress") = 0 THEN "completed" ELSE @.status,
                 tasks |-> SetTask(after, FirstWith(after, "pending"), "in_progress")]]
  IN IF m = 0 THEN plan
     ELSE [plan EXCEPT !.milestones = next,
             !.status = IF FirstWithout(next, "completed") = 0 THEN "completed" ELSE @]

(* record_plan_progress: the first task in progress is completed, the first *)
(* Pending one begun; without one the milestone is completed.               *)
Progress(plan) ==
  LET m == Current(plan)
      tasks == plan.milestones[m].tasks
      after == SetTask(tasks, FirstWith(tasks, "in_progress"), "completed")
      pending == FirstWith(after, "pending")
      next == [plan.milestones EXCEPT ![m] =
                [status |-> IF pending = 0 THEN "completed" ELSE @.status,
                 tasks |-> SetTask(after, pending, "in_progress")]]
  IN IF m = 0 THEN plan
     ELSE [plan EXCEPT !.milestones = next,
             !.status = IF FirstWithout(next, "completed") = 0 THEN "completed" ELSE @]

(* finish_plan_state, by the completion status of the run.                  *)
Finished(plan, status) ==
  LET m == Current(plan)
      all == [i \in DOMAIN plan.milestones |-> [status |-> "completed",
               tasks |-> [t \in DOMAIN plan.milestones[i].tasks |->
                            Task(plan.milestones[i].tasks[t].step, "completed")]]]
      stuck == IF m = 0 THEN plan.milestones
               ELSE [plan.milestones EXCEPT ![m] = [status |-> "blocked",
                       tasks |-> SetTask(@.tasks, FirstWith(@.tasks, "in_progress"), "blocked")]]
  IN IF plan = NoPlan \/ status = "cancelled" THEN plan
     ELSE IF status = "done" THEN [plan EXCEPT !.milestones = all, !.status = "completed"]
     ELSE [plan EXCEPT !.milestones = stuck, !.status = "blocked"]

(* revise_execution_plan: one milestone of the new steps; a step that the   *)
(* old plan had completed stays so.                                         *)
Revised(plan, steps) ==
  Advance([revision |-> plan.revision + 1, status |-> "in_progress",
    milestones |-> <<[status |-> "pending", tasks |-> [t \in 1 .. Len(steps) |->
       Task(steps[t], IF steps[t] \in CompletedSteps(plan) THEN "completed" ELSE "pending")]]>>])

Revisable(plan, steps) ==
  /\ plan # NoPlan
  /\ plan.revision < MaxPlanRevisions + 1
  /\ StepsOf(plan) # steps

----------------------------------------------------------------------------
(* A session, new or kept from a version that had steps and no plan.        *)
PlanInit ==
  /\ planned = NoPlan
  /\ currentPlan \in {<<>>} \cup {Extracted(a) : a \in Answers}
  /\ structured = FALSE
  /\ milestone = 0
  /\ planMode = "code" /\ planStatus = "blocked"
  /\ planRuns = 0
  /\ worked = {}

Running == planStatus = "in_progress"

(* The plan is put in place, sync_current_milestone included.               *)
Store(plan) == planned' = plan /\ milestone' = Current(plan)

(* The head of AgentRunner::run.  A task that was done is dropped, unless   *)
(* it is a plan resumed to be carried out; a plan is made of steps that     *)
(* have none.                                                               *)
BeginPlanRun(mode, resume) ==
  LET kept == resume /\ (planStatus # "done" \/ (mode = "code" /\ planMode = "plan" /\ structured))
      steps == IF kept THEN currentPlan ELSE <<>>
      plan == IF ~kept THEN NoPlan ELSE planned
  IN /\ ~Running
     /\ planRuns < MaxPlanRuns
     /\ planRuns' = planRuns + 1
     /\ Store(Advance(IF plan = NoPlan /\ steps # <<>> THEN PlanOf(steps) ELSE plan))
     /\ currentPlan' = steps
     /\ structured' = (kept /\ structured)
     /\ worked' = IF kept THEN worked ELSE {}
     /\ planMode' = mode
     /\ planStatus' = "in_progress"

(* A response with "Plan revision: reason" and steps.                       *)
RevisePlan(answer) ==
  /\ Running
  /\ Revisable(planned, Extracted(answer))
  /\ Store(Revised(planned, Extracted(answer)))
  /\ currentPlan' = Extracted(answer)
  /\ UNCHANGED <<structured, planMode, planStatus, planRuns, worked>>

(* A response with steps while there is no plan.                            *)
AdoptPlan(answer) ==
  /\ Running
  /\ planned = NoPlan
  /\ Store(Advance(PlanOf(Extracted(answer))))
  /\ currentPlan' = Extracted(answer)
  /\ UNCHANGED <<structured, planMode, planStatus, planRuns, worked>>

(* The answer of a run in plan mode, once; parse_implementation_plan drops  *)
(* no step, and the plan replaces any there is.                             *)
StructurePlan(answer) ==
  /\ Running
  /\ planMode = "plan"
  /\ ~structured
  /\ Store(Advance(PlanOf(answer)))
  /\ currentPlan' = answer
  /\ structured' = TRUE
  /\ UNCHANGED <<planMode, planStatus, planRuns, worked>>

(* A tool call without an error, or a check that passed.                    *)
RecordProgress ==
  /\ Running
  /\ Current(planned) # 0
  /\ Store(Progress(planned))
  /\ worked' = worked \cup {TaskAt(planned, p).step : p \in
                 {q \in Places(planned) : /\ TaskAt(planned, q).status # "completed"
                                          /\ TaskAt(planned', q).status = "completed"}}
  /\ UNCHANGED <<currentPlan, structured, planMode, planStatus, planRuns>>

(* finish_task_run and abort_with_task_run.                                 *)
EndPlanRun(status) ==
  /\ Running
  /\ Store(Finished(planned, status))
  /\ planStatus' = status
  /\ UNCHANGED <<currentPlan, structured, planMode, planRuns, worked>>

(* fail() and errors returned with `?`: the plan stays as it was saved.     *)
FailPlanRun ==
  /\ Running
  /\ planStatus' = "interrupted"
  /\ UNCHANGED <<planned, currentPlan, structured, milestone, planMode, planRuns, worked>>

PlanNext ==
  \/ \E mode \in {"code", "plan"}, resume \in BOOLEAN : BeginPlanRun(mode, resume)
  \/ \E answer \in Answers : RevisePlan(answer) \/ AdoptPlan(answer) \/ StructurePlan(answer)
  \/ RecordProgress
  \/ \E status \in EndStatuses : EndPlanRun(status)
  \/ FailPlanRun

PlanSpec == PlanInit /\ [][PlanNext]_planVars

----------------------------------------------------------------------------
(* The milestone the goal names, which clients and prompts show, is the one *)
(* the plan is at, whatever was adopted, revised, completed or resumed.     *)
MilestoneInSync == milestone = Current(planned)

(* A plan is worked off in order: what lies behind the current milestone is *)
(* untouched, over any number of interrupted, blocked and resumed runs.     *)
WorkedInOrder ==
  Current(planned) # 0 =>
    \A m \in {n \in DOMAIN planned.milestones : n > Current(planned)} :
      /\ planned.milestones[m].status = "pending"
      /\ FirstWithout(planned.milestones[m].tasks, "pending") = 0

(* A milestone is not closed over a step that nobody began.  Over one that  *)
(* was begun and left blocked or in progress it may be (ResumesWhereItStood)*)
NoStepForgotten ==
  \A m \in DOMAIN planned.milestones :
    planned.milestones[m].status = "completed" => FirstWith(planned.milestones[m].tasks, "pending") = 0

(* A step that is completed, wherever the plan has it, stays so in every    *)
(* later version of the plan that has it, until the task is replaced or a   *)
(* plan-mode answer, which may name a step twice, starts the plan anew.     *)
AllCompleted(plan, step) ==
  \A p \in Places(plan) : TaskAt(plan, p).step = step => TaskAt(plan, p).status = "completed"
CompletedStepsKept ==
  [][ (structured' = structured /\ worked \subseteq worked') =>
        \A step \in CompletedSteps(planned) : AllCompleted(planned, step) => AllCompleted(planned', step) ]_planVars

\* Over progress, revisions and resumptions the plan is worked in order, no step
\* is passed over that nobody began, and none that was completed is lost
\* (advance_execution_plan, revise_execution_plan).
PlanIsFollowed == [](MilestoneInSync /\ WorkedInOrder /\ NoStepForgotten) /\ CompletedStepsKept

\* "The model can resume from the next incomplete step": but a step left blocked
\* by the run before is passed over for the first that is pending, and its
\* milestone may be completed without it (advance_execution_plan).
ResumesWhereItStood ==
  Running /\ Current(planned) # 0 =>
    LET tasks == planned.milestones[Current(planned)].tasks
        next == FirstWithout(tasks, "completed")
    IN next # 0 => tasks[next].status = "in_progress"
=============================================================================
