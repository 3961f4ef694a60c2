----------------------------- MODULE AgentLoop ------------------------------
(***************************************************************************)
(* The runs of one session: AgentRunner::run and what it calls             *)
(* (crates/harness-agent/src/lib.rs).                                      *)
(*                                                                         *)
(* A run asks the model for a turn, executes the tool calls it returns one *)
(* by one, runs the repository's checks after every edit, and, when the    *)
(* model calls no tool, decides whether the task is done.  Failures are    *)
(* kept under keys (unresolved_error_keys, local to the run); their texts  *)
(* are copied to TaskRun::unresolved_errors, which update_task_run         *)
(* persists.  A text starts with its key when the run writes it; a resumed *)
(* run splits that key off, so the text it stores again is bare.           *)
(*                                                                         *)
(* A TaskRun is reduced to what the completion gate reads.  A tool call    *)
(* stands for one tool with one set of arguments: "check" is a shell       *)
(* command is_validation_command accepts, "diffcheck" one that also        *)
(* contains git diff.  Tokens, time and cost are not counted: check_limits *)
(* may stop a run at any check because of them.                            *)
(***************************************************************************)
EXTENDS Naturals, Sequences

CONSTANTS
    Calls,               \* the tool calls the model makes
    Modes,               \* task modes: "code", and "plan" for the read-only ones
    Git,                 \* the workspace is a Git repository
    Verifier,            \* a verifier is configured
    HasChecks,           \* the repository has checks besides the diff
    Hooks,               \* hooks.toml has hooks that may fail and block
    AbruptErrors,        \* run() may return an error with `?`, or its process die
    MaxTurns,            \* AgentLimits::max_turns
    MaxToolCalls,        \* AgentLimits::max_tool_calls
    MaxRepeatedCalls,    \* AgentLimits::max_repeated_tool_calls
    MaxRepeatedFailures, \* AgentLimits::max_repeated_failures
    ResultsFull,         \* the task has the 200 results push_bounded keeps
    MaxBatch,            \* bound: tool calls of one response
    MaxRuns              \* bound: runs of the session

ASSUME ShapeAssumption ==
    /\ Calls \subseteq {"read", "edit", "check", "diffcheck"}
    /\ Modes \subseteq {"code", "plan"}
    /\ {Git, Verifier, HasChecks, Hooks, AbruptErrors,
        ResultsFull} \subseteq BOOLEAN
ASSUME LimitsAssumption ==
    /\ {MaxTurns, MaxToolCalls, MaxBatch, MaxRuns} \subseteq Nat
    /\ {MaxRepeatedCalls, MaxRepeatedFailures} \subseteq Nat \ {0}

ToolKey == [c \in Calls |-> CASE c = "read" -> "tool_read"
                              [] c = "edit" -> "tool_edit"
                              [] OTHER -> "tool_shell"]
ToolKeys == {"tool_read", "tool_edit", "tool_shell"}
CheckKeys == {"check", "diffcheck", "auto", "gitdiff", "diagnostics", "runner"}
GateKeys == {"final_diff", "after_edit"}
VerificationKeys == CheckKeys \cup GateKeys
Keys == ToolKeys \cup VerificationKeys \cup {"guard", "provider", "hook"}
Errors == [key : Keys, tagged : BOOLEAN]
Matters == Keys \cup {"diff"}

Statuses == {"in_progress", "done", "blocked", "user_input", "limit", "cancelled"}
TaskRuns == [errors : SUBSET Errors, changed : BOOLEAN, inspected : BOOLEAN,
             status : Statuses, mode : {"code", "plan"}, plan : BOOLEAN]
NewTask == [errors |-> {}, changed |-> FALSE, inspected |-> FALSE,
            status |-> "in_progress", mode |-> "code", plan |-> FALSE]

VARIABLES
    phase,       \* where run() is; "idle" between runs
    runs,        \* runs started
    interrupted,   \* the run's token
    taskRun,     \* task_run
    saved,       \* the TaskRun of the last task.run.updated event
    keyed,       \* unresolved_error_keys
    validated,   \* validation_since_last_edit
    edited,      \* the call being handled changed a file
    turns, toolCalls, left,
    stalls,      \* no_progress_final_responses
    repeated,    \* repeated_tool_calls
    failures,    \* repeated_failures
    outcome,     \* what the last run returned, "running" during a run
    closed,      \* the session's last event is session.completed or .failed
    owed,        \* history: failures of the task that nothing resolved
    shown,       \* history: the diff of the last edit was shown to the model
    lost         \* history: what an earlier run knew and no later run can know

counters == <<turns, toolCalls, left, stalls, repeated, failures>>
result == <<outcome, closed>>
history == <<owed, shown, lost>>
loopVars == <<phase, runs, interrupted, taskRun, saved, keyed, validated, edited,
          counters, result, history>>

LoopInit ==
    /\ phase = "idle" /\ runs = 0 /\ interrupted = FALSE
    /\ taskRun = NewTask /\ saved = NewTask
    /\ keyed = {} /\ validated = TRUE /\ edited = FALSE
    /\ turns = 0 /\ toolCalls = 0 /\ left = 0 /\ stalls = 0
    /\ repeated = [c \in Calls |-> 0]
    /\ failures = [k \in Keys |-> 0]
    /\ outcome = "none" /\ closed = FALSE
    /\ owed = {} /\ shown = TRUE /\ lost = {}

-----------------------------------------------------------------------------
(* The map from keys to texts.                                             *)
KeysOf(errors) == {e.key : e \in errors}
Without(errors, ks) == {e \in errors : e.key \notin ks}
Tagged(ks) == [key : ks, tagged : {TRUE}]

Insert(errors, ks) == Without(errors, ks) \cup Tagged(ks)

(* What a resumed run reads back: the key is split off the text, and a     *)
(* text without a key is left out of the map.                              *)
LoadKeys(errors) == {[key |-> e.key, tagged |-> FALSE] : e \in {x \in errors : x.tagged}}

(* What a task still has to do, and how much of it a stored task tells the *)
(* next run: the failures it lists, and the diff to look at by its change  *)
(* or by the error of the edit that made it.                               *)
Outstanding == owed \cup (IF shown THEN {} ELSE {"diff"})
DiffIsCarried(task) ==
    (task.changed /\ ~task.inspected) \/ "tool_edit" \in KeysOf(task.errors)
CarriedBy(task) ==
    KeysOf(task.errors) \cup (IF DiffIsCarried(task) THEN {"diff"} ELSE {})

(* History of a step: resolved is settled and failed newly owed; the step  *)
(* changed a file or not, and showed the diff or not.                      *)
Record(resolved, failed, changes, seen) ==
    /\ owed' = (owed \ resolved) \cup failed
    /\ shown' = (seen \/ (shown /\ ~changes))
    /\ lost' = (lost \ (resolved \cup failed))
                 \ (IF seen \/ changes THEN {"diff"} ELSE {})

(* How a run ends.  Locals are reset because nothing reads them again.     *)
Leave ==
    /\ phase' = "idle" /\ interrupted' = FALSE
    /\ taskRun' = saved'
    /\ keyed' = {} /\ validated' = TRUE /\ edited' = FALSE
    /\ turns' = 0 /\ toolCalls' = 0 /\ left' = 0 /\ stalls' = 0
    /\ repeated' = [c \in Calls |-> 0]
    /\ failures' = [k \in Keys |-> 0]
    /\ UNCHANGED runs

(* finish_task_run: a blocking SessionEnd hook turns the task to blocked.  *)
(* The process may end with the task stored and the session open.          *)
Finish(task) ==
    /\ \/ saved' = task
       \/ /\ Hooks /\ task.mode = "code"
          /\ saved' = [task EXCEPT !.status = "blocked",
                           !.errors = @ \cup {[key |-> "hook", tagged |-> FALSE]}]
    /\ \/ outcome' = saved'.status /\ closed' = TRUE
       \/ AbruptErrors /\ outcome' = "dead" /\ UNCHANGED closed
    /\ Leave

FinishBlocked(task) == Finish([task EXCEPT !.status = "blocked"])

(* Mutation: a run that stops leaves the task as the head of the loop      *)
(* stored it.                                                              *)
AbortUnsaved(task, status) ==
    /\ saved' = [saved EXCEPT !.status = status]
    /\ outcome' = "error" /\ closed' = TRUE
    /\ Leave

(* abort_with_task_run saves the task and fails; fail only closes.         *)
Abort(task, status) ==
    /\ saved' = [task EXCEPT !.status = status]
    /\ outcome' = "error" /\ closed' = TRUE
    /\ Leave

Fail == saved' = saved /\ outcome' = "error" /\ closed' = TRUE /\ Leave

(* The run ends at once, with an error returned with `?` or with its       *)
(* process: the session stays open, and what the stored task does not tell *)
(* is lost.                                                                *)
StopAt(task, how) ==
    /\ AbruptErrors
    /\ saved' = task /\ outcome' = how /\ UNCHANGED closed
    /\ lost' = Outstanding' \ CarriedBy(task)
    /\ Leave

-----------------------------------------------------------------------------
(* run() up to its loop.  Every run but the first resumes the session; a   *)
(* done task is replaced by a new one, unless it is a plan to carry out.   *)
Replaced(m) ==
    saved.status = "done" /\ ~(m = "code" /\ saved.mode = "plan" /\ saved.plan)

(* A text without its key is all that told of these: the run loses them.   *)
ToldByBareTexts(task) ==
    CarriedBy(task) \ CarriedBy([task EXCEPT !.errors = {e \in @ : e.tagged}])

EnterRun(m) ==
    /\ phase = "idle" /\ runs < MaxRuns
    /\ runs' = runs + 1
    /\ LET task == IF Replaced(m) THEN NewTask ELSE saved
           open == {e \in task.errors : ~(e.tagged /\ e.key = "guard")}
       IN /\ taskRun' = [task EXCEPT !.status = "in_progress", !.mode = m,
                                     !.errors = open]
          /\ keyed' = LoadKeys(open)
          /\ validated' = (m # "code" \/ ~task.changed)
    /\ saved' = taskRun'
    /\ phase' = "head"
    /\ outcome' = "running" /\ closed' = FALSE
    /\ owed' = IF Replaced(m) THEN {} ELSE owed
    /\ shown' = (Replaced(m) \/ shown)
    /\ lost' = IF Replaced(m) THEN {} ELSE lost \cup ToldByBareTexts(saved)
    /\ UNCHANGED <<interrupted, edited, counters>>

(* agent.cancel, a dropped client or Ctrl-C, while the run works.          *)
Cancel ==
    /\ phase # "idle" /\ ~interrupted
    /\ interrupted' = TRUE
    /\ UNCHANGED <<phase, runs, taskRun, saved, keyed, validated, edited,
                   counters, result, history>>

(* check_limits, at the head of the loop and after every response.         *)
CheckLimitsFails ==
    /\ phase \in {"head", "response"}
    /\ Abort(taskRun, IF interrupted THEN "cancelled" ELSE "limit")
    /\ UNCHANGED history

WithinLimits ==
    ~interrupted /\ turns <= MaxTurns /\ toolCalls <= MaxToolCalls

LoopHead ==
    /\ phase = "head" /\ WithinLimits
    /\ turns' = turns + 1
    /\ saved' = taskRun
    /\ phase' = "model"
    /\ UNCHANGED <<runs, interrupted, taskRun, keyed, validated, edited, toolCalls,
                   left, stalls, repeated, failures, result, history>>

(* A blocking hook, or the context builder, refuses the turn.              *)
ContextFails == phase = "model" /\ Fail /\ UNCHANGED history

(* compact_context: the strategy or one of its hooks returns an error.     *)
CompactionFails ==
    phase = "model" /\ UNCHANGED <<owed, shown>> /\ StopAt(saved, "error")

(* The process ends; so does a run that cannot append an event, whatever   *)
(* it does.                                                                *)
ProcessEnds ==
    phase # "idle" /\ UNCHANGED <<owed, shown>> /\ StopAt(saved, "dead")

(* Mutation: a failed request is repeated and does not count as a turn.    *)
ModelFailsRetried ==
    /\ phase = "model"
    /\ phase' = "head" /\ turns' = turns - 1
    /\ UNCHANGED <<runs, interrupted, taskRun, saved, keyed, validated, edited,
                   toolCalls, left, stalls, repeated, failures, result, history>>

ModelFails ==
    /\ phase = "model"
    /\ \/ interrupted /\ Abort(taskRun, "cancelled")
       \/ /\ ~interrupted
          /\ Abort([taskRun EXCEPT !.errors = @ \cup Tagged({"provider"})], "blocked")
    /\ UNCHANGED history

(* The model answers with n tool calls; an earlier provider error is over. *)
ModelResponds(n) ==
    /\ phase = "model"
    /\ keyed' = Without(keyed, {"provider"})
    /\ taskRun' = IF keyed' = keyed THEN taskRun
                  ELSE [taskRun EXCEPT !.errors = keyed']
    /\ left' = n
    /\ phase' = "response"
    /\ UNCHANGED <<runs, interrupted, saved, validated, edited, turns, toolCalls,
                   stalls, repeated, failures, result, history>>

UseResponse ==
    /\ phase = "response" /\ WithinLimits
    /\ left > 0 => turns < MaxTurns
    /\ phase' = IF left > 0 THEN "calls" ELSE "final"
    /\ UNCHANGED <<runs, interrupted, taskRun, saved, keyed, validated, edited,
                   counters, result, history>>

-----------------------------------------------------------------------------
(* The tool calls of a response.                                           *)
EndOfCalls ==
    /\ phase = "calls" /\ left = 0
    /\ phase' = "head"
    /\ UNCHANGED <<runs, interrupted, taskRun, saved, keyed, validated, edited,
                   counters, result, history>>

CallStopped ==
    /\ phase = "calls" /\ left > 0
    /\ \/ interrupted /\ Abort(taskRun, "cancelled")
       \/ ~interrupted /\ toolCalls >= MaxToolCalls /\ Abort(taskRun, "limit")
    /\ UNCHANGED history

CallAdmitted == phase = "calls" /\ left > 0 /\ ~interrupted /\ toolCalls < MaxToolCalls

(* The guard against repeated identical calls.                             *)
CallRepeated(c) ==
    /\ CallAdmitted /\ repeated[c] >= MaxRepeatedCalls
    /\ FinishBlocked([taskRun EXCEPT !.errors = Insert(keyed, {"guard"})])
    /\ UNCHANGED history

AllowedInMode(c) == taskRun.mode = "code" \/ c = "read"

CountCall(c) ==
    /\ CallAdmitted /\ repeated[c] < MaxRepeatedCalls
    /\ toolCalls' = toolCalls + 1
    /\ repeated' = [repeated EXCEPT ![c] = @ + 1]

(* The task mode denies the call: the model is told, nothing is executed,  *)
(* and a validation command counts as one that failed.                     *)
CallDenied(c) ==
    LET check == {c} \cap {"check", "diffcheck"}
    IN /\ CountCall(c) /\ ~AllowedInMode(c)
       /\ saved' = taskRun
       /\ keyed' = Insert(keyed, check)
       /\ validated' = (validated /\ check = {})
       /\ edited' = FALSE
       /\ phase' = "verify"
       /\ Record({}, check, FALSE, FALSE)
       /\ UNCHANGED <<runs, interrupted, taskRun, turns, left, stalls, failures,
                      result>>

(* execute_tool_with_hooks returns an error: approval or policy denied it, *)
(* or a blocking hook before the tool failed.                              *)
CallRefused(c) ==
    /\ CallAdmitted /\ repeated[c] < MaxRepeatedCalls /\ AllowedInMode(c)
    /\ Abort([taskRun EXCEPT !.errors = Insert(keyed, {ToolKey[c]})], "blocked")
    /\ Record({}, {ToolKey[c]}, FALSE, FALSE)

(* repeated_failures: a failure with the text of an earlier one counts.    *)
Recurs(k, same) ==
    IF same THEN failures[k] + 1 >= MaxRepeatedFailures ELSE MaxRepeatedFailures = 1

(* The call returns an error result.  When the hook after the tool failed, *)
(* an edit has changed its file all the same.                              *)
Changes(c, ok, hookFailed) == c = "edit" /\ (ok \/ hookFailed)

CallBlocks(c, same, hookFailed) ==
    /\ CallAdmitted /\ repeated[c] < MaxRepeatedCalls /\ AllowedInMode(c)
    /\ hookFailed => Hooks /\ c = "edit"
    /\ Recurs(ToolKey[c], same)
    /\ FinishBlocked([taskRun EXCEPT !.errors = Insert(keyed, {ToolKey[c]})])
    /\ Record({}, {ToolKey[c]}, Changes(c, FALSE, hookFailed), FALSE)

(* What the rest of the loop body does with a result: the shell's own      *)
(* checks, the quick diagnostics of an edit, and its complete diff, which  *)
(* stands for the final diff where the runtime cannot take one.            *)
Checked(c, ok, diagnostics) ==
    [pass |-> (IF ok THEN {c} \cap {"check", "diffcheck"} ELSE {})
                \cup (IF diagnostics = "pass" THEN {"diagnostics"} ELSE {}),
     fail |-> (IF ok THEN {} ELSE {c} \cap {"check", "diffcheck"})
                \cup (IF diagnostics = "fail" THEN {"diagnostics"} ELSE {})]

DiffOfEdit(changes, complete) == changes /\ complete /\ (~Git \/ ~Verifier)

(* Mutation: a success clears the errors of every tool.                    *)
CallKeysAnyTool(c, ok, diagnostics, diff) ==
    LET checked == Checked(c, ok, diagnostics)
        tool == IF ok THEN Without(keyed, ToolKeys) ELSE Insert(keyed, {ToolKey[c]})
    IN Insert(Without(tool, checked.pass), checked.fail)

CallKeys(c, ok, diagnostics, diff) ==
    LET checked == Checked(c, ok, diagnostics)
        tool == IF ok THEN Without(keyed, {ToolKey[c]})
                ELSE Insert(keyed, {ToolKey[c]})
        passed == checked.pass
                    \cup (IF checked.pass # {} THEN {"after_edit"} ELSE {})
                    \cup (IF diff THEN {"final_diff"} ELSE {})
                    \cup (IF diff /\ ~(Verifier /\ HasChecks) THEN {"after_edit"} ELSE {})
    IN Insert(Without(tool, passed), checked.fail)

CallTask(c, ok, changes, diff) ==
    [taskRun EXCEPT
       !.changed = @ \/ changes,
       !.inspected = (@ /\ ~(ok /\ changes)) \/ (c = "diffcheck" /\ ok) \/ diff]

CallReturns(c, ok, same, hookFailed, diagnostics, complete) ==
    LET changes == Changes(c, ok, hookFailed)
        diff == DiffOfEdit(changes, complete)
        checked == Checked(c, ok, diagnostics)
    IN /\ CountCall(c) /\ AllowedInMode(c)
       /\ hookFailed => Hooks /\ ~ok /\ c = "edit"
       /\ changes \/ (diagnostics = "none" /\ ~complete)
       /\ ok \/ ~Recurs(ToolKey[c], same)
       /\ failures' = IF ok \/ ~same THEN failures
                      ELSE [failures EXCEPT ![ToolKey[c]] = @ + 1]
       /\ stalls' = IF ok THEN 0 ELSE stalls
       /\ keyed' = CallKeys(c, ok, diagnostics, diff)
       /\ taskRun' = CallTask(c, ok, changes, diff)
       /\ validated' = \/ diff /\ ~(Verifier /\ HasChecks)
                       \/ /\ checked.fail = {}
                          /\ checked.pass # {} \/ (validated /\ ~changes)
       /\ edited' = changes
       /\ phase' = "verify"
       /\ saved' = taskRun
       /\ Record(checked.pass \cup (IF ok THEN {ToolKey[c]} ELSE {}),
                 checked.fail \cup (IF ok THEN {} ELSE {ToolKey[c]}),
                 changes, diff \/ (c = "diffcheck" /\ ok))
       /\ UNCHANGED <<runs, interrupted, turns, left, result>>

(* The edit is done and nothing of it stored: the checkpoint store does    *)
(* not record the changed file, or the process ends in the call.           *)
CheckpointFails ==
    /\ CallAdmitted /\ "edit" \in Calls /\ AllowedInMode("edit")
    /\ repeated["edit"] < MaxRepeatedCalls
    /\ shown' = FALSE
    /\ UNCHANGED owed
    /\ \E how \in {"error", "dead"} : StopAt(taskRun, how)

-----------------------------------------------------------------------------
(* run_verification_if_needed: the repository's checks and then the diff;  *)
(* the verifier stops at the first failure.                                *)
EditSteps == (IF HasChecks THEN <<"auto">> ELSE <<>>)
               \o (IF Git THEN <<"gitdiff">> ELSE <<>>)

Report(step, passed) == [step |-> step, passed |-> passed]

(* Every prefix of the steps that passes up to its last one; a cancelled   *)
(* verification is reported as an error of the runner.                     *)
ReportsOf(steps) ==
    IF interrupted THEN {<<Report("runner", FALSE)>>}
    ELSE {[i \in 1 .. n |-> Report(steps[i], i < n)] : n \in 1 .. Len(steps)}
           \cup {[i \in 1 .. Len(steps) |-> Report(steps[i], TRUE)]}

StepsOf(reports, passed) ==
    {reports[i].step : i \in {j \in DOMAIN reports : reports[j].passed = passed}}
Passed(reports) == StepsOf(reports, TRUE)
Failed(reports) == StepsOf(reports, FALSE)

(* A type check or build that passes also answers the quick diagnostics.   *)
Answered(reports, typed) ==
    Passed(reports)
      \cup (IF typed /\ "auto" \in Passed(reports) THEN {"diagnostics"} ELSE {})

ReportKeys(reports, typed) ==
    Insert(Without(keyed, Answered(reports, typed)), Failed(reports))

(* verification_results[before..]: the results pushed since the list had   *)
(* `before` of them.  push_bounded drops the oldest result of a full list, *)
(* so its length does not grow and the new results are not behind `before`.*)
Visible(reports) == IF ResultsFull THEN <<>> ELSE reports

RecordReports(reports, same, typed) ==
    /\ failures' = [k \in Keys |-> IF k \in Failed(reports) /\ same
                                   THEN failures[k] + 1 ELSE failures[k]]
    /\ Record(Answered(reports, typed), Failed(reports), FALSE,
              "gitdiff" \in Passed(reports))

(* After a call: verification if it changed a file, then the task is saved *)
(* and the run goes on, or stops at a failure that recurred too often.     *)
VerificationNeeded == edited /\ Verifier /\ EditSteps # <<>>

AfterCall(reports, same, typed) ==
    LET seen == Visible(reports)
        inspected == taskRun.inspected \/ "gitdiff" \in Passed(reports)
        good == IF seen # <<>> THEN Failed(seen) = {} ELSE inspected
        keys == Without(ReportKeys(reports, typed),
                        IF good THEN {"after_edit"} ELSE {})
        task == [taskRun EXCEPT !.inspected = inspected, !.errors = keys]
    IN IF \E k \in Failed(reports) : Recurs(k, same)
       THEN /\ FinishBlocked(task)
            /\ Record(Answered(reports, typed), Failed(reports), FALSE,
                      "gitdiff" \in Passed(reports))
       ELSE /\ taskRun' = task /\ saved' = task /\ keyed' = keys
            /\ validated' = (good \/ (seen = <<>> /\ validated))
            /\ stalls' = IF good /\ seen # <<>> THEN 0 ELSE stalls
            /\ RecordReports(reports, same, typed)
            /\ edited' = FALSE
            /\ left' = left - 1
            /\ phase' = "calls"
            /\ UNCHANGED <<runs, interrupted, turns, toolCalls, repeated, result>>

Verify ==
    /\ phase = "verify" /\ VerificationNeeded
    /\ \E reports \in ReportsOf(EditSteps), same, typed \in BOOLEAN :
          AfterCall(reports, same, typed)

NoVerification ==
    phase = "verify" /\ ~VerificationNeeded /\ AfterCall(<<>>, FALSE, FALSE)

DiffNeeded ==
    /\ Git /\ Verifier
    /\ taskRun.mode = "code" /\ taskRun.changed /\ ~taskRun.inspected

(* Policy or the user refuses a verification command.                      *)
VerificationRefused ==
    /\ \/ phase = "verify" /\ VerificationNeeded
       \/ phase = "diff" /\ DiffNeeded
    /\ UNCHANGED <<owed, shown>>
    /\ StopAt(saved, "error")

-----------------------------------------------------------------------------
(* A response without tool calls.                                          *)
FinalUserInput ==
    /\ phase = "final"
    /\ Finish([taskRun EXCEPT !.status = "user_input"])
    /\ UNCHANGED history

FinalBlocked ==
    phase = "final" /\ FinishBlocked(taskRun) /\ UNCHANGED history

(* The model claims completion; it may name failed checks as unrelated.    *)
FinalClaim(unrelated) ==
    /\ phase = "final"
    /\ unrelated \subseteq KeysOf(keyed) \cap VerificationKeys
    /\ keyed' = IF unrelated = {} THEN keyed
                ELSE Without(keyed, unrelated \cup {"after_edit"})
    /\ validated' = (validated \/ unrelated # {})
    /\ LET planned == [taskRun EXCEPT !.plan = @ \/ taskRun.mode = "plan"]
       IN /\ taskRun' = [planned EXCEPT !.errors = keyed']
          /\ saved' = IF taskRun.mode = "plan" THEN planned ELSE saved
    /\ Record(unrelated, {}, FALSE, FALSE)
    /\ phase' = "diff"
    /\ UNCHANGED <<runs, interrupted, edited, counters, result>>

(* The final diff, where the runtime takes it.                             *)
DiffSkipped ==
    /\ phase = "diff" /\ ~DiffNeeded
    /\ phase' = "gate"
    /\ UNCHANGED <<runs, interrupted, taskRun, saved, keyed, validated, edited,
                   counters, result, history>>

InspectDiff ==
    /\ phase = "diff" /\ DiffNeeded
    /\ \E reports \in ReportsOf(<<"gitdiff">>), same \in BOOLEAN :
          /\ keyed' = ReportKeys(reports, FALSE)
          /\ taskRun' = [taskRun EXCEPT
                           !.errors = keyed',
                           !.inspected = "gitdiff" \in Passed(Visible(reports))]
          /\ RecordReports(reports, same, FALSE)
    /\ saved' = taskRun'
    /\ phase' = IF taskRun'.inspected THEN "head" ELSE "gate"
    /\ UNCHANGED <<runs, interrupted, validated, edited, turns, toolCalls, left,
                   stalls, repeated, result>>

GateMissing ==
    IF taskRun.mode = "code" /\ taskRun.changed /\ ~taskRun.inspected
    THEN IF validated THEN {"final_diff"} ELSE GateKeys
    ELSE {}

GateErrors == keyed \cup Tagged(GateMissing \ KeysOf(keyed))

GateRejects ==
    /\ phase = "gate" /\ GateErrors # {}
    /\ IF stalls + 1 >= MaxRepeatedFailures
       THEN FinishBlocked([taskRun EXCEPT !.errors = GateErrors])
       ELSE /\ stalls' = stalls + 1
            /\ keyed' = GateErrors
            /\ taskRun' = [taskRun EXCEPT !.errors = GateErrors]
            /\ saved' = taskRun'
            /\ phase' = "head"
            /\ UNCHANGED <<runs, interrupted, validated, edited, turns, toolCalls,
                           left, repeated, failures, result>>
    /\ UNCHANGED history

GateAccepts ==
    /\ phase = "gate" /\ GateErrors = {}
    /\ Finish([taskRun EXCEPT !.status = "done"])
    /\ UNCHANGED history

-----------------------------------------------------------------------------
Call(c) ==
    \/ CallRepeated(c) \/ CallDenied(c) \/ CallRefused(c)
    \/ \E same, hookFailed \in BOOLEAN : CallBlocks(c, same, hookFailed)
    \/ \E ok, same, hookFailed, complete \in BOOLEAN,
          diagnostics \in {"none", "pass", "fail"} :
          CallReturns(c, ok, same, hookFailed, diagnostics, complete)

Step ==
    \/ CheckLimitsFails \/ LoopHead \/ ContextFails \/ CompactionFails
    \/ ModelFails \/ (\E n \in 0 .. MaxBatch : ModelResponds(n)) \/ UseResponse
    \/ EndOfCalls \/ CallStopped \/ (\E c \in Calls : Call(c)) \/ CheckpointFails
    \/ Verify \/ NoVerification \/ VerificationRefused
    \/ FinalUserInput \/ FinalBlocked
    \/ (\E unrelated \in SUBSET VerificationKeys : FinalClaim(unrelated))
    \/ DiffSkipped \/ InspectDiff \/ GateRejects \/ GateAccepts

LoopNext == (\E m \in Modes : EnterRun(m)) \/ Cancel \/ ProcessEnds \/ Step

LoopSpec == LoopInit /\ [][LoopNext]_loopVars

(* The run's thread is scheduled; the model and the tools return, because  *)
(* requests and commands have timeouts.                                    *)
LoopFairness == WF_loopVars(Step)
LoopFairSpec == LoopSpec /\ LoopFairness

-----------------------------------------------------------------------------
(* Every variable keeps its type, and the map has one text for each key.   *)
LoopTypeOK ==
    /\ phase \in {"idle", "head", "model", "response", "calls", "verify",
                   "final", "diff", "gate"}
    /\ runs \in 0 .. MaxRuns
    /\ {interrupted, validated, edited, closed, shown} \subseteq BOOLEAN
    /\ taskRun \in TaskRuns /\ saved \in TaskRuns
    /\ keyed \subseteq Errors
    /\ \A e, f \in keyed : e.key = f.key => e = f
    /\ turns \in 0 .. MaxTurns + 1
    /\ toolCalls \in 0 .. MaxToolCalls
    /\ left \in 0 .. MaxBatch
    /\ stalls \in 0 .. MaxRepeatedFailures
    /\ repeated \in [Calls -> 0 .. MaxRepeatedCalls]
    /\ failures \in [Keys -> Nat]
    /\ outcome \in Statuses \cup {"none", "running", "error", "dead"}
    /\ owed \subseteq Keys /\ lost \subseteq Matters

(* A task is marked done only when no recorded failure of a tool or check  *)
(* is outstanding: each one was followed by a success of the same tool or  *)
(* check, or the model named that check as unrelated.  README.md:62 says   *)
(* so; a failure carried over two resumptions loses its key.               *)
NoDoneWithOpenErrors == outcome = "done" => owed = {}

(* In a Git workspace the diff of the last edit is shown to the model      *)
(* before the task is completed: README.md:678.  An edit whose checkpoint  *)
(* fails ends the run before the change is stored with the task.           *)
DiffBeforeDone ==
    outcome = "done" /\ saved.mode = "code" /\ Git /\ Verifier => shown

(* A cancelled or failed run still closes its session: README.md:49.  An   *)
(* error returned with `?` appends neither session.completed nor .failed.  *)
SessionClosed == outcome \notin {"none", "running", "dead"} => closed

(* A task stored as done has nothing outstanding, save what was lost.      *)
DoneIsSettled ==
    saved.status = "done" =>
       /\ owed \subseteq lost
       /\ saved.mode = "code" => Outstanding \subseteq lost

(* Between runs the stored task tells the next run all that is             *)
(* outstanding, save what was lost.                                        *)
HandedOn == phase = "idle" => Outstanding \ lost \subseteq CarriedBy(saved)

(* The completion gate over all the runs of a session, however they end:   *)
(* a task is done only when each failure was answered and the diff of the  *)
(* last edit shown, and a run hands on what it leaves to the next one.     *)
(* There are two ways to lose a matter: an abrupt end before it is stored, *)
(* and a text that a resumed run stored without its key.                   *)
GateHolds == LoopTypeOK /\ DoneIsSettled /\ HandedOn

(* Every run comes to an end: no sequence of answers, failures, rejected   *)
(* completions and repairs keeps the loop going for ever.                  *)
RunEnds == phase # "idle" ~> phase = "idle"
=============================================================================
