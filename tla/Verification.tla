---------------------------- MODULE Verification ----------------------------
(***************************************************************************)
(* harness-verification: the plan of checks for the files a task changed,  *)
(* its narrowing to a package or to related tests, and the verifier that   *)
(* runs it.  A command is [program, args], args a set of <<flag, value>>.  *)
(***************************************************************************)
EXTENDS Integers, Sequences, FiniteSets, SequencesExt, FiniteSetsExt

CONSTANTS SourceFiles,  \* records, see Narrowing
          Workspaces,   \* records [discovered, instructed, saysTest, targeted, configured, git]
          MaxChanged,   \* bound: changed files
          OutputLimit,  \* max_output_bytes
          MaxPrinted    \* bound: what a command prints to a stream

ASSUME OutputAssumption == OutputLimit \in Nat /\ OutputLimit >= 2 /\ {MaxChanged, MaxPrinted} \subseteq Nat
\* Other keys of the configuration's table of commands are never looked up.
ASSUME WorkspaceAssumption ==
  /\ \A w \in Workspaces : w.git \in BOOLEAN /\ w.saysTest \in BOOLEAN /\ w.configured \subseteq {"format", "typecheck", "lint", "build", "test"}
  /\ \A f \in SourceFiles : f.package # "start" /\ f.integration \in BOOLEAN /\ f.goTests \in BOOLEAN

VARIABLES check,     \* [workspace, changed, plan, at, verdict]
          reports,   \* the reports of the steps run
          halted    \* the run's token
checkVars == <<check, reports, halted>>

Missing == "absent"
Full(program) == [program |-> program, args |-> {}]
NoTarget == [package |-> Missing, test |-> Missing]
PlanStep(category, command) == [category |-> category, command |-> command]
GitDiff == PlanStep("diff", [program |-> "git", args |-> {<<"diff", "--no-ext-diff">>}])

(***************************************************************************)
(* Narrowing.  A file has the package of the nearest manifest above it,    *)
(* the target changed_test_target reads off a path .../tests/<target>.rs,  *)
(* whether that is an integration test of the package, its directory and   *)
(* whether that has Go tests, the nearest package.json with a test script, *)
(* and the test files related to it that exist.                            *)
(***************************************************************************)
\* Mutant: a file outside every package is passed over.
JoinPackaged(found, f) ==
  IF f.package = Missing THEN found
  ELSE IF found.package \in {"start", f.package} THEN [package |-> f.package, test |-> Missing] ELSE NoTarget
JoinTarget(found, f) ==
  IF found = NoTarget \/ f.package = Missing THEN NoTarget
  ELSE IF found.package = "start" THEN [package |-> f.package, test |-> f.target]
  ELSE IF found.package # f.package THEN NoTarget
  ELSE IF found.test # f.target THEN [found EXCEPT !.test = Missing] ELSE found
CargoTarget(changed) ==
  LET found[n \in 0 .. Len(changed)] ==
        IF n = 0 THEN [package |-> "start", test |-> Missing] ELSE JoinTarget(found[n - 1], changed[n])
  IN found[Len(changed)]

CargoFlags(target) == {<<"--package", target.package>>}
NarrowCargoCommand(command, changed) ==
  IF command.program = "cargo" /\ changed # <<>> /\ CargoTarget(changed) # NoTarget
  THEN [command EXCEPT !.args = CargoFlags(CargoTarget(changed))] ELSE command

GoTarget(changed) == IF \A i \in DOMAIN changed : changed[i].goTests THEN {changed[i].directory : i \in DOMAIN changed} ELSE {}
NodePackage(changed) == LET packages == {changed[i].node : i \in DOMAIN changed}
                       IN IF Cardinality(packages) = 1 THEN packages \ {Missing} ELSE {}
RelatedTestPaths(changed) == UNION {changed[i].tests : i \in DOMAIN changed}

\* What a test command is narrowed to; itself when nothing safe can be inferred.  Of Cargo, Go and the
\* package managers only a command whose arguments say "test" (or "run") is.
TargetTestCommand(command, changed, saysTest) ==
  LET cargo == CargoTarget(changed)
      directories == GoTarget(changed)
      related == {<<"file", t>> : t \in RelatedTestPaths(changed)}
      With(args) == [command EXCEPT !.args = args]
  IN CASE changed = <<>> -> command
       [] changed # <<>> /\ command.program = "cargo" /\ saysTest /\ cargo # NoTarget ->
            With(CargoFlags(cargo) \cup IF cargo.test = Missing THEN {} ELSE {<<"--test", cargo.test>>})
       [] changed # <<>> /\ command.program = "go" /\ saysTest /\ Cardinality(directories) = 1 -> With({<<"dir", d>> : d \in directories})
       [] changed # <<>> /\ command.program = "pytest" /\ related # {} -> With(related)
       [] changed # <<>> /\ command.program = "npm" /\ saysTest /\ (NodePackage(changed) # {} \/ related # {}) ->
            With({<<"prefix", d>> : d \in NodePackage(changed)} \cup related)
       [] OTHER -> command

\* The instructed command names {changed_file}, the first, or gets all of them.
SubstituteChangedFiles(command, changed, which) ==
  [command EXCEPT !.args = {<<"file", changed[i].name>> : i \in IF which = "first" THEN {1} \cap DOMAIN changed ELSE DOMAIN changed}]

(***************************************************************************)
(* The plan: what .agent's configuration sets, else what the repository's  *)
(* instructions say, else what was discovered.                             *)
(***************************************************************************)
SelectCommands(key, w) == IF key \in w.configured \/ w.instructed[key] = Missing THEN w.discovered[key] ELSE w.instructed[key]
AddStep(category, program) == IF program = Missing THEN <<>> ELSE <<PlanStep(category, Full(program))>>

InstructedTests(w) == w.targeted # Missing /\ "test" \notin w.configured

Selected(key, w) == AddStep(key, SelectCommands(key, w))
TestsOf(w) == IF InstructedTests(w) THEN <<PlanStep("targeted", Full("instructed"))>> ELSE Selected("test", w)

AllSteps(w) ==
  Selected("format", w) \o Selected("typecheck", w) \o Selected("lint", w) \o Selected("build", w)
  \o TestsOf(w) \o (IF w.git THEN <<GitDiff>> ELSE <<>>)

NarrowStep(step, w, changed) ==
  CASE step.category = "targeted" -> [step EXCEPT !.command = SubstituteChangedFiles(@, changed, w.targeted)]
    [] step.category = "test" -> LET command == TargetTestCommand(step.command, changed, w.saysTest)
                                 IN PlanStep(IF command = step.command THEN "test" ELSE "targeted", command)
    [] OTHER -> [step EXCEPT !.command = NarrowCargoCommand(@, changed)]

\* The stable sort by category_priority.
InCategory(steps, category) ==
  LET picked[n \in 0 .. Len(steps)] ==
        IF n = 0 THEN <<>> ELSE picked[n - 1] \o IF steps[n].category = category THEN <<steps[n]>> ELSE <<>>
  IN picked[Len(steps)]
SortedByPriority(steps) ==
  InCategory(steps, "format") \o InCategory(steps, "targeted") \o InCategory(steps, "typecheck")
  \o InCategory(steps, "lint") \o InCategory(steps, "build") \o InCategory(steps, "test") \o InCategory(steps, "diff")

AfterChanges(steps, w, changed) ==
  LET narrowed == [i \in DOMAIN steps |-> NarrowStep(steps[i], w, changed)]
      missing == w.git /\ \A i \in DOMAIN steps : steps[i].category # "diff"
  IN SortedByPriority(IF missing THEN Append(narrowed, GitDiff) ELSE narrowed)

Changes == UNION {{s \in [1 .. n -> SourceFiles] : IsInjective(s)} : n \in 1 .. MaxChanged}

CheckInit == /\ \E w \in Workspaces, changed \in Changes :
                  check = [workspace |-> w, changed |-> changed, at |-> 1, verdict |-> "running",
                           plan |-> AfterChanges(AllSteps(w), w, changed)]
             /\ reports = <<>> /\ halted = FALSE

(***************************************************************************)
(* The verifier.  Lengths are in units of a line: each stream has a header *)
(* line, and the notice of a cut is one line too.                          *)
(***************************************************************************)
Capture(printed) == {c \in [{"out", "err"} -> 0 .. MaxPrinted] :
                       /\ c["out"] <= printed["out"] /\ c["err"] <= printed["err"]
                       /\ c["out"] + c["err"] = Min({printed["out"] + printed["err"], OutputLimit})}
Header(n) == IF n = 0 THEN 0 ELSE n + 1

CombinedLength(captured) == Header(captured["out"]) + Header(captured["err"])
\* combine_output, and bounded_string when a status is added.
Combined(captured, timedOut) ==
  LET length == CombinedLength(captured)
      cut == length > OutputLimit
      shown == IF cut THEN OutputLimit ELSE length
  IN IF timedOut /\ shown + 1 > OutputLimit THEN [length |-> OutputLimit, cut |-> TRUE]
     ELSE [length |-> shown + IF timedOut THEN 1 ELSE 0, cut |-> cut]

\* failure_origin: named is what the output names.
Origin(passed, named, changed) ==
  IF passed THEN "none" ELSE IF named \cap {changed[i].name : i \in DOMAIN changed} # {} THEN "introduced"
  ELSE IF named # {} THEN "unrelated" ELSE "unknown"

CheckEnds(verdict) == check' = [check EXCEPT !.verdict = verdict]

\* The end of the plan, or the token seen before a step.
StepStarts == /\ check.verdict = "running" /\ UNCHANGED halted
              /\ \/ check.at > Len(check.plan) /\ CheckEnds("reported") /\ UNCHANGED reports
                 \/ check.at <= Len(check.plan) /\ halted /\ CheckEnds("cancelled") /\ reports' = <<>>

CancelledMeanwhile == halted

\* The command runs; a failing one is the last.  A cancelled run gives no reports.
RunStep(printed, code, named) ==
  /\ check.verdict = "running" /\ check.at <= Len(check.plan)
  /\ \/ CancelledMeanwhile /\ CheckEnds("cancelled") /\ reports' = <<>>
     \/ /\ ~CancelledMeanwhile
        /\ \E captured \in Capture(printed) :
             LET output == Combined(captured, code = "timed out")
                 passed == code = "zero" /\ ~halted
             IN /\ reports' = Append(reports, [step |-> check.plan[check.at], passed |-> passed, killed |-> halted, output |-> output,
                                               lost |-> captured # printed, origin |-> Origin(passed, named, check.changed)])
                /\ check' = [check EXCEPT !.at = @ + 1, !.verdict = IF passed THEN "running" ELSE "reported"]
  /\ UNCHANGED halted

CancelCheck == ~halted /\ check.verdict = "running" /\ halted' = TRUE /\ UNCHANGED <<check, reports>>

Codes == {"zero", "failed", "timed out"}
CheckNext == \/ StepStarts \/ CancelCheck
             \/ \E printed \in [{"out", "err"} -> 0 .. MaxPrinted], code \in Codes, named \in {{}, {"x"}} : RunStep(printed, code, named)
CheckSpec == CheckInit /\ [][CheckNext]_checkVars

(***************************************************************************)
(* Properties.                                                             *)
(***************************************************************************)
Has(command, flag) == \E a \in command.args : a[1] = flag
\* Does a Cargo or Go command run the tests of this file?
Exercises(command, f) ==
  /\ Has(command, "--package") => <<"--package", f.package>> \in command.args
  /\ Has(command, "--test") => <<"--test", f.target>> \in command.args /\ f.integration
  /\ Has(command, "dir") => <<"dir", f.directory>> \in command.args /\ f.goTests
TestSteps == {i \in DOMAIN check.plan : check.plan[i].category \in {"targeted", "test"}}
ChangedFiles == Range(check.changed)

\* A narrowed Cargo or Go test command still runs the tests of every changed file, whatever mix of
\* packages, integration tests and sources they are; left out are the files of a directory tests that
\* is not the package's own, for src/tests/x.rs is taken for an integration test.  Of pytest and the
\* package managers, which get the related test files, nothing is said.
NarrowingIsSafe ==
  \A i \in TestSteps : check.plan[i].command.program \in {"cargo", "go"} =>
     \A f \in ChangedFiles : (f.target # Missing => f.integration) => Exercises(check.plan[i].command, f)

\* The order in which the files were changed does not decide what is checked, unless the
\* instructions ask for the first.
OrderDoesNotMatter ==
  (check.at = 1 /\ check.workspace.targeted # "first") => AfterChanges(AllSteps(check.workspace), check.workspace, Reverse(check.changed)) = check.plan

\* What the user configured for a category is run, whatever the repository's instructions say,
\* and the diff is inspected once, at the end.
ConfiguredRuns ==
  LET w == check.workspace
      programs(keys) == {check.plan[i].command.program : i \in {j \in DOMAIN check.plan : check.plan[j].category \in keys}}
  IN /\ \A key \in w.configured : w.discovered[key] # Missing =>
          w.discovered[key] \in programs(IF key = "test" THEN {"test", "targeted"} ELSE {key})
     /\ w.git => Last(check.plan) = GitDiff /\ \A i \in 1 .. Len(check.plan) - 1 : check.plan[i] # GitDiff

\* The reports are a beginning of the plan in which only the last may have failed; if none failed
\* the whole plan was run; and a cancelled check is never reported as one that failed.
ReportsCoverPlan ==
  /\ \A i \in DOMAIN reports : reports[i].step = check.plan[i] /\ (i < Len(reports) => reports[i].passed)
  /\ (check.verdict = "reported" /\ \A i \in DOMAIN reports : reports[i].passed) => Len(reports) = Len(check.plan)
  /\ \A i \in DOMAIN reports : ~reports[i].killed

\* Output that was lost, in the process runner's cap or in the report's, is announced in the report,
\* and the report keeps to the limit.
LossIsAnnounced == \A i \in DOMAIN reports : /\ reports[i].lost => reports[i].output.cut
                                             /\ reports[i].output.length <= OutputLimit

\* What Cargo and Go are narrowed to covers what was changed, but for the files NarrowingIsSafe
\* leaves out; the reports say what was run and what of its output is missing (after_changes,
\* verify_with_cancellation).
VerificationIsHonest == OrderDoesNotMatter /\ NarrowingIsSafe /\ ConfiguredRuns /\ ReportsCoverPlan /\ LossIsAnnounced
=============================================================================
