---------------------------- MODULE MCDecisions ----------------------------
(* The parts whose state nobody else touches, one unit per behaviour; the   *)
(* others stay in one initial state.                                        *)
EXTENDS FileEdits, TextEdits, ToolGate, Verification, MCSettings, Catalog, ExecutionPlan, ContextWindow, RepositoryIndex
VARIABLE unit
allVars == <<unit, editVars, text, gateVars, checkVars, settingsVars, catalogVars, planVars, contextVars, indexVars>>

\* TextEdits: texts of up to four letters and line endings.
Units == {<<"a">>, <<LF>>, <<CR, LF>>}
Words(n) == {FlattenSeq(w) : w \in UNION {[1 .. k -> Units] : k \in 0 .. n}}
MCTexts == Words(4)
MCContexts == Words(2) \ {<<>>}
MCNewTexts == {<<>>, <<"b">>, <<LF>>, <<"b", CR, LF>>, <<"b", LF, "b">>}

\* ToolGate: rules of every kind, alone and in pairs, and calls of every operation.
Req(op, place, command) == [tool |-> op, op |-> op, place |-> place, command |-> command]
Rule(action, priority, ops, modes) ==
  [action |-> action, priority |-> priority, risks |-> Unset, tools |-> NoGlobs, ops |-> ops, modes |-> modes,
   places |-> Unset, commands |-> NoGlobs]
DenyMake == [Rule("deny", 0, Unset, {"auto"}) EXCEPT !.commands = <<{"printenv"}, {"make"}>>]
MCRules == {
  Rule("allow", 1, {"command"}, Unset), [Rule("ask", 2, Unset, Unset) EXCEPT !.tools = <<{"write", "shell"}>>], DenyMake,
  [Rule("allow", 3, Unset, Unset) EXCEPT !.risks = {"network"}, !.tools = <<{"mcp"}, BadGlob>>],
  [Rule("allow", 4, Unset, {"normal"}) EXCEPT !.commands = <<BadGlob, {"make"}>>],
  [Rule("allow", 5, {"write"}, Unset) EXCEPT !.places = {"inside"}] }
TwiceDenied == <<DenyMake, DenyMake>>
MCRuleLists ==
  {<<>>, TwiceDenied} \cup {<<r>> : r \in MCRules}
  \cup {<<r, s>> : r \in {x \in MCRules : x.priority \in {1, 3}}, s \in {x \in MCRules : x.priority \in {0, 2}}}
Shell(c) == [Req("command", "none", c) EXCEPT !.tool = "shell"]
Calling(requests) == [requests |-> requests, touches |-> {r.place : r \in Range(requests)}, hookProtected |-> FALSE]
Renaming(source, destination) ==
  [Calling(<<Req("write", "none", "none"), Req("write", destination, "none")>>) EXCEPT !.touches = {source, destination}]
MCCalls ==
  {Calling(<<r>>) : r \in {Req("read", "inside", "none"), Req("write", "inside", "none"), Req("write", "protected", "none"),
                           Req("mcp", "none", "none")} \cup {Shell(c) : c \in {"status", "make", "push", "curl", "parent"}}}
  \cup {[Calling(<<Req("write", "inside", "none")>>) EXCEPT !.hookProtected = TRUE]}
  \cup {Renaming("inside", place) : place \in {"none", "inside", "protected"}} \cup {Renaming("protected", "inside")}

\* Verification: sources and tests of two packages, and workspaces of every tool.
SourceFile(name, package, target, integration, directory, goTests, node, tests) ==
  [name |-> name, package |-> package, target |-> target, integration |-> integration, directory |-> directory,
   goTests |-> goTests, node |-> node, tests |-> tests]
MCFiles == {
  SourceFile("p/lib", "p", Missing, FALSE, "p", TRUE, "p", {}),
  SourceFile("p/tests/t", "p", "t", TRUE, "p/tests", FALSE, "p", {"p/tests/t"}),
  SourceFile("p/tests/u", "p", "u", TRUE, "p/tests", TRUE, "p", {"p/tests/u"}),
  SourceFile("p/src/tests/m", "p", "m", FALSE, "p/src/tests", FALSE, "p", {"p/src/tests/m"}),
  SourceFile("q/lib", "q", Missing, FALSE, "q", TRUE, "q", {"q/lib.test"}),
  SourceFile("x", Missing, Missing, FALSE, ".", FALSE, Missing, {}) }
CommandKeys == {"format", "typecheck", "lint", "build", "test"}
Only(f) == [k \in CommandKeys |-> IF k \in DOMAIN f THEN f[k] ELSE Missing]
Workspace(discovered, instructed, targeted, configured, git) ==
  [discovered |-> Only(discovered), instructed |-> Only(instructed), saysTest |-> TRUE, targeted |-> targeted, configured |-> configured, git |-> git]
MCWorkspaces == {
  Workspace([lint |-> "cargo", test |-> "cargo"], [lint |-> "make"], Missing, {"lint"}, TRUE),
  Workspace([test |-> "go"], [format |-> "gofmt"], Missing, {}, TRUE),
  [Workspace([test |-> "cargo"], <<>>, Missing, {}, FALSE) EXCEPT !.saysTest = FALSE],
  Workspace([test |-> "pytest"], [test |-> "make"], "all", {"test"}, FALSE),
  Workspace([test |-> "npm"], [lint |-> "npm"], Missing, {"test"}, TRUE),
  Workspace([build |-> "cargo", test |-> "cargo"], [test |-> "cargo"], "all", {}, FALSE),
  Workspace([typecheck |-> "cargo"], <<>>, "first", {}, FALSE) }

\* Catalog: a provider whose models change, and one without any.
MCCatalogOf == ("ai" :> {{"m"}, {"n"}}) @@ ("zen" :> {{}})
MCConfigurable == ("ai" :> {"m", "x"}) @@ ("zen" :> {})
MCBuiltin == ("ai" :> "d") @@ ("zen" :> "z")

\* ExecutionPlan: plans of one and of two milestones, and one too long to be kept.
MCAnswers == {<<"a">>, <<"a", "b", "c">>, <<"b", "a">>, <<"c", "d", "a", "b">>}

\* ContextWindow: a small task, one with everything, and texts larger than the window.
Given(system, wish, diff, instructions, files, workspace) ==
  [system |-> system, request |-> wish, diff |-> diff, instructions |-> instructions, files |-> files,
   workspace |-> workspace, results |-> <<>>]
Attached == <<Result(1, "shell", 20, FALSE, FALSE), Result(2, "file", 6, FALSE, FALSE), Result(3, "search", 5, FALSE, FALSE)>>
MCInputs == {
  Given(4, 4, 0, <<>>, <<>>, 0), [Given(8, 5, 30, <<9, 4>>, <<20>>, 4) EXCEPT !.results = Attached],
  Given(50, 9, 6, <<4>>, <<>>, 0), Given(4, 60, 0, <<>>, <<6>>, 2) }
MCLimits == [shell |-> 7, given |-> 16, diff |-> 12, summary |-> 8, file |-> 16, search |-> 16, check |-> 64]

\* RepositoryIndex: a package within a package, a source file in each; a file that is deleted cannot be read.
MCPaths == <<"a", "d/b", "d/m", "m">>
MCEnclosing == [a |-> <<"m">>, m |-> <<"m">>] @@ [p \in {"d/b", "d/m"} |-> <<"d/m", "m">>]
MCShapes == {[size |-> 2, kind |-> "text"], [size |-> 3, kind |-> "text"], [size |-> 1, kind |-> "binary"]}

----------------------------------------------------------------------------
NoTextEdit == text = Request("write", File(FALSE, <<>>), <<>>, <<>>, <<1, 1>>)
NoGate ==
  /\ engine = [mode |-> "safe", network |-> "ask", rules |-> TwiceDenied]
  /\ hooks = [before |-> NoHook, after |-> NoHook, block |-> FALSE]
  /\ GateInit
NoCheck ==
  LET w == Workspace([typecheck |-> "cargo"], <<>>, "first", {}, FALSE)
      changed == <<SourceFile("x", Missing, Missing, FALSE, ".", FALSE, Missing, {})>>
  IN /\ check = [workspace |-> w, changed |-> changed, at |-> 1, verdict |-> "running", plan |-> AfterChanges(AllSteps(w), w, changed)]
     /\ reports = <<>> /\ halted = FALSE
NoSettings == environment = FALSE /\ SettingsInit
NoPlanning == currentPlan = <<>> /\ PlanInit
NoContext == input = Given(4, 4, 0, <<>>, <<>>, 0) /\ ContextInit

MCInit ==
  /\ unit \in {"edit", "text", "gate", "check", "settings", "catalog", "plan", "context", "index"}
  /\ EditInit
  /\ IF unit = "text" THEN TextInit ELSE NoTextEdit
  /\ IF unit = "gate" THEN GateInit ELSE NoGate
  /\ IF unit = "check" THEN CheckInit ELSE NoCheck
  /\ IF unit = "settings" THEN SettingsInit ELSE NoSettings
  /\ CatalogInit
  /\ IF unit = "plan" THEN PlanInit ELSE NoPlanning
  /\ IF unit = "context" THEN ContextInit ELSE NoContext
  /\ IndexInit

MCNext ==
  /\ UNCHANGED unit
  /\ \/ unit = "edit" /\ EditNext /\ UNCHANGED <<text, gateVars, checkVars, settingsVars, catalogVars, planVars, contextVars, indexVars>>
     \/ unit = "text" /\ TextNext /\ UNCHANGED <<editVars, gateVars, checkVars, settingsVars, catalogVars, planVars, contextVars, indexVars>>
     \/ unit = "gate" /\ GateNext /\ UNCHANGED <<editVars, text, checkVars, settingsVars, catalogVars, planVars, contextVars, indexVars>>
     \/ unit = "check" /\ CheckNext /\ UNCHANGED <<editVars, text, gateVars, settingsVars, catalogVars, planVars, contextVars, indexVars>>
     \/ unit = "settings" /\ SettingsNext /\ UNCHANGED <<editVars, text, gateVars, checkVars, catalogVars, planVars, contextVars, indexVars>>
     \/ unit = "catalog" /\ CatalogNext /\ UNCHANGED <<editVars, text, gateVars, checkVars, settingsVars, planVars, contextVars, indexVars>>
     \/ unit = "plan" /\ PlanNext /\ UNCHANGED <<editVars, text, gateVars, checkVars, settingsVars, catalogVars, contextVars, indexVars>>
     \/ unit = "context" /\ ContextNext /\ UNCHANGED <<editVars, text, gateVars, checkVars, settingsVars, catalogVars, planVars, indexVars>>
     \/ unit = "index" /\ IndexNext /\ UNCHANGED <<editVars, text, gateVars, checkVars, settingsVars, catalogVars, planVars, contextVars>>
MCSpec == MCInit /\ [][MCNext]_allVars
=============================================================================
