------------------------------ MODULE ToolGate ------------------------------
(***************************************************************************)
(* What a tool call of the model passes before it runs: the policy engine  *)
(* (harness-policy), the one-shot approvals of a run (ApprovedPolicy), the *)
(* hooks of the workspace and the registry's own evaluation.               *)
(***************************************************************************)
EXTENDS Integers, Sequences, FiniteSets, SequencesExt

CONSTANTS GateModes,      \* ExecutionMode
          NetworkAccess,  \* "ask", "allow", "deny"
          RuleLists,      \* the rules of the policy file
          GateCalls,      \* the tool calls the model makes: [requests, touches, hookProtected]
          HookCommands,   \* commands of hooks, or NoHook
          MaxGateCalls        \* bound: tool calls of the run

VARIABLES engine,         \* [mode, network, rules]
          hooks,          \* [before, after, block]
          gate,           \* the call being made, where it is, and what became of it
          approved,       \* keys of approvals not used yet
          prompts,        \* who was asked about, during this call: "tool", "before", "after" -> granted
          ran,            \* what was executed during this call
          gateCount           \* calls made so far

gateVars == <<engine, hooks, gate, approved, prompts, ran, gateCount>>

NoHook == "no hook"
Decisions == {"allow", "ask", "deny"}
Modes == {"read-only", "safe", "normal", "auto"}
Operations == {"read", "search", "write", "patch", "command", "network", "mcp"}
CommandRisks ==
  [status |-> {}, make |-> {}, curl |-> {"network"}, push |-> {"git", "network"}, install |-> {"package"},
   remove |-> {"destructive"}, printenv |-> {"secret"}, parent |-> {"outside"}, none |-> {}]

\* A filter, or a list of globs, that is absent.
Unset == {"unset"}
NoGlobs == <<Unset>>
\* A glob is what it matches, or does not parse.
BadGlob == {"bad glob"}
\* An i32, but for the smallest, whose negation overflows in the sort.
MaxPriority == 2147483647
Filter(values) == {Unset} \cup SUBSET values
PolicyRules ==
  [action : Decisions, priority : -MaxPriority .. MaxPriority, risks : SUBSET STRING, tools : Seq(SUBSET STRING),
   ops : Filter(Operations), modes : Filter(Modes), places : SUBSET STRING, commands : Seq(SUBSET STRING)]
PolicyRequests == [tool : STRING, op : Operations, place : STRING, command : DOMAIN CommandRisks]

\* What the parser of the policy file and the registry let through: one request for a call, or two for a rename.
ASSUME GateAssumption ==
  /\ GateModes \subseteq Modes /\ NetworkAccess \subseteq Decisions
  /\ \A rules \in RuleLists : rules \in Seq(PolicyRules)
  /\ \A call \in GateCalls : /\ call.requests \in Seq(PolicyRequests) /\ Len(call.requests) \in 1 .. 2
                           /\ call.hookProtected \in BOOLEAN

\* classify_command_risks: the substrings it looks for are the risks of the command's name here.
ClassifyCommandRisks(command) == CommandRisks[command]
IsSafeCommand(command) == command = "status"

OperationRisk(op) == CASE op \in {"read", "search"} -> "read" [] op \in {"write", "patch"} -> "project write"
                       [] op = "command" -> "process" [] op \in {"network", "mcp"} -> "network"
PathRisks(place) == IF place = "outside" THEN {"outside"} ELSE IF place = "protected" THEN {"secret"} ELSE {}

\* A policy request: [tool, op, place, command]; place is that of its path, or "none".
RiskCategories(r) == {OperationRisk(r.op)} \cup PathRisks(r.place) \cup ClassifyCommandRisks(r.command)

\* The globs are tried in order, up to the first that matches or does not parse.
FindsGlob(globs, x) == \E i \in DOMAIN globs : x \in globs[i] /\ \A k \in 1 .. i : globs[k] # BadGlob
BreaksOn(globs, x) == \E i \in DOMAIN globs : globs[i] = BadGlob /\ \A k \in 1 .. i - 1 : x \notin globs[k]

Admits(filter, x) == filter = Unset \/ x \in filter
AdmitsGlob(globs, x) == globs = NoGlobs \/ FindsGlob(globs, x)
AdmitsRisk(rule, r) == rule.risks = Unset \/ rule.risks \cap RiskCategories(r) # {}

\* Up to the commands; a path glob that does not parse matches nothing, and is left out of places.
ReachesCommands(rule, r, mode) ==
  /\ AdmitsRisk(rule, r) /\ AdmitsGlob(rule.tools, r.tool)
  /\ Admits(rule.ops, r.op) /\ Admits(rule.modes, mode)
  /\ rule.places # Unset => r.place # "none" /\ r.place \in rule.places
  /\ rule.commands # NoGlobs => r.command # "none"
RuleMatches(rule, r, mode) == ReachesCommands(rule, r, mode) /\ AdmitsGlob(rule.commands, r.command)
\* rule_matches is an error where it comes upon a tool or command glob that does not parse.
RuleBreaks(rule, r, mode) == \/ AdmitsRisk(rule, r) /\ BreaksOn(rule.tools, r.tool)
                             \/ ReachesCommands(rule, r, mode) /\ BreaksOn(rule.commands, r.command)
Matching(e, r) == {i \in DOMAIN e.rules : RuleMatches(e.rules[i], r, e.mode)}

SafeMode(e, r) == IF r.op = "network" /\ e.network = "allow" THEN "allow" ELSE "ask"

DefaultEvaluation(e, r) ==
  LET networkOk == e.network = "allow" IN
  CASE r.op \in {"read", "search"} -> "allow"
    [] r.op \notin {"read", "search"} /\ e.mode = "read-only" -> "deny"
    [] r.op \notin {"read", "search"} /\ e.mode = "safe" -> SafeMode(e, r)
    [] r.op \in {"write", "patch"} /\ e.mode \in {"normal", "auto"} -> "allow"
    [] r.op = "command" /\ e.mode \in {"normal", "auto"} ->
         IF IsSafeCommand(r.command) \/ (networkOk /\ "network" \in RiskCategories(r)) THEN "allow" ELSE "ask"
    [] r.op \in {"network", "mcp"} /\ e.mode \in {"normal", "auto"} -> IF networkOk THEN "allow" ELSE "ask"

\* The highest priority, and of those the first in the file.
BestRule(e, matching) ==
  CHOOSE i \in matching : \A j \in matching : \/ e.rules[i].priority > e.rules[j].priority
                                              \/ e.rules[i].priority = e.rules[j].priority /\ i <= j

ReadOnlyDenies(e, r) == e.mode = "read-only" /\ r.op \notin {"read", "search"}

EvaluateRequest(e, r) ==
  LET risks == RiskCategories(r)
      matching == Matching(e, r)
  IN IF r.place \in {"outside", "protected"} \/ "outside" \in risks THEN "deny"
     ELSE IF \E i \in DOMAIN e.rules : RuleBreaks(e.rules[i], r, e.mode) THEN "deny"
     ELSE IF \E i \in matching : e.rules[i].action = "deny" THEN "deny"
     ELSE IF ReadOnlyDenies(e, r) THEN "deny"
     ELSE IF risks \cap {"package", "git", "destructive", "secret"} # {} THEN "ask"
     ELSE IF "network" \in risks /\ e.network # "allow" THEN e.network
     ELSE IF matching # {} THEN e.rules[BestRule(e, matching)].action
     ELSE DefaultEvaluation(e, r)

(***************************************************************************)
(* A call is a sequence of one policy request, or two for a rename.        *)
(* ApprovedPolicy uses up the approval that turns an ask into an allow.    *)
(***************************************************************************)
Evaluation(r, keys) ==
  LET base == EvaluateRequest(engine, r)
  IN IF base = "ask" /\ r \in keys THEN [decision |-> "allow", keys |-> keys \ {r}]
     ELSE [decision |-> base, keys |-> keys]

\* Mutant: the destination of a rename not looked at.
EvaluateFirst(requests, keys) == Evaluation(requests[1], keys)
\* preflight and execute evaluate the second request when the first is allowed.
EvaluateAll(requests, keys) ==
  LET source == Evaluation(requests[1], keys)
  IN IF source.decision = "allow" /\ Len(requests) = 2 THEN Evaluation(requests[2], source.keys) ELSE source

HookRequests(command) == <<[tool |-> "shell", op |-> "command", place |-> "none", command |-> command]>>
IsEdit(call) == call.requests[1].op \in {"write", "patch"}
NoCall == [call |-> "none", at |-> "idle", decision |-> "none", result |-> "none"]

GateInit == /\ engine \in [mode : GateModes, network : NetworkAccess, rules : RuleLists]
            /\ hooks \in [before : HookCommands, after : HookCommands, block : BOOLEAN]
            /\ gate = NoCall /\ approved = {} /\ gateCount = 0
            /\ prompts = <<>> /\ ran = {}

Move(at) == gate' = [gate EXCEPT !.at = at]
Finish(result) == gate' = [gate EXCEPT !.at = "idle", !.result = result]

\* Nothing is asked and no hook runs for a denied call or a protected path of hooks.toml.
Preflight(call) ==
  LET e == EvaluateAll(call.requests, approved) IN
  /\ gate.at = "idle" /\ gateCount < MaxGateCalls /\ gateCount' = gateCount + 1
  /\ approved' = e.keys /\ prompts' = <<>> /\ ran' = {}
  /\ gate' = [call |-> call, decision |-> e.decision,
              result |-> IF IsEdit(call) /\ call.hookProtected THEN "protected" ELSE "none",
              at |-> IF e.decision = "deny" THEN "execute"
                     ELSE IF IsEdit(call) /\ call.hookProtected THEN "idle"
                     ELSE IF e.decision = "ask" THEN "ask" ELSE "before"]
  /\ UNCHANGED <<engine, hooks>>

Asked(who, granted) == prompts' = Append(prompts, [who |-> who, granted |-> granted])

\* The user's answer, before any hook.
Prompt(granted) == /\ gate.at = "ask" /\ Asked("tool", granted)
                   /\ IF granted THEN Move("before") ELSE Finish("denied by user")
                   /\ UNCHANGED <<engine, hooks, approved, ran, gateCount>>

(***************************************************************************)
(* execute_tool, for the call and for the command of a hook: the registry  *)
(* evaluates, the user is asked if need be, the registry evaluates again.  *)
(***************************************************************************)
Runs(who, requests, e) == e.decision = "allow" /\ approved' = e.keys /\ ran' = ran \cup {who}
RefusedCall(e) == approved' = e.keys /\ UNCHANGED ran

HookDone(at, next, failed) == IF failed /\ hooks.block /\ at = "before" THEN Finish("blocked") ELSE Move(next)

\* A hook that fails, is denied or may not run blocks the call, or is noted.
RunHook(at, next) ==
  LET who == at
      command == IF at = "before" THEN hooks.before ELSE hooks.after
      first == EvaluateAll(HookRequests(command), approved)
      again == EvaluateAll(HookRequests(command), first.keys \cup Range(HookRequests(command)))
  IN /\ gate.at = at
     /\ \/ command = NoHook /\ Move(next) /\ UNCHANGED <<approved, prompts, ran>>
        \/ /\ command # NoHook /\ first.decision = "allow" /\ UNCHANGED prompts
           /\ Runs(who, HookRequests(command), first) /\ \E failed \in BOOLEAN : HookDone(at, next, failed)
        \/ command # NoHook /\ first.decision = "deny" /\ RefusedCall(first) /\ UNCHANGED prompts /\ HookDone(at, next, TRUE)
        \/ command # NoHook /\ first.decision = "ask" /\ Asked(who, FALSE) /\ RefusedCall(first) /\ HookDone(at, next, TRUE)
        \/ /\ command # NoHook /\ first.decision = "ask" /\ Asked(who, TRUE)
           /\ Runs(who, HookRequests(command), again) /\ \E failed \in BOOLEAN : HookDone(at, next, failed)
     /\ UNCHANGED <<engine, hooks, gateCount>>

\* The approval is stored when the hooks are done.
ApproveOnce == IF gate.decision = "ask" THEN approved \cup Range(gate.call.requests) ELSE approved

ExecuteTool ==
  LET first == EvaluateAll(gate.call.requests, ApproveOnce)
      again == EvaluateAll(gate.call.requests, first.keys \cup Range(gate.call.requests))
  IN /\ gate.at = "execute"
     /\ \/ Runs("tool", gate.call.requests, first) /\ Move("after") /\ UNCHANGED prompts
        \/ first.decision = "deny" /\ RefusedCall(first) /\ Finish("denied by policy") /\ UNCHANGED prompts
        \/ first.decision = "ask" /\ RefusedCall(first) /\ Asked("tool", FALSE) /\ Finish("denied by user")
        \/ first.decision = "ask" /\ Runs("tool", gate.call.requests, again) /\ Asked("tool", TRUE) /\ Move("after")
        \/ first.decision = "ask" /\ again.decision # "allow" /\ RefusedCall(again) /\ Asked("tool", TRUE) /\ Finish("error")
     /\ UNCHANGED <<engine, hooks, gateCount>>

ReturnResult == /\ gate.at = "return" /\ Finish("returned")
          /\ UNCHANGED <<engine, hooks, approved, prompts, ran, gateCount>>

GateNext == \/ \E call \in GateCalls : Preflight(call)
            \/ \E granted \in BOOLEAN : Prompt(granted)
            \/ RunHook("before", "execute") \/ ExecuteTool \/ RunHook("after", "return") \/ ReturnResult
GateSpec == GateInit /\ [][GateNext]_gateVars

(***************************************************************************)
(* Properties.                                                             *)
(***************************************************************************)
Granted(who) == \E i \in DOMAIN prompts : prompts[i].who = who /\ prompts[i].granted
RequestsOf(who) == CASE who = "tool" -> Range(gate.call.requests)
                     [] who = "before" -> Range(HookRequests(hooks.before))
                     [] who = "after" -> Range(HookRequests(hooks.after))

\* Whatever the policy asks about runs on an approval of its own: that of a call does not pay for
\* a hook with the same command, nor for a later call (ApprovedPolicy, execute_tool_with_hooks).
OwnApproval == \A who \in ran : (\E r \in RequestsOf(who) : EvaluateRequest(engine, r) = "ask") => Granted(who)

\* What the policy denies does not run, however it was approved.  It is asked about what is
\* requested: the path of a rename's source is not (ProtectedStaysUntouched).
DeniedNeverRuns == \A who \in ran : \A r \in RequestsOf(who) : EvaluateRequest(engine, r) # "deny"

\* No approval is left over for an action that needs one when the call is over.
NoStandingApproval == gate.at = "idle" => \A r \in approved : EvaluateRequest(engine, r) # "ask"

\* One question for one call: a user who approved is not asked again about the same call, unless it
\* is a rename without destination, whose two requests are the same one.
SameTwice(requests) == Len(requests) = 2 /\ requests[1] = requests[2]
AskedOnce == \A i, j \in DOMAIN prompts :
  i # j /\ prompts[i].who = prompts[j].who => prompts[i].who = "tool" /\ SameTwice(gate.call.requests)

Strictness(decision) == CASE decision = "allow" -> 0 [] decision = "ask" -> 1 [] decision = "deny" -> 2
GateRequests == UNION {Range(c.requests) : c \in GateCalls}
WithMode(m) == [engine EXCEPT !.mode = m]

\* The modes are ordered: with rules that do not name modes, a stricter mode never allows what a
\* wider one would ask about or deny, and never asks about what a wider one denies.
ModesAreOrdered ==
  (gateCount = 0 /\ \A i \in DOMAIN engine.rules : engine.rules[i].modes = Unset) =>
    \A r \in GateRequests : \A pair \in {<<"read-only", "safe">>, <<"safe", "normal">>, <<"normal", "auto">>} :
       Strictness(EvaluateRequest(WithMode(pair[1]), r)) >= Strictness(EvaluateRequest(WithMode(pair[2]), r))

\* The order of rules in the file does not matter when their priorities differ: the sort is by
\* priority, a deny counts at any priority, and so does a glob that does not parse, where one is reached.
PriorityDecides ==
  (gateCount = 0 /\ \A i, j \in DOMAIN engine.rules : i # j => engine.rules[i].priority # engine.rules[j].priority) =>
    \A r \in GateRequests : EvaluateRequest(engine, r) = EvaluateRequest([engine EXCEPT !.rules = Reverse(@)], r)

\* A call runs only as the rules and the user's answers for that very call allow
\* (evaluate_request, ApprovedPolicy, execute_tool_with_hooks).
GateIsStrict == OwnApproval /\ DeniedNeverRuns /\ NoStandingApproval /\ AskedOnce /\ ModesAreOrdered /\ PriorityDecides

\* "Credential and VCS secret paths are always denied" (built_in_rules): but the policy request for the
\* source of a rename is built from the argument "path", which rename_file has not, and carries no
\* path at all (build_policy_request).
ProtectedStaysUntouched == "tool" \in ran => "protected" \notin gate.call.touches
=============================================================================
