----------------------------- MODULE RulesProofs -----------------------------
(***************************************************************************)
(* Proofs about the rules a runtime acts on.  The gate of a tool call: for *)
(* any rules of the policy file, any calls and hooks, a call and its hooks *)
(* run only on what the engine allows and the user approved for that very  *)
(* call.  The settings: for any clients, any requests, any catalogue of    *)
(* reasoning levels and any number of calls and crashes, runtime and file  *)
(* keep agreeing on them.  The checks of a task: for any workspace and any *)
(* changed files, the plan covers them and the reports tell what was run.  *)
(***************************************************************************)
EXTENDS Settings, ToolGate, Verification, FiniteSetTheorems, WellFoundedInduction, TLAPS

-----------------------------------------------------------------------------
(***************************************************************************)
(* THE GATE OF A TOOL CALL.                                                *)
(***************************************************************************)
Places == {"idle", "ask", "before", "execute", "after", "return"}
Who == {"tool", "before", "after"}
Results == {"none", "protected", "denied by user", "blocked", "denied by policy", "error", "returned"}

(* The types of the gate's variables.                                      *)
GateTypeOK ==
  /\ engine \in [mode : GateModes, network : NetworkAccess, rules : RuleLists]
  /\ gate \in [call : GateCalls \cup {"none"}, at : Places, decision : Decisions \cup {"none"}, result : Results]
  /\ gate.at # "idle" => gate.call \in GateCalls
  /\ prompts \in Seq([who : Who, granted : BOOLEAN])
  /\ ran \subseteq Who
  /\ gateCount \in Nat

(* What the policy asks about.                                             *)
Asks(r) == EvaluateRequest(engine, r) = "ask"
(* No approval for anything the policy asks about is left over.            *)
NoneLeft == \A r \in approved : ~Asks(r)

(* The decision of the preflight, which the call carries to its execution. *)
SecondCounts(requests) == EvaluateRequest(engine, requests[1]) = "allow" /\ Len(requests) = 2
Judged(requests) == EvaluateRequest(engine, IF SecondCounts(requests) THEN requests[2] ELSE requests[1])
DecisionStands == gate.at \in {"ask", "before", "execute"} => gate.decision = Judged(gate.call.requests)

(* Who was asked about, and how far the call has come then.                *)
Prompted == {prompts[i].who : i \in DOMAIN prompts}
PromptsSoFar ==
  /\ gate.at = "ask" => prompts = <<>> /\ gate.decision = "ask"
  /\ gate.at = "before" => "before" \notin Prompted
  /\ gate.at \in {"before", "execute", "after"} => "after" \notin Prompted
  /\ gate.at \in {"before", "execute"} => ("tool" \in Prompted => gate.decision = "ask")
  /\ gate.at \in {"before", "execute"} /\ gate.decision = "ask" => Granted("tool")

GateInv == GateTypeOK /\ NoneLeft /\ DecisionStands /\ PromptsSoFar /\ OwnApproval /\ DeniedNeverRuns /\ AskedOnce

(* One request: what its evaluation uses up.                               *)
LEMMA OneRequest ==
  ASSUME NEW r, NEW keys
  PROVE  LET e == Evaluation(r, keys)
         IN /\ e.keys \subseteq keys /\ keys \subseteq e.keys \cup {r}
            /\ Asks(r) => r \notin e.keys
            /\ ~Asks(r) => e.keys = keys
            /\ Asks(r) => e.decision = IF r \in keys THEN "allow" ELSE "ask"
            /\ ~Asks(r) => e.decision = EvaluateRequest(engine, r)
BY DEF Evaluation, Asks

(* A whole call, judged with no approval that could be used for it.        *)
LEMMA JudgedAlone ==
  ASSUME NEW requests, NEW keys, \A r \in keys : ~Asks(r)
  PROVE  /\ EvaluateAll(requests, keys).decision = Judged(requests)
         /\ EvaluateAll(requests, keys).keys = keys
<1> DEFINE a == requests[1]
<1> DEFINE b == requests[2]
<1> DEFINE s == Evaluation(a, keys)
<1>1. s.keys = keys /\ s.decision = EvaluateRequest(engine, a)
  BY OneRequest DEF Asks
<1>2. Evaluation(b, keys).keys = keys /\ Evaluation(b, keys).decision = EvaluateRequest(engine, b)
  BY OneRequest DEF Asks
<1>3. CASE SecondCounts(requests)
  <2>1. EvaluateAll(requests, keys) = Evaluation(b, keys) /\ Judged(requests) = EvaluateRequest(engine, b)
    BY <1>1, <1>3 DEF EvaluateAll, SecondCounts, Judged
  <2> QED BY <1>2, <2>1
<1>4. CASE ~SecondCounts(requests)
  <2>1. EvaluateAll(requests, keys) = s /\ Judged(requests) = EvaluateRequest(engine, a)
    BY <1>1, <1>4 DEF EvaluateAll, SecondCounts, Judged
  <2> QED BY <1>1, <2>1
<1> QED BY <1>3, <1>4

(* The requests of a call.                                                 *)
LEMMA OneOrTwo ==
  ASSUME NEW T, NEW requests \in Seq(T), Len(requests) \in 1 .. 2
  PROVE  /\ requests[1] \in Range(requests) /\ (Len(requests) = 2 => requests[2] \in Range(requests))
         /\ \A r \in Range(requests) : r = requests[1] \/ (Len(requests) = 2 /\ r = requests[2])
         /\ Range(requests) \subseteq T
<1>1. DOMAIN requests = 1 .. Len(requests) /\ \A i \in DOMAIN requests : requests[i] \in T
  OBVIOUS
<1>2. 1 \in DOMAIN requests /\ (Len(requests) = 2 => 2 \in DOMAIN requests)
  BY <1>1
<1>3. ASSUME NEW i \in DOMAIN requests PROVE i = 1 \/ (Len(requests) = 2 /\ i = 2)
  <2>1. i \in Int /\ 1 <= i /\ i <= Len(requests)
    BY <1>1
  <2>2. Len(requests) = 1 \/ Len(requests) = 2
    OBVIOUS
  <2> QED BY <2>1, <2>2
<1> QED BY <1>1, <1>2, <1>3, Zenon DEF Range

(* A set of numbers that is not empty has a least one.                     *)
LEMMA FirstOf ==
  ASSUME NEW S \in SUBSET Nat, S # {}
  PROVE  \E n \in S : \A m \in S : n <= m
<1> DEFINE R == OpToRel(<, Nat)
<1>1. IsWellFoundedOn(R, Nat)
  BY NatLessThanWellFounded, Zenon
<1>2. \E n \in S : \A m \in S : ~(<<m, n>> \in R)
  <2> HIDE DEF R
  <2> QED BY <1>1, WFMin, Zenon
<1>3. \A m, n \in Nat : <<m, n>> \in R <=> m < n
  BY DEF OpToRel
<1> HIDE DEF R
<1>4. PICK n \in S : \A m \in S : ~(<<m, n>> \in R)
  BY <1>2
<1>5. \A m \in S : n <= m
  <2> SUFFICES ASSUME NEW m \in S PROVE n <= m
    OBVIOUS
  <2>1. m \in Nat /\ n \in Nat
    OBVIOUS
  <2>2. ~(m < n)
    BY <1>3, <1>4, <2>1
  <2> QED BY <2>1, <2>2
<1> QED BY <1>5

(* An engine, and the best of the rules that match.                        *)
Engines == [mode : Modes, network : Decisions, rules : Seq(PolicyRules)]
Best(rules, matching, i) ==
  /\ i \in matching
  /\ \A j \in matching : \/ rules[i].priority > rules[j].priority
                         \/ rules[i].priority = rules[j].priority /\ i <= j

(* The rule that counts is the one best rule of those that match.          *)
LEMMA BestRuleIsBest ==
  ASSUME NEW e \in Engines, NEW matching \in SUBSET DOMAIN e.rules, matching # {}
  PROVE  /\ Best(e.rules, matching, BestRule(e, matching))
         /\ \A i : Best(e.rules, matching, i) => BestRule(e, matching) = i
<1> DEFINE keyOf(i) == MaxPriority - e.rules[i].priority
<1>1. e.rules \in Seq(PolicyRules) /\ DOMAIN e.rules = 1 .. Len(e.rules) /\ Len(e.rules) \in Nat
  BY DEF Engines
<1>2. \A i \in matching : e.rules[i] \in PolicyRules
  BY <1>1
<1>3. ASSUME NEW i \in matching PROVE i \in Nat /\ e.rules[i].priority \in Int /\ keyOf(i) \in Nat
  <2>1. i \in Nat
    BY <1>1
  <2>2. e.rules[i].priority \in -MaxPriority .. MaxPriority
    BY <1>2 DEF PolicyRules
  <2>3. MaxPriority \in Nat
    BY SMT DEF MaxPriority
  <2> QED BY <2>1, <2>2, <2>3
<1> DEFINE keys == {keyOf(i) : i \in matching}
<1>4. PICK p \in keys : \A q \in keys : p <= q
  <2>1. keys \in SUBSET Nat /\ keys # {}
    BY <1>3
  <2> HIDE DEF keys
  <2> QED BY <2>1, FirstOf
<1>5. PICK b \in {i \in matching : keyOf(i) = p} : \A i \in {j \in matching : keyOf(j) = p} : b <= i
  BY <1>3, <1>4, FirstOf
<1>6. ASSUME NEW j \in matching
      PROVE  e.rules[b].priority > e.rules[j].priority \/ (e.rules[b].priority = e.rules[j].priority /\ b <= j)
  <2>1. keyOf(b) = p /\ p <= keyOf(j) /\ (keyOf(j) = p => b <= j)
    BY <1>4, <1>5
  <2>2. MaxPriority \in Int
    BY SMT DEF MaxPriority
  <2>3. keyOf(b) = MaxPriority - e.rules[b].priority /\ keyOf(j) = MaxPriority - e.rules[j].priority
    OBVIOUS
  <2>4. e.rules[b].priority \in Int /\ e.rules[j].priority \in Int /\ b \in Nat /\ j \in Nat
    BY <1>3, <1>5
  <2> HIDE DEF keyOf
  <2> QED BY <2>1, <2>2, <2>3, <2>4
<1>7. Best(e.rules, matching, b)
  BY <1>5, <1>6 DEF Best
<1>8. ASSUME NEW i, NEW j, Best(e.rules, matching, i), Best(e.rules, matching, j) PROVE i = j
  BY <1>3, <1>8 DEF Best
<1>9. Best(e.rules, matching, BestRule(e, matching))
  BY <1>7 DEF Best, BestRule
<1> QED BY <1>8, <1>9

(* The rules that match are rules.                                         *)
LEMMA MatchingRules ==
  ASSUME NEW e, NEW r
  PROVE  Matching(e, r) \in SUBSET DOMAIN e.rules
BY DEF Matching

(* The engine decides.                                                     *)
LEMMA EngineDecides ==
  ASSUME NEW e \in Engines, NEW r \in PolicyRequests
  PROVE  EvaluateRequest(e, r) \in Decisions
<1> DEFINE m == Matching(e, r)
<1>1. m # {} => e.rules[BestRule(e, m)].action \in Decisions
  <2> SUFFICES ASSUME m # {} PROVE e.rules[BestRule(e, m)].action \in Decisions
    OBVIOUS
  <2>1. BestRule(e, m) \in DOMAIN e.rules
    BY MatchingRules, BestRuleIsBest DEF Best
  <2>2. e.rules[BestRule(e, m)] \in PolicyRules
    BY <2>1 DEF Engines
  <2> QED BY <2>2 DEF PolicyRules
<1>2. DefaultEvaluation(e, r) \in Decisions
  BY DEF DefaultEvaluation, SafeMode, Decisions, Engines, Modes, PolicyRequests, Operations
<1>3. e.network \in Decisions
  BY DEF Engines
<1> QED BY <1>1, <1>2, <1>3 DEF EvaluateRequest, Decisions

(* A call is judged to be one of the decisions.                            *)
LEMMA JudgedIsDecision ==
  ASSUME GateTypeOK, NEW requests \in Seq(PolicyRequests), Len(requests) \in 1 .. 2
  PROVE  Judged(requests) \in Decisions
<1>1. engine \in Engines
  BY GateAssumption DEF GateTypeOK, Engines
<1>2. requests[1] \in PolicyRequests /\ (Len(requests) = 2 => requests[2] \in PolicyRequests)
  BY OneOrTwo
<1> QED BY <1>1, <1>2, EngineDecides DEF Judged, SecondCounts

(* A whole call that is allowed: nothing of it is denied, and what is      *)
(* asked about was approved.                                               *)
LEMMA AllowedCall ==
  ASSUME NEW T, NEW requests \in Seq(T), Len(requests) \in 1 .. 2, NEW keys,
         EvaluateAll(requests, keys).decision = "allow"
  PROVE  \A r \in Range(requests) : EvaluateRequest(engine, r) # "deny" /\ (Asks(r) => r \in keys)
<1> DEFINE a == requests[1]
<1> DEFINE b == requests[2]
<1> DEFINE s == Evaluation(a, keys)
<1>1. s.decision = "allow" /\ (Len(requests) = 2 => Evaluation(b, s.keys).decision = "allow")
  BY DEF EvaluateAll
<1>2. EvaluateRequest(engine, a) # "deny" /\ (Asks(a) => a \in keys) /\ s.keys \subseteq keys
  BY <1>1, OneRequest DEF Asks
<1>3. Len(requests) = 2 => EvaluateRequest(engine, b) # "deny" /\ (Asks(b) => b \in s.keys)
  BY <1>1, OneRequest DEF Asks
<1>4. \A r \in Range(requests) : r = a \/ (Len(requests) = 2 /\ r = b)
  BY OneOrTwo
<1> QED BY <1>2, <1>3, <1>4

(* A whole call that was judged to be asked about, with its own approvals: *)
(* they are used up, and it is asked about again only when it is the same  *)
(* request twice.                                                          *)
LEMMA ApprovedCall ==
  ASSUME NEW T, NEW requests \in Seq(T), Len(requests) \in 1 .. 2, Judged(requests) = "ask",
         NEW keys, \A r \in keys : Asks(r) => r \in Range(requests), Range(requests) \subseteq keys
  PROVE  LET e == EvaluateAll(requests, keys)
         IN (\A r \in e.keys : ~Asks(r)) /\ (e.decision = "ask" => SameTwice(requests))
<1> DEFINE a == requests[1]
<1> DEFINE b == requests[2]
<1> DEFINE s == Evaluation(a, keys)
<1>1. a \in Range(requests) /\ (Len(requests) = 2 => b \in Range(requests))
  BY OneOrTwo
<1>2. \A r \in Range(requests) : r = a \/ (Len(requests) = 2 /\ r = b)
  BY OneOrTwo
<1>3. s.decision = "allow"
  BY <1>1, OneRequest DEF Judged, SecondCounts, Asks
<1>4. s.keys \subseteq keys /\ keys \subseteq s.keys \cup {a} /\ (Asks(a) => a \notin s.keys)
  BY OneRequest
<1>5. CASE Len(requests) = 1
  <2>1. EvaluateAll(requests, keys) = s
    BY <1>5 DEF EvaluateAll
  <2> QED BY <1>2, <1>3, <1>4, <1>5, <2>1
<1>6. CASE Len(requests) = 2
  <2> DEFINE t == Evaluation(b, s.keys)
  <2>1. EvaluateAll(requests, keys) = t
    BY <1>3, <1>6 DEF EvaluateAll
  <2>2. t.keys \subseteq s.keys /\ (Asks(b) => b \notin t.keys)
    BY OneRequest
  <2>3. \A r \in t.keys : ~Asks(r)
    BY <1>2, <1>4, <2>2
  <2>4. t.decision = "ask" => Asks(b) /\ b \notin s.keys
    BY OneRequest DEF Asks
  <2>5. t.decision = "ask" => a = b
    BY <1>1, <1>4, <1>6, <2>4
  <2> QED BY <1>6, <2>1, <2>3, <2>5 DEF SameTwice
<1> QED BY <1>5, <1>6

(* The call the gate is busy with.                                         *)
LEMMA BusyCall ==
  ASSUME GateTypeOK, gate.at # "idle"
  PROVE  /\ gate.call \in GateCalls /\ gate.call.requests \in Seq(PolicyRequests)
         /\ Len(gate.call.requests) \in 1 .. 2
BY GateAssumption DEF GateTypeOK

(* What a prompt adds.                                                     *)
LEMMA AskedAdds ==
  ASSUME GateTypeOK, NEW who \in Who, NEW granted \in BOOLEAN, Asked(who, granted)
  PROVE  /\ prompts' \in Seq([who : Who, granted : BOOLEAN])
         /\ Prompted' = Prompted \cup {who}
         /\ \A w \in Who : Granted(w) => Granted(w)'
         /\ granted => Granted(who)'
         /\ AskedOnce /\ gate'.call = gate.call /\ (who \in Prompted => who = "tool" /\ SameTwice(gate.call.requests))
              => AskedOnce'
<1> DEFINE n == Len(prompts)
<1> DEFINE p == [who |-> who, granted |-> granted]
<1>1. n \in Nat /\ DOMAIN prompts = 1 .. n /\ prompts \in Seq([who : Who, granted : BOOLEAN])
  BY DEF GateTypeOK
<1>2. p \in [who : Who, granted : BOOLEAN] /\ prompts' = Append(prompts, p)
  BY DEF Asked
<1>3. /\ prompts' \in Seq([who : Who, granted : BOOLEAN]) /\ DOMAIN prompts' = 1 .. (n + 1)
      /\ prompts'[n + 1] = p /\ \A i \in 1 .. n : prompts'[i] = prompts[i]
  BY <1>1, <1>2
<1>4. \A i \in 1 .. (n + 1) : i \in 1 .. n \/ i = n + 1
  BY <1>1
<1>5. 1 .. n \subseteq 1 .. (n + 1) /\ n + 1 \in 1 .. (n + 1)
  BY <1>1
<1> HIDE DEF n
<1>6. Prompted' = Prompted \cup {who}
  <2>1. ASSUME NEW w \in Prompted' PROVE w \in Prompted \cup {who}
    BY <1>1, <1>3, <1>4 DEF Prompted
  <2>2. ASSUME NEW w \in Prompted PROVE w \in Prompted'
    BY <1>1, <1>3, <1>5 DEF Prompted
  <2>3. who \in Prompted'
    BY <1>3, <1>5 DEF Prompted
  <2> QED BY <2>1, <2>2, <2>3
<1>7. \A w \in Who : Granted(w) => Granted(w)'
  BY <1>1, <1>3, <1>5 DEF Granted
<1>8. granted => Granted(who)'
  BY <1>3, <1>5 DEF Granted
<1>9. ASSUME AskedOnce, gate'.call = gate.call, who \in Prompted => who = "tool" /\ SameTwice(gate.call.requests)
      PROVE  AskedOnce'
  <2> SUFFICES ASSUME NEW i \in DOMAIN prompts', NEW j \in DOMAIN prompts', i # j, prompts'[i].who = prompts'[j].who
               PROVE  prompts'[i].who = "tool" /\ SameTwice(gate.call.requests)
    BY <1>9 DEF AskedOnce, SameTwice
  <2>1. CASE i \in 1 .. n /\ j \in 1 .. n
    BY <1>1, <1>3, <1>9, <2>1 DEF AskedOnce
  <2>2. CASE i \notin 1 .. n \/ j \notin 1 .. n
    <3>1. prompts'[i].who = who
      BY <1>3, <1>4, <2>2
    <3>2. i \in 1 .. n \/ j \in 1 .. n
      BY <1>3, <1>4
    <3>3. who \in Prompted
      BY <1>1, <1>3, <3>1, <3>2 DEF Prompted
    <3> QED BY <1>9, <3>1, <3>3
  <2> QED BY <2>1, <2>2
<1> QED BY <1>3, <1>6, <1>7, <1>8, <1>9

(* No prompt: nothing is added.                                            *)
LEMMA NothingAsked ==
  ASSUME UNCHANGED prompts
  PROVE  Prompted' = Prompted /\ (\A w : Granted(w)' = Granted(w)) /\ (AskedOnce /\ gate'.call = gate.call => AskedOnce')
BY DEF Prompted, Granted, AskedOnce, SameTwice

(* What runs, runs on approvals of its own, and was not denied.            *)
LEMMA RunsOnItsOwn ==
  ASSUME GateTypeOK, OwnApproval, DeniedNeverRuns, UNCHANGED <<engine, hooks>>, gate'.call = gate.call,
         ran' \subseteq Who, \A w \in Who : Granted(w) => Granted(w)',
         \A w \in ran' : w \in ran \/ \A r \in RequestsOf(w) : EvaluateRequest(engine, r) # "deny" /\ (Asks(r) => Granted(w)')
  PROVE  OwnApproval' /\ DeniedNeverRuns'
<1>1. \A w \in Who : RequestsOf(w)' = RequestsOf(w)
  BY DEF RequestsOf, Who
<1>2. \A r : EvaluateRequest(engine, r)' = EvaluateRequest(engine, r)
  OBVIOUS
<1>3. ASSUME NEW w \in ran', NEW r \in RequestsOf(w)'
      PROVE  EvaluateRequest(engine, r) # "deny" /\ (EvaluateRequest(engine, r) = "ask" => Granted(w)')
  <2>1. w \in Who /\ r \in RequestsOf(w)
    BY <1>1, <1>3
  <2>2. CASE w \in ran
    BY <2>1, <2>2 DEF OwnApproval, DeniedNeverRuns
  <2>3. CASE w \notin ran
    BY <1>3, <2>1, <2>3 DEF Asks
  <2> QED BY <2>2, <2>3
<1> QED BY <1>2, <1>3 DEF OwnApproval, DeniedNeverRuns

(* Where the call goes next, and what stays of its record.                 *)
LEMMA GateMoves ==
  ASSUME GateTypeOK, NEW at \in Places \ {"idle"}, gate.at # "idle", Move(at)
  PROVE  /\ gate' \in [call : GateCalls \cup {"none"}, at : Places, decision : Decisions \cup {"none"}, result : Results]
         /\ gate'.at = at /\ gate'.call = gate.call /\ gate'.decision = gate.decision /\ gate'.call \in GateCalls
BY DEF GateTypeOK, Move

(* How a call ends.                                                        *)
LEMMA GateFinishes ==
  ASSUME GateTypeOK, NEW result \in Results, gate.at # "idle", Finish(result)
  PROVE  /\ gate' \in [call : GateCalls \cup {"none"}, at : Places, decision : Decisions \cup {"none"}, result : Results]
         /\ gate'.at = "idle" /\ gate'.call = gate.call /\ gate'.decision = gate.decision /\ gate'.call \in GateCalls
BY DEF GateTypeOK, Finish, Places

(* A new call: it is judged with the approvals that are left, of no use    *)
(* to it.                                                                  *)
LEMMA PreflightKeeps ==
  ASSUME GateInv, NEW c \in GateCalls, Preflight(c)
  PROVE  GateInv'
<1> DEFINE e == EvaluateAll(c.requests, approved)
<1>1. GateTypeOK /\ NoneLeft
  BY DEF GateInv
<1>2. c.requests \in Seq(PolicyRequests) /\ Len(c.requests) \in 1 .. 2
  BY GateAssumption
<1>3. e.decision = Judged(c.requests) /\ e.keys = approved
  BY <1>1, JudgedAlone DEF NoneLeft
<1>4. Judged(c.requests) \in Decisions
  BY <1>1, <1>2, JudgedIsDecision
<1>5. UNCHANGED <<engine, hooks, approved>> /\ prompts' = <<>> /\ ran' = {} /\ gateCount' = gateCount + 1
  BY <1>3 DEF Preflight
<1>6. PICK at \in Places, result \in Results :
        /\ gate' = [call |-> c, decision |-> e.decision, result |-> result, at |-> at]
        /\ at = "ask" => e.decision = "ask"
        /\ at \in {"before", "execute"} => e.decision # "ask"
  BY DEF Preflight, Places, Results
<1> HIDE DEF e
<1>7. /\ gate' \in [call : GateCalls \cup {"none"}, at : Places, decision : Decisions \cup {"none"}, result : Results]
      /\ gate'.call = c /\ gate'.decision = e.decision /\ gate'.at = at
  BY <1>3, <1>4, <1>6
<1>8. GateTypeOK'
  BY <1>1, <1>5, <1>7 DEF GateTypeOK
<1>9. NoneLeft'
  BY <1>1, <1>5 DEF NoneLeft, Asks
<1>10. DecisionStands'
  BY <1>3, <1>5, <1>7 DEF DecisionStands, Judged, SecondCounts
<1>11. PromptsSoFar'
  BY <1>5, <1>6, <1>7 DEF PromptsSoFar, Prompted
<1>12. OwnApproval' /\ DeniedNeverRuns' /\ AskedOnce'
  BY <1>5 DEF OwnApproval, DeniedNeverRuns, AskedOnce
<1> QED BY <1>8, <1>9, <1>10, <1>11, <1>12 DEF GateInv

(* The parts about what is asked and run are kept by a step; the others    *)
(* follow from where the call goes.                                        *)
LEMMA StepKeeps ==
  ASSUME GateInv, UNCHANGED <<engine, hooks, gateCount>>, gate.at # "idle",
         gate' \in [call : GateCalls \cup {"none"}, at : Places, decision : Decisions \cup {"none"}, result : Results],
         gate'.call = gate.call, gate'.decision = gate.decision,
         gate'.at \in {"ask", "before", "execute"} => gate.at \in {"ask", "before", "execute"},
         prompts' \in Seq([who : Who, granted : BOOLEAN]), ran' \subseteq Who,
         \A w \in Who : Granted(w) => Granted(w)',
         \A r \in approved' : ~Asks(r), PromptsSoFar', AskedOnce',
         \A w \in ran' : w \in ran \/ \A r \in RequestsOf(w) : EvaluateRequest(engine, r) # "deny" /\ (Asks(r) => Granted(w)')
  PROVE  GateInv'
<1>1. GateTypeOK /\ OwnApproval /\ DeniedNeverRuns /\ DecisionStands
  BY DEF GateInv
<1>2. GateTypeOK'
  BY <1>1 DEF GateTypeOK
<1>3. NoneLeft'
  BY DEF NoneLeft, Asks
<1>4. DecisionStands'
  BY <1>1 DEF DecisionStands, Judged, SecondCounts
<1>5. OwnApproval' /\ DeniedNeverRuns'
  BY <1>1, RunsOnItsOwn
<1> QED BY <1>2, <1>3, <1>4, <1>5 DEF GateInv

(* The user's answer.                                                      *)
LEMMA PromptKeeps ==
  ASSUME GateInv, NEW granted \in BOOLEAN, Prompt(granted)
  PROVE  GateInv'
<1>1. GateTypeOK /\ NoneLeft /\ AskedOnce /\ gate.at = "ask" /\ prompts = <<>> /\ Prompted = {} /\ gate.decision = "ask"
  <2>1. GateTypeOK /\ NoneLeft /\ AskedOnce /\ PromptsSoFar /\ gate.at = "ask"
    BY DEF GateInv, Prompt
  <2> QED BY <2>1 DEF PromptsSoFar, Prompted
<1>2. Asked("tool", granted) /\ UNCHANGED <<engine, hooks, approved, ran, gateCount>>
  BY DEF Prompt
<1>3. /\ gate' \in [call : GateCalls \cup {"none"}, at : Places, decision : Decisions \cup {"none"}, result : Results]
      /\ gate'.call = gate.call /\ gate'.decision = gate.decision
      /\ gate'.at = IF granted THEN "before" ELSE "idle"
  <2>1. CASE granted
    BY <1>1, <2>1, GateMoves DEF Prompt, Places
  <2>2. CASE ~granted
    BY <1>1, <2>2, GateFinishes DEF Prompt, Results
  <2> QED BY <2>1, <2>2
<1>4. "tool" \in Who
  BY DEF Who
<1>5. /\ prompts' \in Seq([who : Who, granted : BOOLEAN]) /\ Prompted' = {"tool"} /\ (granted => Granted("tool")')
      /\ (\A w \in Who : Granted(w) => Granted(w)') /\ AskedOnce'
  BY <1>1, <1>2, <1>3, <1>4, AskedAdds
<1>6. PromptsSoFar'
  BY <1>1, <1>3, <1>5 DEF PromptsSoFar
<1>7. \A r \in approved' : ~Asks(r)
  BY <1>1, <1>2 DEF NoneLeft
<1>8. ran' \subseteq Who /\ ran' = ran
  BY <1>1, <1>2 DEF GateTypeOK
<1> QED BY <1>1, <1>2, <1>3, <1>5, <1>6, <1>7, <1>8, StepKeeps

(* A call that returns.                                                    *)
LEMMA ReturnKeeps ==
  ASSUME GateInv, ReturnResult
  PROVE  GateInv'
<1>1. GateTypeOK /\ NoneLeft /\ AskedOnce /\ gate.at = "return"
  BY DEF GateInv, ReturnResult
<1>2. Finish("returned") /\ UNCHANGED <<engine, hooks, approved, prompts, ran, gateCount>>
  BY DEF ReturnResult
<1>3. /\ gate' \in [call : GateCalls \cup {"none"}, at : Places, decision : Decisions \cup {"none"}, result : Results]
      /\ gate'.call = gate.call /\ gate'.decision = gate.decision /\ gate'.at = "idle"
  BY <1>1, <1>2, GateFinishes DEF Results
<1>4. (\A w : Granted(w)' = Granted(w)) /\ AskedOnce'
  BY <1>1, <1>2, <1>3, NothingAsked
<1>5. PromptsSoFar'
  BY <1>3 DEF PromptsSoFar
<1>6. prompts' \in Seq([who : Who, granted : BOOLEAN]) /\ ran' \subseteq Who /\ \A r \in approved' : ~Asks(r)
  BY <1>1, <1>2 DEF GateTypeOK, NoneLeft
<1> QED BY <1>1, <1>2, <1>3, <1>4, <1>5, <1>6, StepKeeps

(* What a step of execute_tool does with approvals, prompts and what runs, *)
(* for the call and for the command of a hook.                             *)
Executed(who, requests, keys) ==
  LET first == EvaluateAll(requests, keys)
      again == EvaluateAll(requests, first.keys \cup Range(requests))
  IN \/ first.decision = "allow" /\ UNCHANGED prompts /\ approved' = first.keys /\ ran' = ran \cup {who}
     \/ first.decision = "deny" /\ UNCHANGED <<prompts, ran>> /\ approved' = first.keys
     \/ first.decision = "ask" /\ Asked(who, FALSE) /\ UNCHANGED ran /\ approved' = first.keys
     \/ first.decision = "ask" /\ Asked(who, TRUE) /\ approved' = again.keys
        /\ \/ again.decision = "allow" /\ ran' = ran \cup {who}
           \/ UNCHANGED ran

(* execute_tool leaves no approval of its requests behind, asks at most    *)
(* once, and what it runs was allowed.  keys holds approvals left over and *)
(* those of these requests, when the user has approved them already.       *)
LEMMA ExecutedKeeps ==
  ASSUME GateInv, NEW who \in Who, NEW T, NEW requests \in Seq(T), Len(requests) \in 1 .. 2, RequestsOf(who) = Range(requests),
         gate'.call = gate.call, NEW keys, Executed(who, requests, keys),
         \/ keys = approved /\ who \notin Prompted
         \/ /\ keys = approved \cup Range(requests) /\ Judged(requests) = "ask" /\ Granted(who)
            /\ who = "tool" /\ requests = gate.call.requests
  PROVE  /\ prompts' \in Seq([who : Who, granted : BOOLEAN]) /\ ran' \subseteq Who
         /\ Prompted' \subseteq Prompted \cup {who} /\ (\A w \in Who : Granted(w) => Granted(w)')
         /\ (\A r \in approved' : ~Asks(r)) /\ AskedOnce'
         /\ \A w \in ran' : w \in ran \/ \A r \in RequestsOf(w) : EvaluateRequest(engine, r) # "deny" /\ (Asks(r) => Granted(w)')
<1> DEFINE first == EvaluateAll(requests, keys)
<1> DEFINE again == EvaluateAll(requests, first.keys \cup Range(requests))
<1>1. GateTypeOK /\ NoneLeft /\ AskedOnce
  BY DEF GateInv
<1>2. /\ \A r \in first.keys : ~Asks(r)
      /\ first.decision = "ask" => Judged(requests) = "ask"
      /\ first.decision = "ask" /\ who \in Prompted => who = "tool" /\ SameTwice(gate.call.requests)
  <2>1. CASE keys = approved /\ who \notin Prompted
    BY <1>1, <2>1, JudgedAlone DEF NoneLeft
  <2>2. CASE /\ keys = approved \cup Range(requests) /\ Judged(requests) = "ask" /\ who = "tool"
             /\ requests = gate.call.requests
    <3>1. (\A r \in keys : Asks(r) => r \in Range(requests)) /\ Range(requests) \subseteq keys
      BY <1>1, <2>2 DEF NoneLeft
    <3> QED BY <2>2, <3>1, ApprovedCall
  <2> QED BY <2>1, <2>2
<1>3. first.decision = "ask" => \A r \in again.keys : ~Asks(r)
  <2>1. \A r \in first.keys \cup Range(requests) : Asks(r) => r \in Range(requests)
    BY <1>2
  <2> HIDE DEF first
  <2>2. Range(requests) \subseteq first.keys \cup Range(requests)
    OBVIOUS
  <2> QED BY <1>2, <2>1, <2>2, ApprovedCall
<1>4. first.decision = "allow" => \A r \in Range(requests) : EvaluateRequest(engine, r) # "deny" /\ (Asks(r) => Granted(who))
  <2> SUFFICES ASSUME first.decision = "allow"
               PROVE  \A r \in Range(requests) : EvaluateRequest(engine, r) # "deny" /\ (Asks(r) => Granted(who))
    OBVIOUS
  <2>1. \A r \in Range(requests) : EvaluateRequest(engine, r) # "deny" /\ (Asks(r) => r \in keys)
    BY AllowedCall
  <2> QED BY <1>1, <2>1 DEF NoneLeft
<1>5. again.decision = "allow" => \A r \in Range(requests) : EvaluateRequest(engine, r) # "deny"
  BY AllowedCall
<1>6. \/ first.decision = "allow" /\ UNCHANGED prompts /\ approved' = first.keys /\ ran' = ran \cup {who}
      \/ first.decision = "deny" /\ UNCHANGED <<prompts, ran>> /\ approved' = first.keys
      \/ first.decision = "ask" /\ Asked(who, FALSE) /\ UNCHANGED ran /\ approved' = first.keys
      \/ /\ first.decision = "ask" /\ Asked(who, TRUE) /\ approved' = again.keys
         /\ \/ again.decision = "allow" /\ ran' = ran \cup {who}
            \/ UNCHANGED ran
  BY Zenon DEF Executed
<1> HIDE DEF first, again
<1>7. (\A r \in approved' : ~Asks(r)) /\ ran' \subseteq ran \cup {who} /\ ran' \subseteq Who
  BY <1>1, <1>2, <1>3, <1>6 DEF GateTypeOK
<1>8. /\ prompts' \in Seq([who : Who, granted : BOOLEAN]) /\ Prompted' \subseteq Prompted \cup {who}
      /\ (\A w \in Who : Granted(w) => Granted(w)') /\ AskedOnce'
  <2>1. CASE UNCHANGED prompts
    BY <1>1, <2>1, NothingAsked DEF GateTypeOK
  <2>2. CASE first.decision = "ask" /\ \E granted \in BOOLEAN : Asked(who, granted)
    BY <1>1, <1>2, <2>2, AskedAdds
  <2> QED BY <1>6, <2>1, <2>2
<1>9. ASSUME NEW w \in ran', w \notin ran
      PROVE  \A r \in RequestsOf(w) : EvaluateRequest(engine, r) # "deny" /\ (Asks(r) => Granted(w)')
  <2>1. w = who
    BY <1>7, <1>9
  <2>2. CASE first.decision = "allow"
    BY <1>4, <1>8, <2>1, <2>2
  <2>3. CASE again.decision = "allow" /\ Asked(who, TRUE)
    <3>1. Granted(who)'
      BY <1>1, <2>3, AskedAdds
    <3> QED BY <1>5, <2>1, <2>3, <3>1
  <2> QED BY <1>6, <1>9, <2>2, <2>3
<1> QED BY <1>7, <1>8, <1>9

(* Where a hook leaves the call.                                           *)
LEMMA HookMoves ==
  ASSUME GateTypeOK, NEW at, NEW next \in Places \ {"idle"}, NEW failed, gate.at # "idle", HookDone(at, next, failed)
  PROVE  /\ gate' \in [call : GateCalls \cup {"none"}, at : Places, decision : Decisions \cup {"none"}, result : Results]
         /\ gate'.call = gate.call /\ gate'.decision = gate.decision /\ gate'.at \in {"idle", next}
<1>1. Move(next) \/ Finish("blocked")
  BY DEF HookDone
<1> QED BY <1>1, GateMoves, GateFinishes DEF Results

(* A hook.                                                                 *)
LEMMA HookKeeps ==
  ASSUME GateInv, NEW at, NEW next, <<at, next>> \in {<<"before", "execute">>, <<"after", "return">>}, RunHook(at, next)
  PROVE  GateInv'
<1> DEFINE command == IF at = "before" THEN hooks.before ELSE hooks.after
<1> DEFINE requests == HookRequests(command)
<1>1. GateTypeOK /\ NoneLeft /\ AskedOnce /\ PromptsSoFar /\ gate.at = at
  BY DEF GateInv, RunHook
<1>2. at \in {"before", "after"} /\ at \in Who /\ next \in {"execute", "return"} /\ (next = "execute" => at = "before")
  BY DEF Who
<1>3. next \in Places \ {"idle"} /\ gate.at # "idle" /\ at \notin Prompted
  BY <1>1, <1>2 DEF Places, PromptsSoFar
<1>4. UNCHANGED <<engine, hooks, gateCount>>
  BY DEF RunHook
<1>5. \/ Move(next) /\ UNCHANGED <<approved, prompts, ran>>
      \/ Executed(at, requests, approved) /\ \E failed \in BOOLEAN : HookDone(at, next, failed)
  BY DEF RunHook, Executed, Runs, RefusedCall
<1>6. /\ gate' \in [call : GateCalls \cup {"none"}, at : Places, decision : Decisions \cup {"none"}, result : Results]
      /\ gate'.call = gate.call /\ gate'.decision = gate.decision /\ gate'.at \in {"idle", next}
  BY <1>1, <1>3, <1>5, GateMoves, HookMoves
<1>7. /\ prompts' \in Seq([who : Who, granted : BOOLEAN]) /\ ran' \subseteq Who
      /\ Prompted' \subseteq Prompted \cup {at} /\ (\A w \in Who : Granted(w) => Granted(w)')
      /\ (\A r \in approved' : ~Asks(r)) /\ AskedOnce'
      /\ \A w \in ran' : w \in ran \/ \A r \in RequestsOf(w) : EvaluateRequest(engine, r) # "deny" /\ (Asks(r) => Granted(w)')
  <2>1. CASE UNCHANGED <<approved, prompts, ran>>
    BY <1>1, <1>6, <2>1, NothingAsked DEF GateTypeOK, NoneLeft
  <2>2. CASE Executed(at, requests, approved)
    <3> DEFINE h == [tool |-> "shell", op |-> "command", place |-> "none", command |-> command]
    <3>1. requests = <<h>>
      BY DEF HookRequests
    <3> HIDE DEF h, requests
    <3>2. Len(requests) \in 1 .. 2 /\ requests \in Seq({h})
      BY <3>1
    <3> USE DEF requests
    <3>3. RequestsOf(at) = Range(requests)
      BY <1>2 DEF RequestsOf
    <3> HIDE DEF requests
    <3> QED BY <1>2, <1>3, <1>6, <2>2, <3>2, <3>3, ExecutedKeeps
  <2> QED BY <1>5, <2>1, <2>2
<1>8. PromptsSoFar'
  <2>1. CASE gate'.at \in {"idle", "return"}
    BY <2>1 DEF PromptsSoFar
  <2>2. CASE gate'.at = "execute"
    <3>1. at = "before" /\ Prompted' \subseteq Prompted \cup {"before"} /\ "tool" \in Who
      BY <1>2, <1>6, <1>7, <2>2 DEF Who
    <3> QED BY <1>1, <1>6, <1>7, <2>2, <3>1 DEF PromptsSoFar
  <2> QED BY <1>2, <1>6, <2>1, <2>2
<1>9. gate'.at \in {"ask", "before", "execute"} => gate.at \in {"ask", "before", "execute"}
  BY <1>1, <1>2, <1>6
<1> QED BY <1>3, <1>4, <1>6, <1>7, <1>8, <1>9, StepKeeps

(* The call itself.                                                        *)
LEMMA ExecuteKeeps ==
  ASSUME GateInv, ExecuteTool
  PROVE  GateInv'
<1> DEFINE requests == gate.call.requests
<1>1. GateTypeOK /\ NoneLeft /\ AskedOnce /\ PromptsSoFar /\ DecisionStands /\ gate.at = "execute"
  BY DEF GateInv, ExecuteTool
<1>2. gate.at # "idle" /\ "tool" \in Who /\ requests \in Seq(PolicyRequests) /\ Len(requests) \in 1 .. 2
  BY <1>1, BusyCall DEF Who
<1>3. UNCHANGED <<engine, hooks, gateCount>>
  BY DEF ExecuteTool
<1>4. Executed("tool", requests, ApproveOnce)
  BY DEF ExecuteTool, Executed, Runs, RefusedCall
<1>5. \/ Move("after")
      \/ \E result \in Results : Finish(result)
  BY DEF ExecuteTool, Results
<1>6. /\ gate' \in [call : GateCalls \cup {"none"}, at : Places, decision : Decisions \cup {"none"}, result : Results]
      /\ gate'.call = gate.call /\ gate'.decision = gate.decision /\ gate'.at \in {"idle", "after"}
  <2>1. CASE Move("after")
    BY <1>1, <1>2, <2>1, GateMoves DEF Places
  <2>2. CASE \E result \in Results : Finish(result)
    BY <1>1, <1>2, <2>2, GateFinishes
  <2> QED BY <1>5, <2>1, <2>2
<1>7. \/ ApproveOnce = approved /\ "tool" \notin Prompted
      \/ /\ ApproveOnce = approved \cup Range(requests) /\ Judged(requests) = "ask" /\ Granted("tool")
         /\ requests = gate.call.requests
  BY <1>1 DEF ApproveOnce, PromptsSoFar, DecisionStands
<1>8. RequestsOf("tool") = Range(requests)
  BY DEF RequestsOf
<1> HIDE DEF requests
<1>9. /\ prompts' \in Seq([who : Who, granted : BOOLEAN]) /\ ran' \subseteq Who
      /\ Prompted' \subseteq Prompted \cup {"tool"} /\ (\A w \in Who : Granted(w) => Granted(w)')
      /\ (\A r \in approved' : ~Asks(r)) /\ AskedOnce'
      /\ \A w \in ran' : w \in ran \/ \A r \in RequestsOf(w) : EvaluateRequest(engine, r) # "deny" /\ (Asks(r) => Granted(w)')
  BY <1>2, <1>4, <1>6, <1>7, <1>8, ExecutedKeeps
<1>10. PromptsSoFar'
  BY <1>1, <1>6, <1>9 DEF PromptsSoFar
<1> QED BY <1>2, <1>3, <1>6, <1>9, <1>10, StepKeeps

(* A stricter mode decides no less strictly than a wider one.              *)
LEMMA ModesOrdered ==
  ASSUME NEW e \in Engines, NEW f \in Engines, e.rules = f.rules, e.network = f.network,
         \A i \in DOMAIN e.rules : e.rules[i].modes = Unset,
         <<e.mode, f.mode>> \in {<<"read-only", "safe">>, <<"safe", "normal">>, <<"normal", "auto">>},
         NEW r \in PolicyRequests
  PROVE  Strictness(EvaluateRequest(e, r)) >= Strictness(EvaluateRequest(f, r))
<1> DEFINE m == Matching(e, r)
<1>1. \A i \in DOMAIN e.rules : RuleMatches(e.rules[i], r, e.mode) <=> RuleMatches(f.rules[i], r, f.mode)
  BY DEF RuleMatches, ReachesCommands, Admits
<1>2. Matching(f, r) = m
  BY <1>1 DEF Matching
<1>8. \A i \in DOMAIN e.rules : RuleBreaks(e.rules[i], r, e.mode) <=> RuleBreaks(f.rules[i], r, f.mode)
  BY DEF RuleBreaks, ReachesCommands, Admits
<1>3. m # {} => BestRule(e, m) = BestRule(f, m)
  <2> SUFFICES ASSUME m # {} PROVE BestRule(e, m) = BestRule(f, m)
    OBVIOUS
  <2>1. m \in SUBSET DOMAIN e.rules /\ m \in SUBSET DOMAIN f.rules
    BY MatchingRules
  <2> HIDE DEF m
  <2>2. Best(f.rules, m, BestRule(f, m))
    BY <2>1, BestRuleIsBest
  <2>3. Best(e.rules, m, BestRule(f, m))
    BY <2>2
  <2> QED BY <2>1, <2>3, BestRuleIsBest
<1>4. EvaluateRequest(e, r) \in Decisions /\ EvaluateRequest(f, r) \in Decisions
  BY EngineDecides
<1>5. \A a, b \in Decisions : a = b \/ a = "deny" \/ b = "allow" => Strictness(a) >= Strictness(b)
  BY DEF Decisions, Strictness
<1>6. \/ EvaluateRequest(e, r) = EvaluateRequest(f, r)
      \/ EvaluateRequest(e, r) = "deny"
      \/ EvaluateRequest(f, r) = "allow"
  <2>1. CASE ReadOnlyDenies(e, r)
    BY <1>4, <2>1 DEF EvaluateRequest, Decisions
  <2>2. CASE ~ReadOnlyDenies(e, r)
    <3>1. ~ReadOnlyDenies(f, r)
      BY DEF ReadOnlyDenies
    <3>2. DefaultEvaluation(e, r) = DefaultEvaluation(f, r) \/ DefaultEvaluation(f, r) = "allow"
      BY <2>2 DEF DefaultEvaluation, SafeMode, ReadOnlyDenies, PolicyRequests, Operations
    <3> HIDE DEF m
    <3> QED BY <1>2, <1>3, <1>8, <2>2, <3>1, <3>2 DEF EvaluateRequest, m
  <2> QED BY <2>1, <2>2
<1> QED BY <1>4, <1>5, <1>6

(* When all priorities differ, the order of the rules in the file does not *)
(* matter.                                                                 *)
LEMMA OrderIrrelevant ==
  ASSUME NEW e \in Engines, NEW f \in Engines, f.rules = Reverse(e.rules), f.mode = e.mode, f.network = e.network,
         \A i, j \in DOMAIN e.rules : i # j => e.rules[i].priority # e.rules[j].priority,
         NEW r \in PolicyRequests
  PROVE  EvaluateRequest(f, r) = EvaluateRequest(e, r)
<1> DEFINE n == Len(e.rules)
<1> DEFINE turn(i) == n - i + 1
<1> DEFINE m == Matching(e, r)
<1> DEFINE w == Matching(f, r)
<1>1. n \in Nat /\ DOMAIN e.rules = 1 .. n /\ \A i \in 1 .. n : e.rules[i] \in PolicyRules
  BY DEF Engines
<1>2. DOMAIN f.rules = 1 .. n /\ \A i \in 1 .. n : f.rules[i] = e.rules[turn(i)]
  BY <1>1 DEF Reverse
<1>3. \A i \in 1 .. n : turn(i) \in 1 .. n /\ turn(turn(i)) = i
  BY <1>1
<1> HIDE DEF n, turn
<1>4. \A i \in 1 .. n : i \in w <=> turn(i) \in m
  BY <1>1, <1>2, <1>3 DEF Matching
<1>5. m \in SUBSET (1 .. n) /\ w \in SUBSET (1 .. n)
  BY <1>1, <1>2, MatchingRules
<1> HIDE DEF m, w
<1>6. m # {} <=> w # {}
  BY <1>3, <1>4, <1>5
<1>7. m # {} => e.rules[BestRule(e, m)] = f.rules[BestRule(f, w)]
  <2> SUFFICES ASSUME m # {} PROVE e.rules[BestRule(e, m)] = f.rules[BestRule(f, w)]
    OBVIOUS
  <2> DEFINE b == BestRule(e, m)
  <2>1. Best(e.rules, m, b)
    BY <1>1, <1>5, BestRuleIsBest
  <2> HIDE DEF b
  <2>2. b \in 1 .. n /\ turn(b) \in w /\ turn(b) \in Nat
    BY <1>3, <1>4, <1>5, <2>1 DEF Best
  <2>3. ASSUME NEW j \in w
        PROVE  f.rules[turn(b)].priority > f.rules[j].priority
               \/ (f.rules[turn(b)].priority = f.rules[j].priority /\ turn(b) <= j)
    <3>1. j \in 1 .. n /\ turn(j) \in m /\ turn(j) \in 1 .. n
      BY <1>3, <1>4, <1>5
    <3>2. f.rules[j] = e.rules[turn(j)] /\ f.rules[turn(b)] = e.rules[b]
      BY <1>2, <1>3, <2>2, <3>1
    <3>3. CASE turn(j) = b
      BY <1>3, <2>2, <3>1, <3>2, <3>3
    <3>4. CASE turn(j) # b
      <4>1. e.rules[b].priority # e.rules[turn(j)].priority
        BY <1>1, <2>2, <3>1, <3>4
      <4>2. e.rules[b].priority > e.rules[turn(j)].priority
        BY <2>1, <3>1, <4>1 DEF Best
      <4> QED BY <3>2, <4>2
    <3> QED BY <3>3, <3>4
  <2>4. Best(f.rules, w, turn(b))
    BY <2>2, <2>3 DEF Best
  <2>5. BestRule(f, w) = turn(b)
    BY <1>2, <1>5, <1>6, <2>4, BestRuleIsBest
  <2>6. f.rules[turn(b)] = e.rules[b]
    BY <1>2, <1>3, <2>2
  <2> QED BY <2>5, <2>6 DEF b
<1>8. (\E i \in m : e.rules[i].action = "deny") <=> (\E i \in w : f.rules[i].action = "deny")
  BY <1>2, <1>3, <1>4, <1>5
<1>9. (\E i \in DOMAIN e.rules : RuleBreaks(e.rules[i], r, e.mode))
        <=> (\E i \in DOMAIN f.rules : RuleBreaks(f.rules[i], r, f.mode))
  BY <1>1, <1>2, <1>3
<1>10. DefaultEvaluation(f, r) = DefaultEvaluation(e, r) /\ (ReadOnlyDenies(f, r) <=> ReadOnlyDenies(e, r))
  BY DEF DefaultEvaluation, SafeMode, ReadOnlyDenies
<1> QED BY <1>6, <1>7, <1>8, <1>9, <1>10 DEF EvaluateRequest, m, w

(* The requests of calls.                                                  *)
LEMMA GateRequestsTyped == GateRequests \subseteq PolicyRequests
<1> SUFFICES ASSUME NEW c \in GateCalls PROVE Range(c.requests) \subseteq PolicyRequests
  BY DEF GateRequests
<1>1. c.requests \in Seq(PolicyRequests) /\ Len(c.requests) \in 1 .. 2
  BY GateAssumption
<1> QED BY <1>1, OneOrTwo

(* The two parts that are about the engine alone.                          *)
LEMMA EngineIsFair ==
  ASSUME GateTypeOK
  PROVE  ModesAreOrdered /\ PriorityDecides
<1>1. engine \in Engines /\ engine = [mode |-> engine.mode, network |-> engine.network, rules |-> engine.rules]
  BY GateAssumption DEF GateTypeOK, Engines
<1>2. ASSUME NEW v \in Modes
      PROVE  /\ WithMode(v) \in Engines /\ WithMode(v).mode = v
             /\ WithMode(v).rules = engine.rules /\ WithMode(v).network = engine.network
  BY <1>1 DEF WithMode, Engines
<1>3. ModesAreOrdered
  <2> SUFFICES ASSUME \A i \in DOMAIN engine.rules : engine.rules[i].modes = Unset, NEW r \in GateRequests,
                      NEW v, NEW w, <<v, w>> \in {<<"read-only", "safe">>, <<"safe", "normal">>, <<"normal", "auto">>}
               PROVE  Strictness(EvaluateRequest(WithMode(v), r)) >= Strictness(EvaluateRequest(WithMode(w), r))
    BY DEF ModesAreOrdered
  <2>1. v \in Modes /\ w \in Modes /\ r \in PolicyRequests
    BY GateRequestsTyped DEF Modes
  <2> QED BY <1>2, <2>1, ModesOrdered
<1>4. PriorityDecides
  <2> DEFINE f == [engine EXCEPT !.rules = Reverse(@)]
  <2> SUFFICES ASSUME \A i, j \in DOMAIN engine.rules : i # j => engine.rules[i].priority # engine.rules[j].priority,
                      NEW r \in GateRequests
               PROVE  EvaluateRequest(engine, r) = EvaluateRequest(f, r)
    BY DEF PriorityDecides
  <2>1. Reverse(engine.rules) \in Seq(PolicyRules)
    BY <1>1 DEF Engines, Reverse
  <2>2. f \in Engines /\ f.rules = Reverse(engine.rules) /\ f.mode = engine.mode /\ f.network = engine.network
    BY <1>1, <2>1 DEF Engines
  <2>3. r \in PolicyRequests
    BY GateRequestsTyped
  <2> HIDE DEF f
  <2> QED BY <1>1, <2>2, <2>3, OrderIrrelevant
<1> QED BY <1>3, <1>4

(* No call has been made yet.                                              *)
LEMMA GateStarts == GateInit => GateInv
<1> SUFFICES ASSUME GateInit PROVE GateInv
  OBVIOUS
<1>1. gate = NoCall /\ approved = {} /\ gateCount = 0 /\ prompts = <<>> /\ ran = {}
  BY DEF GateInit
<1>2. GateTypeOK
  BY <1>1 DEF GateInit, GateTypeOK, NoCall, Places, Results
<1> QED BY <1>1, <1>2 DEF GateInv, NoneLeft, DecisionStands, PromptsSoFar, OwnApproval, DeniedNeverRuns, AskedOnce, NoCall

(* Every step of a call keeps the invariant.                               *)
LEMMA GateSteps == GateInv /\ [GateNext]_gateVars => GateInv'
<1> SUFFICES ASSUME GateInv, [GateNext]_gateVars PROVE GateInv'
  OBVIOUS
<1>1. CASE \E c \in GateCalls : Preflight(c)
  BY <1>1, PreflightKeeps
<1>2. CASE \E granted \in BOOLEAN : Prompt(granted)
  BY <1>2, PromptKeeps
<1>3. CASE RunHook("before", "execute") \/ RunHook("after", "return")
  BY <1>3, HookKeeps
<1>4. CASE ExecuteTool
  BY <1>4, ExecuteKeeps
<1>5. CASE ReturnResult
  BY <1>5, ReturnKeeps
<1>6. CASE UNCHANGED gateVars
  <2>1. UNCHANGED <<engine, hooks, gate, approved, prompts, ran, gateCount>>
    BY <1>6 DEF gateVars
  <2>2. GateTypeOK' /\ NoneLeft' /\ DecisionStands'
    BY <2>1 DEF GateInv, GateTypeOK, NoneLeft, Asks, DecisionStands, Judged, SecondCounts
  <2>3. Prompted' = Prompted /\ (\A w : Granted(w)' = Granted(w)) /\ AskedOnce'
    BY <2>1, NothingAsked DEF GateInv
  <2>4. PromptsSoFar'
    BY <2>1, <2>3 DEF GateInv, PromptsSoFar
  <2>5. OwnApproval' /\ DeniedNeverRuns'
    BY <2>1, <2>3, RunsOnItsOwn DEF GateInv, GateTypeOK
  <2> QED BY <2>2, <2>3, <2>4, <2>5 DEF GateInv
<1> QED BY <1>1, <1>2, <1>3, <1>4, <1>5, <1>6, Zenon DEF GateNext

(* A tool or a hook runs only when evaluate_request did not deny what is   *)
(* requested and, where it asks, on an approval of its own                 *)
(* (ApprovedPolicy); none is left over when the call is over, and the user *)
(* is not asked twice.  The rules may filter by tool, operation, mode,     *)
(* path, command and risk, and any of their globs may be invalid.          *)
THEOREM GateStrict == GateSpec => []GateIsStrict
<1>1. GateInv => GateIsStrict
  <2> SUFFICES ASSUME GateInv PROVE GateIsStrict
    OBVIOUS
  <2>1. NoStandingApproval
    BY DEF GateInv, NoneLeft, Asks, NoStandingApproval
  <2>2. ModesAreOrdered /\ PriorityDecides
    BY EngineIsFair DEF GateInv
  <2> QED BY <2>1, <2>2 DEF GateInv, GateIsStrict
<1> QED BY <1>1, GateStarts, GateSteps, PTL DEF GateSpec

-----------------------------------------------------------------------------
(***************************************************************************)
(* THE SETTINGS OF A RUNNING RUNTIME.                                      *)
(***************************************************************************)
(* A configuration is a record, and its effort is listed.                  *)
Fits(x) ==
  /\ x = Config(x.provider, x.name, x.spaced, x.effort)
  /\ x.effort # Unselected => x.effort \in ListedLevels(x)
FitsChoice(p) == p = Unselected \/ Fits(ApplyPreference(p))
IsFile(f) == f = [rules |-> f.rules, mode |-> f.mode, choice |-> f.choice] /\ FitsChoice(f.choice)

(* What a call has read, by where it is.                                   *)
EarlyShape(e) == e = [pc |-> e.pc, next |-> e.next, mode |-> e.mode, scope |-> e.scope, event |-> e.event]
BuiltShape(e) ==
  /\ e = [pc |-> e.pc, next |-> e.next, mode |-> e.mode, scope |-> e.scope, event |-> e.event, built |-> e.built]
  /\ Fits(e.built.model)
FileShape(e) ==
  /\ e = [pc |-> e.pc, next |-> e.next, event |-> e.event, document |-> e.document]
  /\ IsFile(e.document)
Early == {"mode", "build", "refresh", "rebuild"}
Writes == {"write model", "write policy", "write runner"}
After == {"read file", "save user", "fill user", "record"}
CallShape(e) ==
  \/ e = Idle
  \/ Fits(e.next) /\ \/ e.pc \in Early /\ EarlyShape(e)
                     \/ e.pc \in Writes \cup After /\ BuiltShape(e)
                     \/ e.pc \in {"save file", "fill file", "record"} /\ FileShape(e)

SettingsTypeOK ==
  /\ call = [c \in Callers |-> call[c]] /\ \A c \in Callers : CallShape(call[c])
  /\ alone \subseteq Callers /\ overlapped \in BOOLEAN /\ disturbed \in BOOLEAN
  /\ Fits(model) /\ Fits(runner.model) /\ IsFile(config) /\ FitsChoice(userChoice) /\ FitsChoice(sessionChoice)

(* A call counts as alone while nobody else is at work, and as long as     *)
(* nothing was disturbed, or no calls overlapped, whoever is at work does. *)
OverlapNoted ==
  /\ \A c, d \in alone : c = d
  /\ (alone # {} \/ ~disturbed \/ ~overlapped) => \A c \in Callers : Active(c) => c \in alone

(* What a call that is alone has read is still the case.                   *)
ReadIsTrue(e) ==
  /\ e.pc = "rebuild" => e.next = model /\ e.mode = policy.mode
  /\ e.pc \in Writes => e.built.rules = config.rules /\ e.built.key = KeyInUse
  /\ e.pc \in {"write model", "write policy"} => e.built.model = e.next /\ e.built.mode = e.mode
  /\ e.pc = "write policy" => model = e.next
  /\ e.pc = "write runner" => e.built.model = model /\ e.built.mode = policy.mode
LoneIsTrue == \A c \in alone : ReadIsTrue(call[c])

(* The runner agrees with the settings but while a call replaces them.     *)
Agrees == runner.model = model /\ runner.mode = policy.mode /\ runner.key = KeyInUse
InForce == Agrees /\ runner.rules = config.rules
InForceAt(e) ==
  /\ e.pc \in {"mode", "build", "save file"} \cup After => InForce
  /\ e.pc \in {"save file", "fill file"} => Agrees /\ e.document.rules = runner.rules
ForceKept ==
  ~disturbed => (Quiet => InForce) /\ \A c \in Callers : Active(c) => InForceAt(call[c])

(* The mode last asked for is the one in force, or the one being applied.  *)
AskedFor == policy.mode = asked /\ runner.mode = asked
AskedAt(e) ==
  /\ e.pc \in {"mode", "refresh", "rebuild", "save file", "fill file"} \cup After => AskedFor
  /\ e.pc \in {"build", "rebuild", "write model", "write policy"} => e.mode = asked
  /\ e.pc = "build" => policy.mode = runner.mode
  /\ e.pc \in Writes => e.built.mode = asked
  /\ e.pc = "write runner" => policy.mode = asked
ModeHeld ==
  ~overlapped => (Quiet => AskedFor) /\ \A c \in Callers : Active(c) => AskedAt(call[c])

SettingsInv == SettingsTypeOK /\ OverlapNoted /\ LoneIsTrue /\ ForceKept /\ ModeHeld

(* A preference that is saved and applied again still fits.                *)
LEMMA SavedFits ==
  ASSUME NEW x, Fits(x)
  PROVE  FitsChoice(Preference(x))
<1>1. /\ Preference(x).provider = x.provider /\ Preference(x).name = x.name /\ Preference(x).effort = x.effort
  BY DEF Preference
<1> DEFINE y == Config(x.provider, x.name, x.provider \in Namespaced, x.effort)
<1>2. ApplyPreference(Preference(x)) = y
  BY <1>1 DEF ApplyPreference
<1>3. y.provider = x.provider /\ y.name = x.name /\ y.spaced = (x.provider \in Namespaced) /\ y.effort = x.effort
  BY DEF Config
<1> HIDE DEF y
<1>4. x.effort # Unselected => x.effort \in ListedLevels(x) /\ ListedLevels(x) = ListedLevels(y)
  BY <1>3 DEF Fits, ListedLevels
<1>5. y = Config(y.provider, y.name, y.spaced, y.effort)
  BY <1>3 DEF y
<1> QED BY <1>2, <1>3, <1>4, <1>5 DEF FitsChoice, Fits

(* The model apply_model computes keeps an effort only with its model.     *)
LEMMA NextFits ==
  ASSUME NEW x, Fits(x), NEW request, Acceptable(NextModel(x, request), request)
  PROVE  Fits(NextModel(x, request))
<1> DEFINE s == IF request.provider = Unselected THEN x ELSE SelectProvider(x, request.provider)
           n == IF request.name = Unselected THEN s ELSE [s EXCEPT !.name = request.name, !.spaced = request.spaced]
           k == NextKeepingEffort(x, request)
           r == NextModel(x, request)
<1>1. x = [provider |-> x.provider, name |-> x.name, spaced |-> x.spaced, effort |-> x.effort]
  BY DEF Fits, Config
<1>2. /\ s = [provider |-> s.provider, name |-> s.name, spaced |-> s.spaced, effort |-> s.effort]
      /\ s.effort = x.effort \/ (s.provider # x.provider /\ s.effort = Unselected)
  BY <1>1 DEF SelectProvider
<1> HIDE DEF s
<1>3. /\ n = [provider |-> n.provider, name |-> n.name, spaced |-> n.spaced, effort |-> n.effort]
      /\ n.effort = s.effort /\ n.provider = s.provider
  BY <1>2
<1>4. k = [n EXCEPT !.effort = IF request.effort = "off" THEN Unselected
                               ELSE IF request.effort # Unselected THEN request.effort ELSE @]
  BY DEF NextKeepingEffort, s
<1> HIDE DEF n, k
<1>5. /\ k = [provider |-> k.provider, name |-> k.name, spaced |-> k.spaced, effort |-> k.effort]
      /\ k.provider = n.provider
      /\ k.effort = IF request.effort = "off" THEN Unselected
                    ELSE IF request.effort # Unselected THEN request.effort ELSE n.effort
  BY <1>3, <1>4
<1>6. r = IF ~SameModel(k, x) /\ request.effort = Unselected THEN [k EXCEPT !.effort = Unselected] ELSE k
  BY DEF NextModel, k
<1>7. r = [provider |-> r.provider, name |-> r.name, spaced |-> r.spaced, effort |-> r.effort]
  BY <1>5, <1>6
<1>8. request.effort \notin {Unselected, "off"} => request.effort \in ListedLevels(r)
  BY DEF Acceptable
<1> HIDE DEF r
<1>9. ASSUME r.effort # Unselected PROVE r.effort \in ListedLevels(r)
  <2>1. CASE request.effort = Unselected
    <3>1. r = k /\ SameModel(k, x)
      BY <1>5, <1>6, <1>9, <2>1
    <3>2. k.effort = x.effort
      BY <1>2, <1>3, <1>5, <1>9, <2>1, <3>1 DEF SameModel
    <3>3. ListedLevels(k) = ListedLevels(x)
      BY <3>1 DEF SameModel, ListedLevels
    <3> QED BY <1>9, <3>1, <3>2, <3>3 DEF Fits
  <2>2. CASE request.effort # Unselected
    <3>1. r = k
      BY <1>6, <2>2
    <3>2. r.effort = request.effort /\ request.effort # "off"
      BY <1>5, <1>9, <2>2, <3>1
    <3> QED BY <1>8, <2>2, <3>2
  <2> QED BY <2>1, <2>2
<1> QED BY <1>7, <1>9 DEF Fits, Config, r

(* The saved preferences, applied to a configuration that fits.            *)
LEMMA PreferredFits ==
  ASSUME SettingsTypeOK, NEW x, Fits(x)
  PROVE  Fits(Preferred(x))
BY DEF SettingsTypeOK, IsFile, FitsChoice, Preferred

(* A call moves on: its record, and nobody else's, has another place.      *)
LEMMA CallMoves ==
  ASSUME SettingsTypeOK, NEW c \in Callers, NEW e, call' = [call EXCEPT ![c] = e]
  PROVE  /\ call' = [x \in Callers |-> call'[x]] /\ call'[c] = e
         /\ \A d \in Callers \ {c} : call'[d] = call[d]
BY DEF SettingsTypeOK

(* A step of a call that others ran beside: nothing is promised.           *)
LEMMA StrangerStep ==
  ASSUME SettingsTypeOK, OverlapNoted, NEW c \in Callers, Active(c), c \notin alone,
         alone' = alone, overlapped' = overlapped, disturbed => disturbed'
  PROVE  OverlapNoted' /\ LoneIsTrue' /\ ForceKept' /\ ModeHeld'
<1>1. alone = {} /\ disturbed /\ overlapped
  BY DEF SettingsTypeOK, OverlapNoted
<1> QED BY <1>1 DEF OverlapNoted, LoneIsTrue, ForceKept, ModeHeld

(* A step of a call that is alone: what it has done is all there is.       *)
LEMMA LoneStep ==
  ASSUME SettingsTypeOK, OverlapNoted, NEW c \in Callers, Active(c), c \in alone,
         alone' = alone, overlapped' = overlapped,
         \A d \in Callers \ {c} : call'[d] = call[d],
         ReadIsTrue(call[c])',
         ~disturbed' => IF Active(c)' THEN InForceAt(call[c])' ELSE InForce',
         ~overlapped' => IF Active(c)' THEN AskedAt(call[c])' ELSE AskedFor'
  PROVE  OverlapNoted' /\ LoneIsTrue' /\ ForceKept' /\ ModeHeld'
<1>1. alone = {c} /\ \A d \in Callers \ {c} : ~Active(d)
  BY DEF OverlapNoted
<1>2. \A d \in Callers \ {c} : ~Active(d)'
  BY <1>1 DEF Active
<1>3. OverlapNoted'
  BY <1>1, <1>2 DEF OverlapNoted
<1>4. LoneIsTrue'
  BY <1>1 DEF LoneIsTrue
<1>5. Quiet' <=> ~Active(c)'
  BY <1>2 DEF Quiet
<1>6. ForceKept'
  BY <1>2, <1>5 DEF ForceKept
<1>7. ModeHeld'
  BY <1>2, <1>5 DEF ModeHeld
<1> QED BY <1>3, <1>4, <1>6, <1>7

(* A call begins.                                                          *)
LEMMA EnterKeeps ==
  ASSUME SettingsInv, NEW c \in Callers, NEW e, Enter(c, e), e.pc \in Early, EarlyShape(e), Fits(e.next),
         Quiet /\ ~disturbed => InForceAt(e)', Quiet /\ ~overlapped => AskedAt(e)', e.pc # "rebuild",
         UNCHANGED <<model, runner, config, userChoice, sessionChoice>>
  PROVE  SettingsInv'
<1>1. /\ call' = [call EXCEPT ![c] = e] /\ overlapped' = (overlapped \/ ~Quiet) /\ disturbed' = (disturbed \/ ~Quiet)
      /\ alone' = IF Quiet THEN {c} ELSE {}
  BY DEF Enter
<1>2. /\ call' = [x \in Callers |-> call'[x]] /\ call'[c] = e
      /\ \A d \in Callers \ {c} : call'[d] = call[d]
  BY <1>1, CallMoves DEF SettingsInv
<1>3. SettingsTypeOK'
  <2>1. \A d \in Callers : CallShape(call'[d])
    BY <1>2 DEF SettingsInv, SettingsTypeOK, CallShape
  <2>2. alone' \subseteq Callers /\ overlapped' \in BOOLEAN /\ disturbed' \in BOOLEAN
    BY <1>1 DEF SettingsInv, SettingsTypeOK
  <2> QED BY <1>2, <2>1, <2>2 DEF SettingsInv, SettingsTypeOK
<1>4. CASE ~Quiet
  <2>1. alone' = {} /\ disturbed' /\ overlapped'
    BY <1>1, <1>4
  <2> QED BY <1>3, <2>1 DEF SettingsInv, OverlapNoted, LoneIsTrue, ForceKept, ModeHeld
<1>5. CASE Quiet
  <2>1. alone' = {c} /\ disturbed' = disturbed /\ overlapped' = overlapped
    BY <1>1, <1>5 DEF SettingsInv, SettingsTypeOK
  <2>2. \A d \in Callers \ {c} : ~Active(d)'
    BY <1>2, <1>5 DEF Quiet, Active
  <2>3. Active(c)'
    BY <1>2 DEF Active, Early
  <2>4. OverlapNoted'
    BY <2>1, <2>2 DEF OverlapNoted
  <2>5. LoneIsTrue'
    BY <1>2, <2>1 DEF LoneIsTrue, ReadIsTrue, Early, Writes
  <2>6. ForceKept' /\ ModeHeld'
    BY <1>2, <1>5, <2>1, <2>2, <2>3 DEF ForceKept, ModeHeld, Quiet
  <2> QED BY <1>3, <2>4, <2>5, <2>6 DEF SettingsInv
<1> QED BY <1>4, <1>5

(* The calls that begin.                                                   *)
LEMMA BeginsKeep ==
  ASSUME SettingsInv, NEW c \in Callers,
         \/ \E request \in Requests : UpdateModel(c, request)
         \/ \E mode \in SettingModes : UpdatePermissions(c, mode)
         \/ \E stored \in {"none", "new"} : ChangeCredential(c, stored)
         \/ ResumeSettings(c)
  PROVE  SettingsInv'
<1>1. Fits(model)
  BY DEF SettingsInv, SettingsTypeOK
<1>2. Quiet /\ ~disturbed => InForce
  BY DEF SettingsInv, ForceKept
<1>3. Quiet /\ ~overlapped => AskedFor
  BY DEF SettingsInv, ModeHeld
<1>4. ASSUME NEW request \in Requests, UpdateModel(c, request) PROVE SettingsInv'
  <2>1. PICK e : e = [pc |-> "mode", next |-> NextModel(model, request), mode |-> "", scope |-> request.scope, event |-> request.event]
    OBVIOUS
  <2>2. /\ Enter(c, e) /\ Acceptable(NextModel(model, request), request)
        /\ UNCHANGED <<model, policy, runner, config, userChoice, sessionChoice, environment, key, asked>>
    BY <1>4, <2>1 DEF UpdateModel
  <2>3. Fits(NextModel(model, request))
    BY <1>1, <2>2, NextFits
  <2>4. e.pc = "mode" /\ e.next = NextModel(model, request) /\ EarlyShape(e)
    BY <2>1 DEF EarlyShape
  <2>5. Quiet /\ ~disturbed => InForceAt(e)'
    BY <1>2, <2>2, <2>4 DEF InForceAt, InForce, Agrees, KeyInUse
  <2>6. Quiet /\ ~overlapped => AskedAt(e)'
    BY <1>3, <2>2, <2>4 DEF AskedAt, AskedFor, Writes
  <2> QED BY <2>2, <2>3, <2>4, <2>5, <2>6, EnterKeeps DEF Early
<1>5. ASSUME NEW mode \in SettingModes, UpdatePermissions(c, mode) PROVE SettingsInv'
  <2>1. PICK e : e = [pc |-> "build", next |-> model, mode |-> mode, scope |-> "none", event |-> FALSE]
    OBVIOUS
  <2>2. /\ Enter(c, e) /\ asked' = mode
        /\ UNCHANGED <<model, policy, runner, config, userChoice, sessionChoice, environment, key>>
    BY <1>5, <2>1 DEF UpdatePermissions
  <2>4. e.pc = "build" /\ e.next = model /\ e.mode = mode /\ EarlyShape(e)
    BY <2>1 DEF EarlyShape
  <2>5. Quiet /\ ~disturbed => InForceAt(e)'
    BY <1>2, <2>2, <2>4 DEF InForceAt, InForce, Agrees, KeyInUse
  <2>6. Quiet /\ ~overlapped => AskedAt(e)'
    BY <1>3, <2>2, <2>4 DEF AskedAt, AskedFor, Writes, After
  <2> QED BY <1>1, <2>2, <2>4, <2>5, <2>6, EnterKeeps DEF Early
<1>6. ASSUME NEW stored \in {"none", "new"}, ChangeCredential(c, stored) PROVE SettingsInv'
  <2>1. PICK e : e = [pc |-> "refresh", next |-> model, mode |-> "", scope |-> "none", event |-> FALSE]
    OBVIOUS
  <2>2. /\ Enter(c, e)
        /\ UNCHANGED <<model, policy, runner, config, userChoice, sessionChoice, asked>>
    BY <1>6, <2>1 DEF ChangeCredential
  <2>4. e.pc = "refresh" /\ e.next = model /\ EarlyShape(e)
    BY <2>1 DEF EarlyShape
  <2>5. Quiet /\ ~disturbed => InForceAt(e)'
    BY <2>4 DEF InForceAt, After
  <2>6. Quiet /\ ~overlapped => AskedAt(e)'
    BY <1>3, <2>2, <2>4 DEF AskedAt, AskedFor, Writes
  <2> QED BY <1>1, <2>2, <2>4, <2>5, <2>6, EnterKeeps DEF Early
<1>7. ASSUME ResumeSettings(c) PROVE SettingsInv'
  <2>1. PICK e : e = [pc |-> "mode", next |-> Resumed, mode |-> "", scope |-> "none", event |-> FALSE]
    OBVIOUS
  <2>2. /\ Enter(c, e)
        /\ UNCHANGED <<model, policy, runner, config, userChoice, sessionChoice, environment, key, asked>>
    BY <1>7, <2>1 DEF ResumeSettings
  <2>3. Fits(Resumed)
    <3>1. Fits(Preferred(model)) /\ FitsChoice(sessionChoice)
      BY <1>1, PreferredFits DEF SettingsInv, SettingsTypeOK
    <3> QED BY <3>1 DEF Resumed, FitsChoice
  <2>4. e.pc = "mode" /\ e.next = Resumed /\ EarlyShape(e)
    BY <2>1 DEF EarlyShape
  <2>5. Quiet /\ ~disturbed => InForceAt(e)'
    BY <1>2, <2>2, <2>4 DEF InForceAt, InForce, Agrees, KeyInUse
  <2>6. Quiet /\ ~overlapped => AskedAt(e)'
    BY <1>3, <2>2, <2>4 DEF AskedAt, AskedFor, Writes
  <2> QED BY <2>2, <2>3, <2>4, <2>5, <2>6, EnterKeeps DEF Early
<1> QED BY <1>4, <1>5, <1>6, <1>7

(* A step of a call that is at work: the types, and what is in force when  *)
(* it is alone.                                                            *)
LEMMA WorkKeeps ==
  ASSUME SettingsInv, NEW c \in Callers, Active(c), NEW e, call' = [call EXCEPT ![c] = e], CallShape(e),
         alone' = alone, overlapped' = overlapped, disturbed' \in BOOLEAN,
         Fits(model'), Fits(runner'.model), IsFile(config'), FitsChoice(userChoice'), FitsChoice(sessionChoice'),
         c \notin alone => (disturbed => disturbed'),
         c \in alone =>
           /\ ReadIsTrue(e)'
           /\ ~disturbed' => IF e.pc # "idle" THEN InForceAt(e)' ELSE InForce'
           /\ ~overlapped => IF e.pc # "idle" THEN AskedAt(e)' ELSE AskedFor'
  PROVE  SettingsInv'
<1>1. /\ call' = [x \in Callers |-> call'[x]] /\ call'[c] = e
      /\ \A d \in Callers \ {c} : call'[d] = call[d]
  BY CallMoves DEF SettingsInv
<1>2. SettingsTypeOK'
  <2>1. \A d \in Callers : CallShape(call'[d])
    BY <1>1 DEF SettingsInv, SettingsTypeOK
  <2> QED BY <1>1, <2>1 DEF SettingsInv, SettingsTypeOK
<1>3. CASE c \notin alone
  BY <1>2, <1>3, StrangerStep DEF SettingsInv
<1>4. CASE c \in alone
  <2>1. ReadIsTrue(call[c])'
    BY <1>1, <1>4
  <2>2. ~disturbed' => IF Active(c)' THEN InForceAt(call[c])' ELSE InForce'
    BY <1>1, <1>4 DEF Active
  <2>3. ~overlapped' => IF Active(c)' THEN AskedAt(call[c])' ELSE AskedFor'
    BY <1>1, <1>4 DEF Active
  <2> QED BY <1>1, <1>2, <1>4, <2>1, <2>2, <2>3, LoneStep DEF SettingsInv
<1> QED BY <1>3, <1>4

(* What the invariant says of a call at work.                              *)
LEMMA AtWork ==
  ASSUME SettingsInv, NEW c \in Callers, call[c].pc # "idle"
  PROVE  /\ Active(c) /\ CallShape(call[c]) /\ call[c] # Idle
         /\ Fits(model) /\ Fits(runner.model) /\ IsFile(config) /\ FitsChoice(userChoice) /\ FitsChoice(sessionChoice)
         /\ disturbed \in BOOLEAN
         /\ c \in alone => ReadIsTrue(call[c])
         /\ ~disturbed => InForceAt(call[c])
         /\ ~overlapped => AskedAt(call[c])
<1>1. Active(c) /\ call[c] # Idle
  BY DEF Active, Idle
<1>2. /\ CallShape(call[c]) /\ disturbed \in BOOLEAN
      /\ Fits(model) /\ Fits(runner.model) /\ IsFile(config) /\ FitsChoice(userChoice) /\ FitsChoice(sessionChoice)
  BY DEF SettingsInv, SettingsTypeOK
<1>3. c \in alone => ReadIsTrue(call[c])
  BY DEF SettingsInv, LoneIsTrue
<1>4. ~disturbed => InForceAt(call[c])
  BY <1>1 DEF SettingsInv, ForceKept
<1>5. ~overlapped => AskedAt(call[c])
  BY <1>1 DEF SettingsInv, ModeHeld
<1> QED BY <1>1, <1>2, <1>3, <1>4, <1>5

(* A field of a call's record is set before it has built anything.         *)
LEMMA PcSet ==
  ASSUME NEW e, EarlyShape(e), NEW v
  PROVE  \E f : f = [e EXCEPT !.pc = v] /\ EarlyShape(f) /\ f.pc = v /\ f.next = e.next /\ f.mode = e.mode
<1>1. PICK f : f = [pc |-> v, next |-> e.next, mode |-> e.mode, scope |-> e.scope, event |-> e.event]
  OBVIOUS
<1>2. f = [e EXCEPT !.pc = v] /\ EarlyShape(f) /\ f.pc = v /\ f.next = e.next /\ f.mode = e.mode
  BY <1>1 DEF EarlyShape
<1> QED BY <1>2

(* The same of the configuration apply_model works on.                     *)
LEMMA NextSet ==
  ASSUME NEW e, EarlyShape(e), NEW v
  PROVE  \E f : f = [e EXCEPT !.next = v] /\ EarlyShape(f) /\ f.pc = e.pc /\ f.next = v /\ f.mode = e.mode
<1>1. PICK f : f = [pc |-> e.pc, next |-> v, mode |-> e.mode, scope |-> e.scope, event |-> e.event]
  OBVIOUS
<1>2. f = [e EXCEPT !.next = v] /\ EarlyShape(f) /\ f.pc = e.pc /\ f.next = v /\ f.mode = e.mode
  BY <1>1 DEF EarlyShape
<1> QED BY <1>2

(* The same of the permission mode the call has read.                      *)
LEMMA ModeSet ==
  ASSUME NEW e, EarlyShape(e), NEW v
  PROVE  \E f : f = [e EXCEPT !.mode = v] /\ EarlyShape(f) /\ f.pc = e.pc /\ f.next = e.next /\ f.mode = v
<1>1. PICK f : f = [pc |-> e.pc, next |-> e.next, mode |-> v, scope |-> e.scope, event |-> e.event]
  OBVIOUS
<1>2. f = [e EXCEPT !.mode = v] /\ EarlyShape(f) /\ f.pc = e.pc /\ f.next = e.next /\ f.mode = v
  BY <1>1 DEF EarlyShape
<1> QED BY <1>2

(* The steps before the change: the mode is read, the runner is built.     *)
LEMMA ReadsKeep ==
  ASSUME SettingsInv, NEW c \in Callers, ReadMode(c) \/ ReadForRefresh(c) \/ Build(c)
  PROVE  SettingsInv'
<1> DEFINE o == call[c]
<1>0. o.pc \in Early
  BY DEF ReadMode, ReadForRefresh, Build, Early
<1>1. /\ Active(c) /\ CallShape(o) /\ o # Idle /\ disturbed \in BOOLEAN
      /\ Fits(model) /\ Fits(runner.model) /\ IsFile(config) /\ FitsChoice(userChoice) /\ FitsChoice(sessionChoice)
      /\ c \in alone => ReadIsTrue(o)
      /\ ~disturbed => InForceAt(o)
      /\ ~overlapped => AskedAt(o)
  BY <1>0, AtWork DEF Early
<1>2. EarlyShape(o) /\ Fits(o.next)
  BY <1>0, <1>1 DEF CallShape, Early, Writes, After
<1>3. call = [x \in Callers |-> call[x]]
  BY DEF SettingsInv, SettingsTypeOK
<1>4. CASE ReadMode(c)
  <2>0. /\ o.pc = "mode" /\ call' = [call EXCEPT ![c].mode = policy.mode, ![c].pc = "build"]
        /\ UNCHANGED <<model, policy, runner, config, userChoice, sessionChoice, environment, key, overlapped, disturbed, alone, asked>>
    BY <1>4 DEF ReadMode
  <2>1. PICK f : f = [o EXCEPT !.mode = policy.mode] /\ EarlyShape(f) /\ f.pc = o.pc /\ f.next = o.next /\ f.mode = policy.mode
    BY <1>2, ModeSet
  <2>3. PICK e : e = [f EXCEPT !.pc = "build"] /\ EarlyShape(e) /\ e.pc = "build" /\ e.next = f.next /\ e.mode = f.mode
    <3>1. EarlyShape(f)
      BY <2>1
    <3> QED BY <3>1, PcSet
  <2>2. call' = [call EXCEPT ![c] = e]
    BY <1>3, <2>0, <2>1, <2>3
  <2>4. CallShape(e)
    BY <1>2, <2>1, <2>3 DEF CallShape, Early
  <2>5. ReadIsTrue(e)'
    BY <2>0, <2>1, <2>3 DEF ReadIsTrue, Writes
  <2>6. ~disturbed' => InForceAt(e)'
    BY <1>1, <2>0, <2>1, <2>3 DEF InForceAt, InForce, Agrees, KeyInUse
  <2>7. ~overlapped => AskedAt(e)'
    BY <1>1, <2>0, <2>1, <2>3 DEF AskedAt, AskedFor, Writes, After
  <2> QED BY <1>1, <2>2, <2>0, <2>1, <2>3, <2>4, <2>5, <2>6, <2>7, WorkKeeps
<1>5. CASE ReadForRefresh(c)
  <2>0. /\ o.pc = "refresh" /\ call' = [call EXCEPT ![c].next = model, ![c].mode = policy.mode, ![c].pc = "rebuild"]
        /\ UNCHANGED <<model, policy, runner, config, userChoice, sessionChoice, environment, key, overlapped, disturbed, alone, asked>>
    BY <1>5 DEF ReadForRefresh
  <2>1. PICK f : f = [o EXCEPT !.next = model] /\ EarlyShape(f) /\ f.pc = o.pc /\ f.next = model /\ f.mode = o.mode
    BY <1>2, NextSet
  <2>3. PICK g : g = [f EXCEPT !.mode = policy.mode] /\ EarlyShape(g) /\ g.pc = f.pc /\ g.next = f.next /\ g.mode = policy.mode
    <3>1. EarlyShape(f)
      BY <2>1
    <3> QED BY <3>1, ModeSet
  <2>8. PICK e : e = [g EXCEPT !.pc = "rebuild"] /\ EarlyShape(e) /\ e.pc = "rebuild" /\ e.next = g.next /\ e.mode = g.mode
    <3>1. EarlyShape(g)
      BY <2>3
    <3> QED BY <3>1, PcSet
  <2>2. call' = [call EXCEPT ![c] = e]
    BY <1>3, <2>0, <2>1, <2>3, <2>8
  <2>4. CallShape(e)
    BY <1>1, <2>1, <2>3, <2>8 DEF CallShape, Early
  <2>5. ReadIsTrue(e)'
    BY <2>0, <2>1, <2>3, <2>8 DEF ReadIsTrue, Writes
  <2>6. ~disturbed' => InForceAt(e)'
    BY <2>0, <2>1, <2>3, <2>8 DEF InForceAt, After
  <2>7. ~overlapped => AskedAt(e)'
    BY <1>1, <2>0, <2>1, <2>3, <2>8 DEF AskedAt, AskedFor, Writes, After
  <2> QED BY <1>1, <2>2, <2>0, <2>1, <2>3, <2>8, <2>4, <2>5, <2>6, <2>7, WorkKeeps
<1>6. CASE Build(c)
  <2>0. /\ o.pc \in {"build", "rebuild"}
        /\ UNCHANGED <<model, policy, runner, config, userChoice, sessionChoice, environment, key, overlapped, alone>>
    BY <1>6 DEF Build
  <2>1. ASSUME Reply(c), disturbed' = (disturbed \/ o.pc = "rebuild"), asked' = policy.mode PROVE SettingsInv'
    <3>1. call' = [call EXCEPT ![c] = Idle] /\ CallShape(Idle) /\ Idle.pc = "idle"
      BY <2>1 DEF Reply, CallShape, Idle
    <3>2. ReadIsTrue(Idle)'
      BY <3>1 DEF ReadIsTrue, Writes
    <3>3. ~disturbed' => InForce'
      BY <1>1, <2>0, <2>1 DEF InForceAt, InForce, Agrees, KeyInUse
    <3>4. ~overlapped => AskedFor'
      BY <1>1, <2>0, <2>1 DEF AskedAt, AskedFor
    <3>5. disturbed' \in BOOLEAN /\ (disturbed => disturbed')
      BY <1>1, <2>1
    <3> QED BY <1>1, <2>0, <3>1, <3>2, <3>3, <3>4, <3>5, WorkKeeps
  <2>2. ASSUME UNCHANGED <<disturbed, asked>>,
               call' = [call EXCEPT ![c] = [pc |-> IF o.pc = "build" THEN "write model" ELSE "write runner",
                          next |-> o.next, mode |-> o.mode, scope |-> o.scope, event |-> o.event, built |-> Built(o.next, o.mode)]]
        PROVE  SettingsInv'
    <3>1. PICK e : e = [pc |-> IF o.pc = "build" THEN "write model" ELSE "write runner",
                          next |-> o.next, mode |-> o.mode, scope |-> o.scope, event |-> o.event, built |-> Built(o.next, o.mode)]
      OBVIOUS
    <3>2. /\ e.pc = (IF o.pc = "build" THEN "write model" ELSE "write runner") /\ e.next = o.next /\ e.mode = o.mode
          /\ e.built = Built(o.next, o.mode)
      BY <3>1
    <3>3. /\ e.built.model = o.next /\ e.built.mode = o.mode /\ e.built.rules = config.rules /\ e.built.key = KeyInUse
      <4>1. \A x, m : LET b == Built(x, m) IN b.model = x /\ b.mode = m /\ b.rules = config.rules /\ b.key = KeyInUse
        BY DEF Built
      <4>2. e.built = Built(o.next, o.mode)
        BY <3>2
      <4> HIDE DEF o
      <4> QED BY <4>1, <4>2
    <3>4. CallShape(e)
      BY <1>2, <3>1, <3>2, <3>3 DEF CallShape, BuiltShape, Writes
    <3>5. c \in alone => ReadIsTrue(e)'
      BY <1>1, <2>0, <3>2, <3>3 DEF ReadIsTrue, Writes, KeyInUse
    <3>6. InForceAt(e)'
      BY <3>2 DEF InForceAt, After
    <3>7. ~overlapped => AskedAt(e)'
      BY <1>1, <2>0, <2>2, <3>2, <3>3 DEF AskedAt, AskedFor, After, Writes
    <3>8. call' = [call EXCEPT ![c] = e] /\ e.pc # "idle"
      BY <2>2, <3>1, <3>2
    <3> QED BY <1>1, <2>0, <2>2, <3>4, <3>5, <3>6, <3>7, <3>8, WorkKeeps
  <2> QED BY <1>6, <2>1, <2>2 DEF Build
<1> QED BY <1>4, <1>5, <1>6

(* A call with a built runner goes on to another place.                    *)
LEMMA BuiltMoves ==
  ASSUME SettingsTypeOK, NEW c \in Callers, BuiltShape(call[c]), Fits(call[c].next), NEW p \in Writes \cup After, Goto(c, p)
  PROVE  \E e : /\ call' = [call EXCEPT ![c] = e] /\ e.pc = p /\ CallShape(e)
                /\ e.next = call[c].next /\ e.mode = call[c].mode /\ e.built = call[c].built
<1> DEFINE o == call[c]
<1>1. PICK e : e = [pc |-> p, next |-> o.next, mode |-> o.mode, scope |-> o.scope, event |-> o.event, built |-> o.built]
  OBVIOUS
<1>2. call = [x \in Callers |-> call[x]]
  BY DEF SettingsTypeOK
<1>3. call' = [call EXCEPT ![c] = e]
  <2>1. e = [o EXCEPT !.pc = p]
    BY <1>1 DEF BuiltShape
  <2>2. call' = [x \in Callers |-> IF x = c THEN [o EXCEPT !.pc = p] ELSE call[x]]
    BY <1>2 DEF Goto
  <2> QED BY <1>2, <2>1, <2>2
<1>4. /\ e.pc = p /\ e.next = o.next /\ e.mode = o.mode /\ e.built = o.built
      /\ e = [pc |-> e.pc, next |-> e.next, mode |-> e.mode, scope |-> e.scope, event |-> e.event, built |-> e.built]
  BY <1>1
<1>5. CallShape(e)
  BY <1>4 DEF CallShape, BuiltShape
<1> QED BY <1>3, <1>4, <1>5

(* The change itself, one lock at a time.                                  *)
LEMMA WritesKeep ==
  ASSUME SettingsInv, NEW c \in Callers, WriteModel(c) \/ WritePolicy(c) \/ WriteRunner(c)
  PROVE  SettingsInv'
<1> DEFINE o == call[c]
<1>0. o.pc \in Writes
  BY DEF WriteModel, WritePolicy, WriteRunner, Writes
<1>1. /\ Active(c) /\ CallShape(o) /\ o # Idle /\ disturbed \in BOOLEAN
      /\ Fits(model) /\ Fits(runner.model) /\ IsFile(config) /\ FitsChoice(userChoice) /\ FitsChoice(sessionChoice)
      /\ c \in alone => ReadIsTrue(o)
      /\ ~overlapped => AskedAt(o)
  BY <1>0, AtWork DEF Writes
<1>2. BuiltShape(o) /\ Fits(o.next) /\ Fits(o.built.model)
  BY <1>0, <1>1 DEF CallShape, Early, Writes, After, BuiltShape
<1>3. SettingsTypeOK
  BY DEF SettingsInv
<1>4. CASE WriteModel(c)
  <2>1. /\ o.pc = "write model" /\ model' = o.next /\ Goto(c, "write policy")
        /\ UNCHANGED <<policy, runner, config, userChoice, sessionChoice, environment, key, overlapped, disturbed, alone, asked>>
    BY <1>4 DEF WriteModel
  <2>2. PICK e : /\ call' = [call EXCEPT ![c] = e] /\ e.pc = "write policy" /\ CallShape(e)
                 /\ e.next = o.next /\ e.mode = o.mode /\ e.built = o.built
    <3>1. "write policy" \in Writes \cup After
      BY DEF Writes
    <3> QED BY <1>2, <1>3, <2>1, <3>1, BuiltMoves
  <2>3. c \in alone => ReadIsTrue(e)'
    BY <1>1, <2>1, <2>2 DEF ReadIsTrue, Writes, KeyInUse
  <2>4. InForceAt(e)'
    BY <2>2 DEF InForceAt, After
  <2>5. ~overlapped => AskedAt(e)'
    BY <1>1, <2>1, <2>2 DEF AskedAt, AskedFor, Writes, After
  <2> QED BY <1>1, <1>2, <2>1, <2>2, <2>3, <2>4, <2>5, WorkKeeps
<1>5. CASE WritePolicy(c)
  <2>1. /\ o.pc = "write policy" /\ policy' = [mode |-> o.mode, rules |-> FALSE] /\ Goto(c, "write runner")
        /\ UNCHANGED <<model, runner, config, userChoice, sessionChoice, environment, key, overlapped, disturbed, alone, asked>>
    BY <1>5 DEF WritePolicy
  <2>2. PICK e : /\ call' = [call EXCEPT ![c] = e] /\ e.pc = "write runner" /\ CallShape(e)
                 /\ e.next = o.next /\ e.mode = o.mode /\ e.built = o.built
    <3>1. "write runner" \in Writes \cup After
      BY DEF Writes
    <3> QED BY <1>2, <1>3, <2>1, <3>1, BuiltMoves
  <2>0. policy'.mode = o.mode
    BY <2>1
  <2>3. c \in alone => ReadIsTrue(e)'
    BY <1>1, <2>0, <2>1, <2>2 DEF ReadIsTrue, Writes, KeyInUse
  <2>4. InForceAt(e)'
    BY <2>2 DEF InForceAt, After
  <2>5. ~overlapped => AskedAt(e)'
    BY <1>1, <2>0, <2>1, <2>2 DEF AskedAt, AskedFor, Writes, After
  <2> QED BY <1>1, <2>1, <2>2, <2>3, <2>4, <2>5, WorkKeeps
<1>6. CASE WriteRunner(c)
  <2>1. /\ o.pc = "write runner" /\ runner' = o.built /\ Goto(c, NextAfterRunner(c)) /\ disturbed' = (disturbed /\ c \notin alone)
        /\ UNCHANGED <<model, policy, config, userChoice, sessionChoice, environment, key, overlapped, alone, asked>>
    BY <1>6 DEF WriteRunner
  <2>2. NextAfterRunner(c) \in {"read file", "save user", "record"}
    BY DEF NextAfterRunner
  <2>3. PICK e : /\ call' = [call EXCEPT ![c] = e] /\ e.pc = NextAfterRunner(c) /\ CallShape(e)
                 /\ e.next = o.next /\ e.mode = o.mode /\ e.built = o.built
    BY <1>2, <1>3, <2>1, <2>2, BuiltMoves DEF After
  <2>4. ReadIsTrue(e)'
    BY <2>2, <2>3 DEF ReadIsTrue, Writes
  <2>5. c \in alone => InForceAt(e)'
    BY <1>1, <2>1, <2>2, <2>3 DEF ReadIsTrue, InForceAt, InForce, Agrees, KeyInUse, After, Writes
  <2>6. ~overlapped => AskedAt(e)'
    BY <1>1, <2>1, <2>2, <2>3 DEF AskedAt, AskedFor, Writes, After
  <2>7. e.pc # "idle" /\ disturbed' \in BOOLEAN /\ (c \notin alone => (disturbed => disturbed'))
    BY <1>1, <2>1, <2>2, <2>3
  <2> QED BY <1>1, <1>2, <2>1, <2>3, <2>4, <2>5, <2>6, <2>7, WorkKeeps
<1> QED BY <1>4, <1>5, <1>6

(* A call that has read the file goes on to another place.                 *)
LEMMA FileMoves ==
  ASSUME SettingsTypeOK, NEW c \in Callers, FileShape(call[c]), Fits(call[c].next),
         NEW p \in {"save file", "fill file", "record"}, Goto(c, p)
  PROVE  \E e : /\ call' = [call EXCEPT ![c] = e] /\ e.pc = p /\ CallShape(e)
                /\ e.next = call[c].next /\ e.document = call[c].document
<1> DEFINE o == call[c]
<1>1. PICK e : e = [pc |-> p, next |-> o.next, event |-> o.event, document |-> o.document]
  OBVIOUS
<1>2. call = [x \in Callers |-> call[x]]
  BY DEF SettingsTypeOK
<1>3. call' = [call EXCEPT ![c] = e]
  <2>1. e = [o EXCEPT !.pc = p]
    <3>1. o = [pc |-> o.pc, next |-> o.next, event |-> o.event, document |-> o.document]
      BY DEF FileShape
    <3>2. DOMAIN o = {"pc", "next", "event", "document"} /\ DOMAIN e = {"pc", "next", "event", "document"}
      BY <1>1, <3>1
    <3>3. e.pc = p /\ e.next = o.next /\ e.event = o.event /\ e.document = o.document
      BY <1>1
    <3>4. e = [x \in DOMAIN e |-> e[x]] /\ o = [x \in DOMAIN o |-> o[x]]
      BY <1>1, <3>1
    <3> HIDE DEF o
    <3>5. e = [x \in {"pc", "next", "event", "document"} |-> IF x = "pc" THEN p ELSE o[x]]
      BY <3>2, <3>3, <3>4
    <3> QED BY <3>2, <3>4, <3>5
  <2>2. call' = [x \in Callers |-> IF x = c THEN [o EXCEPT !.pc = p] ELSE call[x]]
    BY <1>2 DEF Goto
  <2> QED BY <1>2, <2>1, <2>2
<1>4. /\ e.pc = p /\ e.next = o.next /\ e.document = o.document
      /\ e = [pc |-> e.pc, next |-> e.next, event |-> e.event, document |-> e.document]
  BY <1>1
<1>5. CallShape(e)
  BY <1>4 DEF CallShape, FileShape
<1> QED BY <1>3, <1>4, <1>5

(* A call at work returns, and what is in force stays so.                  *)
LEMMA ReplyKeeps ==
  ASSUME SettingsInv, NEW c \in Callers, call[c].pc \in After, Reply(c), FitsChoice(sessionChoice'),
         UNCHANGED <<model, policy, runner, config, userChoice, environment, key, overlapped, disturbed, alone, asked>>
  PROVE  SettingsInv'
<1> DEFINE o == call[c]
<1>1. /\ Active(c) /\ CallShape(o) /\ o # Idle /\ disturbed \in BOOLEAN
      /\ Fits(model) /\ Fits(runner.model) /\ IsFile(config) /\ FitsChoice(userChoice) /\ FitsChoice(sessionChoice)
      /\ ~disturbed => InForceAt(o)
      /\ ~overlapped => AskedAt(o)
  BY AtWork DEF After
<1>2. call' = [call EXCEPT ![c] = Idle] /\ CallShape(Idle) /\ Idle.pc = "idle"
  BY DEF Reply, CallShape, Idle
<1>3. ReadIsTrue(Idle)'
  BY <1>2 DEF ReadIsTrue, Writes
<1>4. ~disturbed' => InForce'
  BY <1>1 DEF InForceAt, InForce, Agrees, KeyInUse
<1>5. ~overlapped => AskedFor'
  BY <1>1 DEF AskedAt, AskedFor
<1> QED BY <1>1, <1>2, <1>3, <1>4, <1>5, WorkKeeps

(* The choice is saved for the user, and the session is told.              *)
LEMMA UserSaved ==
  ASSUME SettingsInv, NEW c \in Callers, SaveUser(c) \/ FillUser(c) \/ RecordChange(c)
  PROVE  SettingsInv'
<1> DEFINE o == call[c]
<1>0. o.pc \in After
  BY DEF SaveUser, FillUser, RecordChange, After
<1>1. /\ Active(c) /\ CallShape(o) /\ o # Idle /\ disturbed \in BOOLEAN
      /\ Fits(model) /\ Fits(runner.model) /\ IsFile(config) /\ FitsChoice(userChoice) /\ FitsChoice(sessionChoice)
      /\ ~disturbed => InForceAt(o)
      /\ ~overlapped => AskedAt(o)
  BY <1>0, AtWork DEF After
<1>2. Fits(o.next) /\ (o.pc # "record" => BuiltShape(o))
  BY <1>0, <1>1 DEF CallShape, Early, Writes, After
<1>3. SettingsTypeOK
  BY DEF SettingsInv
<1>4. FitsChoice(Preference(o.next))
  BY <1>2, SavedFits
<1>5. ASSUME NEW p \in After, o.pc # "record", Goto(c, p), FitsChoice(userChoice'),
             UNCHANGED <<model, policy, runner, config, sessionChoice, environment, key, overlapped, disturbed, alone, asked>>
      PROVE  SettingsInv'
  <2>1. p \in Writes \cup After
    BY <1>5
  <2>2. PICK e : /\ call' = [call EXCEPT ![c] = e] /\ e.pc = p /\ CallShape(e)
                 /\ e.next = o.next /\ e.mode = o.mode /\ e.built = o.built
    BY <1>2, <1>3, <1>5, <2>1, BuiltMoves
  <2>3. ReadIsTrue(e)'
    BY <2>2 DEF ReadIsTrue, Writes, After
  <2>4. ~disturbed' => InForceAt(e)'
    BY <1>0, <1>1, <1>5, <2>2 DEF InForceAt, InForce, Agrees, KeyInUse, After
  <2>5. ~overlapped => AskedAt(e)'
    BY <1>0, <1>1, <1>5, <2>2 DEF AskedAt, AskedFor, Writes, After
  <2>6. e.pc # "idle"
    BY <2>2 DEF After
  <2> QED BY <1>1, <1>5, <2>2, <2>3, <2>4, <2>5, <2>6, WorkKeeps
<1>6. CASE SaveUser(c)
  <2>1. /\ o.pc = "save user"
        /\ UNCHANGED <<model, policy, runner, config, sessionChoice, environment, key, overlapped, disturbed, alone, asked>>
    BY <1>6 DEF SaveUser
  <2>2. CASE userChoice' = Unselected /\ Goto(c, "fill user")
    BY <1>5, <2>1, <2>2 DEF FitsChoice, After
  <2>3. CASE UNCHANGED userChoice /\ Reply(c)
    BY <1>0, <1>1, <2>1, <2>3, ReplyKeeps
  <2> QED BY <1>6, <2>2, <2>3 DEF SaveUser
<1>7. CASE FillUser(c)
  <2>1. /\ o.pc = "fill user" /\ userChoice' = Preference(o.next) /\ Goto(c, "record")
        /\ UNCHANGED <<model, policy, runner, config, sessionChoice, environment, key, overlapped, disturbed, alone, asked>>
    BY <1>7 DEF FillUser
  <2> QED BY <1>4, <1>5, <2>1 DEF After
<1>8. CASE RecordChange(c)
  <2>1. /\ sessionChoice' \in {sessionChoice, Preference(o.next)} /\ Reply(c)
        /\ UNCHANGED <<model, policy, runner, config, userChoice, environment, key, overlapped, disturbed, alone, asked>>
    BY <1>8 DEF RecordChange
  <2> QED BY <1>0, <1>1, <1>4, <2>1, ReplyKeeps
<1> QED BY <1>6, <1>7, <1>8

(* The choice is saved for the project: the file is read, emptied, filled. *)
LEMMA ProjectSaved ==
  ASSUME SettingsInv, NEW c \in Callers, ReadConfigFile(c) \/ SaveFile(c) \/ FillFile(c)
  PROVE  SettingsInv'
<1> DEFINE o == call[c]
<1>0. o.pc \in {"read file", "save file", "fill file"}
  BY DEF ReadConfigFile, SaveFile, FillFile
<1>1. /\ Active(c) /\ CallShape(o) /\ o # Idle /\ disturbed \in BOOLEAN
      /\ Fits(model) /\ Fits(runner.model) /\ IsFile(config) /\ FitsChoice(userChoice) /\ FitsChoice(sessionChoice)
      /\ ~disturbed => InForceAt(o)
      /\ ~overlapped => AskedAt(o)
  BY <1>0, AtWork
<1>2. Fits(o.next) /\ (o.pc # "read file" => FileShape(o) /\ IsFile(o.document))
  BY <1>0, <1>1 DEF CallShape, Early, Writes, After, FileShape
<1>3. SettingsTypeOK
  BY DEF SettingsInv
<1>4. CASE ReadConfigFile(c)
  <2>1. /\ o.pc = "read file"
        /\ UNCHANGED <<model, policy, runner, config, userChoice, sessionChoice, environment, key, overlapped, disturbed, alone, asked>>
    BY <1>4 DEF ReadConfigFile
  <2>2. CASE Reply(c)
    BY <1>1, <2>1, <2>2, ReplyKeeps DEF After
  <2>3. CASE call' = [call EXCEPT ![c] = [pc |-> "save file", next |-> o.next, event |-> o.event,
                                          document |-> [config EXCEPT !.choice = Preference(o.next)]]]
    <3>1. PICK d : d = [rules |-> config.rules, mode |-> config.mode, choice |-> Preference(o.next)]
      OBVIOUS
    <3>2. d = [config EXCEPT !.choice = Preference(o.next)]
      BY <1>1, <3>1 DEF IsFile
    <3>3. IsFile(d) /\ d.rules = config.rules
      BY <1>2, <3>1, SavedFits DEF IsFile
    <3>4. PICK e : e = [pc |-> "save file", next |-> o.next, event |-> o.event, document |-> d]
      OBVIOUS
    <3>5. call' = [call EXCEPT ![c] = e]
      BY <2>3, <3>2, <3>4
    <3>6. e.pc = "save file" /\ e.next = o.next /\ e.document = d
      BY <3>4
    <3>7. CallShape(e)
      BY <1>2, <3>3, <3>4, <3>6 DEF CallShape, FileShape
    <3>8. ReadIsTrue(e)'
      BY <3>6 DEF ReadIsTrue, Writes
    <3>9. ~disturbed' => InForceAt(e)'
      BY <1>1, <2>1, <3>3, <3>6 DEF InForceAt, InForce, Agrees, KeyInUse, After
    <3>10. ~overlapped => AskedAt(e)'
      BY <1>1, <2>1, <3>6 DEF AskedAt, AskedFor, Writes, After
    <3>11. e.pc # "idle"
      BY <3>6
    <3> QED BY <1>1, <2>1, <3>5, <3>7, <3>8, <3>9, <3>10, <3>11, WorkKeeps
  <2> QED BY <1>4, <2>2, <2>3 DEF ReadConfigFile
<1>5. CASE SaveFile(c)
  <2>1. /\ o.pc = "save file" /\ config' = EmptyFile /\ Goto(c, "fill file")
        /\ UNCHANGED <<model, policy, runner, userChoice, sessionChoice, environment, key, overlapped, disturbed, alone, asked>>
    BY <1>5 DEF SaveFile
  <2>2. PICK e : /\ call' = [call EXCEPT ![c] = e] /\ e.pc = "fill file" /\ CallShape(e) /\ e.document = o.document
    BY <1>2, <1>3, <2>1, FileMoves
  <2>3. IsFile(config')
    BY <2>1 DEF IsFile, EmptyFile, FitsChoice
  <2>4. ReadIsTrue(e)'
    BY <2>2 DEF ReadIsTrue, Writes
  <2>5. ~disturbed' => InForceAt(e)'
    BY <1>1, <2>1, <2>2 DEF InForceAt, InForce, Agrees, KeyInUse, After
  <2>6. ~overlapped => AskedAt(e)'
    BY <1>1, <2>1, <2>2 DEF AskedAt, AskedFor, Writes, After
  <2>7. e.pc # "idle"
    BY <2>2
  <2> QED BY <1>1, <2>1, <2>2, <2>3, <2>4, <2>5, <2>6, <2>7, WorkKeeps
<1>6. CASE FillFile(c)
  <2>1. /\ o.pc = "fill file" /\ config' = o.document /\ Goto(c, "record")
        /\ UNCHANGED <<model, policy, runner, userChoice, sessionChoice, environment, key, overlapped, disturbed, alone, asked>>
    BY <1>6 DEF FillFile
  <2>2. PICK e : /\ call' = [call EXCEPT ![c] = e] /\ e.pc = "record" /\ CallShape(e) /\ e.document = o.document
    BY <1>2, <1>3, <2>1, FileMoves
  <2>3. IsFile(config')
    BY <1>2, <2>1
  <2>4. ReadIsTrue(e)'
    BY <2>2 DEF ReadIsTrue, Writes
  <2>5. ~disturbed' => InForceAt(e)'
    BY <1>1, <2>1, <2>2 DEF InForceAt, InForce, Agrees, KeyInUse, After
  <2>6. ~overlapped => AskedAt(e)'
    BY <1>1, <2>1, <2>2 DEF AskedAt, AskedFor, Writes, After
  <2>7. e.pc # "idle"
    BY <2>2
  <2> QED BY <1>1, <2>1, <2>2, <2>3, <2>4, <2>5, <2>6, <2>7, WorkKeeps
<1> QED BY <1>4, <1>5, <1>6

(* A resting caller has read nothing.                                      *)
LEMMA RestingShape == CallShape(Idle) /\ Idle.pc = "idle"
<1>1. CallShape(Idle)
  BY Zenon DEF CallShape
<1> QED BY <1>1 DEF Idle

(* The first start: nobody at work, the configuration of the environment.  *)
LEMMA SettingsInitInv == SettingsInit => SettingsInv
<1> SUFFICES ASSUME SettingsInit PROVE SettingsInv
  OBVIOUS
<1>1. /\ call = [c \in Callers |-> Idle] /\ overlapped = FALSE /\ disturbed = FALSE /\ alone = {}
      /\ model = DefaultModel /\ userChoice = Unselected /\ sessionChoice = Unselected /\ asked = FileMode
      /\ config = [rules |-> TRUE, mode |-> FileMode, choice |-> Unselected]
      /\ policy = [mode |-> FileMode, rules |-> TRUE]
      /\ runner = [model |-> DefaultModel, mode |-> FileMode, rules |-> TRUE, key |-> KeyInUse]
  BY DEF SettingsInit
<1>2. call = [c \in Callers |-> call[c]] /\ \A c \in Callers : call[c] = Idle
  BY <1>1
<1>3. Fits(DefaultModel)
  BY DefaultAssumption DEF Fits
<1>4. runner.model = DefaultModel /\ runner.mode = FileMode /\ runner.rules = TRUE /\ runner.key = KeyInUse /\ policy.mode = FileMode
      /\ config.rules = TRUE
  BY <1>1
<1>5. IsFile(config) /\ FitsChoice(userChoice) /\ FitsChoice(sessionChoice)
  BY <1>1 DEF IsFile, FitsChoice
<1>6. InForce /\ AskedFor
  BY <1>1, <1>4 DEF InForce, Agrees, AskedFor
<1>7. \A c \in Callers : CallShape(call[c]) /\ ~Active(c)
  BY <1>2, RestingShape DEF Active
<1>8. SettingsTypeOK
  BY <1>1, <1>2, <1>3, <1>4, <1>5, <1>7 DEF SettingsTypeOK
<1>9. OverlapNoted /\ LoneIsTrue
  BY <1>1, <1>7 DEF OverlapNoted, LoneIsTrue
<1>10. ForceKept /\ ModeHeld
  BY <1>6, <1>7 DEF ForceKept, ModeHeld
<1> QED BY <1>8, <1>9, <1>10 DEF SettingsInv

(* The process is started again.                                           *)
LEMMA RestartKeeps ==
  ASSUME SettingsInv, RestartRuntime
  PROVE  SettingsInv'
<1> DEFINE m == Preferred(DefaultModel)
<1>1. /\ call' = [c \in Callers |-> Idle] /\ overlapped' = FALSE /\ disturbed' = FALSE /\ alone' = {}
      /\ model' = m /\ policy' = [mode |-> config.mode, rules |-> config.rules /\ m = DefaultModel]
      /\ runner' = Built(m, config.mode) /\ asked' = config.mode
      /\ UNCHANGED <<config, userChoice, sessionChoice, environment, key>>
  BY DEF RestartRuntime
<1>2. Fits(m)
  <2>1. Fits(DefaultModel)
    BY DefaultAssumption DEF Fits
  <2> QED BY <2>1, PreferredFits DEF SettingsInv
<1> HIDE DEF m
<1>3. runner'.model = m /\ runner'.mode = config.mode /\ runner'.rules = config.rules /\ runner'.key = KeyInUse /\ policy'.mode = config.mode
  BY <1>1 DEF Built
<1>4. KeyInUse' = KeyInUse
  BY <1>1 DEF KeyInUse
<1>5. InForce' /\ AskedFor'
  BY <1>1, <1>3, <1>4 DEF InForce, Agrees, AskedFor
<1>6. call' = [c \in Callers |-> call'[c]] /\ \A c \in Callers : call'[c] = Idle
  BY <1>1
<1>7. \A c \in Callers : CallShape(call'[c]) /\ ~Active(c)'
  BY <1>6, RestingShape DEF Active
<1>8. SettingsTypeOK'
  BY <1>1, <1>2, <1>3, <1>6, <1>7 DEF SettingsInv, SettingsTypeOK
<1>9. OverlapNoted' /\ LoneIsTrue'
  BY <1>1, <1>7 DEF OverlapNoted, LoneIsTrue
<1>10. ForceKept' /\ ModeHeld'
  BY <1>5, <1>7 DEF ForceKept, ModeHeld
<1> QED BY <1>8, <1>9, <1>10 DEF SettingsInv

(* Every step preserves the inductive invariant.                           *)
LEMMA SettingsStepInv == SettingsInv /\ [SettingsNext]_settingsVars => SettingsInv'
<1> SUFFICES ASSUME SettingsInv, [SettingsNext]_settingsVars PROVE SettingsInv'
  OBVIOUS
<1>1. CASE RestartRuntime
  BY <1>1, RestartKeeps
<1>2. CASE UNCHANGED settingsVars
  BY <1>2 DEF settingsVars, SettingsInv, SettingsTypeOK, OverlapNoted, LoneIsTrue, ForceKept, ModeHeld, ReadIsTrue,
              InForceAt, AskedAt, InForce, Agrees, AskedFor, KeyInUse, Quiet, Active
<1>3. ASSUME NEW c \in Callers,
             \/ \E request \in Requests : UpdateModel(c, request)
             \/ \E mode \in SettingModes : UpdatePermissions(c, mode)
             \/ \E stored \in {"none", "new"} : ChangeCredential(c, stored)
             \/ ResumeSettings(c)
      PROVE  SettingsInv'
  BY <1>3, BeginsKeep
<1>4. ASSUME NEW c \in Callers, ReadMode(c) \/ ReadForRefresh(c) \/ Build(c) PROVE SettingsInv'
  BY <1>4, ReadsKeep
<1>5. ASSUME NEW c \in Callers, WriteModel(c) \/ WritePolicy(c) \/ WriteRunner(c) PROVE SettingsInv'
  BY <1>5, WritesKeep
<1>6. ASSUME NEW c \in Callers, SaveUser(c) \/ FillUser(c) \/ RecordChange(c) PROVE SettingsInv'
  BY <1>6, UserSaved
<1>7. ASSUME NEW c \in Callers, ReadConfigFile(c) \/ SaveFile(c) \/ FillFile(c) PROVE SettingsInv'
  BY <1>7, ProjectSaved
<1> QED BY <1>1, <1>2, <1>3, <1>4, <1>5, <1>6, <1>7 DEF SettingsNext

(* Whatever settings calls of whatever clients interleave, fail, resume    *)
(* sessions, save for user or project, and are cut off by a crash: a call  *)
(* that meets no other leaves the runner built from what the settings      *)
(* show, a permission mode stays as asked until calls overlap, and no      *)
(* reasoning effort is in force or saved that its model does not list      *)
(* (apply_settings, apply_model, refresh_agent_runner).                    *)
THEOREM SettingsHold == SettingsSpec => []SettingsInForce
<1>1. SettingsInv => SettingsInForce
  <2> SUFFICES ASSUME SettingsInv PROVE SettingsInForce
    OBVIOUS
  <2>1. LoneChangeInForce
    BY DEF SettingsInv, ForceKept, InForce, Agrees, LoneChangeInForce
  <2>2. ModeKept
    BY DEF SettingsInv, ModeHeld, AskedFor, ModeKept
  <2>3. EffortIsListed
    BY DEF SettingsInv, SettingsTypeOK, IsFile, FitsChoice, Fits, EffortIsListed
  <2> QED BY <2>1, <2>2, <2>3 DEF SettingsInForce
<1> QED BY <1>1, SettingsInitInv, SettingsStepInv, PTL DEF SettingsSpec

-----------------------------------------------------------------------------
(***************************************************************************)
(* THE CHECKS A CHANGE GETS.                                               *)
(***************************************************************************)
(* A recursive function over the first N numbers, given by its steps.      *)
Steps(f, S, first, step, N) ==
  f \in [0 .. N -> S] /\ f[0] = first /\ \A n \in 1 .. N : f[n] = step[<<n, f[n - 1]>>]

LEMMA StepsExist ==
  ASSUME NEW N \in Nat, NEW S, NEW first \in S, NEW step \in [(1 .. N) \X S -> S]
  PROVE  \E f : Steps(f, S, first, step, N)
<1> DEFINE Bad == {k \in 0 .. N : ~\E f : Steps(f, S, first, step, k)}
<1>1. CASE Bad = {}
  BY <1>1
<1>2. CASE Bad # {}
  <2>1. PICK k \in Bad : \A j \in Bad : k <= j
    <3>1. Bad \in SUBSET Nat
      OBVIOUS
    <3> HIDE DEF Bad
    <3> QED BY <1>2, <3>1, FirstOf
  <2>2. k # 0
    <3>1. Steps([i \in 0 .. 0 |-> first], S, first, step, 0)
      BY DEF Steps
    <3> QED BY <2>1, <3>1
  <2>3. k \in 1 .. N /\ k - 1 \in 0 .. N /\ k - 1 \notin Bad
    BY <2>1, <2>2
  <2>4. PICK f : Steps(f, S, first, step, k - 1)
    BY <2>3
  <2> DEFINE last == step[<<k, f[k - 1]>>]
             g == [i \in 0 .. k |-> IF i < k THEN f[i] ELSE last]
  <2>5. f \in [0 .. k - 1 -> S] /\ f[k - 1] \in S
    BY <2>3, <2>4 DEF Steps
  <2>6. last \in S
    BY <2>3, <2>5
  <2>7. g \in [0 .. k -> S]
    <3> SUFFICES ASSUME NEW i \in 0 .. k PROVE (IF i < k THEN f[i] ELSE last) \in S
      OBVIOUS
    <3>1. i < k => i \in 0 .. k - 1
      BY <2>3
    <3> HIDE DEF last
    <3> QED BY <2>5, <2>6, <3>1
  <2>8. g[0] = first
    BY <2>3, <2>4 DEF Steps
  <2>9. ASSUME NEW n \in 1 .. k PROVE g[n] = step[<<n, g[n - 1]>>]
    <3>1. n - 1 \in 0 .. k /\ n - 1 < k /\ n \in 0 .. k
      BY <2>3
    <3>2. g[n - 1] = f[n - 1]
      BY <3>1
    <3>3. CASE n < k
      <4>1. n \in 1 .. k - 1
        BY <2>3, <3>3
      <4>2. f[n] = step[<<n, f[n - 1]>>]
        BY <2>4, <4>1 DEF Steps
      <4> QED BY <3>1, <3>2, <3>3, <4>2
    <3>4. CASE n = k
      BY <2>3, <3>1, <3>2, <3>4
    <3> QED BY <2>3, <3>3, <3>4
  <2>10. Steps(g, S, first, step, k)
    <3> HIDE DEF g
    <3> QED BY <2>7, <2>8, <2>9 DEF Steps
  <2> QED BY <2>1, <2>10
<1> QED BY <1>1, <1>2

-----------------------------------------------------------------------------
(* The Cargo package and test target of the first n files.                 *)
Joined(changed, n) ==
  IF \E i \in 1 .. n : changed[i].package = Missing \/ changed[i].package # changed[1].package THEN NoTarget
  ELSE [package |-> changed[1].package,
        test |-> IF \A i \in 1 .. n : changed[i].target = changed[1].target THEN changed[1].target ELSE Missing]

Start == [package |-> "start", test |-> Missing]

LEMMA FoundIs ==
  ASSUME NEW changed \in Seq(SourceFiles)
  PROVE  \E found : /\ CargoTarget(changed) = found[Len(changed)] /\ found[0] = Start
                    /\ \A n \in 1 .. Len(changed) : found[n] = JoinTarget(found[n - 1], changed[n])
<1> DEFINE N == Len(changed)
           Eq(f) == f = [n \in 0 .. N |-> IF n = 0 THEN Start ELSE JoinTarget(f[n - 1], changed[n])]
           s == CHOOSE f : Eq(f)
           P == {f.package : f \in SourceFiles} \cup {"start", Missing}
           T == {f.target : f \in SourceFiles} \cup {Missing}
           S == [package : P, test : T]
           step == [x \in (1 .. N) \X S |-> JoinTarget(x[2], changed[x[1]])]
<1>1. N \in Nat /\ \A n \in 1 .. N : changed[n] \in SourceFiles
  OBVIOUS
<1>2. CargoTarget(changed) = s[N]
  BY DEF CargoTarget, Start
<1>3. Start \in S
  BY DEF Start
<1>4. ASSUME NEW x \in S, NEW f \in SourceFiles PROVE JoinTarget(x, f) \in S
  <2>1. f.package \in P /\ f.target \in T /\ Missing \in P /\ Missing \in T
    OBVIOUS
  <2> HIDE DEF P, T
  <2>2. NoTarget \in S /\ [package |-> f.package, test |-> f.target] \in S /\ [x EXCEPT !.test = Missing] \in S
    BY <2>1 DEF NoTarget
  <2> HIDE DEF S
  <2> QED BY <2>2 DEF JoinTarget
<1> HIDE DEF S
<1>5. step \in [(1 .. N) \X S -> S]
  <2> SUFFICES ASSUME NEW x \in (1 .. N) \X S PROVE JoinTarget(x[2], changed[x[1]]) \in S
    OBVIOUS
  <2>1. x[2] \in S /\ changed[x[1]] \in SourceFiles
    BY <1>1
  <2> QED BY <1>4, <2>1
<1>6. \A n \in 1 .. N : \A x \in S : step[<<n, x>>] = JoinTarget(x, changed[n])
  OBVIOUS
<1> HIDE DEF step, N
<1>7. PICK f : Steps(f, S, Start, step, N)
  BY <1>1, <1>3, <1>5, StepsExist
<1>8. Eq(f)
  <2>1. f = [n \in 0 .. N |-> f[n]]
    BY <1>7 DEF Steps
  <2>2. \A n \in 0 .. N : f[n] = IF n = 0 THEN Start ELSE JoinTarget(f[n - 1], changed[n])
    <3> SUFFICES ASSUME NEW n \in 0 .. N PROVE f[n] = IF n = 0 THEN Start ELSE JoinTarget(f[n - 1], changed[n])
      OBVIOUS
    <3>1. CASE n = 0
      BY <1>7, <3>1 DEF Steps
    <3>2. CASE n # 0
      <4>1. n \in 1 .. N /\ n - 1 \in 0 .. N
        BY <1>1, <3>2
      <4>2. f[n] = step[<<n, f[n - 1]>>] /\ f[n - 1] \in S
        BY <1>7, <4>1 DEF Steps
      <4> QED BY <1>6, <3>2, <4>1, <4>2
    <3> QED BY <3>1, <3>2
  <2> QED BY <2>1, <2>2
<1>9. Eq(s)
  BY <1>8, Zenon
<1>10. s = [n \in 0 .. N |-> IF n = 0 THEN Start ELSE JoinTarget(s[n - 1], changed[n])]
  BY <1>9
<1> HIDE DEF s
<1>11. s[0] = Start
  BY <1>1, <1>10
<1>12. \A n \in 1 .. N : s[n] = JoinTarget(s[n - 1], changed[n])
  <2> SUFFICES ASSUME NEW n \in 1 .. N PROVE s[n] = JoinTarget(s[n - 1], changed[n])
    OBVIOUS
  <2>1. n \in 0 .. N /\ n # 0
    BY <1>1
  <2> QED BY <1>10, <2>1
<1> QED BY <1>2, <1>11, <1>12 DEF N

LEMMA TargetIsJoined ==
  ASSUME NEW changed \in Seq(SourceFiles), changed # <<>>
  PROVE  CargoTarget(changed) = Joined(changed, Len(changed))
<1> DEFINE N == Len(changed)
<1>1. N \in Nat /\ N # 0 /\ \A n \in 1 .. N : changed[n] \in SourceFiles
  OBVIOUS
<1>2. PICK found : /\ CargoTarget(changed) = found[N] /\ found[0] = Start
                   /\ \A n \in 1 .. N : found[n] = JoinTarget(found[n - 1], changed[n])
  BY FoundIs
<1> HIDE DEF N
<1> DEFINE Bad == {n \in 1 .. N : found[n] # Joined(changed, n)}
<1>3. CASE Bad = {}
  BY <1>1, <1>2, <1>3 DEF N
<1>4. CASE Bad # {}
  <2>1. PICK n \in Bad : \A j \in Bad : n <= j
    <3>1. Bad \in SUBSET Nat
      BY <1>1
    <3> HIDE DEF Bad
    <3> QED BY <1>4, <3>1, FirstOf
  <2>2. n \in 1 .. N /\ found[n] = JoinTarget(found[n - 1], changed[n]) /\ found[n] # Joined(changed, n)
    BY <1>2, <2>1
  <2> DEFINE f == changed[n]
             p == changed[1].package
             t == changed[1].target
  <2>3. f \in SourceFiles /\ changed[1] \in SourceFiles
    BY <1>1, <2>2
  <2>4. f.package # "start" /\ p # "start"
    BY <2>3, WorkspaceAssumption
  <2>5. CASE n = 1
    <3>1. found[n] = JoinTarget(Start, f) /\ f = changed[1]
      BY <1>2, <2>2, <2>5
    <3>2. 1 .. n = {1}
      BY <2>5
    <3>3. Joined(changed, n) = IF p = Missing THEN NoTarget ELSE [package |-> p, test |-> t]
      BY <3>2 DEF Joined
    <3>4. JoinTarget(Start, f) = IF p = Missing THEN NoTarget ELSE [package |-> p, test |-> t]
      BY <3>1, <2>4 DEF JoinTarget, Start, NoTarget, Missing
    <3> QED BY <2>2, <3>1, <3>3, <3>4
  <2>6. CASE n # 1
    <3>1. n - 1 \in 1 .. N /\ n - 1 \notin Bad
      BY <1>1, <2>1, <2>2, <2>6
    <3>2. found[n - 1] = Joined(changed, n - 1)
      BY <3>1
    <3> DEFINE Ends == \E i \in 1 .. n - 1 : changed[i].package = Missing \/ changed[i].package # p
               Same == \A i \in 1 .. n - 1 : changed[i].target = t
               EndsNow == \E i \in 1 .. n : changed[i].package = Missing \/ changed[i].package # p
               SameNow == \A i \in 1 .. n : changed[i].target = t
               before == [package |-> p, test |-> IF Same THEN t ELSE Missing]
               now == [package |-> p, test |-> IF SameNow THEN t ELSE Missing]
    <3>3. 1 .. n = (1 .. n - 1) \cup {n}
      BY <1>1, <2>2
    <3>4. EndsNow <=> (Ends \/ f.package = Missing \/ f.package # p)
      BY <3>3
    <3>5. SameNow <=> (Same /\ f.target = t)
      BY <3>3
    <3>6. found[n - 1] = IF Ends THEN NoTarget ELSE before
      BY <3>2 DEF Joined
    <3>7. Joined(changed, n) = IF EndsNow THEN NoTarget ELSE now
      BY DEF Joined
    <3>8. ~Ends => p # Missing
      BY <3>1, <2>2, <1>1, <2>6
    <3> HIDE DEF Ends, Same, EndsNow, SameNow, p, t
    <3>9. JoinTarget(found[n - 1], f) = IF EndsNow THEN NoTarget ELSE now
      <4>1. CASE Ends
        BY <3>4, <3>6, <4>1 DEF JoinTarget
      <4>2. CASE ~Ends
        <5>1. found[n - 1] = before /\ before # NoTarget /\ before.package = p /\ before.test = (IF Same THEN t ELSE Missing)
          BY <3>6, <3>8, <4>2 DEF NoTarget
        <5>2. [before EXCEPT !.test = Missing] = [package |-> p, test |-> Missing]
          OBVIOUS
        <5> HIDE DEF before
        <5>3. CASE EndsNow
          BY <2>4, <3>4, <4>2, <5>1, <5>3 DEF JoinTarget
        <5>4. CASE ~EndsNow
          <6>1. f.package = p /\ f.package # Missing
            BY <3>4, <5>4
          <6>2. JoinTarget(before, f) = IF before.test # f.target THEN [before EXCEPT !.test = Missing] ELSE before
            BY <2>4, <5>1, <6>1 DEF JoinTarget
          <6> QED BY <3>5, <5>1, <5>2, <5>4, <6>2 DEF before
        <5> QED BY <5>3, <5>4
      <4> QED BY <4>1, <4>2
    <3> QED BY <2>2, <3>7, <3>9
  <2> QED BY <2>5, <2>6
<1> QED BY <1>3, <1>4

(* All files are of the package, and of the test target if there is one.   *)
LEMMA TargetCovers ==
  ASSUME NEW changed \in Seq(SourceFiles), changed # <<>>, CargoTarget(changed) # NoTarget, NEW f \in Range(changed)
  PROVE  /\ f.package = CargoTarget(changed).package
         /\ CargoTarget(changed).test # Missing => f.target = CargoTarget(changed).test
<1>1. PICK i \in 1 .. Len(changed) : f = changed[i]
  BY DEF Range
<1>2. CargoTarget(changed) = Joined(changed, Len(changed))
  BY TargetIsJoined
<1> QED BY <1>1, <1>2 DEF Joined

LEMMA ReverseIs ==
  ASSUME NEW changed \in Seq(SourceFiles), changed # <<>>
  PROVE  /\ Reverse(changed) \in Seq(SourceFiles) /\ Len(Reverse(changed)) = Len(changed) /\ Reverse(changed) # <<>>
         /\ \E turn \in [1 .. Len(changed) -> 1 .. Len(changed)] : \A i \in 1 .. Len(changed) :
               Reverse(changed)[i] = changed[turn[i]] /\ changed[i] = Reverse(changed)[turn[i]]
<1> DEFINE N == Len(changed)
           back == [i \in 1 .. N |-> changed[(N - i) + 1]]
           turn == [i \in 1 .. N |-> (N - i) + 1]
<1>1. N \in Nat /\ N # 0
  OBVIOUS
<1>2. Reverse(changed) = back
  BY DEF Reverse
<1>3. \A i \in 1 .. N : (N - i) + 1 \in 1 .. N /\ N - ((N - i) + 1) + 1 = i
  BY <1>1
<1>4. back \in [1 .. N -> SourceFiles] /\ turn \in [1 .. N -> 1 .. N]
  BY <1>3
<1>5. back \in Seq(SourceFiles) /\ Len(back) = N
  BY <1>1, <1>4
<1>6. \A i \in 1 .. N : back[i] = changed[turn[i]] /\ changed[i] = back[turn[i]]
  BY <1>3
<1> HIDE DEF back, N, turn
<1>7. Reverse(changed) \in Seq(SourceFiles) /\ Len(Reverse(changed)) = N /\ Reverse(changed) # <<>>
  BY <1>1, <1>2, <1>5
<1>8. \E t \in [1 .. N -> 1 .. N] : \A i \in 1 .. N : back[i] = changed[t[i]] /\ changed[i] = back[t[i]]
  BY <1>4, <1>6
<1> QED BY <1>2, <1>7, <1>8 DEF N

(* What narrows a command follows from the set of files.                   *)
LEMMA OrderOfFiles ==
  ASSUME NEW changed \in Seq(SourceFiles), changed # <<>>
  PROVE  /\ CargoTarget(Reverse(changed)) = CargoTarget(changed)
         /\ GoTarget(Reverse(changed)) = GoTarget(changed)
         /\ NodePackage(Reverse(changed)) = NodePackage(changed)
         /\ RelatedTestPaths(Reverse(changed)) = RelatedTestPaths(changed)
         /\ {Reverse(changed)[i].name : i \in DOMAIN Reverse(changed)} = {changed[i].name : i \in DOMAIN changed}
<1> DEFINE N == Len(changed)
           back == Reverse(changed)
<1>1. back \in Seq(SourceFiles) /\ Len(back) = N /\ back # <<>>
  BY ReverseIs
<1>20. PICK turn \in [1 .. N -> 1 .. N] : \A i \in 1 .. N : back[i] = changed[turn[i]] /\ changed[i] = back[turn[i]]
  BY ReverseIs
<1>2. N \in Nat /\ N # 0 /\ DOMAIN changed = 1 .. N /\ DOMAIN back = 1 .. N
  BY <1>1
<1> HIDE DEF N, back
<1>3. CargoTarget(back) = CargoTarget(changed)
  <2> DEFINE Ends(c) == \E i \in 1 .. N : c[i].package = Missing \/ c[i].package # c[1].package
             Same(c) == \A i \in 1 .. N : c[i].target = c[1].target
  <2>1. 1 \in 1 .. N
    BY <1>2
  <2>2. Ends(back) <=> Ends(changed)
    BY <1>20, <2>1
  <2>3. Same(back) <=> Same(changed)
    BY <1>20, <2>1
  <2>4. ~Ends(changed) => back[1].package = changed[1].package
    BY <1>20, <2>1
  <2>5. Same(changed) => back[1].target = changed[1].target
    BY <1>20, <2>1
  <2>6. \A c : Joined(c, N) = IF Ends(c) THEN NoTarget
                              ELSE [package |-> c[1].package, test |-> IF Same(c) THEN c[1].target ELSE Missing]
    BY DEF Joined
  <2>7. Joined(back, N) = Joined(changed, N)
    <3> HIDE DEF Ends, Same
    <3> QED BY <2>2, <2>3, <2>4, <2>5, <2>6
  <2>8. CargoTarget(changed) = Joined(changed, N) /\ CargoTarget(back) = Joined(back, N)
    BY <1>1, TargetIsJoined DEF N
  <2> QED BY <2>7, <2>8
<1>21. Range(back) = Range(changed)
  <2>1. \A x \in Range(back) : x \in Range(changed)
    BY <1>20, <1>2 DEF Range
  <2>2. \A x \in Range(changed) : x \in Range(back)
    BY <1>20, <1>2 DEF Range
  <2> QED BY <2>1, <2>2
<1>22. Range(back) = {back[i] : i \in 1 .. N} /\ Range(changed) = {changed[i] : i \in 1 .. N}
  BY <1>2 DEF Range
<1>4. {back[i].directory : i \in 1 .. N} = {changed[i].directory : i \in 1 .. N}
  <2>1. \A c : {c[i].directory : i \in 1 .. N} = {x.directory : x \in {c[i] : i \in 1 .. N}}
    OBVIOUS
  <2> QED BY <1>21, <1>22, <2>1
<1>5. (\A i \in 1 .. N : back[i].goTests) <=> (\A i \in 1 .. N : changed[i].goTests)
  BY <1>20
<1>6. {back[i].node : i \in 1 .. N} = {changed[i].node : i \in 1 .. N}
  <2>1. \A c : {c[i].node : i \in 1 .. N} = {x.node : x \in {c[i] : i \in 1 .. N}}
    OBVIOUS
  <2> QED BY <1>21, <1>22, <2>1
<1>7. {back[i].tests : i \in 1 .. N} = {changed[i].tests : i \in 1 .. N}
  <2>1. \A c : {c[i].tests : i \in 1 .. N} = {x.tests : x \in {c[i] : i \in 1 .. N}}
    OBVIOUS
  <2> QED BY <1>21, <1>22, <2>1
<1>8. {back[i].name : i \in 1 .. N} = {changed[i].name : i \in 1 .. N}
  <2>1. \A c : {c[i].name : i \in 1 .. N} = {x.name : x \in {c[i] : i \in 1 .. N}}
    OBVIOUS
  <2> QED BY <1>21, <1>22, <2>1
<1>9. GoTarget(back) = GoTarget(changed)
  BY <1>2, <1>4, <1>5 DEF GoTarget
<1>10. NodePackage(back) = NodePackage(changed)
  BY <1>2, <1>6 DEF NodePackage
<1>11. RelatedTestPaths(back) = RelatedTestPaths(changed)
  BY <1>2, <1>7 DEF RelatedTestPaths
<1> QED BY <1>2, <1>3, <1>8, <1>9, <1>10, <1>11 DEF back

LEMMA OrderOfStep ==
  ASSUME NEW changed \in Seq(SourceFiles), changed # <<>>, NEW w, w.targeted # "first", NEW step
  PROVE  NarrowStep(step, w, Reverse(changed)) = NarrowStep(step, w, changed)
<1>1. Reverse(changed) # <<>>
  BY ReverseIs
<1>2. \A command, says : TargetTestCommand(command, Reverse(changed), says) = TargetTestCommand(command, changed, says)
  BY <1>1, OrderOfFiles DEF TargetTestCommand
<1>3. \A command : NarrowCargoCommand(command, Reverse(changed)) = NarrowCargoCommand(command, changed)
  BY <1>1, OrderOfFiles DEF NarrowCargoCommand
<1>4. \A command : SubstituteChangedFiles(command, Reverse(changed), w.targeted) = SubstituteChangedFiles(command, changed, w.targeted)
  <2>1. {<<"file", Reverse(changed)[i].name>> : i \in DOMAIN Reverse(changed)} = {<<"file", changed[i].name>> : i \in DOMAIN changed}
    <3> DEFINE X == {Reverse(changed)[i].name : i \in DOMAIN Reverse(changed)}
               Y == {changed[i].name : i \in DOMAIN changed}
    <3>1. X = Y
      BY OrderOfFiles
    <3>2. {<<"file", Reverse(changed)[i].name>> : i \in DOMAIN Reverse(changed)} = {<<"file", x>> : x \in X}
      OBVIOUS
    <3>3. {<<"file", changed[i].name>> : i \in DOMAIN changed} = {<<"file", x>> : x \in Y}
      OBVIOUS
    <3> QED BY <3>1, <3>2, <3>3
  <2> QED BY <2>1 DEF SubstituteChangedFiles
<1> QED BY <1>2, <1>3, <1>4 DEF NarrowStep

-----------------------------------------------------------------------------
(* Sequences put together.                                                 *)
LEMMA RangeOfBoth ==
  ASSUME NEW S, NEW s \in Seq(S), NEW t \in Seq(S)
  PROVE  s \o t \in Seq(S) /\ Range(s \o t) = Range(s) \cup Range(t)
<1>1. /\ s \o t \in Seq(S) /\ Len(s \o t) = Len(s) + Len(t) /\ Len(s) \in Nat /\ Len(t) \in Nat
      /\ \A i \in 1 .. Len(s) : (s \o t)[i] = s[i]
      /\ \A i \in 1 .. Len(t) : (s \o t)[Len(s) + i] = t[i]
  OBVIOUS
<1>2. DOMAIN s = 1 .. Len(s) /\ DOMAIN t = 1 .. Len(t) /\ DOMAIN (s \o t) = 1 .. Len(s) + Len(t)
  BY <1>1
<1> DEFINE both == s \o t
           m == Len(s)
           n == Len(t)
<1>3. /\ m \in Nat /\ n \in Nat /\ DOMAIN s = 1 .. m /\ DOMAIN t = 1 .. n /\ DOMAIN both = 1 .. m + n
      /\ \A i \in 1 .. m : both[i] = s[i]
      /\ \A i \in 1 .. n : both[m + i] = t[i]
  BY <1>1, <1>2
<1> HIDE DEF both, m, n
<1>4. ASSUME NEW x \in Range(both) PROVE x \in Range(s) \cup Range(t)
  <2>1. PICK i \in 1 .. m + n : x = both[i]
    BY <1>3 DEF Range
  <2>2. CASE i <= m
    <3>1. i \in 1 .. m
      BY <1>3, <2>2
    <3> QED BY <1>3, <2>1, <3>1 DEF Range
  <2>3. CASE ~(i <= m)
    <3>1. i - m \in 1 .. n /\ m + (i - m) = i
      BY <1>3, <2>3
    <3>2. x = t[i - m]
      BY <1>3, <2>1, <3>1
    <3> QED BY <1>3, <3>1, <3>2 DEF Range
  <2> QED BY <2>2, <2>3
<1>5. ASSUME NEW x \in Range(s) PROVE x \in Range(both)
  <2>1. PICK i \in 1 .. m : x = s[i]
    BY <1>3 DEF Range
  <2>2. i \in 1 .. m + n
    BY <1>3
  <2> QED BY <1>3, <2>1, <2>2 DEF Range
<1>6. ASSUME NEW x \in Range(t) PROVE x \in Range(both)
  <2>1. PICK i \in 1 .. n : x = t[i]
    BY <1>3 DEF Range
  <2>2. m + i \in 1 .. m + n /\ both[m + i] = x
    BY <1>3, <2>1
  <2> QED BY <1>3, <2>2 DEF Range
<1>7. Range(both) = Range(s) \cup Range(t)
  BY <1>4, <1>5, <1>6
<1> QED BY <1>1, <1>7 DEF both

LEMMA RangeOfFive ==
  ASSUME NEW S, NEW a \in Seq(S), NEW b \in Seq(S), NEW c \in Seq(S), NEW d \in Seq(S), NEW e \in Seq(S)
  PROVE  /\ a \o b \o c \o d \o e \in Seq(S)
         /\ Range(a \o b \o c \o d \o e) = Range(a) \cup Range(b) \cup Range(c) \cup Range(d) \cup Range(e)
<1> DEFINE two == a \o b
           three == two \o c
           four == three \o d
           five == four \o e
<1>1. two \in Seq(S) /\ Range(two) = Range(a) \cup Range(b)
  BY RangeOfBoth
<1> HIDE DEF two
<1>2. three \in Seq(S) /\ Range(three) = Range(two) \cup Range(c)
  BY <1>1, RangeOfBoth
<1> HIDE DEF three
<1>3. four \in Seq(S) /\ Range(four) = Range(three) \cup Range(d)
  BY <1>2, RangeOfBoth
<1> HIDE DEF four
<1>4. five \in Seq(S) /\ Range(five) = Range(four) \cup Range(e)
  BY <1>3, RangeOfBoth
<1>5. five = a \o b \o c \o d \o e
  BY DEF two, three, four
<1> HIDE DEF five
<1> QED BY <1>1, <1>2, <1>3, <1>4, <1>5

LEMMA RangeOfOne == \A x : Range(<<x>>) = {x}
  BY DEF Range
LEMMA RangeOfNone == Range(<<>>) = {}
  BY DEF Range

(* What InCategory picks from the first n steps.                           *)
Picks(picked, S, steps, category) ==
  /\ InCategory(steps, category) = picked[Len(steps)] /\ picked[0] = <<>>
  /\ \A n \in 0 .. Len(steps) : picked[n] \in Seq(S)
  /\ \A n \in 1 .. Len(steps) : picked[n] = picked[n - 1] \o (IF steps[n].category = category THEN <<steps[n]>> ELSE <<>>)

LEMMA PickedIs ==
  ASSUME NEW S, NEW steps \in Seq(S), NEW category
  PROVE  \E picked : Picks(picked, S, steps, category)
<1> DEFINE N == Len(steps)
           Next1(n, x) == x \o (IF steps[n].category = category THEN <<steps[n]>> ELSE <<>>)
           Eq(f) == f = [n \in 0 .. N |-> IF n = 0 THEN <<>> ELSE Next1(n, f[n - 1])]
           s == CHOOSE f : Eq(f)
           step == [x \in (1 .. N) \X Seq(S) |-> Next1(x[1], x[2])]
<1>1. N \in Nat /\ \A n \in 1 .. N : steps[n] \in S
  OBVIOUS
<1>2. InCategory(steps, category) = s[N]
  BY DEF InCategory
<1>3. <<>> \in Seq(S)
  OBVIOUS
<1>4. ASSUME NEW x \in Seq(S), NEW n \in 1 .. N PROVE Next1(n, x) \in Seq(S)
  <2>1. steps[n] \in S
    BY <1>1
  <2>2. <<steps[n]>> \in Seq(S)
    BY <2>1
  <2>3. (IF steps[n].category = category THEN <<steps[n]>> ELSE <<>>) \in Seq(S)
    BY <1>3, <2>2
  <2> QED BY <2>3
<1> HIDE DEF Next1
<1>5. step \in [(1 .. N) \X Seq(S) -> Seq(S)]
  <2> SUFFICES ASSUME NEW x \in (1 .. N) \X Seq(S) PROVE Next1(x[1], x[2]) \in Seq(S)
    OBVIOUS
  <2>1. x[2] \in Seq(S) /\ x[1] \in 1 .. N
    OBVIOUS
  <2> QED BY <1>4, <2>1
<1>6. \A n \in 1 .. N : \A x \in Seq(S) : step[<<n, x>>] = Next1(n, x)
  OBVIOUS
<1> HIDE DEF step, N
<1>7. PICK f : Steps(f, Seq(S), <<>>, step, N)
  BY <1>1, <1>3, <1>5, StepsExist
<1>8. Eq(f)
  <2>1. f = [n \in 0 .. N |-> f[n]]
    BY <1>7 DEF Steps
  <2>2. \A n \in 0 .. N : f[n] = IF n = 0 THEN <<>> ELSE Next1(n, f[n - 1])
    <3> SUFFICES ASSUME NEW n \in 0 .. N PROVE f[n] = IF n = 0 THEN <<>> ELSE Next1(n, f[n - 1])
      OBVIOUS
    <3>1. CASE n = 0
      BY <1>7, <3>1 DEF Steps
    <3>2. CASE n # 0
      <4>1. n \in 1 .. N /\ n - 1 \in 0 .. N
        BY <1>1, <3>2
      <4>2. f[n] = step[<<n, f[n - 1]>>] /\ f[n - 1] \in Seq(S)
        BY <1>7, <4>1 DEF Steps
      <4> QED BY <1>6, <3>2, <4>1, <4>2
    <3> QED BY <3>1, <3>2
  <2> QED BY <2>1, <2>2
<1>9. Eq(s)
  BY <1>8, Zenon
<1>10. s = [n \in 0 .. N |-> IF n = 0 THEN <<>> ELSE Next1(n, s[n - 1])]
  BY <1>9
<1> HIDE DEF s
<1>11. s[0] = <<>>
  BY <1>1, <1>10
<1>12. \A n \in 1 .. N : s[n] = Next1(n, s[n - 1])
  <2> SUFFICES ASSUME NEW n \in 1 .. N PROVE s[n] = Next1(n, s[n - 1])
    OBVIOUS
  <2>1. n \in 0 .. N /\ n # 0
    BY <1>1
  <2> QED BY <1>10, <2>1
<1>13. \A n \in 0 .. N : s[n] \in Seq(S)
  <2> DEFINE Bad == {n \in 0 .. N : s[n] \notin Seq(S)}
  <2>1. CASE Bad = {}
    BY <2>1
  <2>2. CASE Bad # {}
    <3>1. PICK n \in Bad : \A j \in Bad : n <= j
      <4>1. Bad \in SUBSET Nat
        OBVIOUS
      <4> HIDE DEF Bad
      <4> QED BY <2>2, <4>1, FirstOf
    <3>2. n # 0
      BY <1>3, <1>11, <3>1
    <3>3. n \in 1 .. N /\ n - 1 \in 0 .. N /\ n - 1 \notin Bad
      BY <1>1, <3>1, <3>2
    <3>4. s[n - 1] \in Seq(S)
      BY <3>3
    <3>5. s[n] \in Seq(S)
      BY <1>4, <1>12, <3>3, <3>4
    <3> QED BY <3>1, <3>5
  <2> QED BY <2>1, <2>2
<1>14. Picks(s, S, steps, category)
  BY <1>2, <1>11, <1>12, <1>13 DEF N, Next1, Picks
<1> QED BY <1>14

LEMMA InCategoryIs ==
  ASSUME NEW S, NEW steps \in Seq(S), NEW category
  PROVE  /\ InCategory(steps, category) \in Seq(S)
         /\ Range(InCategory(steps, category)) = {x \in Range(steps) : x.category = category}
<1> DEFINE N == Len(steps)
           Some(n) == {x \in {steps[i] : i \in 1 .. n} : x.category = category}
<1>1. N \in Nat /\ \A n \in 1 .. N : steps[n] \in S
  OBVIOUS
<1>20. PICK picked : Picks(picked, S, steps, category)
  BY PickedIs
<1>2. /\ InCategory(steps, category) = picked[N] /\ picked[0] = <<>>
      /\ \A n \in 0 .. N : picked[n] \in Seq(S)
      /\ \A n \in 1 .. N : picked[n] = picked[n - 1] \o (IF steps[n].category = category THEN <<steps[n]>> ELSE <<>>)
  BY <1>20 DEF Picks
<1>3. Range(steps) = {steps[i] : i \in 1 .. N}
  BY DEF Range
<1> HIDE DEF N
<1> DEFINE Bad == {n \in 0 .. N : Range(picked[n]) # Some(n)}
<1>4. CASE Bad = {}
  <2>1. N \in 0 .. N /\ picked[N] \in Seq(S)
    BY <1>1, <1>2
  <2>2. Range(picked[N]) = Some(N)
    <3> HIDE DEF Some
    <3> QED BY <1>4, <2>1
  <2> QED BY <1>2, <1>3, <2>1, <2>2
<1>5. CASE Bad # {}
  <2>1. PICK n \in Bad : \A j \in Bad : n <= j
    <3>1. Bad \in SUBSET Nat
      BY <1>1
    <3> HIDE DEF Bad
    <3> QED BY <1>5, <3>1, FirstOf
  <2>2. n # 0
    <3>1. Some(0) = {}
      OBVIOUS
    <3> QED BY <1>2, <2>1, <3>1, RangeOfNone
  <2>3. n \in 1 .. N /\ n - 1 \in 0 .. N /\ n - 1 \notin Bad
    BY <1>1, <2>1, <2>2
  <2>4. Range(picked[n - 1]) = Some(n - 1) /\ picked[n - 1] \in Seq(S)
    BY <1>2, <2>3
  <2> DEFINE more == IF steps[n].category = category THEN <<steps[n]>> ELSE <<>>
  <2>5. steps[n] \in S
    BY <1>1, <2>3
  <2>6. more \in Seq(S)
    <3>1. <<steps[n]>> \in Seq(S) /\ <<>> \in Seq(S)
      BY <2>5
    <3> QED BY <3>1
  <2>7. Range(more) = IF steps[n].category = category THEN {steps[n]} ELSE {}
    BY RangeOfOne, RangeOfNone
  <2>8. picked[n] = picked[n - 1] \o more
    BY <1>2, <2>3
  <2> HIDE DEF more, Some
  <2>9. Range(picked[n]) = Some(n - 1) \cup Range(more)
    BY <2>4, <2>6, <2>8, RangeOfBoth
  <2>10. Some(n) = Some(n - 1) \cup Range(more)
    <3>1. 1 .. n = (1 .. n - 1) \cup {n}
      BY <1>1, <2>3
    <3> QED BY <2>7, <3>1 DEF Some
  <2> QED BY <2>1, <2>9, <2>10
<1> QED BY <1>4, <1>5

(* When only the last step is of a category, it alone is picked.           *)
LEMMA LastOfCategory ==
  ASSUME NEW S, NEW steps \in Seq(S), NEW category, steps # <<>>, steps[Len(steps)].category = category,
         \A i \in 1 .. Len(steps) - 1 : steps[i].category # category
  PROVE  InCategory(steps, category) = <<steps[Len(steps)]>>
<1> DEFINE N == Len(steps)
<1>1. N \in Nat /\ N # 0
  OBVIOUS
<1>20. PICK picked : Picks(picked, S, steps, category)
  BY PickedIs
<1>2. /\ InCategory(steps, category) = picked[N] /\ picked[0] = <<>>
      /\ \A n \in 0 .. N : picked[n] \in Seq(S)
      /\ \A n \in 1 .. N : picked[n] = picked[n - 1] \o (IF steps[n].category = category THEN <<steps[n]>> ELSE <<>>)
  BY <1>20 DEF Picks
<1>3. steps[N].category = category /\ \A i \in 1 .. N - 1 : steps[i].category # category
  OBVIOUS
<1>4. \A x \in Seq(S) : x \o <<>> = x
  OBVIOUS
<1>5. <<>> \o <<steps[N]>> = <<steps[N]>>
  OBVIOUS
<1> HIDE DEF N
<1> DEFINE Bad == {n \in 0 .. N - 1 : picked[n] # <<>>}
<1>6. CASE Bad = {}
  <2>1. N \in 1 .. N /\ N - 1 \in 0 .. N - 1
    BY <1>1
  <2>2. picked[N] = picked[N - 1] \o <<steps[N]>>
    BY <1>2, <1>3, <2>1
  <2> QED BY <1>2, <1>5, <1>6, <2>1, <2>2 DEF N
<1>7. CASE Bad # {}
  <2>1. PICK n \in Bad : \A j \in Bad : n <= j
    <3>1. Bad \in SUBSET Nat
      BY <1>1
    <3> HIDE DEF Bad
    <3> QED BY <1>7, <3>1, FirstOf
  <2>2. n # 0
    BY <1>2, <2>1
  <2>3. n \in 1 .. N /\ n \in 1 .. N - 1 /\ n - 1 \in 0 .. N - 1 /\ n - 1 \notin Bad
    BY <1>1, <2>1, <2>2
  <2>4. picked[n] = picked[n - 1] \o <<>> /\ picked[n - 1] = <<>>
    BY <1>2, <1>3, <2>3
  <2> QED BY <1>4, <2>1, <2>4
<1> QED BY <1>6, <1>7

-----------------------------------------------------------------------------
(* The sorted plan has the steps it is made from.                          *)
PlanCategories == {"format", "targeted", "typecheck", "lint", "build", "test", "diff"}

LEMMA SortedIs ==
  ASSUME NEW S, NEW steps \in Seq(S), \A x \in Range(steps) : x.category \in PlanCategories
  PROVE  SortedByPriority(steps) \in Seq(S) /\ Range(SortedByPriority(steps)) = Range(steps)
<1> DEFINE a == InCategory(steps, "format")
           b == InCategory(steps, "targeted")
           c == InCategory(steps, "typecheck")
           d == InCategory(steps, "lint")
           e == InCategory(steps, "build")
           f == InCategory(steps, "test")
           g == InCategory(steps, "diff")
           In(k) == {x \in Range(steps) : x.category = k}
<1>1. /\ a \in Seq(S) /\ b \in Seq(S) /\ c \in Seq(S) /\ d \in Seq(S) /\ e \in Seq(S) /\ f \in Seq(S) /\ g \in Seq(S)
      /\ Range(a) = In("format") /\ Range(b) = In("targeted") /\ Range(c) = In("typecheck") /\ Range(d) = In("lint")
      /\ Range(e) = In("build") /\ Range(f) = In("test") /\ Range(g) = In("diff")
  BY InCategoryIs
<1>2. SortedByPriority(steps) = a \o b \o c \o d \o e \o f \o g
  BY DEF SortedByPriority
<1> HIDE DEF a, b, c, d, e, f, g
<1> DEFINE five == a \o b \o c \o d \o e
           six == five \o f
           seven == six \o g
<1>3. five \in Seq(S) /\ Range(five) = Range(a) \cup Range(b) \cup Range(c) \cup Range(d) \cup Range(e)
  <2>1. a \in Seq(S) /\ b \in Seq(S) /\ c \in Seq(S) /\ d \in Seq(S) /\ e \in Seq(S)
    BY <1>1
  <2> QED BY <2>1, RangeOfFive
<1>4. SortedByPriority(steps) = seven
  BY <1>2
<1> HIDE DEF five
<1>5. six \in Seq(S) /\ Range(six) = Range(five) \cup Range(f)
  BY <1>1, <1>3, RangeOfBoth
<1> HIDE DEF six
<1>6. seven \in Seq(S) /\ Range(seven) = Range(six) \cup Range(g)
  BY <1>1, <1>5, RangeOfBoth
<1> HIDE DEF seven
<1>8. /\ seven \in Seq(S)
      /\ Range(seven) = Range(a) \cup Range(b) \cup Range(c) \cup Range(d) \cup Range(e) \cup Range(f) \cup Range(g)
  BY <1>3, <1>5, <1>6
<1>9. In("format") \cup In("targeted") \cup In("typecheck") \cup In("lint") \cup In("build") \cup In("test") \cup In("diff") = Range(steps)
  BY DEF PlanCategories
<1> QED BY <1>1, <1>4, <1>8, <1>9

(* A sequence that ends with the only step of the last category.           *)
LEMMA SortedEnds ==
  ASSUME NEW S, NEW steps \in Seq(S), steps # <<>>, steps[Len(steps)].category = "diff",
         \A i \in 1 .. Len(steps) - 1 : steps[i].category # "diff"
  PROVE  LET sorted == SortedByPriority(steps)
         IN Last(sorted) = steps[Len(steps)] /\ \A i \in 1 .. Len(sorted) - 1 : sorted[i].category # "diff"
<1> DEFINE a == InCategory(steps, "format")
           b == InCategory(steps, "targeted")
           c == InCategory(steps, "typecheck")
           d == InCategory(steps, "lint")
           e == InCategory(steps, "build")
           f == InCategory(steps, "test")
           last == steps[Len(steps)]
           front == a \o b \o c \o d \o e \o f
           In(k) == {x \in Range(steps) : x.category = k}
<1>1. /\ a \in Seq(S) /\ b \in Seq(S) /\ c \in Seq(S) /\ d \in Seq(S) /\ e \in Seq(S) /\ f \in Seq(S)
      /\ Range(a) = In("format") /\ Range(b) = In("targeted") /\ Range(c) = In("typecheck") /\ Range(d) = In("lint")
      /\ Range(e) = In("build") /\ Range(f) = In("test")
  BY InCategoryIs
<1>2. last \in S
  OBVIOUS
<1>3. SortedByPriority(steps) = front \o <<last>>
  BY LastOfCategory DEF SortedByPriority
<1> HIDE DEF a, b, c, d, e, f, last
<1> DEFINE five == a \o b \o c \o d \o e
<1>4. five \in Seq(S) /\ Range(five) = Range(a) \cup Range(b) \cup Range(c) \cup Range(d) \cup Range(e)
  <2>1. a \in Seq(S) /\ b \in Seq(S) /\ c \in Seq(S) /\ d \in Seq(S) /\ e \in Seq(S)
    BY <1>1
  <2> QED BY <2>1, RangeOfFive
<1>5. front = five \o f
  OBVIOUS
<1> HIDE DEF five, front
<1>8. front \in Seq(S) /\ Range(front) = Range(a) \cup Range(b) \cup Range(c) \cup Range(d) \cup Range(e) \cup Range(f)
  BY <1>1, <1>4, <1>5, RangeOfBoth
<1>9. \A x \in Range(front) : x.category # "diff"
  BY <1>1, <1>8
<1> HIDE DEF In
<1>10. /\ Len(front) \in Nat /\ Len(front \o <<last>>) = Len(front) + 1
       /\ (front \o <<last>>)[Len(front) + 1] = last
       /\ \A i \in 1 .. Len(front) : (front \o <<last>>)[i] = front[i] /\ front[i] \in Range(front)
  BY <1>2, <1>8 DEF Range
<1>11. Last(front \o <<last>>) = last
  BY <1>10 DEF Last
<1>12. \A i \in 1 .. Len(front \o <<last>>) - 1 : (front \o <<last>>)[i].category # "diff"
  BY <1>9, <1>10
<1> QED BY <1>3, <1>11, <1>12 DEF last

(* The steps of the whole plan but the last inspection of the diff.        *)
Keys == {"format", "typecheck", "lint", "build", "test"}
Before(w) == Selected("format", w) \o Selected("typecheck", w) \o Selected("lint", w) \o Selected("build", w) \o TestsOf(w)
PlannedBefore(w) ==
  {PlanStep(k, Full(SelectCommands(k, w))) : k \in Keys} \cup {PlanStep("targeted", Full("instructed"))}

LEMMA BeforeIs ==
  ASSUME NEW w
  PROVE  /\ Before(w) \in Seq(PlannedBefore(w))
         /\ \A k \in Keys \ {"test"} : SelectCommands(k, w) # Missing => PlanStep(k, Full(SelectCommands(k, w))) \in Range(Before(w))
         /\ SelectCommands("test", w) # Missing /\ ~InstructedTests(w) =>
              PlanStep("test", Full(SelectCommands("test", w))) \in Range(Before(w))
<1> DEFINE S == PlannedBefore(w)
           a == Selected("format", w)
           b == Selected("typecheck", w)
           c == Selected("lint", w)
           d == Selected("build", w)
           t == TestsOf(w)
<1>1. ASSUME NEW k \in Keys
      PROVE  /\ Selected(k, w) \in Seq(S)
             /\ SelectCommands(k, w) # Missing => PlanStep(k, Full(SelectCommands(k, w))) \in Range(Selected(k, w))
  <2> DEFINE x == PlanStep(k, Full(SelectCommands(k, w)))
  <2>1. x \in S
    BY DEF PlannedBefore
  <2>2. Selected(k, w) = IF SelectCommands(k, w) = Missing THEN <<>> ELSE <<x>>
    BY DEF Selected, AddStep
  <2> HIDE DEF x, S
  <2>3. <<x>> \in Seq(S) /\ <<>> \in Seq(S)
    BY <2>1
  <2>4. Range(<<x>>) = {x}
    BY RangeOfOne
  <2> QED BY <2>2, <2>3, <2>4 DEF x
<1>2. t \in Seq(S) /\ (~InstructedTests(w) => t = Selected("test", w))
  <2>1. PlanStep("targeted", Full("instructed")) \in S
    BY DEF PlannedBefore
  <2>2. <<PlanStep("targeted", Full("instructed"))>> \in Seq(S)
    <3> HIDE DEF S
    <3> QED BY <2>1
  <2>3. Selected("test", w) \in Seq(S)
    BY <1>1 DEF Keys
  <2> HIDE DEF S
  <2> QED BY <2>2, <2>3 DEF TestsOf
<1>3. a \in Seq(S) /\ b \in Seq(S) /\ c \in Seq(S) /\ d \in Seq(S)
  BY <1>1 DEF Keys
<1>4. Before(w) = a \o b \o c \o d \o t
  BY DEF Before
<1> HIDE DEF S, a, b, c, d, t
<1>8. Before(w) \in Seq(S) /\ Range(Before(w)) = Range(a) \cup Range(b) \cup Range(c) \cup Range(d) \cup Range(t)
  BY <1>2, <1>3, <1>4, RangeOfFive
<1>9. ASSUME NEW k \in Keys \ {"test"} PROVE Range(Selected(k, w)) \subseteq Range(Before(w))
  BY <1>8 DEF Keys, a, b, c, d
<1> QED BY <1>1, <1>2, <1>8, <1>9 DEF S, Keys

LEMMA AllStepsAre ==
  ASSUME NEW w \in Workspaces
  PROVE  /\ AllSteps(w) = Before(w) \o (IF w.git THEN <<GitDiff>> ELSE <<>>)
         /\ AllSteps(w) \in Seq(PlannedBefore(w) \cup {GitDiff})
         /\ Range(Before(w)) \subseteq Range(AllSteps(w))
         /\ \A i \in 1 .. Len(AllSteps(w)) : AllSteps(w)[i] = GitDiff => w.git /\ i = Len(AllSteps(w))
         /\ w.git => AllSteps(w) # <<>> /\ AllSteps(w)[Len(AllSteps(w))] = GitDiff
<1> DEFINE S == PlannedBefore(w) \cup {GitDiff}
           b == Before(w)
           t == IF w.git THEN <<GitDiff>> ELSE <<>>
<1>1. AllSteps(w) = b \o t
  BY DEF AllSteps, Before
<1>2. \A x \in PlannedBefore(w) : x # GitDiff
  BY DEF PlannedBefore, PlanStep, GitDiff, Keys
<1>3. b \in Seq(PlannedBefore(w))
  BY BeforeIs
<1>4. GitDiff \in S /\ <<GitDiff>> \in Seq(S) /\ <<>> \in Seq(S)
  OBVIOUS
<1>5. \A i \in 1 .. Len(b) : b[i] \in PlannedBefore(w)
  BY <1>3
<1>6. b \in Seq(S) /\ Len(b) \in Nat
  BY <1>3
<1>7. t \in Seq(S)
  BY <1>4
<1>8. Range(b) \subseteq Range(b \o t) /\ b \o t \in Seq(S)
  <2> HIDE DEF S, b, t
  <2> QED BY <1>6, <1>7, RangeOfBoth
<1>9. CASE w.git
  <2>1. t = <<GitDiff>>
    BY <1>9
  <2> HIDE DEF S, b, t
  <2>2. /\ Len(b \o t) = Len(b) + 1 /\ (b \o t)[Len(b) + 1] = GitDiff /\ b \o t # <<>>
        /\ \A i \in 1 .. Len(b) : (b \o t)[i] = b[i]
    BY <1>4, <1>6, <2>1
  <2>3. \A i \in 1 .. Len(b \o t) : (b \o t)[i] = GitDiff => i = Len(b \o t)
    BY <1>2, <1>5, <1>6, <2>2
  <2> QED BY <1>1, <1>8, <1>9, <2>2, <2>3 DEF S, b, t
<1>10. CASE ~w.git
  <2>1. t = <<>>
    BY <1>10
  <2> HIDE DEF S, b, t
  <2>2. b \o t = b
    BY <1>6, <2>1
  <2>3. \A i \in 1 .. Len(b \o t) : (b \o t)[i] # GitDiff
    BY <1>2, <1>5, <2>2
  <2> QED BY <1>1, <1>8, <1>10, <2>3 DEF S, b, t
<1> QED BY <1>9, <1>10

(* One step and what narrowing makes of it.                                *)
Safe(step, changed) ==
  step.category \in {"targeted", "test"} /\ step.command.program \in {"cargo", "go"} =>
    \A f \in Range(changed) : (f.target # Missing => f.integration) => Exercises(step.command, f)

LEMMA CargoIsSafe ==
  ASSUME NEW changed \in Seq(SourceFiles), changed # <<>>, CargoTarget(changed) # NoTarget, NEW command, NEW f \in Range(changed),
         f.target # Missing => f.integration,
         command.args = CargoFlags(CargoTarget(changed)) \cup
                          IF CargoTarget(changed).test = Missing THEN {} ELSE {<<"--test", CargoTarget(changed).test>>}
  PROVE  Exercises(command, f)
<1> DEFINE p == CargoTarget(changed).package
           t == CargoTarget(changed).test
<1>1. f.package = p /\ (t # Missing => f.target = t)
  BY TargetCovers
<1>2. command.args = {<<"--package", p>>} \cup IF t = Missing THEN {} ELSE {<<"--test", t>>}
  BY DEF CargoFlags
<1> HIDE DEF p, t
<1>3. <<"--package", f.package>> \in command.args /\ ~Has(command, "dir")
  BY <1>1, <1>2 DEF Has
<1>4. Has(command, "--test") => t # Missing
  BY <1>2 DEF Has
<1>5. t # Missing => <<"--test", f.target>> \in command.args /\ f.integration
  BY <1>1, <1>2
<1> QED BY <1>3, <1>4, <1>5 DEF Exercises

LEMMA GoIsSafe ==
  ASSUME NEW changed \in Seq(SourceFiles), changed # <<>>, Cardinality(GoTarget(changed)) = 1, NEW command, NEW f \in Range(changed),
         command.args = {<<"dir", d>> : d \in GoTarget(changed)}
  PROVE  Exercises(command, f)
<1>1. PICK i \in DOMAIN changed : f = changed[i]
  BY DEF Range
<1>2. GoTarget(changed) # {}
  <2> DEFINE directories == GoTarget(changed)
  <2>1. Cardinality({}) = 0 /\ Cardinality(directories) = 1
    BY FS_EmptySet
  <2> HIDE DEF directories
  <2>2. ASSUME directories = {} PROVE FALSE
    <3>1. Cardinality(directories) = Cardinality({})
      BY <2>2
    <3>2. 0 # 1
      OBVIOUS
    <3> HIDE <2>2
    <3> QED BY <2>1, <3>1, <3>2
  <2> QED BY <2>2 DEF directories
<1>3. /\ f.goTests
      /\ f.directory \in GoTarget(changed)
  BY <1>1, <1>2 DEF GoTarget
<1>4. <<"dir", f.directory>> \in command.args
  BY <1>3
<1>5. \A a \in command.args : a[1] = "dir"
  OBVIOUS
<1>6. ~Has(command, "--package") /\ ~Has(command, "--test")
  BY <1>5 DEF Has
<1> QED BY <1>3, <1>4, <1>6 DEF Exercises

LEMMA TestIsSafe ==
  ASSUME NEW changed \in Seq(SourceFiles), changed # <<>>, NEW program, program \in {"cargo", "go"}, NEW f \in Range(changed),
         NEW says \in BOOLEAN, f.target # Missing => f.integration
  PROVE  Exercises(TargetTestCommand(Full(program), changed, says), f)
<1> DEFINE c == TargetTestCommand(Full(program), changed, says)
           cargo == CargoTarget(changed)
<1>1. CASE c = Full(program)
  <2>1. c.args = {}
    BY <1>1 DEF Full
  <2> HIDE DEF c
  <2>2. \A flag : ~Has(c, flag)
    BY <2>1 DEF Has
  <2>3. Exercises(c, f)
    BY <2>2 DEF Exercises
  <2> QED BY <2>3 DEF c
<1>2. CASE program = "cargo" /\ says /\ cargo # NoTarget
  <2>1. c.args = CargoFlags(cargo) \cup IF cargo.test = Missing THEN {} ELSE {<<"--test", cargo.test>>}
    BY <1>2 DEF TargetTestCommand, Full
  <2> QED BY <1>2, <2>1, CargoIsSafe
<1>3. CASE program = "go" /\ says /\ Cardinality(GoTarget(changed)) = 1
  <2>1. c.args = {<<"dir", d>> : d \in GoTarget(changed)}
    BY <1>3 DEF TargetTestCommand, Full
  <2> QED BY <1>3, <2>1, GoIsSafe
<1>4. CASE ~(program = "cargo" /\ says /\ cargo # NoTarget) /\ ~(program = "go" /\ says /\ Cardinality(GoTarget(changed)) = 1)
  <2>1. c = Full(program)
    BY <1>4 DEF TargetTestCommand, Full
  <2> QED BY <1>1, <2>1
<1> QED BY <1>2, <1>3, <1>4

LEMMA ProgramKept ==
  ASSUME NEW changed, NEW program, NEW says
  PROVE  /\ TargetTestCommand(Full(program), changed, says).program = program
         /\ NarrowCargoCommand(Full(program), changed).program = program
<1>1. \A a : [Full(program) EXCEPT !.args = a].program = program
  BY DEF Full
<1>2. Full(program).program = program
  BY DEF Full
<1> QED BY <1>1, <1>2 DEF TargetTestCommand, NarrowCargoCommand

LEMMA SaysTestTyped ==
  ASSUME NEW w \in Workspaces
  PROVE  w.saysTest \in BOOLEAN
BY WorkspaceAssumption

LEMMA NarrowedIs ==
  ASSUME NEW changed \in Seq(SourceFiles), changed # <<>>, NEW w \in Workspaces, NEW k \in Keys, NEW program
  PROVE  LET step == NarrowStep(PlanStep(k, Full(program)), w, changed)
         IN /\ step.command.program = program
            /\ step.category \in IF k = "test" THEN {"test", "targeted"} ELSE {k}
            /\ Safe(step, changed)
<1> DEFINE old == PlanStep(k, Full(program))
           step == NarrowStep(old, w, changed)
<1>1. old.category = k /\ old.command = Full(program)
  BY DEF PlanStep
<1>2. CASE k = "test"
  <2> DEFINE command == TargetTestCommand(Full(program), changed, w.saysTest)
             category == IF command = Full(program) THEN "test" ELSE "targeted"
  <2>1. step = PlanStep(category, command)
    BY <1>1, <1>2 DEF NarrowStep
  <2>2. step.category = category /\ step.command = command
    BY <2>1 DEF PlanStep
  <2>3. command.program = program
    BY ProgramKept
  <2>4. Safe(step, changed)
    <3> SUFFICES ASSUME program \in {"cargo", "go"}, NEW f \in Range(changed), f.target # Missing => f.integration
                 PROVE  Exercises(command, f)
      BY <2>2, <2>3 DEF Safe
    <3> DEFINE says == w.saysTest
    <3>1. says \in BOOLEAN
      BY SaysTestTyped
    <3> HIDE DEF says
    <3>2. Exercises(TargetTestCommand(Full(program), changed, says), f)
      BY <3>1, TestIsSafe
    <3> QED BY <3>2 DEF says
  <2> QED BY <1>2, <2>2, <2>3, <2>4
<1>3. CASE k # "test"
  <2>1. k # "targeted"
    BY DEF Keys
  <2>2. step = [old EXCEPT !.command = NarrowCargoCommand(@, changed)]
    BY <1>1, <1>3, <2>1 DEF NarrowStep
  <2>3. step.category = k /\ step.command = NarrowCargoCommand(Full(program), changed)
    BY <1>1, <2>2 DEF PlanStep
  <2>4. step.command.program = program
    BY <2>3, ProgramKept
  <2> QED BY <1>3, <2>1, <2>3, <2>4 DEF Safe
<1> QED BY <1>2, <1>3

LEMMA OthersNarrowed ==
  ASSUME NEW changed, NEW w
  PROVE  /\ NarrowStep(GitDiff, w, changed) = GitDiff
         /\ LET step == NarrowStep(PlanStep("targeted", Full("instructed")), w, changed)
            IN step.category = "targeted" /\ step.command.program = "instructed" /\ Safe(step, changed)
<1>1. NarrowStep(GitDiff, w, changed) = GitDiff
  <2>1. NarrowCargoCommand(GitDiff.command, changed) = GitDiff.command
    BY DEF NarrowCargoCommand, GitDiff, PlanStep
  <2>2. NarrowStep(GitDiff, w, changed) = [GitDiff EXCEPT !.command = NarrowCargoCommand(@, changed)]
    BY DEF NarrowStep, GitDiff, PlanStep
  <2> QED BY <2>1, <2>2 DEF GitDiff, PlanStep
<1> DEFINE old == PlanStep("targeted", Full("instructed"))
           step == NarrowStep(old, w, changed)
<1>2. step = [old EXCEPT !.command = SubstituteChangedFiles(@, changed, w.targeted)]
  BY DEF NarrowStep, PlanStep
<1>3. step.category = "targeted" /\ step.command = SubstituteChangedFiles(Full("instructed"), changed, w.targeted)
  BY <1>2 DEF PlanStep
<1>4. step.command.program = "instructed"
  BY <1>3 DEF SubstituteChangedFiles, Full
<1> QED BY <1>1, <1>3, <1>4 DEF Safe

-----------------------------------------------------------------------------
(* The plan for changed files.                                             *)
Narrowed(w, changed) == [i \in DOMAIN AllSteps(w) |-> NarrowStep(AllSteps(w)[i], w, changed)]
PlanFor(w, changed) == AfterChanges(AllSteps(w), w, changed)

LEMMA StepNarrowed ==
  ASSUME NEW w \in Workspaces, NEW changed \in Seq(SourceFiles), changed # <<>>, NEW x \in PlannedBefore(w) \cup {GitDiff}
  PROVE  LET step == NarrowStep(x, w, changed)
         IN /\ step.category \in PlanCategories /\ Safe(step, changed)
            /\ step.category = "diff" <=> x = GitDiff
            /\ x.category = "diff" <=> x = GitDiff
            /\ x = GitDiff => step = GitDiff
<1>1. GitDiff.category = "diff" /\ \A k \in Keys \cup {"targeted"} : \A c : PlanStep(k, c).category = k /\ k # "diff"
  BY DEF GitDiff, PlanStep, Keys
<1>2. CASE x = GitDiff
  BY <1>1, <1>2, OthersNarrowed DEF PlanCategories, Safe
<1>3. CASE x = PlanStep("targeted", Full("instructed"))
  <2> DEFINE step == NarrowStep(x, w, changed)
  <2>1. step.category = "targeted" /\ Safe(step, changed)
    BY <1>3, OthersNarrowed
  <2>2. x.category = "targeted"
    BY <1>1, <1>3
  <2> HIDE DEF step
  <2> QED BY <1>1, <2>1, <2>2 DEF PlanCategories, step
<1>4. ASSUME NEW k \in Keys, x = PlanStep(k, Full(SelectCommands(k, w)))
      PROVE  LET step == NarrowStep(x, w, changed)
             IN /\ step.category \in PlanCategories /\ Safe(step, changed)
                /\ step.category = "diff" <=> x = GitDiff
                /\ x.category = "diff" <=> x = GitDiff
                /\ x = GitDiff => step = GitDiff
  <2> DEFINE step == NarrowStep(x, w, changed)
  <2>1. step.category \in (IF k = "test" THEN {"test", "targeted"} ELSE {k}) /\ Safe(step, changed)
    BY <1>4, NarrowedIs, SaysTestTyped
  <2>2. x.category = k /\ k # "diff"
    BY <1>1, <1>4
  <2>3. step.category \in PlanCategories /\ step.category # "diff" /\ x # GitDiff
    BY <1>1, <2>1, <2>2 DEF Keys, PlanCategories
  <2> HIDE DEF step
  <2> QED BY <2>1, <2>2, <2>3 DEF step
<1> QED BY <1>2, <1>3, <1>4 DEF PlannedBefore

LEMMA NarrowedAre ==
  ASSUME NEW w \in Workspaces, NEW changed \in Seq(SourceFiles), changed # <<>>
  PROVE  /\ Narrowed(w, changed) \in Seq(Range(Narrowed(w, changed))) /\ Len(Narrowed(w, changed)) = Len(AllSteps(w))
         /\ \A i \in 1 .. Len(AllSteps(w)) : LET step == Narrowed(w, changed)[i]
              IN /\ step = NarrowStep(AllSteps(w)[i], w, changed)
                 /\ step.category \in PlanCategories /\ Safe(step, changed)
                 /\ step.category = "diff" <=> AllSteps(w)[i] = GitDiff
                 /\ AllSteps(w)[i].category = "diff" <=> AllSteps(w)[i] = GitDiff
                 /\ AllSteps(w)[i] = GitDiff => step = GitDiff
<1> DEFINE all == AllSteps(w)
           n == Len(all)
           some == Narrowed(w, changed)
           S == Range(some)
<1>1. all \in Seq(PlannedBefore(w) \cup {GitDiff})
  BY AllStepsAre
<1>2. n \in Nat /\ DOMAIN all = 1 .. n /\ \A i \in 1 .. n : all[i] \in PlannedBefore(w) \cup {GitDiff}
  BY <1>1
<1>3. some = [i \in 1 .. n |-> NarrowStep(all[i], w, changed)]
  BY <1>2 DEF Narrowed
<1> HIDE DEF all, n, some
<1>4. \A i \in 1 .. n : some[i] = NarrowStep(all[i], w, changed) /\ some[i] \in S
  BY <1>3 DEF Range
<1>5. some \in [1 .. n -> S]
  <2> HIDE DEF S
  <2> QED BY <1>3, <1>4
<1>6. some \in Seq(S) /\ Len(some) = n
  <2> HIDE DEF S
  <2> QED BY <1>2, <1>5
<1>7. ASSUME NEW i \in 1 .. n
      PROVE  /\ some[i].category \in PlanCategories /\ Safe(some[i], changed)
             /\ some[i].category = "diff" <=> all[i] = GitDiff
             /\ all[i].category = "diff" <=> all[i] = GitDiff
             /\ all[i] = GitDiff => some[i] = GitDiff
  BY <1>2, <1>4, StepNarrowed
<1> QED BY <1>4, <1>6, <1>7 DEF all, n, some

LEMMA PlanIsSorted ==
  ASSUME NEW w \in Workspaces, NEW changed \in Seq(SourceFiles), changed # <<>>
  PROVE  PlanFor(w, changed) = SortedByPriority(Narrowed(w, changed))
<1> DEFINE all == AllSteps(w)
<1>1. w.git => \E i \in DOMAIN all : all[i].category = "diff"
  <2>1. all \in Seq(PlannedBefore(w) \cup {GitDiff}) /\ (w.git => all # <<>> /\ all[Len(all)] = GitDiff)
    BY AllStepsAre
  <2>2. GitDiff.category = "diff"
    BY DEF GitDiff, PlanStep
  <2> HIDE DEF all
  <2>3. w.git => Len(all) \in DOMAIN all /\ all[Len(all)].category = "diff"
    BY <2>1, <2>2
  <2> QED BY <2>3
<1> QED BY <1>1 DEF PlanFor, AfterChanges, Narrowed

LEMMA PlanHas ==
  ASSUME NEW w \in Workspaces, NEW changed \in Seq(SourceFiles), changed # <<>>
  PROVE  /\ PlanFor(w, changed) \in Seq(Range(Narrowed(w, changed)))
         /\ Range(PlanFor(w, changed)) = {NarrowStep(x, w, changed) : x \in Range(AllSteps(w))}
         /\ \A x \in Range(PlanFor(w, changed)) : Safe(x, changed)
<1> DEFINE all == AllSteps(w)
           n == Len(all)
           some == Narrowed(w, changed)
<1>1. /\ some \in Seq(Range(some)) /\ Len(some) = n
      /\ \A i \in 1 .. n : /\ some[i] = NarrowStep(all[i], w, changed) /\ some[i].category \in PlanCategories
                           /\ Safe(some[i], changed)
  BY NarrowedAre
<1>2. all \in Seq(PlannedBefore(w) \cup {GitDiff})
  BY AllStepsAre
<1>3. DOMAIN all = 1 .. n /\ DOMAIN some = 1 .. n
  BY <1>1, <1>2
<1> HIDE DEF all, n, some
<1>4. \A x \in Range(some) : x.category \in PlanCategories /\ Safe(x, changed)
  BY <1>1, <1>3 DEF Range
<1>5. Range(some) = {NarrowStep(x, w, changed) : x \in Range(all)}
  BY <1>1, <1>3 DEF Range
<1>6. SortedByPriority(some) \in Seq(Range(some)) /\ Range(SortedByPriority(some)) = Range(some)
  BY <1>1, <1>4, SortedIs
<1>7. PlanFor(w, changed) = SortedByPriority(some)
  BY PlanIsSorted DEF some
<1> QED BY <1>4, <1>5, <1>6, <1>7 DEF all, some

LEMMA PlanEnds ==
  ASSUME NEW w \in Workspaces, w.git, NEW changed \in Seq(SourceFiles), changed # <<>>
  PROVE  Last(PlanFor(w, changed)) = GitDiff /\ \A i \in 1 .. Len(PlanFor(w, changed)) - 1 : PlanFor(w, changed)[i] # GitDiff
<1> DEFINE all == AllSteps(w)
           n == Len(all)
           some == Narrowed(w, changed)
           sorted == SortedByPriority(some)
<1>1. /\ some \in Seq(Range(some)) /\ Len(some) = n
      /\ \A i \in 1 .. n : /\ some[i].category = "diff" <=> all[i] = GitDiff
                           /\ all[i] = GitDiff => some[i] = GitDiff
  BY NarrowedAre
<1>2. /\ all \in Seq(PlannedBefore(w) \cup {GitDiff}) /\ all # <<>> /\ all[n] = GitDiff
      /\ \A i \in 1 .. n : all[i] = GitDiff => i = n
  BY AllStepsAre
<1>3. n \in Nat /\ n # 0
  BY <1>2
<1> HIDE DEF all, n, some
<1>4. some # <<>> /\ n \in 1 .. n
  BY <1>1, <1>3
<1>5. some[n] = GitDiff /\ some[n].category = "diff"
  BY <1>1, <1>2, <1>4
<1>6. \A i \in 1 .. n - 1 : some[i].category # "diff"
  BY <1>1, <1>2, <1>3
<1>7. Last(sorted) = some[n] /\ \A i \in 1 .. Len(sorted) - 1 : sorted[i].category # "diff"
  BY <1>1, <1>4, <1>5, <1>6, SortedEnds
<1>8. PlanFor(w, changed) = sorted
  BY PlanIsSorted DEF some
<1>9. GitDiff.category = "diff"
  BY DEF GitDiff, PlanStep
<1> HIDE DEF sorted
<1> QED BY <1>5, <1>7, <1>8, <1>9

LEMMA PlanConfigured ==
  ASSUME NEW w \in Workspaces, NEW changed \in Seq(SourceFiles), changed # <<>>, NEW kind \in w.configured,
         w.discovered[kind] # Missing
  PROVE  \E x \in Range(PlanFor(w, changed)) : /\ x.command.program = w.discovered[kind]
                                               /\ x.category \in IF kind = "test" THEN {"test", "targeted"} ELSE {kind}
<1>1. kind \in Keys
  BY WorkspaceAssumption DEF Keys
<1> DEFINE program == w.discovered[kind]
           old == PlanStep(kind, Full(program))
           step == NarrowStep(old, w, changed)
<1>2. SelectCommands(kind, w) = program
  BY DEF SelectCommands
<1>3. old \in Range(AllSteps(w))
  <2>1. old \in Range(Before(w))
    <3>1. CASE kind = "test"
      <4>1. ~InstructedTests(w)
        BY <3>1 DEF InstructedTests
      <4> QED BY <1>2, <3>1, <4>1, BeforeIs
    <3>2. CASE kind # "test"
      BY <1>1, <1>2, <3>2, BeforeIs
    <3> QED BY <3>1, <3>2
  <2> QED BY <2>1, AllStepsAre
<1>4. step \in Range(PlanFor(w, changed))
  <2> HIDE DEF old
  <2> QED BY <1>3, PlanHas
<1>5. /\ step.command.program = program
      /\ step.category \in IF kind = "test" THEN {"test", "targeted"} ELSE {kind}
      /\ Safe(step, changed)
  <2> HIDE DEF program
  <2> QED BY <1>1, NarrowedIs, SaysTestTyped
<1> HIDE DEF step
<1> QED BY <1>4, <1>5

LEMMA PlanOrder ==
  ASSUME NEW w \in Workspaces, NEW changed \in Seq(SourceFiles), changed # <<>>, w.targeted # "first"
  PROVE  PlanFor(w, Reverse(changed)) = PlanFor(w, changed)
<1>1. Reverse(changed) \in Seq(SourceFiles) /\ Reverse(changed) # <<>>
  BY ReverseIs
<1>2. \A x : NarrowStep(x, w, Reverse(changed)) = NarrowStep(x, w, changed)
  BY OrderOfStep
<1>3. Narrowed(w, Reverse(changed)) = Narrowed(w, changed)
  BY <1>2 DEF Narrowed
<1>4. PlanFor(w, Reverse(changed)) = SortedByPriority(Narrowed(w, Reverse(changed)))
  BY <1>1, PlanIsSorted
<1>5. PlanFor(w, changed) = SortedByPriority(Narrowed(w, changed))
  BY PlanIsSorted
<1> QED BY <1>3, <1>4, <1>5

-----------------------------------------------------------------------------
(* The check of a plan.                                                    *)
Reports ==
  [step : Range(check.plan), passed : BOOLEAN, killed : {FALSE}, output : [length : 0 .. OutputLimit, cut : BOOLEAN],
   lost : BOOLEAN, origin : {"none", "introduced", "unrelated", "unknown"}]

Plans == {PlanFor(w, c) : w \in Workspaces, c \in Changes}
Checks ==
  [workspace : Workspaces, changed : Changes, at : Nat \ {0}, verdict : {"running", "reported", "cancelled"}, plan : Plans]

CheckTypeOK ==
  /\ check \in Checks /\ check.plan = PlanFor(check.workspace, check.changed)
  /\ reports \in Seq(Reports) /\ halted \in BOOLEAN

(* How far the reports are.                                                *)
ReportsSoFar ==
  /\ \A i \in DOMAIN reports : reports[i].step = check.plan[i] /\ (i < Len(reports) => reports[i].passed)
  /\ check.verdict = "running" => /\ check.at = Len(reports) + 1 /\ check.at <= Len(check.plan) + 1
                                  /\ \A i \in DOMAIN reports : reports[i].passed
  /\ check.verdict = "reported" /\ (\A i \in DOMAIN reports : reports[i].passed) => Len(reports) = Len(check.plan)

CheckInv == CheckTypeOK /\ ReportsSoFar /\ LossIsAnnounced

(* What is lost of the output is announced, and the rest fits.             *)
LEMMA OutputFits ==
  ASSUME NEW printed \in [{"out", "err"} -> 0 .. MaxPrinted], NEW captured \in Capture(printed), NEW timedOut \in BOOLEAN
  PROVE  LET output == Combined(captured, timedOut)
         IN output \in [length : 0 .. OutputLimit, cut : BOOLEAN] /\ (captured # printed => output.cut)
<1> DEFINE a == captured["out"]
           b == captured["err"]
           c == printed["out"]
           d == printed["err"]
           length == CombinedLength(captured)
           shown == IF length > OutputLimit THEN OutputLimit ELSE length
           output == Combined(captured, timedOut)
<1>1. MaxPrinted \in Nat /\ OutputLimit \in Nat /\ OutputLimit >= 2
  BY OutputAssumption
<1>2. c \in Nat /\ d \in Nat
  BY <1>1
<1>3. /\ captured \in [{"out", "err"} -> 0 .. MaxPrinted] /\ a <= c /\ b <= d
      /\ a + b = Min({c + d, OutputLimit})
  BY DEF Capture
<1>4. a \in Nat /\ b \in Nat
  BY <1>1, <1>3
<1>5. captured # printed => a # c \/ b # d
  BY <1>3
<1> HIDE DEF a, b, c, d
<1>6. a + b = c + d \/ a + b = OutputLimit
  <2> DEFINE total == c + d
  <2>1. total \in Nat
    BY <1>2
  <2> HIDE DEF total
  <2>2. Min({total, OutputLimit}) = IF total <= OutputLimit THEN total ELSE OutputLimit
    BY <1>1, <2>1 DEF Min
  <2>3. Min({c + d, OutputLimit}) = Min({total, OutputLimit})
    BY DEF total
  <2> QED BY <1>3, <2>2, <2>3 DEF total
<1>7. length = Header(a) + Header(b)
  BY DEF CombinedLength, a, b
<1>8. length \in Nat /\ length >= a + b /\ (a + b > 0 => length > a + b)
  BY <1>4, <1>7 DEF Header
<1>9. output = IF timedOut /\ shown + 1 > OutputLimit THEN [length |-> OutputLimit, cut |-> TRUE]
               ELSE [length |-> shown + (IF timedOut THEN 1 ELSE 0), cut |-> length > OutputLimit]
  BY DEF Combined
<1> HIDE DEF length, output
<1>10. output \in [length : 0 .. OutputLimit, cut : BOOLEAN]
  <2>1. shown \in 0 .. OutputLimit
    BY <1>1, <1>8
  <2>2. CASE timedOut /\ shown + 1 > OutputLimit
    BY <1>1, <1>9, <2>2
  <2>3. CASE ~(timedOut /\ shown + 1 > OutputLimit)
    <3>1. shown + (IF timedOut THEN 1 ELSE 0) \in 0 .. OutputLimit
      <4> HIDE DEF shown
      <4>1. CASE timedOut
        <5>1. shown + 1 \in 0 .. OutputLimit
          BY <1>1, <2>1, <2>3, <4>1
        <5> QED BY <4>1, <5>1
      <4>2. CASE ~timedOut
        <5>1. shown + 0 \in 0 .. OutputLimit
          BY <1>1, <2>1
        <5> QED BY <4>2, <5>1
      <4> QED BY <4>1, <4>2
    <3> HIDE DEF shown
    <3> QED BY <1>9, <2>3, <3>1
  <2> QED BY <2>2, <2>3
<1>11. ASSUME captured # printed PROVE output.cut
  <2>1. a + b = OutputLimit
    BY <1>2, <1>3, <1>4, <1>5, <1>6, <1>11
  <2>2. length > OutputLimit
    BY <1>1, <1>4, <1>8, <2>1
  <2> QED BY <1>9, <2>2
<1> QED BY <1>10, <1>11 DEF output

LEMMA ChangesAre == \A c \in Changes : c \in Seq(SourceFiles) /\ c # <<>>
<1> SUFFICES ASSUME NEW c \in Changes PROVE c \in Seq(SourceFiles) /\ c # <<>>
  OBVIOUS
<1>1. MaxChanged \in Nat
  BY OutputAssumption
<1>2. PICK n \in 1 .. MaxChanged : c \in [1 .. n -> SourceFiles]
  BY DEF Changes
<1>3. n \in Nat /\ n # 0
  BY <1>1
<1>4. c \in Seq(SourceFiles) /\ Len(c) = n
  BY <1>2, <1>3
<1> QED BY <1>3, <1>4

LEMMA CheckStarts == CheckInit => CheckInv
<1> SUFFICES ASSUME CheckInit PROVE CheckInv
  OBVIOUS
<1>1. PICK w \in Workspaces, changed \in Changes :
        check = [workspace |-> w, changed |-> changed, at |-> 1, verdict |-> "running", plan |-> PlanFor(w, changed)]
  BY DEF CheckInit, PlanFor
<1>2. reports = <<>> /\ halted = FALSE
  BY DEF CheckInit
<1>3. changed \in Seq(SourceFiles) /\ changed # <<>>
  BY ChangesAre
<1>4. check.workspace = w /\ check.changed = changed /\ check.at = 1 /\ check.verdict = "running" /\ check.plan = PlanFor(w, changed)
  BY <1>1
<1>5. reports \in Seq(Reports) /\ Len(reports) = 0 /\ DOMAIN reports = {}
  BY <1>2
<1>6. CheckTypeOK
  <2>1. PlanFor(w, changed) \in Plans
    BY DEF Plans
  <2>2. check \in Checks
    BY <1>1, <2>1 DEF Checks
  <2> QED BY <1>2, <1>4, <1>5, <2>2 DEF CheckTypeOK
<1>7. Len(check.plan) \in Nat
  BY <1>3, <1>4, PlanHas
<1>8. ReportsSoFar
  BY <1>4, <1>5, <1>7 DEF ReportsSoFar
<1>9. LossIsAnnounced
  BY <1>5 DEF LossIsAnnounced
<1> QED BY <1>6, <1>8, <1>9 DEF CheckInv

(* The check ends with the reports it has.                                 *)
LEMMA EndKeeps ==
  ASSUME CheckInv, NEW verdict \in {"reported", "cancelled"}, CheckEnds(verdict), halted' = halted,
         \/ verdict = "cancelled" /\ reports' = <<>>
         \/ verdict = "reported" /\ reports' = reports /\ check.verdict = "running" /\ check.at > Len(check.plan)
  PROVE  CheckInv'
<1>1. /\ check' \in Checks
      /\ check'.workspace = check.workspace /\ check'.changed = check.changed /\ check'.at = check.at
      /\ check'.verdict = verdict /\ check'.plan = check.plan
  BY DEF CheckInv, CheckTypeOK, CheckEnds, Checks
<1>2. Reports' = Reports
  BY <1>1 DEF Reports
<1>3. reports' \in Seq(Reports)
  <2>1. reports \in Seq(Reports) /\ <<>> \in Seq(Reports)
    BY DEF CheckInv, CheckTypeOK
  <2> QED BY <2>1
<1>4. CheckTypeOK'
  BY <1>1, <1>2, <1>3 DEF CheckInv, CheckTypeOK
<1>5. CASE verdict = "cancelled" /\ reports' = <<>>
  <2>1. DOMAIN reports' = {}
    BY <1>5
  <2>2. ReportsSoFar' /\ LossIsAnnounced'
    BY <1>1, <1>5, <2>1 DEF ReportsSoFar, LossIsAnnounced
  <2> QED BY <1>4, <2>2 DEF CheckInv
<1>6. CASE verdict = "reported" /\ reports' = reports /\ check.verdict = "running" /\ check.at > Len(check.plan)
  <2>1. Len(check.plan) \in Nat
    BY PlanHas, ChangesAre DEF CheckInv, CheckTypeOK, Checks
  <2>2. Len(reports) = Len(check.plan)
    BY <1>6, <2>1 DEF CheckInv, CheckTypeOK, ReportsSoFar
  <2>3. ReportsSoFar'
    BY <1>1, <1>6, <2>2 DEF CheckInv, ReportsSoFar
  <2>4. LossIsAnnounced'
    BY <1>6 DEF CheckInv, LossIsAnnounced
  <2> QED BY <1>4, <2>3, <2>4 DEF CheckInv
<1> QED BY <1>5, <1>6

(* A step that runs adds its report, and goes on if it passed.             *)
LEMMA RunKeeps ==
  ASSUME CheckInv, NEW printed \in [{"out", "err"} -> 0 .. MaxPrinted], NEW code \in Codes, NEW named,
         RunStep(printed, code, named)
  PROVE  CheckInv'
<1>1. check.verdict = "running" /\ check.at <= Len(check.plan) /\ halted' = halted
  BY DEF RunStep
<1>2. CASE CheckEnds("cancelled") /\ reports' = <<>>
  BY <1>1, <1>2, EndKeeps
<1>3. CASE ~(CheckEnds("cancelled") /\ reports' = <<>>)
  <2>1. ~halted /\
        \E captured \in Capture(printed) :
             LET output == Combined(captured, code = "timed out")
                 passed == code = "zero" /\ ~halted
             IN /\ reports' = Append(reports, [step |-> check.plan[check.at], passed |-> passed, killed |-> halted, output |-> output,
                                               lost |-> captured # printed, origin |-> Origin(passed, named, check.changed)])
                /\ check' = [check EXCEPT !.at = @ + 1, !.verdict = IF passed THEN "running" ELSE "reported"]
    BY <1>3 DEF RunStep, CancelledMeanwhile
  <2> DEFINE n == Len(reports)
             passed == code = "zero"
             verdict == IF passed THEN "running" ELSE "reported"
             origin == Origin(passed, named, check.changed)
  <2>2. halted = FALSE
    BY <2>1 DEF CheckInv, CheckTypeOK
  <2>3. PICK captured \in Capture(printed) :
          /\ reports' = Append(reports, [step |-> check.plan[check.at], passed |-> passed, killed |-> FALSE,
                                         output |-> Combined(captured, code = "timed out"),
                                         lost |-> captured # printed, origin |-> origin])
          /\ check' = [check EXCEPT !.at = @ + 1, !.verdict = verdict]
    BY <2>1, <2>2
  <2> DEFINE output == Combined(captured, code = "timed out")
             lost == captured # printed
             step == check.plan[check.at]
             report == [step |-> step, passed |-> passed, killed |-> FALSE, output |-> output, lost |-> lost, origin |-> origin]
  <2>4. output \in [length : 0 .. OutputLimit, cut : BOOLEAN] /\ (lost => output.cut)
    BY OutputFits
  <2>5. origin \in {"none", "introduced", "unrelated", "unknown"}
    BY DEF Origin
  <2>6. /\ check.plan \in Seq(Range(Narrowed(check.workspace, check.changed)))
        /\ check.workspace \in Workspaces /\ check.changed \in Seq(SourceFiles) /\ check.changed # <<>>
    BY PlanHas, ChangesAre DEF CheckInv, CheckTypeOK, Checks
  <2>7. check.at \in Nat \ {0} /\ check.at = n + 1 /\ n \in Nat /\ Len(check.plan) \in Nat
        /\ reports \in Seq(Reports) /\ \A i \in DOMAIN reports : reports[i].passed
    BY <1>1, <2>6 DEF CheckInv, CheckTypeOK, Checks, ReportsSoFar
  <2>8. check.at \in DOMAIN check.plan
    BY <1>1, <2>6, <2>7
  <2>9. step \in Range(check.plan)
    BY <2>8 DEF Range
  <2>10. passed \in BOOLEAN /\ lost \in BOOLEAN /\ verdict \in {"running", "reported"} /\ (passed => verdict = "running")
         /\ (~passed => verdict = "reported")
    OBVIOUS
  <2>11. reports' = Append(reports, report) /\ check' = [check EXCEPT !.at = @ + 1, !.verdict = verdict]
    BY <2>3
  <2> HIDE DEF output, lost, passed, verdict, origin, step
  <2>12. report \in Reports /\ report.step = step /\ report.passed = passed /\ report.output = output /\ report.lost = lost
    BY <2>4, <2>5, <2>9, <2>10 DEF Reports
  <2>13. output.length <= OutputLimit
    BY <2>4, OutputAssumption
  <2> HIDE DEF report
  <2>14. /\ check' \in Checks /\ check'.plan = check.plan /\ check'.workspace = check.workspace /\ check'.changed = check.changed
         /\ check'.at = n + 2 /\ check'.verdict = verdict
    <3>1. n + 1 + 1 = n + 2 /\ n + 2 \in Nat \ {0}
      BY <2>7
    <3> HIDE DEF n
    <3> QED BY <2>7, <2>10, <2>11, <3>1 DEF CheckInv, CheckTypeOK, Checks
  <2>15. Reports' = Reports
    BY <2>14 DEF Reports
  <2>16. /\ reports' \in Seq(Reports) /\ Len(reports') = n + 1 /\ DOMAIN reports' = 1 .. n + 1 /\ DOMAIN reports = 1 .. n
         /\ reports'[n + 1] = report /\ \A i \in 1 .. n : reports'[i] = reports[i]
    BY <2>7, <2>11, <2>12
  <2>17. CheckTypeOK'
    BY <1>1, <2>14, <2>15, <2>16 DEF CheckInv, CheckTypeOK
  <2> HIDE DEF n
  <2>18. ASSUME NEW i \in 1 .. n + 1
         PROVE  /\ reports'[i].step = check'.plan[i] /\ (i < n + 1 => reports'[i].passed)
                /\ reports'[i].lost => reports'[i].output.cut
                /\ reports'[i].output.length <= OutputLimit
    <3>1. CASE i \in 1 .. n
      <4>1. reports'[i] = reports[i] /\ i \in DOMAIN reports
        BY <2>16, <3>1
      <4>2. reports[i].step = check.plan[i] /\ reports[i].passed
        BY <2>7, <4>1 DEF CheckInv, ReportsSoFar
      <4>3. (reports[i].lost => reports[i].output.cut) /\ reports[i].output.length <= OutputLimit
        BY <4>1 DEF CheckInv, LossIsAnnounced
      <4> QED BY <2>14, <4>1, <4>2, <4>3
    <3>2. CASE i \notin 1 .. n
      <4>1. i = n + 1
        BY <2>7, <3>2
      <4>2. reports'[i] = report /\ step = check.plan[i]
        BY <2>7, <2>16, <4>1 DEF step
      <4> QED BY <2>4, <2>7, <2>12, <2>13, <2>14, <4>1, <4>2
    <3> QED BY <3>1, <3>2
  <2>19. ReportsSoFar'
    <3>1. \A i \in DOMAIN reports' : reports'[i].step = check'.plan[i] /\ (i < Len(reports') => reports'[i].passed)
      BY <2>16, <2>18
    <3>2. ASSUME verdict = "running"
          PROVE  /\ check'.at = Len(reports') + 1 /\ check'.at <= Len(check'.plan) + 1
                 /\ \A i \in DOMAIN reports' : reports'[i].passed
      <4>1. passed
        BY <2>10, <3>2
      <4>2. check'.at = Len(reports') + 1 /\ check'.at <= Len(check'.plan) + 1
        BY <1>1, <2>7, <2>14, <2>16
      <4>3. ASSUME NEW i \in 1 .. n + 1 PROVE reports'[i].passed
        <5>1. CASE i = n + 1
          BY <2>12, <2>16, <4>1, <5>1
        <5>2. CASE i # n + 1
          <6>1. i < n + 1
            BY <2>7, <5>2
          <6> QED BY <2>18, <6>1
        <5> QED BY <5>1, <5>2
      <4> QED BY <2>16, <4>2, <4>3
    <3>3. ASSUME verdict = "reported" PROVE ~\A i \in DOMAIN reports' : reports'[i].passed
      <4>1. ~passed /\ n + 1 \in 1 .. n + 1
        BY <2>7, <2>10, <3>3
      <4> QED BY <2>12, <2>16, <4>1
    <3> QED BY <2>14, <3>1, <3>2, <3>3 DEF ReportsSoFar
  <2>20. LossIsAnnounced'
    BY <2>16, <2>18 DEF LossIsAnnounced
  <2> QED BY <2>17, <2>19, <2>20 DEF CheckInv
<1> QED BY <1>2, <1>3

LEMMA CheckSteps == CheckInv /\ [CheckNext]_checkVars => CheckInv'
<1> SUFFICES ASSUME CheckInv, [CheckNext]_checkVars PROVE CheckInv'
  OBVIOUS
<1>1. CASE StepStarts
  <2>1. halted' = halted /\ check.verdict = "running"
    BY <1>1 DEF StepStarts
  <2>2. CASE check.at > Len(check.plan) /\ CheckEnds("reported") /\ reports' = reports
    BY <2>1, <2>2, EndKeeps
  <2>3. CASE CheckEnds("cancelled") /\ reports' = <<>>
    BY <2>1, <2>3, EndKeeps
  <2> QED BY <1>1, <2>2, <2>3 DEF StepStarts
<1>2. CASE CancelCheck
  <2>1. check' = check /\ reports' = reports /\ halted' = TRUE
    BY <1>2 DEF CancelCheck
  <2> QED BY <2>1 DEF CheckInv, CheckTypeOK, Reports, ReportsSoFar, LossIsAnnounced
<1>3. CASE \E printed \in [{"out", "err"} -> 0 .. MaxPrinted], code \in Codes, named \in {{}, {"x"}} : RunStep(printed, code, named)
  BY <1>3, RunKeeps
<1>4. CASE UNCHANGED checkVars
  BY <1>4 DEF checkVars, CheckInv, CheckTypeOK, Reports, ReportsSoFar, LossIsAnnounced
<1> QED BY <1>1, <1>2, <1>3, <1>4 DEF CheckNext

(***************************************************************************)
(* For any changed files and any workspace: a Cargo or Go test command is  *)
(* narrowed to one that runs the tests of every changed file, but for the  *)
(* test files NarrowingIsSafe leaves out, in whatever order they changed;  *)
(* the plan runs what the user configured and ends with the diff; and the  *)
(* reports are those of its steps, one after the other, with a notice      *)
(* where output is missing (after_changes, verify_with_cancellation).      *)
(***************************************************************************)
THEOREM VerificationHonest == CheckSpec => []VerificationIsHonest
<1>1. CheckInit => CheckInv
  BY CheckStarts
<1>2. CheckInv /\ [CheckNext]_checkVars => CheckInv'
  BY CheckSteps
<1>3. CheckInv => VerificationIsHonest
  <2> SUFFICES ASSUME CheckInv PROVE VerificationIsHonest
    OBVIOUS
  <2> DEFINE w == check.workspace
             changed == check.changed
             plan == check.plan
  <2>1. w \in Workspaces /\ changed \in Seq(SourceFiles) /\ changed # <<>> /\ plan = PlanFor(w, changed)
    BY ChangesAre DEF CheckInv, CheckTypeOK, Checks
  <2>2. OrderDoesNotMatter
    <3>1. w.targeted # "first" => PlanFor(w, Reverse(changed)) = plan
      <4> HIDE DEF w, changed, plan
      <4> QED BY <2>1, PlanOrder
    <3> QED BY <3>1 DEF OrderDoesNotMatter, PlanFor
  <2>3. NarrowingIsSafe
    <3> SUFFICES ASSUME NEW i \in TestSteps, plan[i].command.program \in {"cargo", "go"}, NEW f \in ChangedFiles,
                        f.target # Missing => f.integration
                 PROVE  Exercises(plan[i].command, f)
      BY DEF NarrowingIsSafe
    <3>1. i \in DOMAIN plan /\ plan[i].category \in {"targeted", "test"} /\ f \in Range(changed)
      BY DEF TestSteps, ChangedFiles
    <3>2. plan[i] \in Range(plan)
      BY <3>1 DEF Range
    <3> HIDE DEF w, changed, plan
    <3>3. Safe(plan[i], changed)
      BY <2>1, <3>2, PlanHas
    <3> QED BY <3>1, <3>3 DEF Safe
  <2>4. ConfiguredRuns
    <3> DEFINE programs(keys) == {plan[i].command.program : i \in {j \in DOMAIN plan : plan[j].category \in keys}}
    <3>1. ASSUME NEW kind \in w.configured, w.discovered[kind] # Missing
          PROVE  w.discovered[kind] \in programs(IF kind = "test" THEN {"test", "targeted"} ELSE {kind})
      <4> DEFINE keys == IF kind = "test" THEN {"test", "targeted"} ELSE {kind}
      <4> HIDE DEF w, changed, plan
      <4>1. PICK x \in Range(plan) : x.command.program = w.discovered[kind] /\ x.category \in keys
        BY <2>1, <3>1, PlanConfigured
      <4>2. PICK i \in DOMAIN plan : x = plan[i]
        BY DEF Range
      <4> HIDE DEF keys
      <4>3. i \in {j \in DOMAIN plan : plan[j].category \in keys} /\ w.discovered[kind] = plan[i].command.program
        BY <4>1, <4>2
      <4>4. w.discovered[kind] \in programs(keys)
        BY <4>3
      <4> QED BY <4>4 DEF keys
    <3>2. w.git => Last(plan) = GitDiff /\ \A i \in 1 .. Len(plan) - 1 : plan[i] # GitDiff
      <4> HIDE DEF w, changed, plan
      <4> QED BY <2>1, PlanEnds
    <3> QED BY <3>1, <3>2 DEF ConfiguredRuns
  <2>5. ReportsCoverPlan
    <3>1. reports \in Seq(Reports)
      BY DEF CheckInv, CheckTypeOK
    <3>2. \A i \in DOMAIN reports : reports[i] \in Reports
      BY <3>1
    <3>3. \A report \in Reports : report.killed = FALSE
      BY DEF Reports
    <3>4. \A i \in DOMAIN reports : ~reports[i].killed
      BY <3>2, <3>3
    <3> QED BY <3>4 DEF CheckInv, ReportsSoFar, ReportsCoverPlan
  <2>6. LossIsAnnounced
    BY DEF CheckInv
  <2> QED BY <2>2, <2>3, <2>4, <2>5, <2>6 DEF VerificationIsHonest
<1> QED BY <1>1, <1>2, <1>3, PTL DEF CheckSpec
=============================================================================
