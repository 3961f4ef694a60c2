---------------------------- MODULE ContextWindow ----------------------------
(* What the model is shown: ContextBuilder (crates/harness-context) and the *)
(* part of AgentRunner::run that uses it (crates/harness-agent/src/lib.rs). *)
(* Each turn trims the native history (the last response and the results of *)
(* its calls), reserves its tokens, ranks everything else into a prompt     *)
(* within the rest of the budget, and compacts when the estimate is high.   *)
(* A text is its length in bytes; both truncations cut a text to their      *)
(* limit exactly, marker included, so a cut is a minimum.                   *)
EXTENDS Naturals, Sequences, FiniteSets, SequencesExt, FiniteSetsExt

CONSTANTS
  Inputs,          \* what a task brings: [system, request, diff, instructions, files, workspace, results]
  TextSizes,       \* sizes of answers, results and summaries
  Window,          \* max_working_context_tokens for the model's window
  SizeLimit,       \* per kind of item: the byte limits of ContextBudget
  RecentMessages,  \* MAX_RECENT_CONVERSATION_MESSAGES
  RecentResults,   \* MAX_RECENT_TOOL_RESULTS
  KeepMessages,    \* CompactionConfig::keep_recent_messages
  Threshold,       \* CompactionConfig::threshold_tokens
  MaxModelTurns,   \* bound: turns
  MaxResults       \* bound: tool calls of a response

Results == [number : Nat, kind : {"file", "search", "shell", "check", "other"}, size : Nat, failure : BOOLEAN, inHistory : BOOLEAN]

ASSUME WindowAssumption ==
  /\ Window \in Nat \ {0} /\ Threshold \in Nat /\ TextSizes \subseteq Nat
  /\ RecentMessages \in Nat /\ RecentResults \in Nat /\ KeepMessages \in Nat /\ MaxResults \in Nat
  /\ "shell" \in DOMAIN SizeLimit /\ \A kind \in DOMAIN SizeLimit : SizeLimit[kind] \in Nat
ASSUME InputsAssumption ==
  \A given \in Inputs :
    /\ given.system \in Nat /\ given.request \in Nat /\ given.diff \in Nat /\ given.workspace \in Nat
    /\ given.instructions \in Seq(Nat) /\ given.files \in Seq(Nat) /\ given.results \in Seq(Results)

VARIABLES
  input,       \* the fixed part of ContextInput
  talk,        \* conversation: sizes
  results,     \* tool_results
  summary,     \* compacted_state: its rendered size, 0 for None
  history,     \* model_history
  sent,        \* the last model request: items, tokens, reserved; NotSent before
  modelTurns,  \* turns so far
  nextResult   \* history: number of the next result

contextVars == <<input, talk, results, summary, history, sent, modelTurns, nextResult>>

Tokens(bytes) == (bytes + 3) \div 4
Less(a, b) == IF a > b THEN a - b ELSE 0   \* saturating_sub
Cut(size, limit) == IF size > limit THEN limit ELSE size   \* truncate_bytes, its marker included
Total(seq) == LET sum[i \in 0 .. Len(seq)] == IF i = 0 THEN 0 ELSE sum[i - 1] + seq[i]
              IN sum[Len(seq)]

----------------------------------------------------------------------------
(* The native history: an assistant message has content and arguments, a    *)
(* tool message the output of the result it answers with.                   *)
MessageTokens(message) == Tokens(message.size + message.args)
HistoryTokens(messages) == Total([i \in DOMAIN messages |-> MessageTokens(messages[i])])
IsTool(message) == message.role = "tool"

(* Arguments already executed are replaced by a short object.               *)
Placeholder == 2
WithoutArguments(messages) ==
  [i \in DOMAIN messages |-> [messages[i] EXCEPT !.args = IF @ = 0 THEN 0 ELSE Placeholder]]

(* How many tool messages there are, and the tokens of the others.          *)
Tools(messages) == Cardinality({i \in DOMAIN messages : IsTool(messages[i])})
FixedTokens(messages) == Total([i \in DOMAIN messages |-> IF IsTool(messages[i]) THEN 0 ELSE MessageTokens(messages[i])])

(* The share of each result, rounding forgotten. *)
ResultShareWhole(messages, limit) == (Less(limit, FixedTokens(messages)) * 4) \div Max({1, Tools(messages)})

(* The bytes each tool result may keep; a token is put aside per result for *)
(* the rounding.                                                            *)
ResultShare(messages, limit) ==
  LET tools == Max({1, Tools(messages)})
  IN (Less(limit, FixedTokens(messages) + tools) * 4) \div tools

(* trim_model_history_to_budget.                                            *)
Trim(messages, limit) ==
  LET bare == WithoutArguments(messages)
      share == ResultShare(bare, limit)
  IN IF HistoryTokens(messages) <= limit THEN messages
     ELSE IF HistoryTokens(bare) <= limit THEN bare
     ELSE [i \in DOMAIN bare |-> IF IsTool(bare[i]) THEN [bare[i] EXCEPT !.size = Cut(@, share)] ELSE bare[i]]

HistoryBudget == Min({Max({Window \div 3, 1}), Window})

----------------------------------------------------------------------------
(* The candidates for the prompt, in the order in which they are added; the *)
(* status of the repository is one more like the workspace's metadata.      *)
Item(number, kind, priority, recency, size, required) ==
  [number |-> number, kind |-> kind, priority |-> priority, recency |-> recency, size |-> size, required |-> required]

Latest(seq, n) == SubSeq(seq, Max({1, Len(seq) - n + 1}), Len(seq))
Visible(all) ==
  LET shown[i \in 0 .. Len(all)] ==
        IF i = 0 THEN <<>> ELSE IF all[i].inHistory THEN shown[i - 1] ELSE Append(shown[i - 1], all[i])
  IN shown[Len(all)]

ResultPriority(result) ==
  IF result.failure THEN 1
  ELSE CASE result.kind = "file" -> 2
         [] result.kind = "search" -> 3
         [] result.kind = "shell" -> 5
         [] OTHER -> 4

(* Shell output is summarized before it becomes a candidate.                *)
ResultItem(result, recency) ==
  Item(result.number, result.kind, ResultPriority(result), recency,
       IF result.kind = "shell" THEN Cut(result.size, SizeLimit["shell"]) ELSE result.size, result.failure)

Optional(kind, priority, recency, size) == IF size = 0 THEN <<>> ELSE <<Item(0, kind, priority, recency, size, FALSE)>>

Candidates(given, said, all, digest) ==
  LET recent == Latest(said, RecentMessages)
      fresh == Latest(Visible(all), RecentResults)
      guide == given.instructions
  IN <<Item(0, "system", 0, 0, given.system, TRUE), Item(0, "request", 0, 1, given.request, TRUE)>>
     \o Optional("summary", 3, 1000, digest)
     \o Optional("diff", 1, 0, given.diff)
     \o [i \in DOMAIN guide |-> Item(0, "instruction", 1, i - 1, guide[i], FALSE)]
     \o Optional("workspace", 3, 0, given.workspace)
     \o [i \in DOMAIN recent |-> Item(0, "message", 3, Len(recent) - i + 1, recent[i], FALSE)]
     \o [i \in DOMAIN given.files |-> Item(0, "given", 2, i - 1, given.files[i], FALSE)]
     \o [i \in DOMAIN fresh |-> LET r == Len(fresh) - i + 1 IN ResultItem(fresh[r], i)]

Before(list, i, j) ==
  LET a == list[i]  b == list[j]
  IN \/ a.priority < b.priority
     \/ a.priority = b.priority /\ a.recency < b.recency
     \/ a.priority = b.priority /\ a.recency = b.recency /\ i < j

(* sort_by_key, stable: an item's place is after all that come before it.   *)
PlaceOf(list, i) == 1 + Cardinality({j \in DOMAIN list : Before(list, j, i)})
Ranked(list) == [r \in DOMAIN list |-> list[CHOOSE i \in DOMAIN list : PlaceOf(list, i) = r]]

Shown(item, size, tokens, truncated) ==
  [number |-> item.number, kind |-> item.kind, rank |-> <<item.priority, item.recency>>, whole |-> item.size, size |-> size,
   tokens |-> tokens, included |-> TRUE, truncated |-> truncated]

(* add_item: the limit of its kind, then the budget; over the budget a      *)
(* required item is cut to what is left and another is left out.            *)
AddItem(budget, acc, item) ==
  LET size == IF item.kind \in DOMAIN SizeLimit THEN Cut(item.size, SizeLimit[item.kind]) ELSE item.size
      fits == acc.used + Tokens(size) <= budget
      rest == Cut(size, Less(budget, acc.used) * 4)
  IN IF fits
     THEN [used |-> acc.used + Tokens(size), items |-> Append(acc.items, Shown(item, size, Tokens(size), size < item.size))]
     ELSE IF item.required
     THEN [used |-> acc.used + Tokens(rest), items |-> Append(acc.items, Shown(item, rest, Tokens(rest), TRUE))]
     ELSE [acc EXCEPT !.items = Append(@, [Shown(item, 0, Tokens(size), FALSE) EXCEPT !.included = FALSE])]

(* build_for_context_window_reserving.                                      *)
PromptBudget(reserved) == Max({Less(Window, reserved), 1})
AddAll(budget, list) ==
  LET acc[i \in 0 .. Len(list)] == IF i = 0 THEN [used |-> 0, items |-> <<>>] ELSE AddItem(budget, acc[i - 1], list[i])
  IN acc[Len(list)]
Assemble(reserved, given, said, all, digest) ==
  AddAll(PromptBudget(reserved), Ranked(Candidates(given, said, all, digest)))

----------------------------------------------------------------------------
Result(number, kind, size, failure, inHistory) ==
  [number |-> number, kind |-> kind, size |-> size, failure |-> failure, inHistory |-> inHistory]

NotSent == [items |-> <<>>, tokens |-> 0, reserved |-> 0, budget |-> 0]

ContextInit ==
  /\ input \in Inputs
  /\ results = input.results
  /\ talk = <<>> /\ summary = 0 /\ history = <<>>
  /\ sent = NotSent /\ modelTurns = 0 /\ nextResult = Len(input.results) + 1

Ready == sent = NotSent
CompactionPoint(reserved) == Min({Threshold, Max({(PromptBudget(reserved) * 3) \div 4, 1})})

RequestOf(assembly, reserved) ==
  [items |-> assembly.items, tokens |-> assembly.used, reserved |-> reserved, budget |-> PromptBudget(reserved)]

(* compact_context: a few messages stay, the results go, and a summary of   *)
(* the compaction strategy's making stands for them.                        *)
CompactContext ==
  /\ talk' = Latest(talk, Min({KeepMessages, 8}))
  /\ results' = <<>>
  /\ \E size \in TextSizes : summary' = size

(* The head of a turn.  Attachments, which reserve tokens of their own, and *)
(* what hooks observe are left out.                                         *)
SendRequest ==
  LET trimmed == Trim(history, HistoryBudget)
      reserved == HistoryTokens(trimmed)
      first == Assemble(reserved, input, talk, results, summary)
      compacts == Threshold > 0 /\ first.used + reserved >= CompactionPoint(reserved)
  IN /\ Ready
     /\ modelTurns < MaxModelTurns
     /\ modelTurns' = modelTurns + 1
     /\ history' = trimmed
     /\ \/ /\ ~compacts
           /\ sent' = RequestOf(first, reserved)
           /\ UNCHANGED <<talk, results, summary>>
        \/ /\ compacts
           /\ CompactContext
           /\ sent' = RequestOf(Assemble(reserved, input, talk', <<>>, summary'), reserved)
     /\ UNCHANGED <<input, nextResult>>

(* A response with tool calls: it and the results replace the history, and  *)
(* the results are kept as already in it.  The checks after an edit, or a   *)
(* hook, may add an observation of their own.                               *)
AnswerWithCalls ==
  /\ ~Ready
  /\ \E text, args \in TextSizes, kinds \in BoundedSeq({"file", "shell"}, MaxResults), size \in TextSizes, check \in {"none", "passed", "failed"} :
       /\ kinds # <<>>
       /\ talk' = Append(talk, text)
       /\ history' = <<[role |-> "assistant", size |-> text, args |-> args, number |-> 0]>>
                     \o [i \in DOMAIN kinds |-> [role |-> "tool", size |-> size, args |-> 0, number |-> nextResult + i - 1]]
       /\ results' = results \o [i \in DOMAIN kinds |-> Result(nextResult + i - 1, kinds[i], size, FALSE, TRUE)]
                     \o IF check = "none" THEN <<>>
                        ELSE <<Result(nextResult + Len(kinds), "check", size, check = "failed", FALSE)>>
       /\ nextResult' = nextResult + Len(kinds) + (IF check = "none" THEN 0 ELSE 1)
  /\ sent' = NotSent
  /\ UNCHANGED <<input, summary, modelTurns>>

(* A final answer the completion gate turns back.                           *)
AnswerTurnedBack ==
  /\ ~Ready
  /\ \E text, size \in TextSizes :
       /\ talk' = Append(talk, text)
       /\ results' = Append(results, Result(nextResult, "check", size, TRUE, FALSE))
  /\ nextResult' = nextResult + 1
  /\ sent' = NotSent
  /\ UNCHANGED <<input, summary, history, modelTurns>>

ContextNext == SendRequest \/ AnswerWithCalls \/ AnswerTurnedBack

ContextSpec == ContextInit /\ [][ContextNext]_contextVars

----------------------------------------------------------------------------
Chosen == {i \in DOMAIN sent.items : sent.items[i].included}

(* The prompt stays within what the history leaves of the budget, however   *)
(* large the texts that must be in it, and its estimate is what its items   *)
(* add up to.                                                               *)
PromptFits ==
  ~Ready => /\ sent.tokens <= sent.budget
            /\ sent.tokens = Total([i \in DOMAIN sent.items |-> IF i \in Chosen THEN sent.items[i].tokens ELSE 0])

(* A trimmed history fits its third of the budget whenever what cannot be   *)
(* cut fits: no rounding of many small shares adds up to more.              *)
HistoryFits ==
  ~Ready /\ FixedTokens(history) + Tools(history) <= HistoryBudget => sent.reserved <= HistoryBudget

(* Nothing less relevant takes the place of an item: one that was left out  *)
(* did not fit beside the items ranked before it.                           *)
NothingDisplaced ==
  \A i \in DOMAIN sent.items \ Chosen :
    LET Outranks(j) == \/ sent.items[j].rank[1] < sent.items[i].rank[1]
                       \/ sent.items[j].rank[1] = sent.items[i].rank[1] /\ sent.items[j].rank[2] <= sent.items[i].rank[2]
        before == [j \in DOMAIN sent.items |-> IF j \in Chosen /\ Outranks(j) THEN sent.items[j].tokens ELSE 0]
    IN Total(before) + sent.items[i].tokens > sent.budget

(* The request, the instructions of the system and every recent failure the *)
(* history does not show are in the prompt, if only in part; and a          *)
(* candidate that was cut says so.                                          *)
FailuresShown ==
  ~Ready => /\ {"system", "request"} \subseteq {sent.items[i].kind : i \in Chosen}
            /\ LET fresh == Latest(Visible(results), RecentResults)
               IN \A r \in DOMAIN fresh : fresh[r].failure => \E i \in Chosen : sent.items[i].number = fresh[r].number
            /\ \A i \in Chosen : sent.items[i].size < sent.items[i].whole => sent.items[i].truncated

\* Prompt and history fit the window together, and what they leave out is what
\* matters least (build_for_context_window_reserving, trim_model_history_to_budget).
ContextFits == PromptFits /\ HistoryFits /\ NothingDisplaced /\ FailuresShown
=============================================================================
