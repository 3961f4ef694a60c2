---------------------------- MODULE Conversation ----------------------------
(***************************************************************************)
(* What a provider is sent from turn to turn of one run.  The agent loop   *)
(* sends the assembled context and the latest batch of its history (the    *)
(* assistant message and the results of its calls), after trimming that    *)
(* batch to its budget; each adapter converts the messages to its native   *)
(* items.  Anthropic and Gemini remember the native form of the last tool  *)
(* turns, because signed thinking blocks have to be sent back.             *)
(***************************************************************************)
EXTENDS Integers, Sequences, FiniteSets, SequencesExt

CONSTANTS Adapters,  \* "openai", "anthropic", "gemini", "chat"
          MaxTurns,  \* turns of the run
          MaxCached  \* MAX_CACHED_TOOL_TURNS and MAX_CACHED_TURNS

VARIABLES adapter, optIn,
          turn,      \* answers received
          history,   \* the batch that follows the context
          cache,     \* call identifier -> remembered native turn
          request,   \* the native items sent last; empty before the first
          step      \* "trim", "build" or "answer"

convVars == <<adapter, optIn, turn, history, cache, request, step>>

Block(kind, turnNo) == [kind |-> kind, turn |-> turnNo]
ToolCallOf(t, k, args) == [id |-> <<t, k>>, args |-> args]
Native(role, kind, turnNo, id, args) == [role |-> role, kind |-> kind, turn |-> turnNo, id |-> id, args |-> args]
NoId == <<0, 0>>
(* The context message of the turn, from the user's side. *)
ContextMessage == [role |-> "user", content |-> <<Block("text", 0)>>, calls |-> <<>>, id |-> NoId]
ToolResult(id) == [role |-> "tool", content |-> <<Block("text", id[1])>>, calls |-> <<>>, id |-> id]
Messages == <<ContextMessage>> \o history

Contents(role, message) == [k \in DOMAIN message.content |->
    Native(role, message.content[k].kind, message.content[k].turn, NoId, "none")]
Calls(role, message) == [k \in DOMAIN message.calls |->
    Native(role, "call", message.calls[k].id[1], message.calls[k].id, message.calls[k].args)]
Result(role, message) == << Native(role, "result", message.id[1], message.id, "none") >>
JoinTexts(blocks, kinds) == LET kept == SelectSeq(blocks, LAMBDA b : b.kind \in kinds)
                            IN [k \in DOMAIN kept |-> <<kept[k].kind, kept[k].turn>>]

-----------------------------------------------------------------------------
(* openai.rs: input_items.  A reasoning block is sent as text. *)
OpenAIItems(message) ==
    IF message.role = "tool" THEN Result("tool", message)
    ELSE Contents(message.role, message) \o Calls(message.role, message)
OpenAIRequest == FlattenSeq([k \in DOMAIN Messages |-> OpenAIItems(Messages[k])])

(* opencode.rs: chat_message *)
ChatItems(message) ==
    IF message.role = "tool" THEN Result("tool", message)
    ELSE Contents(message.role, message) \o Calls(message.role, message)
ChatRequest == FlattenSeq([k \in DOMAIN Messages |-> ChatItems(Messages[k])])

(* anthropic.rs: cached_assistant_content.  The remembered turn is sent if *)
(* its calls are those of the message and its text is the message's text;  *)
(* content_text also counts the reasoning blocks of the message.           *)
SameTurnByText(message, blocks) ==
    JoinTexts(blocks, {"text"}) = JoinTexts(message.content, {"text", "reason"})
SameTurn(message, blocks) ==
    LET calls == SelectSeq(blocks, LAMBDA b : b.kind = "call")
    IN /\ [k \in DOMAIN calls |-> [id |-> calls[k].id, args |-> calls[k].args]] = message.calls
       /\ JoinTexts(blocks, {"text"}) = JoinTexts(message.content, {"text", "reason"})
CachedAssistantContent(message) ==
    LET known == {k \in DOMAIN message.calls : message.calls[k].id \in DOMAIN cache}
        blocks == cache[message.calls[CHOOSE k \in known : \A j \in known : k <= j].id]
    IN IF known # {} /\ SameTurn(message, blocks) THEN <<blocks>> ELSE <<>>
AnthropicAssistant(message) ==
    LET remembered == CachedAssistantContent(message)
        shown == [message EXCEPT !.content = SelectSeq(@, LAMBDA b : b.kind = "text")]
    IN IF remembered # <<>> THEN remembered[1] ELSE Contents("assistant", shown) \o Calls("assistant", shown)

(* append_message: neighbours of one role become one message. *)
AppendMessage(messages, role, blocks) ==
    IF messages # <<>> /\ Last(messages).role = role
    THEN [messages EXCEPT ![Len(messages)].blocks = @ \o blocks]
    ELSE Append(messages, [role |-> role, blocks |-> blocks])
(* request_body *)
AnthropicMessages ==
    FoldLeft(LAMBDA acc, message :
                CASE message.role = "user" -> AppendMessage(acc, "user", Contents("user", message))
                  [] message.role = "assistant" -> AppendMessage(acc, "assistant", AnthropicAssistant(message))
                  [] message.role = "tool" -> AppendMessage(acc, "user", Result("user", message)),
             <<>>, Messages)
AnthropicRequest == FlattenSeq([k \in DOMAIN AnthropicMessages |-> AnthropicMessages[k].blocks])

(* gemini.rs: cached_assistant_parts compares the calls only. *)
CachedAssistantParts(message) ==
    IF message.calls = <<>> \/ Head(message.calls).id \notin DOMAIN cache THEN <<>>
    ELSE LET parts == cache[Head(message.calls).id]
             calls == SelectSeq(parts, LAMBDA b : b.kind = "call")
         IN IF [k \in DOMAIN calls |-> [id |-> calls[k].id, args |-> calls[k].args]] = message.calls
            THEN <<parts>> ELSE <<>>
(* request_body.  A result names its call from the memory or, evicted, from *)
(* the assistant message, which is always in the same batch.                *)
GeminiItems(message) ==
    CASE message.role = "user" -> Contents("user", message)
      [] message.role = "assistant" ->
            IF CachedAssistantParts(message) # <<>> THEN CachedAssistantParts(message)[1]
            ELSE Contents("assistant", message) \o Calls("assistant", message)
      [] message.role = "tool" -> Result("function", message)
GeminiRequest == FlattenSeq([k \in DOMAIN Messages |-> GeminiItems(Messages[k])])

-----------------------------------------------------------------------------
ConvInit == /\ adapter \in Adapters /\ optIn \in BOOLEAN
        /\ turn = 0 /\ history = <<>> /\ request = <<>> /\ step = "trim"
        /\ cache = [id \in {} |-> <<>>]

(* trim_model_history_to_budget: over budget, the arguments of the calls are *)
(* replaced; if that is not enough, results lose text (their pairing stays).  *)
TrimArguments(message) == [message EXCEPT !.calls = [k \in DOMAIN @ |-> [@[k] EXCEPT !.args = "executed"]]]
Trimmed(batch) == [k \in DOMAIN batch |-> TrimArguments(batch[k])]
TrimHistory ==
    /\ step = "trim" /\ step' = "build"
    /\ history' \in {history, Trimmed(history)}
    /\ UNCHANGED <<adapter, optIn, turn, cache, request>>

BuildRequest ==
    /\ step = "build"
    /\ step' = "answer"
    /\ request' = CASE adapter = "openai" -> OpenAIRequest
                    [] adapter = "chat" -> ChatRequest
                    [] adapter = "anthropic" -> AnthropicRequest
                    [] adapter = "gemini" -> GeminiRequest
    /\ UNCHANGED <<adapter, optIn, turn, history, cache>>

(* remember_tool_turn and remember_turn: every call of the turn leads to it; *)
(* over the limit, entries leave in the order of a hash table.               *)
Remembered(ids, native) ==
    LET known == [id \in DOMAIN cache \cup ids |-> IF id \in ids THEN native ELSE cache[id]]
        Keeps(S) == [id \in S |-> known[id]]
    IN IF Cardinality(DOMAIN known) <= MaxCached THEN {known}
       ELSE {Keeps(S) : S \in {T \in SUBSET DOMAIN known : Cardinality(T) = MaxCached}}

(* A native turn: thinking (signed), text and calls; the response shows      *)
(* thinking only if asked for.  Anthropic and Gemini think, the others not.   *)
NativeTurn(t, thinks, speaks, count) ==
    (IF thinks THEN <<Native("assistant", "thinking", t, NoId, "none")>> ELSE <<>>)
    \o (IF speaks THEN <<Native("assistant", "text", t, NoId, "none")>> ELSE <<>>)
    \o [k \in 1..count |-> Native("assistant", "call", t, <<t, k>>, "full")]
Shown(t, thinks, speaks) == (IF thinks /\ optIn THEN <<Block("reason", t)>> ELSE <<>>)
                            \o (IF speaks THEN <<Block("text", t)>> ELSE <<>>)

(* The answer's calls are all executed and their results follow the message. *)
Answer ==
    /\ step = "answer" /\ turn < MaxTurns
    /\ \E thinks, speaks \in BOOLEAN, count \in 1..2 :
          LET t == turn + 1
              calls == [k \in 1..count |-> ToolCallOf(t, k, "full")]
          IN /\ thinks => adapter \in {"anthropic", "gemini"}
             /\ turn' = t
             /\ history' = << [role |-> "assistant", content |-> Shown(t, thinks, speaks), calls |-> calls, id |-> NoId] >>
                           \o [k \in 1..count |-> ToolResult(<<t, k>>)]
             /\ IF adapter \in {"anthropic", "gemini"}
                THEN cache' \in Remembered({<<t, k>> : k \in 1..count}, NativeTurn(t, thinks, speaks, count))
                ELSE UNCHANGED cache
    /\ step' = "trim"
    /\ UNCHANGED <<adapter, optIn, request>>

ConvNext == TrimHistory \/ BuildRequest \/ Answer
ConvSpec == ConvInit /\ [][ConvNext]_convVars

-----------------------------------------------------------------------------
SentOf(kind) == {k \in DOMAIN request : request[k].kind = kind}
AssistantMessage == {k \in DOMAIN history : history[k].role = "assistant"}

(* Every result a provider is sent answers a call that it was sent before,  *)
(* exactly once, and every call has its result: also when the batch was     *)
(* trimmed or the remembered turn was used or evicted.                      *)
ResultsPairCalls ==
    step = "answer" =>
        /\ \A r \in SentOf("result") : \E c \in SentOf("call") : c < r /\ request[c].id = request[r].id
        /\ \A c \in SentOf("call") : Cardinality({r \in SentOf("result") : request[r].id = request[c].id}) = 1
        /\ \A c, d \in SentOf("call") : request[c].id = request[d].id => c = d

(* A turn that is replayed from memory is the turn the history holds: its   *)
(* calls with the arguments the history has, and nothing of another turn.   *)
ReplayIsTheHistory ==
    step = "answer" =>
        LET sent == SelectSeq(request, LAMBDA item : item.kind = "call")
        IN /\ \A k \in AssistantMessage :
                 history[k].calls = [c \in DOMAIN sent |-> [id |-> sent[c].id, args |-> sent[c].args]]
           /\ \A i \in DOMAIN request : request[i].turn \in {0, turn}

(* The Messages API takes messages of alternating roles. *)
RolesAlternate ==
    step = "build" /\ adapter = "anthropic" =>
        \A k \in 1..(Len(AnthropicMessages) - 1) : AnthropicMessages[k].role # AnthropicMessages[k + 1].role

\* However the history was trimmed and turns remembered, a request pairs results
\* with their calls, replays turns as they were and alternates its roles (the
\* adapters' conversion of messages).
RequestIsWellFormed == ResultsPairCalls /\ ReplayIsTheHistory /\ RolesAlternate
=============================================================================
