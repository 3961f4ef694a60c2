--------------------------- MODULE StreamParsers ---------------------------
(***************************************************************************)
(* What the four model protocol adapters of harness-models make of the     *)
(* events a provider streams: OpenAI Responses (openai.rs), Anthropic      *)
(* Messages (anthropic.rs), Gemini (gemini.rs) and Chat Completions        *)
(* (opencode.rs).  Each adapter is a function of its accumulator and of    *)
(* one wire event; Streams runs them.                                      *)
(*                                                                         *)
(* An answer is a sequence of items: "text", "reason" (a reasoning         *)
(* summary), "tool" (a call) and "cut" (a call whose arguments the token   *)
(* limit cut off).  The text of item i, and the JSON of its arguments, is  *)
(* a sequence of two fragments; JSON parses exactly when both are there,   *)
(* also when characters were lost within one (fragment 0).                 *)
(* Names and identifiers of a call are its item's number.                  *)
(***************************************************************************)
EXTENDS Integers, Sequences, SequencesExt

Fragments(i) == << <<i, 1>>, <<i, 2>> >>
Sent(answer, i) == IF answer[i] = "cut" THEN << <<i, 1>> >> ELSE Fragments(i)
IsCall(kind) == kind \in {"tool", "cut"}

(* The items of an answer as a provider's complete body lists them. *)
Body(answer) == [i \in DOMAIN answer |-> [kind |-> answer[i], id |-> i, data |-> Sent(answer, i)]]

Counters == {"input", "output"}
NoResponse == [content |-> <<>>, calls |-> <<>>, finish |-> "none", usage |-> {}]
ValidUnparsed(call) == call.id # 0
(* serde_json accepts the arguments, and the call has its identifier and name *)
Valid(call) == call.id # 0 /\ Len(call.args) = 2
JoinKind(content, kind) == FlattenSeq([k \in DOMAIN content |->
                              IF content[k].kind = kind THEN content[k].data ELSE <<>>])
(* ModelResponse::text *)
TextOf(response) == JoinKind(response.content, "text")

Started == [type |-> "started"]
Text(data) == [type |-> "text", data |-> data]
Reasoning(data) == [type |-> "reasoning", data |-> data]
CallStarted(index) == [type |-> "call_started", index |-> index]
Arguments(index, data) == [type |-> "arguments", index |-> index, data |-> data]
CallCompleted(index, call) == [type |-> "call", index |-> index, call |-> call]
UsageUpdated(usage) == [type |-> "usage", usage |-> usage]
Completed(finish) == [type |-> "completed", finish |-> finish]
FailedEvent(error) == [type |-> "failed", error |-> error]
UsageIfAny(usage) == IF usage = {} THEN <<>> ELSE <<UsageUpdated(usage)>>
TextIfAny(data) == IF data = <<>> THEN <<>> ELSE <<Text(data)>>

(* A handler's outcome: the accumulator, the events emitted, and "more",   *)
(* "stop" (no further event is read) or the error it returns.              *)
Go(st, events) == [st |-> st, events |-> events, next |-> "more"]
Stop(st, events) == [st |-> st, events |-> events, next |-> "stop"]
Fail(st, events, error) == [st |-> st, events |-> events, next |-> error]

With(f, k, v) == [x \in DOMAIN f \cup {k} |-> IF x = k THEN v ELSE f[x]]
At(f, k, default) == IF k \in DOMAIN f THEN f[k] ELSE default
EmptyMap == [x \in {} |-> 0]
Ascending(S) == SetToSortSeq(S, <)

-----------------------------------------------------------------------------
(* OpenAI Responses *)

(* parse_response: message and function_call items; reasoning when asked for. *)
OpenAIParse(body, status, usage, optIn) ==
    LET shown == SelectSeq(body, LAMBDA b : b.kind = "text" \/ (b.kind = "reason" /\ optIn))
        calls == SelectSeq(body, LAMBDA b : IsCall(b.kind))
        response == [content |-> [k \in DOMAIN shown |-> [kind |-> shown[k].kind, data |-> shown[k].data]],
                     calls |-> [k \in DOMAIN calls |-> [id |-> calls[k].id, args |-> calls[k].data]],
                     finish |-> IF status = "incomplete" THEN "length"
                                ELSE IF calls # <<>> THEN "tool_calls" ELSE "stop",
                     usage |-> usage]
    IN IF \A k \in DOMAIN response.calls : Valid(response.calls[k])
       THEN [ok |-> TRUE, response |-> response]
       ELSE [ok |-> FALSE, response |-> NoResponse]

OpenAIInit == [started |-> FALSE, text |-> <<>>, tools |-> EmptyMap, response |-> <<>>]
NoTool == [id |-> 0, args |-> <<>>, done |-> FALSE]
OpenAITool(st, index) == At(st.tools, index, NoTool)

(* ensure_started *)
OpenAIStarted(st) == IF st.started THEN <<>> ELSE <<Started>>

(* response.output_item.done for a function call: the item's fields win. *)
OpenAIItemDone(st, ev, opened) ==
    LET call == [id |-> ev.id, args |-> ev.data]
    IN IF Valid(call)
       THEN Go([st EXCEPT !.tools = With(st.tools, ev.index, [id |-> ev.id, args |-> ev.data, done |-> TRUE]),
                          !.started = TRUE],
               opened \o <<CallCompleted(ev.index, call)>>)
       ELSE Fail(st, opened, "invalid")

(* response.completed and response.incomplete: the whole response is parsed *)
(* again; text is emitted if none was streamed, a call if it was not        *)
(* completed on its own.  output_call_index is the item's position.         *)
OpenAICompleted(st, ev, optIn) ==
    LET opened == OpenAIStarted(st)
        parsed == OpenAIParse(ev.body, ev.status, ev.usage, optIn)
        calls == parsed.response.calls
        Late(k) == IF OpenAITool(st, calls[k].id - 1).done THEN <<>>
                   ELSE << CallStarted(calls[k].id - 1), Arguments(calls[k].id - 1, calls[k].args),
                           CallCompleted(calls[k].id - 1, calls[k]) >>
    IN IF ~parsed.ok THEN Fail(st, opened, "invalid")
       ELSE Stop([st EXCEPT !.response = <<parsed.response>>, !.started = TRUE],
                 opened
                 \o (IF st.text = <<>> THEN TextIfAny(TextOf(parsed.response)) ELSE <<>>)
                 \o FlattenSeq([k \in DOMAIN calls |-> Late(k)])
                 \o UsageIfAny(parsed.response.usage)
                 \o <<Completed(parsed.response.finish)>>)

(* StreamState::handle *)
OpenAIHandle(st, ev, optIn) ==
    LET opened == OpenAIStarted(st)
        on == [st EXCEPT !.started = TRUE]
        tool == OpenAITool(st, ev.index)
    IN CASE ev.type = "created" -> Go(on, opened)
         [] ev.type = "text" -> Go([on EXCEPT !.text = @ \o ev.data], opened \o <<Text(ev.data)>>)
         [] ev.type = "reason" -> Go(on, opened \o (IF optIn THEN <<Reasoning(ev.data)>> ELSE <<>>))
         [] ev.type = "item_added" -> Go([on EXCEPT !.tools = With(@, ev.index, [tool EXCEPT !.id = ev.id])],
                                         opened \o <<CallStarted(ev.index)>>)
         [] ev.type = "args" -> Go([on EXCEPT !.tools = With(@, ev.index, [tool EXCEPT !.args = @ \o ev.data])],
                                   opened \o <<Arguments(ev.index, ev.data)>>)
         [] ev.type = "args_done" -> Go([st EXCEPT !.tools = With(@, ev.index, [tool EXCEPT !.args = ev.data])], <<>>)
         [] ev.type = "item_done" -> OpenAIItemDone(st, ev, opened)
         [] ev.type = "completed" -> OpenAICompleted(st, ev, optIn)
         [] ev.type \in {"error", "garbage"} -> Fail(st, <<>>, "invalid")
         [] ev.type = "other" -> Go(st, <<>>)

(* stream_request after the last event *)
OpenAIFinish(st) == IF st.response = <<>> THEN Fail(st, <<>>, "invalid") ELSE Stop(st, <<>>)
OpenAIResponse(st) == st.response[1]

-----------------------------------------------------------------------------
(* Anthropic Messages *)

(* parse_response of a message whose blocks are in body *)
AnthropicParse(body, stop, usage, optIn) ==
    LET shown == SelectSeq(body, LAMBDA b : \/ b.kind = "text"
                                            \/ b.kind = "reason" /\ optIn /\ b.data # <<>>)
        calls == SelectSeq(body, LAMBDA b : IsCall(b.kind))
        response == [content |-> [k \in DOMAIN shown |-> [kind |-> shown[k].kind, data |-> shown[k].data]],
                     calls |-> [k \in DOMAIN calls |-> [id |-> calls[k].id, args |-> calls[k].data]],
                     finish |-> CASE stop = "max_tokens" -> "length"
                                  [] stop = "tool_use" -> "tool_calls"
                                  [] stop = "end_turn" -> "stop"
                                  [] OTHER -> IF calls # <<>> THEN "tool_calls" ELSE "stop",
                     usage |-> usage]
    IN IF \A k \in DOMAIN response.calls : Valid(response.calls[k])
       THEN [ok |-> TRUE, response |-> response]
       ELSE [ok |-> FALSE, response |-> NoResponse]

AnthropicInit == [started |-> FALSE, stop |-> "none", usage |-> {}, blocks |-> EmptyMap,
                  nextTool |-> 0, response |-> <<>>]

(* content_block_stop: a tool block's input is its joined partial JSON. *)
AnthropicBlockStop(st, ev) ==
    IF ev.index \notin DOMAIN st.blocks THEN Fail(st, <<>>, "invalid")
    ELSE LET block == st.blocks[ev.index]
             call == [id |-> block.id, args |-> block.json]
         IN IF ~IsCall(block.kind) THEN Go(st, <<>>)
            ELSE IF ~Valid(call) THEN Fail(st, <<>>, "invalid")
            ELSE Go([st EXCEPT !.blocks[ev.index].data = block.json],
                    <<CallCompleted(block.tool, call)>>)

(* content_block_delta: text, partial JSON or thinking of a known block. *)
AnthropicDelta(st, ev, optIn) ==
    IF ev.index \notin DOMAIN st.blocks THEN Fail(st, <<>>, "invalid")
    ELSE CASE ev.delta = "text" -> Go([st EXCEPT !.blocks[ev.index].data = @ \o ev.data], <<Text(ev.data)>>)
           [] ev.delta = "json" -> Go([st EXCEPT !.blocks[ev.index].json = @ \o ev.data],
                                      <<Arguments(st.blocks[ev.index].tool, ev.data)>>)
           [] ev.delta = "thinking" -> Go([st EXCEPT !.blocks[ev.index].data = @ \o ev.data],
                                          IF optIn THEN <<Reasoning(ev.data)>> ELSE <<>>)

(* message_stop: the message is put together from the blocks in index order. *)
AnthropicMessageStop(st, optIn) ==
    LET order == Ascending(DOMAIN st.blocks)
        body == [k \in DOMAIN order |-> LET b == st.blocks[order[k]]
                                        IN [kind |-> b.kind, id |-> b.id, data |-> b.data]]
        parsed == AnthropicParse(body, st.stop, st.usage, optIn)
    IN IF ~parsed.ok THEN Fail(st, <<>>, "invalid")
       ELSE Stop([st EXCEPT !.response = <<parsed.response>>],
                 UsageIfAny(parsed.response.usage) \o <<Completed(parsed.response.finish)>>)

(* StreamState::handle; require_started refuses content before message_start. *)
AnthropicHandle(st, ev, optIn) ==
    LET block == [kind |-> ev.kind, id |-> ev.id, data |-> <<>>, json |-> <<>>, tool |-> st.nextTool]
    IN CASE ev.type = "message_start" ->
              Go([st EXCEPT !.started = TRUE, !.usage = ev.usage], <<Started>> \o UsageIfAny(ev.usage))
         [] ev.type = "error" -> Fail(st, <<>>, "request")
         [] ev.type = "garbage" -> Fail(st, <<>>, "invalid")
         [] ev.type = "other" -> Go(st, <<>>)
         [] ev.type = "block_delta" -> AnthropicDelta(st, ev, optIn)
         [] ev.type = "block_stop" -> AnthropicBlockStop(st, ev)
         [] ev.type \in {"block_start", "message_delta", "message_stop"} /\ ~st.started ->
              Fail(st, <<>>, "invalid")
         [] ev.type = "block_start" /\ st.started ->
              IF IsCall(ev.kind)
              THEN Go([st EXCEPT !.blocks = With(@, ev.index, block), !.nextTool = @ + 1],
                      <<CallStarted(st.nextTool)>>)
              ELSE Go([st EXCEPT !.blocks = With(@, ev.index, block)], <<>>)
         [] ev.type = "message_delta" /\ st.started ->
              Go([st EXCEPT !.stop = ev.stop, !.usage = @ \cup ev.usage], <<UsageUpdated(st.usage \cup ev.usage)>>)
         [] ev.type = "message_stop" /\ st.started -> AnthropicMessageStop(st, optIn)

AnthropicFinish(st) == IF st.response = <<>> THEN Fail(st, <<>>, "invalid") ELSE Stop(st, <<>>)
AnthropicResponse(st) == st.response[1]

-----------------------------------------------------------------------------
(* Gemini.  A part holds text, whether it is a thought, and a call (0: none). *)

NoPart == [text |-> <<>>, thought |-> FALSE, call |-> 0, args |-> <<>>]
(* The call's identifier is the one its part index got first, if any. *)
GeminiCallId(ids, parts, k) == At(ids, k - 1, parts[k].call)

(* parse_response of the first candidate *)
GeminiParse(parts, finish, usage, optIn, ids) ==
    LET Content(p) == IF p.text = <<>> \/ (p.thought /\ ~optIn) THEN <<>>
                      ELSE << [kind |-> IF p.thought THEN "reason" ELSE "text", data |-> p.text] >>
        calls == SelectSeq([k \in DOMAIN parts |-> k], LAMBDA k : parts[k].call # 0)
    IN [content |-> FlattenSeq([k \in DOMAIN parts |-> Content(parts[k])]),
        calls |-> [k \in DOMAIN calls |-> [id |-> GeminiCallId(ids, parts, calls[k]),
                                           args |-> parts[calls[k]].args]],
        finish |-> IF calls # <<>> THEN "tool_calls"
                   ELSE IF finish = "MAX_TOKENS" THEN "length" ELSE "stop",
        usage |-> usage]

GeminiInit == [started |-> FALSE, parts |-> <<>>, usage |-> {}, finish |-> "none",
               ids |-> EmptyMap, calls |-> <<>>]

MergeRawPartReplacing(parts, k, incoming) ==
    [j \in 1..(IF k > Len(parts) THEN k ELSE Len(parts)) |-> IF j = k THEN incoming ELSE parts[j]]
(* merge_function_call: arguments are merged by their names.  Every call of *)
(* the model names the same two, its fragments.                             *)
MergeArguments(old, new) == [n \in DOMAIN old \cup DOMAIN new |-> IF n \in DOMAIN new THEN new[n] ELSE old[n]]
(* merge_raw_part: the k-th part of every chunk is taken for the same part; *)
(* its text is appended, its other members replace the earlier ones, also   *)
(* when they are those of another call.                                     *)
MergeRawPart(parts, k, incoming) ==
    LET grown == IF k <= Len(parts) THEN parts ELSE Append(parts, NoPart)
        old == grown[k]
    IN [grown EXCEPT ![k] = [text |-> old.text \o incoming.text,
                             thought |-> old.thought \/ incoming.thought,
                             call |-> IF incoming.call = 0 THEN old.call ELSE incoming.call,
                             args |-> MergeArguments(old.args, incoming.args)]]

(* One part of a chunk: merged, its text shown, its call announced once. *)
GeminiPart(acc, k, part, optIn) ==
    LET st == acc.st
        merged == [st EXCEPT !.parts = MergeRawPart(@, k, part)]
        shown == CASE part.text = <<>> \/ (part.thought /\ ~optIn) -> <<>>
                   [] part.text # <<>> /\ part.thought /\ optIn -> <<Reasoning(part.text)>>
                   [] part.text # <<>> /\ ~part.thought -> <<Text(part.text)>>
        fresh == part.call # 0 /\ ~Contains(st.calls, k)
    IN [st |-> [merged EXCEPT !.ids = IF part.call = 0 \/ k - 1 \in DOMAIN @ THEN @ ELSE With(@, k - 1, part.call),
                              !.calls = IF fresh THEN Append(@, k) ELSE @],
        events |-> acc.events \o shown \o (IF fresh THEN <<CallStarted(Len(st.calls))>> ELSE <<>>)]

(* StreamState::handle *)
GeminiHandle(st, ev, optIn) ==
    LET opened == [st |-> [st EXCEPT !.started = TRUE, !.finish = IF ev.finish = "none" THEN @ ELSE ev.finish],
                   events |-> IF st.started THEN <<>> ELSE <<Started>>]
        read == FoldLeftDomain(LAMBDA acc, k : GeminiPart(acc, k, ev.parts[k], optIn), opened, ev.parts)
        counted == ev.usage # {} /\ ev.usage # st.usage
    IN CASE ev.type = "error" -> Fail(st, <<>>, "request")
         [] ev.type = "garbage" -> Fail(st, <<>>, "invalid")
         [] ev.type = "chunk" ->
              Go([read.st EXCEPT !.usage = IF counted THEN ev.usage ELSE @],
                 read.events \o (IF counted THEN <<UsageUpdated(ev.usage)>> ELSE <<>>))

(* finish: whatever was received is the response, unless it has no part. *)
GeminiResponse(st, optIn) == GeminiParse(st.parts, st.finish, st.usage, optIn, st.ids)
GeminiFinish(st, optIn) ==
    LET response == GeminiResponse(st, optIn)
    IN IF st.parts = <<>> THEN Fail(st, <<>>, "invalid")
       ELSE Stop(st, FlattenSeq([k \in DOMAIN response.calls |->
                          << Arguments(k - 1, response.calls[k].args), CallCompleted(k - 1, response.calls[k]) >>])
                     \o <<Completed(response.finish)>>)

-----------------------------------------------------------------------------
(* Chat Completions *)

ChatFinishReason(reason, calls) ==
    CASE reason = "length" -> "length"
      [] reason = "tool_calls" -> "tool_calls"
      [] reason = "stop" -> "stop"
      [] OTHER -> IF calls # <<>> THEN "tool_calls" ELSE "stop"

(* parse_chat_tool_call rejects a call whose arguments do not parse. *)
ChatResponse(content, calls, reason, usage) ==
    [content |-> IF content = <<>> THEN <<>> ELSE << [kind |-> "text", data |-> content] >>,
     calls |-> calls, finish |-> ChatFinishReason(reason, calls), usage |-> usage]

(* parse_chat_response *)
ChatParse(content, calls, reason, usage) ==
    IF \A k \in DOMAIN calls : Valid(calls[k])
    THEN [ok |-> TRUE, response |-> ChatResponse(content, calls, reason, usage)]
    ELSE [ok |-> FALSE, response |-> NoResponse]

ChatInit == [started |-> FALSE, content |-> <<>>, usage |-> {}, finish |-> "none", calls |-> EmptyMap]

(* One entry of a delta's tool_calls: identifier and arguments are appended. *)
ChatCallDelta(acc, delta) ==
    LET known == delta.index \in DOMAIN acc.st.calls
        call == At(acc.st.calls, delta.index, [id |-> 0, args |-> <<>>])
    IN [st |-> [acc.st EXCEPT !.calls = With(@, delta.index, [id |-> call.id + delta.id, args |-> call.args \o delta.data])],
        events |-> acc.events \o (IF known THEN <<>> ELSE <<CallStarted(delta.index)>>)
                   \o (IF delta.data = <<>> THEN <<>> ELSE <<Arguments(delta.index, delta.data)>>)]

(* ChatStreamState::handle *)
ChatHandle(st, ev) ==
    LET on == [st EXCEPT !.started = TRUE, !.content = @ \o ev.text,
                         !.usage = IF ev.usage = {} THEN @ ELSE ev.usage,
                         !.finish = IF ev.finish = "none" THEN @ ELSE ev.finish]
        read == FoldLeft(ChatCallDelta, [st |-> on, events |-> <<>>], ev.calls)
    IN CASE ev.type = "done" -> Stop(st, <<>>)
         [] ev.type = "error" -> Fail(st, <<>>, "request")
         [] ev.type = "garbage" -> Fail(st, <<>>, "invalid")
         [] ev.type = "chunk" ->
              Go(read.st, (IF st.started THEN <<>> ELSE <<Started>>) \o UsageIfAny(ev.usage)
                          \o TextIfAny(ev.text) \o read.events)

(* finish: the calls in index order; one that is not whole is an error, *)
(* after the events of those before it.                                  *)
ChatFinish(st) ==
    LET order == Ascending(DOMAIN st.calls)
        calls == [k \in DOMAIN order |-> st.calls[order[k]]]
        good == {k \in 0..Len(calls) : \A j \in 1..k : Valid(calls[j])}
        whole == CHOOSE k \in good : \A j \in good : j <= k
        shown == [k \in 1..whole |-> CallCompleted(order[k], calls[k])]
    IN IF ~st.started THEN Fail(st, <<>>, "invalid")
       ELSE IF whole < Len(calls) THEN Fail(st, shown, "invalid")
       ELSE Stop(st, shown \o UsageIfAny(st.usage) \o <<Completed(ChatFinishReason(st.finish, calls))>>)
ChatStreamed(st) ==
    LET order == Ascending(DOMAIN st.calls)
    IN ChatResponse(st.content, [k \in DOMAIN order |-> st.calls[order[k]]], st.finish, st.usage)
=============================================================================
