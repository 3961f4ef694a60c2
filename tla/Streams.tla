------------------------------ MODULE Streams ------------------------------
(***************************************************************************)
(* One call of ModelProvider::generate_cancellable: the capability check,  *)
(* the HTTP request with its retries, the SSE loop that watches the        *)
(* cancellation token and the total time-out, the protocol adapter's       *)
(* parser and the events the agent loop is shown.  The provider (external) *)
(* answers in the adapter's own wire format and may close the connection   *)
(* after any event, in the middle of one, report an error or fall silent.  *)
(***************************************************************************)
EXTENDS StreamParsers, FiniteSets

CONSTANTS Protocols,    \* the adapters: "openai", "anthropic", "gemini", "chat"
          Answers,      \* the answers the provider may give
          MaxAttempts,  \* MAX_ATTEMPTS of the transport
          MaxLost       \* bound: events of a stream that lose bytes to a time-out

VARIABLES case,      \* the adapter, the answer and how it is delivered
          phase,     \* where the call stands
          attempt,   \* requests sent before this one
          wire,      \* events the provider has still to send
          acc,       \* the adapter's accumulator
          out,       \* normalized events emitted so far
          result,    \* what the call returned
          cancelled, \* the caller's token
          late,      \* the stream's total time has passed
          cut,       \* the provider did not send its whole answer
          line,      \* of the line being read: "whole", "torn" within a character, "holed"
          lost       \* events read without some of their bytes (history)

streamVars == <<case, phase, attempt, wire, acc, out, result, cancelled, late, cut, line, lost>>
lineVars == <<line, lost>>

Usage == Counters
Limited(c) == c.limit \/ \E i \in DOMAIN c.answer : c.answer[i] = "cut"
HasCall(answer) == \E i \in DOMAIN answer : IsCall(answer[i])
Each(answer, Op(_)) == FlattenSeq([i \in DOMAIN answer |-> Op(i)])

(* What each provider streams for an answer. *)
OpenAIWire(c) ==
    LET Delta(i, kind) == [k \in DOMAIN Sent(c.answer, i) |->
                              [type |-> kind, index |-> i - 1, data |-> <<Sent(c.answer, i)[k]>>]]
        Item(i) == IF IsCall(c.answer[i])
                   THEN << [type |-> "item_added", index |-> i - 1, id |-> i] >> \o Delta(i, "args")
                        \o << [type |-> "args_done", index |-> i - 1, data |-> Sent(c.answer, i)],
                              [type |-> "item_done", index |-> i - 1, id |-> i, data |-> Sent(c.answer, i)] >>
                   ELSE Delta(i, c.answer[i])
    IN << [type |-> "created"] >> \o (IF c.mode = "terse" THEN <<>> ELSE Each(c.answer, Item))
       \o << [type |-> "other"], [type |-> "completed", body |-> Body(c.answer), usage |-> Usage,
              status |-> IF Limited(c) THEN "incomplete" ELSE "completed"] >>

AnthropicStop(c) == IF Limited(c) THEN "max_tokens" ELSE IF HasCall(c.answer) THEN "tool_use" ELSE "end_turn"
AnthropicWire(c) ==
    LET Kind(i) == CASE c.answer[i] = "text" -> "text" [] c.answer[i] = "reason" -> "thinking" [] OTHER -> "json"
        Item(i) == << [type |-> "block_start", index |-> i - 1, kind |-> c.answer[i], id |-> i] >>
                   \o [k \in DOMAIN Sent(c.answer, i) |->
                         [type |-> "block_delta", index |-> i - 1, delta |-> Kind(i), data |-> <<Sent(c.answer, i)[k]>>]]
                   \o << [type |-> "block_stop", index |-> i - 1] >>
    IN << [type |-> "message_start", usage |-> {"input"}], [type |-> "other"] >> \o Each(c.answer, Item)
       \o << [type |-> "message_delta", stop |-> AnthropicStop(c), usage |-> {"output"}], [type |-> "message_stop"] >>

(* Gemini sends each chunk's new parts only: text as it is generated, the  *)
(* calls together or, in mode "apart", each in a chunk of its own.         *)
GeminiCalls(answer) == SelectSeq([i \in DOMAIN answer |-> i], LAMBDA i : IsCall(answer[i]))
GeminiPartOf(answer, i) == [text |-> IF IsCall(answer[i]) THEN <<>> ELSE Sent(answer, i), thought |-> answer[i] = "reason",
                            call |-> IF IsCall(answer[i]) THEN i ELSE 0,
                            args |-> IF IsCall(answer[i]) THEN Sent(answer, i) ELSE <<>>]
GeminiEnd(c) == IF Limited(c) THEN "MAX_TOKENS" ELSE "STOP"
GeminiWire(c) ==
    LET Chunk(parts) == [type |-> "chunk", parts |-> parts, finish |-> "none", usage |-> {}]
        Item(i) == IF IsCall(c.answer[i]) THEN <<>>
                   ELSE [k \in DOMAIN Sent(c.answer, i) |->
                           Chunk(<< [GeminiPartOf(c.answer, i) EXCEPT !.text = <<Sent(c.answer, i)[k]>>] >>)]
        calls == GeminiCalls(c.answer)
    IN Each(c.answer, Item)
       \o (IF c.mode = "apart" THEN [k \in DOMAIN calls |-> Chunk(<< GeminiPartOf(c.answer, calls[k]) >>)]
           ELSE IF calls = <<>> THEN <<>> ELSE << Chunk([k \in DOMAIN calls |-> GeminiPartOf(c.answer, calls[k])]) >>)
       \o << [type |-> "chunk", parts |-> <<>>, finish |-> GeminiEnd(c), usage |-> Usage] >>

ChatStop(c) == IF Limited(c) THEN "length" ELSE IF HasCall(c.answer) THEN "tool_calls" ELSE "stop"
ChatWire(c) ==
    LET Chunk(text, calls, finish, usage) ==
            [type |-> "chunk", text |-> text, calls |-> calls, finish |-> finish, usage |-> usage]
        CallIndex(i) == Cardinality({j \in 1..(i - 1) : IsCall(c.answer[j])})
        Item(i) == CASE c.answer[i] = "text" ->
                          [k \in DOMAIN Sent(c.answer, i) |-> Chunk(<<Sent(c.answer, i)[k]>>, <<>>, "none", {})]
                     [] IsCall(c.answer[i]) ->
                          << Chunk(<<>>, << [index |-> CallIndex(i), id |-> i, data |-> <<>>] >>, "none", {}) >>
                          \o [k \in DOMAIN Sent(c.answer, i) |->
                                Chunk(<<>>, << [index |-> CallIndex(i), id |-> 0, data |-> <<Sent(c.answer, i)[k]>>] >>, "none", {})]
                     [] OTHER -> <<>>
    IN Each(c.answer, Item)
       \o << Chunk(<<>>, <<>>, ChatStop(c), {}), Chunk(<<>>, <<>>, "none", Usage), [type |-> "done"] >>

Wire(c) == CASE c.proto = "openai" -> OpenAIWire(c)
             [] c.proto = "anthropic" -> AnthropicWire(c)
             [] c.proto = "gemini" -> GeminiWire(c)
             [] c.proto = "chat" -> ChatWire(c)

Accumulator(c) == CASE c.proto = "openai" -> OpenAIInit
                    [] c.proto = "anthropic" -> AnthropicInit
                    [] c.proto = "gemini" -> GeminiInit
                    [] c.proto = "chat" -> ChatInit

Handle(ev) == CASE case.proto = "openai" -> OpenAIHandle(acc, ev, case.optIn)
                [] case.proto = "anthropic" -> AnthropicHandle(acc, ev, case.optIn)
                [] case.proto = "gemini" -> GeminiHandle(acc, ev, case.optIn)
                [] case.proto = "chat" -> ChatHandle(acc, ev)

Finish == CASE case.proto = "openai" -> OpenAIFinish(acc)
            [] case.proto = "anthropic" -> AnthropicFinish(acc)
            [] case.proto = "gemini" -> GeminiFinish(acc, case.optIn)
            [] case.proto = "chat" -> ChatFinish(acc)

Response(st) == CASE case.proto = "openai" -> OpenAIResponse(st)
                  [] case.proto = "anthropic" -> AnthropicResponse(st)
                  [] case.proto = "gemini" -> GeminiResponse(st, case.optIn)
                  [] case.proto = "chat" -> ChatStreamed(st)

(* complete_request of each adapter: the same answer read as one body. *)
OpenAIComplete(c) == OpenAIParse(Body(c.answer), IF Limited(c) THEN "incomplete" ELSE "completed", Usage, c.optIn)
AnthropicComplete(c) == AnthropicParse(Body(c.answer), AnthropicStop(c), Usage, c.optIn)
GeminiComplete(c) ==
    [ok |-> TRUE, response |-> GeminiParse([i \in DOMAIN c.answer |-> GeminiPartOf(c.answer, i)],
                                           GeminiEnd(c), Usage, c.optIn, EmptyMap)]
ChatComplete(c) ==
    LET texts == SelectSeq(Body(c.answer), LAMBDA b : b.kind = "text")
        calls == SelectSeq(Body(c.answer), LAMBDA b : IsCall(b.kind))
    IN ChatParse(FlattenSeq([k \in DOMAIN texts |-> texts[k].data]),
                 [k \in DOMAIN calls |-> [id |-> calls[k].id, args |-> calls[k].data]], ChatStop(c), Usage)
CompleteOf(c) == CASE c.proto = "openai" -> OpenAIComplete(c)
                   [] c.proto = "anthropic" -> AnthropicComplete(c)
                   [] c.proto = "gemini" -> GeminiComplete(c)
                   [] c.proto = "chat" -> ChatComplete(c)

(* emit_response_events: text in pieces (one here), then the calls, usage and the end. *)
ResponseEvents(response) ==
    LET Block(k) == IF response.content[k].kind = "text" THEN TextIfAny(response.content[k].data) ELSE <<>>
        Call(k) == << CallStarted(k - 1), Arguments(k - 1, response.calls[k].args),
                      CallCompleted(k - 1, response.calls[k]) >>
    IN <<Started>> \o FlattenSeq([k \in DOMAIN response.content |-> Block(k)])
       \o FlattenSeq([k \in DOMAIN response.calls |-> Call(k)])
       \o UsageIfAny(response.usage) \o <<Completed(response.finish)>>

Modes(proto) == {"stream", "complete"} \cup (IF proto = "openai" THEN {"terse"} ELSE {})
                                      \cup (IF proto = "gemini" THEN {"apart"} ELSE {})
(* Gemini sends a call's arguments as one object, never a part of it. *)
(* Whether reasoning is asked for matters to an answer that has some. *)
Cases == {c \in UNION {[proto : {p}, answer : {a \in Answers : p # "gemini" \/ \A i \in DOMAIN a : a[i] # "cut"},
                        limit : BOOLEAN, optIn : BOOLEAN, mode : Modes(p)] : p \in Protocols} :
             c.optIn => \E i \in DOMAIN c.answer : c.answer[i] = "reason"}
Pending == [status |-> "none", response |-> NoResponse]

StreamInit == /\ case \in Cases
        /\ phase = "start" /\ attempt = 0
        /\ wire = Wire(case) /\ acc = Accumulator(case)
        /\ out = <<>> /\ result = Pending
        /\ cancelled = FALSE /\ late = FALSE /\ cut = FALSE
        /\ line = "whole" /\ lost = 0

(* generate_cancellable's tail: an error is also an event. *)
GenerateFails(events, error) ==
    /\ out' = out \o events \o <<FailedEvent(error)>>
    /\ result' = [status |-> error, response |-> NoResponse]
    /\ phase' = "done"
ReturnResponse(events, response) ==
    /\ out' = out \o events
    /\ result' = [status |-> "ok", response |-> response]
    /\ phase' = "done"

(* The agent's callback refuses an event once its run is cancelled, which  *)
(* may happen between two events of one wire event.                        *)
Interrupted(events) ==
    /\ events # <<>> /\ cancelled' = TRUE
    /\ \E k \in 0..(IF cancelled THEN 0 ELSE Len(events) - 1) : GenerateFails(SubSeq(events, 1, k), "consumer")
Accepted(events) == (events = <<>> \/ ~cancelled) /\ UNCHANGED cancelled

(* The capability checks before anything is sent. *)
Preflight ==
    /\ phase = "start"
    /\ \/ cancelled /\ GenerateFails(<<>>, "cancelled")
       \/ ~cancelled /\ GenerateFails(<<>>, "unsupported")
       \/ ~cancelled /\ phase' = "send" /\ UNCHANGED <<out, result>>
    /\ UNCHANGED <<case, attempt, wire, acc, cancelled, late, cut, lineVars>>

(* request_with_retry: one attempt; only a transient failure is retried.   *)
(* The count of attempts is its own: nothing reads it afterwards.          *)
Send ==
    /\ phase = "send"
    /\ \/ /\ phase' = (IF case.mode = "complete" THEN "body" ELSE "head")
          /\ attempt' = 0 /\ UNCHANGED <<out, result>>
       \/ \E transient \in BOOLEAN :
             IF transient /\ attempt + 1 < MaxAttempts
             THEN attempt' = attempt + 1 /\ UNCHANGED <<phase, out, result>>
             ELSE GenerateFails(<<>>, "request") /\ attempt' = 0
    /\ UNCHANGED <<case, wire, acc, cancelled, late, cut, lineVars>>

(* complete_request and the synthesized events *)
ReadBody ==
    /\ phase = "body"
    /\ LET whole == CompleteOf(case)
           events == ResponseEvents(whole.response)
       IN \/ whole.ok /\ Accepted(events) /\ ReturnResponse(events, whole.response) /\ UNCHANGED cut
          \/ whole.ok /\ Interrupted(events) /\ UNCHANGED cut
          \/ ~whole.ok /\ GenerateFails(<<>>, "invalid") /\ UNCHANGED <<cut, cancelled>>
          \/ GenerateFails(<<>>, "invalid") /\ cut' = TRUE /\ UNCHANGED cancelled
    /\ UNCHANGED <<case, attempt, wire, acc, late, lineVars>>

LoopHeadWithoutTimeout ==
    /\ phase = "head"
    /\ \/ cancelled /\ GenerateFails(<<>>, "cancelled")
       \/ ~cancelled /\ phase' = "line" /\ UNCHANGED <<out, result>>
    /\ UNCHANGED <<case, attempt, wire, acc, cancelled, late, cut, lineVars>>

(* The head of the SSE loop: the token, then the total time. *)
LoopHead ==
    /\ phase = "head"
    /\ \/ cancelled /\ GenerateFails(<<>>, "cancelled")
       \/ ~cancelled /\ late /\ GenerateFails(<<>>, "timeout")
       \/ ~cancelled /\ ~late /\ phase' = "line" /\ UNCHANGED <<out, result>>
    /\ UNCHANGED <<case, attempt, wire, acc, cancelled, late, cut, lineVars>>

(* read_line appends to a String: what one call reads is kept if it is     *)
(* UTF-8 on its own, and dropped if the call ends within a character.      *)
Lacking(data) == [k \in DOMAIN data |-> <<data[k][1], 0>>]
HasText(ev) == \/ ev.type \in {"text", "reason", "args", "args_done", "item_done", "block_delta"}
               \/ ev.type = "completed" /\ ev.body # <<>>
               \/ ev.type = "chunk" /\ case.proto = "gemini" /\ ev.parts # <<>>
               \/ ev.type = "chunk" /\ case.proto = "chat" /\ (ev.text # <<>> \/ \E k \in DOMAIN ev.calls : ev.calls[k].data # <<>>)
(* The event whose text lacks the bytes that were dropped. *)
Pierced(ev) ==
    CASE ev.type = "completed" -> [ev EXCEPT !.body = [k \in DOMAIN @ |-> [@[k] EXCEPT !.data = Lacking(@)]]]
      [] ev.type = "chunk" /\ case.proto = "gemini" ->
           [ev EXCEPT !.parts = [k \in DOMAIN @ |-> [@[k] EXCEPT !.text = Lacking(@), !.args = Lacking(@)]]]
      [] ev.type = "chunk" /\ case.proto = "chat" ->
           [ev EXCEPT !.text = Lacking(@), !.calls = [k \in DOMAIN @ |-> [@[k] EXCEPT !.data = Lacking(@)]]]
      [] OTHER -> [ev EXCEPT !.data = Lacking(@)]
(* What is left of an event's line: without its "data:" it is skipped, else *)
(* it is no JSON any more or lacks a part of a text.                        *)
Holed(ev) == { <<>>, << [type |-> "garbage"] >>, <<Pierced(ev)>> }

Dispatch(ev) ==
    LET done == Handle(ev)
    IN /\ acc' = done.st
       /\ \/ /\ done.next \in {"more", "stop"} /\ Accepted(done.events)
             /\ out' = out \o done.events /\ UNCHANGED result
             /\ phase' = (IF done.next = "more" THEN "head" ELSE "after")
          \/ done.next \notin {"more", "stop"} /\ Accepted(done.events) /\ GenerateFails(done.events, done.next)
          \/ Interrupted(done.events)

(* An event arrives and is dispatched. *)
ReadEvent ==
    /\ phase = "line" /\ wire # <<>> /\ line = "whole"
    /\ wire' = Tail(wire) /\ Dispatch(Head(wire))
    /\ UNCHANGED <<case, attempt, late, cut, lineVars>>

(* The rest of an event arrives of which a time-out dropped a part. *)
ReadHoledEvent ==
    /\ phase = "line" /\ wire # <<>> /\ line = "holed"
    /\ wire' = Tail(wire) /\ line' = "whole" /\ lost' = lost + 1
    /\ \E left \in Holed(Head(wire)) :
          \/ left = <<>> /\ phase' = "head" /\ UNCHANGED <<acc, out, result, cancelled>>
          \/ left # <<>> /\ Dispatch(Head(left))
    /\ UNCHANGED <<case, attempt, late, cut>>

(* Nothing more arrives within the short read time-out: within a character, *)
(* the bytes this call has read are dropped.  A call that begins within a   *)
(* character drops its bytes too, and leaves a hole if it ends after one.   *)
ReadIdle ==
    /\ phase = "line" /\ phase' = "head"
    /\ \/ line # "torn" /\ UNCHANGED line
       \/ wire # <<>> /\ HasText(Head(wire)) /\ lost < MaxLost /\ line' = "torn"
       \/ line = "torn" /\ line' = "holed"
    /\ UNCHANGED <<case, attempt, wire, acc, out, result, cancelled, late, cut, lost>>

(* Also when a read that begins within a character reaches the line's end: *)
(* its bytes are no UTF-8.                                                 *)
ReadFails ==
    /\ phase = "line" /\ GenerateFails(<<>>, "transport")
    /\ UNCHANGED <<case, attempt, wire, acc, cancelled, late, cut, lineVars>>

EndOfStream ==
    /\ phase = "line" /\ wire = <<>> /\ phase' = "after"
    /\ UNCHANGED <<case, attempt, wire, acc, out, result, cancelled, late, cut, lineVars>>

(* The provider closes early, within an event or between two, or reports an error. *)
ServerStops ==
    /\ phase = "line" /\ wire # <<>> /\ ~cut
    /\ cut' = TRUE
    /\ wire' \in { <<>>, << [type |-> "garbage"] >>, << [type |-> "error"] >> }
    /\ line' = "whole"
    /\ UNCHANGED <<case, phase, attempt, acc, out, result, cancelled, late, lost>>

(* stream_request after the loop: the token once more, then the adapter's finish. *)
AfterStream ==
    /\ phase = "after"
    /\ \/ cancelled /\ GenerateFails(<<>>, "cancelled") /\ UNCHANGED cancelled
       \/ ~cancelled /\ Finish.next = "stop" /\ ReturnResponse(Finish.events, Response(Finish.st)) /\ UNCHANGED cancelled
       \/ ~cancelled /\ Finish.next # "stop" /\ GenerateFails(Finish.events, Finish.next) /\ UNCHANGED cancelled
       \/ ~cancelled /\ Interrupted(Finish.events)
    /\ UNCHANGED <<case, attempt, wire, acc, late, cut, lineVars>>

Cancel ==
    /\ phase # "done" /\ ~cancelled /\ cancelled' = TRUE
    /\ UNCHANGED <<case, phase, attempt, wire, acc, out, result, late, cut, lineVars>>

TimePasses ==
    /\ phase \in {"head", "line"} /\ ~late /\ late' = TRUE
    /\ UNCHANGED <<case, phase, attempt, wire, acc, out, result, cancelled, cut, lineVars>>

StreamNext == \/ Preflight \/ Send \/ ReadBody \/ LoopHead \/ ReadEvent \/ ReadHoledEvent \/ ReadIdle \/ ReadFails
        \/ EndOfStream \/ ServerStops \/ AfterStream \/ Cancel \/ TimePasses

(* The call's own steps are taken; the short read time-out and the clock   *)
(* always come.  Of the provider it is assumed that it does not go on for  *)
(* ever with bytes that end no line, which would keep read_line from the   *)
(* loop's head; it may fall silent at any point.  Nothing is assumed of    *)
(* the caller.                                                             *)
StreamFairness == /\ WF_streamVars(Preflight) /\ WF_streamVars(Send) /\ WF_streamVars(ReadBody) /\ WF_streamVars(LoopHead)
            /\ WF_streamVars(ReadIdle) /\ WF_streamVars(AfterStream) /\ WF_streamVars(TimePasses)
StreamSpec == StreamInit /\ [][StreamNext]_streamVars /\ StreamFairness

-----------------------------------------------------------------------------
Positions(type) == {k \in DOMAIN out : out[k].type = type}
ShownText == FlattenSeq([k \in DOMAIN out |-> IF out[k].type = "text" THEN out[k].data ELSE <<>>])
ShownCalls == LET calls == SelectSeq(out, LAMBDA e : e.type = "call") IN [k \in DOMAIN calls |-> calls[k].call]
ShownArguments(index) ==
    FlattenSeq([k \in DOMAIN out |-> IF out[k].type = "arguments" /\ out[k].index = index THEN out[k].data ELSE <<>>])

(* The merge of Gemini parts by position makes the text that follows a     *)
(* thought part of the thought: the response lacks it (see README).        *)
ThoughtSwallowsText == /\ case.proto = "gemini" /\ case.mode # "complete"
                       /\ \E i, j \in DOMAIN case.answer : case.answer[i] = "reason" /\ case.answer[j] = "text"

(* OpenAI sends everything twice: the response is what the last event says, *)
(* the events say what the earlier ones did, so bytes that a time-out drops *)
(* (see ReadIdle) part the two.                                            *)
SaidTwice == case.proto = "openai" /\ lost > 0

(* The same merge makes one call of those that came in chunks of their own: *)
(* the identifier is the first's, the arguments are the last's.             *)
CallsMerged == case.proto = "gemini" /\ case.mode = "apart" /\ Len(GeminiCalls(case.answer)) > 1
Merged(calls) == << [id |-> calls[1].id, args |-> Last(calls).args] >>

(* The normalized event stream: it opens with one start, a call is announced *)
(* once and before its arguments and its end, and nothing follows the end    *)
(* but the failure of a call that was cancelled just then.                   *)
EventContract ==
    /\ Cardinality(Positions("started")) <= 1 /\ Cardinality(Positions("completed")) <= 1
    /\ \A k \in DOMAIN out : k # 1 => out[k].type # "started"
    /\ out # <<>> => out[1].type \in {"started", "failed"}
    /\ SaidTwice \/ \A j, k \in Positions("call_started") : out[j].index = out[k].index => j = k
    /\ \A k \in Positions("arguments") \cup Positions("call") :
          \E j \in Positions("call_started") : j < k /\ out[j].index = out[k].index
    /\ \A k \in Positions("completed") : \A j \in (k + 1)..Len(out) : out[j] = FailedEvent("cancelled")
    /\ phase = "done" => Last(out).type = (IF result.status = "ok" THEN "completed" ELSE "failed")

(* Who only follows the events learns what the caller is handed: the text,  *)
(* the calls with their arguments, the usage and the reason of the end.     *)
EventsRebuildResponse ==
    result.status = "ok" =>
        /\ ThoughtSwallowsText \/ SaidTwice \/ ShownText = TextOf(result.response)
        /\ SaidTwice \/ ShownCalls = result.response.calls
        /\ SaidTwice \/ \A k \in Positions("call") : ShownArguments(out[k].index) = out[k].call.args
        /\ Positions("usage") # {} => out[Max(Positions("usage"))].usage = result.response.usage
        /\ Last(out) = Completed(result.response.finish)

(* What one body would have yielded, an error if that is one.  Gemini       *)
(* rejects a stream without any part.                                       *)
AsOneBody ==
    LET whole == CompleteOf(case)
    IN IF case.proto = "gemini" /\ case.answer = <<>> /\ case.mode # "complete" THEN result.status = "invalid"
       ELSE /\ whole.ok <=> result.status = "ok"
            /\ whole.ok => /\ ThoughtSwallowsText \/ TextOf(result.response) = TextOf(whole.response)
                           /\ result.response.calls = (IF CallsMerged THEN Merged(whole.response.calls)
                                                                      ELSE whole.response.calls)
                           /\ result.response.finish = whole.response.finish
                           /\ result.response.usage = whole.response.usage

(* A stream that was not disturbed yields what one body would have yielded. *)
StreamMatchesComplete ==
    phase = "done" /\ ~cut /\ lost = 0 /\ result.status \in {"ok", "invalid"} => AsOneBody

(* No call is handed out with part of its arguments, whether the provider's *)
(* token limit or a lost connection cut it.                                 *)
NoPartialCall ==
    lost = 0 /\ ~CallsMerged => \A k \in DOMAIN result.response.calls :
        LET call == result.response.calls[k]
        IN case.answer[call.id] = "tool" /\ call.args = Fragments(call.id)

(* A stream that ends early is an error where the protocol has a terminal   *)
(* event that the adapter waits for; the others report a prefix of it.      *)
CutStreamIsNoAnswer ==
    cut /\ result.status = "ok" =>
        /\ case.proto \in {"gemini", "chat"}
        /\ lost = 0 /\ CompleteOf(case).ok =>
              /\ CallsMerged \/ IsPrefix(result.response.calls, CompleteOf(case).response.calls)
              /\ IsPrefix(TextOf(result.response), TextOf(CompleteOf([case EXCEPT !.optIn = TRUE]).response))

(* Reasoning reaches neither the events nor the response unless asked for. *)
ReasoningOnlyWhenAsked ==
    ~case.optIn => /\ Positions("reasoning") = {}
                   /\ \A k \in DOMAIN result.response.content : result.response.content[k].kind # "reason"

(* The call returns, also when the provider falls silent. *)
GenerateReturns == <>(phase = "done")

\* The events of a call keep their contract and tell what it returns (stream_request,
\* the handle functions of the adapters).
EventsTellResponse == EventContract /\ EventsRebuildResponse

\* What a call returns is the provider's answer: the same streamed as whole, no half
\* call, no cut stream for a complete one, no reasoning nobody asked for.
ResponseIsTheAnswer == StreamMatchesComplete /\ NoPartialCall /\ CutStreamIsNoAnswer /\ ReasoningOnlyWhenAsked

\* "Timed out partial lines remain buffered" (transport.rs:121): a stream the provider
\* sent whole is read as it was sent, however its bytes were delayed.  The code drops
\* what a read_line had read when its time-out falls within a character.
PartialLinesRemain == phase = "done" /\ ~cut /\ result.status = "ok" => AsOneBody
=============================================================================
