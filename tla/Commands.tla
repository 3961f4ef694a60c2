------------------------------ MODULE Commands ------------------------------
(***************************************************************************)
(* The shell tool's LocalProcessRunner: one command, the two threads that  *)
(* read its pipes, the bounded channel between them and the thread that    *)
(* executes the tool, cancellation and the time-out.  The command may      *)
(* start a descendant that inherits the pipes: one that dies when its      *)
(* process group is told to terminate, or a stubborn one that does not     *)
(* (it ignores the signal or has left the group).                          *)
(***************************************************************************)
EXTENDS Naturals, Sequences

CONSTANTS MaxBytes,         \* bound: bytes the command writes to each stream
          Wide,             \* a byte whose number is in Wide is the first of a character of two bytes
          ChannelCapacity,  \* sync_channel(32)
          CaptureLimit      \* max_output_bytes

ASSUME BoundsAssumption == /\ MaxBytes \in Nat /\ ChannelCapacity \in Nat /\ CaptureLimit \in Nat
                           /\ Wide \subseteq Nat \ {0} /\ \A n \in Wide : n + 1 \notin Wide

VARIABLES child,       \* "running", "zero", "failed" (exited with that code) or "killed"
          hung,        \* stream -> the command itself has closed it
          descendant,  \* "none", "group" or "stubborn"
          written,     \* stream -> bytes written so far
          taken,       \* stream -> bytes its reader has read from the pipe
          reader,      \* stream -> "reading", "sending" or "done"
          held,        \* stream -> the chunk its reader sends
          captured,    \* bytes reserved by the readers
          channel,     \* the bounded channel
          output,      \* stream -> text collected for the result, one entry for a byte
          main,        \* where execute is: "loop", "wait", "join" or "done"
          reaped,      \* exit_status is known
          token,       \* the run is cancelled
          expired,     \* the time-out has passed
          outcome      \* timed_out, cancelled, consumer_failed, success

commandVars == <<child, hung, descendant, written>>
readerVars == <<taken, reader, held, captured>>
mainVars == <<output, main, reaped, outcome>>
cmdVars == <<commandVars, readerVars, channel, mainVars, token, expired>>

Streams == {"stdout", "stderr"}
\* The bytes from + 1 .. to of a stream.
Chunk(s, from, to) == [stream |-> s, from |-> from, to |-> to]
Bytes(c) == (c.from + 1) .. c.to
NoOutcome == [timedOut |-> FALSE, cancelled |-> FALSE, consumerFailed |-> FALSE, success |-> FALSE]

CmdInit ==
    /\ child = "running" /\ hung = [s \in Streams |-> FALSE] /\ descendant \in {"none", "group", "stubborn"}
    /\ written = [s \in Streams |-> 0] /\ taken = [s \in Streams |-> 0]
    /\ reader = [s \in Streams |-> "reading"] /\ held = [s \in Streams |-> Chunk(s, 0, 0)]
    /\ captured = 0 /\ channel = <<>> /\ output = [s \in Streams |-> <<>>]
    /\ main = "loop" /\ reaped = FALSE /\ token = FALSE /\ expired = FALSE /\ outcome = NoOutcome

(***************************************************************************)
(* The command and its descendant.                                         *)
(***************************************************************************)
PipeOpen(s) == (child = "running" /\ ~hung[s]) \/ descendant # "none"

Write(s) ==
    /\ PipeOpen(s) /\ written[s] < MaxBytes
    /\ written' = [written EXCEPT ![s] = @ + 1]
    /\ UNCHANGED <<child, hung, descendant, readerVars, channel, mainVars, token, expired>>

CommandCloses(s) ==
    /\ child = "running" /\ ~hung[s]
    /\ hung' = [hung EXCEPT ![s] = TRUE]
    /\ UNCHANGED <<child, descendant, written, readerVars, channel, mainVars, token, expired>>

CommandExits(code) ==
    /\ child = "running"
    /\ child' = code
    /\ UNCHANGED <<hung, descendant, written, readerVars, channel, mainVars, token, expired>>

\* It exits or lets go of the pipes.
DescendantExits ==
    /\ descendant # "none"
    /\ descendant' = "none"
    /\ UNCHANGED <<child, hung, written, readerVars, channel, mainVars, token, expired>>

(***************************************************************************)
(* read_pipe, one thread for each stream.                                  *)
(***************************************************************************)
\* reserve_capture: how many of count bytes are allowed.
Allowed(count) == IF count < CaptureLimit - captured THEN count ELSE CaptureLimit - captured

\* One read takes any number of the bytes there are; those beyond the limit are
\* dropped.
ReaderReads(s, count) ==
    LET allowed == Allowed(count) IN
    /\ reader[s] = "reading" /\ taken[s] + count <= written[s]
    /\ taken' = [taken EXCEPT ![s] = @ + count]
    /\ captured' = captured + allowed
    /\ IF allowed = 0 THEN UNCHANGED <<reader, held>>
       ELSE /\ held' = [held EXCEPT ![s] = Chunk(s, taken[s], taken[s] + allowed)]
            /\ reader' = [reader EXCEPT ![s] = "sending"]
    /\ UNCHANGED <<commandVars, channel, mainVars, token, expired>>

ReaderSends(s) ==
    /\ reader[s] = "sending" /\ Len(channel) < ChannelCapacity
    /\ channel' = Append(channel, held[s])
    /\ reader' = [reader EXCEPT ![s] = "reading"]
    /\ UNCHANGED <<commandVars, taken, held, captured, mainVars, token, expired>>

ReaderEnds(s) ==
    /\ reader[s] = "reading" /\ taken[s] = written[s] /\ ~PipeOpen(s)
    /\ reader' = [reader EXCEPT ![s] = "done"]
    /\ UNCHANGED <<commandVars, taken, held, captured, channel, mainVars, token, expired>>

ReadersDone == \A s \in Streams : reader[s] = "done"

(***************************************************************************)
(* execute.                                                                *)
(***************************************************************************)
\* from_utf8_lossy of one chunk: a character of which it has only one byte is
\* replaced; every other byte is shown.
Replaced == 0
Torn(c, n) == \/ n \in Wide /\ n + 1 \notin Bytes(c)
              \/ n - 1 \in Wide /\ n - 1 \notin Bytes(c)
Text(c) == [i \in 1 .. (c.to - c.from) |-> IF Torn(c, c.from + i) THEN Replaced ELSE c.from + i]
Collect(out, c) == [out EXCEPT ![c.stream] = @ \o Text(c)]

\* Mutant: the child killed, not its group.
TerminateChild == child' = (IF child = "running" THEN "killed" ELSE child) /\ UNCHANGED descendant
\* terminate_process_tree: the group is told to terminate, the child is killed.
Terminate == /\ child' = IF child = "running" THEN "killed" ELSE child
             /\ descendant' = IF descendant = "group" THEN "none" ELSE descendant

\* One turn of the loop: receive or wait 10 ms, look at the child, at the
\* token, at the clock.
Iterate ==
    /\ main = "loop" /\ (channel # <<>> \/ ~ReadersDone)
    /\ IF channel = <<>> THEN UNCHANGED <<output, channel>>
       ELSE output' = Collect(output, Head(channel)) /\ channel' = Tail(channel)
    /\ reaped' = (reaped \/ child # "running")
    /\ IF token \/ expired
       THEN /\ outcome' = [outcome EXCEPT !.cancelled = token, !.timedOut = ~token]
            /\ main' = "wait" /\ Terminate
       ELSE UNCHANGED <<outcome, main, child, descendant>>
    /\ UNCHANGED <<hung, written, readerVars, token, expired>>

\* on_event returned an error, for the start of the command or for a chunk.
ConsumerFails ==
    /\ main = "loop" /\ (channel = <<>> => \A s \in Streams : output[s] = <<>>)
    /\ IF channel = <<>> THEN UNCHANGED <<output, channel>>
       ELSE output' = Collect(output, Head(channel)) /\ channel' = Tail(channel)
    /\ outcome' = [outcome EXCEPT !.consumerFailed = TRUE]
    /\ main' = "wait" /\ Terminate
    /\ UNCHANGED <<hung, written, readerVars, reaped, token, expired>>

\* Every sender is gone: all who held the pipes have closed them or exited.
Disconnected ==
    /\ main = "loop" /\ channel = <<>> /\ ReadersDone
    /\ main' = "wait"
    /\ UNCHANGED <<commandVars, readerVars, channel, output, reaped, token, expired, outcome>>

\* wait looks at neither the token nor the clock.
WaitChild ==
    /\ main = "wait" /\ (reaped \/ child # "running")
    /\ main' = "join" /\ reaped' = TRUE
    /\ UNCHANGED <<commandVars, readerVars, channel, output, token, expired, outcome>>

\* try_recv, when both readers have been joined.
DrainChunk ==
    /\ main = "join" /\ ReadersDone /\ channel # <<>>
    /\ output' = Collect(output, Head(channel)) /\ channel' = Tail(channel)
    /\ UNCHANGED <<commandVars, readerVars, main, reaped, token, expired, outcome>>

\* Mutant: the exit code alone decides.
SuccessByCode(result) == child = "zero"
Success(result) == child = "zero" /\ ~result.timedOut /\ ~result.cancelled /\ ~result.consumerFailed

JoinAndFinish ==
    /\ main = "join" /\ ReadersDone /\ channel = <<>>
    /\ outcome' = [outcome EXCEPT !.success = Success(outcome)]
    /\ main' = "done"
    /\ UNCHANGED <<commandVars, readerVars, channel, output, reaped, token, expired>>

CancelCommand == /\ ~token /\ token' = TRUE
                 /\ UNCHANGED <<commandVars, readerVars, channel, mainVars, expired>>
TimeOut == /\ ~expired /\ main = "loop" /\ expired' = TRUE
           /\ UNCHANGED <<commandVars, readerVars, channel, mainVars, token>>

Execute == Iterate \/ Disconnected \/ WaitChild \/ DrainChunk \/ JoinAndFinish
ReadPipe(s) == (\E count \in 1 .. MaxBytes : ReaderReads(s, count)) \/ ReaderSends(s) \/ ReaderEnds(s)
CmdNext == \/ Execute \/ ConsumerFails \/ CancelCommand \/ TimeOut \/ DescendantExits
           \/ \E s \in Streams : Write(s) \/ CommandCloses(s) \/ ReadPipe(s)
           \/ \E code \in {"zero", "failed"} : CommandExits(code)
CmdSpec == CmdInit /\ [][CmdNext]_cmdVars

\* The threads run and the clock goes on; nothing is assumed of the command.
CmdFairness == /\ WF_cmdVars(Execute) /\ WF_cmdVars(TimeOut)
               /\ \A s \in Streams : WF_cmdVars(ReadPipe(s))
CmdFairSpec == CmdInit /\ [][CmdNext]_cmdVars /\ CmdFairness

(***************************************************************************)
(* Properties.                                                             *)
(***************************************************************************)
\* The output of a command is what it wrote, in order and without gaps before
\* the limit; both streams together keep to the limit, with two readers reserving
\* at once (reserve_capture, read_pipe).  A character of several bytes that two
\* reads or the limit tear apart is replaced as a whole, and nothing else is.
WellShown(text) ==
    \A n \in DOMAIN text :
       /\ text[n] = n \/ (text[n] = Replaced /\ {n, n - 1} \cap Wide # {})
       /\ n \in Wide /\ n + 1 \in DOMAIN text => (text[n] = n <=> text[n + 1] = n + 1)
OutputIsCaptured ==
    /\ \A s \in Streams : WellShown(output[s])
    /\ Len(output["stdout"]) + Len(output["stderr"]) <= CaptureLimit

\* A result that says success is the whole story: the command ended by itself
\* with code 0, nobody interrupted it, and all it wrote is there unless the
\* limit was reached.
SuccessIsComplete ==
    main = "done" /\ outcome.success =>
        /\ child = "zero" /\ ~outcome.timedOut /\ ~outcome.cancelled /\ ~outcome.consumerFailed
        /\ \/ \A s \in Streams : Len(output[s]) = written[s]
           \/ Len(output["stdout"]) + Len(output["stderr"]) = CaptureLimit

\* A reader cannot send because the channel is full, and nobody receives any more.
Jammed == main = "join" /\ Len(channel) = ChannelCapacity /\ \E s \in Streams : reader[s] = "sending"
\* The command closed both streams and runs on; the tool waits for its exit.
Detached == main = "wait" /\ child = "running"

\* Once the run is cancelled or the time is over the tool returns, except in
\* three cases: a descendant outside the group keeps a pipe open, a reader is
\* blocked on the full channel while the tool waits for it, or the loop ended
\* because the command had closed its streams.
CommandReturns ==
    (main = "loop" /\ (token \/ expired)) ~> (main = "done" \/ descendant = "stubborn" \/ Jammed \/ Detached)

\* The README's promise, "Bounded reads and command execution, with per-command timeouts": a
\* command that started nothing else and keeps its streams ends once its time is over.
CommandIsBounded ==
    (main = "loop" /\ expired /\ descendant = "none") ~> (main = "done" \/ \E s \in Streams : hung[s])

\* The same promise of a command that has closed its streams, its time being
\* over or not: the tool's time-out ends it.
DetachedIsBounded == (Detached /\ descendant = "none") ~> (main = "done")

\* The output returned is what the command wrote but for torn characters, cut at
\* the limit only, and a success has all of it (LocalProcessRunner::execute).
OutputIsComplete == OutputIsCaptured /\ SuccessIsComplete
=============================================================================
