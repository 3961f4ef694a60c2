----------------------------- MODULE SessionLog -----------------------------
(***************************************************************************)
(* One session of the JSONL session store (crates/harness-session/src/     *)
(* lib.rs), written by an agent run and by RPC requests.                   *)
(*                                                                         *)
(* A run opens the session (create, or resume) and subscribes a collector  *)
(* to the event bus.  emit publishes an event on the bus, which puts it in *)
(* the collector, and flush takes what was collected and appends it to the *)
(* file.  Background processes publish on the same bus from their own      *)
(* threads.  An RPC request may append model.changed or session.resumed.   *)
(* append_event runs under append_lock; it loads the file, refuses to      *)
(* append to a damaged one, and writes the record and then, in a second    *)
(* write, its newline.  The process may crash between any two writes and   *)
(* within one; a write may also fail while the process lives on.           *)
(*                                                                         *)
(* The file is a sequence of lines, the last one being what follows the    *)
(* last newline.  A line is the sequence of the records written to it; a   *)
(* record that was cut short is not whole.                                 *)
(***************************************************************************)
EXTENDS Naturals, Sequences

CONSTANTS
    MaxEvents,    \* bound: events created
    MaxFaults     \* bound: crashes and failed writes

ASSUME LogAssumption == MaxEvents \in Nat /\ MaxFaults \in Nat

Origins == {"run", "rpc"}
Kinds == {"started", "resumed", "model", "note", "process", "terminal"}
Events == [id : 1 .. MaxEvents, kind : Kinds, origin : Origins]
Records == [event : Events, whole : BOOLEAN]

VARIABLES
    file,        \* lines of the session file; <<>> when there is no file
    holder,      \* who holds append_lock, "none" if nobody
    stage,       \* the holder's next write: "record" or "newline"
    writing,     \* the event the holder writes, in a sequence
    run,         \* the agent run that uses the session
    collector,   \* events collected and not yet flushed
    queue,       \* what flush has taken and not yet appended
    created,     \* events created so far
    faults,      \* crashes and failed writes so far
    acked        \* history: events whose append returned Ok, in that order

logVars == <<file, holder, stage, writing, run, collector, queue, created, faults,
          acked>>

LogInit ==
    /\ file = <<>>
    /\ holder = "none"
    /\ stage = "idle"
    /\ writing = <<>>
    /\ run = "none"
    /\ collector = <<>>
    /\ queue = <<>>
    /\ created = 0
    /\ faults = 0
    /\ acked = <<>>

-----------------------------------------------------------------------------
(* read_events: blank lines are skipped, a line that is not one whole      *)
(* record is a warning if it is the last and an error otherwise.           *)
Parses(line) == Len(line) = 1 /\ line[1].whole

Written == {i \in DOMAIN file : file[i] # <<>>}
IsLast(i) == \A j \in Written : j <= i

Damaged == \E i \in Written : ~IsLast(i) /\ ~Parses(file[i])
Warned == \E i \in Written : IsLast(i) /\ ~Parses(file[i])

(* The history, by its lines: their order is the order of the events.      *)
Loaded == {i \in Written : Parses(file[i])}
EventAt(i) == file[i][1].event

(* load_with_report: the file parses and its first event is started.       *)
Loads ==
    /\ ~Damaged
    /\ \E i \in Loaded : EventAt(i).kind = "started" /\ \A j \in Loaded : i <= j

(* Mutation: append_event ignores the warnings of its load.                *)
AppendableIgnoringWarnings == Loads

Appendable == Loads /\ ~Warned

(* reconstruct_state: after a terminal event only resumed or model events, *)
(* until one is resumed.                                                   *)
Closed(i) ==
    \E j \in Loaded :
       /\ j < i /\ EventAt(j).kind = "terminal"
       /\ \A m \in Loaded : j < m /\ m < i => EventAt(m).kind = "model"
StateReconstructs ==
    \A i \in Loaded : Closed(i) => EventAt(i).kind \in {"resumed", "model"}

-----------------------------------------------------------------------------
NewEvent(kind, origin) == [id |-> created + 1, kind |-> kind, origin |-> origin]

(* append_lock is taken and the checks of append_event pass.               *)
BeginWrite(who, event) ==
    /\ holder = "none"
    /\ holder' = who
    /\ stage' = "record"
    /\ writing' = <<event>>

(* A run opens the session: create makes the file, resume appends.         *)
CreateSession ==
    /\ run = "none"
    /\ file = <<>>
    /\ created < MaxEvents
    /\ BeginWrite("run", NewEvent("started", "run"))
    /\ file' = << <<>> >>
    /\ run' = "opening"
    /\ created' = created + 1
    /\ UNCHANGED <<collector, queue, faults, acked>>

ResumeSession ==
    /\ run = "none"
    /\ Appendable
    /\ created < MaxEvents
    /\ BeginWrite("run", NewEvent("resumed", "run"))
    /\ run' = "opening"
    /\ created' = created + 1
    /\ UNCHANGED <<file, collector, queue, faults, acked>>

(* session.resume or settings.update_model of some RPC client.             *)
RpcAppend(kind) ==
    /\ Appendable
    /\ created < MaxEvents
    /\ BeginWrite("rpc", NewEvent(kind, "rpc"))
    /\ created' = created + 1
    /\ UNCHANGED <<file, run, collector, queue, faults, acked>>

-----------------------------------------------------------------------------
(* write_event: the record, then the newline; then the event is published  *)
(* and append_event returns.  A run that opened the session reads its      *)
(* state next, and ends with an error if the history does not allow it.    *)
AddToLastLine(record) ==
    file' = [file EXCEPT ![Len(file)] = Append(@, record)]

WriteRecord ==
    /\ stage = "record"
    /\ AddToLastLine([event |-> writing[1], whole |-> TRUE])
    /\ stage' = "newline"
    /\ UNCHANGED <<holder, writing, run, collector, queue, created, faults, acked>>

ReleaseLock == holder' = "none" /\ stage' = "idle" /\ writing' = <<>>

WriteNewline ==
    /\ stage = "newline"
    /\ file' = Append(file, <<>>)
    /\ acked' = Append(acked, writing[1])
    /\ run' = IF holder # "run" \/ run # "opening" THEN run
               ELSE IF StateReconstructs' THEN "active" ELSE "none"
    /\ ReleaseLock
    /\ UNCHANGED <<collector, queue, created, faults>>

(* A write that is cut short leaves nothing, or a part of the record.      *)
CutShort ==
    \/ stage = "record" /\ AddToLastLine([event |-> writing[1], whole |-> FALSE])
    \/ UNCHANGED file

EndRun == run' = "none" /\ collector' = <<>> /\ queue' = <<>>

(* The write returns an error: create removes its file, append does not;   *)
(* the run ends with the error, an RPC request just answers it.            *)
WriteFails ==
    /\ holder # "none"
    /\ faults < MaxFaults
    /\ faults' = faults + 1
    /\ IF writing[1].kind = "started" THEN file' = <<>> ELSE CutShort
    /\ IF holder = "run" THEN EndRun ELSE UNCHANGED <<run, collector, queue>>
    /\ ReleaseLock
    /\ UNCHANGED <<created, acked>>

(* The process dies; everything but the file is gone.                      *)
Crash ==
    /\ faults < MaxFaults
    /\ faults' = faults + 1
    /\ file # <<>>
    /\ CutShort
    /\ EndRun
    /\ ReleaseLock
    /\ UNCHANGED <<created, acked>>

-----------------------------------------------------------------------------
(* The run emits an event: publish, then flush takes the collector.        *)
Emit(kind) ==
    /\ run = "active"
    /\ queue = <<>>
    /\ holder # "run"
    /\ created < MaxEvents
    /\ collector' = Append(collector, NewEvent(kind, "run"))
    /\ created' = created + 1
    /\ run' = IF kind = "terminal" THEN "closing" ELSE "emitting"
    /\ UNCHANGED <<file, holder, stage, writing, queue, faults, acked>>

(* A background process of the run reports its status on the bus.          *)
BackgroundEvent ==
    /\ run \in {"active", "emitting", "closing", "closed"}
    /\ created < MaxEvents
    /\ collector' = Append(collector, NewEvent("process", "run"))
    /\ created' = created + 1
    /\ UNCHANGED <<file, holder, stage, writing, run, queue, faults, acked>>

FlushTake ==
    /\ run \in {"emitting", "closing"}
    /\ queue' = collector
    /\ collector' = <<>>
    /\ run' = IF run = "closing" THEN "closed" ELSE "active"
    /\ UNCHANGED <<file, holder, stage, writing, created, faults, acked>>

FlushAppend ==
    /\ queue # <<>>
    /\ Appendable
    /\ BeginWrite("run", Head(queue))
    /\ queue' = Tail(queue)
    /\ UNCHANGED <<file, run, collector, created, faults, acked>>

(* append_event refuses: the run ends with the error.                      *)
FlushRefused ==
    /\ queue # <<>>
    /\ holder = "none"
    /\ ~Appendable
    /\ EndRun
    /\ UNCHANGED <<file, holder, stage, writing, created, faults, acked>>

(* The closing event is flushed: run() returns and drops its subscription. *)
RunReturns ==
    /\ run = "closed"
    /\ queue = <<>>
    /\ holder # "run"
    /\ EndRun
    /\ UNCHANGED <<file, holder, stage, writing, created, faults, acked>>

-----------------------------------------------------------------------------
LogNext ==
    \/ CreateSession \/ ResumeSession
    \/ \E kind \in {"resumed", "model"} : RpcAppend(kind)
    \/ WriteRecord \/ WriteNewline \/ WriteFails \/ Crash
    \/ \E kind \in {"note", "terminal"} : Emit(kind)
    \/ BackgroundEvent \/ FlushTake \/ FlushAppend \/ FlushRefused \/ RunReturns

LogSpec == LogInit /\ [][LogNext]_logVars

-----------------------------------------------------------------------------
(* Every variable keeps its type, and the lock's holder has one event.     *)
LogTypeOK ==
    /\ file \in Seq(Seq(Records))
    /\ holder \in Origins \cup {"none"}
    /\ stage \in {"idle", "record", "newline"}
    /\ writing \in Seq(Events) /\ Len(writing) <= 1
    /\ holder = "none" <=> writing = <<>>
    /\ run \in {"none", "opening", "active", "emitting", "closing", "closed"}
    /\ collector \in Seq(Events)
    /\ queue \in Seq(Events)
    /\ created \in 0 .. MaxEvents
    /\ faults \in 0 .. MaxFaults
    /\ acked \in Seq(Events)

(* Whatever crashes and failed writes leave behind, and whoever appends    *)
(* afterwards, damage stays in the last line: load never fails with an     *)
(* invalid record in the middle of the history.                            *)
DamageOnlyAtEnd == ~Damaged

(* An event whose append returned Ok is never silently gone: either a load *)
(* of the session returns it, or the load reports a warning.               *)
NoSilentLoss ==
    ~Warned => \A e \in DOMAIN acked : \E i \in Loaded : EventAt(i) = acked[e]

(* Collector, flush and append_lock keep the order of the bus: the events  *)
(* of a run are read back in the order in which they were created, however *)
(* background events and RPC appends interleave with them.                 *)
HistoryInOrder ==
    \A i, j \in Loaded :
       i < j /\ EventAt(i).origin = "run" /\ EventAt(j).origin = "run"
          => EventAt(i).id < EventAt(j).id

\* Whatever crashes and failed writes leave of the file, what load returns is
\* the history in its order, and what is missing of it is told (append_event,
\* read_events, flush).
HistoryIsKept == LogTypeOK /\ DamageOnlyAtEnd /\ NoSilentLoss /\ HistoryInOrder
=============================================================================
