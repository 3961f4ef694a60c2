# CogitoAI: a TLA+ verification project

CogitoAI is a coding-agent runtime: a Rust workspace (`crates/harness-*`), a
command line and terminal UI, and a desktop application that talks to a local
runtime over line-delimited JSON RPC. This directory holds TLA+ modules that
model its parts, TLC configurations that check them on small instances, and
TLAPS proofs of the most important invariants for every instance.

`PROJECT.json` is the index: which definition models which lines, which run
checks what, which plausible bug each property would detect (`mutants`), what
is hard to test in this code (`hazards`), and where the code disagrees with its
own documentation (`findings`).

## 1. Inventory

| Component | State | Operations | Hard behaviour | What makes it correct |
|---|---|---|---|---|
| RPC run control (`harness-rpc/src/server.rs`) | clients, active run, approval broker (sender, token, pending) | register, unregister (from two threads), `agent.run/cancel/approve/deny`, the run's worker | every lock is short, so all of it interleaves; a prompt waits on a person | one run at a time; a tool is let through by a person only; a dropped client denies prompts and ends the run; a cancelled run ends |
| RPC idempotency cache (`server.rs`, `protocol.rs`) | table of entries, insertion order | lookup, wait, complete, trim | retries over several connections, eviction at the limit | no mutation runs twice at once; a replay answers its own request; waiting retries return; bounded memory |
| Session log (`harness-session`) | one JSONL file per session, append lock, event bus | create, append, load, resume, flush | crashes between writes, failed writes, several writers | damage only at the end, no silent loss, order of the bus, closed sessions stay readable |
| Agent loop (`harness-agent/src/lib.rs`) | `TaskRun`, map of unresolved errors, counters | run, resume, tool calls, verification, completion gate | many exits, error texts carried over runs, cancellation at any point | done only when nothing is open and the diff was shown; sessions are closed; every run ends |
| Execution plan (`harness-agent/src/lib.rs`) | milestones, steps, revisions | adopt, advance, revise, finish, resume | revisions in the middle of a milestone, resumption | completed steps stay, none that nobody began is skipped, the goal names the current milestone |
| Sub-agents (`harness-agent`, `harness-tools/src/subagent.rs`) | batch, children's threads and tokens | delegate, collect, give up | answers out of order, time budget, panics | reports say what a child did, no child goes on untold, the batch returns |
| Gate of a tool call (`harness-policy`, `hooks.rs`, `ToolRegistry`) | rules, mode, one-shot approvals | evaluate, ask, run hooks, execute | one call is judged several times | a denied call never runs, an approval serves its own call only |
| Runtime and settings (`harness-rpc/src/lib.rs`, `settings.rs`, `preferences.rs`) | model, policy, runner behind separate locks, two preference files | update model or permissions, connect a provider, resume | steps of two calls interleave, crashes between the files | a change alone is in force and survives, the mode is kept |
| Discovery and start (`bootstrap.rs`, `process.rs`, `metadata.rs`, `host.rs`) | startup lock, metadata file, process | connect, start, shut down | racing clients, stale files, crashes | one runtime per workspace, everyone gets connected |
| RPC client (`client.rs`) | messages kept while a response is awaited | request, receive | responses and events interleave | responses are correlated, events keep their order |
| Verification (`harness-verification`) | plan, reports | discover, narrow to the changed files, verify | files of several packages, cancellation, output limits | narrowing leaves no changed package out, a report covers the plan |
| Git checkpoints (`harness-git`) | checkpoint files | capture, record, restore | edits of the user in between | restore touches only what the harness changed |
| Commands and background processes (`harness-tools/src/process.rs`, `background.rs`) | children, pipes, reader threads, process table, logs | run, start, stop, read, drop | full pipes and channels, time-outs, descendants, limits | output is what was written, a stop wins or loses cleanly, ends are reported, nothing outlives the manager |
| Terminals (`harness-pty`) | sessions, reader and reaper threads | open, write, resize, close | reaper against close, split characters | an end is announced, characters arrive whole |
| File tools (`filesystem.rs`, `environment.rs`) | files, revisions, edit mutex | write, create, patch, replace, delete, rename | other programs between load and replacement, line endings | no lost update, an edit touches what it names only |
| Repository index (`repository_index.rs`) | records of files, packages, bytes | build, refresh, update | files change between metadata and contents | what has changed is found again |
| Models (`harness-models`) | stream accumulators, remembered turns, catalogue and its cache, credentials | generate, list, refresh, persist | cut streams, silence, cancellation, retries, two writers of a file | events tell what the call returns, no half call, calls return, the cache is not older than the state |
| MCP (`harness-mcp`) | one entry per server behind a mutex | connect, refresh, call, disconnect | await without the lock, crashes, time-outs | a call is sent once, a transport has one owner, operations return |
| Context (`harness-context`, `harness-agent`) | history, items, budgets | rank, cut, trim, compact | a window smaller than what it must hold | the budget is kept, failures are shown |
| Desktop and CLI (`apps/desktop`, `harness-cli`) | store, prompts | events, reconnect | events against responses | the view follows the runtime |

How they interact: a client's connection threads call the server state; a run's
worker thread runs the agent loop, which asks the approval broker, executes
tools, publishes events on the bus and appends them to the session log; the
server forwards the bus to every client. A connection that ends acts on the run
through the cancellation token and through the broker.

## 2. Plan

The modules were written in the order of what the program promises its user:
runs and approvals, retries, the log, the agent loop, starting the runtime and
undo first; then what a run is made of (processes, terminals, MCP, model
streams, edits, the policy gate, verification), then what it decides by
(settings, catalogue, plan, context, sub-agents, index).

What composes what: `MCRuns` runs `RunControl`, `AgentLoop` and `Delegation`
under one specification, `MCStorage` `SessionLog` and `Checkpoints`,
`MCConnections` `Connector`, `Streams` (with `StreamParsers`) and
`Conversation`, `MCProcesses` `Commands`, `Background` and `ProcessLogs`,
`MCServers` `Terminals` and `Mcp`, and `MCDecisions` the nine parts that keep
state of their own. The parts of one MC module share no variable in the code
either; the variable `unit` says which of them a behaviour is about, so each is
explored in full and none multiplies the states of another. `Idempotency` is
checked against the abstract `OncePerKey`.

Proved are the safety properties of all parts but two: the edits of a text
(`TextEdits`) and the model's streams with what goes back to the provider
(`StreamParsers`, `Streams`, `Conversation`), whose properties are about what
recursive functions compute. Left to do, in this order: those two; an abstract
log for `SessionLog`; the desktop's bridge.

## 3. Modules

### RunControl

One step per critical section of `server.rs`. `pc` holds the state of the two
threads of each connection: the reader (`serve_connection`) and the writer
(`write_messages`); both call `unregister`, whose four locks are the steps
`UnregisterRemove`, `ClearSender`, `DenyAll`, `CancelActive`. `start_run` is
`StartRun` (the token is created and given to the broker) and `BeginRun` (the
run is accepted or `run_in_progress`). `worker` is the thread of each run;
`ApprovalBroker::request` is `RequestApproval` (id and pending entry),
`ReadSender`, `SendPrompt`, and one of `WaitCancelled`, `WaitTimeout`,
`WaitAnswer`, all of which leave through `RequestReturns`. `approved` and
`verdict` are history variables.

Abstractions: messages other than the prompt are not kept; the deadline of a
prompt may pass at any moment; the agent between two approvals is one state.
Methods of the server that touch none of this state are left out.

### Idempotency

`dispatch` of one connection is the sequence lookup (three outcomes), execute,
complete, trim, or lookup and wait. The code's insertion order is the order of the
entry numbers, because an entry is inserted in the same critical section in which
it is made. `trim` is one step that removes a set of which `Victims` holds:
completed entries, none of them newer than a completed one that stays, as many as
the table is over its limit or as there are. A retry that waits keeps its entry
(an `Arc`) when trim takes it out of the table.

### SessionLog

The file is a sequence of lines and a line a sequence of records, so that two
records that share a line (after a crash between a record and its newline) are
visible. A history is the set of its lines' numbers: `Written` are the lines that
are not blank, and `Damaged`, `Warned`, `Loaded` and `Loads` what `read_events` and
`validate_events` make of them; `StateReconstructs` is the terminal-event rule of
`reconstruct_state`; a run that resumes a session which does not reconstruct
ends before it begins. Writes are two steps (`WriteRecord`, `WriteNewline`), and
`WriteFails` and `Crash` may cut each of them short. `Emit`, `FlushTake`,
`FlushAppend` are the agent's `emit` and `flush`; `BackgroundEvent` is the
status sink of a background process, on its own thread; `RpcAppend` stands for
`record_model_change` and `resume_session`. Only the process that crashes
writes: two processes on one session have no common lock in the code and are not
modelled.

### AgentLoop

`phase` is the place in `AgentRunner::run`. A `TaskRun` keeps what the gate
reads: unresolved errors, whether files changed, whether the diff was
inspected, status, mode, whether there is a plan. The map
`unresolved_error_keys` is `keyed`; a text is *tagged* while it still begins
with its key. The end of a run goes through `Finish`, `FinishBlocked`, `Abort`,
`Fail` (the four functions of the code) or `StopAt` (an error that leaves
`run` through `?`, or the end of the process: `CompactionFails`,
`CheckpointFails`, `VerificationRefused`, `ProcessEnds`). What is done to the
task between two saves and lost by an early return is visible, because `saved`
is a variable of its own. `owed` and `shown` are histories of what really
happened, kept apart from what the code remembers: the failures nobody answered
yet, and whether the diff of the last edit was shown. `CarriedBy` is what a
stored task tells the run that resumes it, and `lost` what was still open and is
told no more; it is filled in two places only, `StopAt` and the resumption that
keeps a text without its key.

Abstractions: contents of prompts, tool results and plans; a tool call is one of
four kinds; tokens, cost and time may stop a run at every `check_limits`; hooks
are a choice between success and a blocking failure. `ResultsFull` stands for a
task that already has the 200 verification results `push_bounded` keeps.

### Connector

One caller is one `RuntimeConnector` with one call at a time: `connect_or_start`,
`connect_existing` or `reconnect`. `try_connect_from_metadata` is `ReadMetadata`,
`Probe` and `RemoveStale`; `site` says from which of its three places it was
called (before the locks, while the lock file is contended, under the lock), and
`NoRuntime` is what the caller does with `None`. Then come the flag of the
process (`TakeGuard`), the lock file (`TakeLock`), the launcher (`Launch`,
`Announcement`), the metadata (`Publish`) and `wait_until_ready_normalized`
(`Ready`, `ReadyTimeout`, and `StopChild`, `Unpublish` when it fails). `Disconnect`
may come at any moment from another thread; `ValidTransition` is the code's table.
`expired` is the deadline of the wait a caller is in. A client process may die
(`Crash`), and a runtime boots, hangs, resumes and exits by itself.

A runtime's number stands for its instance ID, process ID, port and record. A
process ID or port of a runtime that has exited may be in use again, so
`PidExists` and `ProbeOutcomes` are then arbitrary. `TimeoutIsTransient` is the
one difference between platforms that matters: on Windows the text of a socket's
read time-out is among those of `is_transient_probe_error`, on Unix it is not.

Abstractions: only the automatic endpoint (port 0); the three attempts of
`probe_with_retries` are one step; back-off, owner file and status subscribers
are left out. `Launch` picks the protocol version of the executable it finds.

### Checkpoints

A run is `Create` (the baseline of the files git lists), then `AgentEdit` and one
`Record` per changed path, each followed by `Persisted`; between the two the
checkpoint file is truncated, and `RunStops` may leave it so. An undo is `Load`,
one `Check` per recorded path, `Decide`, one `Restore` per path and `Report`;
`UndoStops` and `RestoreTorn` end it between two paths or within one.
`OtherWrite` is everybody else: a person, a formatter, an after-edit hook. None
of them excludes another, as in the code.

A content stands for bytes and executable bit and carries the name of its
writer, so that properties can say whose work was replaced. `origin`, `live` and
`meddled` are histories: the worktree at the creation of a checkpoint, the
recorded and not yet restored files of each checkpoint, and the files that
somebody other than the agent and undos in their order have changed. Order means
newest first and each checkpoint once: repeating an undo is out of it.

Abstractions: the snapshot of the files in `Create` is one step (each file is
independent of the others, and no edit of the run precedes it); permissions
other than the executable bit, which `set_executable` resets to 0755 or 0644,
directories, and the events on the bus are left out; runs of two processes at
once are not modelled. `list`, which undo without an id uses to find the newest
checkpoint, only chooses the id that `Load` takes.

### OncePerKey

What the cache promises a client that retries, without entries, table or limit:
a key is executed by one call at a time, and a call that is answered without
executing gets the response of a finished execution of the same request, or is
refused. `Idempotency` maps its table and callers to it
(`ImplementsOncePerKey`); trimming is a stutter.

### Delegation

`execute_batch` in steps: `Accept`, one `Spawn` per task, `CollectOutcome` per
outcome in the order children finish, `GiveUp` on cancellation, time budget or a
channel whose senders are gone, one `ReportChild` per task. Children run beside
it and may panic; threads are never joined. The model of a child is only when
and how it ends: its run is `AgentLoop`.

### Commands, Background, ProcessLogs

`Commands` is `LocalProcessRunner`: the child, which may close its own streams
(`CommandCloses`), a descendant with the same pipes, two readers that take any
number of bytes with a read, the bounded channel, the capture limit shared by both
streams, and the thread that receives, polls the token and the deadline,
terminates, waits, joins and drains (`DrainChunk`, a chunk a step). The bytes of a
stream are numbered; those in `Wide` begin a character of two bytes, and `Text` is
the lossy conversion of one read: a half of a character becomes `Replaced`.
`Background` is the table of managed processes with its two limits; a stop, a
cancelled run, a time-out and the drop of the manager all kill, and the monitor
thread records. The drop goes through the processes in the steps of the code: it
reads the status (`DropLooks`), kills and waits (`DropStops`), and writes
(`DropRecords`), with the monitors in between. `ProcessLogs` is the bounded log
and the cursor of its reader.

### Terminals, Mcp

`Terminals`: the reader decodes with `take_complete_utf8`, the reaper and any
number of `close` calls find the end. A byte is a letter or half of a character;
`ValidUpTo` is the longest part `from_utf8` accepts (`WholeUpTo`).
`Mcp`: the entry of one server behind its mutex, operations that lock, connect,
page through the catalogue, call, and record a failure after they released and
took the lock again (`WillRecord` says which failures are recorded). Closing a
client is two steps, `BeginsClose` and `CloseEnds`: the service is told
(`told`), and its end is awaited with the entry held, for as long as the server
takes (`ServerGoes`); in `disconnect` alone the wait has a time-out. A client
whose transport is closed is awaited in the same way before a new connection
is made (`OldClientEnds`). `MaxPages` is an assumption about the server: the code has
no limit. The transport (`rmcp`) is external.

### StreamParsers, Streams, Conversation

`StreamParsers` has both parsers of each adapter: the streaming accumulator and
the one for a whole body. An answer is a sequence of items, each in two
fragments; JSON parses when both are there. `Streams` is one `generate` call
around them: request and retries, the SSE loop with token and time-out, and a
provider that cuts, fails or hangs. A line can be interrupted by a read time-out:
between characters it stays buffered, within one (`ReadIdle`, `line = "torn"`)
the bytes of that read are dropped, and what is left is read as a line with a hole
(`ReadHoledEvent`): it is skipped, is no JSON, or lacks a part of its text
(`Holed`, `Pierced`). Gemini's calls come in one chunk or in several (mode
`"apart"`). `Conversation` is what goes back to the
provider over three turns: trimming, pairing of results, alternation of roles
and the turns Anthropic and Gemini remember.

### FileEdits, TextEdits

`FileEdits` is the protocol of an edit: resolve, mutex, load, plan, compare,
replace, report, with other programs writing between any two steps. `TextEdits`
is what an edit does to the bytes: line endings, byte order mark, offsets of the
normalized text in the raw one, unique matches, line ranges and the diff, as
operators over all texts of up to four units.

### ToolGate

The policy engine as operators (`EvaluateRequest` with `RuleMatches`, `BestRule`,
`DefaultEvaluation`), and one call through `Preflight`, the prompts, the hooks
before and after an edit, the second evaluation in the registry and the tool.
Paths and commands are the classes the engine tells apart; a glob is the set of
what it matches, or `BadGlob`. As in the code a rule is looked at filter by
filter, so a bad glob of tools or commands is an error, and a denial, only where
it is reached (`RuleBreaks`), and a bad path glob matches nothing. A call carries
besides its requests the places it `touches`, which for a rename are more than its
requests name. `Evaluation` is `ApprovedPolicy`: an approval is used up by the
request it was given for. `EvaluateAll` looks at the destination of a rename when
its source is allowed, as `preflight` and `execute` do.

### Verification

The plan (`AllSteps`, `AfterChanges`) and its narrowing per tool as operators
over the changed files and the workspace, and `RunStep` with cancellation and
output limits. `SortedByPriority` puts the seven categories behind each other
(`InCategory` picks one), which is what the stable sort does; `CargoTarget` joins
the changed files one by one, as its loop does.

### Settings, Catalog

`Settings`: each call is the sequence of its lock-sized steps (read the
settings, build a runner, write model, policy, runner, the user's file, the
project's file, the event), with crashes and restarts between them. `Catalog`:
refreshes whose answers arrive without a lock, configured models, defaults, and
`persist` (lock, copy, temporary file, rename) with restarts.

### ExecutionPlan, ContextWindow

`ExecutionPlan`: plans from the model's answers, `Advance`, `Progress`,
`Revised`, `Finished`, over several runs; plans saved by older versions are
among the initial states. `ContextWindow`: texts are lengths; `Candidates`,
`Ranked` (the stable sort: `PlaceOf` counts what comes before an item),
`AddItem` and `AddAll` are `ContextBuilder`, `Trim` with `FixedTokens` and
`ResultShare`, and `CompactContext`, the history's side.

### RepositoryIndex

`build`, `refresh_if_stale` and `update_changed` under the service's mutex, with
the metadata and the contents of a file as separate steps and other programs
writing between them. A version stands for the modification time and contents
of one write, so two writes within the resolution of the file system's clock
that keep the size are not told apart here as two. The walk over the workspace
is one step, and what `parse_file` finds follows from the contents. `settled`
and `missed` are histories for the properties.

## 4. Runs

A property that a run checks is often a conjunction of named parts, each defined
and explained in its module; the parts are in parentheses here.

| Run | Bounds | Shows |
|---|---|---|
| `runs_safety` | 2 symmetric clients, 2 runs, 1 approval; a session of 3 runs of 2 turns and 2 tool calls, hooks, errors returned with `?`, dying processes; 4 sub-agents, 3 at a time | run control: `OneRunExecutes`, `GrantNeedsApproval`, `NoOrphanPrompt`; agent loop: `GateHolds` (`LoopTypeOK`, `DoneIsSettled`, `HandedOn`); sub-agents: `BatchSettled` (`ReportsAreTrue`, `NoChildLeft`) |
| `runs_live` | 1 client (two threads), 2 runs; 1 run of 3 turns with all kinds of calls, both modes, batches of 2, errors returned with `?`; 3 sub-agents | `ControlEndsRun` (`DropEndsRun`, `CancelledRunEnds`), `RunEnds`, `GateHolds` once more (calls a mode denies, several in a turn), `BatchReturns` |
| `idempotency` | 2 callers, 3 keys, 2 requests, cache of 1, 4 executions | `InFlightRetained`, `ReplayMatchesRequest`, `EvictionIsExact` (`CacheBounded`, `RetryWindow`), `WaiterAnswered`, and the refinement `ImplementsOncePerKey` |
| `storage` | 5 events, 2 faults; 1 listed and 1 ignored file, 2 runs, 2 edits, 1 write of others, 2 undos | `HistoryIsKept` (`LogTypeOK`, `DamageOnlyAtEnd`, `NoSilentLoss`, `HistoryInOrder`), `UndoIsSafe` (`UndoTypeOK`, `UndoExact`, `UndoStack`, `UserWorkKept`) |
| `connections` | 2 connectors in two processes or one, 2 runtimes, 2 calls, 1 crash (Windows error texts); 4 adapters, 8 answers, 2 attempts, 1 interrupted line; 3 turns, 3 remembered | `SharedRuntime` (`TypeOK`, `OneRuntime`, `ConnectedIsPublished`), `CallReturns`; `EventsTellResponse` (`EventContract`, `EventsRebuildResponse`), `ResponseIsTheAnswer` (`StreamMatchesComplete`, `NoPartialCall`, `CutStreamIsNoAnswer`, `ReasoningOnlyWhenAsked`), `GenerateReturns`; `RequestIsWellFormed` (`ResultsPairCalls`, `ReplayIsTheHistory`, `RolesAlternate`) |
| `processes` | 2 bytes per stream (`MaxBytes`), the first of them half a character (`Wide`), channel of 1, capture of 3; 3 starts, 1 active, 2 records; log of 4 bytes and 3 records, 5 pushes | `OutputIsComplete` (`OutputIsCaptured`, `SuccessIsComplete`), `CommandReturns`; `TableIsSound` (`ProcessesBounded`, `KilledIsStopped`, `NothingOutlivesManager`, `StatusIsFinal`), `EndIsReported`; `LogIsHonest` (`LogBounded`, `NoSilentLogLoss`) |
| `servers` | 2 closers, 3 bytes; 2 operations, 2 pages | `TerminalIsFaithful` (`ReaperDefers`, `UnicodeIntact`), `EndIsAnnounced`; `EntryIsSound` (`EntryIsSettled`, `TransportIsOwned`, `CallNeverReplayed`), `OperationReturns` |
| `decisions` | see `MCDecisions.tla`, one paragraph per part | one property for each of nine parts, below |
| `agent_loop_resume` | 3 runs | violated: `NoDoneWithOpenErrors` |
| `agent_loop_diff` | 2 runs with errors returned with `?` | violated: `DiffBeforeDone` |
| `connector_hung` | the connectors on Unix | violated: `OneRuntime` |
| `command_bounded` | the command of `processes` | violated: `CommandIsBounded` |

What `decisions` checks:

| Part | Property | Its parts |
|---|---|---|
| `FileEdits` | `EditsAreSafe` | `MutexIsReleased`, `NoLostUpdate`, `RevisionProtects`, `ChangesAreReported` |
| `TextEdits` | `TextEditsAreExact` | `PatchIsLocal`, `AmbiguousRefused`, `ShownLinesCanBeReplaced`, `StyleKept`, `DiffRebuilds` |
| `ToolGate` | `GateIsStrict` | `OwnApproval`, `DeniedNeverRuns`, `NoStandingApproval`, `AskedOnce`, `ModesAreOrdered`, `PriorityDecides` |
| `Verification` | `VerificationIsHonest` | `OrderDoesNotMatter`, `NarrowingIsSafe`, `ConfiguredRuns`, `ReportsCoverPlan`, `LossIsAnnounced` |
| `Settings` | `SettingsInForce` | `LoneChangeInForce`, `ModeKept`, `EffortIsListed` |
| `Catalog` | `CatalogIsKept` | `CacheCatchesUp`, `DefaultIsListed` |
| `ExecutionPlan` | `PlanIsFollowed` | `MilestoneInSync`, `WorkedInOrder`, `NoStepForgotten`, `CompletedStepsKept` |
| `ContextWindow` | `ContextFits` | `PromptFits`, `HistoryFits`, `NothingDisplaced`, `FailuresShown` |
| `RepositoryIndex` | `IndexIsTrue` | `BytesAccounted`, `MetadataTellsChanges`, `RefreshCatchesUp`, `PackagesFollow` |

Why the bounds are enough. In `RunControl` two runs are needed for a rejected
start and for a run that is cancelled by the late writer of an older connection;
two clients for a prompt that goes to one while the other answers or leaves. A
batch of four with room for three has one task that waits for a slot while others
end. In `Idempotency` a cache of one entry with three keys is over its limit as
soon as two keys are in use, so eviction, reuse of an evicted key and an executing
entry at the front all happen. In `SessionLog` one fault can leave each kind of
damage, and the events after it are the ones a later run and an RPC request
append. In `AgentLoop` three runs are needed: a failure loses its key in the
second, which is the first to resume, and can be forgotten in the third. In
`Connector` two calls are enough for a race, for a client that meets what an
earlier one left behind, and for a crash in every place of a start; the second
runtime is the one that must not come to be while the first lives. In
`Checkpoints` two runs that edit the same file are the smallest stack of undos;
the ignored file is created by the first run and is there when the second begins.
In `Streams` an item of two fragments is the smallest that can be cut, and the
answers have text before, between and after calls; one interrupted line is enough,
since what is lost with it does not depend on other lines. In `Commands` a channel
of one with two bytes per stream fills, a capture of three cuts the output of
both, and a character of two bytes can be torn by a read and by the limit. In
`Mcp` the second operation is the one that reconnects while the first is about to
record its failure. In `FileEdits` two editors and one foreign write meet in every
gap; with two paths, one of them free at first, there is a rename, and one onto a
file another editor has just created. In `Settings` two calls interleave. In
`RepositoryIndex` four files with room for three exceed the limit, two writes can
fall into any two gaps of a scan, and the sizes exceed the limit of a file and
that of the index. `CHECK_DEADLOCK` is off because every model stops when its
bounds are used up.

`GateHolds` does not say that a task stored as done owes nothing: that is what
`agent_loop_resume` and `agent_loop_diff` refute. It says that there are two ways
in which a matter can get lost, an end before it is stored and a resumption that
stores a text without its key (`lost`), and no others, over any number of runs:
not in a call that is refused or denied by the mode, not in a guard, not in a
rejected completion, a verification that stops or a cancellation. So the
constants of the safety run leave `AbruptErrors` at `TRUE`; `agent_loop_resume`
sets it to `FALSE` because the resumptions alone are enough for its finding.

Properties name their exceptions in the same way. `ResponseIsTheAnswer` excepts
what Gemini's merging by place loses (`ThoughtSwallowsText`, `CallsMerged`) and
streams with a hole (`lost`, which `PartialLinesRemain` is about), and
`EventsTellResponse` OpenAI's streams with a hole (`SaidTwice`); `CommandReturns`
the descendant that keeps the pipes, the blocked reader and the command that
closed its streams (`Jammed`, `Detached`); `StatusIsFinal` the status that drop
writes over (`OverwrittenByDrop`); `OperationReturns` the server that does not go
(`CloseHangs`); `NarrowingIsSafe` the files it names.

### Fairness

`RunControl`: threads of the server are scheduled (weak fairness of every step
that only waits for the scheduler); the wait of a prompt ends because it polls a
deadline; `run_agent` returns once its own token is cancelled, since the loop
checks it before every turn and every tool call. Clients and the model are not
assumed to do anything. `Idempotency`: reader threads are scheduled and handlers
return. `AgentLoop`: the run's thread is scheduled; the provider and the tools
return because requests and commands have timeouts. `Delegation`: the parent's
thread is scheduled and its clock advances; nothing is assumed of children.
`Connector`: a call's thread is scheduled and its clock advances; runtimes and
health checks may do what they like. `Streams`: the thread that reads and its
clock; the provider may stay silent. `Commands`: the tool's and the readers'
threads, the clock and the kernel (a killed process goes away); `CommandReturns`
is about commands whose output fits the channel or whose receiver still
receives, and that keep their streams while they run: `CommandIsBounded` and
`DetachedIsBounded`, below, show that both are needed. `Background` and
`Terminals`: their threads, and the end of a process that was killed. `Mcp`: the
operations' threads and their time-outs; the server owes nothing, not even to go
when its client is closed.

### Disagreements with the documentation

Four are runs of their own, described under `findings` in `PROJECT.json`, each
with the line it contradicts. Eight more are stated as definitions of their
modules, and TLC finds a counterexample to each when it takes the place of the
properties in the configuration named here:

| Definition | Configuration | What the code does, and the line it contradicts |
|---|---|---|
| `SessionClosed` (`AgentLoop`) | `AgentLoop_diff.cfg` | `run_verification_if_needed`, `compact_context` and `record_harness_change` are called with `?` (`harness-agent/src/lib.rs:3204`), so their errors leave `run` without a closing event. `README.md:49`: "a cancelled or failed run still closes its session cleanly". |
| `DetachedIsBounded` (`Commands`) | `Commands_bounded.cfg` | A command that closes its own output ends both readers, the loop breaks, and `child.wait()` (`process.rs:216`) has neither time-out nor token. `README.md:653`: "Bounded reads and command execution, with per-command timeouts." |
| `PartialLinesRemain` (`Streams`) | `Connections_all.cfg` | `read_line` into a `String` that times out within a character drops what this call had appended, though the bytes are consumed (`transport.rs:172`). `transport.rs:120`: "Timed out partial lines remain buffered and the loop resumes reading until an event or cancellation." |
| `CancellationTakesEffect` (`Mcp`) | `Servers_all.cfg` | `client.cancel().await` has no time-out but in `disconnect` (`harness-mcp/src/lib.rs:287`, `:316`); a server that ignores the end of its input holds the cancelled operation, and with it the entry. `README.md:662`: "cancellation that always takes effect". |
| `ExitReportedOnce` (`Terminals`) | `Servers_all.cfg` | `close` publishes `Exited` whoever had set the flag (`harness-pty/src/lib.rs:441`), so a close after the reaper reports the end again. `harness-pty/src/lib.rs:553`: "`close` may have already reported the exit; report once only." |
| `ProtectedStaysUntouched` (`ToolGate`) | `Decisions_all.cfg` | `build_policy_request` takes the argument `path` (`harness-tools/src/lib.rs:729`); `rename_file` has `source_path`, which no request names, so a protected file is moved away. `harness-rpc/src/settings.rs:302`: "Credential and VCS secret paths are always denied." |
| `ResumesWhereItStood` (`ExecutionPlan`) | `Decisions_all.cfg` | `advance_execution_plan` begins the first pending step and passes over a blocked or interrupted one (`harness-agent/src/lib.rs:1146`); the milestone is closed without it. `README.md:57`: "the model can resume from the next incomplete step without depending on chat history". |
| `SamePolicyAsAgent` (`Settings`) | `Decisions_all.cfg` | `apply_settings` installs an engine without rules (`harness-rpc/src/lib.rs:222`), while its runner keeps those of `.agent/config.toml`. `server.rs:1608`: "Still evaluate the same MCP policy as the agent." |

(All of them are invariants but `DetachedIsBounded` and `CancellationTakesEffect`,
which are temporal properties.) More were met while modelling and are recorded
here only:

- `flush` appends whatever the bus collected, so an event of a background process
  that is published after the closing event and before `flush` takes the collector
  (`harness-agent/src/lib.rs:4100`) is appended after `session.completed`, and
  `reconstruct_state` fails from then on with "events cannot follow a terminal
  session event"; `README.md:1220` says that `resume` reactivates "the same
  session, including one that previously completed or failed". TLC finds it as a
  state of `SessionLog` that does not satisfy `StateReconstructs`, without any fault.
- undo removes a file that git ignores and the agent edited, although it was there
  before the run: `create_checkpoint` lists files with `--exclude-standard`, and a
  path without baseline is removed (`harness-git/src/lib.rs:744`). `README.md:1237`
  says "Undo restores only recorded paths to their recorded baseline."
  `UndoExact` leaves such files out (`Covered`).
- undo overwrites a person's edit in two windows: between the agent's edit and
  `record_harness_change`, and between the comparison and the write of a restore
  (`README.md:1240`: "never silently overwritten"). `UserWorkKept` says that
  there are no others. An edit made after the checkpoint was created and before
  the agent's own edit of the file is undone with it.
- undo leaves `recorded_changes` as they are. When a run is undone while it is
  active and then edits another file, the next undo of its checkpoint conflicts on
  the files that are restored already; so does the retry of an undo that failed
  half way. An older run that is undone while a newer one is active comes back
  when the newer one is undone, whose baseline has its edits.
- a crash during `persist` leaves a checkpoint file that does not parse: its edits
  can no longer be undone, and `list`, and with it undo without an id, fails for
  every checkpoint.
- `connect_existing` passes an error of its look at the metadata on without
  `failed()` (`bootstrap.rs:413`), and so does `connect_or_start` when the
  directory cannot be made (`:254`). The connector stays in `Connecting`, and the
  next `connect_or_start` or `reconnect` is refused with `InvalidTransition` until
  `disconnect()` is called.
- a `disconnect()` while a start waits for readiness makes the final transition
  fail, and the runtime is stopped as a failed start even when another client has
  already connected to it; `README.md:131` says "Closing a client leaves the
  runtime available to other clients."
- a client that dies between the spawn and the metadata write leaves a runtime
  nobody can find; the next client starts another one (`abandoned`).
- `protocol.rs:11` says completed requests are remembered "for the lifetime of
  the runtime"; `trim` keeps 1024. `RetryWindow` is what does hold.
- a completion rejected (or a final diff taken) in turn `max_turns` is followed
  by one more model request, because the loop head compares before it
  increments; the type invariant of `AgentLoop` therefore allows
  `MaxTurns + 1`.
- with 200 verification results, `verification_results[before..]` is empty, so a
  final diff that passed is recorded as not inspected and the gate rejects the
  completion (`InspectDiff` with `ResultsFull`).

Of the session log and the server:

- `README.md:138` says that "a crash can lose at most the final partially written
  record, which is then reported as a warning rather than silently dropped". A
  crash between a record and its newline makes the next record share its line,
  and then both, one of them acknowledged, cannot be read.
- a run that is rejected because another one is active has already replaced the
  broker's token (`server.rs:1129`), so a cancellation of the active run no
  longer reaches a prompt it waits in; the prompt ends at its deadline.
- the writer thread of a connection calls `unregister` a second time
  (`server.rs:776`) and cancels whatever run is then active, also another
  client's.
- a handler that panics never completes its cache entry, and retries of its key
  wait for ever (`server.rs:841`).
- `RuntimeClient::receive` hands out the messages kept while a response was
  awaited newest first (`client.rs:108`), and a read time-out in the middle of a
  line loses the part that was read.

Of the settings and the catalogue:

- two overlapping changes can leave the runner built for another model or mode
  than `model` and `policy` say, or undo a permission change, although "the
  runner and policy are rebuilt together" (`harness-rpc/src/lib.rs:199`).
  `LoneChangeInForce` is what holds of a change that overlaps no other.
- `permission_view` reads `.agent/policy.toml`, the engine loads
  `.agent/config.toml`.
- the preference files are truncated and then written; a crash in between loses
  them, `config.toml` with the project's rules.
- `apply_settings` registers the provider without the credential store, and a
  connect whose rebuild fails leaves the key stored and the old runner in use.
- of two refreshes the older network answer may be stored last and be stamped as
  fresh. `CacheCatchesUp` is about the file only.

Of processes, terminals and MCP:

- a descendant that ignores the signal, or left the group, keeps the pipes open,
  and the join blocks past the time-out; a kill after the reap signals a group
  number that may be in use again.
- the status `Stopping` is never set; a monitor thread that cannot be spawned
  leaves its record running for ever; `wait_for_output` may report an exit before
  the last output, and a marker split over two chunks is not found.
- the characters a read tears apart are replaced in the output of a command
  (`process.rs:813`), although the terminal keeps them (`take_complete_utf8`); the
  drop of the manager may overwrite and report anew how a process ended
  (`process.rs:464`).
- output of a terminal can follow its `Exited`; a byte that is no UTF-8 stalls the
  output until more comes; terminals that ended stay listed.
- a failure of an MCP operation is recorded after the entry was locked again and
  may close the client another operation has just opened; a call of a tool that
  is not there closes the connection; tools of a failed server stay listed; the
  number of catalogue pages has no limit; the list of resources is cut at a byte
  that need not be a character's boundary (`harness-tools/src/mcp.rs:147`).

Of the model adapters:

- Gemini's parts are merged by their position in a chunk, so text after a
  thought is lost from the response (`ThoughtSwallowsText`), and of calls that
  come in chunks of their own one is made, with the identifier of the first and
  the arguments of the last written over the earlier ones (`CallsMerged`). Calls
  that come in one chunk are kept apart.
- after a hole in the stream, what OpenAI's events told and what its last event
  has can differ, for it sends everything twice (`SaidTwice`).
- bytes that trickle in without a line end keep `read_line` from returning to
  the head of the loop, where the token and the total time are looked at; only
  silence does. `GenerateReturns` is about lines that end, silence and cuts.
- Gemini and Chat Completions accept a stream that ends without a terminal event
  once the finish reason has come; Gemini's stream refuses empty or blocked
  answers that the complete parser accepts.
- a cancellation after `ResponseCompleted` is followed by a failed event.
- the thinking of a turn that was evicted or trimmed is not replayed.

Of edits, gate and verification:

- `write_file` ignores `expected_revision` when the file has vanished;
  `create_file` reports a file as created that another program created first
  (`filesystem.rs:529`); the comparison and the rename are two steps, and what
  another program writes between them is lost. `NoLostUpdate` excludes just that
  window.
- an edit that must match "exactly once" counts matches that do not overlap;
  files with mixed line endings are normalized by any edit; a lone carriage
  return followed by a replacement that starts with a line feed merges with it.
- "ask" for a sensitive command is decided before "deny" for the network
  (`harness-policy/src/lib.rs:74` says that deny blocks); a rename without
  destination asks twice; hooks
  run before a destination is denied, although "do not run any hook until the
  requested operation is known to be permitted" (`harness-agent/src/lib.rs:3808`).
- narrowing for pytest and npm leaves out changed files without related tests;
  `src/tests/x.rs` is taken for an integration test; the path of a deleted test
  is still passed on; a limit smaller than the suffix of `bounded_string` is
  exceeded. `NarrowingIsSafe` is about Cargo and Go.

Of plan, sub-agents, context and index:

- a step that was interrupted is passed over on resumption like a blocked one
  (`ResumesWhereItStood`): `NoStepForgotten` is about the steps nobody began; a
  PLAN run that ends done marks all its steps completed, so the CODE run has none
  left (`README.md:852`); an answer in PLAN mode resets the count of revisions
  (`README.md:623`); of more than 16 steps the last 16 are kept.
- a store that fails while a batch is spawned leaves the children spawned before
  running without a settled event (`harness-agent/src/lib.rs:4167`); a
  cancellation before the first spawn returns no reports; the status "cancelled"
  covers a child's own earlier failure.
- tool results older than the last turn are neither in the history nor in the
  prompt (`docs/architecture.md:41`); output that was summarized before is not
  flagged as cut; required items may be cut to nothing when the system's
  instructions use up the budget; headings are not counted.
- `docs/architecture.md:258` says that "a short metadata refresh window catches
  external edits". The names of packages escape it in three ways: `build` reads
  the manifests before it takes their metadata; an error after a manifest was
  recorded forgets that its name is still to be read; and a manifest that is
  read for its name before it is recorded can vanish unnoticed. Files then count
  to the wrong package until another manifest changes. `PackagesFollow` excludes
  these cases by `missed`; without it TLC finds the first in fourteen steps.
- one source file that cannot be read makes every query fail; files left out for
  want of room are not taken in when room is freed; `update_changed` may exceed
  the limit of files until the next refresh.

## 5. Proofs

The theorems hold for every value of the constants that satisfies the named
assumptions of the modules, not only for the instances of section 4.

| Module | Theorem | Property | Inductive invariant |
|---|---|---|---|
| `RunsProofs` | `SingleRun` | `OneRunExecutes` | `IndInv` |
| | `GrantsAreApproved` | `GrantNeedsApproval` | |
| | `DroppedClientDenies` | `NoOrphanPrompt` | |
| | `GateKept` | `GateHolds` | `LoopInv` |
| | `BatchIsSettled` | `BatchSettled` | `BatchInv` |
| `IdempotencyProofs` | `NoConcurrentDuplicate` | `InFlightRetained` | `IndInv` |
| | `ReplayIsFaithful` | `ReplayMatchesRequest` | |
| | `RefinesOncePerKey` | `ImplementsOncePerKey` | `RefInv` |
| | `EvictionExact` | `EvictionIsExact` | `EvictionInv` |
| `ProcessesProofs` | `TableSound` | `TableIsSound` | `BgInv` |
| | `OutputComplete` | `OutputIsComplete` | `CmdInv` |
| | `LogHonest` | `LogIsHonest` | `LogInv` |
| `ServersProofs` | `EntrySound` | `EntryIsSound` | `McpInv` |
| | `TerminalFaithful` | `TerminalIsFaithful` | `TermInv` |
| `DecisionsProofs` | `EditsSafe` | `EditsAreSafe` | `EditInv` |
| | `CatalogKept` | `CatalogIsKept` | `CatalogInv` |
| | `PlanFollowed` | `PlanIsFollowed` | `PlanInv` |
| | `IndexTrue` | `IndexIsTrue` | `IndexInv` |
| | `ContextAlwaysFits` | `ContextFits` | `ContextInv` |
| `RulesProofs` | `SettingsHold` | `SettingsInForce` | `SettingsInv` |
| | `GateStrict` | `GateIsStrict` | `GateInv` |
| | `VerificationHonest` | `VerificationIsHonest` | `CheckInv` |
| `StorageProofs` | `HistoryKept` | `HistoryIsKept` | `LogInv` |
| | `UndoSafe` | `UndoIsSafe` | `UndoInv` |
| `ConnectorProofs` | `RuntimeShared` | `SharedRuntime` | `ConnInv`, with `TimeoutIsTransient = TRUE` |

Type correctness is part of each invariant; of `RunControl` and `Idempotency`
it is a theorem of its own (`TypeCorrect`), and so is `NoLeftoverApproval`
(`PendingHasWaiter`).

**RunControl.** None of the invariants is inductive alone. `IndInv` adds:

- about connections (`WriterAfterRegister`, `SenderNotCleared`): a writer exists
  only after its client was registered, and a client whose unregister has passed
  `ClearSender` is not the sender again;
- about runs (`TokenHeld`): a reader in `start_run` holds a token no worker has
  (so `BeginRun` starts a fresh worker);
- about approvals (`RequestState`, `IssuedOnly`, `PendingHasWaiter`,
  `WaitsOnClient`, `PromptCovered`, `YesIsApproved`): a run inside `request` wants
  one issued id and no two runs want the same; a pending id has a waiting run and
  an empty channel; a run that sends or waits knows its client; and, the heart of
  `NoOrphanPrompt`, a prompt that is out is *covered*: it is pending and the
  client's `deny_all` is still to come, or it has its answer.

`DroppedClientDenies` rests on the order in `unregister` (the client's sender is
cleared before `deny_all`) together with the order in `request` (the entry is
pending before the sender is read). `SingleRun`, `GrantsAreApproved` and
`NoLeftoverApproval` follow from the other parts.

**Idempotency.** The strengthening says that entries are numbered in the order
they are made, that a table slot holds an entry made for its key, that different
executing callers hold different entries, and that the entry of an executing
caller is not yet completed: this is why `Victims`, which are completed, never
include it. For the refinement `RefInv` adds that an entry nobody has completed
is that of a caller who executes it, so the executor of a key is determined;
each step of the cache is then a step of `OncePerKey`, and trimming a stutter.
For `EvictionIsExact`, `WindowInv` says by how many other keys an entry was
overtaken that is no longer in the table: a trim removes the oldest, so the keys
that stay are all newer. `CacheBounded` counts the keys in the table against the
callers at work; that needs finite sets of keys and callers
(`FiniteAssumption`).

**Runs.** `LoopInv` says where each open matter is while a run works, besides
`lost`: a failure in the map of keys, a diff nobody was shown in the task's change or in
the failure of its edit (`RunKeeps`), and while none works the texts of the
stored task tell as much (`StoreKeeps`). An end through `?` adds what the stored
task does not tell to `lost`, so no step needs a hypothesis on `AbruptErrors` or
on the number of runs. `BatchInv` says that what was
filed for a child is what it did (`FiledIsTrue`), that only children that were
spawned file (`SpawnedOnly`), and that reports are written in order.

**Processes.** `BgInv` ties the status of a handle to its child and monitor and to
the place of the drop (`HandleIsSound`): the two writers of a final status, the
monitor and the end of the manager, agree except where drop had read "running"
before the process ended. `CmdInv` accounts for every byte: for each stream
there is a number of bytes collected so far such that what was collected, what
is in the channel and what the reader holds follow each other without gaps
(`Accounted`), each read converted by itself; `EndIsReached` says that a
reader ends at an empty pipe nobody can still write to, and the tool after both
readers and the channel. For the log of a process, `Numbered` says that cursors
are consecutive, that only the first record may be cut, and that the notes add up
to what is gone.

**Session log.** `LockShape` says who writes what, `FileShape` that only the last
line can be blank or damaged, and nothing while a record is still to be written
(so whoever appends found a sound file), `AckedAreWritten` that what was acknowledged
is in the file, and `OrderKept` that a run's events stand in the file in the order
they were made, older than what flush has taken and what is still collected.

**Undo.** What an undo has loaded and checked is still what its checkpoint says.
For each file, the contents recorded by the runs whose edits still stand form a
stack: the origin of each is what the one under it left, and the top is what the
worktree holds unless somebody meddled. Undoing the newest takes off the top.

**Rules and plan.** `CheckInv` says that the reports so far are those of the
plan's first steps, stopped where one was cancelled, and that output which was
cut says so. `VerificationIsHonest` is then about the plan alone: sorting keeps
the steps (`SortedIs`) and leaves the diff last (`SortedEnds`), the target of the
changed files has a closed form (`TargetIsJoined`), what a step is narrowed to
depends on the set of changed files and not on their order, and every narrowed
step still runs the tests of each of them (`StepNarrowed`). `PlanInv` says
that a plan is worked from the front: nothing behind an open milestone was
touched, and a completed one has no pending task (`SoundList`). That steps stay
completed (`Carries`) is a fact about each of the operators.

**Index.** `BytesHeld` gives the bytes as the sum over the paths in their order,
`CalmScan` what a scan relies on while nobody else writes, and `NamesKnown` which
manifest still has the name that was read from it.

**Servers.** `McpInv` says what the holder of an entry relies on after its awaits,
the wait for a client's end among them (`HolderSees`), and that an operation which
is to record a failure has left the entry unsettled, which is why `EntryIsSettled`
speaks of the moments without one. `TermInv` adds that the flag is taken before an
end is reported. That `ValidUpTo` finds the longest whole prefix is a lemma
(`ValidIsLongest`), by the least-number principle (`FirstOf`, from the
well-foundedness of the naturals).

**Edits and catalogue.** `EditInv` says what an edit under way has loaded and
compared (`LoadHolds`, `ComparisonHolds`) and that one at most is between the
comparison and the rename; the action properties follow from it. `CatalogInv`
says who may hold the save lock, that the temporary file is the holder's own,
and that once no change waits to be saved every copy on its way to the file is
the newest (`CopiesAreNewest`): it was taken under the lock.

**Settings.** The invariant is about the call that is alone (`LoneIsTrue`): at
each of its places, what is written so far is what it asked for, and what is not
is what was there. `OverlapNoted` says that whoever began beside another is
known, `ForceKept` and `ModeHeld` what is in force when nobody is at work.
`EffortIsListed` is in the types: a configuration or preference whose effort is
not listed for its model *fits* nowhere (`Fits`). The default model has to fit
(`DefaultAssumption`): its effort comes from an environment variable the code
does not check.

**Gate.** `NoneLeft` is stronger than `NoStandingApproval`: at no time at all is
there an approval for something the policy asks about; it is stored in the step
that uses it up. `DecisionStands` says that the decision of the preflight is
what the engine still says when the call is executed, and `PromptsSoFar` who was
asked about when the call comes to a place. That a stricter mode is stricter
(`ModesOrdered`) and that order counts only between equal priorities
(`OrderIrrelevant`) are lemmas about the engine alone, for any list of rules with
any filters; both need that there is exactly one best rule (`BestRuleIsBest`).

**Context.** `RequestIsCurrent` says that the request which is out was made from
what is in force and that its history went through `Trim`; the rest is about the
operators alone, for all arguments. The shares are rounded down and a token per
result is put aside for it (`SharesFit`), so the cut history fits (`CutFits`,
`TrimFits`); without that token the sum may exceed the third. Every candidate has
one place and every place one candidate (`PlacesAre`, `RankedIs`, by the
pigeonhole principle), and the places follow priority and recency. Item by item,
what is spent stays within the budget, what is left out did not fit beside those
before it, and what is required is never left out (`AddItemFits`,
`AddedUpAlways`).

**Connector.** `LockIsHeld` places the lock file: whoever starts, publishes,
stops or clears away holds it. `NumbersAreKnown` says that a number that got
about, in the metadata, in a record read or in a connection, is that of a
runtime which announced itself, and that a runtime that still listens under such
a number is the one the metadata names; so a record read long ago and confirmed
by a health check is still the current one. `Sees` is what the lock's holder
relies on: until it has written its record, the metadata names nobody alive;
from then on they name its own runtime. `LivingAreKnown` says that a living
runtime is named by the metadata, or about to be, or its starter was killed.
Each step of a call is brought to one lemma (`OwnStepKeeps`) that says what such
a step has to respect. The hypothesis on `TimeoutIsTransient` is used in one
place, the second look: a hung runtime must not pass for a stale record. On Unix
it does, and the property is false (`connector_hung`).

**Data.** The library's induction theorems take an operator, which the provers
cannot instantiate. Where a recursive function is simple (a sum, a filter, a join
of records) the induction is by hand: the least number at which a claim fails is
none (`LeastOf`, `FirstOf`), and that a function with the given steps exists
(`StepsExist`, `SumExists`) is what makes its `CHOOSE` one.

**Assumptions.** Beyond the bounds being numbers: marks such as `NoClient`,
`NoOne`, `"free"` or `""` name no client, editor, operation or worker; the sets
counted are finite; the table of background processes has room for more records
than processes (`RecordsExceedActive`, 64 and 16 in the code); the built-in models
and the default model are well formed (`BuiltinAssumption`, `DefaultAssumption`);
rules, calls and requests have the types the parser gives them (`GateAssumption`),
and so have the workspaces, files, sizes and outputs (`WorkspaceAssumption`,
`IndexAssumption`, `SizesAssumption`, `LogAssumption`, `OutputAssumption`,
`WindowAssumption`, `InputsAssumption`). TLC evaluates each of them in the run of
its module.

**Only model-checked.** All liveness and the action properties that go with it:
fairness and `ENABLED` are out of the prover's reach. What nested recursion over
texts and streams computes (`TextEditsAreExact`, `EventsTellResponse`,
`ResponseIsTheAnswer`, `RequestIsWellFormed`) would be inductions over several
functions at once, one inside another: the parsers fold over fragments of items of
answers, the edits compose filters of positions. TLC evaluates them on every text
and answer of the bounds.

## 6. Not modelled

See `components` in `PROJECT.json`. Left out for good: rendering and argument
parsing (CLI, TUI, React components), the providers' wire formats and HTTP,
redaction and workspace detection (functions of text and files), the web and
search tools, language servers, and the evaluation script. Not modelled yet: the
RPC client, the desktop's bridge and store, the fixed endpoint of the connector,
two processes that append to one session (the code has no lock for them), `write`
and `resize` of a terminal, `recent()` over several sessions, and the read-only
views of git and of the settings.
