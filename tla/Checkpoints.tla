---------------------------- MODULE Checkpoints ----------------------------
(***************************************************************************)
(* Shadow checkpoints and undo (crates/harness-git/src/lib.rs), as the     *)
(* agent loop records them and the CLI and RPC clients undo them.          *)
(*                                                                         *)
(* A run creates a checkpoint, the contents of the files git lists, before *)
(* its first tool call.  After a tool call it records what each changed    *)
(* file holds now.  An undo loads a checkpoint by its id, compares every   *)
(* recorded file with the worktree, and, if all of them match, writes the  *)
(* baseline back, file by file.  Nothing locks the worktree or the         *)
(* checkpoint files: a person, a formatter, an after-edit hook and another *)
(* undo interleave with every step, and undo is not refused during a run.  *)
(* fs::write truncates before it writes, so what a failure or a crash      *)
(* interrupts leaves a torn file.                                          *)
(*                                                                         *)
(* A content stands for the bytes and the executable bit of a file and     *)
(* names its writer; two writes never produce the same content, but a file *)
(* may be absent again and again.  One run is active at a time.            *)
(***************************************************************************)
EXTENDS Naturals, FiniteSets

CONSTANTS
    Files,       \* paths of the repository
    Listed,      \* those git ls-files lists: not ignored
    Present,     \* those that exist in the beginning
    Undoers,     \* threads and processes that undo
    MaxRuns,     \* bound: runs, each with its checkpoint
    MaxEdits,    \* bound: tool calls that change files
    MaxOthers,   \* bound: writes of other programs and people
    MaxUndos     \* bound: undos

ASSUME CheckpointAssumption ==
    /\ Listed \subseteq Files /\ Present \subseteq Files
    /\ {MaxRuns, MaxEdits, MaxOthers, MaxUndos} \subseteq Nat

Absent == [by |-> "nobody", n |-> 0]
Original == [by |-> "before", n |-> 0]
Large == [by |-> "other", n |-> 0]      \* more than 10 MiB, or a symlink
Torn == [by |-> "undo", n |-> 0]
Contents == {Absent, Original, Large, Torn}
            \cup [by : {"agent"}, n : 1 .. MaxEdits]
            \cup [by : {"other"}, n : 1 .. MaxOthers]

Ids == 1 .. MaxRuns
Empty == [f \in {} |-> Absent]
Partial == UNION {[S -> Contents] : S \in SUBSET Files}
CheckpointFiles == [state : {"missing", "torn", "whole"},
                    baseline : Partial, recorded : Partial]
Missing == [state |-> "missing", baseline |-> Empty, recorded |-> Empty]
TornFile == [Missing EXCEPT !.state = "torn"]

VARIABLES
    tree,      \* the worktree
    first,     \* history: the worktree at the beginning
    disk,      \* the checkpoint files
    active,    \* the active run: pc, its checkpoint, paths to record, checkpoint in memory
    undo,      \* the undo calls
    runs, edits, others, undos,
    origin,    \* history: the worktree when a checkpoint was created
    live,      \* history: files recorded in a checkpoint and not restored from it since
    meddled    \* history: files that something other than recorded edits and
               \* undos, newest first, has changed

history == <<first, origin, live, meddled>>
undoVars == <<tree, first, disk, active, undo, runs, edits, others, undos, origin, live, meddled>>

NoRun == [pc |-> "idle", id |-> 0, todo |-> {}, memory |-> Missing]
NoUndo == [pc |-> "idle", id |-> 0, checkpoint |-> Missing, todo |-> {},
           conflicts |-> {}, before |-> Empty, disturbed |-> {}]

UndoInit ==
    /\ tree = [f \in Files |-> IF f \in Present THEN Original ELSE Absent]
    /\ first = tree
    /\ disk = [k \in Ids |-> Missing]
    /\ active = NoRun
    /\ undo = [u \in Undoers |-> NoUndo]
    /\ runs = 0 /\ edits = 0 /\ others = 0 /\ undos = 0
    /\ origin = [k \in Ids |-> first]
    /\ live = [k \in Ids |-> {}]
    /\ meddled = {}

-----------------------------------------------------------------------------
(* The calls of V that are under way when others write the files F.        *)
Disturbed(V, F) ==
    [v \in Undoers |-> IF v \in V /\ undo[v].pc # "idle"
                       THEN [undo[v] EXCEPT !.disturbed = @ \cup F]
                       ELSE undo[v]]

(* snapshot_file of each path.                                             *)
Snapshot(F) == [f \in F |-> tree[f]]

(* What snapshot_file refuses.                                             *)
Refused(f) == tree[f] = Large

(* create_checkpoint: a snapshot of every listed file, then persist.  A    *)
(* file that is refused makes the call, and with it the run, fail.         *)
Create ==
    /\ active.pc = "idle" /\ runs < MaxRuns
    /\ runs' = runs + 1
    /\ \/ (\E f \in Listed : Refused(f)) /\ UNCHANGED <<active, disk>>
       \/ /\ \A f \in Listed : ~Refused(f)
          /\ active' = [pc |-> "persist", id |-> runs + 1, todo |-> {},
                     memory |-> [state |-> "whole", baseline |-> Snapshot(Listed),
                                 recorded |-> Empty]]
          /\ disk' = [disk EXCEPT ![runs + 1] = TornFile]
    /\ origin' = [origin EXCEPT ![runs + 1] = tree]
    /\ UNCHANGED <<tree, first, undo, edits, others, undos, live, meddled>>

(* A tool call of the run changes files or deletes them.                   *)
AgentEdit ==
    /\ active.pc = "ready" /\ edits < MaxEdits
    /\ edits' = edits + 1
    /\ \E F \in SUBSET Files \ {{}}, new \in {Absent, [by |-> "agent", n |-> edits + 1]} :
         /\ \A f \in F : tree[f] # new
         /\ tree' = [f \in Files |-> IF f \in F THEN new ELSE tree[f]]
         /\ active' = [active EXCEPT !.pc = "record", !.todo = F]
         /\ undo' = Disturbed(Undoers, F)
    /\ UNCHANGED <<disk, runs, others, undos, history>>

(* A mistake to check UndoStack with: a path that is recorded already      *)
(* keeps its first snapshot.                                               *)
WithRecordOnce(recorded, f) ==
    [g \in DOMAIN recorded \cup {f} |->
       IF g \in DOMAIN recorded THEN recorded[g] ELSE tree[f]]

(* recorded_changes.insert(relative, snapshot)                             *)
WithRecord(recorded, f) ==
    [g \in DOMAIN recorded \cup {f} |-> IF g = f THEN tree[f] ELSE recorded[g]]

(* record_harness_change of one changed path: load, snapshot, and persist, *)
(* which truncates the file first.  An error ends the run.                 *)
Record ==
    /\ active.pc = "record"
    /\ \E f \in active.todo :
         /\ ~Refused(f)
         /\ disk[active.id].state = "whole"
         /\ active' = [active EXCEPT !.pc = "persist", !.todo = @ \ {f},
                              !.memory = [disk[active.id] EXCEPT !.recorded = WithRecord(@, f)]]
         /\ disk' = [disk EXCEPT ![active.id] = TornFile]
         /\ live' = [live EXCEPT ![active.id] = @ \cup {f}]
    /\ UNCHANGED <<tree, first, undo, runs, edits, others, undos, origin, meddled>>

(* persist has written the file.                                           *)
Persisted ==
    /\ active.pc = "persist"
    /\ disk' = [disk EXCEPT ![active.id] = active.memory]
    /\ active' = [active EXCEPT !.pc = IF active.todo = {} THEN "ready" ELSE "record",
                         !.memory = Missing]
    /\ UNCHANGED <<tree, undo, runs, edits, others, undos, history>>

(* The run returns, fails or dies, at any point.  Paths it had not         *)
(* recorded stay as they are, and a checkpoint it was writing stays torn.  *)
RunStops ==
    /\ active.pc # "idle"
    /\ active' = NoRun
    /\ meddled' = meddled \cup active.todo
                  \cup (IF active.pc = "persist" THEN live[active.id] ELSE {})
    /\ UNCHANGED <<tree, first, disk, undo, runs, edits, others, undos, origin, live>>

(* A person, a formatter or a hook writes a file, makes it too large to    *)
(* snapshot, or deletes it.                                                *)
OtherWrite ==
    /\ others < MaxOthers
    /\ others' = others + 1
    /\ \E f \in Files, new \in {Absent, Large, [by |-> "other", n |-> others + 1]} :
         /\ tree[f] # new
         /\ tree' = [tree EXCEPT ![f] = new]
         /\ meddled' = meddled \cup {f}
         /\ undo' = Disturbed(Undoers, {f})
    /\ UNCHANGED <<disk, active, runs, edits, undos, first, origin, live>>

-----------------------------------------------------------------------------
(* undo: load by id.  A torn file does not parse.                          *)
Load(u) ==
    /\ undo[u].pc = "idle" /\ undos < MaxUndos
    /\ undos' = undos + 1
    /\ \E k \in Ids :
         /\ disk[k].state # "missing"
         /\ undo' = IF disk[k].state = "whole"
                    THEN [undo EXCEPT ![u] = [NoUndo EXCEPT
                            !.pc = "check", !.id = k, !.checkpoint = disk[k],
                            !.todo = DOMAIN disk[k].recorded, !.before = tree]]
                    ELSE undo
    /\ UNCHANGED <<tree, disk, active, runs, edits, others, history>>

(* recorded_changes is a BTreeMap: both loops take its paths in one order. *)
FirstPath(F) == CHOOSE f \in F : TRUE

(* The worktree has what the harness left behind.                          *)
Matches(u, f) == tree[f] = undo[u].checkpoint.recorded[f]

(* restore, first loop.                                                    *)
Check(u) ==
    /\ undo[u].pc = "check" /\ undo[u].todo # {}
    /\ LET f == FirstPath(undo[u].todo) IN
         undo' = [undo EXCEPT ![u] =
                    IF Refused(f) THEN NoUndo
                    ELSE [undo[u] EXCEPT !.todo = @ \ {f},
                                         !.conflicts = IF Matches(u, f) THEN @ ELSE @ \cup {f}]]
    /\ UNCHANGED <<tree, disk, active, runs, edits, others, undos, history>>

(* RestoreConflict, or on to the second loop.                              *)
Decide(u) ==
    /\ undo[u].pc = "check" /\ undo[u].todo = {}
    /\ undo' = [undo EXCEPT
                  ![u].pc = IF undo[u].conflicts = {} THEN "write" ELSE "conflict",
                  ![u].todo = IF undo[u].conflicts = {} THEN DOMAIN undo[u].checkpoint.recorded
                              ELSE {}]
    /\ UNCHANGED <<tree, disk, active, runs, edits, others, undos, history>>

(* What restore makes of a path: its baseline, or no file.                 *)
Baseline(checkpoint, f) ==
    IF f \in DOMAIN checkpoint.baseline THEN checkpoint.baseline[f] ELSE Absent

(* History: f is restored from checkpoint k while a newer run's edit of it *)
(* stands, or may come; once more, after its edits by k have been undone;  *)
(* or to what it was not, for the checkpoint does not know the files git   *)
(* ignores.                                                                *)
OutOfOrder(u, f) ==
    LET k == undo[u].id
        new == Baseline(undo[u].checkpoint, f) IN
    \/ \E j \in Ids : j > k /\ f \in live[j]
    \/ active.pc # "idle" /\ active.id > k
    \/ f \notin live[k] \cup active.todo /\ tree[f] # new
    \/ new # origin[k][f]

Restored(u, f, new) ==
    /\ tree' = [tree EXCEPT ![f] = new]
    /\ live' = [live EXCEPT ![undo[u].id] = @ \ {f}]

(* restore, second loop: one path.                                         *)
Restore(u) ==
    /\ undo[u].pc = "write" /\ undo[u].todo # {}
    /\ LET f == FirstPath(undo[u].todo) IN
         /\ Restored(u, f, Baseline(undo[u].checkpoint, f))
         /\ undo' = [Disturbed(Undoers \ {u}, {f}) EXCEPT ![u].todo = @ \ {f}]
         /\ meddled' = IF OutOfOrder(u, f) THEN meddled \cup {f} ELSE meddled
    /\ UNCHANGED <<disk, active, runs, edits, others, undos, first, origin>>

(* The write of a path is interrupted: the file is torn, the call ends.    *)
RestoreTorn(u) ==
    /\ undo[u].pc = "write" /\ undo[u].todo # {}
    /\ LET f == FirstPath(undo[u].todo) IN
         /\ Baseline(undo[u].checkpoint, f) # Absent
         /\ Restored(u, f, Torn)
         /\ undo' = [Disturbed(Undoers \ {u}, {f}) EXCEPT ![u] = NoUndo]
         /\ meddled' = meddled \cup {f}
    /\ UNCHANGED <<disk, active, runs, edits, others, undos, first, origin>>

(* The report of a restore.                                                *)
Report(u) ==
    /\ undo[u].pc = "write" /\ undo[u].todo = {}
    /\ undo' = [undo EXCEPT ![u].pc = "restored"]
    /\ UNCHANGED <<tree, disk, active, runs, edits, others, undos, history>>

(* An error ends the call between two paths, or its caller has the result. *)
UndoStops(u) ==
    /\ undo[u].pc # "idle"
    /\ undo' = [undo EXCEPT ![u] = NoUndo]
    /\ UNCHANGED <<tree, disk, active, runs, edits, others, undos, history>>

UndoNext ==
    \/ Create \/ AgentEdit \/ Record \/ Persisted \/ RunStops \/ OtherWrite
    \/ \E u \in Undoers : \/ Load(u) \/ Check(u) \/ Decide(u) \/ Restore(u)
                           \/ RestoreTorn(u) \/ Report(u) \/ UndoStops(u)

UndoSpec == UndoInit /\ [][UndoNext]_undoVars

-----------------------------------------------------------------------------
(* Types: among them, a checkpoint records only what it has a file for,    *)
(* and a run that is recording finds its checkpoint whole.                 *)
UndoTypeOK ==
    /\ tree \in [Files -> Contents] /\ first \in [Files -> Contents]
    /\ disk \in [Ids -> CheckpointFiles]
    /\ active.pc \in {"idle", "persist", "ready", "record"}
    /\ active.id \in 0 .. MaxRuns /\ active.todo \subseteq Files
    /\ active.memory \in CheckpointFiles
    /\ active.pc \in {"ready", "record"} => disk[active.id].state = "whole"
    /\ \A u \in Undoers :
         /\ undo[u].pc \in {"idle", "check", "write", "conflict", "restored"}
         /\ undo[u].checkpoint \in CheckpointFiles
         /\ undo[u].todo \cup undo[u].conflicts \subseteq DOMAIN undo[u].checkpoint.recorded
         /\ undo[u].disturbed \subseteq Files
    /\ runs \in 0 .. MaxRuns /\ edits \in 0 .. MaxEdits
    /\ others \in 0 .. MaxOthers /\ undos \in 0 .. MaxUndos
    /\ origin \in [Ids -> [Files -> Contents]]
    /\ live \in [Ids -> SUBSET Files] /\ meddled \subseteq Files

(* A checkpoint covers a file unless git ignored it when it was there.     *)
Covered(k, f) == f \in Listed \/ origin[k][f] = Absent

(* An undo that reports success has brought every recorded file back to    *)
(* what it was when the checkpoint was created, the dirty worktree         *)
(* included, and has left every other file alone; one that reports a       *)
(* conflict has changed nothing.  Files that others wrote while the call   *)
(* ran are theirs (ShadowCheckpointStore::restore).                        *)
UndoExact ==
    \A u \in Undoers, f \in Files :
      LET recorded == f \in DOMAIN undo[u].checkpoint.recorded
          k == undo[u].id IN
      /\ undo[u].pc = "restored" /\ recorded /\ Covered(k, f)
           => f \in undo[u].disturbed \/ tree[f] = origin[k][f]
      /\ \/ undo[u].pc = "restored" /\ ~recorded
         \/ undo[u].pc \in {"check", "conflict"}
           => f \in undo[u].disturbed \/ tree[f] = undo[u].before[f]

(* Undo replaces contents somebody else wrote only in two cases: they were *)
(* written after the undo began, or before record_harness_change took the  *)
(* snapshot, which then attributes them to the harness.                    *)
UserWorkKept ==
    [][\A u \in Undoers, f \in Files :
         /\ undo[u].pc = "write"
         /\ f \in undo[u].todo /\ f \notin undo'[u].todo
         /\ tree[f].by = "other" /\ tree'[f] # tree[f]
         => f \in undo[u].disturbed \/ undo[u].checkpoint.recorded[f] = tree[f]]_undoVars

(* The newest run whose edit of f is recorded and not undone.              *)
Holders(f) == {k \in Ids : f \in live[k]}
Newest(S) == CHOOSE k \in S : \A j \in S : j <= k
RecordOf(k) == IF active.pc = "persist" /\ active.id = k THEN active.memory ELSE disk[k]

(* Undos taken newest first compose.  A file that only recorded edits and  *)
(* such undos have touched holds what the newest run that is not undone    *)
(* left in it, so that the next undo does not conflict on it, and its      *)
(* first content when all are undone: through undos during a run, undos    *)
(* that fail half way, and runs that stop (create, record, restore).       *)
UndoStack ==
    \A f \in Files \ (meddled \cup active.todo) :
      tree[f] = IF Holders(f) = {} THEN first[f]
                ELSE RecordOf(Newest(Holders(f))).recorded[f]

\* Undo gives back what was there before the run; undos taken newest first
\* compose, through failures; and it keeps what others wrote (create_checkpoint, restore).
UndoIsSafe == [](UndoTypeOK /\ UndoExact /\ UndoStack) /\ UserWorkKept
=============================================================================
