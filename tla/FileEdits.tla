----------------------------- MODULE FileEdits -----------------------------
(***************************************************************************)
(* The tools that edit files of the workspace: write_file, create_file,    *)
(* apply_patch, replace_text, replace_range, delete_file, rename_file, and *)
(* read_file, whose revision an edit may carry.  Every edit takes the edit *)
(* mutex of the process once its path is resolved, loads the file, plans   *)
(* the change and hands it to the execution environment, which compares    *)
(* the file with the snapshot and then puts the new contents in its place. *)
(* Editors are threads of one process (runs, sub-agents); other programs   *)
(* (the user's editor, a second runtime) write at any time and take no     *)
(* mutex.                                                                  *)
(*                                                                         *)
(* A file's contents are a set of lines.  A patch replaces one line, which *)
(* is its context; how a text is matched and re-encoded is TextEdits'.     *)
(***************************************************************************)
EXTENDS Naturals, Sequences

CONSTANTS Editors, Paths, Lines,
          Layouts,     \* sets of paths: the files there may be at the beginning
          MaxEdits,    \* edits begun by each editor
          MaxForeign   \* writes of other programs

VARIABLES disk,        \* path -> contents
          mutex,       \* the holder of EDIT_MUTEX, or NoOne
          edit,        \* editor -> the edit it is executing or executed last
          seen,        \* editor -> read_revisions: the file it read or edited last, and its revision
          stopped,     \* editors whose run is cancelled
          edits,       \* editor -> edits begun
          foreign      \* writes of other programs so far

editVars == <<disk, mutex, edit, seen, stopped, edits, foreign>>

Absent == {"no file"}
NoOne == "no one"
ASSUME NoOneAssumption == NoOne \notin Editors
Unread == {"no revision"}
Contents == SUBSET Lines
Files == Contents \cup {Absent}

\* An edit: its arguments, then what it has learnt and will do.
NothingRead == [path |-> "none", contents |-> Unread]
NoEdit == [op |-> "none", path |-> "none", to |-> "none", old |-> "none", new |-> "none", revision |-> Unread,
           pc |-> "idle", snapshot |-> Absent, update |-> Absent, raced |-> FALSE, result |-> "none", events |-> <<>>]

EditInit == /\ \E present \in Layouts : disk = [p \in Paths |-> IF p \in present THEN Lines ELSE Absent]
            /\ mutex = NoOne
            /\ edit = [e \in Editors |-> NoEdit]
            /\ seen = [e \in Editors |-> NothingRead]
            /\ stopped = {} /\ edits = [e \in Editors |-> 0] /\ foreign = 0

(***************************************************************************)
(* The tools.                                                              *)
(***************************************************************************)
\* read_file: the text and the revision of all the bytes, in one read.
ReadFile(e, p) ==
    /\ edit[e].pc \in {"idle", "done"} /\ edits[e] < MaxEdits /\ disk[p] # Absent
    /\ seen' = [seen EXCEPT ![e] = [path |-> p, contents |-> disk[p]]]
    /\ UNCHANGED <<disk, mutex, edit, stopped, edits, foreign>>

\* attach_read_revision: the edit of a file the session knows carries its revision.
AttachReadRevision(e, p) == IF seen[e].path = p THEN seen[e].contents ELSE Unread

\* Path resolution: every tool but write_file and create_file needs the file.
Resolves(op, p) == op \in {"write", "create"} \/ disk[p] # Absent
Begin(e, op, p, q, old, new, revision) ==
    /\ edit[e].pc \in {"idle", "done"} /\ edits[e] < MaxEdits /\ e \notin stopped
    /\ Resolves(op, p)
    /\ edit' = [edit EXCEPT ![e] = [NoEdit EXCEPT !.op = op, !.path = p, !.to = q, !.old = old, !.new = new,
                                                  !.revision = revision, !.pc = "lock"]]
    /\ edits' = [edits EXCEPT ![e] = @ + 1]
    /\ UNCHANGED <<disk, mutex, seen, stopped, foreign>>

BeginAny(e) ==
    \E p \in Paths : LET r == AttachReadRevision(e, p) IN
        \/ \E l \in Lines : Begin(e, "write", p, p, "none", l, r)
        \/ \E l \in Lines : Begin(e, "create", p, p, "none", l, Unread)
        \/ \E l, k \in Lines : l # k /\ Begin(e, "patch", p, p, l, k, r)
        \/ Begin(e, "delete", p, p, "none", "none", r)
        \/ \E q \in Paths \ {p} : Begin(e, "rename", p, q, "none", "none", r)

\* conflict_result, an error, or edit_result: the guard of the mutex is dropped.
Ended(e, result, events) ==
    [edit EXCEPT ![e] = [NoEdit EXCEPT !.pc = "done", !.result = result, !.events = events]]
Return(e, result) == edit' = Ended(e, result, <<>>) /\ mutex' = NoOne

\* stale_revision; write_file looks at the revision of a file that exists only.
StaleRevision(d, loaded) == d.revision # Unread /\ loaded # Absent /\ d.revision # loaded

\* What each tool finds under the mutex: an answer that ends it, or "go on".
CreateVerdict(d, loaded) == IF loaded # Absent THEN "stale" ELSE "go on"
WriteVerdict(d, loaded) == IF StaleRevision(d, loaded) THEN "stale" ELSE "go on"
DeleteVerdict(d, loaded) == IF StaleRevision(d, loaded) THEN "stale" ELSE "go on"
PatchVerdict(d, loaded) == IF StaleRevision(d, loaded) \/ d.old \notin loaded THEN "stale" ELSE "go on"
RenameVerdict(d, loaded) == IF StaleRevision(d, loaded) \/ disk[d.to] # Absent THEN "stale" ELSE "go on"
Verdict(d) ==
    LET loaded == disk[d.path] IN
    CASE d.op = "create" -> CreateVerdict(d, loaded)
      [] d.op = "write" -> WriteVerdict(d, loaded)
      [] d.op \in {"patch", "delete", "rename"} /\ loaded = Absent -> "error"       \* load_editable
      [] d.op = "patch" /\ loaded # Absent -> PatchVerdict(d, loaded)
      [] d.op = "delete" /\ loaded # Absent -> DeleteVerdict(d, loaded)
      [] d.op = "rename" /\ loaded # Absent -> RenameVerdict(d, loaded)

\* The contents the edit leaves at its path (at d.to for a rename).
Planned(d) ==
    CASE d.op \in {"write", "create"} -> {d.new}
      [] d.op = "patch" -> (disk[d.path] \ {d.old}) \cup {d.new}
      [] d.op = "rename" -> disk[d.path]
      [] d.op = "delete" -> Absent

LockAndLoad(e) ==
    /\ edit[e].pc = "lock" /\ mutex = NoOne
    /\ \/ /\ Verdict(edit[e]) # "go on"
          /\ Return(e, Verdict(edit[e]))
       \/ /\ Verdict(edit[e]) = "go on"
          /\ mutex' = e
          /\ edit' = [edit EXCEPT ![e].pc = "commit", ![e].snapshot = disk[edit[e].path],
                                  ![e].update = Planned(edit[e])]
    /\ UNCHANGED <<disk, seen, stopped, edits, foreign>>

\* The environment creates without replacing; otherwise it compares first.
Creates(d) == d.snapshot = Absent
\* Mutant: the comparison with the snapshot left out.
UnchangedUnchecked(d) == d.op = "rename" => disk[d.to] = Absent
Unchanged(d) == disk[d.path] = d.snapshot /\ (d.op = "rename" => disk[d.to] = Absent)

\* ensure_edit_not_cancelled, then the environment's comparison.
CompareSnapshot(e) ==
    /\ edit[e].pc = "commit"
    /\ \/ e \in stopped /\ Return(e, "error")
       \/ /\ e \notin stopped /\ ~Creates(edit[e]) /\ ~Unchanged(edit[e])
          /\ Return(e, "concurrent_modification")
       \/ /\ e \notin stopped /\ (Creates(edit[e]) \/ Unchanged(edit[e]))
          /\ edit' = [edit EXCEPT ![e].pc = "persist"]
          /\ UNCHANGED mutex
    /\ UNCHANGED <<disk, seen, stopped, edits, foreign>>

\* update_read_revisions, after an edit that succeeded.
UpdateReadRevisions(e) ==
    LET d == edit[e] IN
    seen' = IF edit'[e].result # "changed" THEN seen
            ELSE [seen EXCEPT ![e] = IF d.op = "delete" THEN NothingRead ELSE [path |-> d.to, contents |-> d.update]]

FileChanged(path, change) == [path |-> path, change |-> change]

\* persist_noclobber.  write_file looks at the answer, create_file does not.
PersistNew(e) ==
    LET d == edit[e] IN
    /\ d.pc = "persist" /\ Creates(d)
    /\ disk' = IF disk[d.path] = Absent THEN [disk EXCEPT ![d.path] = d.update] ELSE disk
    /\ edit' = IF d.op = "write" /\ disk[d.path] # Absent
               THEN Ended(e, "concurrent_modification", <<>>)
               ELSE Ended(e, "changed", <<FileChanged(d.path, "added")>>)
    /\ mutex' = NoOne
    /\ UpdateReadRevisions(e) /\ UNCHANGED <<stopped, edits, foreign>>

\* The temporary file is renamed over the path, whatever is there now.
PersistOver(e) ==
    LET d == edit[e] IN
    /\ d.pc = "persist" /\ ~Creates(d) /\ d.op \in {"write", "patch"}
    /\ disk' = [disk EXCEPT ![d.path] = d.update]
    /\ edit' = Ended(e, "changed", <<FileChanged(d.path, "modified")>>)
    /\ mutex' = NoOne
    /\ UpdateReadRevisions(e) /\ UNCHANGED <<stopped, edits, foreign>>

\* remove_file and rename fail when the file has gone.
PersistRemoval(e) ==
    LET d == edit[e] IN
    /\ d.pc = "persist" /\ d.op \in {"delete", "rename"}
    /\ \/ /\ disk[d.path] = Absent
          /\ Return(e, "error") /\ UNCHANGED disk
       \/ /\ disk[d.path] # Absent /\ d.op = "delete"
          /\ disk' = [disk EXCEPT ![d.path] = Absent]
          /\ edit' = Ended(e, "changed", <<FileChanged(d.path, "deleted")>>) /\ mutex' = NoOne
       \/ /\ disk[d.path] # Absent /\ d.op = "rename"
          /\ disk' = [disk EXCEPT ![d.path] = Absent, ![d.to] = disk[d.path]]
          /\ edit' = Ended(e, "changed", <<FileChanged(d.path, "deleted"), FileChanged(d.to, "added")>>)
          /\ mutex' = NoOne
    /\ UpdateReadRevisions(e) /\ UNCHANGED <<stopped, edits, foreign>>

Persist(e) == PersistNew(e) \/ PersistOver(e) \/ PersistRemoval(e)

CancelRun(e) ==
    /\ e \notin stopped /\ edit[e].pc \in {"lock", "commit", "persist"}
    /\ stopped' = stopped \cup {e}
    /\ UNCHANGED <<disk, mutex, edit, seen, edits, foreign>>

\* Another program empties, creates or removes a file; raced marks the edits whose
\* comparison is behind them.
ForeignWrite(p, c) ==
    /\ foreign < MaxForeign /\ disk[p] # c
    /\ disk' = [disk EXCEPT ![p] = c]
    /\ edit' = [e \in Editors |-> [edit[e] EXCEPT !.raced = @ \/ (edit[e].pc = "persist" /\ p \in {edit[e].path, edit[e].to})]]
    /\ foreign' = foreign + 1
    /\ UNCHANGED <<mutex, seen, stopped, edits>>

EditStep(e) == LockAndLoad(e) \/ CompareSnapshot(e) \/ Persist(e)
EditNext == \/ \E e \in Editors : BeginAny(e) \/ EditStep(e) \/ CancelRun(e)
            \/ \E e \in Editors, p \in Paths : ReadFile(e, p)
            \/ \E p \in Paths, c \in {Absent, {}} : ForeignWrite(p, c)

EditSpec == EditInit /\ [][EditNext]_editVars

(***************************************************************************)
(* Properties.                                                             *)
(***************************************************************************)
Commits(e) == edit[e].pc = "persist" /\ edit'[e].pc = "done"

\* No edit is lost: the contents an edit replaces, moves or removes are those
\* it loaded, and it replaces none where it loaded none, unless another
\* program wrote in the instant between the comparison and the rename
\* (EDIT_MUTEX, the expected_contents of write_workspace_file_atomic).
NoLostUpdate ==
    [][\A e \in Editors : Commits(e) /\ disk' # disk =>
           LET d == edit[e] IN d.raced \/ (disk[d.path] = d.snapshot /\ (d.to # d.path => disk[d.to] = Absent))]_editVars

\* An edit that carries a revision changes the file only as it was when this
\* editor read that revision; a file that vanished has nothing to protect
\* (stale_revision, content_revision).
RevisionProtects ==
    [][\A e \in Editors : Commits(e) /\ disk' # disk /\ edit[e].revision # Unread /\ ~edit[e].raced =>
           disk[edit[e].path] \in {edit[e].revision, Absent}]_editVars

\* The session log tells the truth about the disk: a file changes under a tool
\* only in a step that reports it with a FileChanged event, and an edit that
\* answers with a conflict or an error has changed nothing.
ChangesAreReported ==
    [][disk' # disk /\ foreign' = foreign =>
           \E e \in Editors : /\ edit'[e].result = "changed" /\ Commits(e)
                              /\ {p \in Paths : disk'[p] # disk[p]} \subseteq
                                     {edit'[e].events[i].path : i \in DOMAIN edit'[e].events}]_editVars

\* Nobody waits for an edit that is over: whoever holds EDIT_MUTEX is on its way to a commit, for
\* the guard is dropped on every path, conflicts, errors and cancellation included.
MutexIsReleased == \A e \in Editors : mutex = e <=> edit[e].pc \in {"commit", "persist"}

\* An edit replaces what it read and no other program's work, reports what it
\* changed, and gives the mutex back (EDIT_MUTEX, write_workspace_file_atomic).
EditsAreSafe == []MutexIsReleased /\ NoLostUpdate /\ RevisionProtects /\ ChangesAreReported
=============================================================================
