--------------------------- MODULE DecisionsProofs ---------------------------
(***************************************************************************)
(* Proofs about the files and the settings the program changes: edits of   *)
(* any number of editors on any files, with other programs writing at any  *)
(* time, and the catalogue of models that any number of threads refresh;   *)
(* about the plan a task carries over any number of runs; about the index  *)
(* of a workspace that other programs change while it is scanned; and      *)
(* about the prompt and the history each request shows the model.          *)
(***************************************************************************)
EXTENDS FileEdits, Catalog, ExecutionPlan, RepositoryIndex, ContextWindow, FiniteSetTheorems, WellFoundedInduction, TLAPS

Ops == {"write", "create", "patch", "delete", "rename"}
(* Contents, with the marks for no file and no revision.                   *)
Values == SUBSET (Lines \cup {"none", "no file", "no revision"})
Changes == [path : Paths \cup {"none"}, change : {"added", "modified", "deleted"}]
EditRecords ==
  [op : Ops \cup {"none"}, path : Paths \cup {"none"}, to : Paths \cup {"none"}, old : Lines \cup {"none"},
   new : Lines \cup {"none"}, revision : Values, pc : {"idle", "lock", "commit", "persist", "done"}, snapshot : Values,
   update : Values, raced : BOOLEAN, result : {"none", "changed", "stale", "error", "concurrent_modification"},
   events : Seq(Changes)]

EditTypeOK ==
  /\ disk \in [Paths -> Values]
  /\ edit \in [Editors -> EditRecords]
  /\ seen \in [Editors -> [path : Paths \cup {"none"}, contents : Values]]
  /\ foreign \in Nat

(* The arguments of an edit under way.                                     *)
ArgumentsHold(d) ==
  d.pc \in {"lock", "commit", "persist"} =>
    /\ d.op \in Ops /\ d.path \in Paths /\ d.to \in Paths
    /\ d.op = "rename" <=> d.to # d.path
    /\ d.op = "create" => d.revision = Unread

(* What an edit that holds the mutex has found in its file.                *)
LoadHolds(d) ==
  d.pc \in {"commit", "persist"} =>
    /\ d.op = "create" => d.snapshot = Absent
    /\ d.op \in {"patch", "delete", "rename"} => d.snapshot # Absent
    /\ d.revision # Unread /\ d.snapshot # Absent => d.revision = d.snapshot

(* After the comparison the file is as it was loaded, unless another       *)
(* program wrote since.                                                    *)
ComparisonHolds(d) ==
  d.pc = "persist" /\ ~d.raced /\ d.snapshot # Absent =>
    disk[d.path] = d.snapshot /\ (d.op = "rename" => disk[d.to] = Absent)

EditInv == /\ EditTypeOK /\ MutexIsReleased
           /\ \A e \in Editors : ArgumentsHold(edit[e]) /\ LoadHolds(edit[e]) /\ ComparisonHolds(edit[e])

(* How an edit ends: an idle record with the answer in it.                 *)
LEMMA EndedShape ==
  ASSUME EditTypeOK, NEW e \in Editors,
         NEW answer \in {"none", "changed", "stale", "error", "concurrent_modification"}, NEW events \in Seq(Changes)
  PROVE  /\ Ended(e, answer, events) \in [Editors -> EditRecords]
         /\ Ended(e, answer, events)[e].pc = "done"
         /\ Ended(e, answer, events)[e].result = answer
         /\ Ended(e, answer, events)[e].events = events
         /\ \A k \in Editors \ {e} : Ended(e, answer, events)[k] = edit[k]
<1>1. NoEdit \in EditRecords
  <2>1. Absent \in Values /\ Unread \in Values
    BY DEF Values, Absent, Unread
  <2>2. <<>> \in Seq(Changes)
    OBVIOUS
  <2> QED BY <2>1, <2>2 DEF NoEdit, EditRecords
<1> DEFINE r == [NoEdit EXCEPT !.pc = "done", !.result = answer, !.events = events]
<1>2. r \in EditRecords /\ r.pc = "done" /\ r.result = answer /\ r.events = events
  BY <1>1 DEF EditRecords
<1>3. Ended(e, answer, events) = [edit EXCEPT ![e] = r]
  BY DEF Ended
<1> HIDE DEF r
<1> QED BY <1>2, <1>3 DEF EditTypeOK

(* An edit that ends without a change leaves the invariant, and the mutex. *)
LEMMA ReturnKeeps ==
  ASSUME EditInv, NEW e \in Editors, (edit[e].pc = "lock" /\ mutex = NoOne) \/ edit[e].pc \in {"commit", "persist"},
         NEW answer \in {"none", "changed", "stale", "error", "concurrent_modification"}, NEW events \in Seq(Changes),
         edit' = Ended(e, answer, events), mutex' = NoOne,
         disk' \in [Paths -> Values], seen' \in [Editors -> [path : Paths \cup {"none"}, contents : Values]],
         foreign' = foreign, edit[e].pc # "persist" => disk' = disk
  PROVE  EditInv' /\ edit'[e].pc = "done" /\ edit'[e].result = answer /\ edit'[e].events = events
<1>1. /\ edit' \in [Editors -> EditRecords] /\ edit'[e].pc = "done" /\ edit'[e].result = answer /\ edit'[e].events = events
      /\ \A k \in Editors \ {e} : edit'[k] = edit[k]
  BY EndedShape DEF EditInv
<1>2. \A k \in Editors \ {e} : edit[k].pc \notin {"commit", "persist"}
  BY NoOneAssumption DEF EditInv, MutexIsReleased
<1>3. EditTypeOK'
  BY <1>1 DEF EditInv, EditTypeOK
<1>4. MutexIsReleased'
  BY <1>1, <1>2, NoOneAssumption DEF MutexIsReleased
<1>5. ASSUME NEW k \in Editors PROVE ArgumentsHold(edit[k])' /\ LoadHolds(edit[k])' /\ ComparisonHolds(edit[k])'
  <2>1. CASE k = e
    BY <1>1, <2>1 DEF ArgumentsHold, LoadHolds, ComparisonHolds
  <2>2. CASE k # e
    <3>1. edit'[k] = edit[k] /\ edit[k].pc # "persist" /\ ArgumentsHold(edit[k]) /\ LoadHolds(edit[k])
      BY <1>1, <1>2, <2>2 DEF EditInv
    <3> QED BY <3>1 DEF ArgumentsHold, LoadHolds, ComparisonHolds
  <2> QED BY <2>1, <2>2
<1> QED BY <1>1, <1>3, <1>4, <1>5 DEF EditInv

(* What the three action properties ask of one step.                       *)
KeepsUpdates ==
  \A e \in Editors : Commits(e) /\ disk' # disk =>
     LET d == edit[e] IN d.raced \/ (disk[d.path] = d.snapshot /\ (d.to # d.path => disk[d.to] = Absent))
RespectsRevisions ==
  \A e \in Editors : Commits(e) /\ disk' # disk /\ edit[e].revision # Unread /\ ~edit[e].raced =>
     disk[edit[e].path] \in {edit[e].revision, Absent}
ReportsChanges ==
  disk' # disk /\ foreign' = foreign =>
     \E e \in Editors : /\ edit'[e].result = "changed" /\ Commits(e)
                        /\ {p \in Paths : disk'[p] # disk[p]} \subseteq
                               {edit'[e].events[i].path : i \in DOMAIN edit'[e].events}
StepIsSafe == KeepsUpdates /\ RespectsRevisions /\ ReportsChanges

(* At the beginning no edit is under way.                                  *)
LEMMA EditInitInv == EditInit => EditInv
<1> SUFFICES ASSUME EditInit PROVE EditInv
  OBVIOUS
<1>1. Absent \in Values /\ Unread \in Values /\ Lines \in Values
  BY DEF Values, Absent, Unread
<1>2. NoEdit \in EditRecords /\ NoEdit.pc = "idle"
  <2>1. <<>> \in Seq(Changes)
    OBVIOUS
  <2> QED BY <1>1, <2>1 DEF NoEdit, EditRecords
<1>3. disk \in [Paths -> Values]
  BY <1>1 DEF EditInit
<1>4. seen \in [Editors -> [path : Paths \cup {"none"}, contents : Values]]
  BY <1>1 DEF EditInit, NothingRead
<1>5. \A e \in Editors : edit[e] = NoEdit
  BY DEF EditInit
<1>6. EditTypeOK
  BY <1>2, <1>3, <1>4 DEF EditInit, EditTypeOK
<1>7. MutexIsReleased
  BY <1>2, <1>5, NoOneAssumption DEF EditInit, MutexIsReleased
<1>8. \A e \in Editors : ArgumentsHold(edit[e]) /\ LoadHolds(edit[e]) /\ ComparisonHolds(edit[e])
  BY <1>2, <1>5 DEF ArgumentsHold, LoadHolds, ComparisonHolds
<1> QED BY <1>6, <1>7, <1>8 DEF EditInv

(* A step that changes the record of one editor and leaves the disk: the   *)
(* invariant follows from what it says of that editor.                     *)
LEMMA OneEditor ==
  ASSUME EditInv, NEW e \in Editors, NEW r \in EditRecords, edit' = [edit EXCEPT ![e] = r],
         disk' = disk, foreign' = foreign,
         seen' \in [Editors -> [path : Paths \cup {"none"}, contents : Values]],
         \A k \in Editors \ {e} : (mutex' = k) = (mutex = k),
         mutex' = e <=> r.pc \in {"commit", "persist"},
         ArgumentsHold(r), LoadHolds(r), ComparisonHolds(r)
  PROVE  EditInv'
<1>1. edit' \in [Editors -> EditRecords] /\ edit'[e] = r /\ \A k \in Editors \ {e} : edit'[k] = edit[k]
  BY DEF EditInv, EditTypeOK
<1>2. EditTypeOK'
  BY <1>1 DEF EditInv, EditTypeOK
<1>3. MutexIsReleased'
  BY <1>1 DEF EditInv, MutexIsReleased
<1>4. \A k \in Editors : ArgumentsHold(edit[k])' /\ LoadHolds(edit[k])' /\ ComparisonHolds(edit[k])'
  BY <1>1 DEF EditInv, ArgumentsHold, LoadHolds, ComparisonHolds
<1> QED BY <1>2, <1>3, <1>4 DEF EditInv

(* An edit begins with its arguments, waiting for the mutex.               *)
LEMMA BeginKeeps ==
  ASSUME EditInv, NEW e \in Editors, BeginAny(e)
  PROVE  EditInv' /\ disk' = disk
<1>1. PICK p \in Paths, q \in Paths, op \in Ops, old \in Lines \cup {"none"}, new \in Lines \cup {"none"}, revision \in Values :
        /\ Begin(e, op, p, q, old, new, revision)
        /\ op = "rename" <=> q # p
        /\ op = "create" => revision = Unread
  <2>1. \A p \in Paths : AttachReadRevision(e, p) \in Values /\ Unread \in Values
    BY DEF AttachReadRevision, EditInv, EditTypeOK, Values, Unread
  <2>2. PICK p \in Paths : LET r == AttachReadRevision(e, p) IN
          \/ \E l \in Lines : Begin(e, "write", p, p, "none", l, r)
          \/ \E l \in Lines : Begin(e, "create", p, p, "none", l, Unread)
          \/ \E l, k \in Lines : l # k /\ Begin(e, "patch", p, p, l, k, r)
          \/ Begin(e, "delete", p, p, "none", "none", r)
          \/ \E q \in Paths \ {p} : Begin(e, "rename", p, q, "none", "none", r)
    BY DEF BeginAny
  <2>3. CASE \E q \in Paths \ {p} : Begin(e, "rename", p, q, "none", "none", AttachReadRevision(e, p))
    BY <2>1, <2>3 DEF Ops
  <2>4. CASE Begin(e, "delete", p, p, "none", "none", AttachReadRevision(e, p))
    BY <2>1, <2>4 DEF Ops
  <2>5. CASE \E l, k \in Lines : l # k /\ Begin(e, "patch", p, p, l, k, AttachReadRevision(e, p))
    <3>1. PICK l \in Lines, k \in Lines : Begin(e, "patch", p, p, l, k, AttachReadRevision(e, p))
      BY <2>5
    <3>2. "patch" \in Ops /\ l \in Lines \cup {"none"} /\ k \in Lines \cup {"none"}
      BY DEF Ops
    <3> QED BY <2>1, <3>1, <3>2
  <2>6. CASE \E l \in Lines : Begin(e, "create", p, p, "none", l, Unread)
    BY <2>1, <2>6 DEF Ops
  <2>7. CASE \E l \in Lines : Begin(e, "write", p, p, "none", l, AttachReadRevision(e, p))
    BY <2>1, <2>7 DEF Ops
  <2> QED BY <2>2, <2>3, <2>4, <2>5, <2>6, <2>7
<1> DEFINE r == [NoEdit EXCEPT !.op = op, !.path = p, !.to = q, !.old = old, !.new = new, !.revision = revision, !.pc = "lock"]
<1>2. /\ r \in EditRecords /\ r.pc = "lock" /\ r.op = op /\ r.path = p /\ r.to = q /\ r.revision = revision
  <2>1. Absent \in Values
    BY DEF Values, Absent
  <2>2. <<>> \in Seq(Changes)
    OBVIOUS
  <2> QED BY <2>1, <2>2 DEF NoEdit, EditRecords
<1>3. /\ edit' = [edit EXCEPT ![e] = r] /\ UNCHANGED <<disk, mutex, seen, foreign>> /\ edit[e].pc \in {"idle", "done"}
  BY <1>1 DEF Begin
<1>4. mutex' # e
  BY <1>3 DEF EditInv, MutexIsReleased
<1> HIDE DEF r
<1>5. ArgumentsHold(r) /\ LoadHolds(r) /\ ComparisonHolds(r)
  BY <1>1, <1>2 DEF ArgumentsHold, LoadHolds, ComparisonHolds
<1>6. seen' \in [Editors -> [path : Paths \cup {"none"}, contents : Values]]
  BY <1>3 DEF EditInv, EditTypeOK
<1> QED BY <1>2, <1>3, <1>4, <1>5, <1>6, OneEditor

(* Under the mutex: an answer, or the snapshot and the plan.               *)
LEMMA LoadKeeps ==
  ASSUME EditInv, NEW e \in Editors, LockAndLoad(e)
  PROVE  EditInv' /\ disk' = disk
<1> DEFINE d == edit[e]
<1>1. d \in EditRecords /\ d.pc = "lock" /\ mutex = NoOne /\ UNCHANGED <<disk, seen, foreign>>
  BY DEF LockAndLoad, EditInv, EditTypeOK
<1>2. /\ d.op \in Ops /\ d.path \in Paths /\ d.to \in Paths /\ (d.op = "rename" <=> d.to # d.path)
      /\ d.op = "create" => d.revision = Unread
  BY <1>1 DEF EditInv, ArgumentsHold
<1>3. seen' \in [Editors -> [path : Paths \cup {"none"}, contents : Values]] /\ disk' \in [Paths -> Values]
  BY <1>1 DEF EditInv, EditTypeOK
<1> DEFINE loaded == disk[d.path]
<1>4. /\ d.op = "create" => Verdict(d) = CreateVerdict(d, loaded)
      /\ d.op = "write" => Verdict(d) = WriteVerdict(d, loaded)
      /\ d.op \in {"patch", "delete", "rename"} /\ loaded = Absent => Verdict(d) = "error"
      /\ d.op = "patch" /\ loaded # Absent => Verdict(d) = PatchVerdict(d, loaded)
      /\ d.op = "delete" /\ loaded # Absent => Verdict(d) = DeleteVerdict(d, loaded)
      /\ d.op = "rename" /\ loaded # Absent => Verdict(d) = RenameVerdict(d, loaded)
  BY DEF Verdict
<1>5. Verdict(d) \in {"stale", "error", "go on"}
  BY <1>2, <1>4 DEF Ops, CreateVerdict, WriteVerdict, PatchVerdict, DeleteVerdict, RenameVerdict
<1>6. ASSUME Verdict(d) = "go on"
      PROVE  /\ d.op = "create" => loaded = Absent
             /\ d.op \in {"patch", "delete", "rename"} => loaded # Absent
             /\ d.revision # Unread /\ loaded # Absent => d.revision = loaded
  BY <1>2, <1>4, <1>6 DEF Ops, CreateVerdict, WriteVerdict, PatchVerdict, DeleteVerdict, RenameVerdict, StaleRevision
<1>7. Planned(d) \in Values
  <2>1. loaded \in Values /\ d.new \in Lines \cup {"none"} /\ Absent \in Values
    BY <1>1, <1>2 DEF EditInv, EditTypeOK, EditRecords, Values, Absent
  <2>2. /\ d.op \in {"write", "create"} => Planned(d) = {d.new}
        /\ d.op = "patch" => Planned(d) = (loaded \ {d.old}) \cup {d.new}
        /\ d.op = "rename" => Planned(d) = loaded
        /\ d.op = "delete" => Planned(d) = Absent
    BY DEF Planned
  <2>3. {d.new} \in Values /\ (loaded \ {d.old}) \cup {d.new} \in Values
    BY <2>1 DEF Values
  <2> QED BY <1>2, <2>1, <2>2, <2>3 DEF Ops
<1>8. CASE Verdict(d) # "go on"
  <2>1. edit' = Ended(e, Verdict(d), <<>>) /\ mutex' = NoOne
    BY <1>8 DEF LockAndLoad, Return
  <2>2. <<>> \in Seq(Changes)
    OBVIOUS
  <2> HIDE DEF d
  <2> QED BY <1>1, <1>3, <1>5, <1>8, <2>1, <2>2, ReturnKeeps DEF d
<1>9. CASE Verdict(d) = "go on"
  <2> DEFINE r == [d EXCEPT !.pc = "commit", !.snapshot = loaded, !.update = Planned(d)]
  <2>1. mutex' = e /\ edit' = [edit EXCEPT ![e] = r]
    BY <1>9 DEF LockAndLoad
  <2>2. /\ r \in EditRecords /\ r.pc = "commit" /\ r.snapshot = loaded /\ r.op = d.op /\ r.path = d.path
        /\ r.to = d.to /\ r.revision = d.revision
    BY <1>1, <1>2, <1>7 DEF EditRecords, EditInv, EditTypeOK
  <2> HIDE DEF r, d, loaded
  <2>3. ArgumentsHold(r) /\ LoadHolds(r) /\ ComparisonHolds(r)
    BY <1>2, <1>6, <1>9, <2>2 DEF ArgumentsHold, LoadHolds, ComparisonHolds
  <2>4. \A k \in Editors \ {e} : (mutex' = k) = (mutex = k)
    BY <1>1, <2>1, NoOneAssumption
  <2> QED BY <1>1, <1>3, <2>1, <2>2, <2>3, <2>4, OneEditor
<1> QED BY <1>8, <1>9

(* The comparison with the snapshot, or an early end.                      *)
LEMMA CompareKeeps ==
  ASSUME EditInv, NEW e \in Editors, CompareSnapshot(e)
  PROVE  EditInv' /\ disk' = disk
<1> DEFINE d == edit[e]
<1>1. d \in EditRecords /\ d.pc = "commit" /\ UNCHANGED <<disk, seen, foreign>>
  BY DEF CompareSnapshot, EditInv, EditTypeOK
<1>2. seen' \in [Editors -> [path : Paths \cup {"none"}, contents : Values]] /\ disk' \in [Paths -> Values]
  BY <1>1 DEF EditInv, EditTypeOK
<1>3. ArgumentsHold(d) /\ LoadHolds(d) /\ mutex = e
  BY <1>1 DEF EditInv, MutexIsReleased
<1>4. ASSUME NEW answer \in {"error", "concurrent_modification"}, Return(e, answer) PROVE EditInv'
  <2>1. edit' = Ended(e, answer, <<>>) /\ mutex' = NoOne
    BY <1>4 DEF Return
  <2>2. <<>> \in Seq(Changes)
    OBVIOUS
  <2> HIDE DEF d
  <2> QED BY <1>1, <1>2, <1>4, <2>1, <2>2, ReturnKeeps DEF d
<1>5. ASSUME Creates(d) \/ Unchanged(d), edit' = [edit EXCEPT ![e].pc = "persist"], mutex' = mutex PROVE EditInv'
  <2> DEFINE r == [d EXCEPT !.pc = "persist"]
  <2>1. edit' = [edit EXCEPT ![e] = r]
    BY <1>5
  <2>2. /\ r \in EditRecords /\ r.pc = "persist" /\ r.snapshot = d.snapshot /\ r.op = d.op /\ r.path = d.path
        /\ r.to = d.to /\ r.revision = d.revision
    BY <1>1 DEF EditRecords
  <2> HIDE DEF r, d
  <2>3. ArgumentsHold(r) /\ LoadHolds(r)
    BY <1>1, <1>3, <2>2 DEF ArgumentsHold, LoadHolds
  <2>4. ComparisonHolds(r)
    BY <1>5, <2>2 DEF ComparisonHolds, Creates, Unchanged
  <2> QED BY <1>1, <1>2, <1>3, <1>5, <2>1, <2>2, <2>3, <2>4, OneEditor
<1> QED BY <1>1, <1>4, <1>5 DEF CompareSnapshot

(* The mutex is the editor's that persists, so no other commits.           *)
LEMMA OneCommits ==
  ASSUME EditInv, NEW e \in Editors, edit[e].pc = "persist", NEW k \in Editors, edit[k].pc = "persist"
  PROVE  k = e
BY DEF EditInv, MutexIsReleased

(* What a commit may rely on.                                              *)
LEMMA PersistFacts ==
  ASSUME EditInv, NEW e \in Editors, edit[e].pc = "persist"
  PROVE  /\ edit[e] \in EditRecords /\ edit[e].op \in Ops /\ edit[e].path \in Paths /\ edit[e].to \in Paths
         /\ edit[e].op = "rename" <=> edit[e].to # edit[e].path
         /\ edit[e].op = "create" => edit[e].snapshot = Absent
         /\ edit[e].op \in {"patch", "delete", "rename"} => edit[e].snapshot # Absent
         /\ edit[e].revision # Unread /\ edit[e].snapshot # Absent => edit[e].revision = edit[e].snapshot
         /\ edit[e].update \in Values /\ disk \in [Paths -> Values] /\ Absent \in Values
         /\ ~edit[e].raced /\ edit[e].snapshot # Absent =>
              disk[edit[e].path] = edit[e].snapshot /\ (edit[e].op = "rename" => disk[edit[e].to] = Absent)
<1>1. ArgumentsHold(edit[e]) /\ LoadHolds(edit[e]) /\ ComparisonHolds(edit[e]) /\ edit[e] \in EditRecords
  BY DEF EditInv, EditTypeOK
<1>2. edit[e].update \in Values /\ disk \in [Paths -> Values] /\ Absent \in Values
  BY <1>1 DEF EditInv, EditTypeOK, EditRecords, Values, Absent
<1> QED BY <1>1, <1>2 DEF ArgumentsHold, LoadHolds, ComparisonHolds

(* update_read_revisions keeps the type of what the editor has seen.       *)
LEMMA SeenKept ==
  ASSUME EditInv, NEW e \in Editors, edit[e].pc = "persist", UpdateReadRevisions(e)
  PROVE  seen' \in [Editors -> [path : Paths \cup {"none"}, contents : Values]]
<1>1. edit[e].to \in Paths /\ edit[e].update \in Values
  BY PersistFacts
<1>2. NothingRead \in [path : Paths \cup {"none"}, contents : Values]
  BY DEF NothingRead, Values, Unread
<1>3. [path |-> edit[e].to, contents |-> edit[e].update] \in [path : Paths \cup {"none"}, contents : Values]
  BY <1>1
<1>4. seen \in [Editors -> [path : Paths \cup {"none"}, contents : Values]]
  BY DEF EditInv, EditTypeOK
<1> DEFINE S == [path : Paths \cup {"none"}, contents : Values]
           r == IF edit[e].op = "delete" THEN NothingRead ELSE [path |-> edit[e].to, contents |-> edit[e].update]
<1>5. r \in S /\ (seen' = seen \/ seen' = [seen EXCEPT ![e] = r])
  BY <1>2, <1>3 DEF UpdateReadRevisions
<1> HIDE DEF S, r
<1>6. seen \in [Editors -> S] => seen' \in [Editors -> S]
  BY <1>5
<1> QED BY <1>4, <1>6 DEF S

(* A commit that changes the disk reports the paths it changes, and        *)
(* replaces what was loaded.                                               *)
LEMMA CommitIsSafe ==
  ASSUME EditInv, NEW e \in Editors, edit[e].pc = "persist", foreign' = foreign,
         edit'[e].pc = "done", edit'[e].result = "changed",
         NEW events \in Seq(Changes), edit'[e].events = events,
         \A p \in Paths : disk'[p] # disk[p] => \E i \in DOMAIN events : events[i].path = p,
         disk' # disk => edit[e].snapshot # Absent \/ disk[edit[e].path] = Absent
  PROVE  StepIsSafe
<1>1. ReportsChanges
  BY DEF ReportsChanges, Commits
<1>2. ASSUME NEW k \in Editors, Commits(k) PROVE k = e
  BY <1>2, OneCommits DEF Commits
<1>3. KeepsUpdates
  <2>1. disk' # disk => edit[e].raced \/ (disk[edit[e].path] = edit[e].snapshot
                                          /\ (edit[e].to # edit[e].path => disk[edit[e].to] = Absent))
    BY PersistFacts DEF Ops
  <2> QED BY <1>2, <2>1 DEF KeepsUpdates
<1>4. RespectsRevisions
  <2>1. disk' # disk /\ edit[e].revision # Unread /\ ~edit[e].raced => disk[edit[e].path] \in {edit[e].revision, Absent}
    BY PersistFacts
  <2> QED BY <1>2, <2>1 DEF RespectsRevisions
<1> QED BY <1>1, <1>3, <1>4 DEF StepIsSafe

(* A step that leaves the disk breaks none of the three.                   *)
LEMMA NoChangeIsSafe == disk' = disk => StepIsSafe
BY DEF StepIsSafe, KeepsUpdates, RespectsRevisions, ReportsChanges

(* Events of a commit.                                                     *)
LEMMA EventsTyped ==
  ASSUME NEW p \in Paths, NEW q \in Paths, NEW change \in {"added", "modified", "deleted"}
  PROVE  /\ <<FileChanged(p, change)>> \in Seq(Changes) /\ DOMAIN <<FileChanged(p, change)>> = {1}
         /\ <<FileChanged(p, change)>>[1].path = p
         /\ <<FileChanged(p, "deleted"), FileChanged(q, "added")>> \in Seq(Changes)
         /\ DOMAIN <<FileChanged(p, "deleted"), FileChanged(q, "added")>> = {1, 2}
         /\ <<FileChanged(p, "deleted"), FileChanged(q, "added")>>[1].path = p
         /\ <<FileChanged(p, "deleted"), FileChanged(q, "added")>>[2].path = q
<1> DEFINE a == FileChanged(p, change) b == FileChanged(p, "deleted") c == FileChanged(q, "added")
<1>1. a \in Changes /\ b \in Changes /\ c \in Changes /\ a.path = p /\ b.path = p /\ c.path = q
  BY DEF FileChanged, Changes
<1> HIDE DEF a, b, c
<1>2. <<a>> \in Seq(Changes) /\ DOMAIN <<a>> = {1} /\ <<a>>[1] = a
  BY <1>1
<1>3. <<b, c>> \in Seq(Changes) /\ DOMAIN <<b, c>> = {1, 2} /\ <<b, c>>[1] = b /\ <<b, c>>[2] = c
  BY <1>1
<1> QED BY <1>1, <1>2, <1>3 DEF a, b, c

(* The new file is there and nothing was replaced, or it was not made.     *)
LEMMA PersistNewKeeps ==
  ASSUME EditInv, NEW e \in Editors, PersistNew(e)
  PROVE  EditInv' /\ StepIsSafe
<1> DEFINE d == edit[e]
<1>1. /\ d.pc = "persist" /\ d.snapshot = Absent /\ mutex' = NoOne /\ foreign' = foreign /\ UpdateReadRevisions(e)
      /\ disk' = IF disk[d.path] = Absent THEN [disk EXCEPT ![d.path] = d.update] ELSE disk
      /\ \/ edit' = Ended(e, "concurrent_modification", <<>>) /\ disk[d.path] # Absent
         \/ edit' = Ended(e, "changed", <<FileChanged(d.path, "added")>>)
  BY DEF PersistNew, Creates
<1>2. seen' \in [Editors -> [path : Paths \cup {"none"}, contents : Values]]
  BY <1>1, SeenKept
<1>3. d.path \in Paths /\ d.update \in Values /\ disk \in [Paths -> Values]
  BY <1>1, PersistFacts
<1>4. /\ disk' \in [Paths -> Values] /\ (disk' # disk => disk[d.path] = Absent)
      /\ \A p \in Paths : disk'[p] # disk[p] => p = d.path
  BY <1>1, <1>3
<1> HIDE DEF d
<1>5. CASE edit' = Ended(e, "concurrent_modification", <<>>) /\ disk[d.path] # Absent
  <2>1. <<>> \in Seq(Changes)
    OBVIOUS
  <2>2. EditInv'
    BY <1>1, <1>2, <1>4, <1>5, <2>1, ReturnKeeps DEF d
  <2> QED BY <1>4, <1>5, <2>2, NoChangeIsSafe
<1>6. CASE edit' = Ended(e, "changed", <<FileChanged(d.path, "added")>>)
  <2> DEFINE events == <<FileChanged(d.path, "added")>>
  <2>1. events \in Seq(Changes) /\ DOMAIN events = {1} /\ events[1].path = d.path
    BY <1>3, EventsTyped
  <2> HIDE DEF events
  <2>2. EditInv' /\ edit'[e].pc = "done" /\ edit'[e].result = "changed" /\ edit'[e].events = events
    BY <1>1, <1>2, <1>4, <1>6, <2>1, ReturnKeeps DEF d, events
  <2>3. \A p \in Paths : disk'[p] # disk[p] => \E i \in DOMAIN events : events[i].path = p
    BY <1>4, <2>1
  <2> QED BY <1>1, <1>4, <2>1, <2>2, <2>3, CommitIsSafe DEF d
<1> QED BY <1>1, <1>5, <1>6

(* The temporary file is renamed over the path.                            *)
LEMMA PersistOverKeeps ==
  ASSUME EditInv, NEW e \in Editors, PersistOver(e)
  PROVE  EditInv' /\ StepIsSafe
<1> DEFINE d == edit[e]
           events == <<FileChanged(d.path, "modified")>>
<1>1. /\ d.pc = "persist" /\ d.snapshot # Absent /\ mutex' = NoOne /\ foreign' = foreign /\ UpdateReadRevisions(e)
      /\ disk' = [disk EXCEPT ![d.path] = d.update] /\ edit' = Ended(e, "changed", events)
  BY DEF PersistOver, Creates
<1>2. seen' \in [Editors -> [path : Paths \cup {"none"}, contents : Values]]
  BY <1>1, SeenKept
<1>3. d.path \in Paths /\ d.update \in Values /\ disk \in [Paths -> Values]
  BY <1>1, PersistFacts
<1>4. disk' \in [Paths -> Values] /\ \A p \in Paths : disk'[p] # disk[p] => p = d.path
  BY <1>1, <1>3
<1>5. events \in Seq(Changes) /\ DOMAIN events = {1} /\ events[1].path = d.path
  BY <1>3, EventsTyped
<1> HIDE DEF d, events
<1>6. EditInv' /\ edit'[e].pc = "done" /\ edit'[e].result = "changed" /\ edit'[e].events = events
  BY <1>1, <1>2, <1>4, <1>5, ReturnKeeps DEF d
<1>7. \A p \in Paths : disk'[p] # disk[p] => \E i \in DOMAIN events : events[i].path = p
  BY <1>4, <1>5
<1> QED BY <1>1, <1>5, <1>6, <1>7, CommitIsSafe DEF d

(* The file is removed or moved, or it has gone.                           *)
LEMMA PersistRemovalKeeps ==
  ASSUME EditInv, NEW e \in Editors, PersistRemoval(e)
  PROVE  EditInv' /\ StepIsSafe
<1> DEFINE d == edit[e]
<1>1. d.pc = "persist" /\ d.op \in {"delete", "rename"} /\ foreign' = foreign /\ UpdateReadRevisions(e)
  BY DEF PersistRemoval
<1>2. seen' \in [Editors -> [path : Paths \cup {"none"}, contents : Values]]
  BY <1>1, SeenKept
<1>3. d.path \in Paths /\ d.to \in Paths /\ d.snapshot # Absent /\ disk \in [Paths -> Values] /\ Absent \in Values
  BY <1>1, PersistFacts
<1>4. ASSUME NEW events \in Seq(Changes), edit' = Ended(e, "changed", events), mutex' = NoOne, disk' \in [Paths -> Values],
             \A p \in Paths : disk'[p] # disk[p] => \E i \in DOMAIN events : events[i].path = p
      PROVE  EditInv' /\ StepIsSafe
  <2> HIDE DEF d
  <2>1. EditInv' /\ edit'[e].pc = "done" /\ edit'[e].result = "changed" /\ edit'[e].events = events
    BY <1>1, <1>2, <1>4, ReturnKeeps DEF d
  <2> QED BY <1>1, <1>3, <1>4, <2>1, CommitIsSafe DEF d
<1>5. CASE Return(e, "error") /\ UNCHANGED disk
  <2>1. edit' = Ended(e, "error", <<>>) /\ mutex' = NoOne /\ disk' = disk
    BY <1>5 DEF Return
  <2>2. <<>> \in Seq(Changes)
    OBVIOUS
  <2> HIDE DEF d
  <2>3. EditInv'
    BY <1>1, <1>2, <1>3, <2>1, <2>2, ReturnKeeps DEF d
  <2> QED BY <2>1, <2>3, NoChangeIsSafe
<1>6. CASE /\ disk' = [disk EXCEPT ![d.path] = Absent] /\ mutex' = NoOne
           /\ edit' = Ended(e, "changed", <<FileChanged(d.path, "deleted")>>)
  <2> DEFINE events == <<FileChanged(d.path, "deleted")>>
  <2>1. events \in Seq(Changes) /\ DOMAIN events = {1} /\ events[1].path = d.path
    BY <1>3, EventsTyped
  <2>2. disk' \in [Paths -> Values] /\ \A p \in Paths : disk'[p] # disk[p] => p = d.path
    BY <1>3, <1>6
  <2> HIDE DEF events
  <2>3. \A p \in Paths : disk'[p] # disk[p] => \E i \in DOMAIN events : events[i].path = p
    BY <2>1, <2>2
  <2> QED BY <1>4, <1>6, <2>1, <2>2, <2>3 DEF events
<1>7. CASE /\ disk' = [disk EXCEPT ![d.path] = Absent, ![d.to] = disk[d.path]] /\ mutex' = NoOne
           /\ edit' = Ended(e, "changed", <<FileChanged(d.path, "deleted"), FileChanged(d.to, "added")>>)
  <2> DEFINE events == <<FileChanged(d.path, "deleted"), FileChanged(d.to, "added")>>
  <2>1. events \in Seq(Changes) /\ DOMAIN events = {1, 2} /\ events[1].path = d.path /\ events[2].path = d.to
    BY <1>3, EventsTyped
  <2>2. disk' \in [Paths -> Values] /\ \A p \in Paths : disk'[p] # disk[p] => p \in {d.path, d.to}
    BY <1>3, <1>7
  <2> HIDE DEF events
  <2>3. \A p \in Paths : disk'[p] # disk[p] => \E i \in DOMAIN events : events[i].path = p
    BY <2>1, <2>2
  <2> QED BY <1>4, <1>7, <2>1, <2>2, <2>3 DEF events
<1> QED BY <1>5, <1>6, <1>7 DEF PersistRemoval

(* Another program writes: the edits past their comparison are marked.     *)
LEMMA ForeignKeeps ==
  ASSUME EditInv, NEW p \in Paths, NEW c \in {Absent, {}}, ForeignWrite(p, c)
  PROVE  EditInv' /\ StepIsSafe
<1> DEFINE Marked(e) == [edit[e] EXCEPT !.raced = @ \/ (edit[e].pc = "persist" /\ p \in {edit[e].path, edit[e].to})]
<1>1. /\ disk' = [disk EXCEPT ![p] = c] /\ foreign' = foreign + 1 /\ UNCHANGED <<mutex, seen>>
      /\ edit' = [e \in Editors |-> Marked(e)]
  BY DEF ForeignWrite
<1>2. ASSUME NEW e \in Editors
      PROVE  /\ Marked(e) \in EditRecords /\ Marked(e).pc = edit[e].pc /\ Marked(e).op = edit[e].op
             /\ Marked(e).path = edit[e].path /\ Marked(e).to = edit[e].to /\ Marked(e).revision = edit[e].revision
             /\ Marked(e).snapshot = edit[e].snapshot
             /\ ~Marked(e).raced => ~edit[e].raced /\ ~(edit[e].pc = "persist" /\ p \in {edit[e].path, edit[e].to})
  <2>1. edit[e] \in EditRecords
    BY DEF EditInv, EditTypeOK
  <2> QED BY <2>1 DEF EditRecords
<1> HIDE DEF Marked
<1>3. disk' \in [Paths -> Values] /\ \A q \in Paths \ {p} : disk'[q] = disk[q]
  BY <1>1 DEF EditInv, EditTypeOK, Values, Absent
<1>4. EditTypeOK'
  BY <1>1, <1>2, <1>3 DEF EditInv, EditTypeOK
<1>5. MutexIsReleased'
  BY <1>1, <1>2 DEF EditInv, MutexIsReleased
<1>6. ASSUME NEW e \in Editors PROVE ArgumentsHold(edit[e])' /\ LoadHolds(edit[e])' /\ ComparisonHolds(edit[e])'
  <2>1. edit'[e] = Marked(e) /\ ArgumentsHold(edit[e]) /\ LoadHolds(edit[e]) /\ ComparisonHolds(edit[e])
    BY <1>1 DEF EditInv
  <2>2. ArgumentsHold(edit[e])' /\ LoadHolds(edit[e])'
    BY <1>2, <2>1 DEF ArgumentsHold, LoadHolds
  <2>3. ComparisonHolds(edit[e])'
    BY <1>2, <1>3, <2>1 DEF ArgumentsHold, ComparisonHolds
  <2> QED BY <2>2, <2>3
<1>7. \A e \in Editors : ~Commits(e)
  BY <1>1, <1>2 DEF Commits
<1>8. foreign' # foreign
  BY <1>1 DEF EditInv, EditTypeOK
<1>9. StepIsSafe
  BY <1>7, <1>8 DEF StepIsSafe, KeepsUpdates, RespectsRevisions, ReportsChanges
<1> QED BY <1>4, <1>5, <1>6, <1>9 DEF EditInv

(* Every step keeps the invariant and is safe.                             *)
LEMMA EditStepInv ==
  ASSUME EditInv, [EditNext]_editVars
  PROVE  EditInv' /\ StepIsSafe
<1>1. ASSUME NEW e \in Editors, Persist(e) PROVE EditInv' /\ StepIsSafe
  BY <1>1, PersistNewKeeps, PersistOverKeeps, PersistRemovalKeeps DEF Persist
<1>2. ASSUME NEW e \in Editors, BeginAny(e) \/ LockAndLoad(e) \/ CompareSnapshot(e) PROVE EditInv' /\ StepIsSafe
  BY <1>2, BeginKeeps, LoadKeeps, CompareKeeps, NoChangeIsSafe
<1>3. ASSUME NEW e \in Editors, NEW p \in Paths, ReadFile(e, p) PROVE EditInv' /\ StepIsSafe
  <2>1. UNCHANGED <<disk, mutex, edit, foreign>> /\ seen' = [seen EXCEPT ![e] = [path |-> p, contents |-> disk[p]]]
    BY <1>3 DEF ReadFile
  <2>2. EditTypeOK'
    BY <2>1 DEF EditInv, EditTypeOK
  <2> QED BY <2>1, <2>2, NoChangeIsSafe DEF EditInv, MutexIsReleased, ArgumentsHold, LoadHolds, ComparisonHolds
<1>4. ASSUME NEW e \in Editors, CancelRun(e) PROVE EditInv' /\ StepIsSafe
  BY <1>4, NoChangeIsSafe DEF CancelRun, EditInv, EditTypeOK, MutexIsReleased, ArgumentsHold, LoadHolds, ComparisonHolds
<1>5. ASSUME UNCHANGED editVars PROVE EditInv' /\ StepIsSafe
  BY <1>5, NoChangeIsSafe DEF editVars, EditInv, EditTypeOK, MutexIsReleased, ArgumentsHold, LoadHolds, ComparisonHolds
<1> QED BY <1>1, <1>2, <1>3, <1>4, <1>5, ForeignKeeps DEF EditNext, EditStep

(* For any editors, files and writes of other programs: an edit replaces   *)
(* what it loaded unless another program wrote between the comparison and  *)
(* the rename, respects the revision it carries, is reported when it       *)
(* changes a file, and the mutex is held by an edit on its way only.       *)
THEOREM EditsSafe == EditSpec => EditsAreSafe
<1>1. EditInv /\ [EditNext]_editVars => EditInv'
  BY EditStepInv
<1>2. EditInv /\ [EditNext]_editVars => [KeepsUpdates]_editVars /\ [RespectsRevisions]_editVars /\ [ReportsChanges]_editVars
  BY EditStepInv DEF StepIsSafe
<1>3. EditInv => MutexIsReleased
  BY DEF EditInv
<1> QED BY <1>1, <1>2, <1>3, EditInitInv, PTL
       DEF EditSpec, EditsAreSafe, NoLostUpdate, RevisionProtects, ChangesAreReported, KeepsUpdates, RespectsRevisions, ReportsChanges

-----------------------------------------------------------------------------
(* The registry of models.                                                 *)
ModelSets == UNION {CatalogOf[p] : p \in Sources}
ModelNames == {Builtin[p] : p \in Sources} \cup UNION {Configurable[p] : p \in Sources}
RegistryStates == [catalogs : [Sources -> ModelSets \cup {NotFetched}], manual : [Sources -> SUBSET ModelNames],
                   defaults : [Sources -> ModelNames]]

(* A default is entered by hand too, whatever the provider answers.        *)
GoodStates == {s \in RegistryStates : \A p \in Sources : s.defaults[p] \in s.manual[p]}

Todos == (SUBSET Sources) \ {{}}
Fetching == [pc : {"fetch"}, todo : Todos]
Inserting == [pc : {"insert"}, todo : Todos, answer : ModelSets]
Waiting == [pc : {"lock", "snapshot"}, todo : Todos, again : BOOLEAN]
Writing == [pc : {"write", "rename"}, todo : Todos, again : BOOLEAN, state : GoodStates]
Jobs == {Resting} \cup Fetching \cup Inserting \cup Waiting \cup Writing

CatalogTypeOK ==
  /\ registry \in GoodStates
  /\ cache \in GoodStates \cup {NotFetched} /\ temporary \in GoodStates \cup {NotFetched}
  /\ job \in [Workers -> Jobs]

(* persist_lock is held from the copy of the state to the rename.          *)
LockIsHeld == \A w \in Workers : holder = w <=> job[w].pc \in {"snapshot", "write", "rename"}

(* The temporary file is the holder's, until it is renamed.                *)
TemporaryIsOwn == \A w \in Workers : job[w].pc = "rename" => temporary = job[w].state

(* Once nothing is unsaved, every copy of the state is the newest.         *)
CopiesAreNewest ==
  ~unsaved => cache = registry /\ \A w \in Workers : job[w].pc \in {"write", "rename"} => job[w].state = registry

CatalogInv == CatalogTypeOK /\ LockIsHeld /\ TemporaryIsOwn /\ CopiesAreNewest

(* What a job is, by where it stands.                                      *)
LEMMA JobShape ==
  ASSUME NEW j \in Jobs
  PROVE  /\ j.pc = "idle" <=> j = Resting
         /\ j.pc = "fetch" => j.todo \in Todos
         /\ j.pc = "insert" => j.todo \in Todos /\ j.answer \in ModelSets
         /\ j.pc \in {"lock", "snapshot"} => j \in Waiting
         /\ j.pc \in {"write", "rename"} => j \in Writing
<1>1. Resting.pc = "idle"
  BY DEF Resting
<1>2. CASE j \in Fetching
  BY <1>1, <1>2 DEF Fetching
<1>3. CASE j \in Inserting
  BY <1>1, <1>3 DEF Inserting
<1>4. CASE j \in Waiting
  <2>1. j.pc \in {"lock", "snapshot"}
    BY <1>4 DEF Waiting
  <2> QED BY <1>1, <1>4, <2>1
<1>5. CASE j \in Writing
  <2>1. j.pc \in {"write", "rename"}
    BY <1>5 DEF Writing
  <2> QED BY <1>1, <1>5, <2>1
<1> QED BY <1>1, <1>2, <1>3, <1>4, <1>5 DEF Jobs

(* The provider a job is about.                                            *)
LEMMA CurrentOfJob ==
  ASSUME NEW w, job[w].todo \in Todos
  PROVE  CurrentProvider(w) \in Sources /\ CurrentProvider(w) \in job[w].todo
<1>1. \E p \in job[w].todo : TRUE
  BY DEF Todos
<1>2. CurrentProvider(w) \in job[w].todo
  BY <1>1 DEF CurrentProvider
<1> QED BY <1>2 DEF Todos

(* The compiled registry, and what the cache adds to it.                   *)
LEMMA MergedIsGood ==
  ASSUME NEW loaded \in GoodStates \cup {NotFetched}
  PROVE  Compiled \in GoodStates /\ Merged(loaded) \in GoodStates
<1>1. Builtin \in [Sources -> ModelNames] /\ \A p \in Sources : Builtin[p] \in ModelNames
  BY BuiltinAssumption DEF ModelNames
<1>2. Compiled \in RegistryStates /\ \A p \in Sources : Compiled.defaults[p] \in Compiled.manual[p]
  BY <1>1 DEF Compiled, RegistryStates
<1>3. Compiled \in GoodStates
  BY <1>2 DEF GoodStates
<1>4. CASE loaded = NotFetched
  BY <1>3, <1>4 DEF Merged
<1>5. CASE loaded # NotFetched
  <2>1. loaded \in RegistryStates
    BY <1>5 DEF GoodStates
  <2>2. loaded.catalogs \in [Sources -> ModelSets \cup {NotFetched}] /\ loaded.manual \in [Sources -> SUBSET ModelNames]
    BY <2>1 DEF RegistryStates
  <2> DEFINE m == [catalogs |-> loaded.catalogs, manual |-> [p \in Sources |-> {Builtin[p]} \cup loaded.manual[p]],
                   defaults |-> Builtin]
  <2>3. Merged(loaded) = m
    BY <1>5 DEF Merged
  <2>4. m \in RegistryStates /\ \A p \in Sources : m.defaults[p] \in m.manual[p]
    BY <1>1, <2>2 DEF RegistryStates
  <2> HIDE DEF m
  <2> QED BY <1>3, <2>3, <2>4 DEF GoodStates
<1> QED BY <1>3, <1>4, <1>5

(* One job goes on and the registry and the files stay: what is left to    *)
(* show of the step.                                                       *)
LEMMA JobMoves ==
  ASSUME CatalogInv, NEW w \in Workers, NEW j \in Jobs, job' = [job EXCEPT ![w] = j]
  PROVE  job' \in [Workers -> Jobs] /\ job'[w] = j /\ \A k \in Workers \ {w} : job'[k] = job[k]
BY DEF CatalogInv, CatalogTypeOK

(* The next provider's turn, or the end of the job.                        *)
LEMMA NextShape ==
  ASSUME CatalogInv, NEW w \in Workers, job[w].todo \in Todos, NextProvider(w)
  PROVE  \E j \in Jobs : j.pc \in {"idle", "fetch"} /\ job' = [job EXCEPT ![w] = j]
<1> DEFINE rest == job[w].todo \ {CurrentProvider(w)}
           j == IF rest = {} THEN Resting ELSE [pc |-> "fetch", todo |-> rest]
<1>1. job' = [job EXCEPT ![w] = j]
  BY DEF NextProvider
<1>2. CASE rest = {}
  <2>1. j = Resting /\ Resting.pc = "idle"
    BY <1>2 DEF Resting
  <2> HIDE DEF j
  <2> QED BY <1>1, <2>1 DEF Jobs
<1>3. CASE rest # {}
  <2>1. rest \in Todos
    BY <1>3 DEF Todos
  <2>2. j = [pc |-> "fetch", todo |-> rest]
    BY <1>3
  <2> HIDE DEF rest
  <2>3. j \in Fetching /\ j.pc = "fetch"
    BY <2>1, <2>2 DEF Fetching
  <2> HIDE DEF j
  <2> QED BY <1>1, <2>3 DEF Jobs
<1> QED BY <1>2, <1>3

(* The end of a persist: its second turn, or the next provider.            *)
LEMMA AfterPersist ==
  ASSUME CatalogInv, NEW w \in Workers, job[w] \in Writing,
         IF job[w].again THEN job' = [job EXCEPT ![w] = [pc |-> "lock", todo |-> job[w].todo, again |-> FALSE]]
                         ELSE NextProvider(w)
  PROVE  \E j \in Jobs : j.pc \in {"idle", "fetch", "lock"} /\ job' = [job EXCEPT ![w] = j]
<1>1. job[w].todo \in Todos
  BY DEF Writing
<1>2. CASE job[w].again
  <2> DEFINE j == [pc |-> "lock", todo |-> job[w].todo, again |-> FALSE]
  <2>1. j \in Waiting /\ j.pc = "lock"
    BY <1>1 DEF Waiting
  <2>2. job' = [job EXCEPT ![w] = j]
    BY <1>2
  <2> HIDE DEF j
  <2> QED BY <2>1, <2>2 DEF Jobs
<1>3. CASE ~job[w].again
  BY <1>1, <1>3, NextShape
<1> QED BY <1>2, <1>3

(* The four parts after a step in which one job moves to j.                *)
LEMMA MoveKeeps ==
  ASSUME CatalogInv, NEW w \in Workers, NEW j \in Jobs, job' = [job EXCEPT ![w] = j],
         registry' \in GoodStates, cache' \in GoodStates \cup {NotFetched}, temporary' \in GoodStates \cup {NotFetched},
         \A k \in Workers \ {w} : (holder' = k) = (holder = k),
         holder' = w <=> j.pc \in {"snapshot", "write", "rename"},
         temporary' = temporary \/ holder = w,
         j.pc = "rename" => temporary' = j.state,
         \/ unsaved'
         \/ /\ cache' = registry' /\ (j.pc \in {"write", "rename"} => j.state = registry')
            /\ (holder = w \/ ~unsaved) /\ registry' = registry
  PROVE  CatalogInv'
<1>1. job' \in [Workers -> Jobs] /\ job'[w] = j /\ \A k \in Workers \ {w} : job'[k] = job[k]
  BY JobMoves
<1>2. CatalogTypeOK'
  BY <1>1 DEF CatalogTypeOK
<1>3. LockIsHeld'
  BY <1>1 DEF CatalogInv, LockIsHeld
<1>4. TemporaryIsOwn'
  <2> SUFFICES ASSUME NEW k \in Workers, job'[k].pc = "rename" PROVE temporary' = job'[k].state
    BY DEF TemporaryIsOwn
  <2>1. CASE k = w
    BY <1>1, <2>1
  <2>2. CASE k # w
    <3>1. job'[k] = job[k] /\ holder = k
      BY <1>1, <2>2 DEF CatalogInv, LockIsHeld
    <3> QED BY <2>2, <3>1 DEF CatalogInv, TemporaryIsOwn
  <2> QED BY <2>1, <2>2
<1>5. CopiesAreNewest'
  <2> SUFFICES ASSUME ~unsaved'
               PROVE  cache' = registry' /\ \A k \in Workers : job'[k].pc \in {"write", "rename"} => job'[k].state = registry'
    BY DEF CopiesAreNewest
  <2>1. ASSUME NEW k \in Workers \ {w}, job'[k].pc \in {"write", "rename"} PROVE job'[k].state = registry'
    <3>1. job'[k] = job[k] /\ holder = k
      BY <1>1, <2>1 DEF CatalogInv, LockIsHeld
    <3>2. ~unsaved /\ registry' = registry
      BY <2>1, <3>1
    <3> QED BY <2>1, <3>1, <3>2 DEF CatalogInv, CopiesAreNewest
  <2> QED BY <1>1, <2>1
<1> QED BY <1>2, <1>3, <1>4, <1>5 DEF CatalogInv

(* Before any job the registry is the compiled one and nothing is saved.   *)
LEMMA CatalogInitInv == CatalogInit => CatalogInv
<1> SUFFICES ASSUME CatalogInit PROVE CatalogInv
  OBVIOUS
<1>1. Compiled \in GoodStates
  BY MergedIsGood
<1>2. Resting \in Jobs /\ Resting.pc = "idle"
  BY DEF Jobs, Resting
<1> QED BY <1>1, <1>2, WorkersAssumption DEF CatalogInit, CatalogInv, CatalogTypeOK, LockIsHeld, TemporaryIsOwn, CopiesAreNewest

(* One provider's catalogue, or one default, is replaced.                  *)
LEMMA RegistryChanges ==
  ASSUME registry \in GoodStates, NEW p \in Sources
  PROVE  /\ \A answer \in ModelSets : [registry EXCEPT !.catalogs[p] = answer] \in GoodStates
         /\ \A selected \in Configurable[p] :
              [registry EXCEPT !.defaults[p] = selected, !.manual[p] = @ \cup {selected}] \in GoodStates
<1>1. /\ registry \in RegistryStates /\ \A q \in Sources : registry.defaults[q] \in registry.manual[q]
  BY DEF GoodStates
<1>2. /\ registry.catalogs \in [Sources -> ModelSets \cup {NotFetched}]
      /\ registry.manual \in [Sources -> SUBSET ModelNames] /\ registry.defaults \in [Sources -> ModelNames]
  BY <1>1 DEF RegistryStates
<1>3. ASSUME NEW answer \in ModelSets PROVE [registry EXCEPT !.catalogs[p] = answer] \in GoodStates
  <2> DEFINE r == [registry EXCEPT !.catalogs[p] = answer]
  <2>1. r.catalogs = [registry.catalogs EXCEPT ![p] = answer] /\ r.manual = registry.manual /\ r.defaults = registry.defaults
    BY <1>1 DEF RegistryStates
  <2>2. r \in RegistryStates
    BY <1>1, <1>2 DEF RegistryStates
  <2> HIDE DEF r
  <2>3. r \in GoodStates
    BY <1>1, <2>1, <2>2 DEF GoodStates
  <2> QED BY <2>3 DEF r
<1>4. ASSUME NEW selected \in Configurable[p]
      PROVE  [registry EXCEPT !.defaults[p] = selected, !.manual[p] = @ \cup {selected}] \in GoodStates
  <2> DEFINE r == [registry EXCEPT !.defaults[p] = selected, !.manual[p] = @ \cup {selected}]
             defaults == [registry.defaults EXCEPT ![p] = selected]
             manual == [registry.manual EXCEPT ![p] = @ \cup {selected}]
  <2>1. selected \in ModelNames
    BY DEF ModelNames
  <2>2. defaults \in [Sources -> ModelNames] /\ manual \in [Sources -> SUBSET ModelNames]
    BY <1>2, <2>1
  <2>3. \A q \in Sources : defaults[q] \in manual[q]
    BY <1>1, <1>2
  <2>4. r.defaults = defaults /\ r.manual = manual
    BY <1>1 DEF RegistryStates
  <2>5. r \in RegistryStates
    BY <1>1, <1>2, <2>2 DEF RegistryStates
  <2> HIDE DEF r, defaults, manual
  <2>6. r \in GoodStates
    BY <2>3, <2>4, <2>5 DEF GoodStates
  <2> QED BY <2>6 DEF r
<1> QED BY <1>3, <1>4

(* Every step of a refresh, a registration, a persist or a restart.        *)
LEMMA CatalogStepInv == CatalogInv /\ [CatalogNext]_catalogVars => CatalogInv'
<1> SUFFICES ASSUME CatalogInv, [CatalogNext]_catalogVars PROVE CatalogInv'
  OBVIOUS
<1>0. /\ registry \in GoodStates /\ cache \in GoodStates \cup {NotFetched} /\ temporary \in GoodStates \cup {NotFetched}
      /\ \A w \in Workers : job[w] \in Jobs
  BY DEF CatalogInv, CatalogTypeOK
<1>a. \A w \in Workers : job[w].pc \in {"snapshot", "write", "rename"} <=> holder = w
  BY DEF CatalogInv, LockIsHeld
<1>b. ~unsaved => cache = registry /\ \A w \in Workers : job[w].pc \in {"write", "rename"} => job[w].state = registry
  BY DEF CatalogInv, CopiesAreNewest
<1>1. ASSUME NEW w \in Workers, NEW providers \in {Sources} \cup {{p} : p \in Sources}, Refresh(w, providers) PROVE CatalogInv'
  <2> DEFINE j == [pc |-> "fetch", todo |-> providers]
  <2>1. providers \in Todos
    BY BuiltinAssumption DEF Todos
  <2>2. j \in Fetching /\ j.pc = "fetch"
    BY <2>1 DEF Fetching
  <2>3. /\ job[w] = Resting /\ job' = [job EXCEPT ![w] = j]
        /\ UNCHANGED <<registry, cache, temporary, holder, unsaved>>
    BY <1>1 DEF Refresh, BeginJob
  <2>4. holder # w
    BY <1>a, <2>3 DEF Resting
  <2> HIDE DEF j
  <2>5. j \in Jobs
    BY <2>2 DEF Jobs
  <2> QED BY <1>0, <1>b, <2>2, <2>3, <2>4, <2>5, MoveKeeps
<1>2. ASSUME NEW w \in Workers, NEW p \in Sources, NEW selected \in Configurable[p], Register(w, p, selected) PROVE CatalogInv'
  <2> DEFINE j == [pc |-> "lock", todo |-> {p}, again |-> TRUE]
  <2>1. j \in Waiting /\ j.pc = "lock"
    BY DEF Waiting, Todos
  <2>2. /\ job[w] = Resting /\ job' = [job EXCEPT ![w] = j]
        /\ registry' = [registry EXCEPT !.defaults[p] = selected, !.manual[p] = @ \cup {selected}]
        /\ unsaved' = TRUE /\ UNCHANGED <<cache, temporary, holder>>
    BY <1>2 DEF Register, BeginJob
  <2>3. holder # w
    BY <1>a, <2>2 DEF Resting
  <2>4. registry' \in GoodStates
    BY <1>0, <2>2, RegistryChanges
  <2> HIDE DEF j
  <2>5. j \in Jobs
    BY <2>1 DEF Jobs
  <2> QED BY <1>0, <2>1, <2>2, <2>3, <2>4, <2>5, MoveKeeps
<1>3. ASSUME NEW w \in Workers, Fetch(w) PROVE CatalogInv'
  <2>1. job[w].pc = "fetch" /\ UNCHANGED <<registry, cache, temporary, holder, unsaved>>
    BY <1>3 DEF Fetch
  <2>2. job[w].todo \in Todos /\ CurrentProvider(w) \in Sources /\ holder # w
    BY <1>0, <1>a, <2>1, JobShape, CurrentOfJob
  <2>3. \E j \in Jobs : j.pc \in {"idle", "fetch", "insert"} /\ job' = [job EXCEPT ![w] = j]
    <3>1. CASE NextProvider(w)
      BY <2>2, <3>1, NextShape
    <3>2. ASSUME NEW answer \in CatalogOf[CurrentProvider(w)],
                 job' = [job EXCEPT ![w] = [pc |-> "insert", todo |-> job[w].todo, answer |-> answer]]
          PROVE  \E j \in Jobs : j.pc \in {"idle", "fetch", "insert"} /\ job' = [job EXCEPT ![w] = j]
      <4> DEFINE j == [pc |-> "insert", todo |-> job[w].todo, answer |-> answer]
      <4>1. answer \in ModelSets
        BY <2>2 DEF ModelSets
      <4>2. j \in Inserting /\ j.pc = "insert"
        BY <2>2, <4>1 DEF Inserting
      <4>3. job' = [job EXCEPT ![w] = j]
        BY <3>2
      <4> HIDE DEF j
      <4> QED BY <4>2, <4>3 DEF Jobs
    <3> QED BY <1>3, <3>1, <3>2 DEF Fetch
  <2>4. PICK j \in Jobs : j.pc \in {"idle", "fetch", "insert"} /\ job' = [job EXCEPT ![w] = j]
    BY <2>3
  <2> QED BY <1>0, <1>b, <2>1, <2>2, <2>4, MoveKeeps
<1>4. ASSUME NEW w \in Workers, Insert(w) PROVE CatalogInv'
  <2> DEFINE j == [pc |-> "lock", todo |-> job[w].todo, again |-> FALSE]
  <2>1. /\ job[w].pc = "insert" /\ job' = [job EXCEPT ![w] = j] /\ unsaved' = TRUE /\ UNCHANGED <<cache, temporary, holder>>
        /\ registry' = [registry EXCEPT !.catalogs[CurrentProvider(w)] = job[w].answer]
    BY <1>4 DEF Insert
  <2>2. job[w].todo \in Todos /\ job[w].answer \in ModelSets /\ CurrentProvider(w) \in Sources /\ holder # w
    BY <1>0, <1>a, <2>1, JobShape, CurrentOfJob
  <2>3. registry' \in GoodStates
    BY <1>0, <2>1, <2>2, RegistryChanges
  <2>4. j \in Waiting /\ j.pc = "lock"
    BY <2>2 DEF Waiting
  <2> HIDE DEF j
  <2>5. j \in Jobs
    BY <2>4 DEF Jobs
  <2> QED BY <1>0, <2>1, <2>2, <2>3, <2>4, <2>5, MoveKeeps
<1>5. ASSUME NEW w \in Workers, TakePersistLock(w) PROVE CatalogInv'
  <2> DEFINE j == [job[w] EXCEPT !.pc = "snapshot"]
  <2>1. /\ job[w].pc = "lock" /\ holder = "" /\ holder' = w /\ UNCHANGED <<registry, cache, temporary, unsaved>>
        /\ job' = [job EXCEPT ![w] = j]
    BY <1>5 DEF TakePersistLock
  <2>2. job[w] \in Waiting
    BY <1>0, <2>1, JobShape
  <2>3. j \in Waiting /\ j.pc = "snapshot"
    BY <2>2 DEF Waiting
  <2> HIDE DEF j
  <2>4. j \in Jobs
    BY <2>3 DEF Jobs
  <2>5. \A k \in Workers \ {w} : (holder' = k) = (holder = k)
    BY <2>1, WorkersAssumption
  <2> QED BY <1>0, <1>b, <2>1, <2>3, <2>4, <2>5, MoveKeeps
<1>6. ASSUME NEW w \in Workers, Snapshot(w) PROVE CatalogInv'
  <2> DEFINE j == [pc |-> "write", todo |-> job[w].todo, again |-> job[w].again, state |-> registry]
  <2>1. /\ job[w].pc = "snapshot" /\ job' = [job EXCEPT ![w] = j]
        /\ UNCHANGED <<registry, cache, temporary, holder, unsaved>>
    BY <1>6 DEF Snapshot
  <2>2. job[w] \in Waiting /\ holder = w
    BY <1>0, <1>a, <2>1, JobShape
  <2>3. job[w].todo \in Todos /\ job[w].again \in BOOLEAN
    BY <2>2 DEF Waiting
  <2>4. j \in Writing /\ j.pc = "write" /\ j.state = registry
    BY <1>0, <2>3 DEF Writing
  <2> HIDE DEF j
  <2>5. j \in Jobs
    BY <2>4 DEF Jobs
  <2> QED BY <1>0, <1>b, <2>1, <2>2, <2>4, <2>5, MoveKeeps
<1>7. ASSUME NEW w \in Workers, WriteTemporary(w) PROVE CatalogInv'
  <2>1. job[w].pc = "write" /\ UNCHANGED <<registry, cache, unsaved>>
    BY <1>7 DEF WriteTemporary
  <2>2. job[w] \in Writing /\ holder = w
    BY <1>0, <1>a, <2>1, JobShape
  <2>3. job[w].state \in GoodStates
    BY <2>2 DEF Writing
  <2>4. CASE temporary' = job[w].state /\ job' = [job EXCEPT ![w].pc = "rename"] /\ holder' = holder
    <3> DEFINE j == [job[w] EXCEPT !.pc = "rename"]
    <3>1. j \in Writing /\ j.pc = "rename" /\ j.state = job[w].state
      BY <2>2 DEF Writing
    <3>2. job' = [job EXCEPT ![w] = j]
      BY <2>4
    <3> HIDE DEF j
    <3>3. j \in Jobs
      BY <3>1 DEF Jobs
    <3>4. ~unsaved => cache = registry /\ j.state = registry
      BY <1>b, <2>1, <3>1
    <3> QED BY <1>0, <2>1, <2>2, <2>3, <2>4, <3>1, <3>2, <3>3, <3>4, MoveKeeps
  <2>5. CASE /\ temporary' = temporary /\ holder' = ""
             /\ IF job[w].again THEN job' = [job EXCEPT ![w] = [pc |-> "lock", todo |-> job[w].todo, again |-> FALSE]]
                                ELSE NextProvider(w)
    <3>1. PICK j \in Jobs : j.pc \in {"idle", "fetch", "lock"} /\ job' = [job EXCEPT ![w] = j]
      BY <2>2, <2>5, AfterPersist
    <3>2. holder' # w /\ \A k \in Workers \ {w} : (holder' = k) = (holder = k)
      BY <2>2, <2>5, WorkersAssumption
    <3> QED BY <1>0, <1>b, <2>1, <2>2, <2>5, <3>1, <3>2, MoveKeeps
  <2> QED BY <1>7, <2>4, <2>5 DEF WriteTemporary
<1>8. ASSUME NEW w \in Workers, Rename(w) PROVE CatalogInv'
  <2>1. /\ job[w].pc = "rename" /\ cache' = temporary /\ holder' = "" /\ unsaved' = (unsaved /\ job[w].state # registry)
        /\ IF job[w].again THEN job' = [job EXCEPT ![w] = [pc |-> "lock", todo |-> job[w].todo, again |-> FALSE]]
                           ELSE NextProvider(w)
        /\ UNCHANGED <<registry, temporary>>
    BY <1>8 DEF Rename
  <2>2. job[w] \in Writing /\ holder = w /\ temporary = job[w].state
    BY <1>0, <1>a, <2>1, JobShape DEF CatalogInv, TemporaryIsOwn
  <2>3. PICK j \in Jobs : j.pc \in {"idle", "fetch", "lock"} /\ job' = [job EXCEPT ![w] = j]
    BY <2>1, <2>2, AfterPersist
  <2>4. holder' # w /\ \A k \in Workers \ {w} : (holder' = k) = (holder = k)
    BY <2>1, <2>2, WorkersAssumption
  <2>5. unsaved' \/ cache' = registry'
    BY <1>b, <2>1, <2>2
  <2> QED BY <1>0, <2>1, <2>2, <2>3, <2>4, <2>5, MoveKeeps
<1>9. ASSUME RestartRegistry PROVE CatalogInv'
  <2>1. /\ registry' = Merged(cache) /\ holder' = "" /\ job' = [w \in Workers |-> Resting] /\ unsaved' = TRUE
        /\ UNCHANGED <<cache, temporary>>
    BY <1>9 DEF RestartRegistry
  <2>2. registry' \in GoodStates
    BY <1>0, <2>1, MergedIsGood
  <2>3. Resting \in Jobs /\ Resting.pc = "idle"
    BY DEF Jobs, Resting
  <2> QED BY <1>0, <2>1, <2>2, <2>3, WorkersAssumption
         DEF CatalogInv, CatalogTypeOK, LockIsHeld, TemporaryIsOwn, CopiesAreNewest
<1>10. ASSUME UNCHANGED catalogVars PROVE CatalogInv'
  BY <1>10 DEF catalogVars, CatalogInv, CatalogTypeOK, LockIsHeld, TemporaryIsOwn, CopiesAreNewest
<1> QED BY <1>1, <1>2, <1>3, <1>4, <1>5, <1>6, <1>7, <1>8, <1>9, <1>10 DEF CatalogNext

(* For any threads, providers and answers: the default of a provider is    *)
(* listed in the registry and in the cache, and the cache holds the newest *)
(* state when every job is done and no write failed: an older copy never   *)
(* goes over a newer one.                                                  *)
THEOREM CatalogKept == CatalogSpec => []CatalogIsKept
<1>1. CatalogInv => CatalogIsKept
  <2> SUFFICES ASSUME CatalogInv PROVE CatalogIsKept
    OBVIOUS
  <2>1. DefaultIsListed
    BY DEF CatalogInv, CatalogTypeOK, DefaultIsListed, Listed, GoodStates
  <2>2. CacheCatchesUp
    BY DEF CatalogInv, CopiesAreNewest, CacheCatchesUp
  <2> QED BY <2>1, <2>2 DEF CatalogIsKept
<1> QED BY <1>1, CatalogInitInv, CatalogStepInv, PTL DEF CatalogSpec

-----------------------------------------------------------------------------
(***************************************************************************)
(* THE EXECUTION PLAN.                                                     *)
(***************************************************************************)
(* Lists of tasks and milestones, indexed from 1.                          *)
WellMade(tasks) ==
  /\ DOMAIN tasks \subseteq Nat \ {0}
  /\ tasks = [t \in DOMAIN tasks |-> Task(tasks[t].step, tasks[t].status)]
Untouched(x) == x.status = "pending" /\ \A t \in DOMAIN x.tasks : x.tasks[t].status = "pending"
SoundList(ms) ==
  /\ DOMAIN ms \subseteq Nat \ {0} /\ ms = [m \in DOMAIN ms |-> ms[m]]
  /\ \A m \in DOMAIN ms : WellMade(ms[m].tasks)
  /\ \A m, n \in DOMAIN ms : m < n /\ ms[m].status # "completed" => Untouched(ms[n])
  /\ \A m \in DOMAIN ms : ms[m].status = "completed" => \A t \in DOMAIN ms[m].tasks : ms[m].tasks[t].status # "pending"
Sound(plan) ==
  /\ plan = [revision |-> plan.revision, status |-> plan.status, milestones |-> plan.milestones]
  /\ SoundList(plan.milestones)
PlanInv == Sound(planned) /\ milestone = Current(planned)

(* Of the tasks U, which were T, all are there, and what was completed is. *)
Carries(T, U) ==
  /\ DOMAIN U = DOMAIN T
  /\ \A t \in DOMAIN T : U[t].step = T[t].step /\ (T[t].status = "completed" => U[t].status = "completed")
CarriesAll(ms, ns) ==
  DOMAIN ns = DOMAIN ms /\ \A m \in DOMAIN ms : Carries(ms[m].tasks, ns[m].tasks)

(* Every set of numbers has a least one.                                  *)
LEMMA LeastOf ==
  ASSUME NEW S \in SUBSET Nat, S # {}
  PROVE  \E n \in S : \A m \in S : n <= m
  <1> DEFINE R == OpToRel(<, Nat)
  <1>1. IsWellFoundedOn(R, Nat) BY NatLessThanWellFounded, Zenon
  <1>2. \E n \in S : \A m \in S : ~(<<m, n>> \in R)
    <2> HIDE DEF R
    <2> QED BY <1>1, WFMin, Zenon
  <1>3. \A m, n \in Nat : <<m, n>> \in R <=> m < n BY DEF OpToRel
  <1> HIDE DEF R
  <1>4. PICK n \in S : \A m \in S : ~(<<m, n>> \in R) BY <1>2
  <1>5. ASSUME NEW m \in S PROVE n <= m
    <2>1. m \in Nat /\ n \in Nat OBVIOUS
    <2>2. ~(m < n) BY <1>3, <1>4, <2>1
    <2> QED BY <2>1, <2>2
  <1> QED BY <1>5

(* The least number of a set, and the first task or milestone of a status. *)
LEMMA LeastIs ==
  ASSUME NEW S \in SUBSET Nat, 0 \notin S
  PROVE  /\ S = {} <=> Least(S) = 0
         /\ Least(S) # 0 => Least(S) \in S /\ \A j \in S : Least(S) <= j
  <1>1. CASE S = {} BY <1>1 DEF Least
  <1>2. CASE S # {}
    <2>5. \E n \in S : \A m \in S : n <= m BY <1>2, LeastOf
    <2>6. Least(S) \in S /\ \A j \in S : Least(S) <= j BY <1>2, <2>5 DEF Least
    <2> QED BY <1>2, <2>6
  <1> QED BY <1>1, <1>2

LEMMA FirstIs ==
  ASSUME NEW s, NEW x, DOMAIN s \subseteq Nat \ {0}
  PROVE  /\ FirstWith(s, x) # 0 => /\ FirstWith(s, x) \in DOMAIN s /\ s[FirstWith(s, x)].status = x
         /\ FirstWith(s, x) = 0 <=> \A i \in DOMAIN s : s[i].status # x
         /\ FirstWithout(s, x) # 0 =>
              /\ FirstWithout(s, x) \in DOMAIN s /\ s[FirstWithout(s, x)].status # x
              /\ \A i \in DOMAIN s : s[i].status # x => FirstWithout(s, x) <= i
         /\ FirstWithout(s, x) = 0 <=> \A i \in DOMAIN s : s[i].status = x
  <1> DEFINE A == {i \in DOMAIN s : s[i].status = x}
             B == {i \in DOMAIN s : s[i].status # x}
  <1>1. A \in SUBSET Nat /\ 0 \notin A /\ B \in SUBSET Nat /\ 0 \notin B OBVIOUS
  <1>2. /\ A = {} <=> Least(A) = 0
        /\ Least(A) # 0 => Least(A) \in A
        /\ B = {} <=> Least(B) = 0
        /\ Least(B) # 0 => Least(B) \in B /\ \A j \in B : Least(B) <= j
    BY <1>1, LeastIs
  <1>3. FirstWith(s, x) = Least(A) /\ FirstWithout(s, x) = Least(B) BY DEF FirstWith, FirstWithout
  <1>4. (\A i \in DOMAIN s : s[i].status # x) <=> A = {} OBVIOUS
  <1>5. (\A i \in DOMAIN s : s[i].status = x) <=> B = {} OBVIOUS
  <1> QED BY <1>2, <1>3, <1>4, <1>5

(* One task gets another status.                                           *)
LEMMA SetTaskCarries ==
  ASSUME NEW T, WellMade(T), NEW x, NEW y, x # "completed"
  PROVE  LET t == FirstWith(T, x)
             U == SetTask(T, t, y)
         IN /\ WellMade(U) /\ Carries(T, U)
            /\ \A i \in DOMAIN T : U[i].status \in {T[i].status, y}
  <1> DEFINE t == FirstWith(T, x)
             U == SetTask(T, t, y)
  <1> SUFFICES WellMade(U) /\ Carries(T, U) /\ \A i \in DOMAIN T : U[i].status \in {T[i].status, y} OBVIOUS
  <1>1. t # 0 => t \in DOMAIN T /\ T[t].status = x BY FirstIs DEF WellMade
  <1> HIDE DEF t
  <1>2. CASE t = 0
    <2>1. U = T BY <1>2 DEF SetTask
    <2> QED BY <2>1 DEF Carries
  <1>3. CASE t # 0
    <2>1. U = [T EXCEPT ![t].status = y] BY <1>3 DEF SetTask
    <2>2. /\ DOMAIN U = DOMAIN T /\ U = [i \in DOMAIN T |-> U[i]]
          /\ \A i \in DOMAIN T : i # t => U[i] = T[i]
      BY <2>1 DEF WellMade
    <2>3. U[t] = Task(T[t].step, y)
      <3>1. T[t] = Task(T[t].step, T[t].status) BY <1>1, <1>3 DEF WellMade
      <3>2. U[t] = [T[t] EXCEPT !.status = y] BY <1>1, <1>3, <2>1
      <3> QED BY <3>1, <3>2 DEF Task
    <2>4. \A i \in DOMAIN T : T[i] = Task(T[i].step, T[i].status) BY DEF WellMade
    <2>5. U[t].step = T[t].step /\ U[t].status = y BY <2>3 DEF Task
    <2>6. \A i \in DOMAIN T : U[i] = Task(U[i].step, U[i].status) BY <2>2, <2>3, <2>4, <2>5
    <2>7. WellMade(U) BY <2>2, <2>6 DEF WellMade
    <2>8. Carries(T, U) BY <1>1, <1>3, <2>2, <2>5 DEF Carries
    <2>9. \A i \in DOMAIN T : U[i].status \in {T[i].status, y} BY <2>2, <2>5
    <2> QED BY <2>7, <2>8, <2>9
  <1> QED BY <1>2, <1>3

LEMMA CarriesOn ==
  ASSUME NEW S, NEW T, NEW U, Carries(S, T), Carries(T, U)
  PROVE  Carries(S, U)
  BY DEF Carries

(* The current milestone changes.                                          *)
LEMMA MilestoneChanges ==
  ASSUME NEW ms, SoundList(ms), NEW m, m = FirstWithout(ms, "completed"), m # 0, NEW st, NEW T,
         WellMade(T), Carries(ms[m].tasks, T),
         st = "completed" => \A t \in DOMAIN T : T[t].status # "pending"
  PROVE  LET ns == [ms EXCEPT ![m] = [status |-> st, tasks |-> T]] IN SoundList(ns) /\ CarriesAll(ms, ns)
  <1> DEFINE x == [status |-> st, tasks |-> T]
             ns == [ms EXCEPT ![m] = x]
  <1>0. DOMAIN ms \subseteq Nat \ {0} BY DEF SoundList
  <1>1. m \in DOMAIN ms /\ ms[m].status # "completed"
        /\ \A i \in DOMAIN ms : ms[i].status # "completed" => m <= i
    BY <1>0, FirstIs
  <1>2. x.status = st /\ x.tasks = T OBVIOUS
  <1> HIDE DEF x
  <1>3. /\ DOMAIN ns = DOMAIN ms /\ ns = [i \in DOMAIN ms |-> ns[i]] /\ ns[m] = x
        /\ \A i \in DOMAIN ms : i # m => ns[i] = ms[i]
    BY <1>1 DEF SoundList
  <1> HIDE DEF ns
  <1>4. \A i \in DOMAIN ns : WellMade(ns[i].tasks) BY <1>2, <1>3 DEF SoundList
  <1>5. ASSUME NEW a \in DOMAIN ns, NEW b \in DOMAIN ns, a < b, ns[a].status # "completed" PROVE Untouched(ns[b])
    <2>1. a \in Nat /\ b \in Nat /\ m \in Nat BY <1>0, <1>1, <1>3
    <2>2. ms[a].status # "completed" BY <1>1, <1>3, <1>5
    <2>3. b # m BY <1>1, <1>3, <1>5, <2>1, <2>2
    <2>4. Untouched(ms[b]) BY <1>3, <1>5, <2>2 DEF SoundList
    <2> QED BY <1>3, <2>3, <2>4
  <1>6. \A i \in DOMAIN ns : ns[i].status = "completed" => \A t \in DOMAIN ns[i].tasks : ns[i].tasks[t].status # "pending"
    BY <1>2, <1>3 DEF SoundList
  <1>7. \A i \in DOMAIN ms : Carries(ms[i].tasks, ns[i].tasks)
    <2>1. \A i \in DOMAIN ms : Carries(ms[i].tasks, ms[i].tasks) BY DEF Carries
    <2> QED BY <1>2, <1>3, <2>1
  <1>8. SoundList(ns) BY <1>0, <1>3, <1>4, <1>5, <1>6 DEF SoundList
  <1> QED BY <1>3, <1>7, <1>8 DEF CarriesAll, ns, x

(* What the plan keeps of itself: a step completed wherever it is.         *)
Follows(p, q) == \A step \in CompletedSteps(p) : AllCompleted(p, step) => AllCompleted(q, step)

LEMMA PlacesIs ==
  ASSUME NEW plan, NEW p
  PROVE  p \in Places(plan) <=> \E m \in DOMAIN plan.milestones : \E t \in DOMAIN plan.milestones[m].tasks : p = <<m, t>>
  BY DEF Places

LEMMA CarriesFollows ==
  ASSUME NEW p, NEW q, CarriesAll(p.milestones, q.milestones)
  PROVE  Follows(p, q) /\ \A step : AllCompleted(p, step) => AllCompleted(q, step)
  <1>1. ASSUME NEW step, AllCompleted(p, step), NEW a \in Places(q), TaskAt(q, a).step = step
        PROVE  TaskAt(q, a).status = "completed"
    <2>0. PICK m \in DOMAIN q.milestones : \E t \in DOMAIN q.milestones[m].tasks : a = <<m, t>> BY <1>1, PlacesIs
    <2>1. PICK t \in DOMAIN q.milestones[m].tasks : a = <<m, t>> BY <2>0
    <2>2. m \in DOMAIN p.milestones /\ Carries(p.milestones[m].tasks, q.milestones[m].tasks) BY DEF CarriesAll
    <2>3. t \in DOMAIN p.milestones[m].tasks BY <2>2 DEF Carries
    <2>4. a \in Places(p) BY <2>1, <2>2, <2>3, PlacesIs
    <2>5. TaskAt(p, a) = p.milestones[m].tasks[t] /\ TaskAt(q, a) = q.milestones[m].tasks[t] BY <2>1 DEF TaskAt
    <2>6. TaskAt(p, a).step = step BY <1>1, <2>2, <2>3, <2>5 DEF Carries
    <2>7. TaskAt(p, a).status = "completed" BY <1>1, <2>4, <2>6 DEF AllCompleted
    <2> QED BY <2>2, <2>3, <2>5, <2>7 DEF Carries
  <1> QED BY <1>1 DEF Follows, AllCompleted

LEMMA NothingPlanned ==
  Sound(NoPlan) /\ Current(NoPlan) = 0 /\ CompletedSteps(NoPlan) = {} /\ \A step : AllCompleted(NoPlan, step)
  <1>1. DOMAIN NoPlan.milestones = {} /\ NoPlan.milestones = [m \in {} |-> NoPlan.milestones[m]] BY DEF NoPlan
  <1>2. \A p : p \notin Places(NoPlan) BY <1>1, PlacesIs
  <1>3. SoundList(NoPlan.milestones) BY <1>1 DEF SoundList
  <1>4. NoPlan = [revision |-> NoPlan.revision, status |-> NoPlan.status, milestones |-> NoPlan.milestones] BY DEF NoPlan
  <1>5. Current(NoPlan) = 0 BY <1>1, FirstIs DEF Current
  <1> QED BY <1>2, <1>3, <1>4, <1>5 DEF Sound, CompletedSteps, AllCompleted

LEMMA SamePlan ==
  ASSUME NEW ms
  PROVE  CarriesAll(ms, ms)
  BY DEF CarriesAll, Carries

LEMMA AdvanceSound ==
  ASSUME NEW plan, Sound(plan)
  PROVE  Sound(Advance(plan)) /\ CarriesAll(plan.milestones, Advance(plan).milestones)
  <1> DEFINE m == Current(plan)
             ms == plan.milestones
             T == SetTask(ms[m].tasks, FirstWith(ms[m].tasks, "pending"), "in_progress")
             ns == [ms EXCEPT ![m] = [status |-> "in_progress", tasks |-> T]]
  <1>0. SoundList(ms) BY DEF Sound
  <1>1. CASE plan = NoPlan BY <1>1, SamePlan DEF Advance
  <1>2. CASE plan # NoPlan /\ m = 0
    <2>1. Advance(plan) = [plan EXCEPT !.status = "in_progress"] BY <1>2 DEF Advance, Sound
    <2>2. Advance(plan).milestones = ms
          /\ Advance(plan) = [revision |-> plan.revision, status |-> "in_progress", milestones |-> ms]
      BY <2>1 DEF Sound
    <2> QED BY <1>0, <2>2, SamePlan DEF Sound
  <1>3. CASE plan # NoPlan /\ m # 0
    <2>1. m \in DOMAIN ms /\ m = FirstWithout(ms, "completed") BY <1>0, <1>3, FirstIs DEF SoundList, Current
    <2>2. WellMade(ms[m].tasks) BY <1>0, <2>1 DEF SoundList
    <2>3. WellMade(T) /\ Carries(ms[m].tasks, T) BY <2>2, SetTaskCarries
    <2>4. SoundList(ns) /\ CarriesAll(ms, ns)
      <3> HIDE DEF m, ms, T
      <3> QED BY <1>0, <1>3, <2>1, <2>3, MilestoneChanges
    <2>5. Advance(plan) = [revision |-> plan.revision, status |-> "in_progress", milestones |-> ns]
      BY <1>3 DEF Advance, Sound
    <2>6. Advance(plan).milestones = ns BY <2>5
    <2> HIDE DEF ns
    <2> QED BY <2>4, <2>5, <2>6 DEF Sound
  <1> QED BY <1>1, <1>2, <1>3

LEMMA ProgressSound ==
  ASSUME NEW plan, Sound(plan)
  PROVE  Sound(Progress(plan)) /\ CarriesAll(plan.milestones, Progress(plan).milestones)
  <1> DEFINE m == Current(plan)
             ms == plan.milestones
             S == ms[m].tasks
             T == SetTask(S, FirstWith(S, "in_progress"), "completed")
             U == SetTask(T, FirstWith(T, "pending"), "in_progress")
             st == IF FirstWith(T, "pending") = 0 THEN "completed" ELSE ms[m].status
             ns == [ms EXCEPT ![m] = [status |-> st, tasks |-> U]]
  <1>0. SoundList(ms) BY DEF Sound
  <1>1. CASE m = 0 BY <1>1, SamePlan DEF Progress
  <1>2. CASE m # 0
    <2>1. m \in DOMAIN ms /\ m = FirstWithout(ms, "completed") /\ ms[m].status # "completed"
      BY <1>0, <1>2, FirstIs DEF SoundList, Current
    <2>2. WellMade(S) BY <1>0, <2>1 DEF SoundList
    <2>3. WellMade(T) /\ Carries(S, T)
      <3> HIDE DEF S
      <3> QED BY <2>2, SetTaskCarries
    <2>4. WellMade(U) /\ Carries(T, U)
      <3> HIDE DEF T
      <3> QED BY <2>3, SetTaskCarries
    <2>5. Carries(S, U)
      <3> HIDE DEF S, T, U
      <3> QED BY <2>3, <2>4, CarriesOn
    <2>6. st = "completed" => \A t \in DOMAIN U : U[t].status # "pending"
      <3>1. CASE FirstWith(T, "pending") = 0
        <4>1. U = T BY <3>1 DEF SetTask
        <4>2. \A t \in DOMAIN T : T[t].status # "pending"
          <5> HIDE DEF T
          <5> QED BY <2>3, <3>1, FirstIs DEF WellMade
        <4> QED BY <4>1, <4>2
      <3>2. CASE FirstWith(T, "pending") # 0 BY <2>1, <3>2
      <3> QED BY <3>1, <3>2
    <2>7. Progress(plan) = [plan EXCEPT !.milestones = ns,
                              !.status = IF FirstWithout(ns, "completed") = 0 THEN "completed" ELSE @]
      BY <1>2 DEF Progress
    <2>8. SoundList(ns) /\ CarriesAll(ms, ns)
      <3> HIDE DEF m, ms, st, U
      <3> QED BY <1>0, <1>2, <2>1, <2>4, <2>5, <2>6, MilestoneChanges DEF S
    <2> HIDE DEF ns
    <2>9. PICK x : Progress(plan) = [revision |-> plan.revision, status |-> x, milestones |-> ns] BY <2>7 DEF Sound
    <2>10. Progress(plan).milestones = ns BY <2>9
    <2> QED BY <2>8, <2>9, <2>10 DEF Sound
  <1> QED BY <1>1, <1>2

LEMMA FinishedSound ==
  ASSUME NEW plan, Sound(plan), NEW status
  PROVE  Sound(Finished(plan, status)) /\ CarriesAll(plan.milestones, Finished(plan, status).milestones)
  <1> DEFINE m == Current(plan)
             ms == plan.milestones
             all == [i \in DOMAIN ms |-> [status |-> "completed",
                       tasks |-> [t \in DOMAIN ms[i].tasks |-> Task(ms[i].tasks[t].step, "completed")]]]
             T == SetTask(ms[m].tasks, FirstWith(ms[m].tasks, "in_progress"), "blocked")
             stuck == IF m = 0 THEN ms ELSE [ms EXCEPT ![m] = [status |-> "blocked", tasks |-> T]]
  <1>0. SoundList(ms) BY DEF Sound
  <1>1. CASE plan = NoPlan \/ status = "cancelled" BY <1>1, SamePlan DEF Finished
  <1>2. CASE plan # NoPlan /\ status = "done"
    <2>1. /\ DOMAIN all = DOMAIN ms /\ all = [i \in DOMAIN ms |-> all[i]]
          /\ \A i \in DOMAIN ms : /\ all[i].status = "completed" /\ DOMAIN all[i].tasks = DOMAIN ms[i].tasks
                                  /\ \A t \in DOMAIN ms[i].tasks : all[i].tasks[t] = Task(ms[i].tasks[t].step, "completed")
                                  /\ all[i].tasks = [t \in DOMAIN ms[i].tasks |-> all[i].tasks[t]]
      OBVIOUS
    <2>2. Finished(plan, status) = [revision |-> plan.revision, status |-> "completed", milestones |-> all]
      BY <1>2 DEF Finished, Sound
    <2> HIDE DEF all
    <2>3. \A i \in DOMAIN ms : \A t \in DOMAIN ms[i].tasks :
            all[i].tasks[t].step = ms[i].tasks[t].step /\ all[i].tasks[t].status = "completed"
      <3>1. \A s, c : Task(s, c).step = s /\ Task(s, c).status = c BY DEF Task
      <3> SUFFICES ASSUME NEW i \in DOMAIN ms, NEW t \in DOMAIN ms[i].tasks
                   PROVE  all[i].tasks[t].step = ms[i].tasks[t].step /\ all[i].tasks[t].status = "completed"
        OBVIOUS
      <3>2. all[i].tasks[t] = Task(ms[i].tasks[t].step, "completed") BY <2>1
      <3> QED BY <3>1, <3>2
    <2>4. CarriesAll(ms, all) BY <2>1, <2>3 DEF CarriesAll, Carries
    <2>5. \A i \in DOMAIN ms : WellMade(all[i].tasks)
      <3> SUFFICES ASSUME NEW i \in DOMAIN ms PROVE WellMade(all[i].tasks) OBVIOUS
      <3>1. DOMAIN all[i].tasks \subseteq Nat \ {0} BY <1>0, <2>1 DEF SoundList, WellMade
      <3>2. \A t \in DOMAIN ms[i].tasks : all[i].tasks[t] = Task(all[i].tasks[t].step, all[i].tasks[t].status)
        BY <2>1, <2>3
      <3> QED BY <2>1, <3>1, <3>2 DEF WellMade
    <2>6. SoundList(all) BY <1>0, <2>1, <2>3, <2>5 DEF SoundList
    <2>7. Finished(plan, status).milestones = all BY <2>2
    <2> QED BY <2>2, <2>4, <2>6, <2>7 DEF Sound
  <1>3. CASE plan # NoPlan /\ status \notin {"cancelled", "done"}
    <2>1. Finished(plan, status) = [revision |-> plan.revision, status |-> "blocked", milestones |-> stuck]
      BY <1>3 DEF Finished, Sound
    <2>2. SoundList(stuck) /\ CarriesAll(ms, stuck)
      <3>1. CASE m = 0 BY <1>0, <3>1, SamePlan
      <3>2. CASE m # 0
        <4>1. m \in DOMAIN ms /\ m = FirstWithout(ms, "completed") BY <1>0, <3>2, FirstIs DEF SoundList, Current
        <4>2. WellMade(ms[m].tasks) BY <1>0, <4>1 DEF SoundList
        <4>3. WellMade(T) /\ Carries(ms[m].tasks, T) BY <4>2, SetTaskCarries
        <4> HIDE DEF m, ms, T
        <4> QED BY <1>0, <3>2, <4>1, <4>3, MilestoneChanges
      <3> QED BY <3>1, <3>2
    <2> HIDE DEF stuck
    <2>3. Finished(plan, status).milestones = stuck BY <2>1
    <2> QED BY <2>1, <2>2, <2>3 DEF Sound
  <1> QED BY <1>1, <1>2, <1>3

(* A plan of steps that nobody has begun, and one made from another.       *)
LEMMA PlanOfSound ==
  ASSUME NEW steps
  PROVE  Sound(PlanOf(steps))
  <1> DEFINE kept == Min({MaxSteps, Len(steps)})
             Skipped(m) == (m - 1) * MilestoneSize
             X == (kept + MilestoneSize - 1) \div MilestoneSize
             W(m) == Min({MilestoneSize, kept - Skipped(m)})
             S(m, t) == steps[Skipped(m) + t]
             ms == [m \in 1 .. X |-> [status |-> "pending", tasks |-> [t \in 1 .. W(m) |-> Task(S(m, t), "pending")]]]
  <1>1. PlanOf(steps) = [revision |-> 1, status |-> "pending", milestones |-> ms] BY DEF PlanOf
  <1> HIDE DEF X, W, S
  <1>2. /\ DOMAIN ms = 1 .. X /\ ms = [m \in DOMAIN ms |-> ms[m]]
        /\ \A m \in DOMAIN ms : /\ ms[m].status = "pending"
                                /\ ms[m].tasks = [t \in 1 .. W(m) |-> Task(S(m, t), "pending")]
    OBVIOUS
  <1> HIDE DEF ms
  <1>3. ASSUME NEW m \in DOMAIN ms PROVE WellMade(ms[m].tasks) /\ Untouched(ms[m])
    <2>1. /\ DOMAIN ms[m].tasks = 1 .. W(m)
          /\ \A t \in DOMAIN ms[m].tasks : ms[m].tasks[t] = Task(S(m, t), "pending")
          /\ ms[m].tasks = [t \in DOMAIN ms[m].tasks |-> ms[m].tasks[t]]
      BY <1>2
    <2>2. DOMAIN ms[m].tasks \subseteq Nat \ {0} BY <2>1
    <2>3. \A s, c : Task(s, c).step = s /\ Task(s, c).status = c BY DEF Task
    <2>4. \A t \in DOMAIN ms[m].tasks : /\ ms[m].tasks[t].status = "pending"
                                        /\ ms[m].tasks[t] = Task(ms[m].tasks[t].step, ms[m].tasks[t].status)
      BY <2>1, <2>3
    <2> QED BY <1>2, <2>1, <2>2, <2>4 DEF WellMade, Untouched
  <1>4. DOMAIN ms \subseteq Nat \ {0} BY <1>2
  <1>5. SoundList(ms) BY <1>2, <1>3, <1>4 DEF SoundList
  <1>6. PlanOf(steps).milestones = ms /\ PlanOf(steps).revision = 1 /\ PlanOf(steps).status = "pending" BY <1>1
  <1> QED BY <1>1, <1>5, <1>6 DEF Sound

LEMMA RevisedSound ==
  ASSUME NEW plan, NEW steps
  PROVE  Sound(Revised(plan, steps)) /\ Follows(plan, Revised(plan, steps))
  <1> DEFINE S == [t \in 1 .. Len(steps) |->
                    Task(steps[t], IF steps[t] \in CompletedSteps(plan) THEN "completed" ELSE "pending")]
             x == [status |-> "pending", tasks |-> S]
             base == [revision |-> plan.revision + 1, status |-> "in_progress", milestones |-> <<x>>]
  <1>1. Revised(plan, steps) = Advance(base) BY DEF Revised
  <1>2. \A s, c : Task(s, c).step = s /\ Task(s, c).status = c BY DEF Task
  <1>3. /\ DOMAIN S \subseteq Nat \ {0} /\ S = [t \in DOMAIN S |-> S[t]]
        /\ \A t \in DOMAIN S : /\ S[t] = Task(S[t].step, S[t].status)
                               /\ S[t].step \in CompletedSteps(plan) => S[t].status = "completed"
    BY <1>2
  <1>4. WellMade(S) BY <1>3 DEF WellMade
  <1>5. x.status = "pending" /\ x.tasks = S OBVIOUS
  <1>6. base.milestones = <<x>> /\ base = [revision |-> base.revision, status |-> base.status, milestones |-> base.milestones]
    OBVIOUS
  <1> HIDE DEF S, x, base
  <1>7. DOMAIN <<x>> = {1} /\ <<x>>[1] = x /\ <<x>> = [m \in {1} |-> <<x>>[m]] OBVIOUS
  <1>8. SoundList(<<x>>)
    <2> DEFINE ms == <<x>>
    <2>1. DOMAIN ms = {1} /\ ms[1] = x /\ ms = [m \in {1} |-> ms[m]] BY <1>7
    <2> HIDE DEF ms
    <2>2. SoundList(ms) BY <1>4, <1>5, <2>1 DEF SoundList
    <2> QED BY <2>2 DEF ms
  <1>9. Sound(base) BY <1>6, <1>8 DEF Sound
  <1>10. ASSUME NEW step \in CompletedSteps(plan) PROVE AllCompleted(base, step)
    <2> SUFFICES ASSUME NEW p \in Places(base), TaskAt(base, p).step = step PROVE TaskAt(base, p).status = "completed"
      BY DEF AllCompleted
    <2>1. PICK m \in DOMAIN base.milestones : \E t \in DOMAIN base.milestones[m].tasks : p = <<m, t>> BY PlacesIs
    <2>2. PICK t \in DOMAIN base.milestones[m].tasks : p = <<m, t>> BY <2>1
    <2>3. base.milestones[m].tasks = S BY <1>5, <1>6, <1>7
    <2>4. TaskAt(base, p) = S[t] BY <2>2, <2>3 DEF TaskAt
    <2> QED BY <1>3, <2>2, <2>3, <2>4
  <1>11. Sound(Advance(base)) /\ CarriesAll(base.milestones, Advance(base).milestones) BY <1>9, AdvanceSound
  <1>12. \A step : AllCompleted(base, step) => AllCompleted(Advance(base), step) BY <1>11, CarriesFollows
  <1> QED BY <1>1, <1>10, <1>11, <1>12 DEF Follows

(* What a step makes of the plan.                                          *)
PlanStep == PlanInv' /\ (structured' = structured /\ worked \subseteq worked' => Follows(planned, planned'))

LEMMA BeginStep ==
  ASSUME PlanInv, NEW mode, NEW resume, BeginPlanRun(mode, resume)
  PROVE  PlanStep
  <1> DEFINE kept == resume /\ (planStatus # "done" \/ (mode = "code" /\ planMode = "plan" /\ structured))
             steps == IF kept THEN currentPlan ELSE <<>>
             plan == IF ~kept THEN NoPlan ELSE planned
             chosen == IF plan = NoPlan /\ steps # <<>> THEN PlanOf(steps) ELSE plan
  <1>1. planned' = Advance(chosen) /\ milestone' = Current(Advance(chosen)) BY DEF BeginPlanRun, Store
  <1>2. Sound(chosen)
    <2>1. Sound(plan) BY NothingPlanned DEF PlanInv
    <2> QED BY <2>1, PlanOfSound
  <1>3. Follows(planned, Advance(chosen))
    <2>1. CASE kept /\ planned # NoPlan
      <3>1. chosen = planned BY <2>1
      <3>2. CarriesAll(planned.milestones, Advance(planned).milestones) BY AdvanceSound DEF PlanInv
      <3> QED BY <3>1, <3>2, CarriesFollows
    <2>2. CASE planned = NoPlan BY <2>2, NothingPlanned DEF Follows
    <2>3. CASE ~kept
      <3>1. Advance(chosen) = NoPlan BY <2>3 DEF Advance
      <3> QED BY <3>1, NothingPlanned DEF Follows
    <2> QED BY <2>1, <2>2, <2>3
  <1> HIDE DEF chosen
  <1>4. Sound(Advance(chosen)) BY <1>2, AdvanceSound
  <1> QED BY <1>1, <1>3, <1>4 DEF PlanStep, PlanInv

LEMMA AnswerStep ==
  ASSUME PlanInv, NEW answer, RevisePlan(answer) \/ AdoptPlan(answer) \/ StructurePlan(answer)
  PROVE  PlanStep
  <1>1. CASE RevisePlan(answer)
    <2>1. planned' = Revised(planned, Extracted(answer)) /\ milestone' = Current(Revised(planned, Extracted(answer)))
      BY <1>1 DEF RevisePlan, Store
    <2> QED BY <2>1, RevisedSound DEF PlanStep, PlanInv
  <1>2. CASE AdoptPlan(answer)
    <2> DEFINE P == PlanOf(Extracted(answer))
    <2>1. planned = NoPlan /\ planned' = Advance(P) /\ milestone' = Current(Advance(P)) BY <1>2 DEF AdoptPlan, Store
    <2>2. Sound(P) BY PlanOfSound
    <2> HIDE DEF P
    <2>3. Sound(Advance(P)) BY <2>2, AdvanceSound
    <2>4. Follows(planned, Advance(P)) BY <2>1, NothingPlanned DEF Follows
    <2> QED BY <2>1, <2>3, <2>4 DEF PlanStep, PlanInv
  <1>3. CASE StructurePlan(answer)
    <2> DEFINE P == PlanOf(answer)
    <2>1. planned' = Advance(P) /\ milestone' = Current(Advance(P)) /\ ~structured /\ structured'
      BY <1>3 DEF StructurePlan, Store
    <2>2. Sound(P) BY PlanOfSound
    <2> HIDE DEF P
    <2>3. Sound(Advance(P)) BY <2>2, AdvanceSound
    <2>4. ~(structured' = structured) BY <2>1
    <2> QED BY <2>1, <2>3, <2>4 DEF PlanStep, PlanInv
  <1> QED BY <1>1, <1>2, <1>3

LEMMA WorkStep ==
  ASSUME PlanInv, RecordProgress \/ (\E status \in EndStatuses : EndPlanRun(status)) \/ FailPlanRun \/ UNCHANGED planVars
  PROVE  PlanStep
  <1>1. CASE RecordProgress
    <2>1. planned' = Progress(planned) /\ milestone' = Current(Progress(planned)) BY <1>1 DEF RecordProgress, Store
    <2>2. Sound(Progress(planned)) /\ Follows(planned, Progress(planned)) BY ProgressSound, CarriesFollows DEF PlanInv
    <2> QED BY <2>1, <2>2 DEF PlanStep, PlanInv
  <1>2. CASE \E status \in EndStatuses : EndPlanRun(status)
    <2>1. PICK status \in EndStatuses : planned' = Finished(planned, status) /\ milestone' = Current(Finished(planned, status))
      BY <1>2 DEF EndPlanRun, Store
    <2>2. Sound(Finished(planned, status)) /\ Follows(planned, Finished(planned, status))
      BY FinishedSound, CarriesFollows DEF PlanInv
    <2> QED BY <2>1, <2>2 DEF PlanStep, PlanInv
  <1>3. CASE FailPlanRun \/ UNCHANGED planVars
    <2>1. planned' = planned /\ milestone' = milestone BY <1>3 DEF FailPlanRun, planVars
    <2> QED BY <2>1 DEF PlanStep, PlanInv, Follows
  <1> QED BY <1>1, <1>2, <1>3

(* advance_execution_plan, record_plan_progress, revise_execution_plan and *)
(* finish_plan_state: over any number of runs, interrupted and resumed,    *)
(* the plan is worked in order, the goal names the milestone it is at, no  *)
(* milestone is closed over a step that nobody began (over one left        *)
(* blocked it may be), and no step that was completed is lost.             *)
THEOREM PlanFollowed == PlanSpec => PlanIsFollowed
  <1>1. PlanInit => PlanInv BY NothingPlanned DEF PlanInit, PlanInv
  <1>2. PlanInv /\ [PlanNext]_planVars => PlanStep
    <2> SUFFICES ASSUME PlanInv, [PlanNext]_planVars PROVE PlanStep OBVIOUS
    <2>1. CASE \E mode \in {"code", "plan"}, resume \in BOOLEAN : BeginPlanRun(mode, resume) BY <2>1, BeginStep
    <2>2. CASE \E answer \in Answers : RevisePlan(answer) \/ AdoptPlan(answer) \/ StructurePlan(answer) BY <2>2, AnswerStep
    <2>3. CASE RecordProgress \/ (\E status \in EndStatuses : EndPlanRun(status)) \/ FailPlanRun \/ UNCHANGED planVars
      BY <2>3, WorkStep
    <2> QED BY <2>1, <2>2, <2>3 DEF PlanNext
  <1>3. PlanInv => MilestoneInSync /\ WorkedInOrder /\ NoStepForgotten
    <2> SUFFICES ASSUME PlanInv PROVE MilestoneInSync /\ WorkedInOrder /\ NoStepForgotten OBVIOUS
    <2> DEFINE ms == planned.milestones
    <2>1. SoundList(ms) /\ milestone = Current(planned) BY DEF PlanInv, Sound
    <2>2. \A m \in DOMAIN ms : DOMAIN ms[m].tasks \subseteq Nat \ {0} BY <2>1 DEF SoundList, WellMade
    <2>3. ASSUME Current(planned) # 0, NEW m \in DOMAIN ms, m > Current(planned)
          PROVE  ms[m].status = "pending" /\ FirstWithout(ms[m].tasks, "pending") = 0
      <3>1. Current(planned) \in DOMAIN ms /\ ms[Current(planned)].status # "completed"
        BY <2>1, <2>3, FirstIs DEF SoundList, Current
      <3>2. m \in Nat /\ Current(planned) \in Nat BY <2>1, <3>1 DEF SoundList
      <3>3. Untouched(ms[m]) BY <2>1, <2>3, <3>1, <3>2 DEF SoundList
      <3> QED BY <2>2, <3>3, FirstIs DEF Untouched
    <2>4. ASSUME NEW m \in DOMAIN ms, ms[m].status = "completed" PROVE FirstWith(ms[m].tasks, "pending") = 0
      BY <2>1, <2>2, <2>4, FirstIs DEF SoundList
    <2> QED BY <2>1, <2>3, <2>4 DEF MilestoneInSync, WorkedInOrder, NoStepForgotten
  <1> DEFINE Kept == structured' = structured /\ worked \subseteq worked' =>
                       \A step \in CompletedSteps(planned) : AllCompleted(planned, step) => AllCompleted(planned', step)
  <1>4. PlanInv /\ [PlanNext]_planVars => PlanInv' BY <1>2 DEF PlanStep
  <1>5. PlanInv /\ [PlanNext]_planVars => [Kept]_planVars BY <1>2 DEF PlanStep, Follows
  <1>6. CompletedStepsKept <=> [][Kept]_planVars BY DEF CompletedStepsKept
  <1> HIDE DEF Kept
  <1>7. PlanSpec => CompletedStepsKept BY <1>1, <1>4, <1>5, <1>6, PTL DEF PlanSpec
  <1>8. PlanSpec => [](MilestoneInSync /\ WorkedInOrder /\ NoStepForgotten) BY <1>1, <1>3, <1>4, PTL DEF PlanSpec
  <1> QED BY <1>7, <1>8 DEF PlanIsFollowed

-----------------------------------------------------------------------------
(***************************************************************************)
(* THE REPOSITORY INDEX.                                                   *)
(***************************************************************************)
Nameable(p) == p \in DOMAIN tree /\ tree[p].size <= MaxFileBytes /\ tree[p].kind = "text"
(* The name known of a manifest is the one its file has, or neither is.    *)
NameFits(m) ==
  /\ m \in DOMAIN packages <=> Nameable(m)
  /\ m \in DOMAIN packages => packages[m] = tree[m].version

Whole(r) == r = [version |-> r.version, size |-> r.size, contents |-> r.contents, package |-> r.package]
IndexTypes ==
  /\ DOMAIN tree \subseteq AllPaths /\ DOMAIN records \subseteq AllPaths /\ scan.todo \subseteq AllPaths
  /\ writes \in Nat /\ indexedBytes \in Nat
  /\ \A p \in DOMAIN tree : tree[p].version \in Nat \ {0} /\ tree[p].version <= writes /\ tree[p].size \in Nat
  /\ \A p \in DOMAIN records : records[p].version \in Nat /\ records[p].version <= writes /\ records[p].size \in Nat
  /\ \A p \in DOMAIN records : Whole(records[p])
  /\ scan = [kind |-> scan.kind, todo |-> scan.todo, at |-> scan.at, stat |-> scan.stat,
             manifestChanged |-> scan.manifestChanged, calm |-> scan.calm]
  /\ scan.kind \in {"idle", "build", "refresh", "update"} /\ scan.at \in {"path", "update", "read"}
  /\ {built, settled, missed, scan.manifestChanged, scan.calm} \subseteq BOOLEAN
  /\ packages = [m \in DOMAIN packages |-> packages[m]] /\ DOMAIN packages \subseteq Manifests

(* Where a scan is, and who may be in the index meanwhile.                 *)
ScanShape ==
  /\ scan.kind = "idle" => scan.at = "path" /\ scan.todo = {} /\ ~scan.manifestChanged
  /\ scan.at # "path" => scan.todo # {}
  /\ scan.at = "update" => scan.kind = "refresh"
  /\ scan.at = "read" => /\ CurrentPath \in WithLanguage /\ CurrentPath \notin DOMAIN records
                         /\ scan.stat.version \in Nat /\ scan.stat.version <= writes /\ scan.stat.size \in Nat
  /\ scan.kind # "idle" => ~settled
  /\ scan.kind = "build" => ~built /\ ~scan.manifestChanged
  /\ scan.kind \in {"refresh", "update"} => built

BytesHeld ==
  /\ indexedBytes = HeldBytes(records) /\ indexedBytes <= MaxTotalBytes
  /\ scan.at = "read" => indexedBytes + scan.stat.size <= MaxTotalBytes

(* What a scan that nothing disturbs has dealt with is up to date.         *)
UpToDate(p) == p \in DOMAIN tree /\ records[p].version = tree[p].version
CalmScan ==
  /\ scan.kind \in {"build", "refresh"} /\ scan.calm =>
       /\ DOMAIN records \cup scan.todo \in Enumerations
       /\ \A p \in DOMAIN records \ scan.todo : UpToDate(p)
       /\ scan.at = "read" => CurrentPath \in DOMAIN tree /\ scan.stat = tree[CurrentPath]
  /\ settled => DOMAIN records \in Enumerations /\ \A p \in DOMAIN records : UpToDate(p)

(* Unless a scan is to read the names anew, the name of a manifest is the  *)
(* one it had when it was recorded.                                        *)
NamesKnown ==
  /\ \A p \in DOMAIN records : records[p].package = PackageIn(packages, p)
  /\ scan.kind = "build" /\ ~missed =>
       DOMAIN packages \subseteq DOMAIN records \cup scan.todo /\ \A m \in Manifests : NameFits(m)
  /\ built /\ ~missed /\ ~scan.manifestChanged =>
       /\ DOMAIN packages \subseteq DOMAIN records
       /\ \A m \in Manifests \cap DOMAIN records : UpToDate(m) => NameFits(m)
  /\ scan.at = "update" /\ CurrentPath \in Manifests => scan.manifestChanged
  /\ scan.kind = "update" /\ ~scan.manifestChanged => scan.todo \cap Manifests = {}
  /\ settled /\ ~missed /\ AllFit => \A m \in Manifests : NameFits(m)

IndexInv == IndexTypes /\ ScanShape /\ BytesHeld /\ MetadataTellsChanges /\ CalmScan /\ NamesKnown

(* Sums over the first N numbers, by the least N that would be wrong.      *)
Sums(f, v, N) == f \in [0 .. N -> Nat] /\ f[0] = 0 /\ \A n \in 1 .. N : f[n] = f[n - 1] + v[n]

LEMMA SumExists ==
  ASSUME NEW N \in Nat, NEW v, \A n \in 1 .. N : v[n] \in Nat
  PROVE  \E f : Sums(f, v, N)
  <1> DEFINE Bad == {k \in 0 .. N : ~\E f : Sums(f, v, k)}
  <1>1. CASE Bad = {} BY <1>1
  <1>2. CASE Bad # {}
    <2>0. Bad \in SUBSET Nat OBVIOUS
    <2>1. PICK k \in Bad : \A j \in Bad : k <= j
      <3> HIDE DEF Bad
      <3> QED BY <1>2, <2>0, LeastOf
    <2>2. k # 0
      <3>1. Sums([i \in 0 .. 0 |-> 0], v, 0) BY DEF Sums
      <3> QED BY <2>1, <3>1
    <2>3. k \in Nat /\ k - 1 \in 0 .. N /\ k - 1 \notin Bad BY <2>1, <2>2
    <2>4. PICK f : Sums(f, v, k - 1) BY <2>3
    <2> DEFINE g == [i \in 0 .. k |-> IF i < k THEN f[i] ELSE f[k - 1] + v[k]]
    <2>5. Sums(g, v, k)
      <3>1. k - 1 \in Nat /\ f \in [0 .. k - 1 -> Nat] /\ v[k] \in Nat BY <2>1, <2>2, <2>3, <2>4 DEF Sums
      <3>2. g \in [0 .. k -> Nat] BY <2>3, <3>1
      <3>3. g[0] = 0 BY <2>2, <2>3, <2>4 DEF Sums
      <3>4. ASSUME NEW n \in 1 .. k PROVE g[n] = g[n - 1] + v[n]
        <4>1. CASE n < k
          <5>1. n \in 1 .. k - 1 /\ n - 1 < k /\ n - 1 \in 0 .. k BY <2>3, <4>1
          <5>2. f[n] = f[n - 1] + v[n] BY <2>4, <5>1 DEF Sums
          <5> QED BY <4>1, <5>1, <5>2
        <4>2. CASE n = k
          <5>1. n - 1 < k /\ n - 1 \in 0 .. k /\ n \in 0 .. k BY <2>3, <4>2
          <5> QED BY <2>3, <4>2, <5>1
        <4> QED BY <2>3, <4>1, <4>2
      <3> HIDE DEF g
      <3> QED BY <3>2, <3>3, <3>4 DEF Sums
    <2> HIDE DEF g
    <2> QED BY <2>1, <2>5
  <1> QED BY <1>1, <1>2

LEMMA SumsAdd ==
  ASSUME NEW N \in Nat, NEW f, NEW g, NEW h, NEW u, NEW v, NEW w, Sums(f, u, N), Sums(g, v, N), Sums(h, w, N),
         \A n \in 1 .. N : v[n] \in Nat /\ w[n] \in Nat /\ u[n] = v[n] + w[n]
  PROVE  f[N] = g[N] + h[N]
  <1> DEFINE Bad == {k \in 0 .. N : f[k] # g[k] + h[k]}
  <1>1. CASE Bad = {} BY <1>1
  <1>2. CASE Bad # {}
    <2>0. Bad \in SUBSET Nat OBVIOUS
    <2>1. PICK k \in Bad : \A j \in Bad : k <= j
      <3> HIDE DEF Bad
      <3> QED BY <1>2, <2>0, LeastOf
    <2>2. k # 0 BY <2>1 DEF Sums
    <2>3. k \in 1 .. N /\ k - 1 \in 0 .. N /\ k - 1 \notin Bad BY <2>1, <2>2
    <2>4. f[k - 1] = g[k - 1] + h[k - 1] BY <2>3
    <2>5. f[k] = f[k - 1] + u[k] /\ g[k] = g[k - 1] + v[k] /\ h[k] = h[k - 1] + w[k] BY <2>3 DEF Sums
    <2>6. g[k - 1] \in Nat /\ h[k - 1] \in Nat /\ v[k] \in Nat /\ w[k] \in Nat /\ u[k] = v[k] + w[k] BY <2>3 DEF Sums
    <2>7. f[k] = g[k] + h[k] BY <2>4, <2>5, <2>6
    <2> QED BY <2>1, <2>7
  <1> QED BY <1>1, <1>2

(* A sum of which one number at most is not zero.                          *)
LEMMA SumsOne ==
  ASSUME NEW N \in Nat, NEW f, NEW v, Sums(f, v, N), NEW i \in 1 .. N, \A n \in 1 .. N : n # i => v[n] = 0, v[i] \in Nat
  PROVE  f[N] = v[i]
  <1> DEFINE Bad == {k \in 0 .. N : f[k] # IF k < i THEN 0 ELSE v[i]}
  <1>1. CASE Bad = {} BY <1>1
  <1>2. CASE Bad # {}
    <2>0. Bad \in SUBSET Nat OBVIOUS
    <2>1. PICK k \in Bad : \A j \in Bad : k <= j
      <3> HIDE DEF Bad
      <3> QED BY <1>2, <2>0, LeastOf
    <2>2. k # 0 BY <2>1 DEF Sums
    <2>3. k \in 1 .. N /\ k - 1 \in 0 .. N /\ k - 1 \notin Bad BY <2>1, <2>2
    <2>4. f[k - 1] = IF k - 1 < i THEN 0 ELSE v[i] BY <2>3
    <2>5. f[k] = f[k - 1] + v[k] BY <2>3 DEF Sums
    <2>6. k # i => v[k] = 0 BY <2>3
    <2>7. f[k] = IF k < i THEN 0 ELSE v[i] BY <2>3, <2>4, <2>5, <2>6
    <2> QED BY <2>1, <2>7
  <1> QED BY <1>1, <1>2

-----------------------------------------------------------------------------
(* The bytes that records hold.                                            *)
Counts(recs) == \A p \in AllPaths : Held(recs, p) \in Nat

LEMMA PathsAre ==
  /\ Len(SortedPaths) \in Nat /\ DOMAIN SortedPaths = 1 .. Len(SortedPaths)
  /\ \A n \in 1 .. Len(SortedPaths) : SortedPaths[n] \in AllPaths
  /\ \A p \in AllPaths : \E n \in 1 .. Len(SortedPaths) : SortedPaths[n] = p
  /\ \A m, n \in 1 .. Len(SortedPaths) : SortedPaths[m] = SortedPaths[n] => m = n
  BY IndexAssumption DEF ToSet, AllPaths, IsInjective

LEMMA HeldSum ==
  ASSUME NEW recs, Counts(recs)
  PROVE  \E f : /\ Sums(f, [n \in 1 .. Len(SortedPaths) |-> Held(recs, SortedPaths[n])], Len(SortedPaths))
                /\ HeldBytes(recs) = f[Len(SortedPaths)]
  <1> DEFINE N == Len(SortedPaths)
             v == [n \in 1 .. N |-> Held(recs, SortedPaths[n])]
             Eq(f) == f = [n \in 0 .. N |-> IF n = 0 THEN 0 ELSE f[n - 1] + Held(recs, SortedPaths[n])]
             s == CHOOSE f : Eq(f)
  <1>1. N \in Nat /\ \A n \in 1 .. N : v[n] \in Nat /\ v[n] = Held(recs, SortedPaths[n]) BY PathsAre DEF Counts
  <1>2. HeldBytes(recs) = s[N] BY DEF HeldBytes
  <1> HIDE DEF N, v
  <1>3. PICK f : Sums(f, v, N) BY <1>1, SumExists
  <1>4. Eq(f)
    <2>1. f = [n \in 0 .. N |-> f[n]] BY <1>3 DEF Sums
    <2>2. \A n \in 0 .. N : f[n] = IF n = 0 THEN 0 ELSE f[n - 1] + Held(recs, SortedPaths[n]) BY <1>1, <1>3 DEF Sums
    <2> QED BY <2>1, <2>2
  <1>5. Eq(s) BY <1>4, Zenon
  <1>6. s = [n \in 0 .. N |-> IF n = 0 THEN 0 ELSE s[n - 1] + Held(recs, SortedPaths[n])] BY <1>5
  <1> HIDE DEF s
  <1>7. \A n \in 0 .. N : s[n] = IF n = 0 THEN 0 ELSE s[n - 1] + v[n]
    <2> SUFFICES ASSUME NEW n \in 0 .. N PROVE s[n] = IF n = 0 THEN 0 ELSE s[n - 1] + v[n] OBVIOUS
    <2>1. s[n] = IF n = 0 THEN 0 ELSE s[n - 1] + Held(recs, SortedPaths[n]) BY <1>6
    <2> QED BY <1>1, <2>1
  <1>8. Sums(s, v, N)
    <2>1. \A n \in 0 .. N : s[n] \in Nat
      <3> DEFINE Bad == {n \in 0 .. N : s[n] \notin Nat}
      <3>1. CASE Bad = {} BY <3>1
      <3>2. CASE Bad # {}
        <4>0. Bad \in SUBSET Nat BY <1>1
        <4>1. PICK k \in Bad : \A j \in Bad : k <= j
          <5> HIDE DEF Bad
          <5> QED BY <3>2, <4>0, LeastOf
        <4>2. k # 0 BY <1>7, <4>1
        <4>3. k \in 1 .. N /\ k - 1 \in 0 .. N /\ k - 1 \notin Bad BY <1>1, <4>1, <4>2
        <4> QED BY <1>1, <1>7, <4>1, <4>3
      <3> QED BY <3>1, <3>2
    <2>2. s \in [0 .. N -> Nat] BY <1>6, <2>1
    <2>3. s[0] = 0 BY <1>1, <1>7
    <2>4. \A n \in 1 .. N : s[n] = s[n - 1] + v[n]
      <3> SUFFICES ASSUME NEW n \in 1 .. N PROVE s[n] = s[n - 1] + v[n] OBVIOUS
      <3>1. n \in 0 .. N /\ n # 0 BY <1>1
      <3> QED BY <1>7, <3>1
    <2> QED BY <2>2, <2>3, <2>4 DEF Sums
  <1> QED BY <1>2, <1>8 DEF N, v

LEMMA HeldAdds ==
  ASSUME NEW x, NEW y, NEW z, Counts(y), Counts(z), \A p \in AllPaths : Held(x, p) = Held(y, p) + Held(z, p)
  PROVE  HeldBytes(x) = HeldBytes(y) + HeldBytes(z) /\ HeldBytes(y) \in Nat /\ HeldBytes(z) \in Nat
  <1> DEFINE N == Len(SortedPaths)
             V(recs) == [n \in 1 .. N |-> Held(recs, SortedPaths[n])]
  <1>1. Counts(x) BY DEF Counts
  <1>2. N \in Nat BY PathsAre
  <1>3. PICK f : Sums(f, V(x), N) /\ HeldBytes(x) = f[N] BY <1>1, HeldSum
  <1>4. PICK g : Sums(g, V(y), N) /\ HeldBytes(y) = g[N] BY HeldSum
  <1>5. PICK h : Sums(h, V(z), N) /\ HeldBytes(z) = h[N] BY HeldSum
  <1>6. \A n \in 1 .. N : V(y)[n] \in Nat /\ V(z)[n] \in Nat /\ V(x)[n] = V(y)[n] + V(z)[n] BY PathsAre DEF Counts
  <1> HIDE DEF N, V
  <1>7. f[N] = g[N] + h[N] BY <1>2, <1>3, <1>4, <1>5, <1>6, SumsAdd
  <1>8. g[N] \in Nat /\ h[N] \in Nat BY <1>2, <1>4, <1>5 DEF Sums
  <1> QED BY <1>3, <1>4, <1>5, <1>7, <1>8

LEMMA HeldOne ==
  ASSUME NEW z, NEW p \in AllPaths, Held(z, p) \in Nat, \A q \in AllPaths : q # p => Held(z, q) = 0
  PROVE  HeldBytes(z) = Held(z, p)
  <1> DEFINE N == Len(SortedPaths)
             v == [n \in 1 .. N |-> Held(z, SortedPaths[n])]
  <1>1. Counts(z)
    <2> SUFFICES ASSUME NEW q \in AllPaths PROVE Held(z, q) \in Nat BY DEF Counts
    <2> QED BY q = p \/ q # p
  <1>2. PICK f : Sums(f, v, N) /\ HeldBytes(z) = f[N] BY <1>1, HeldSum
  <1>3. PICK i \in 1 .. N : SortedPaths[i] = p BY PathsAre
  <1>4. v[i] = Held(z, p) /\ \A n \in 1 .. N : n # i => v[n] = 0 BY <1>3, PathsAre
  <1>5. N \in Nat BY PathsAre
  <1> HIDE DEF N, v
  <1> QED BY <1>2, <1>4, <1>5, SumsOne

LEMMA HeldNone ==
  ASSUME NEW z, \A q \in AllPaths : Held(z, q) = 0
  PROVE  HeldBytes(z) = 0
  <1>1. Counts(z) BY DEF Counts
  <1>2. HeldBytes(z) = HeldBytes(z) + HeldBytes(z) /\ HeldBytes(z) \in Nat BY <1>1, HeldAdds
  <1>3. \A n \in Nat : n = n + n => n = 0 OBVIOUS
  <1> QED BY <1>2, <1>3, Zenon

(* What remove_file and an insertion do to the count.                      *)
Sized(recs) == \A p \in DOMAIN recs : recs[p].size \in Nat

LEMMA HeldWithout ==
  ASSUME NEW recs, Sized(recs), NEW S
  PROVE  LET kept == Restrict(recs, DOMAIN recs \ S)
             gone == Restrict(recs, DOMAIN recs \cap S)
         IN HeldBytes(recs) = HeldBytes(kept) + HeldBytes(gone) /\ HeldBytes(kept) \in Nat /\ HeldBytes(gone) \in Nat
  <1> DEFINE kept == Restrict(recs, DOMAIN recs \ S)
             gone == Restrict(recs, DOMAIN recs \cap S)
  <1>1. /\ DOMAIN kept = DOMAIN recs \ S /\ \A p \in DOMAIN kept : kept[p] = recs[p]
        /\ DOMAIN gone = DOMAIN recs \cap S /\ \A p \in DOMAIN gone : gone[p] = recs[p]
    BY DEF Restrict
  <1> HIDE DEF kept, gone
  <1>2. Counts(kept) /\ Counts(gone) BY <1>1 DEF Counts, Held, Sized
  <1>3. \A p \in AllPaths : Held(recs, p) = Held(kept, p) + Held(gone, p) BY <1>1 DEF Held, Sized
  <1>4. HeldBytes(recs) = HeldBytes(kept) + HeldBytes(gone) /\ HeldBytes(kept) \in Nat /\ HeldBytes(gone) \in Nat
    BY <1>2, <1>3, HeldAdds
  <1> QED BY <1>4 DEF kept, gone

LEMMA HeldUnread ==
  ASSUME NEW recs, Sized(recs), NEW p, NEW r, r.contents = NotRead, NEW more, DOMAIN more = DOMAIN recs \cup {p},
         more[p] = r, \A q \in DOMAIN recs : q # p => more[q] = recs[q]
  PROVE  HeldBytes(more) = HeldBytes(Restrict(recs, DOMAIN recs \ {p}))
  <1> DEFINE kept == Restrict(recs, DOMAIN recs \ {p})
             none == [q \in {} |-> 0]
  <1>1. /\ DOMAIN kept = DOMAIN recs \ {p} /\ \A q \in DOMAIN kept : kept[q] = recs[q]
        /\ DOMAIN none = {}
    BY DEF Restrict
  <1> HIDE DEF kept, none
  <1>2. Counts(kept) /\ Counts(none) BY <1>1 DEF Counts, Held, Sized
  <1>3. \A q \in AllPaths : Held(none, q) = 0 BY <1>1 DEF Held
  <1>4. \A q \in AllPaths : Held(more, q) = Held(kept, q) + Held(none, q) BY <1>1 DEF Held, Sized
  <1>5. HeldBytes(none) = 0 BY <1>3, HeldNone
  <1>6. HeldBytes(more) = HeldBytes(kept) + HeldBytes(none) /\ HeldBytes(kept) \in Nat BY <1>2, <1>4, HeldAdds
  <1>7. \A n \in Nat : n + 0 = n OBVIOUS
  <1> QED BY <1>5, <1>6, <1>7, Zenon DEF kept

LEMMA HeldRead ==
  ASSUME NEW recs, Sized(recs), NEW p \in AllPaths, p \notin DOMAIN recs, NEW r, r.contents # NotRead, r.size \in Nat, NEW more,
         DOMAIN more = DOMAIN recs \cup {p}, more[p] = r, \A q \in DOMAIN recs : more[q] = recs[q]
  PROVE  HeldBytes(more) = HeldBytes(recs) + r.size
  <1> DEFINE one == [q \in {p} |-> r]
  <1>1. DOMAIN one = {p} /\ one[p] = r OBVIOUS
  <1> HIDE DEF one
  <1>2. Counts(recs) /\ Counts(one) BY <1>1 DEF Counts, Held, Sized
  <1>3. Held(one, p) = r.size /\ \A q \in AllPaths : q # p => Held(one, q) = 0 BY <1>1 DEF Held
  <1>4. \A q \in AllPaths : Held(more, q) = Held(recs, q) + Held(one, q) BY <1>1 DEF Held, Sized
  <1>5. HeldBytes(one) = r.size BY <1>3, HeldOne
  <1>6. HeldBytes(more) = HeldBytes(recs) + HeldBytes(one) BY <1>2, <1>4, HeldAdds
  <1> QED BY <1>5, <1>6

-----------------------------------------------------------------------------
LEMMA CurrentIs ==
  ASSUME scan.todo \subseteq AllPaths, scan.todo # {}
  PROVE  CurrentPath \in scan.todo
  <1> DEFINE Is == {i \in DOMAIN SortedPaths : SortedPaths[i] \in scan.todo}
             First(i) == /\ SortedPaths[i] \in scan.todo
                         /\ \A j \in DOMAIN SortedPaths : SortedPaths[j] \in scan.todo => i <= j
  <1>1. Is \in SUBSET Nat /\ Is # {} BY PathsAre
  <1>2. \E i \in Is : \A j \in Is : i <= j
    <2> HIDE DEF Is
    <2> QED BY <1>1, LeastOf
  <1>3. \E i \in DOMAIN SortedPaths : First(i) BY <1>2
  <1>4. First(CHOOSE i \in DOMAIN SortedPaths : First(i)) BY <1>3, Zenon
  <1> QED BY <1>4 DEF CurrentPath

LEMMA NextPathIs ==
  ASSUME IndexTypes, NextPath
  PROVE  /\ scan' = [kind |-> scan.kind, todo |-> scan.todo \ {CurrentPath}, at |-> "path", stat |-> scan.stat,
                     manifestChanged |-> scan.manifestChanged, calm |-> scan.calm]
         /\ scan'.kind = scan.kind /\ scan'.todo = scan.todo \ {CurrentPath} /\ scan'.at = "path" /\ scan'.stat = scan.stat
         /\ scan'.manifestChanged = scan.manifestChanged /\ scan'.calm = scan.calm
  <1>1. scan' = [kind |-> scan.kind, todo |-> scan.todo \ {CurrentPath}, at |-> "path", stat |-> scan.stat,
                     manifestChanged |-> scan.manifestChanged, calm |-> scan.calm]
    BY DEF IndexTypes, NextPath
  <1> QED BY <1>1

(* The workspace listed in full.                                           *)
LEMMA ListedAll ==
  ASSUME NEW paths \in Enumerations
  PROVE  /\ paths \subseteq DOMAIN tree
         /\ AllFit => paths = DOMAIN tree
  BY DEF Enumerations, kSubset

LEMMA DiscoverIs ==
  ASSUME NEW paths
  PROVE  LET d == DiscoverPackages(paths)
         IN /\ d = [m \in DOMAIN d |-> d[m]] /\ DOMAIN d \subseteq Manifests
            /\ \A m : m \in DOMAIN d <=> m \in paths /\ m \in Manifests /\ tree[m].size <= MaxFileBytes /\ tree[m].kind = "text"
            /\ \A m \in DOMAIN d : d[m] = tree[m].version
  BY DEF DiscoverPackages

LEMMA NamesDiscovered ==
  ASSUME NEW paths \in Enumerations, AllFit, packages = DiscoverPackages(paths), NEW m \in Manifests
  PROVE  NameFits(m)
  <1>1. paths = DOMAIN tree BY ListedAll
  <1> QED BY <1>1, DiscoverIs DEF NameFits, Nameable

(* Other programs change the workspace.                                    *)
LEMMA DisturbedKeeps ==
  ASSUME IndexInv, NEW path \in AllPaths, Disturb, Misses(path), writes' = writes + 1,
         UNCHANGED <<built, records, indexedBytes, packages, expired>>,
         DOMAIN tree' \subseteq AllPaths,
         \A q : q # path => (q \in DOMAIN tree' <=> q \in DOMAIN tree) /\ (q \in DOMAIN tree => tree'[q] = tree[q]),
         path \in DOMAIN tree' => tree'[path].version = writes + 1 /\ tree'[path].size \in Nat
  PROVE  IndexInv'
  <1> USE DEF IndexInv
  <1>1. /\ scan' = [kind |-> scan.kind, todo |-> scan.todo, at |-> scan.at, stat |-> scan.stat,
                    manifestChanged |-> scan.manifestChanged, calm |-> FALSE]
        /\ settled' = FALSE
    BY DEF Disturb, IndexTypes
  <1>2. /\ scan'.kind = scan.kind /\ scan'.todo = scan.todo /\ scan'.at = scan.at /\ scan'.stat = scan.stat
        /\ scan'.manifestChanged = scan.manifestChanged /\ scan'.calm = FALSE
    BY <1>1
  <1>3. CurrentPath' = CurrentPath BY <1>2 DEF CurrentPath
  <1>4. writes \in Nat /\ writes' \in Nat /\ writes <= writes' /\ \A n \in Nat : n <= writes => n <= writes' /\ n # writes'
    BY DEF IndexTypes
  <1>5. missed' \in BOOLEAN /\ (~missed' => ~missed) /\ (~missed' /\ scan.kind = "build" => path \notin Manifests)
    BY DEF Misses, IndexTypes
  <1>6. \A p \in DOMAIN tree' : tree'[p].version \in Nat \ {0} /\ tree'[p].version <= writes' /\ tree'[p].size \in Nat
    <2> SUFFICES ASSUME NEW p \in DOMAIN tree'
                 PROVE  tree'[p].version \in Nat \ {0} /\ tree'[p].version <= writes' /\ tree'[p].size \in Nat
      OBVIOUS
    <2>1. CASE p = path BY <1>4, <2>1
    <2>2. CASE p # path
      <3>1. p \in DOMAIN tree /\ tree'[p] = tree[p] BY <2>2
      <3> QED BY <1>4, <3>1 DEF IndexTypes
    <2> QED BY <2>1, <2>2
  <1>7. IndexTypes'
    <2>1. \A p \in DOMAIN records' : records'[p].version \in Nat /\ records'[p].version <= writes' /\ records'[p].size \in Nat
      BY <1>4 DEF IndexTypes
    <2>2. packages' = [m \in DOMAIN packages' |-> packages'[m]] /\ DOMAIN packages' \subseteq Manifests BY DEF IndexTypes
    <2>3. \A p \in DOMAIN records' : Whole(records'[p]) BY DEF IndexTypes
    <2> QED BY <1>1, <1>2, <1>4, <1>5, <1>6, <2>1, <2>2, <2>3 DEF IndexTypes
  <1>8. ScanShape' BY <1>1, <1>2, <1>3, <1>4 DEF ScanShape
  <1>9. BytesHeld'
    <2>1. HeldBytes(records)' = HeldBytes(records) BY DEF HeldBytes, Held
    <2> QED BY <1>2, <2>1 DEF BytesHeld
  (* What is recorded is older than what is written now.                   *)
  <1>10. \A p \in DOMAIN records : UpToDate(p)' => p # path /\ UpToDate(p)
    <2> SUFFICES ASSUME NEW p \in DOMAIN records, UpToDate(p)' PROVE p # path /\ UpToDate(p) OBVIOUS
    <2>1. p \in DOMAIN tree' /\ records[p].version = tree'[p].version BY DEF UpToDate
    <2>2. p # path BY <1>4, <2>1 DEF IndexTypes
    <2> QED BY <2>1, <2>2 DEF UpToDate
  <1>11. MetadataTellsChanges'
    <2> SUFFICES ASSUME NEW p \in DOMAIN records', p \in DOMAIN tree', records'[p].version = tree'[p].version
                 PROVE  records'[p].contents \in {NotRead, tree'[p].version}
      BY DEF MetadataTellsChanges
    <2>1. p # path /\ p \in DOMAIN tree /\ records[p].version = tree[p].version BY <1>10 DEF UpToDate
    <2> QED BY <2>1 DEF MetadataTellsChanges
  <1>12. CalmScan' BY <1>1, <1>2 DEF CalmScan
  <1>13. NamesKnown'
    <2>1. \A m : m # path => (NameFits(m)' <=> NameFits(m)) BY DEF NameFits, Nameable
    <2>2. \A p \in DOMAIN records' : records'[p].package = PackageIn(packages', p) BY DEF NamesKnown
    <2>3. scan'.kind = "build" /\ ~missed' =>
            DOMAIN packages' \subseteq DOMAIN records' \cup scan'.todo /\ \A m \in Manifests : NameFits(m)'
      BY <1>2, <1>5, <2>1 DEF NamesKnown
    <2>4. built' /\ ~missed' /\ ~scan'.manifestChanged =>
            /\ DOMAIN packages' \subseteq DOMAIN records'
            /\ \A m \in Manifests \cap DOMAIN records' : UpToDate(m)' => NameFits(m)'
      BY <1>2, <1>5, <1>10, <2>1 DEF NamesKnown
    <2>5. /\ scan'.at = "update" /\ CurrentPath' \in Manifests => scan'.manifestChanged
          /\ scan'.kind = "update" /\ ~scan'.manifestChanged => scan'.todo \cap Manifests = {}
      BY <1>2, <1>3 DEF NamesKnown
    <2> QED BY <1>1, <2>2, <2>3, <2>4, <2>5 DEF NamesKnown
  <1> QED BY <1>7, <1>8, <1>9, <1>11, <1>12, <1>13

LEMMA WorkspaceChanges ==
  ASSUME IndexInv, NEW path \in AllPaths, OtherDeletes(path) \/ \E shape \in Shapes : OtherWrites(path, shape)
  PROVE  IndexInv'
  <1>0. /\ DOMAIN tree \subseteq AllPaths
        /\ \A q \in DOMAIN tree : tree[q].size \in Nat
    BY DEF IndexInv, IndexTypes
  <1>1. CASE OtherDeletes(path)
    <2>1. DOMAIN tree' = DOMAIN tree \ {path} /\ \A q \in DOMAIN tree' : tree'[q] = tree[q]
      BY <1>1 DEF OtherDeletes, Restrict
    <2>2. /\ Disturb /\ Misses(path) /\ writes' = writes + 1
          /\ UNCHANGED <<built, records, indexedBytes, packages, expired>>
      BY <1>1 DEF OtherDeletes
    <2>3. DOMAIN tree' \subseteq AllPaths /\ path \notin DOMAIN tree' BY <1>0, <2>1
    <2>4. \A q : q # path => (q \in DOMAIN tree' <=> q \in DOMAIN tree) /\ (q \in DOMAIN tree => tree'[q] = tree[q]) BY <2>1
    <2> QED BY <2>2, <2>3, <2>4, DisturbedKeeps
  <1>2. CASE \E shape \in Shapes : OtherWrites(path, shape)
    <2>1. PICK shape \in Shapes : OtherWrites(path, shape) BY <1>2
    <2>2. /\ DOMAIN tree' = DOMAIN tree \cup {path}
          /\ tree'[path] = [version |-> writes + 1, size |-> shape.size, kind |-> shape.kind]
          /\ \A q \in DOMAIN tree : q # path => tree'[q] = tree[q]
      BY <2>1 DEF OtherWrites
    <2>3. /\ Disturb /\ Misses(path) /\ writes' = writes + 1
          /\ UNCHANGED <<built, records, indexedBytes, packages, expired>>
      BY <2>1 DEF OtherWrites
    <2>4. tree'[path].version = writes + 1 /\ tree'[path].size \in Nat BY <2>2, IndexAssumption
    <2>5. DOMAIN tree' \subseteq AllPaths BY <1>0, <2>2
    <2>6. \A q : q # path => (q \in DOMAIN tree' <=> q \in DOMAIN tree) /\ (q \in DOMAIN tree => tree'[q] = tree[q]) BY <2>2
    <2> QED BY <2>3, <2>4, <2>5, <2>6, DisturbedKeeps
  <1> QED BY <1>1, <1>2

LEMMA HeldSame ==
  ASSUME NEW x, NEW y, Counts(y), \A p \in AllPaths : Held(x, p) = Held(y, p)
  PROVE  HeldBytes(x) = HeldBytes(y)
  <1> DEFINE none == [q \in {} |-> 0]
  <1>1. \A q \in AllPaths : Held(none, q) = 0 BY DEF Held
  <1> HIDE DEF none
  <1>2. Counts(none) /\ HeldBytes(none) = 0 BY <1>1, HeldNone DEF Counts
  <1>3. \A p \in AllPaths : Held(x, p) = Held(y, p) + Held(none, p) BY <1>1 DEF Counts
  <1>4. HeldBytes(x) = HeldBytes(y) + HeldBytes(none) /\ HeldBytes(y) \in Nat BY <1>2, <1>3, HeldAdds
  <1>5. \A n \in Nat : n + 0 = n OBVIOUS
  <1> QED BY <1>2, <1>4, <1>5, Zenon

LEMMA ExpiryKeeps ==
  ASSUME IndexInv, WindowExpires \/ UNCHANGED indexVars
  PROVE  IndexInv'
  <1>1. UNCHANGED <<tree, writes, built, records, indexedBytes, packages, scan, settled, missed>>
    BY DEF WindowExpires, indexVars
  <1>2. CurrentPath' = CurrentPath /\ Enumerations' = Enumerations /\ AllFit' = AllFit /\ HeldBytes(records)' = HeldBytes(records)
    BY <1>1 DEF CurrentPath, Enumerations, AllFit, HeldBytes, Held
  <1>3. /\ \A m : NameFits(m)' <=> NameFits(m)
        /\ \A p : UpToDate(p)' <=> UpToDate(p)
    BY <1>1 DEF NameFits, Nameable, UpToDate
  <1>4. IndexTypes' /\ ScanShape' /\ BytesHeld' /\ MetadataTellsChanges'
    BY <1>1, <1>2 DEF IndexInv, IndexTypes, ScanShape, BytesHeld, MetadataTellsChanges
  <1>5. CalmScan' BY <1>1, <1>2, <1>3 DEF IndexInv, CalmScan
  <1>6. NamesKnown' BY <1>1, <1>2, <1>3 DEF IndexInv, NamesKnown
  <1> QED BY <1>4, <1>5, <1>6 DEF IndexInv

LEMMA BuildBegins ==
  ASSUME IndexInv, BeginBuild
  PROVE  IndexInv'
  <1>1. PICK paths \in Enumerations : packages' = DiscoverPackages(paths) /\ scan' = [NoScan EXCEPT !.kind = "build", !.todo = paths]
    BY DEF BeginBuild
  <1>2. /\ scan' = [kind |-> "build", todo |-> paths, at |-> "path", stat |-> 0, manifestChanged |-> FALSE, calm |-> TRUE]
        /\ scan'.kind = "build" /\ scan'.todo = paths /\ scan'.at = "path" /\ scan'.manifestChanged = FALSE /\ scan'.calm = TRUE
    BY <1>1 DEF NoScan
  <1>3. /\ records' = <<>> /\ indexedBytes' = 0 /\ settled' = FALSE /\ missed' = ~AllFit /\ ~built
        /\ UNCHANGED <<tree, writes, built>>
    BY DEF BeginBuild
  <1>4. DOMAIN records' = {} BY <1>3
  <1>5. paths \subseteq DOMAIN tree /\ (AllFit => paths = DOMAIN tree) BY ListedAll
  <1>6. Enumerations' = Enumerations BY <1>3 DEF Enumerations, AllFit
  <1>7. /\ packages' = [m \in DOMAIN packages' |-> packages'[m]] /\ DOMAIN packages' \subseteq Manifests
        /\ \A m : m \in DOMAIN packages' <=> m \in paths /\ m \in Manifests /\ tree[m].size <= MaxFileBytes /\ tree[m].kind = "text"
        /\ \A m \in DOMAIN packages' : packages'[m] = tree[m].version
    BY <1>1, DiscoverIs
  <1>8. AllFit => \A m \in Manifests : NameFits(m)' BY <1>3, <1>5, <1>7 DEF NameFits, Nameable
  <1>9. missed' \in BOOLEAN BY <1>3
  <1>10. IndexTypes' BY <1>2, <1>3, <1>4, <1>5, <1>7, <1>9 DEF IndexInv, IndexTypes
  <1>11. ScanShape' BY <1>2, <1>3 DEF ScanShape
  <1>12. BytesHeld'
    <2>1. HeldBytes(records') = 0 BY <1>4, HeldNone DEF Held
    <2> QED BY <1>2, <1>3, <2>1, IndexAssumption DEF BytesHeld
  <1>13. MetadataTellsChanges' BY <1>4 DEF MetadataTellsChanges
  <1>14. CalmScan'
    <2>1. DOMAIN records' \cup scan'.todo \in Enumerations' BY <1>2, <1>4, <1>6
    <2> QED BY <1>2, <1>3, <1>4, <2>1 DEF CalmScan
  <1>15. NamesKnown' BY <1>2, <1>3, <1>4, <1>7, <1>8 DEF NamesKnown
  <1> QED BY <1>10, <1>11, <1>12, <1>13, <1>14, <1>15 DEF IndexInv

LEMMA RefreshBegins ==
  ASSUME IndexInv, BeginRefresh
  PROVE  IndexInv'
  <1> USE DEF IndexInv
  <1>1. PICK paths \in Enumerations :
          LET removed == DOMAIN records \ paths
          IN /\ records' = Without(removed) /\ indexedBytes' = BytesWithout(removed)
             /\ scan' = [NoScan EXCEPT !.kind = "refresh", !.todo = paths, !.manifestChanged = removed # {}]
    BY DEF BeginRefresh
  <1> DEFINE removed == DOMAIN records \ paths
  <1>2. /\ scan' = [kind |-> "refresh", todo |-> paths, at |-> "path", stat |-> 0, manifestChanged |-> removed # {}, calm |-> TRUE]
        /\ scan'.kind = "refresh" /\ scan'.todo = paths /\ scan'.at = "path" /\ scan'.calm = TRUE
        /\ scan'.manifestChanged = (removed # {})
    BY <1>1 DEF NoScan
  <1>3. /\ settled' = FALSE /\ built /\ scan.kind = "idle"
        /\ UNCHANGED <<tree, writes, built, packages, missed>>
    BY DEF BeginRefresh
  <1>4. DOMAIN records' = DOMAIN records \ removed /\ \A p \in DOMAIN records' : records'[p] = records[p]
    BY <1>1 DEF Without, Restrict
  <1>5. paths \subseteq DOMAIN tree /\ DOMAIN records' \subseteq paths BY <1>4, ListedAll
  <1>6. Enumerations' = Enumerations BY <1>3 DEF Enumerations, AllFit
  <1>7. indexedBytes' = HeldBytes(records') /\ indexedBytes' \in Nat /\ indexedBytes' <= indexedBytes
    <2>1. Sized(records) BY DEF IndexTypes, Sized
    <2> DEFINE kept == HeldBytes(Restrict(records, DOMAIN records \ removed))
               gone == HeldBytes(Restrict(records, DOMAIN records \cap removed))
    <2>2. HeldBytes(records) = kept + gone /\ kept \in Nat /\ gone \in Nat BY <2>1, HeldWithout
    <2>3. indexedBytes = HeldBytes(records) BY DEF BytesHeld
    <2>4. indexedBytes' = indexedBytes - gone BY <1>1 DEF BytesWithout
    <2>5. HeldBytes(records') = kept BY <1>1 DEF Without
    <2> HIDE DEF kept, gone
    <2> QED BY <2>2, <2>3, <2>4, <2>5
  <1> HIDE DEF removed
  <1>8. IndexTypes' BY <1>2, <1>3, <1>4, <1>5, <1>7 DEF IndexTypes
  <1>9. ScanShape' BY <1>2, <1>3 DEF ScanShape
  <1>10. BytesHeld'
    <2>1. indexedBytes \in Nat /\ indexedBytes <= MaxTotalBytes BY DEF BytesHeld, IndexTypes
    <2> QED BY <1>2, <1>7, <2>1, IndexAssumption DEF BytesHeld
  <1>11. MetadataTellsChanges' BY <1>3, <1>4 DEF MetadataTellsChanges
  <1>12. CalmScan'
    <2>1. DOMAIN records' \cup scan'.todo \in Enumerations' BY <1>2, <1>5, <1>6
    <2> QED BY <1>2, <1>3, <1>5, <2>1 DEF CalmScan
  <1>13. NamesKnown'
    <2>1. /\ \A m : NameFits(m)' <=> NameFits(m)
          /\ \A p \in DOMAIN records' : UpToDate(p)' <=> UpToDate(p)
      BY <1>3, <1>4 DEF NameFits, Nameable, UpToDate
    <2>2. ~scan'.manifestChanged => DOMAIN records' = DOMAIN records BY <1>2, <1>4
    <2>3. built' /\ ~missed' /\ ~scan'.manifestChanged =>
            /\ DOMAIN packages' \subseteq DOMAIN records'
            /\ \A m \in Manifests \cap DOMAIN records' : UpToDate(m)' => NameFits(m)'
      <3> SUFFICES ASSUME built', ~missed', ~scan'.manifestChanged
                   PROVE  /\ DOMAIN packages' \subseteq DOMAIN records'
                          /\ \A m \in Manifests \cap DOMAIN records' : UpToDate(m)' => NameFits(m)'
        OBVIOUS
      <3>1. ~scan.manifestChanged BY <1>3 DEF ScanShape
      <3> QED BY <1>3, <2>1, <2>2, <3>1 DEF NamesKnown
    <2>4. \A p \in DOMAIN records' : records'[p].package = PackageIn(packages', p) BY <1>3, <1>4 DEF NamesKnown
    <2> QED BY <1>2, <1>3, <2>3, <2>4 DEF NamesKnown
  <1> QED BY <1>8, <1>9, <1>10, <1>11, <1>12, <1>13

LEMMA UpdateBegins ==
  ASSUME IndexInv, NEW changed \in ReportedChanges, BeginUpdate(changed)
  PROVE  IndexInv'
  <1> USE DEF IndexInv
  <1>1. /\ scan' = [kind |-> "update", todo |-> changed, at |-> "path", stat |-> 0,
                    manifestChanged |-> changed \cap Manifests # {}, calm |-> TRUE]
        /\ scan'.kind = "update" /\ scan'.todo = changed /\ scan'.at = "path" /\ scan'.calm = TRUE
        /\ scan'.manifestChanged = (changed \cap Manifests # {})
    BY DEF BeginUpdate, NoScan
  <1>2. /\ settled' = FALSE /\ built /\ scan.kind = "idle"
        /\ UNCHANGED <<tree, writes, built, records, indexedBytes, packages, missed>>
    BY DEF BeginUpdate
  <1>3. changed \subseteq AllPaths BY IndexAssumption DEF AllPaths
  <1>4. IndexTypes' BY <1>1, <1>2, <1>3 DEF IndexTypes
  <1>5. ScanShape' BY <1>1, <1>2 DEF ScanShape
  <1>6. BytesHeld'
    <2>1. HeldBytes(records)' = HeldBytes(records) BY <1>2 DEF HeldBytes, Held
    <2> QED BY <1>1, <1>2, <2>1 DEF BytesHeld
  <1>7. MetadataTellsChanges' BY <1>2 DEF MetadataTellsChanges
  <1>8. CalmScan' BY <1>1, <1>2 DEF CalmScan
  <1>9. NamesKnown'
    <2>1. /\ \A m : NameFits(m)' <=> NameFits(m)
          /\ \A p : UpToDate(p)' <=> UpToDate(p)
      BY <1>2 DEF NameFits, Nameable, UpToDate
    <2>2. ~scan.manifestChanged BY <1>2 DEF ScanShape
    <2> QED BY <1>1, <1>2, <2>1, <2>2 DEF NamesKnown
  <1> QED BY <1>4, <1>5, <1>6, <1>7, <1>8, <1>9

LEMMA MetadataCompared ==
  ASSUME IndexInv, CompareMetadata
  PROVE  IndexInv'
  <1> USE DEF IndexInv
  <1>1. /\ scan.kind = "refresh" /\ scan.at = "path" /\ scan.todo # {} /\ ~settled /\ built
        /\ UNCHANGED <<tree, writes, built, records, indexedBytes, packages, settled, missed>>
    BY DEF CompareMetadata, ScanShape
  <1>2. CurrentPath \in scan.todo BY <1>1, CurrentIs DEF IndexTypes
  <1>3. HeldBytes(records)' = HeldBytes(records) /\ Enumerations' = Enumerations
    BY <1>1 DEF HeldBytes, Held, Enumerations, AllFit
  <1>4. /\ \A m : NameFits(m)' <=> NameFits(m)
        /\ \A p : UpToDate(p)' <=> UpToDate(p)
    BY <1>1 DEF NameFits, Nameable, UpToDate
  <1>5. CASE CurrentPath \in DOMAIN tree /\ Stale(CurrentPath)
    <2>1. scan' = [scan EXCEPT !.at = "update", !.manifestChanged = NotesManifest(CurrentPath)]
      BY <1>5 DEF CompareMetadata
    <2>2. scan' = [kind |-> scan.kind, todo |-> scan.todo, at |-> "update", stat |-> scan.stat,
                   manifestChanged |-> NotesManifest(CurrentPath), calm |-> scan.calm]
      BY <2>1 DEF IndexTypes
    <2>3. /\ scan'.kind = "refresh" /\ scan'.todo = scan.todo /\ scan'.at = "update" /\ scan'.calm = scan.calm
          /\ scan'.manifestChanged = NotesManifest(CurrentPath)
      BY <1>1, <2>2
    <2>4. CurrentPath' = CurrentPath BY <2>3 DEF CurrentPath
    <2>5. /\ scan'.manifestChanged \in BOOLEAN /\ (scan.manifestChanged => scan'.manifestChanged)
          /\ CurrentPath \in Manifests => scan'.manifestChanged
      BY <2>3 DEF NotesManifest
    <2>6. IndexTypes' BY <1>1, <2>2, <2>3, <2>5 DEF IndexTypes
    <2>7. ScanShape' BY <1>1, <2>3 DEF ScanShape
    <2>8. BytesHeld' BY <1>1, <1>3, <2>3 DEF BytesHeld
    <2>9. MetadataTellsChanges' BY <1>1 DEF MetadataTellsChanges
    <2>10. CalmScan' BY <1>1, <1>3, <1>4, <2>3 DEF CalmScan
    <2>11. NamesKnown' BY <1>1, <1>4, <2>3, <2>4, <2>5 DEF NamesKnown
    <2> QED BY <2>6, <2>7, <2>8, <2>9, <2>10, <2>11
  <1>6. CASE ~(CurrentPath \in DOMAIN tree /\ Stale(CurrentPath))
    <2>1. NextPath BY <1>6 DEF CompareMetadata
    <2>2. /\ scan' = [kind |-> scan.kind, todo |-> scan.todo \ {CurrentPath}, at |-> "path", stat |-> scan.stat,
                     manifestChanged |-> scan.manifestChanged, calm |-> scan.calm]
          /\ scan'.kind = scan.kind /\ scan'.todo = scan.todo \ {CurrentPath} /\ scan'.at = "path" /\ scan'.stat = scan.stat
          /\ scan'.manifestChanged = scan.manifestChanged /\ scan'.calm = scan.calm
      BY <2>1, NextPathIs
    <2>3. IndexTypes' BY <1>1, <2>2 DEF IndexTypes
    <2>4. ScanShape' BY <1>1, <2>2 DEF ScanShape
    <2>5. BytesHeld' BY <1>1, <1>3, <2>2 DEF BytesHeld
    <2>6. MetadataTellsChanges' BY <1>1 DEF MetadataTellsChanges
    <2>7. CalmScan'
      <3> SUFFICES ASSUME scan.calm
                   PROVE  /\ DOMAIN records' \cup scan'.todo \in Enumerations'
                          /\ \A p \in DOMAIN records' \ scan'.todo : UpToDate(p)'
        BY <1>1, <2>2 DEF CalmScan
      <3>1. DOMAIN records \cup scan.todo \in Enumerations /\ \A p \in DOMAIN records \ scan.todo : UpToDate(p)
        BY <1>1 DEF CalmScan
      <3>2. CurrentPath \in DOMAIN tree BY <1>2, <3>1, ListedAll
      <3>3. CurrentPath \in DOMAIN records /\ UpToDate(CurrentPath) BY <1>6, <3>2 DEF Stale, UpToDate
      <3>4. DOMAIN records' \cup scan'.todo = DOMAIN records \cup scan.todo BY <1>1, <1>2, <2>2, <3>3
      <3> QED BY <1>1, <1>3, <1>4, <2>2, <3>1, <3>3, <3>4
    <2>8. NamesKnown' BY <1>1, <1>4, <2>2 DEF NamesKnown
    <2> QED BY <2>3, <2>4, <2>5, <2>6, <2>7, <2>8
  <1> QED BY <1>5, <1>6

LEMMA ScanFails ==
  ASSUME IndexInv, FailScan
  PROVE  IndexInv'
  <1> USE DEF IndexInv
  <1>1. /\ scan.at = "read" /\ scan.kind # "idle" /\ ~settled
        /\ missed' = (missed \/ scan.manifestChanged)
        /\ UNCHANGED <<tree, writes, built, records, indexedBytes, packages, settled>>
    BY DEF FailScan, ScanShape
  <1>2. /\ scan' = [kind |-> "idle", todo |-> {}, at |-> "path", stat |-> 0, manifestChanged |-> FALSE, calm |-> TRUE]
        /\ scan'.kind = "idle" /\ scan'.todo = {} /\ scan'.at = "path" /\ scan'.manifestChanged = FALSE /\ scan'.calm = TRUE
    BY DEF FailScan, NoScan
  <1>3. HeldBytes(records)' = HeldBytes(records) BY <1>1 DEF HeldBytes, Held
  <1>4. /\ \A m : NameFits(m)' <=> NameFits(m)
        /\ \A p : UpToDate(p)' <=> UpToDate(p)
    BY <1>1 DEF NameFits, Nameable, UpToDate
  <1>5. missed' \in BOOLEAN /\ (~missed' => ~missed /\ ~scan.manifestChanged) BY <1>1
  <1>6. IndexTypes' BY <1>1, <1>2, <1>5 DEF IndexTypes
  <1>7. ScanShape' BY <1>1, <1>2 DEF ScanShape
  <1>8. BytesHeld' BY <1>1, <1>2, <1>3 DEF BytesHeld
  <1>9. MetadataTellsChanges' BY <1>1 DEF MetadataTellsChanges
  <1>10. CalmScan' BY <1>1, <1>2 DEF CalmScan
  <1>11. NamesKnown' BY <1>1, <1>2, <1>4, <1>5 DEF NamesKnown
  <1> QED BY <1>6, <1>7, <1>8, <1>9, <1>10, <1>11

LEMMA FileUpdates ==
  ASSUME IndexInv, UpdateFile
  PROVE  IndexInv'
  <1> USE DEF IndexInv
  <1> DEFINE p == CurrentPath
  <1>1. /\ scan.todo # {} /\ scan.at = (IF scan.kind = "refresh" THEN "update" ELSE "path")
        /\ UNCHANGED <<tree, writes, built, packages, settled, missed>>
    BY DEF UpdateFile
  <1>2. p \in scan.todo /\ p \in AllPaths /\ scan.kind # "idle" /\ ~settled
    BY <1>1, CurrentIs DEF IndexTypes, ScanShape
  <1>3. /\ indexedBytes' = HeldBytes(Without({p})) /\ indexedBytes' \in Nat /\ indexedBytes' <= MaxTotalBytes
        /\ Sized(records)
    <2>1. Sized(records) BY DEF IndexTypes, Sized
    <2> DEFINE kept == HeldBytes(Restrict(records, DOMAIN records \ {p}))
               gone == HeldBytes(Restrict(records, DOMAIN records \cap {p}))
    <2>2. HeldBytes(records) = kept + gone /\ kept \in Nat /\ gone \in Nat BY <2>1, HeldWithout
    <2>3. indexedBytes = HeldBytes(records) /\ indexedBytes <= MaxTotalBytes BY DEF BytesHeld
    <2>4. indexedBytes' = indexedBytes - gone BY DEF UpdateFile, BytesWithout
    <2>5. HeldBytes(Without({p})) = kept BY DEF Without
    <2> HIDE DEF kept, gone
    <2> QED BY <2>1, <2>2, <2>3, <2>4, <2>5, IndexAssumption
  <1>4. /\ DOMAIN Without({p}) = DOMAIN records \ {p} /\ \A q \in DOMAIN records : q # p => Without({p})[q] = records[q]
        /\ \A r : /\ DOMAIN WithRecord(p, r) = DOMAIN records \cup {p} /\ WithRecord(p, r)[p] = r
                  /\ \A q \in DOMAIN records : q # p => WithRecord(p, r)[q] = records[q]
    BY DEF Without, Restrict, WithRecord
  <1> DEFINE new == Record(p, tree[p], NotRead)
  <1>5. new.version = tree[p].version /\ new.size = tree[p].size /\ new.contents = NotRead /\ new.package = PackageIn(packages, p)
        /\ Whole(new)
    BY DEF Record, Whole
  <1>6. \/ p \notin DOMAIN tree /\ records' = Without({p}) /\ NextPath
        \/ p \in DOMAIN tree /\ records' = WithRecord(p, new) /\ NextPath
        \/ /\ p \in DOMAIN tree /\ p \in WithLanguage /\ tree[p].size <= MaxTotalBytes - indexedBytes' /\ records' = Without({p})
           /\ scan' = [scan EXCEPT !.at = "read", !.stat = tree[p]]
    BY DEF UpdateFile
  <1>7. \A q \in DOMAIN records' : q # p => q \in DOMAIN records /\ records'[q] = records[q] BY <1>4, <1>6
  <1>8. /\ \A q : q \in DOMAIN records /\ q # p => q \in DOMAIN records'
        /\ p \in DOMAIN records' => p \in DOMAIN tree /\ records'[p] = new
    BY <1>4, <1>6
  <1>9. /\ \A m : NameFits(m)' <=> NameFits(m)
        /\ \A q \in DOMAIN records' : q # p => (UpToDate(q)' <=> UpToDate(q))
        /\ p \in DOMAIN records' => p \in DOMAIN tree' /\ records'[p].version = tree'[p].version
        /\ Enumerations' = Enumerations
    <2>1. \A m : NameFits(m)' <=> NameFits(m) BY <1>1 DEF NameFits, Nameable
    <2>2. \A q \in DOMAIN records' : q # p => (UpToDate(q)' <=> UpToDate(q)) BY <1>1, <1>7 DEF UpToDate
    <2>3. p \in DOMAIN records' => p \in DOMAIN tree' /\ records'[p].version = tree'[p].version
      <3> HIDE DEF p, new
      <3> QED BY <1>1, <1>5, <1>8
    <2>4. Enumerations' = Enumerations BY <1>1 DEF Enumerations, AllFit
    <2> QED BY <2>1, <2>2, <2>3, <2>4
  <1>10. \/ /\ scan' = [kind |-> scan.kind, todo |-> scan.todo \ {p}, at |-> "path", stat |-> scan.stat,
                       manifestChanged |-> scan.manifestChanged, calm |-> scan.calm]
            /\ scan'.todo = scan.todo \ {p} /\ scan'.at = "path"
            /\ p \in DOMAIN tree => p \in DOMAIN records'
         \/ /\ scan' = [kind |-> scan.kind, todo |-> scan.todo, at |-> "read", stat |-> tree[p],
                       manifestChanged |-> scan.manifestChanged, calm |-> scan.calm]
            /\ scan'.todo = scan.todo /\ scan'.at = "read" /\ scan'.stat = tree[p] /\ CurrentPath' = p
            /\ p \in DOMAIN tree /\ p \notin DOMAIN records'
            /\ p \in WithLanguage /\ tree[p].size <= MaxTotalBytes - indexedBytes'
    <2>1. CASE NextPath /\ (p \in DOMAIN tree => p \in DOMAIN records') BY <2>1, NextPathIs
    <2>2. CASE /\ p \in DOMAIN tree /\ p \in WithLanguage /\ tree[p].size <= MaxTotalBytes - indexedBytes'
               /\ scan' = [scan EXCEPT !.at = "read", !.stat = tree[p]] /\ p \notin DOMAIN records'
      <3>1. scan' = [kind |-> scan.kind, todo |-> scan.todo, at |-> "read", stat |-> tree[p],
                     manifestChanged |-> scan.manifestChanged, calm |-> scan.calm]
        BY <2>2 DEF IndexTypes
      <3>2. scan'.todo = scan.todo /\ scan'.at = "read" /\ scan'.stat = tree[p] BY <3>1
      <3>3. CurrentPath' = CurrentPath BY <3>2 DEF CurrentPath
      <3> QED BY <2>2, <3>1, <3>2, <3>3
    <2>3. (p \in DOMAIN tree => p \in DOMAIN records') \/ p \notin DOMAIN records' BY <1>4, <1>6
    <2> QED BY <1>4, <1>6, <2>1, <2>2
  <1>11. scan'.kind = scan.kind /\ scan'.manifestChanged = scan.manifestChanged /\ scan'.calm = scan.calm
         /\ scan' = [kind |-> scan'.kind, todo |-> scan'.todo, at |-> scan'.at, stat |-> scan'.stat,
                     manifestChanged |-> scan'.manifestChanged, calm |-> scan'.calm]
    BY <1>10
  <1> HIDE DEF p, new
  <1>12. IndexTypes'
    <2>1. DOMAIN records' \subseteq AllPaths /\ scan'.todo \subseteq AllPaths
          /\ scan'.at \in {"path", "update", "read"} /\ scan'.kind \in {"idle", "build", "refresh", "update"}
      BY <1>2, <1>7, <1>10, <1>11 DEF IndexTypes
    <2>2. \A q \in DOMAIN records' : /\ records'[q].version \in Nat /\ records'[q].version <= writes' /\ records'[q].size \in Nat
                                   /\ Whole(records'[q])
      <3> SUFFICES ASSUME NEW q \in DOMAIN records'
                   PROVE  /\ records'[q].version \in Nat /\ records'[q].version <= writes' /\ records'[q].size \in Nat
                          /\ Whole(records'[q])
        OBVIOUS
      <3>1. CASE q = p BY <1>1, <1>5, <1>8, <3>1 DEF IndexTypes
      <3>2. CASE q # p BY <1>1, <1>7, <3>2 DEF IndexTypes
      <3> QED BY <3>1, <3>2
    <2> QED BY <1>1, <1>3, <1>11, <2>1, <2>2 DEF IndexTypes
  <1>13. ScanShape'
    <2>1. p \in DOMAIN tree => tree[p].version \in Nat /\ tree[p].version <= writes /\ tree[p].size \in Nat BY DEF IndexTypes
    <2> QED BY <1>1, <1>2, <1>10, <1>11, <2>1 DEF ScanShape
  <1>14. BytesHeld'
    <2>1. HeldBytes(records') = HeldBytes(Without({p}))
      <3>1. CASE records' = Without({p}) BY <3>1
      <3>2. CASE records' = WithRecord(p, new)
        <4>1. DOMAIN records' = DOMAIN records \cup {p} /\ records'[p] = new /\ \A q \in DOMAIN records : q # p => records'[q] = records[q]
          BY <1>4, <3>2
        <4> QED BY <1>3, <1>5, <4>1, HeldUnread DEF Without
      <3> QED BY <1>6, <3>1, <3>2
    <2>2. scan'.at = "read" => indexedBytes' + scan'.stat.size <= MaxTotalBytes
      <3> SUFFICES ASSUME scan'.at = "read" PROVE indexedBytes' + scan'.stat.size <= MaxTotalBytes OBVIOUS
      <3>1. scan'.stat = tree[p] /\ p \in DOMAIN tree /\ tree[p].size <= MaxTotalBytes - indexedBytes' BY <1>10
      <3>2. tree[p].size \in Nat BY <3>1 DEF IndexTypes
      <3> QED BY <1>3, <3>1, <3>2, IndexAssumption
    <2> QED BY <1>3, <2>1, <2>2 DEF BytesHeld
  <1>15. MetadataTellsChanges'
    <2> SUFFICES ASSUME NEW q \in DOMAIN records', q \in DOMAIN tree', records'[q].version = tree'[q].version
                 PROVE  records'[q].contents \in {NotRead, tree'[q].version}
      BY DEF MetadataTellsChanges
    <2>1. CASE q = p BY <1>5, <1>8, <2>1
    <2>2. CASE q # p BY <1>1, <1>7, <2>2 DEF MetadataTellsChanges
    <2> QED BY <2>1, <2>2
  <1>16. CalmScan'
    <2> SUFFICES ASSUME scan.kind \in {"build", "refresh"}, scan.calm
                 PROVE  /\ DOMAIN records' \cup scan'.todo \in Enumerations'
                        /\ \A q \in DOMAIN records' \ scan'.todo : UpToDate(q)'
                        /\ scan'.at = "read" => CurrentPath' \in DOMAIN tree' /\ scan'.stat = tree'[CurrentPath']
      BY <1>1, <1>2, <1>11 DEF CalmScan
    <2>1. DOMAIN records \cup scan.todo \in Enumerations /\ \A q \in DOMAIN records \ scan.todo : UpToDate(q) BY DEF CalmScan
    <2>2. p \in DOMAIN tree BY <1>2, <2>1, ListedAll
    <2>3. DOMAIN records' \cup scan'.todo = DOMAIN records \cup scan.todo BY <1>2, <1>7, <1>8, <1>10, <2>2
    <2>4. \A q \in DOMAIN records' \ scan'.todo : UpToDate(q)'
      <3> SUFFICES ASSUME NEW q \in DOMAIN records' \ scan'.todo PROVE UpToDate(q)' OBVIOUS
      <3>1. CASE q = p BY <1>9, <3>1 DEF UpToDate
      <3>2. CASE q # p
        <4>1. q \in DOMAIN records \ scan.todo BY <1>7, <1>10, <3>2
        <4> QED BY <1>9, <2>1, <3>2, <4>1
      <3> QED BY <3>1, <3>2
    <2> QED BY <1>1, <1>9, <1>10, <2>1, <2>3, <2>4
  <1>17. NamesKnown'
    <2>1. \A q \in DOMAIN records' : records'[q].package = PackageIn(packages', q)
      <3> SUFFICES ASSUME NEW q \in DOMAIN records' PROVE records'[q].package = PackageIn(packages', q) OBVIOUS
      <3>1. CASE q = p BY <1>1, <1>5, <1>8, <3>1
      <3>2. CASE q # p BY <1>1, <1>7, <3>2 DEF NamesKnown
      <3> QED BY <3>1, <3>2
    <2>2. scan.kind = "build" /\ ~missed =>
            DOMAIN packages \subseteq DOMAIN records' \cup scan'.todo /\ \A m \in Manifests : NameFits(m)'
      <3> SUFFICES ASSUME scan.kind = "build", ~missed
                   PROVE  DOMAIN packages \subseteq DOMAIN records' \cup scan'.todo /\ \A m \in Manifests : NameFits(m)'
        OBVIOUS
      <3>1. DOMAIN packages \subseteq DOMAIN records \cup scan.todo /\ \A m \in Manifests : NameFits(m) BY DEF NamesKnown
      <3>2. p \notin DOMAIN tree => p \notin DOMAIN packages BY <3>1 DEF NameFits, Nameable, IndexTypes
      <3>3. \A m \in DOMAIN packages : m \in DOMAIN records' \cup scan'.todo
        <4> SUFFICES ASSUME NEW m \in DOMAIN packages PROVE m \in DOMAIN records' \cup scan'.todo OBVIOUS
        <4>1. CASE m = p BY <1>2, <1>10, <3>2, <4>1
        <4>2. CASE m # p BY <1>8, <1>10, <3>1, <4>2
        <4> QED BY <4>1, <4>2
      <3> QED BY <1>9, <3>1, <3>3
    <2>3. built /\ ~scan.manifestChanged => p \notin Manifests
      BY <1>1, <1>2 DEF NamesKnown, ScanShape, IndexTypes, p
    <2>4. built' /\ ~missed' /\ ~scan'.manifestChanged =>
            /\ DOMAIN packages' \subseteq DOMAIN records'
            /\ \A m \in Manifests \cap DOMAIN records' : UpToDate(m)' => NameFits(m)'
      <3> SUFFICES ASSUME built, ~missed, ~scan.manifestChanged
                   PROVE  /\ DOMAIN packages \subseteq DOMAIN records'
                          /\ \A m \in Manifests \cap DOMAIN records' : UpToDate(m)' => NameFits(m)'
        BY <1>1, <1>11
      <3>1. DOMAIN packages \subseteq DOMAIN records /\ \A m \in Manifests \cap DOMAIN records : UpToDate(m) => NameFits(m)
        BY DEF NamesKnown
      <3>2. p \notin Manifests /\ DOMAIN packages \subseteq Manifests BY <2>3 DEF IndexTypes
      <3> QED BY <1>7, <1>8, <1>9, <3>1, <3>2
    <2>5. scan'.at = "update" /\ CurrentPath' \in Manifests => scan'.manifestChanged BY <1>10
    <2>6. scan'.kind = "update" /\ ~scan'.manifestChanged => scan'.todo \cap Manifests = {} BY <1>10, <1>11 DEF NamesKnown
    <2> QED BY <1>1, <1>2, <1>11, <2>1, <2>2, <2>4, <2>5, <2>6 DEF NamesKnown
  <1> QED BY <1>12, <1>13, <1>14, <1>15, <1>16, <1>17

LEMMA ContentsAreRead ==
  ASSUME IndexInv, ReadContents
  PROVE  IndexInv'
  <1> USE DEF IndexInv
  <1> DEFINE p == CurrentPath
             new(c) == Record(p, scan.stat, c)
  <1>1. /\ scan.at = "read" /\ p \in DOMAIN tree /\ NextPath
        /\ UNCHANGED <<tree, writes, built, packages, settled, missed>>
    BY DEF ReadContents
  <1>2. /\ p \in scan.todo /\ p \in AllPaths /\ scan.kind # "idle" /\ ~settled
        /\ p \in WithLanguage /\ p \notin Manifests /\ p \notin DOMAIN records
        /\ scan.stat.version \in Nat /\ scan.stat.version <= writes /\ scan.stat.size \in Nat
        /\ tree[p].version \in Nat \ {0}
    BY <1>1, CurrentIs, IndexAssumption DEF IndexTypes, ScanShape
  <1>3. \/ records' = WithRecord(p, new(NotRead)) /\ indexedBytes' = indexedBytes
        \/ records' = WithRecord(p, new(tree[p].version)) /\ indexedBytes' = indexedBytes + scan.stat.size
    BY DEF ReadContents, Parsed
  <1>4. PICK c \in {NotRead, tree[p].version} :
          /\ records' = WithRecord(p, new(c))
          /\ indexedBytes' = IF c = NotRead THEN indexedBytes ELSE indexedBytes + scan.stat.size
    <2> HIDE DEF p, new
    <2> QED BY <1>2, <1>3 DEF NotRead
  <1>5. /\ new(c) = [version |-> scan.stat.version, size |-> scan.stat.size, contents |-> c, package |-> PackageIn(packages, p)]
        /\ new(c).version = scan.stat.version /\ new(c).size = scan.stat.size /\ new(c).contents = c
        /\ new(c).package = PackageIn(packages, p) /\ Whole(new(c))
    BY DEF Record, Whole
  <1>6. /\ DOMAIN records' = DOMAIN records \cup {p} /\ records'[p] = new(c)
        /\ \A q \in DOMAIN records : q # p /\ records'[q] = records[q]
    BY <1>2, <1>4 DEF WithRecord
  <1>7. /\ scan' = [kind |-> scan.kind, todo |-> scan.todo \ {p}, at |-> "path", stat |-> scan.stat,
                    manifestChanged |-> scan.manifestChanged, calm |-> scan.calm]
        /\ scan'.kind = scan.kind /\ scan'.todo = scan.todo \ {p} /\ scan'.at = "path"
        /\ scan'.manifestChanged = scan.manifestChanged /\ scan'.calm = scan.calm
    BY <1>1, NextPathIs
  <1> HIDE DEF p, new
  <1>8. /\ \A m : NameFits(m)' <=> NameFits(m)
        /\ \A q \in DOMAIN records : UpToDate(q)' <=> UpToDate(q)
        /\ Enumerations' = Enumerations
    <2>1. \A m : NameFits(m)' <=> NameFits(m) BY <1>1 DEF NameFits, Nameable
    <2>2. \A q \in DOMAIN records : UpToDate(q)' <=> UpToDate(q) BY <1>1, <1>6 DEF UpToDate
    <2>3. Enumerations' = Enumerations BY <1>1 DEF Enumerations, AllFit
    <2> QED BY <2>1, <2>2, <2>3
  <1>9. indexedBytes' = HeldBytes(records') /\ indexedBytes' \in Nat /\ indexedBytes' <= MaxTotalBytes
    <2>1. Sized(records) /\ Counts(records) BY DEF IndexTypes, Sized, Counts, Held
    <2>2. /\ indexedBytes \in Nat /\ indexedBytes <= MaxTotalBytes /\ indexedBytes + scan.stat.size <= MaxTotalBytes
          /\ indexedBytes = HeldBytes(records)
      BY <1>1 DEF BytesHeld, IndexTypes
    <2>3. CASE c = NotRead
      <3>1. \A q \in AllPaths : Held(records', q) = Held(records, q)
        <4> SUFFICES ASSUME NEW q \in AllPaths PROVE Held(records', q) = Held(records, q) OBVIOUS
        <4>1. CASE q = p BY <1>2, <1>5, <1>6, <2>3, <4>1 DEF Held
        <4>2. CASE q # p BY <1>6, <4>2 DEF Held
        <4> QED BY <4>1, <4>2
      <3>2. HeldBytes(records') = HeldBytes(records) BY <2>1, <3>1, HeldSame
      <3> QED BY <1>4, <2>2, <2>3, <3>2
    <2>4. CASE c # NotRead
      <3>1. HeldBytes(records') = HeldBytes(records) + new(c).size BY <1>2, <1>5, <1>6, <2>1, <2>4, HeldRead
      <3> QED BY <1>2, <1>4, <1>5, <2>2, <2>4, <3>1
    <2> QED BY <2>3, <2>4
  <1>10. IndexTypes'
    <2>1. \A q \in DOMAIN records' :
            /\ records'[q].version \in Nat /\ records'[q].version <= writes' /\ records'[q].size \in Nat
            /\ Whole(records'[q])
      <3> SUFFICES ASSUME NEW q \in DOMAIN records'
                   PROVE  /\ records'[q].version \in Nat /\ records'[q].version <= writes' /\ records'[q].size \in Nat
                          /\ Whole(records'[q])
        OBVIOUS
      <3>1. CASE q = p BY <1>1, <1>2, <1>5, <1>6, <3>1
      <3>2. CASE q # p
        <4>1. q \in DOMAIN records /\ records'[q] = records[q] BY <1>6, <3>2
        <4> QED BY <1>1, <4>1 DEF IndexTypes
      <3> QED BY <3>1, <3>2
    <2>2. DOMAIN records' \subseteq AllPaths /\ scan'.todo \subseteq AllPaths BY <1>2, <1>6, <1>7 DEF IndexTypes
    <2> QED BY <1>1, <1>7, <1>9, <2>1, <2>2 DEF IndexTypes
  <1>11. ScanShape' BY <1>1, <1>2, <1>7 DEF ScanShape
  <1>12. BytesHeld' BY <1>7, <1>9 DEF BytesHeld
  <1>13. MetadataTellsChanges'
    <2> SUFFICES ASSUME NEW q \in DOMAIN records', q \in DOMAIN tree', records'[q].version = tree'[q].version
                 PROVE  records'[q].contents \in {NotRead, tree'[q].version}
      BY DEF MetadataTellsChanges
    <2>1. CASE q = p BY <1>1, <1>5, <1>6, <2>1
    <2>2. CASE q # p BY <1>1, <1>6, <2>2 DEF MetadataTellsChanges
    <2> QED BY <2>1, <2>2
  <1>14. CalmScan'
    <2> SUFFICES ASSUME scan.kind \in {"build", "refresh"}, scan.calm
                 PROVE  /\ DOMAIN records' \cup scan'.todo \in Enumerations'
                        /\ \A q \in DOMAIN records' \ scan'.todo : UpToDate(q)'
      BY <1>1, <1>2, <1>7 DEF CalmScan
    <2>1. /\ DOMAIN records \cup scan.todo \in Enumerations /\ \A q \in DOMAIN records \ scan.todo : UpToDate(q)
          /\ scan.stat = tree[p]
      BY <1>1 DEF CalmScan, p
    <2>2. DOMAIN records' \cup scan'.todo = DOMAIN records \cup scan.todo BY <1>2, <1>6, <1>7
    <2>3. \A q \in DOMAIN records' \ scan'.todo : UpToDate(q)'
      <3> SUFFICES ASSUME NEW q \in DOMAIN records' \ scan'.todo PROVE UpToDate(q)' OBVIOUS
      <3>1. CASE q = p BY <1>1, <1>5, <1>6, <2>1, <3>1 DEF UpToDate
      <3>2. CASE q # p BY <1>6, <1>7, <1>8, <2>1, <3>2
      <3> QED BY <3>1, <3>2
    <2> QED BY <1>8, <2>1, <2>2, <2>3
  <1>15. NamesKnown'
    <2>1. \A q \in DOMAIN records' : records'[q].package = PackageIn(packages', q)
      <3> SUFFICES ASSUME NEW q \in DOMAIN records' PROVE records'[q].package = PackageIn(packages', q) OBVIOUS
      <3>1. CASE q = p BY <1>1, <1>5, <1>6, <3>1
      <3>2. CASE q # p BY <1>1, <1>6, <3>2 DEF NamesKnown
      <3> QED BY <3>1, <3>2
    <2>2. scan.kind = "build" /\ ~missed =>
            DOMAIN packages \subseteq DOMAIN records' \cup scan'.todo /\ \A m \in Manifests : NameFits(m)'
      BY <1>6, <1>7, <1>8 DEF NamesKnown
    <2>3. built /\ ~missed /\ ~scan.manifestChanged =>
            /\ DOMAIN packages \subseteq DOMAIN records'
            /\ \A m \in Manifests \cap DOMAIN records' : UpToDate(m)' => NameFits(m)'
      BY <1>2, <1>6, <1>8 DEF NamesKnown
    <2>4. scan'.kind = "update" /\ ~scan'.manifestChanged => scan'.todo \cap Manifests = {} BY <1>7 DEF NamesKnown
    <2> QED BY <1>1, <1>2, <1>7, <2>1, <2>2, <2>3, <2>4 DEF NamesKnown
  <1> QED BY <1>10, <1>11, <1>12, <1>13, <1>14, <1>15

LEMMA ScanFinishes ==
  ASSUME IndexInv, FinishScan
  PROVE  IndexInv'
  <1> USE DEF IndexInv
  <1>1. /\ scan.kind # "idle" /\ scan.at = "path" /\ scan.todo = {} /\ built' = TRUE
        /\ settled' = (scan.calm /\ scan.kind # "update")
        /\ UNCHANGED <<tree, writes, indexedBytes>>
    BY DEF FinishScan
  <1>2. /\ scan' = [kind |-> "idle", todo |-> {}, at |-> "path", stat |-> 0, manifestChanged |-> FALSE, calm |-> TRUE]
        /\ scan'.kind = "idle" /\ scan'.todo = {} /\ scan'.at = "path" /\ scan'.manifestChanged = FALSE /\ scan'.calm = TRUE
    BY DEF FinishScan, NoScan
  <1>3. Enumerations' = Enumerations /\ AllFit' = AllFit BY <1>1 DEF Enumerations, AllFit
  (* Only the package of a record changes.                                 *)
  <1>4. /\ DOMAIN records' = DOMAIN records
        /\ \A q \in DOMAIN records : /\ records'[q].version = records[q].version /\ records'[q].size = records[q].size
                                     /\ records'[q].contents = records[q].contents
                                     /\ Whole(records'[q])
                                     /\ records'[q].package = PackageIn(packages', q)
        /\ packages' = [m \in DOMAIN packages' |-> packages'[m]] /\ DOMAIN packages' \subseteq Manifests
        /\ missed' \in BOOLEAN
        /\ ~missed' => DOMAIN packages' \subseteq DOMAIN records
    <2>1. CASE scan.manifestChanged
      <3>1. PICK paths \in Enumerations :
              /\ packages' = DiscoverPackages(paths) /\ records' = Repackaged(records, packages')
              /\ missed' = (~AllFit \/ ~(DOMAIN packages' \subseteq DOMAIN records))
        BY <2>1 DEF FinishScan
      <3>2. DOMAIN records' = DOMAIN records BY <3>1 DEF Repackaged
      <3>3. \A q \in DOMAIN records :
              /\ records'[q].version = records[q].version /\ records'[q].size = records[q].size
              /\ records'[q].contents = records[q].contents
              /\ Whole(records'[q])
              /\ records'[q].package = PackageIn(packages', q)
        <4> SUFFICES ASSUME NEW q \in DOMAIN records
                     PROVE  /\ records'[q].version = records[q].version /\ records'[q].size = records[q].size
                            /\ records'[q].contents = records[q].contents
                            /\ Whole(records'[q])
                            /\ records'[q].package = PackageIn(packages', q)
          OBVIOUS
        <4>1. records'[q] = [records[q] EXCEPT !.package = PackageIn(packages', q)] BY <3>1 DEF Repackaged
        <4>2. Whole(records[q]) BY DEF IndexTypes
        <4>3. records'[q] = [version |-> records[q].version, size |-> records[q].size, contents |-> records[q].contents,
                             package |-> PackageIn(packages', q)]
          BY <4>1, <4>2 DEF Whole
        <4> QED BY <4>3 DEF Whole
      <3>4. packages' = [m \in DOMAIN packages' |-> packages'[m]] /\ DOMAIN packages' \subseteq Manifests
        BY <3>1, DiscoverIs
      <3> QED BY <3>1, <3>2, <3>3, <3>4
    <2>2. CASE ~scan.manifestChanged
      <3>1. UNCHANGED <<packages, records, missed>> BY <2>2 DEF FinishScan
      <3>2. ~missed => DOMAIN packages \subseteq DOMAIN records
        BY <1>1, <2>2 DEF NamesKnown, ScanShape, IndexTypes
      <3> QED BY <3>1, <3>2 DEF IndexTypes, NamesKnown
    <2> QED BY <2>1, <2>2
  <1>5. \A q \in DOMAIN records : UpToDate(q)' <=> UpToDate(q) BY <1>1, <1>4 DEF UpToDate
  <1>6. settled' => DOMAIN records \in Enumerations /\ \A q \in DOMAIN records : UpToDate(q)
    <2> SUFFICES ASSUME scan.calm, scan.kind # "update"
                 PROVE  DOMAIN records \in Enumerations /\ \A q \in DOMAIN records : UpToDate(q)
      BY <1>1
    <2>1. scan.kind \in {"build", "refresh"} BY <1>1 DEF IndexTypes
    <2>2. DOMAIN records \cup scan.todo = DOMAIN records /\ DOMAIN records \ scan.todo = DOMAIN records BY <1>1
    <2> QED BY <2>1, <2>2 DEF CalmScan
  <1>7. IndexTypes'
    <2>1. \A q \in DOMAIN records' : records'[q].version \in Nat /\ records'[q].version <= writes' /\ records'[q].size \in Nat
      BY <1>1, <1>4 DEF IndexTypes
    <2>2. settled' \in BOOLEAN BY <1>1
    <2> QED BY <1>1, <1>2, <1>4, <2>1, <2>2 DEF IndexTypes
  <1>8. ScanShape' BY <1>1, <1>2 DEF ScanShape
  <1>9. BytesHeld'
    <2>1. Counts(records) BY DEF IndexTypes, Counts, Held
    <2>2. \A q \in AllPaths : Held(records', q) = Held(records, q) BY <1>4 DEF Held
    <2>3. HeldBytes(records') = HeldBytes(records) BY <2>1, <2>2, HeldSame
    <2> QED BY <1>1, <1>2, <2>3 DEF BytesHeld
  <1>10. MetadataTellsChanges' BY <1>1, <1>4 DEF MetadataTellsChanges
  <1>11. CalmScan' BY <1>2, <1>3, <1>4, <1>5, <1>6 DEF CalmScan
  <1>12. NamesKnown'
    <2>1. CASE scan.manifestChanged
      <3>1. PICK paths \in Enumerations :
              /\ packages' = DiscoverPackages(paths)
              /\ missed' = (~AllFit \/ ~(DOMAIN packages' \subseteq DOMAIN records))
        BY <2>1 DEF FinishScan
      <3>2. ~missed' => paths = DOMAIN tree BY <3>1, ListedAll
      <3>3. /\ \A m : m \in DOMAIN packages' <=> m \in paths /\ m \in Manifests /\ tree[m].size <= MaxFileBytes /\ tree[m].kind = "text"
            /\ \A m \in DOMAIN packages' : packages'[m] = tree[m].version
        BY <3>1, DiscoverIs
      <3>4. ~missed' => \A m \in Manifests : NameFits(m)' BY <1>1, <3>2, <3>3 DEF NameFits, Nameable
      <3> QED BY <1>2, <1>4, <3>4 DEF NamesKnown
    <2>2. CASE ~scan.manifestChanged
      <3>1. UNCHANGED <<packages, records, missed>> BY <2>2 DEF FinishScan
      <3>2. \A m : NameFits(m)' <=> NameFits(m) BY <1>1, <3>1 DEF NameFits, Nameable
      <3>3. ~missed => \A m \in Manifests \cap DOMAIN records : UpToDate(m) => NameFits(m)
        BY <1>1, <2>2 DEF NamesKnown, ScanShape, IndexTypes
      <3>4. settled' /\ ~missed /\ AllFit => \A m \in Manifests : NameFits(m)
        <4> SUFFICES ASSUME settled', ~missed, AllFit, NEW m \in Manifests PROVE NameFits(m) OBVIOUS
        <4>1. DOMAIN records = DOMAIN tree /\ \A q \in DOMAIN records : UpToDate(q) BY <1>6, ListedAll
        <4>2. CASE m \in DOMAIN records BY <3>3, <4>1, <4>2
        <4>3. CASE m \notin DOMAIN records
          <5>1. m \notin DOMAIN packages BY <1>4, <3>1, <4>3
          <5> QED BY <4>1, <4>3, <5>1 DEF NameFits, Nameable
        <4> QED BY <4>2, <4>3
      <3> QED BY <1>2, <1>3, <1>4, <1>5, <3>1, <3>2, <3>3, <3>4 DEF NamesKnown
    <2> QED BY <2>1, <2>2
  <1> QED BY <1>7, <1>8, <1>9, <1>10, <1>11, <1>12

-----------------------------------------------------------------------------
LEMMA IndexStarts == IndexInit => IndexInv
  <1> SUFFICES ASSUME IndexInit PROVE IndexInv OBVIOUS
  <1>1. /\ scan = [kind |-> "idle", todo |-> {}, at |-> "path", stat |-> 0, manifestChanged |-> FALSE, calm |-> TRUE]
        /\ scan.kind = "idle" /\ scan.todo = {} /\ scan.at = "path" /\ scan.manifestChanged = FALSE /\ scan.calm = TRUE
    BY DEF IndexInit, NoScan
  <1>2. /\ DOMAIN records = {} /\ DOMAIN packages = {} /\ indexedBytes = 0 /\ writes = 1
        /\ built = FALSE /\ settled = FALSE /\ missed = FALSE
    BY DEF IndexInit
  <1>3. packages = [m \in DOMAIN packages |-> packages[m]] BY DEF IndexInit
  <1>4. DOMAIN tree = AllPaths /\ \A p \in AllPaths : tree[p].version = 1 /\ tree[p].size = 1 BY DEF IndexInit
  <1>5. IndexTypes
    <2>1. {built, settled, missed, scan.manifestChanged, scan.calm} \subseteq BOOLEAN BY <1>1, <1>2
    <2>2. /\ DOMAIN tree \subseteq AllPaths /\ DOMAIN records \subseteq AllPaths /\ scan.todo \subseteq AllPaths
          /\ writes \in Nat /\ indexedBytes \in Nat /\ DOMAIN packages \subseteq Manifests
          /\ \A p \in DOMAIN tree : tree[p].version \in Nat \ {0} /\ tree[p].version <= writes /\ tree[p].size \in Nat
      BY <1>1, <1>2, <1>4
    <2> QED BY <1>1, <1>2, <1>3, <2>1, <2>2 DEF IndexTypes
  <1>6. ScanShape BY <1>1, <1>2 DEF ScanShape
  <1>7. BytesHeld
    <2>1. HeldBytes(records) = 0 BY <1>2, HeldNone DEF Held
    <2> QED BY <1>1, <1>2, <2>1, IndexAssumption DEF BytesHeld
  <1>8. MetadataTellsChanges BY <1>2 DEF MetadataTellsChanges
  <1>9. CalmScan BY <1>1, <1>2 DEF CalmScan
  <1>10. NamesKnown BY <1>1, <1>2 DEF NamesKnown
  <1> QED BY <1>5, <1>6, <1>7, <1>8, <1>9, <1>10 DEF IndexInv

LEMMA IndexSteps == IndexInv /\ [IndexNext]_indexVars => IndexInv'
  <1> SUFFICES ASSUME IndexInv, [IndexNext]_indexVars PROVE IndexInv' OBVIOUS
  <1>1. CASE \E path \in AllPaths : OtherDeletes(path) \/ \E shape \in Shapes : OtherWrites(path, shape)
    <2>1. PICK path \in AllPaths : OtherDeletes(path) \/ \E shape \in Shapes : OtherWrites(path, shape) BY <1>1
    <2> QED BY <2>1, WorkspaceChanges
  <1>2. CASE WindowExpires \/ UNCHANGED indexVars BY <1>2, ExpiryKeeps
  <1>3. CASE BeginBuild BY <1>3, BuildBegins
  <1>4. CASE BeginRefresh BY <1>4, RefreshBegins
  <1>5. CASE \E changed \in ReportedChanges : BeginUpdate(changed)
    <2>1. PICK changed \in ReportedChanges : BeginUpdate(changed) BY <1>5
    <2> QED BY <2>1, UpdateBegins
  <1>6. CASE CompareMetadata BY <1>6, MetadataCompared
  <1>7. CASE UpdateFile BY <1>7, FileUpdates
  <1>8. CASE ReadContents BY <1>8, ContentsAreRead
  <1>9. CASE FailScan BY <1>9, ScanFails
  <1>10. CASE FinishScan BY <1>10, ScanFinishes
  <1> QED BY <1>1, <1>2, <1>3, <1>4, <1>5, <1>6, <1>7, <1>8, <1>9, <1>10 DEF IndexNext

LEMMA PackagesAreThose ==
  ASSUME IndexInv, \A m \in Manifests : NameFits(m)
  PROVE  packages = DiscoverPackages(DOMAIN tree)
  <1> DEFINE d == DiscoverPackages(DOMAIN tree)
  <1>1. /\ d = [m \in DOMAIN d |-> d[m]]
        /\ \A m : m \in DOMAIN d <=> m \in DOMAIN tree /\ m \in Manifests /\ tree[m].size <= MaxFileBytes /\ tree[m].kind = "text"
        /\ \A m \in DOMAIN d : d[m] = tree[m].version
    BY DiscoverIs
  <1> HIDE DEF d
  <1>2. packages = [m \in DOMAIN packages |-> packages[m]] /\ DOMAIN packages \subseteq Manifests BY DEF IndexInv, IndexTypes
  <1>3. DOMAIN packages = DOMAIN d BY <1>1, <1>2 DEF NameFits, Nameable
  <1>4. \A m \in DOMAIN packages : packages[m] = d[m] BY <1>1, <1>2, <1>3 DEF NameFits
  <1>5. packages = d BY <1>1, <1>2, <1>3, <1>4
  <1> QED BY <1>5 DEF d

(* The index counts the bytes it holds, a file whose metadata is as         *)
(* recorded is as it was read, a scan that nothing disturbed leaves the     *)
(* files of the workspace with their contents, and with the packages they   *)
(* belong to (build, refresh_if_stale, update_changed, update_file): for    *)
(* every workspace, every limit and every order of writes.                  *)
THEOREM IndexTrue == IndexSpec => []IndexIsTrue
  <1>1. IndexInv => IndexIsTrue
    <2> SUFFICES ASSUME IndexInv PROVE IndexIsTrue OBVIOUS
    <2>1. BytesAccounted /\ MetadataTellsChanges BY DEF IndexInv, BytesHeld, BytesAccounted
    <2>2. RefreshCatchesUp
      <3> SUFFICES ASSUME settled
                   PROVE  DOMAIN records \in Enumerations /\ \A p \in DOMAIN records : records[p].contents \in {NotRead, tree[p].version}
        BY DEF RefreshCatchesUp
      <3> QED BY <2>1 DEF IndexInv, CalmScan, UpToDate, MetadataTellsChanges
    <2>3. PackagesFollow
      <3> SUFFICES ASSUME settled, ~missed, AllFit
                   PROVE  \A p \in DOMAIN records : records[p].package = PackageIn(DiscoverPackages(DOMAIN tree), p)
        BY DEF PackagesFollow
      <3>1. \A m \in Manifests : NameFits(m) BY DEF IndexInv, NamesKnown
      <3>2. packages = DiscoverPackages(DOMAIN tree) BY <3>1, PackagesAreThose
      <3>3. \A p \in DOMAIN records : records[p].package = PackageIn(packages, p) BY DEF IndexInv, NamesKnown
      <3> QED BY <3>2, <3>3
    <2> QED BY <2>1, <2>2, <2>3 DEF IndexIsTrue
  <1> QED BY <1>1, IndexStarts, IndexSteps, PTL DEF IndexSpec

-----------------------------------------------------------------------------
(***************************************************************************)
(* WHAT THE MODEL IS SHOWN.                                                *)
(***************************************************************************)
(* A recursive function over the first N numbers, given by its steps.      *)
Steps(f, S, first, step, N) ==
  f \in [0 .. N -> S] /\ f[0] = first /\ \A n \in 1 .. N : f[n] = step[<<n, f[n - 1]>>]

LEMMA StepsExist ==
  ASSUME NEW N \in Nat, NEW S, NEW first \in S, NEW step \in [(1 .. N) \X S -> S]
  PROVE  \E f : Steps(f, S, first, step, N)
<1> DEFINE Bad == {k \in 0 .. N : ~\E f : Steps(f, S, first, step, k)}
<1>1. CASE Bad = {}
  BY <1>1
<1>2. CASE Bad # {}
  <2>1. PICK k \in Bad : \A j \in Bad : k <= j
    <3>1. Bad \in SUBSET Nat
      OBVIOUS
    <3> HIDE DEF Bad
    <3> QED BY <1>2, <3>1, LeastOf
  <2>2. k # 0
    <3>1. Steps([i \in 0 .. 0 |-> first], S, first, step, 0)
      BY DEF Steps
    <3> QED BY <2>1, <3>1
  <2>3. k \in 1 .. N /\ k - 1 \in 0 .. N /\ k - 1 \notin Bad
    BY <2>1, <2>2
  <2>4. PICK f : Steps(f, S, first, step, k - 1)
    BY <2>3
  <2> DEFINE last == step[<<k, f[k - 1]>>]
             g == [i \in 0 .. k |-> IF i < k THEN f[i] ELSE last]
  <2>5. f \in [0 .. k - 1 -> S] /\ f[k - 1] \in S
    BY <2>3, <2>4 DEF Steps
  <2>6. last \in S
    BY <2>3, <2>5
  <2>7. g \in [0 .. k -> S]
    <3> SUFFICES ASSUME NEW i \in 0 .. k PROVE (IF i < k THEN f[i] ELSE last) \in S
      OBVIOUS
    <3>1. i < k => i \in 0 .. k - 1
      BY <2>3
    <3> HIDE DEF last
    <3> QED BY <2>5, <2>6, <3>1
  <2>8. g[0] = first
    BY <2>3, <2>4 DEF Steps
  <2>9. ASSUME NEW n \in 1 .. k PROVE g[n] = step[<<n, g[n - 1]>>]
    <3>1. n - 1 \in 0 .. k /\ n - 1 < k /\ n \in 0 .. k
      BY <2>3
    <3>2. g[n - 1] = f[n - 1]
      BY <3>1
    <3>3. CASE n < k
      <4>1. n \in 1 .. k - 1
        BY <2>3, <3>3
      <4>2. f[n] = step[<<n, f[n - 1]>>]
        BY <2>4, <4>1 DEF Steps
      <4> QED BY <3>1, <3>2, <3>3, <4>2
    <3>4. CASE n = k
      BY <2>3, <3>1, <3>2, <3>4
    <3> QED BY <2>3, <3>3, <3>4
  <2>10. Steps(g, S, first, step, k)
    <3> HIDE DEF g
    <3> QED BY <2>7, <2>8, <2>9 DEF Steps
  <2> QED BY <2>1, <2>10
<1> QED BY <1>1, <1>2

LEMMA MaxOfTwo == \A a, b \in Int : Max({a, b}) = IF a > b THEN a ELSE b
<1> SUFFICES ASSUME NEW a \in Int, NEW b \in Int PROVE Max({a, b}) = IF a > b THEN a ELSE b
  OBVIOUS
<1> DEFINE m == IF a > b THEN a ELSE b
<1>1. m \in {a, b} /\ \A y \in {a, b} : m >= y
  OBVIOUS
<1>2. \A x \in {a, b} : (\A y \in {a, b} : x >= y) => x = m
  OBVIOUS
<1> QED BY <1>1, <1>2 DEF Max

LEMMA MinOfTwo == \A a, b \in Int : Min({a, b}) = IF a < b THEN a ELSE b
<1> SUFFICES ASSUME NEW a \in Int, NEW b \in Int PROVE Min({a, b}) = IF a < b THEN a ELSE b
  OBVIOUS
<1> DEFINE m == IF a < b THEN a ELSE b
<1>1. m \in {a, b} /\ \A y \in {a, b} : m <= y
  OBVIOUS
<1>2. \A x \in {a, b} : (\A y \in {a, b} : x <= y) => x = m
  OBVIOUS
<1> QED BY <1>1, <1>2 DEF Min

(* What Total adds up.                                                     *)
LEMMA TotalIs ==
  ASSUME NEW seq \in Seq(Nat)
  PROVE  \E f : Sums(f, seq, Len(seq)) /\ Total(seq) = f[Len(seq)]
<1> DEFINE N == Len(seq)
           Eq(f) == f = [i \in 0 .. N |-> IF i = 0 THEN 0 ELSE f[i - 1] + seq[i]]
           s == CHOOSE f : Eq(f)
<1>1. N \in Nat /\ \A n \in 1 .. N : seq[n] \in Nat
  OBVIOUS
<1>2. Total(seq) = s[N]
  BY DEF Total
<1> HIDE DEF N
<1>3. PICK f : Sums(f, seq, N)
  BY <1>1, SumExists
<1>4. Eq(f)
  <2>1. f = [i \in 0 .. N |-> f[i]]
    BY <1>3 DEF Sums
  <2>2. \A i \in 0 .. N : f[i] = IF i = 0 THEN 0 ELSE f[i - 1] + seq[i]
    <3> SUFFICES ASSUME NEW i \in 0 .. N PROVE f[i] = IF i = 0 THEN 0 ELSE f[i - 1] + seq[i]
      OBVIOUS
    <3>1. i # 0 => i \in 1 .. N
      BY <1>1
    <3> QED BY <1>3, <3>1 DEF Sums
  <2> QED BY <2>1, <2>2
<1>5. Eq(s)
  BY <1>4, Zenon
<1>6. s = [i \in 0 .. N |-> IF i = 0 THEN 0 ELSE s[i - 1] + seq[i]]
  BY <1>5
<1> HIDE DEF s
<1>7. s = f
  <2> DEFINE Bad == {k \in 0 .. N : s[k] # f[k]}
  <2>1. CASE Bad = {}
    <3>1. f = [i \in 0 .. N |-> f[i]]
      BY <1>3 DEF Sums
    <3>2. s = [i \in 0 .. N |-> s[i]]
      BY <1>6
    <3>3. \A i \in 0 .. N : s[i] = f[i]
      BY <2>1
    <3> QED BY <3>1, <3>2, <3>3
  <2>2. CASE Bad # {}
    <3>1. PICK k \in Bad : \A j \in Bad : k <= j
      <4>1. Bad \in SUBSET Nat
        BY <1>1
      <4> HIDE DEF Bad
      <4> QED BY <2>2, <4>1, LeastOf
    <3>2. k \in 0 .. N /\ k # 0
      BY <1>1, <1>3, <1>6, <3>1 DEF Sums
    <3>3. k \in 1 .. N /\ k - 1 \in 0 .. N /\ k - 1 \notin Bad
      BY <1>1, <3>1, <3>2
    <3>4. s[k - 1] = f[k - 1]
      BY <3>3
    <3>5. s[k] = s[k - 1] + seq[k]
      BY <1>6, <3>2
    <3>6. f[k] = f[k - 1] + seq[k]
      BY <1>3, <3>3 DEF Sums
    <3> QED BY <3>1, <3>4, <3>5, <3>6
  <2> QED BY <2>1, <2>2
<1> QED BY <1>2, <1>3, <1>7 DEF N

LEMMA TotalNat ==
  ASSUME NEW seq \in Seq(Nat)
  PROVE  Total(seq) \in Nat
<1>1. PICK f : Sums(f, seq, Len(seq)) /\ Total(seq) = f[Len(seq)]
  BY TotalIs
<1>2. Len(seq) \in 0 .. Len(seq)
  OBVIOUS
<1> QED BY <1>1, <1>2 DEF Sums

LEMMA TotalAppend ==
  ASSUME NEW seq \in Seq(Nat), NEW x \in Nat
  PROVE  Total(Append(seq, x)) = Total(seq) + x
<1> DEFINE N == Len(seq)
           t == Append(seq, x)
<1>1. N \in Nat /\ t \in Seq(Nat) /\ Len(t) = N + 1 /\ t[N + 1] = x /\ \A n \in 1 .. N : t[n] = seq[n] /\ seq[n] \in Nat
  OBVIOUS
<1>2. PICK f : Sums(f, seq, N) /\ Total(seq) = f[N]
  BY TotalIs
<1> HIDE DEF N, t
<1>3. PICK g : Sums(g, t, N + 1) /\ Total(t) = g[N + 1]
  BY <1>1, TotalIs
<1>4. g[N] = f[N]
  <2> DEFINE Bad == {k \in 0 .. N : g[k] # f[k]}
  <2>1. CASE Bad = {}
    BY <1>1, <2>1
  <2>2. CASE Bad # {}
    <3>1. PICK k \in Bad : \A j \in Bad : k <= j
      <4>1. Bad \in SUBSET Nat
        BY <1>1
      <4> HIDE DEF Bad
      <4> QED BY <2>2, <4>1, LeastOf
    <3>2. k \in 0 .. N /\ k # 0
      BY <1>1, <1>2, <1>3, <3>1 DEF Sums
    <3>3. k \in 1 .. N /\ k \in 1 .. N + 1 /\ k - 1 \in 0 .. N /\ k - 1 \notin Bad
      BY <1>1, <3>1, <3>2
    <3>4. g[k - 1] = f[k - 1]
      BY <3>3
    <3>5. g[k] = g[k - 1] + t[k]
      BY <1>3, <3>3 DEF Sums
    <3>6. f[k] = f[k - 1] + seq[k]
      BY <1>2, <3>3 DEF Sums
    <3> QED BY <1>1, <3>1, <3>3, <3>4, <3>5, <3>6
  <2> QED BY <2>1, <2>2
<1>5. N + 1 \in 1 .. N + 1 /\ N + 1 - 1 = N
  BY <1>1
<1>6. g[N + 1] = g[N] + x
  BY <1>1, <1>3, <1>5 DEF Sums
<1> QED BY <1>2, <1>3, <1>4, <1>6 DEF t

(* A sum number by number is at most another, or the sum of two others.    *)
LEMMA TotalAdds ==
  ASSUME NEW u \in Seq(Nat), NEW v \in Seq(Nat), NEW w \in Seq(Nat), Len(v) = Len(u), Len(w) = Len(u),
         \A n \in 1 .. Len(u) : u[n] = v[n] + w[n]
  PROVE  Total(u) = Total(v) + Total(w)
<1> DEFINE N == Len(u)
           U == u
           V == v
           W == w
<1>1. PICK f : Sums(f, U, N) /\ Total(u) = f[N]
  BY TotalIs
<1>2. PICK g : Sums(g, V, N) /\ Total(v) = g[N]
  BY TotalIs
<1>3. PICK h : Sums(h, W, N) /\ Total(w) = h[N]
  BY TotalIs
<1>4. N \in Nat /\ \A n \in 1 .. N : V[n] \in Nat /\ W[n] \in Nat /\ U[n] = V[n] + W[n]
  OBVIOUS
<1> HIDE DEF N, U, V, W
<1>5. f[N] = g[N] + h[N]
  BY <1>1, <1>2, <1>3, <1>4, SumsAdd
<1> QED BY <1>1, <1>2, <1>3, <1>5

LEMMA TotalBelow ==
  ASSUME NEW u \in Seq(Nat), NEW v \in Seq(Nat), Len(v) = Len(u), \A n \in 1 .. Len(u) : u[n] <= v[n]
  PROVE  Total(u) <= Total(v)
<1> DEFINE w == [n \in 1 .. Len(u) |-> v[n] - u[n]]
<1>1. \A n \in 1 .. Len(u) : u[n] \in Nat /\ v[n] \in Nat /\ u[n] <= v[n] /\ w[n] \in Nat /\ v[n] = u[n] + w[n]
  OBVIOUS
<1>2. w \in Seq(Nat) /\ Len(w) = Len(u)
  OBVIOUS
<1> HIDE DEF w
<1>6. Len(w) = Len(v) /\ Len(u) = Len(v) /\ \A n \in 1 .. Len(v) : v[n] = u[n] + w[n]
  BY <1>1, <1>2
<1>3. Total(v) = Total(u) + Total(w)
  BY <1>2, <1>6, TotalAdds
<1>4. Total(u) \in Nat /\ Total(w) \in Nat
  BY <1>2, TotalNat
<1> QED BY <1>3, <1>4

-----------------------------------------------------------------------------
(* The native history.                                                     *)
MessageSet == {m \in [role : {"assistant", "tool"}, size : Nat, args : Nat, number : Nat] : m.role = "tool" => m.args = 0}
Histories == Seq(MessageSet)

LEMMA TokensIs == \A b \in Nat : Tokens(b) \in Nat /\ 4 * Tokens(b) <= b + 3 /\ b <= 4 * Tokens(b)
  BY DEF Tokens

(* The same number for some of N places.                                   *)
LEMMA TotalCount ==
  ASSUME NEW N \in Nat, NEW S \in SUBSET (1 .. N), NEW c \in Nat
  PROVE  Total([i \in 1 .. N |-> IF i \in S THEN c ELSE 0]) = c * Cardinality(S) /\ Cardinality(S) \in Nat
<1> DEFINE seq == [i \in 1 .. N |-> IF i \in S THEN c ELSE 0]
           Upto(k) == S \cap (1 .. k)
<1>1. seq \in Seq(Nat) /\ Len(seq) = N /\ \A i \in 1 .. N : seq[i] = IF i \in S THEN c ELSE 0
  OBVIOUS
<1>2. \A k \in 0 .. N : IsFiniteSet(Upto(k)) /\ Cardinality(Upto(k)) \in Nat
  <2> SUFFICES ASSUME NEW k \in 0 .. N PROVE IsFiniteSet(Upto(k)) /\ Cardinality(Upto(k)) \in Nat
    OBVIOUS
  <2>1. IsFiniteSet(1 .. k)
    BY FS_Interval
  <2>2. IsFiniteSet(Upto(k))
    BY <2>1, FS_Intersection
  <2> QED BY <2>2, FS_CardinalityType
<1> HIDE DEF seq
<1>3. PICK f : Sums(f, seq, N) /\ Total(seq) = f[N]
  BY <1>1, TotalIs
<1> DEFINE Bad == {k \in 0 .. N : f[k] # c * Cardinality(Upto(k))}
<1>4. CASE Bad = {}
  <2>1. N \in 0 .. N
    OBVIOUS
  <2>3. Upto(N) = S
    <3>1. \A x \in S : x \in 1 .. N
      OBVIOUS
    <3> QED BY <3>1, Zenon
  <2> HIDE DEF Upto
  <2>2. f[N] = c * Cardinality(S)
    BY <1>4, <2>1, <2>3
  <2> QED BY <1>2, <1>3, <2>1, <2>2, <2>3 DEF seq
<1>5. CASE Bad # {}
  <2>1. PICK k \in Bad : \A j \in Bad : k <= j
    <3>1. Bad \in SUBSET Nat
      OBVIOUS
    <3> HIDE DEF Bad
    <3> QED BY <1>5, <3>1, LeastOf
  <2>2. k # 0
    <3>1. Upto(0) = {}
      OBVIOUS
    <3>2. Cardinality(Upto(0)) = 0
      BY <3>1, FS_EmptySet
    <3> HIDE DEF Upto
    <3>3. c * 0 = 0
      OBVIOUS
    <3> QED BY <1>3, <2>1, <3>2, <3>3 DEF Sums
  <2>3. k \in 1 .. N /\ k - 1 \in 0 .. N /\ k - 1 \notin Bad
    BY <2>1, <2>2
  <2>4. f[k - 1] = c * Cardinality(Upto(k - 1)) /\ Cardinality(Upto(k - 1)) \in Nat
    BY <1>2, <2>3
  <2>5. f[k] = f[k - 1] + seq[k]
    BY <1>3, <2>3 DEF Sums
  <2>6. CASE k \in S
    <3>1. Upto(k) = Upto(k - 1) \cup {k} /\ k \notin Upto(k - 1)
      BY <2>3, <2>6
    <3>2. IsFiniteSet(Upto(k - 1))
      BY <1>2, <2>3
    <3> HIDE DEF Upto, Bad
    <3>3. Cardinality(Upto(k)) = Cardinality(Upto(k - 1)) + 1
      BY <3>1, <3>2, FS_AddElement
    <3>4. seq[k] = c
      BY <1>1, <2>3, <2>6
    <3>5. f[k] = c * Cardinality(Upto(k))
      BY <2>4, <2>5, <3>3, <3>4
    <3> QED BY <2>1, <3>5 DEF Bad
  <2>7. CASE k \notin S
    <3>1. Upto(k) = Upto(k - 1)
      BY <2>3, <2>7
    <3> HIDE DEF Upto, Bad
    <3>2. seq[k] = 0
      BY <1>1, <2>3, <2>7
    <3>3. f[k] = c * Cardinality(Upto(k))
      BY <2>4, <2>5, <3>1, <3>2
    <3> QED BY <2>1, <3>3 DEF Bad
  <2> QED BY <2>6, <2>7
<1> QED BY <1>4, <1>5

ToolTokens(messages) == [i \in DOMAIN messages |-> IF IsTool(messages[i]) THEN MessageTokens(messages[i]) ELSE 0]

LEMMA HistoryAdds ==
  ASSUME NEW messages \in Histories
  PROVE  /\ HistoryTokens(messages) = FixedTokens(messages) + Total(ToolTokens(messages))
         /\ HistoryTokens(messages) \in Nat /\ FixedTokens(messages) \in Nat /\ Total(ToolTokens(messages)) \in Nat
         /\ Tools(messages) \in Nat
<1> DEFINE N == Len(messages)
           u == [i \in DOMAIN messages |-> MessageTokens(messages[i])]
           v == [i \in DOMAIN messages |-> IF IsTool(messages[i]) THEN 0 ELSE MessageTokens(messages[i])]
           w == ToolTokens(messages)
           S == {i \in DOMAIN messages : IsTool(messages[i])}
<1>1. N \in Nat /\ DOMAIN messages = 1 .. N /\ \A i \in 1 .. N : messages[i] \in MessageSet
  BY DEF Histories
<1>2. \A m \in MessageSet : MessageTokens(m) \in Nat
  <2> SUFFICES ASSUME NEW m \in MessageSet PROVE MessageTokens(m) \in Nat
    OBVIOUS
  <2>1. m.size + m.args \in Nat
    BY DEF MessageSet
  <2> QED BY <2>1, TokensIs DEF MessageTokens
<1>3. \A i \in 1 .. N : MessageTokens(messages[i]) \in Nat
  BY <1>1, <1>2
<1> HIDE DEF N
<1>4. u \in Seq(Nat) /\ v \in Seq(Nat) /\ w \in Seq(Nat) /\ Len(v) = Len(u) /\ Len(w) = Len(u) /\ Len(u) = N
  BY <1>1, <1>3 DEF ToolTokens
<1>5. \A n \in 1 .. Len(u) : u[n] = v[n] + w[n]
  BY <1>1, <1>3, <1>4 DEF ToolTokens
<1>6. HistoryTokens(messages) = Total(u) /\ FixedTokens(messages) = Total(v) /\ Tools(messages) = Cardinality(S)
  BY DEF HistoryTokens, FixedTokens, Tools
<1>7. S \in SUBSET (1 .. N)
  BY <1>1
<1> HIDE DEF u, v, w, S
<1>8. Total(u) = Total(v) + Total(w)
  BY <1>4, <1>5, TotalAdds
<1>9. Total(u) \in Nat /\ Total(v) \in Nat /\ Total(w) \in Nat
  BY <1>4, TotalNat
<1>10. Cardinality(S) \in Nat
  <2>1. 0 \in Nat
    OBVIOUS
  <2> QED BY <1>1, <1>7, <2>1, TotalCount
<1> QED BY <1>6, <1>8, <1>9, <1>10 DEF w

(* What each of some results may keep adds up to no more than there is.    *)
LEMMA SharesFit ==
  ASSUME NEW limit \in Nat, NEW fixed \in Nat, NEW tools \in Nat \ {0}, NEW share, fixed + tools <= limit,
         share = (Less(limit, fixed + tools) * 4) \div tools
  PROVE  share \in Nat /\ fixed + Tokens(share) * tools <= limit
<1> DEFINE X == limit - (fixed + tools)
           a == X * 4
<1>1. X \in Nat /\ a \in Nat /\ Less(limit, fixed + tools) = X
  BY DEF Less
<1>2. share = a \div tools
  BY <1>1
<1>3. share \in Nat /\ share * tools <= a
  <2> HIDE DEF a
  <2> QED BY <1>1, <1>2
<1> DEFINE c == Tokens(share)
<1>4. c \in Nat /\ 4 * c <= share + 3
  BY <1>3, TokensIs
<1> HIDE DEF c
<1>5. (4 * c) * tools <= (share + 3) * tools
  BY <1>3, <1>4
<1>6. (4 * c) * tools = 4 * (c * tools) /\ (share + 3) * tools = share * tools + 3 * tools
  BY <1>3, <1>4
<1>7. c * tools \in Nat /\ share * tools \in Nat
  BY <1>3, <1>4
<1>8. c * tools <= X + tools
  BY <1>1, <1>3, <1>5, <1>6, <1>7
<1>9. fixed + c * tools <= limit
  BY <1>1, <1>7, <1>8
<1> QED BY <1>3, <1>9 DEF c

LEMMA BudgetIs == HistoryBudget \in Nat
<1>1. Window \div 3 \in Nat /\ Window \in Nat
  BY WindowAssumption
<1> DEFINE m == Max({Window \div 3, 1})
<1>2. m \in Nat
  BY <1>1, MaxOfTwo
<1>3. HistoryBudget = Min({m, Window})
  BY DEF HistoryBudget
<1> HIDE DEF m
<1> QED BY <1>1, <1>2, <1>3, MinOfTwo

LEMMA BareIs ==
  ASSUME NEW messages \in Histories
  PROVE  WithoutArguments(messages) \in Histories
<1>1. DOMAIN messages = 1 .. Len(messages) /\ Len(messages) \in Nat /\ \A i \in DOMAIN messages : messages[i] \in MessageSet
  BY DEF Histories
<1>2. ASSUME NEW i \in DOMAIN messages
      PROVE  [messages[i] EXCEPT !.args = IF @ = 0 THEN 0 ELSE Placeholder] \in MessageSet
  <2>1. messages[i] \in MessageSet
    BY <1>1
  <2> QED BY <2>1 DEF MessageSet, Placeholder
<1> HIDE DEF MessageSet
<1> QED BY <1>1, <1>2 DEF WithoutArguments, Histories

CutAll(messages, share) ==
  [i \in DOMAIN messages |-> IF IsTool(messages[i]) THEN [messages[i] EXCEPT !.size = Cut(@, share)] ELSE messages[i]]

LEMMA CutFits ==
  ASSUME NEW messages \in Histories, NEW limit \in Nat
  PROVE  LET cut == CutAll(messages, ResultShare(messages, limit))
         IN /\ cut \in Histories
            /\ FixedTokens(cut) + Tools(cut) <= limit => HistoryTokens(cut) <= limit
<1> DEFINE N == Len(messages)
           share == ResultShare(messages, limit)
           cut == CutAll(messages, share)
           S == {i \in DOMAIN messages : IsTool(messages[i])}
<1>1. DOMAIN messages = 1 .. N /\ N \in Nat /\ \A i \in DOMAIN messages : messages[i] \in MessageSet
  BY DEF Histories
<1>2. share \in Nat
  <2> DEFINE tools == Max({1, Tools(messages)})
             X == Less(limit, FixedTokens(messages) + tools)
  <2>1. FixedTokens(messages) \in Nat /\ Tools(messages) \in Nat
    BY HistoryAdds
  <2>2. tools \in Nat \ {0}
    BY <2>1, MaxOfTwo
  <2> HIDE DEF tools
  <2>3. X \in Nat
    BY <2>1, <2>2 DEF Less
  <2> HIDE DEF X
  <2>4. (X * 4) \div tools \in Nat
    <3>1. X * 4 \in Nat
      BY <2>3
    <3> QED BY <2>2, <3>1
  <2> QED BY <2>4 DEF ResultShare, X, tools
<1> HIDE DEF share
<1>3. \A m \in MessageSet : IsTool(m) => /\ [m EXCEPT !.size = Cut(@, share)] \in MessageSet
                                         /\ IsTool([m EXCEPT !.size = Cut(@, share)])
                                         /\ [m EXCEPT !.size = Cut(@, share)].size \in 0 .. share
  BY <1>2 DEF MessageSet, IsTool, Cut
<1>4. DOMAIN cut = 1 .. N /\ \A i \in 1 .. N : /\ cut[i] \in MessageSet /\ (IsTool(cut[i]) <=> IsTool(messages[i]))
                                               /\ IsTool(cut[i]) => cut[i].size \in 0 .. share
                                               /\ ~IsTool(cut[i]) => cut[i] = messages[i]
  <2>1. \A i \in 1 .. N : cut[i] = IF IsTool(messages[i]) THEN [messages[i] EXCEPT !.size = Cut(@, share)] ELSE messages[i]
    BY <1>1 DEF CutAll
  <2>2. DOMAIN cut = 1 .. N
    BY <1>1 DEF CutAll
  <2> HIDE DEF cut
  <2> QED BY <1>1, <1>3, <2>1, <2>2
<1>5. cut = [i \in 1 .. N |-> cut[i]]
  BY <1>1 DEF CutAll
<1> HIDE DEF cut, N
<1>6. cut \in Histories
  BY <1>1, <1>4, <1>5 DEF Histories
<1>7. FixedTokens(cut) = FixedTokens(messages)
  <2>1. \A i \in 1 .. N : (IF IsTool(cut[i]) THEN 0 ELSE MessageTokens(cut[i])) = (IF IsTool(messages[i]) THEN 0 ELSE MessageTokens(messages[i]))
    BY <1>4
  <2>2. [i \in 1 .. N |-> IF IsTool(cut[i]) THEN 0 ELSE MessageTokens(cut[i])]
          = [i \in 1 .. N |-> IF IsTool(messages[i]) THEN 0 ELSE MessageTokens(messages[i])]
    BY <2>1
  <2> QED BY <1>1, <1>4, <2>2 DEF FixedTokens
<1>8. Tools(cut) = Cardinality(S) /\ Tools(messages) = Cardinality(S)
  <2>1. {i \in DOMAIN cut : IsTool(cut[i])} = S
    BY <1>1, <1>4
  <2> QED BY <2>1 DEF Tools
<1> DEFINE fixed == FixedTokens(messages)
           tools == Cardinality(S)
           w == ToolTokens(cut)
           c == Tokens(share)
           v == [i \in 1 .. N |-> IF i \in S THEN c ELSE 0]
<1>9. /\ HistoryTokens(cut) = fixed + Total(w) /\ Total(w) \in Nat /\ fixed \in Nat /\ tools \in Nat
      /\ HistoryTokens(cut) \in Nat
  BY <1>6, <1>7, <1>8, HistoryAdds
<1>10. c \in Nat
  BY <1>2, TokensIs
<1>11. w \in Seq(Nat) /\ v \in Seq(Nat) /\ Len(w) = N /\ Len(v) = N /\ \A n \in 1 .. N : w[n] <= v[n]
  <2>1. ASSUME NEW m \in MessageSet, IsTool(m), m.size \in 0 .. share
        PROVE  MessageTokens(m) \in Nat /\ MessageTokens(m) <= c
    <3>1. m.size + m.args = m.size
      BY <2>1 DEF MessageSet, IsTool
    <3> QED BY <1>2, <2>1, <3>1 DEF MessageTokens, Tokens
  <2>2. \A i \in 1 .. N : /\ w[i] = IF i \in S THEN MessageTokens(cut[i]) ELSE 0
                          /\ i \in S => MessageTokens(cut[i]) \in Nat /\ MessageTokens(cut[i]) <= c
    BY <1>1, <1>4, <2>1 DEF ToolTokens
  <2>3. w = [i \in 1 .. N |-> w[i]]
    BY <1>4 DEF ToolTokens
  <2> HIDE DEF w, S, c
  <2>4. \A i \in 1 .. N : w[i] \in Nat /\ v[i] \in Nat /\ w[i] <= v[i]
    BY <1>10, <2>2
  <2>5. v = [i \in 1 .. N |-> v[i]]
    OBVIOUS
  <2> HIDE DEF v
  <2>6. w \in [1 .. N -> Nat] /\ v \in [1 .. N -> Nat]
    BY <2>3, <2>4, <2>5
  <2>7. \A f \in [1 .. N -> Nat] : f \in Seq(Nat) /\ Len(f) = N
    BY <1>1
  <2> QED BY <2>4, <2>6, <2>7
<1>12. Total(v) = c * tools
  <2>1. S \in SUBSET (1 .. N) /\ N \in Nat
    BY <1>1
  <2> HIDE DEF S, c
  <2> QED BY <1>10, <2>1, TotalCount
<1>13. Total(w) <= c * tools
  <2> HIDE DEF w, v, c, tools
  <2>1. Total(w) <= Total(v)
    BY <1>11, TotalBelow
  <2> QED BY <1>12, <2>1
<1>14. share = (Less(limit, fixed + Max({1, tools})) * 4) \div Max({1, tools})
  BY <1>8 DEF share, ResultShare
<1>15. ASSUME fixed + tools <= limit PROVE HistoryTokens(cut) <= limit
  <2> HIDE DEF fixed, tools, w
  <2>1. CASE tools = 0
    <3>1. c * 0 = 0
      BY <1>10
    <3> HIDE DEF c
    <3> QED BY <1>9, <1>10, <1>13, <1>15, <2>1, <3>1
  <2>2. CASE tools # 0
    <3>1. Max({1, tools}) = tools
      BY <1>9, <2>2, MaxOfTwo
    <3>2. fixed + c * tools <= limit
      BY <1>9, <1>14, <1>15, <2>2, <3>1, SharesFit
    <3>3. c * tools \in Nat
      BY <1>9, <1>10
    <3> HIDE DEF c
    <3> QED BY <1>9, <1>13, <3>2, <3>3
  <2> QED BY <2>1, <2>2
<1>16. FixedTokens(cut) + Tools(cut) <= limit => HistoryTokens(cut) <= limit
  BY <1>7, <1>8, <1>15
<1> QED BY <1>6, <1>16 DEF cut, share

LEMMA TrimFits ==
  ASSUME NEW messages \in Histories, NEW limit \in Nat
  PROVE  /\ Trim(messages, limit) \in Histories
         /\ FixedTokens(Trim(messages, limit)) + Tools(Trim(messages, limit)) <= limit => HistoryTokens(Trim(messages, limit)) <= limit
<1> DEFINE bare == WithoutArguments(messages)
<1>1. bare \in Histories
  BY BareIs
<1>2. Trim(messages, limit) = IF HistoryTokens(messages) <= limit THEN messages
                              ELSE IF HistoryTokens(bare) <= limit THEN bare
                              ELSE CutAll(bare, ResultShare(bare, limit))
  BY DEF Trim, CutAll
<1> HIDE DEF bare
<1>3. LET cut == CutAll(bare, ResultShare(bare, limit))
      IN /\ cut \in Histories
         /\ FixedTokens(cut) + Tools(cut) <= limit => HistoryTokens(cut) <= limit
  BY <1>1, CutFits
<1> QED BY <1>1, <1>2, <1>3

-----------------------------------------------------------------------------
(* The candidates in their order.                                          *)
ItemKinds == {"system", "request", "summary", "diff", "instruction", "workspace", "message", "given",
              "file", "search", "shell", "check", "other"}
CandidateItems == [number : Nat, kind : ItemKinds, priority : Nat, recency : Nat, size : Nat, required : BOOLEAN]
NotAfter(a, b) == a.priority < b.priority \/ (a.priority = b.priority /\ a.recency <= b.recency)
Earlier(list, i) == {j \in DOMAIN list : Before(list, j, i)}

(* Every number up to N is the place of one.                               *)
LEMMA AllPlaces ==
  ASSUME NEW N \in Nat, NEW f \in [1 .. N -> 1 .. N], \A i, j \in 1 .. N : f[i] = f[j] => i = j
  PROVE  \A r \in 1 .. N : \E i \in 1 .. N : f[i] = r
<1> SUFFICES ASSUME NEW r \in 1 .. N, \A i \in 1 .. N : f[i] # r PROVE FALSE
  OBVIOUS
<1> DEFINE S == 1 .. N
           T == S \ {r}
           g == f
<1>1. IsFiniteSet(S) /\ Cardinality(S) = N /\ r \in S
  BY FS_Interval
<1>2. IsFiniteSet(T) /\ Cardinality(T) = N - 1
  <2> HIDE DEF S
  <2> QED BY <1>1, FS_RemoveElement
<1>3. g \in [S -> T]
  OBVIOUS
<1> HIDE DEF S, T, g
<1>4. IsFiniteSet(S) /\ IsFiniteSet(T) /\ Cardinality(T) < Cardinality(S)
  BY <1>1, <1>2
<1>5. \E x, y \in S : x # y /\ g[x] = g[y]
  BY <1>3, <1>4, FS_PigeonHole
<1> QED BY <1>5 DEF S, g

LEMMA BeforeOrders ==
  ASSUME NEW list \in Seq(CandidateItems)
  PROVE  /\ \A i \in DOMAIN list : ~Before(list, i, i)
         /\ \A i, j \in DOMAIN list : i # j => Before(list, i, j) \/ Before(list, j, i)
         /\ \A i, j, k \in DOMAIN list : Before(list, i, j) /\ Before(list, j, k) => Before(list, i, k)
         /\ \A i, j \in DOMAIN list : Before(list, i, j) => NotAfter(list[i], list[j])
<1>1. \A i \in DOMAIN list : i \in Nat /\ list[i].priority \in Nat /\ list[i].recency \in Nat
  <2>1. \A i \in DOMAIN list : i \in Nat /\ list[i] \in CandidateItems
    OBVIOUS
  <2>2. \A a \in CandidateItems : a.priority \in Nat /\ a.recency \in Nat
    BY DEF CandidateItems
  <2> QED BY <2>1, <2>2
<1> USE DEF Before, NotAfter
<1>2. ASSUME NEW i \in DOMAIN list PROVE ~Before(list, i, i)
  BY <1>1
<1>3. ASSUME NEW i \in DOMAIN list, NEW j \in DOMAIN list, i # j PROVE Before(list, i, j) \/ Before(list, j, i)
  BY <1>1, <1>3
<1>4. ASSUME NEW i \in DOMAIN list, NEW j \in DOMAIN list, NEW k \in DOMAIN list, Before(list, i, j), Before(list, j, k)
      PROVE  Before(list, i, k)
  BY <1>1, <1>4
<1>5. ASSUME NEW i \in DOMAIN list, NEW j \in DOMAIN list, Before(list, i, j) PROVE NotAfter(list[i], list[j])
  BY <1>1, <1>5
<1> HIDE DEF Before, NotAfter
<1> QED BY <1>2, <1>3, <1>4, <1>5

LEMMA PlacesAre ==
  ASSUME NEW list \in Seq(CandidateItems)
  PROVE  /\ \A i \in DOMAIN list : PlaceOf(list, i) \in DOMAIN list
         /\ \A i, j \in DOMAIN list : Before(list, i, j) => PlaceOf(list, i) < PlaceOf(list, j)
<1> DEFINE N == Len(list)
<1>1. DOMAIN list = 1 .. N /\ N \in Nat
  OBVIOUS
<1> HIDE DEF N
<1>2. ASSUME NEW i \in 1 .. N
      PROVE  /\ IsFiniteSet(Earlier(list, i)) /\ Cardinality(Earlier(list, i)) \in 0 .. N - 1
             /\ PlaceOf(list, i) = 1 + Cardinality(Earlier(list, i))
  <2> DEFINE S == 1 .. N
             T == S \ {i}
             E == Earlier(list, i)
  <2>1. IsFiniteSet(S) /\ Cardinality(S) = N
    BY <1>1, FS_Interval
  <2>2. E \in SUBSET T
    BY <1>1, <1>2, BeforeOrders DEF Earlier
  <2>3. IsFiniteSet(T) /\ Cardinality(T) = N - 1
    <3>1. i \in S
      OBVIOUS
    <3> HIDE DEF S
    <3> QED BY <2>1, <3>1, FS_RemoveElement
  <2> HIDE DEF S, T, E
  <2>4. IsFiniteSet(E) /\ Cardinality(E) <= N - 1
    BY <2>2, <2>3, FS_Subset
  <2>5. Cardinality(E) \in Nat
    BY <2>4, FS_CardinalityType
  <2>6. Cardinality(E) \in 0 .. N - 1
    BY <1>1, <2>4, <2>5
  <2> QED BY <2>4, <2>6 DEF E, PlaceOf, Earlier
<1>3. ASSUME NEW i \in 1 .. N, NEW j \in 1 .. N, Before(list, i, j) PROVE PlaceOf(list, i) < PlaceOf(list, j)
  <2> DEFINE E == Earlier(list, i)
             F == Earlier(list, j)
             G == E \cup {i}
  <2>1. IsFiniteSet(E) /\ IsFiniteSet(F) /\ Cardinality(E) \in Nat /\ Cardinality(F) \in Nat
    BY <1>1, <1>2
  <2>2. i \notin E
    BY <1>1, BeforeOrders DEF Earlier
  <2>3. G \in SUBSET F
    BY <1>1, <1>3, BeforeOrders DEF Earlier
  <2>4. PlaceOf(list, i) = 1 + Cardinality(E) /\ PlaceOf(list, j) = 1 + Cardinality(F)
    BY <1>2
  <2> HIDE DEF E, F
  <2>5. Cardinality(G) = Cardinality(E) + 1
    BY <2>1, <2>2, FS_AddElement
  <2> HIDE DEF G
  <2>6. Cardinality(G) <= Cardinality(F)
    BY <2>1, <2>3, FS_Subset
  <2> QED BY <2>1, <2>4, <2>5, <2>6
<1>4. \A i \in 1 .. N : PlaceOf(list, i) \in 1 .. N
  BY <1>1, <1>2
<1> QED BY <1>1, <1>3, <1>4

LEMMA RankedIs ==
  ASSUME NEW list \in Seq(CandidateItems)
  PROVE  /\ Ranked(list) \in Seq(CandidateItems) /\ Len(Ranked(list)) = Len(list)
         /\ \A r, s \in DOMAIN list : r < s => NotAfter(Ranked(list)[r], Ranked(list)[s])
         /\ \A i \in DOMAIN list : \E r \in DOMAIN list : Ranked(list)[r] = list[i]
<1> DEFINE N == Len(list)
           f == [i \in 1 .. N |-> PlaceOf(list, i)]
           at(r) == CHOOSE i \in DOMAIN list : PlaceOf(list, i) = r
<1>1. DOMAIN list = 1 .. N /\ N \in Nat /\ \A i \in 1 .. N : list[i] \in CandidateItems
  OBVIOUS
<1> HIDE DEF N
<1>2. f \in [1 .. N -> 1 .. N] /\ \A i \in 1 .. N : f[i] = PlaceOf(list, i)
  BY <1>1, PlacesAre
<1>3. \A i, j \in 1 .. N : PlaceOf(list, i) = PlaceOf(list, j) => i = j
  <2> SUFFICES ASSUME NEW i \in 1 .. N, NEW j \in 1 .. N, PlaceOf(list, i) = PlaceOf(list, j), i # j PROVE FALSE
    OBVIOUS
  <2>1. Before(list, i, j) \/ Before(list, j, i)
    BY <1>1, BeforeOrders
  <2>2. PlaceOf(list, i) \in 1 .. N /\ PlaceOf(list, j) \in 1 .. N
    BY <1>1, PlacesAre
  <2>3. PlaceOf(list, i) < PlaceOf(list, j) \/ PlaceOf(list, j) < PlaceOf(list, i)
    BY <1>1, <2>1, PlacesAre
  <2> QED BY <2>2, <2>3
<1>4. \A i, j \in 1 .. N : f[i] = f[j] => i = j
  BY <1>2, <1>3
<1> HIDE DEF f
<1>5. \A r \in 1 .. N : \E i \in 1 .. N : f[i] = r
  BY <1>1, <1>2, <1>4, AllPlaces
<1>6. \A r \in 1 .. N : \E i \in DOMAIN list : PlaceOf(list, i) = r
  BY <1>1, <1>2, <1>5
<1>7. \A r \in 1 .. N : at(r) \in 1 .. N /\ PlaceOf(list, at(r)) = r
  BY <1>1, <1>6
<1>8. Ranked(list) = [r \in 1 .. N |-> list[at(r)]]
  BY <1>1 DEF Ranked
<1> HIDE DEF at
<1>9. Ranked(list) \in Seq(CandidateItems) /\ Len(Ranked(list)) = N
  <2>1. \A r \in 1 .. N : list[at(r)] \in CandidateItems
    BY <1>1, <1>7
  <2> HIDE DEF CandidateItems
  <2> QED BY <1>1, <1>8, <2>1
<1>10. ASSUME NEW r \in 1 .. N, NEW s \in 1 .. N, r < s PROVE NotAfter(Ranked(list)[r], Ranked(list)[s])
  <2>1. at(r) # at(s)
    BY <1>7, <1>10
  <2>2. ~Before(list, at(s), at(r))
    <3>1. Before(list, at(s), at(r)) => PlaceOf(list, at(s)) < PlaceOf(list, at(r))
      BY <1>1, <1>7, PlacesAre
    <3> QED BY <1>1, <1>7, <1>10, <3>1
  <2>3. Before(list, at(r), at(s))
    BY <1>1, <1>7, <2>1, <2>2, BeforeOrders
  <2> QED BY <1>1, <1>7, <1>8, <2>3, BeforeOrders
<1>11. ASSUME NEW i \in 1 .. N PROVE \E r \in 1 .. N : Ranked(list)[r] = list[i]
  <2>1. PlaceOf(list, i) \in 1 .. N
    BY <1>1, PlacesAre
  <2>2. at(PlaceOf(list, i)) = i
    BY <1>3, <1>7, <2>1
  <2> QED BY <1>8, <2>1, <2>2
<1> QED BY <1>1, <1>9, <1>10, <1>11 DEF N

-----------------------------------------------------------------------------
(* What the candidates contain.                                            *)
Has(seq, x) == \E i \in DOMAIN seq : seq[i] = x

LEMMA ListOf ==
  ASSUME NEW S, NEW N \in Nat, NEW f, f = [i \in 1 .. N |-> f[i]], \A i \in 1 .. N : f[i] \in S
  PROVE  f \in Seq(S)
<1>1. f \in [1 .. N -> S]
  OBVIOUS
<1>2. \A g \in [1 .. N -> S] : g \in Seq(S)
  OBVIOUS
<1> QED BY <1>1, <1>2

LEMMA ConcatHas ==
  ASSUME NEW S, NEW s \in Seq(S), NEW t \in Seq(S)
  PROVE  /\ s \o t \in Seq(S)
         /\ \A x : Has(s, x) \/ Has(t, x) => Has(s \o t, x)
<1>1. s \o t \in Seq(S)
  OBVIOUS
<1>2. ASSUME NEW i \in DOMAIN s PROVE Has(s \o t, s[i])
  <2>1. i \in DOMAIN (s \o t) /\ (s \o t)[i] = s[i]
    OBVIOUS
  <2> QED BY <2>1 DEF Has
<1>3. ASSUME NEW i \in DOMAIN t PROVE Has(s \o t, t[i])
  <2>1. Len(s) + i \in DOMAIN (s \o t) /\ (s \o t)[Len(s) + i] = t[i]
    OBVIOUS
  <2> QED BY <2>1 DEF Has
<1> QED BY <1>1, <1>2, <1>3 DEF Has

LEMMA LatestIs ==
  ASSUME NEW S, NEW seq \in Seq(S), NEW n \in Nat
  PROVE  Latest(seq, n) \in Seq(S)
<1> DEFINE m == Max({1, Len(seq) - n + 1})
<1>1. m \in Nat /\ m >= 1
  BY MaxOfTwo
<1> HIDE DEF m
<1>2. SubSeq(seq, m, Len(seq)) \in Seq(S)
  BY <1>1
<1> QED BY <1>2 DEF Latest, m

LEMMA VisibleIs ==
  ASSUME NEW all \in Seq(Results)
  PROVE  Visible(all) \in Seq(Results)
<1> DEFINE N == Len(all)
           S == Seq(Results)
           Next1(n, x) == IF all[n].inHistory THEN x ELSE Append(x, all[n])
           Eq(f) == f = [i \in 0 .. N |-> IF i = 0 THEN <<>> ELSE Next1(i, f[i - 1])]
           s == CHOOSE f : Eq(f)
           step == [x \in (1 .. N) \X S |-> Next1(x[1], x[2])]
<1>1. N \in Nat /\ \A n \in 1 .. N : all[n] \in Results
  OBVIOUS
<1>2. Visible(all) = s[N]
  BY DEF Visible
<1>3. <<>> \in S
  OBVIOUS
<1>4. ASSUME NEW x \in S, NEW n \in 1 .. N PROVE Next1(n, x) \in S
  BY <1>1
<1> HIDE DEF Next1, S
<1>5. step \in [(1 .. N) \X S -> S]
  <2> SUFFICES ASSUME NEW x \in (1 .. N) \X S PROVE Next1(x[1], x[2]) \in S
    OBVIOUS
  <2>1. x[2] \in S /\ x[1] \in 1 .. N
    OBVIOUS
  <2> QED BY <1>4, <2>1
<1>6. \A n \in 1 .. N : \A x \in S : step[<<n, x>>] = Next1(n, x)
  OBVIOUS
<1> HIDE DEF step, N
<1>7. PICK f : Steps(f, S, <<>>, step, N)
  BY <1>1, <1>3, <1>5, StepsExist
<1>8. Eq(f)
  <2>1. f = [n \in 0 .. N |-> f[n]]
    BY <1>7 DEF Steps
  <2>2. \A n \in 0 .. N : f[n] = IF n = 0 THEN <<>> ELSE Next1(n, f[n - 1])
    <3> SUFFICES ASSUME NEW n \in 0 .. N PROVE f[n] = IF n = 0 THEN <<>> ELSE Next1(n, f[n - 1])
      OBVIOUS
    <3>1. CASE n = 0
      BY <1>7, <3>1 DEF Steps
    <3>2. CASE n # 0
      <4>1. n \in 1 .. N /\ n - 1 \in 0 .. N
        BY <1>1, <3>2
      <4>2. f[n] = step[<<n, f[n - 1]>>] /\ f[n - 1] \in S
        BY <1>7, <4>1 DEF Steps
      <4> QED BY <1>6, <3>2, <4>1, <4>2
    <3> QED BY <3>1, <3>2
  <2> QED BY <2>1, <2>2
<1>9. Eq(s)
  BY <1>8, Zenon
<1>10. s = [n \in 0 .. N |-> IF n = 0 THEN <<>> ELSE Next1(n, s[n - 1])]
  BY <1>9
<1> HIDE DEF s
<1>11. \A n \in 0 .. N : s[n] \in S
  <2> DEFINE Bad == {n \in 0 .. N : s[n] \notin S}
  <2>1. CASE Bad = {}
    BY <2>1
  <2>2. CASE Bad # {}
    <3>1. PICK n \in Bad : \A j \in Bad : n <= j
      <4>1. Bad \in SUBSET Nat
        BY <1>1
      <4> HIDE DEF Bad
      <4> QED BY <2>2, <4>1, LeastOf
    <3>2. n # 0
      BY <1>1, <1>3, <1>10, <3>1
    <3>3. n \in 1 .. N /\ n - 1 \in 0 .. N /\ n - 1 \notin Bad
      BY <1>1, <3>1, <3>2
    <3>4. s[n - 1] \in S
      BY <3>3
    <3>5. s[n] = Next1(n, s[n - 1])
      BY <1>1, <1>10, <3>2, <3>3
    <3>6. s[n] \in S
      BY <1>4, <3>3, <3>4, <3>5
    <3> QED BY <3>1, <3>6
  <2> QED BY <2>1, <2>2
<1> QED BY <1>1, <1>2, <1>11 DEF S

LEMMA OneOrNone ==
  ASSUME NEW S, NEW x \in S, NEW none \in BOOLEAN
  PROVE  (IF none THEN <<>> ELSE <<x>>) \in Seq(S)
<1>1. <<x>> \in Seq(S) /\ <<>> \in Seq(S)
  OBVIOUS
<1> QED BY <1>1

LEMMA ResultItemIs ==
  ASSUME NEW result \in Results, NEW recency \in Nat
  PROVE  /\ ResultItem(result, recency) \in CandidateItems
         /\ ResultItem(result, recency).number = result.number
         /\ ResultItem(result, recency).required = result.failure
<1> DEFINE size == IF result.kind = "shell" THEN Cut(result.size, SizeLimit["shell"]) ELSE result.size
<1>1. /\ result.number \in Nat /\ result.kind \in ItemKinds /\ result.size \in Nat /\ result.failure \in BOOLEAN
  <2>1. result.kind \in {"file", "search", "shell", "check", "other"} /\ result.number \in Nat
    BY DEF Results
  <2>2. result.size \in Nat /\ result.failure \in BOOLEAN
    BY DEF Results
  <2>3. result.kind \in ItemKinds
    BY <2>1 DEF ItemKinds
  <2> QED BY <2>1, <2>2, <2>3
<1>2. ResultPriority(result) \in Nat
  BY DEF ResultPriority
<1>3. size \in Nat
  BY <1>1, WindowAssumption DEF Cut
<1>4. ResultItem(result, recency) = [number |-> result.number, kind |-> result.kind, priority |-> ResultPriority(result),
                                     recency |-> recency, size |-> size, required |-> result.failure]
  BY DEF ResultItem, Item
<1> HIDE DEF size
<1> QED BY <1>1, <1>2, <1>3, <1>4 DEF CandidateItems

LEMMA CandidatesAre ==
  ASSUME NEW given \in Inputs, NEW said \in Seq(Nat), NEW all \in Seq(Results), NEW digest \in Nat
  PROVE  LET list == Candidates(given, said, all, digest)
             fresh == Latest(Visible(all), RecentResults)
         IN /\ list \in Seq(CandidateItems)
            /\ \E i \in DOMAIN list : list[i].kind = "system" /\ list[i].required
            /\ \E i \in DOMAIN list : list[i].kind = "request" /\ list[i].required
            /\ \A r \in DOMAIN fresh : fresh[r].failure => \E i \in DOMAIN list : list[i].number = fresh[r].number /\ list[i].required
<1> DEFINE list == Candidates(given, said, all, digest)
           fresh == Latest(Visible(all), RecentResults)
           recent == Latest(said, RecentMessages)
           guide == given.instructions
           S == CandidateItems
           c1 == <<Item(0, "system", 0, 0, given.system, TRUE), Item(0, "request", 0, 1, given.request, TRUE)>>
           c2 == Optional("summary", 3, 1000, digest)
           c3 == Optional("diff", 1, 0, given.diff)
           c4 == [i \in DOMAIN guide |-> Item(0, "instruction", 1, i - 1, guide[i], FALSE)]
           c5 == Optional("workspace", 3, 0, given.workspace)
           c6 == [i \in DOMAIN recent |-> Item(0, "message", 3, Len(recent) - i + 1, recent[i], FALSE)]
           c7 == [i \in DOMAIN given.files |-> Item(0, "given", 2, i - 1, given.files[i], FALSE)]
           c8 == [i \in DOMAIN fresh |-> LET r == Len(fresh) - i + 1 IN ResultItem(fresh[r], i)]
           d2 == c1 \o c2
           d3 == d2 \o c3
           d4 == d3 \o c4
           d5 == d4 \o c5
           d6 == d5 \o c6
           d7 == d6 \o c7
           d8 == d7 \o c8
<1>1. list = d8
  BY DEF Candidates
<1>2. /\ given.system \in Nat /\ given.request \in Nat /\ given.diff \in Nat /\ given.workspace \in Nat
      /\ guide \in Seq(Nat) /\ given.files \in Seq(Nat)
  BY InputsAssumption
<1>3. recent \in Seq(Nat) /\ fresh \in Seq(Results)
  BY WindowAssumption, LatestIs, VisibleIs
<1>4. c1 \in Seq(S) /\ c1[1].kind = "system" /\ c1[1].required /\ c1[2].kind = "request" /\ c1[2].required /\ DOMAIN c1 = 1 .. 2
  <2> DEFINE a == Item(0, "system", 0, 0, given.system, TRUE)
             b == Item(0, "request", 0, 1, given.request, TRUE)
  <2>1. a \in S /\ b \in S
    BY <1>2 DEF Item, CandidateItems, ItemKinds
  <2>2. a \in S /\ b \in S /\ a.kind = "system" /\ a.required = TRUE /\ b.kind = "request" /\ b.required = TRUE
    BY <2>1 DEF Item
  <2>3. c1 = <<a, b>>
    OBVIOUS
  <2> HIDE DEF S, a, b, c1
  <2>4. c1 \in Seq(S) /\ DOMAIN c1 = 1 .. 2 /\ c1[1] = a /\ c1[2] = b
    BY <2>2, <2>3
  <2> QED BY <2>2, <2>4
<1>5. c2 \in Seq(S) /\ c3 \in Seq(S) /\ c5 \in Seq(S)
  <2> DEFINE a == Item(0, "summary", 3, 1000, digest, FALSE)
             b == Item(0, "diff", 1, 0, given.diff, FALSE)
             c == Item(0, "workspace", 3, 0, given.workspace, FALSE)
  <2>1. a \in S /\ b \in S /\ c \in S
    BY <1>2 DEF Item, CandidateItems, ItemKinds
  <2>2. /\ c2 = IF digest = 0 THEN <<>> ELSE <<a>>
        /\ c3 = IF given.diff = 0 THEN <<>> ELSE <<b>>
        /\ c5 = IF given.workspace = 0 THEN <<>> ELSE <<c>>
    BY DEF Optional
  <2> HIDE DEF S, a, b, c, c2, c3, c5
  <2>3. (digest = 0) \in BOOLEAN /\ (given.diff = 0) \in BOOLEAN /\ (given.workspace = 0) \in BOOLEAN
    OBVIOUS
  <2> QED BY <2>1, <2>2, <2>3, OneOrNone
<1>6. c4 \in Seq(S)
  <2> DEFINE N == Len(guide)
  <2>1. N \in Nat /\ DOMAIN guide = 1 .. N /\ \A i \in 1 .. N : guide[i] \in Nat
    BY <1>2
  <2>3. \A i \in 1 .. N : Item(0, "instruction", 1, i - 1, guide[i], FALSE) \in S
    <3> SUFFICES ASSUME NEW i \in 1 .. N PROVE Item(0, "instruction", 1, i - 1, guide[i], FALSE) \in S
      OBVIOUS
    <3>1. i - 1 \in Nat
      BY <2>1
    <3> HIDE DEF N
    <3> QED BY <2>1, <3>1 DEF Item, CandidateItems, ItemKinds
  <2>4. DOMAIN c4 = 1 .. N /\ \A i \in 1 .. N : c4[i] = Item(0, "instruction", 1, i - 1, guide[i], FALSE)
    BY <2>1
  <2>5. c4 = [i \in 1 .. N |-> c4[i]]
    BY <2>1
  <2> HIDE DEF S, c4, N
  <2> QED BY <2>1, <2>3, <2>4, <2>5, ListOf
<1>7. c6 \in Seq(S)
  <2> DEFINE N == Len(recent)
  <2>1. N \in Nat /\ DOMAIN recent = 1 .. N /\ \A i \in 1 .. N : recent[i] \in Nat
    BY <1>3
  <2> HIDE DEF recent
  <2>3. \A i \in 1 .. N : Item(0, "message", 3, Len(recent) - i + 1, recent[i], FALSE) \in S
    <3> SUFFICES ASSUME NEW i \in 1 .. N PROVE Item(0, "message", 3, Len(recent) - i + 1, recent[i], FALSE) \in S
      OBVIOUS
    <3>1. Len(recent) - i + 1 \in Nat
      BY <2>1
    <3> HIDE DEF N
    <3> QED BY <2>1, <3>1 DEF Item, CandidateItems, ItemKinds
  <2>4. DOMAIN c6 = 1 .. N /\ \A i \in 1 .. N : c6[i] = Item(0, "message", 3, Len(recent) - i + 1, recent[i], FALSE)
    BY <2>1
  <2>5. c6 = [i \in 1 .. N |-> c6[i]]
    BY <2>1
  <2> HIDE DEF S, c6, N
  <2> QED BY <2>1, <2>3, <2>4, <2>5, ListOf
<1>8. c7 \in Seq(S)
  <2> DEFINE N == Len(given.files)
  <2>1. N \in Nat /\ DOMAIN given.files = 1 .. N /\ \A i \in 1 .. N : given.files[i] \in Nat
    BY <1>2
  <2>3. \A i \in 1 .. N : Item(0, "given", 2, i - 1, given.files[i], FALSE) \in S
    <3> SUFFICES ASSUME NEW i \in 1 .. N PROVE Item(0, "given", 2, i - 1, given.files[i], FALSE) \in S
      OBVIOUS
    <3>1. i - 1 \in Nat
      BY <2>1
    <3> HIDE DEF N
    <3> QED BY <2>1, <3>1 DEF Item, CandidateItems, ItemKinds
  <2>4. DOMAIN c7 = 1 .. N /\ \A i \in 1 .. N : c7[i] = Item(0, "given", 2, i - 1, given.files[i], FALSE)
    BY <2>1
  <2>5. c7 = [i \in 1 .. N |-> c7[i]]
    BY <2>1
  <2> HIDE DEF S, c7, N
  <2> QED BY <2>1, <2>3, <2>4, <2>5, ListOf
<1>9. /\ c8 \in Seq(S)
      /\ \A r \in DOMAIN fresh : fresh[r].failure => \E i \in DOMAIN c8 : c8[i].number = fresh[r].number /\ c8[i].required
  <2> DEFINE N == Len(fresh)
  <2> HIDE DEF fresh
  <2>1. N \in Nat /\ DOMAIN fresh = 1 .. N /\ \A r \in 1 .. N : fresh[r] \in Results
    BY <1>3
  <2>2. \A i \in 1 .. N : N - i + 1 \in 1 .. N /\ N - (N - i + 1) + 1 = i /\ i \in Nat
    BY <2>1
  <2>3. DOMAIN c8 = 1 .. N /\ \A i \in 1 .. N : c8[i] = ResultItem(fresh[N - i + 1], i)
    BY <2>1
  <2>4. \A i \in 1 .. N : /\ c8[i] \in S /\ c8[i].number = fresh[N - i + 1].number
                          /\ c8[i].required = fresh[N - i + 1].failure
    <3> HIDE DEF S, c8, N
    <3> QED BY <2>1, <2>2, <2>3, ResultItemIs DEF S
  <2>5. c8 = [i \in 1 .. N |-> c8[i]]
    BY <2>1
  <2> HIDE DEF S, c8, N
  <2>6. c8 \in Seq(S)
    BY <2>1, <2>4, <2>5, ListOf
  <2>7. \A r \in 1 .. N : c8[N - r + 1].number = fresh[r].number /\ c8[N - r + 1].required = fresh[r].failure
    BY <2>2, <2>4
  <2> QED BY <2>1, <2>2, <2>3, <2>6, <2>7
<1> HIDE DEF S, c1, c2, c3, c4, c5, c6, c7, c8, fresh
<1>10. d2 \in Seq(S) /\ \A x : Has(c1, x) => Has(d2, x)
  BY <1>4, <1>5, ConcatHas
<1> HIDE DEF d2
<1>11. d3 \in Seq(S) /\ \A x : Has(d2, x) => Has(d3, x)
  BY <1>5, <1>10, ConcatHas
<1> HIDE DEF d3
<1>12. d4 \in Seq(S) /\ \A x : Has(d3, x) => Has(d4, x)
  BY <1>6, <1>11, ConcatHas
<1> HIDE DEF d4
<1>13. d5 \in Seq(S) /\ \A x : Has(d4, x) => Has(d5, x)
  BY <1>5, <1>12, ConcatHas
<1> HIDE DEF d5
<1>14. d6 \in Seq(S) /\ \A x : Has(d5, x) => Has(d6, x)
  BY <1>7, <1>13, ConcatHas
<1> HIDE DEF d6
<1>15. d7 \in Seq(S) /\ \A x : Has(d6, x) => Has(d7, x)
  BY <1>8, <1>14, ConcatHas
<1> HIDE DEF d7
<1>16. d8 \in Seq(S) /\ (\A x : Has(d7, x) => Has(d8, x)) /\ \A x : Has(c8, x) => Has(d8, x)
  BY <1>9, <1>15, ConcatHas
<1> HIDE DEF d8
<1>17. \A x : Has(c1, x) => Has(d8, x)
  BY <1>10, <1>11, <1>12, <1>13, <1>14, <1>15, <1>16
<1>18. Has(d8, c1[1]) /\ Has(d8, c1[2])
  <2>1. 1 \in DOMAIN c1 /\ 2 \in DOMAIN c1
    BY <1>4
  <2> QED BY <1>17, <2>1 DEF Has
<1>19. \A r \in DOMAIN fresh : fresh[r].failure => \E i \in DOMAIN d8 : d8[i].number = fresh[r].number /\ d8[i].required
  <2> SUFFICES ASSUME NEW r \in DOMAIN fresh, fresh[r].failure
               PROVE  \E i \in DOMAIN d8 : d8[i].number = fresh[r].number /\ d8[i].required
    OBVIOUS
  <2>1. PICK i \in DOMAIN c8 : c8[i].number = fresh[r].number /\ c8[i].required
    BY <1>9
  <2>2. Has(d8, c8[i])
    BY <1>16 DEF Has
  <2> QED BY <2>1, <2>2 DEF Has
<1>20. (\E i \in DOMAIN d8 : d8[i].kind = "system" /\ d8[i].required) /\ \E i \in DOMAIN d8 : d8[i].kind = "request" /\ d8[i].required
  BY <1>4, <1>18 DEF Has
<1> HIDE DEF list
<1>21. LET n == list IN n = d8
  BY <1>1
<1> QED BY <1>1, <1>16, <1>19, <1>20 DEF list, fresh, S

-----------------------------------------------------------------------------
(* The prompt, item by item.                                               *)
ShownItems == [number : Nat, kind : ItemKinds, rank : Nat \X Nat, whole : Nat, size : Nat, tokens : Nat, included : BOOLEAN,
               truncated : BOOLEAN]
Assemblies(budget) == {acc \in [used : Nat, items : Seq(ShownItems)] : acc.used <= budget}
TokensOf(x) == IF x.included THEN x.tokens ELSE 0
Mirrors(x, item) ==
  /\ x.number = item.number /\ x.kind = item.kind /\ x.rank = <<item.priority, item.recency>>
  /\ item.required => x.included
  /\ x.included /\ x.size < x.whole => x.truncated
Adds(acc, x, item, budget, next) ==
  /\ next = [used |-> acc.used + TokensOf(x), items |-> Append(acc.items, x)]
  /\ acc.used + TokensOf(x) <= budget
  /\ Mirrors(x, item)
  /\ ~x.included => acc.used + x.tokens > budget

IsShown(x, item, size, tokens, truncated) ==
  /\ x \in ShownItems /\ [x EXCEPT !.included = FALSE] \in ShownItems
  /\ x.number = item.number /\ x.kind = item.kind /\ x.rank = <<item.priority, item.recency>>
  /\ x.included = TRUE /\ x.size = size /\ x.whole = item.size /\ x.truncated = truncated /\ x.tokens = tokens

LEMMA ShownIs ==
  ASSUME NEW item \in CandidateItems, NEW size \in Nat, NEW tokens \in Nat, NEW truncated \in BOOLEAN
  PROVE  IsShown(Shown(item, size, tokens, truncated), item, size, tokens, truncated)
<1> DEFINE rank == <<item.priority, item.recency>>
           x == [number |-> item.number, kind |-> item.kind, rank |-> rank, whole |-> item.size, size |-> size,
                 tokens |-> tokens, included |-> TRUE, truncated |-> truncated]
<1>1. item.number \in Nat /\ item.kind \in ItemKinds /\ item.priority \in Nat /\ item.recency \in Nat /\ item.size \in Nat
  BY DEF CandidateItems
<1>2. rank \in Nat \X Nat
  BY <1>1
<1>3. Shown(item, size, tokens, truncated) = x
  BY DEF Shown
<1> HIDE DEF rank
<1>4. x \in ShownItems /\ [x EXCEPT !.included = FALSE] \in ShownItems
  BY <1>1, <1>2 DEF ShownItems
<1>5. /\ x.number = item.number /\ x.kind = item.kind /\ x.rank = rank
      /\ x.included = TRUE /\ x.size = size /\ x.whole = item.size /\ x.truncated = truncated /\ x.tokens = tokens
  OBVIOUS
<1> HIDE DEF x
<1> QED BY <1>3, <1>4, <1>5 DEF rank, IsShown

LEMMA AddItemIs ==
  ASSUME NEW budget \in Nat, NEW acc \in Assemblies(budget), NEW item \in CandidateItems
  PROVE  \E x \in ShownItems : Adds(acc, x, item, budget, AddItem(budget, acc, item))
<1> DEFINE size == IF item.kind \in DOMAIN SizeLimit THEN Cut(item.size, SizeLimit[item.kind]) ELSE item.size
           fits == acc.used + Tokens(size) <= budget
           rest == Cut(size, Less(budget, acc.used) * 4)
           x1 == Shown(item, size, Tokens(size), size < item.size)
           x2 == Shown(item, rest, Tokens(rest), TRUE)
           x3 == Shown(item, 0, Tokens(size), FALSE)
           x4 == [x3 EXCEPT !.included = FALSE]
<1>1. acc.used \in Nat /\ acc.used <= budget /\ acc = [used |-> acc.used, items |-> acc.items]
  BY DEF Assemblies
<1>2. item.size \in Nat /\ item.required \in BOOLEAN
  BY DEF CandidateItems
<1>3. size \in Nat
  BY <1>2, WindowAssumption DEF Cut
<1>4. AddItem(budget, acc, item) =
        IF fits THEN [used |-> acc.used + Tokens(size), items |-> Append(acc.items, x1)]
        ELSE IF item.required THEN [used |-> acc.used + Tokens(rest), items |-> Append(acc.items, x2)]
        ELSE [acc EXCEPT !.items = Append(@, x4)]
  BY DEF AddItem
<1> HIDE DEF size
<1>5. Tokens(size) \in Nat
  BY <1>3, TokensIs
<1>6. rest \in Nat /\ rest <= Less(budget, acc.used) * 4 /\ Less(budget, acc.used) = budget - acc.used
  BY <1>1, <1>3 DEF Cut, Less
<1>7. Tokens(rest) \in Nat /\ acc.used + Tokens(rest) <= budget
  <2> HIDE DEF rest
  <2>1. Tokens(rest) \in Nat /\ 4 * Tokens(rest) <= rest + 3
    BY <1>6, TokensIs
  <2> HIDE DEF rest
  <2> QED BY <1>1, <1>6, <2>1
<1>8. (size < item.size) \in BOOLEAN
  OBVIOUS
<1>9. /\ x1 \in ShownItems /\ x1.number = item.number /\ x1.kind = item.kind /\ x1.rank = <<item.priority, item.recency>>
      /\ x1.included = TRUE /\ x1.size = size /\ x1.whole = item.size /\ x1.truncated = (size < item.size) /\ x1.tokens = Tokens(size)
  <2>1. IsShown(x1, item, size, Tokens(size), size < item.size)
    BY <1>3, <1>5, <1>8, ShownIs, Zenon
  <2> HIDE DEF x1
  <2> QED BY <2>1 DEF IsShown
<1>10. /\ x2 \in ShownItems /\ x2.number = item.number /\ x2.kind = item.kind /\ x2.rank = <<item.priority, item.recency>>
       /\ x2.included = TRUE /\ x2.truncated = TRUE /\ x2.tokens = Tokens(rest)
  <2>1. TRUE \in BOOLEAN
    OBVIOUS
  <2>2. IsShown(x2, item, rest, Tokens(rest), TRUE)
    BY <1>6, <1>7, <2>1, ShownIs, Zenon
  <2> HIDE DEF x2
  <2> QED BY <2>2 DEF IsShown
<1>11. /\ x4 \in ShownItems /\ x4.number = item.number /\ x4.kind = item.kind /\ x4.rank = <<item.priority, item.recency>>
       /\ x4.included = FALSE /\ x4.tokens = Tokens(size)
  <2>1. /\ x4 \in ShownItems /\ x3 \in ShownItems /\ x3.number = item.number /\ x3.kind = item.kind
        /\ x3.rank = <<item.priority, item.recency>> /\ x3.tokens = Tokens(size)
    <3>1. FALSE \in BOOLEAN /\ 0 \in Nat
      OBVIOUS
    <3>2. IsShown(x3, item, 0, Tokens(size), FALSE)
      BY <1>5, <3>1, ShownIs, Zenon
    <3> HIDE DEF x3
    <3> QED BY <3>2 DEF IsShown
  <2>2. x4.number = x3.number /\ x4.kind = x3.kind /\ x4.rank = x3.rank /\ x4.tokens = x3.tokens /\ x4.included = FALSE
    <3>1. x3 \in ShownItems
      BY <2>1
    <3> HIDE DEF x3
    <3> QED BY <3>1 DEF ShownItems
  <2> HIDE DEF x3, x4
  <2> QED BY <2>1, <2>2
<1> HIDE DEF x1, x2, x3, x4, rest
<1>12. CASE fits
  <2>1. TokensOf(x1) = Tokens(size)
    BY <1>9 DEF TokensOf
  <2>2. Mirrors(x1, item)
    BY <1>9 DEF Mirrors
  <2>3. Adds(acc, x1, item, budget, AddItem(budget, acc, item))
    BY <1>4, <1>9, <1>12, <2>1, <2>2 DEF Adds
  <2> QED BY <1>9, <2>3
<1>13. CASE ~fits /\ item.required
  <2>1. TokensOf(x2) = Tokens(rest)
    BY <1>10 DEF TokensOf
  <2>2. Mirrors(x2, item)
    BY <1>10 DEF Mirrors
  <2>3. Adds(acc, x2, item, budget, AddItem(budget, acc, item))
    BY <1>4, <1>7, <1>10, <1>13, <2>1, <2>2 DEF Adds
  <2> QED BY <1>10, <2>3
<1>14. CASE ~fits /\ ~item.required
  <2>1. TokensOf(x4) = 0
    BY <1>11 DEF TokensOf
  <2>2. Mirrors(x4, item)
    BY <1>11, <1>14 DEF Mirrors
  <2>3. AddItem(budget, acc, item) = [used |-> acc.used + 0, items |-> Append(acc.items, x4)]
    <3> DEFINE y == Append(acc.items, x4)
    <3>1. acc.used + 0 = acc.used
      BY <1>1
    <3>2. AddItem(budget, acc, item) = [acc EXCEPT !.items = y]
      BY <1>4, <1>14
    <3> HIDE DEF y
    <3>3. [acc EXCEPT !.items = y] = [used |-> acc.used, items |-> y]
      BY <1>1
    <3> QED BY <3>1, <3>2, <3>3 DEF y
  <2>4. acc.used + x4.tokens > budget
    BY <1>1, <1>5, <1>11, <1>14
  <2>5. Adds(acc, x4, item, budget, AddItem(budget, acc, item))
    BY <1>1, <2>1, <2>2, <2>3, <2>4 DEF Adds
  <2> QED BY <1>11, <2>5
<1> QED BY <1>2, <1>12, <1>13, <1>14

LEMMA AddItemFits ==
  ASSUME NEW budget \in Nat, NEW acc \in Assemblies(budget), NEW item \in CandidateItems
  PROVE  AddItem(budget, acc, item) \in Assemblies(budget)
<1>1. PICK x \in ShownItems : Adds(acc, x, item, budget, AddItem(budget, acc, item))
  BY AddItemIs
<1>2. TokensOf(x) \in Nat
  BY DEF TokensOf, ShownItems
<1>3. acc.used \in Nat /\ acc.items \in Seq(ShownItems)
  BY DEF Assemblies
<1> HIDE DEF ShownItems
<1>4. Append(acc.items, x) \in Seq(ShownItems)
  BY <1>3
<1> QED BY <1>1, <1>2, <1>3, <1>4 DEF Adds, Assemblies

(* The assemblies after the first n items.                                 *)
Assembles(f, budget, list) ==
  /\ AddAll(budget, list) = f[Len(list)]
  /\ f[0] = [used |-> 0, items |-> <<>>]
  /\ \A n \in 0 .. Len(list) : f[n] \in Assemblies(budget)
  /\ \A n \in 1 .. Len(list) : f[n] = AddItem(budget, f[n - 1], list[n])

LEMMA AddAllIs ==
  ASSUME NEW budget \in Nat, NEW list \in Seq(CandidateItems)
  PROVE  \E f : Assembles(f, budget, list)
<1> DEFINE N == Len(list)
           S == Assemblies(budget)
           first == [used |-> 0, items |-> <<>>]
           Next1(n, x) == AddItem(budget, x, list[n])
           Eq(f) == f = [i \in 0 .. N |-> IF i = 0 THEN first ELSE Next1(i, f[i - 1])]
           s == CHOOSE f : Eq(f)
           step == [x \in (1 .. N) \X S |-> Next1(x[1], x[2])]
<1>1. N \in Nat /\ \A n \in 1 .. N : list[n] \in CandidateItems
  OBVIOUS
<1>2. AddAll(budget, list) = s[N]
  BY DEF AddAll
<1>3. first \in S
  <2>1. <<>> \in Seq(ShownItems)
    OBVIOUS
  <2> HIDE DEF ShownItems
  <2> QED BY <2>1 DEF Assemblies
<1>4. ASSUME NEW x \in S, NEW n \in 1 .. N PROVE Next1(n, x) \in S
  BY <1>1, AddItemFits
<1> HIDE DEF Next1, S, first
<1>5. step \in [(1 .. N) \X S -> S]
  <2> SUFFICES ASSUME NEW x \in (1 .. N) \X S PROVE Next1(x[1], x[2]) \in S
    OBVIOUS
  <2>1. x[2] \in S /\ x[1] \in 1 .. N
    OBVIOUS
  <2> QED BY <1>4, <2>1
<1>6. \A n \in 1 .. N : \A x \in S : step[<<n, x>>] = Next1(n, x)
  OBVIOUS
<1> HIDE DEF step, N
<1>7. PICK f : Steps(f, S, first, step, N)
  BY <1>1, <1>3, <1>5, StepsExist
<1>8. Eq(f)
  <2>1. f = [n \in 0 .. N |-> f[n]]
    BY <1>7 DEF Steps
  <2>2. \A n \in 0 .. N : f[n] = IF n = 0 THEN first ELSE Next1(n, f[n - 1])
    <3> SUFFICES ASSUME NEW n \in 0 .. N PROVE f[n] = IF n = 0 THEN first ELSE Next1(n, f[n - 1])
      OBVIOUS
    <3>1. CASE n = 0
      BY <1>7, <3>1 DEF Steps
    <3>2. CASE n # 0
      <4>1. n \in 1 .. N /\ n - 1 \in 0 .. N
        BY <1>1, <3>2
      <4>2. f[n] = step[<<n, f[n - 1]>>] /\ f[n - 1] \in S
        BY <1>7, <4>1 DEF Steps
      <4> QED BY <1>6, <3>2, <4>1, <4>2
    <3> QED BY <3>1, <3>2
  <2> QED BY <2>1, <2>2
<1>9. Eq(s)
  BY <1>8, Zenon
<1>10. s = [n \in 0 .. N |-> IF n = 0 THEN first ELSE Next1(n, s[n - 1])]
  BY <1>9
<1> HIDE DEF s
<1>11. s[0] = first
  BY <1>1, <1>10
<1>12. \A n \in 1 .. N : s[n] = Next1(n, s[n - 1])
  <2> SUFFICES ASSUME NEW n \in 1 .. N PROVE s[n] = Next1(n, s[n - 1])
    OBVIOUS
  <2>1. n \in 0 .. N /\ n # 0
    BY <1>1
  <2> QED BY <1>10, <2>1
<1>13. \A n \in 0 .. N : s[n] \in S
  <2> DEFINE Bad == {n \in 0 .. N : s[n] \notin S}
  <2>1. CASE Bad = {}
    BY <2>1
  <2>2. CASE Bad # {}
    <3>1. PICK n \in Bad : \A j \in Bad : n <= j
      <4>1. Bad \in SUBSET Nat
        BY <1>1
      <4> HIDE DEF Bad
      <4> QED BY <2>2, <4>1, LeastOf
    <3>2. n # 0
      BY <1>1, <1>3, <1>11, <3>1
    <3>3. n \in 1 .. N /\ n - 1 \in 0 .. N /\ n - 1 \notin Bad
      BY <1>1, <3>1, <3>2
    <3>4. s[n - 1] \in S
      BY <3>3
    <3>5. s[n] \in S
      BY <1>4, <1>12, <3>3, <3>4
    <3> QED BY <3>1, <3>5
  <2> QED BY <2>1, <2>2
<1>14. Assembles(s, budget, list)
  BY <1>2, <1>11, <1>12, <1>13 DEF Assembles, N, S, first, Next1
<1> QED BY <1>14

(* What the items so far come to, and what those before the i-th do.       *)
Spent(items) == [j \in DOMAIN items |-> TokensOf(items[j])]
SpentBefore(items, i) == [j \in DOMAIN items |-> IF j < i THEN TokensOf(items[j]) ELSE 0]
AddedUp(acc, budget, list, n) ==
  /\ Len(acc.items) = n
  /\ acc.used = Total(Spent(acc.items))
  /\ \A i \in 1 .. n : /\ Mirrors(acc.items[i], list[i])
                       /\ ~acc.items[i].included => Total(SpentBefore(acc.items, i)) + acc.items[i].tokens > budget

LEMMA SpentAre ==
  ASSUME NEW items \in Seq(ShownItems), NEW x \in ShownItems
  PROVE  /\ Spent(items) \in Seq(Nat)
         /\ Total(Spent(Append(items, x))) = Total(Spent(items)) + TokensOf(x)
         /\ \A i \in 1 .. Len(items) : Total(SpentBefore(Append(items, x), i)) = Total(SpentBefore(items, i))
         /\ Total(SpentBefore(Append(items, x), Len(items) + 1)) = Total(Spent(items))
<1> DEFINE N == Len(items)
           more == Append(items, x)
           all == Spent(items)
<1>1. \A y \in ShownItems : TokensOf(y) \in Nat
  BY DEF ShownItems, TokensOf
<1> HIDE DEF ShownItems
<1>2. /\ N \in Nat /\ DOMAIN items = 1 .. N /\ DOMAIN more = 1 .. N + 1
      /\ \A j \in 1 .. N : more[j] = items[j] /\ items[j] \in ShownItems
      /\ more[N + 1] = x
  OBVIOUS
<1> HIDE DEF N, more
<1>3. \A j \in 1 .. N : all[j] = TokensOf(items[j]) /\ all[j] \in Nat
  BY <1>1, <1>2 DEF Spent
<1>4. all = [j \in 1 .. N |-> all[j]]
  BY <1>2 DEF Spent
<1> HIDE DEF all
<1>5. all \in Seq(Nat) /\ Len(all) = N
  <2>1. all \in [1 .. N -> Nat]
    BY <1>3, <1>4
  <2>2. \A f \in [1 .. N -> Nat] : f \in Seq(Nat) /\ Len(f) = N
    BY <1>2
  <2> QED BY <2>1, <2>2
<1>6. ASSUME NEW a \in Seq(Nat), Len(a) = N, NEW last \in Nat, NEW b, b = [j \in 1 .. N + 1 |-> b[j]],
             \A j \in 1 .. N : b[j] = a[j], b[N + 1] = last
      PROVE  Total(b) = Total(a) + last
  <2> DEFINE c == Append(a, last)
  <2>1. c \in Seq(Nat) /\ Len(c) = N + 1 /\ c[N + 1] = last /\ \A j \in 1 .. N : c[j] = a[j]
    BY <1>2, <1>6
  <2>2. \A j \in 1 .. N + 1 : j # N + 1 => j \in 1 .. N
    BY <1>2
  <2> HIDE DEF c
  <2>4. c = [j \in 1 .. N + 1 |-> c[j]]
    BY <2>1
  <2>5. \A j \in 1 .. N + 1 : b[j] = c[j]
    BY <1>6, <2>1, <2>2
  <2>3. b = c
    BY <1>6, <2>4, <2>5
  <2> QED BY <1>6, <2>3, TotalAppend DEF c
<1>7. Total(Spent(more)) = Total(all) + TokensOf(x)
  <2> DEFINE b == Spent(more)
  <2>1. b = [j \in 1 .. N + 1 |-> b[j]] /\ (\A j \in 1 .. N : b[j] = all[j]) /\ b[N + 1] = TokensOf(x)
    BY <1>2, <1>3 DEF Spent
  <2>2. TokensOf(x) \in Nat
    BY <1>1
  <2> HIDE DEF b
  <2>3. Total(b) = Total(all) + TokensOf(x)
    BY <1>5, <1>6, <2>1, <2>2
  <2> QED BY <2>3 DEF b
<1>8. ASSUME NEW i \in 1 .. N PROVE Total(SpentBefore(more, i)) = Total(SpentBefore(items, i))
  <2> DEFINE a == SpentBefore(items, i)
             b == SpentBefore(more, i)
  <2>1. a = [j \in 1 .. N |-> a[j]] /\ \A j \in 1 .. N : a[j] = IF j < i THEN TokensOf(items[j]) ELSE 0
    BY <1>2 DEF SpentBefore
  <2>2. b = [j \in 1 .. N + 1 |-> b[j]] /\ \A j \in 1 .. N + 1 : b[j] = IF j < i THEN TokensOf(more[j]) ELSE 0
    BY <1>2 DEF SpentBefore
  <2> HIDE DEF a, b
  <2>3. \A j \in 1 .. N : a[j] \in Nat /\ b[j] = a[j]
    BY <1>1, <1>2, <2>1, <2>2
  <2>4. b[N + 1] = 0
    BY <1>2, <2>2
  <2>5. a \in Seq(Nat) /\ Len(a) = N
    <3>1. a \in [1 .. N -> Nat]
      BY <2>1, <2>3
    <3>2. \A f \in [1 .. N -> Nat] : f \in Seq(Nat) /\ Len(f) = N
      BY <1>2
    <3> QED BY <3>1, <3>2
  <2>6. Total(b) = Total(a) + 0
    BY <1>6, <2>2, <2>3, <2>4, <2>5
  <2>7. Total(a) \in Nat
    BY <2>5, TotalNat
  <2> QED BY <2>6, <2>7 DEF a, b
<1>9. Total(SpentBefore(more, N + 1)) = Total(all)
  <2> DEFINE b == SpentBefore(more, N + 1)
  <2>1. b = [j \in 1 .. N + 1 |-> b[j]] /\ \A j \in 1 .. N + 1 : b[j] = IF j < N + 1 THEN TokensOf(more[j]) ELSE 0
    BY <1>2 DEF SpentBefore
  <2> HIDE DEF b
  <2>2. \A j \in 1 .. N : b[j] = all[j]
    BY <1>2, <1>3, <2>1
  <2>3. b[N + 1] = 0
    BY <1>2, <2>1
  <2>4. Total(b) = Total(all) + 0
    BY <1>5, <1>6, <2>1, <2>2, <2>3
  <2>5. Total(all) \in Nat
    BY <1>5, TotalNat
  <2> QED BY <2>4, <2>5 DEF b
<1> QED BY <1>5, <1>7, <1>8, <1>9 DEF N, more, all

LEMMA AddedUpAlways ==
  ASSUME NEW budget \in Nat, NEW list \in Seq(CandidateItems)
  PROVE  AddAll(budget, list) \in Assemblies(budget) /\ AddedUp(AddAll(budget, list), budget, list, Len(list))
<1> DEFINE N == Len(list)
<1>1. N \in Nat /\ \A n \in 1 .. N : list[n] \in CandidateItems
  OBVIOUS
<1>20. PICK f : Assembles(f, budget, list)
  BY AddAllIs
<1>2. /\ AddAll(budget, list) = f[N] /\ f[0] = [used |-> 0, items |-> <<>>]
      /\ \A n \in 0 .. N : f[n] \in Assemblies(budget)
      /\ \A n \in 1 .. N : f[n] = AddItem(budget, f[n - 1], list[n])
  BY <1>20 DEF Assembles
<1> HIDE DEF N
<1> DEFINE Bad == {n \in 0 .. N : ~AddedUp(f[n], budget, list, n)}
<1>3. CASE Bad = {}
  <2>1. N \in 0 .. N
    BY <1>1
  <2> QED BY <1>2, <1>3, <2>1 DEF N
<1>4. CASE Bad # {}
  <2>1. PICK n \in Bad : \A j \in Bad : n <= j
    <3>1. Bad \in SUBSET Nat
      BY <1>1
    <3> HIDE DEF Bad
    <3> QED BY <1>4, <3>1, LeastOf
  <2>2. n # 0
    <3>1. f[0].items = <<>> /\ f[0].used = 0
      BY <1>2
    <3>2. Spent(<<>>) = <<>>
      BY DEF Spent
    <3>3. Total(<<>>) = 0
      <4>1. <<>> \in Seq(Nat) /\ Len(<<>>) = 0
        OBVIOUS
      <4>2. PICK g : Sums(g, <<>>, Len(<<>>)) /\ Total(<<>>) = g[Len(<<>>)]
        BY <4>1, TotalIs
      <4> QED BY <4>1, <4>2 DEF Sums
    <3>4. Len(<<>>) = 0 /\ 1 .. 0 = {}
      OBVIOUS
    <3>5. AddedUp(f[0], budget, list, 0)
      BY <3>1, <3>2, <3>3, <3>4 DEF AddedUp
    <3> QED BY <2>1, <3>5
  <2>3. n \in 1 .. N /\ n - 1 \in 0 .. N /\ n - 1 \notin Bad /\ n \in 0 .. N /\ n \in Nat
    BY <1>1, <2>1, <2>2
  <2> DEFINE acc == f[n - 1]
  <2>4. acc \in Assemblies(budget) /\ AddedUp(acc, budget, list, n - 1) /\ f[n] = AddItem(budget, acc, list[n])
    BY <1>2, <2>3
  <2>5. list[n] \in CandidateItems
    BY <1>1, <2>3
  <2> HIDE DEF acc, Bad
  <2>6. PICK x \in ShownItems : Adds(acc, x, list[n], budget, f[n])
    BY <2>4, <2>5, AddItemIs
  <2> DEFINE items == acc.items
             more == Append(items, x)
  <2>7. f[n].used = acc.used + TokensOf(x) /\ f[n].items = more /\ Mirrors(x, list[n])
        /\ (~x.included => acc.used + x.tokens > budget)
    BY <2>6 DEF Adds
  <2>8. items \in Seq(ShownItems) /\ Len(items) = n - 1 /\ acc.used = Total(Spent(items))
        /\ \A i \in 1 .. n - 1 : /\ Mirrors(items[i], list[i])
                                 /\ ~items[i].included => Total(SpentBefore(items, i)) + items[i].tokens > budget
    BY <2>4 DEF AddedUp, Assemblies
  <2> HIDE DEF items
  <2>9. /\ Total(Spent(more)) = Total(Spent(items)) + TokensOf(x)
        /\ \A i \in 1 .. n - 1 : Total(SpentBefore(more, i)) = Total(SpentBefore(items, i))
        /\ Total(SpentBefore(more, n)) = Total(Spent(items))
    <3>1. Len(items) + 1 = n
      BY <2>3, <2>8
    <3> QED BY <2>8, <3>1, SpentAre
  <2>10. Len(more) = n /\ more[n] = x /\ \A i \in 1 .. n - 1 : more[i] = items[i]
    BY <2>3, <2>8
  <2> HIDE DEF more
  <2>11. \A i \in 1 .. n : /\ Mirrors(more[i], list[i])
                           /\ ~more[i].included => Total(SpentBefore(more, i)) + more[i].tokens > budget
    <3> SUFFICES ASSUME NEW i \in 1 .. n
                 PROVE  /\ Mirrors(more[i], list[i])
                        /\ ~more[i].included => Total(SpentBefore(more, i)) + more[i].tokens > budget
      OBVIOUS
    <3>1. CASE i = n
      BY <2>7, <2>8, <2>9, <2>10, <3>1
    <3>2. CASE i # n
      <4>1. i \in 1 .. n - 1
        BY <2>3, <3>2
      <4> QED BY <2>8, <2>9, <2>10, <4>1
    <3> QED BY <3>1, <3>2
  <2>12. AddedUp(f[n], budget, list, n)
    BY <2>7, <2>8, <2>9, <2>10, <2>11 DEF AddedUp
  <2> QED BY <2>1, <2>12 DEF Bad
<1> QED BY <1>3, <1>4

-----------------------------------------------------------------------------
(* The request that is out is the one made for what is in force: nothing   *)
(* it was made from has changed since.                                     *)
Reserved == HistoryTokens(history)
ContextTypes ==
  /\ input \in Inputs /\ talk \in Seq(Nat) /\ results \in Seq(Results) /\ summary \in Nat
  /\ history \in Histories /\ nextResult \in Nat
Trimmed == \E messages \in Histories : history = Trim(messages, HistoryBudget)
RequestIsCurrent ==
  ~Ready => /\ sent = RequestOf(Assemble(Reserved, input, talk, results, summary), Reserved)
            /\ Trimmed
ContextInv == ContextTypes /\ RequestIsCurrent

LEMMA PromptBudgetIs == \A reserved \in Nat : PromptBudget(reserved) \in Nat
<1> SUFFICES ASSUME NEW reserved \in Nat PROVE PromptBudget(reserved) \in Nat
  OBVIOUS
<1> DEFINE left == Less(Window, reserved)
<1>1. left \in Nat
  BY WindowAssumption DEF Less
<1>2. PromptBudget(reserved) = Max({left, 1})
  BY DEF PromptBudget
<1> HIDE DEF left
<1> QED BY <1>1, <1>2, MaxOfTwo

(* Everything the properties say of a request, of one that is assembled.   *)
LEMMA AssembleIs ==
  ASSUME NEW reserved \in Nat, NEW given \in Inputs, NEW said \in Seq(Nat), NEW all \in Seq(Results), NEW digest \in Nat
  PROVE  LET acc == Assemble(reserved, given, said, all, digest)
             list == Ranked(Candidates(given, said, all, digest))
         IN /\ acc \in Assemblies(PromptBudget(reserved)) /\ list \in Seq(CandidateItems)
            /\ AddedUp(acc, PromptBudget(reserved), list, Len(list))
<1> DEFINE list == Ranked(Candidates(given, said, all, digest))
<1>1. Candidates(given, said, all, digest) \in Seq(CandidateItems)
  BY CandidatesAre
<1>2. list \in Seq(CandidateItems)
  BY <1>1, RankedIs
<1>3. PromptBudget(reserved) \in Nat
  BY PromptBudgetIs
<1>4. Assemble(reserved, given, said, all, digest) = AddAll(PromptBudget(reserved), list)
  BY DEF Assemble
<1> HIDE DEF list
<1>5. /\ AddAll(PromptBudget(reserved), list) \in Assemblies(PromptBudget(reserved))
      /\ AddedUp(AddAll(PromptBudget(reserved), list), PromptBudget(reserved), list, Len(list))
  BY <1>2, <1>3, AddedUpAlways
<1> QED BY <1>2, <1>4, <1>5 DEF list

LEMMA CurrentFits ==
  ASSUME ContextInv
  PROVE  ContextFits
<1>1. CASE Ready
  <2>1. sent = NotSent
    BY <1>1 DEF Ready
  <2>2. DOMAIN sent.items = {} /\ Chosen = {}
    BY <2>1 DEF NotSent, Chosen
  <2> QED BY <1>1, <2>2 DEF ContextFits, PromptFits, HistoryFits, NothingDisplaced, FailuresShown
<1>2. CASE ~Ready
  <2> DEFINE list == Ranked(Candidates(input, talk, results, summary))
             acc == Assemble(Reserved, input, talk, results, summary)
             budget == PromptBudget(Reserved)
             items == sent.items
             N == Len(list)
             cands == Candidates(input, talk, results, summary)
             fresh == Latest(Visible(results), RecentResults)
  <2>1. input \in Inputs /\ talk \in Seq(Nat) /\ results \in Seq(Results) /\ summary \in Nat /\ history \in Histories
    BY DEF ContextInv, ContextTypes
  <2>2. Reserved \in Nat
    BY <2>1, HistoryAdds DEF Reserved
  <2>3. acc \in Assemblies(budget) /\ list \in Seq(CandidateItems) /\ AddedUp(acc, budget, list, N)
    BY <2>1, <2>2, AssembleIs
  <2>4. sent = RequestOf(acc, Reserved) /\ Trimmed
    BY <1>2 DEF ContextInv, RequestIsCurrent
  <2> HIDE DEF acc
  <2>5. sent.items = acc.items /\ sent.tokens = acc.used /\ sent.reserved = Reserved /\ sent.budget = budget
    BY <2>4 DEF RequestOf
  <2>6. /\ cands \in Seq(CandidateItems)
        /\ \E i \in DOMAIN cands : cands[i].kind = "system" /\ cands[i].required
        /\ \E i \in DOMAIN cands : cands[i].kind = "request" /\ cands[i].required
        /\ \A r \in DOMAIN fresh : fresh[r].failure => \E i \in DOMAIN cands : cands[i].number = fresh[r].number /\ cands[i].required
    BY <2>1, CandidatesAre
  <2>7. list = Ranked(cands)
    OBVIOUS
  <2> HIDE DEF list, cands, fresh, budget
  <2>8. /\ N = Len(cands)
        /\ \A r, s \in DOMAIN cands : r < s => NotAfter(list[r], list[s])
        /\ \A i \in DOMAIN cands : \E r \in DOMAIN cands : list[r] = cands[i]
    BY <2>6, <2>7, RankedIs
  <2>9. items \in Seq(ShownItems) /\ Len(items) = N /\ sent.tokens = Total(Spent(items)) /\ sent.tokens <= budget
        /\ \A i \in 1 .. N : /\ Mirrors(items[i], list[i])
                             /\ ~items[i].included => Total(SpentBefore(items, i)) + items[i].tokens > budget
    BY <2>3, <2>5 DEF AddedUp, Assemblies
  <2>10. N \in Nat /\ DOMAIN cands = 1 .. N /\ DOMAIN list = 1 .. N /\ \A i \in 1 .. N : list[i] \in CandidateItems
    BY <2>3, <2>6, <2>8
  <2> HIDE DEF items, N
  <2>11. DOMAIN items = 1 .. N /\ \A i \in 1 .. N : items[i] \in ShownItems
    <3> HIDE DEF ShownItems
    <3> QED BY <2>9
  <2>12. \A i \in 1 .. N : i \in Chosen <=> items[i].included
    BY <2>11 DEF Chosen, items
  <2>13. Chosen = {i \in 1 .. N : items[i].included}
    BY <2>11 DEF Chosen, items
  <2>14. PromptFits
    <3>1. \A i \in 1 .. N : (IF i \in Chosen THEN items[i].tokens ELSE 0) = TokensOf(items[i])
      BY <2>12 DEF TokensOf
    <3>2. [i \in 1 .. N |-> IF i \in Chosen THEN items[i].tokens ELSE 0] = Spent(items)
      BY <2>11, <3>1 DEF Spent
    <3> QED BY <2>5, <2>9, <2>11, <3>2 DEF PromptFits, items
  <2>15. HistoryFits
    <3>1. PICK messages \in Histories : history = Trim(messages, HistoryBudget)
      BY <2>4 DEF Trimmed
    <3>2. FixedTokens(history) + Tools(history) <= HistoryBudget => HistoryTokens(history) <= HistoryBudget
      BY <3>1, BudgetIs, TrimFits
    <3> QED BY <2>5, <3>2 DEF HistoryFits, Reserved
  <2>16. NothingDisplaced
    <3> SUFFICES ASSUME NEW i \in DOMAIN sent.items \ Chosen
                 PROVE LET Outranks(j) == \/ sent.items[j].rank[1] < sent.items[i].rank[1]
                                          \/ sent.items[j].rank[1] = sent.items[i].rank[1] /\ sent.items[j].rank[2] <= sent.items[i].rank[2]
                           before == [j \in DOMAIN sent.items |-> IF j \in Chosen /\ Outranks(j) THEN sent.items[j].tokens ELSE 0]
                       IN Total(before) + sent.items[i].tokens > sent.budget
      BY DEF NothingDisplaced
    <3> DEFINE Outranks(j) == \/ items[j].rank[1] < items[i].rank[1]
                              \/ items[j].rank[1] = items[i].rank[1] /\ items[j].rank[2] <= items[i].rank[2]
               before == [j \in DOMAIN items |-> IF j \in Chosen /\ Outranks(j) THEN items[j].tokens ELSE 0]
    <3>1. i \in 1 .. N /\ ~items[i].included
      BY <2>11, <2>12 DEF items
    <3>2. Total(SpentBefore(items, i)) + items[i].tokens > budget
      BY <2>9, <3>1
    <3>3. \A j \in 1 .. N : j < i => Outranks(j)
      <4> SUFFICES ASSUME NEW j \in 1 .. N, j < i PROVE Outranks(j)
        OBVIOUS
      <4>1. NotAfter(list[j], list[i])
        BY <2>8, <2>10, <3>1
      <4>2. items[j].rank = <<list[j].priority, list[j].recency>> /\ items[i].rank = <<list[i].priority, list[i].recency>>
        BY <2>9, <3>1 DEF Mirrors
      <4> QED BY <4>1, <4>2 DEF NotAfter
    <3>4. \A j \in 1 .. N : items[j].tokens \in Nat
      BY <2>11 DEF ShownItems
    <3> HIDE DEF Outranks
    <3> DEFINE u == SpentBefore(items, i)
    <3>5. \A j \in 1 .. N : u[j] = IF j < i THEN TokensOf(items[j]) ELSE 0
      BY <2>11 DEF SpentBefore
    <3>6. \A j \in 1 .. N : before[j] = IF j \in Chosen /\ Outranks(j) THEN items[j].tokens ELSE 0
      BY <2>11
    <3>7. u = [j \in 1 .. N |-> u[j]] /\ before = [j \in 1 .. N |-> before[j]]
      BY <2>11 DEF SpentBefore
    <3> HIDE DEF u, before
    <3>8. \A j \in 1 .. N : u[j] \in Nat /\ before[j] \in Nat /\ u[j] <= before[j]
      BY <2>12, <3>3, <3>4, <3>5, <3>6 DEF TokensOf
    <3>9. u \in Seq(Nat) /\ before \in Seq(Nat) /\ Len(u) = N /\ Len(before) = N
      <4>1. u \in [1 .. N -> Nat] /\ before \in [1 .. N -> Nat]
        BY <3>7, <3>8
      <4>2. \A f \in [1 .. N -> Nat] : f \in Seq(Nat) /\ Len(f) = N
        BY <2>10
      <4> QED BY <4>1, <4>2
    <3>10. Total(u) <= Total(before) /\ Total(u) \in Nat /\ Total(before) \in Nat
      <4>1. Len(before) = Len(u) /\ \A n \in 1 .. Len(u) : u[n] <= before[n]
        BY <3>8, <3>9
      <4> QED BY <3>9, <4>1, TotalBelow, TotalNat
    <3>11. budget \in Nat
      BY <2>2, PromptBudgetIs DEF budget
    <3>12. Total(before) + items[i].tokens > budget
      BY <3>1, <3>2, <3>4, <3>10, <3>11 DEF u
    <3> QED BY <2>5, <3>12 DEF before, Outranks, items
  <2>17. FailuresShown
    <3>1. \A i \in DOMAIN cands : cands[i].required =>
             \E r \in Chosen : items[r].number = cands[i].number /\ items[r].kind = cands[i].kind
      <4> SUFFICES ASSUME NEW i \in DOMAIN cands, cands[i].required
                   PROVE  \E r \in Chosen : items[r].number = cands[i].number /\ items[r].kind = cands[i].kind
        OBVIOUS
      <4>1. PICK r \in 1 .. N : list[r] = cands[i]
        BY <2>8, <2>10
      <4>2. Mirrors(items[r], cands[i])
        BY <2>9, <4>1
      <4>3. r \in Chosen /\ items[r].number = cands[i].number /\ items[r].kind = cands[i].kind
        BY <2>12, <4>2 DEF Mirrors
      <4> QED BY <4>3
    <3>2. {"system", "request"} \subseteq {items[i].kind : i \in Chosen}
      BY <2>6, <3>1
    <3>3. \A r \in DOMAIN fresh : fresh[r].failure => \E i \in Chosen : items[i].number = fresh[r].number
      BY <2>6, <3>1
    <3>4. \A i \in Chosen : items[i].size < items[i].whole => items[i].truncated
      BY <2>9, <2>13 DEF Mirrors
    <3> QED BY <3>2, <3>3, <3>4 DEF FailuresShown, items, fresh
  <2> QED BY <2>14, <2>15, <2>16, <2>17 DEF ContextFits
<1> QED BY <1>1, <1>2

LEMMA ContextInitInv == ContextInit => ContextInv
<1> SUFFICES ASSUME ContextInit PROVE ContextInv
  OBVIOUS
<1>1. input \in Inputs /\ results = input.results /\ talk = <<>> /\ summary = 0 /\ history = <<>> /\ sent = NotSent
      /\ nextResult = Len(input.results) + 1
  BY DEF ContextInit
<1>2. input.results \in Seq(Results)
  BY <1>1, InputsAssumption
<1>3. talk \in Seq(Nat) /\ history \in Histories
  BY <1>1 DEF Histories
<1>4. nextResult \in Nat
  <2> HIDE DEF Results
  <2> QED BY <1>1, <1>2
<1> QED BY <1>1, <1>2, <1>3, <1>4 DEF ContextInv, ContextTypes, RequestIsCurrent, Ready

(* A request goes out made of what is in force, before or after the        *)
(* compaction.                                                             *)
LEMMA SendKeeps ==
  ASSUME ContextInv, SendRequest
  PROVE  ContextInv'
<1> DEFINE trimmed == Trim(history, HistoryBudget)
           reserved == HistoryTokens(trimmed)
           first == Assemble(reserved, input, talk, results, summary)
           compacts == Threshold > 0 /\ first.used + reserved >= CompactionPoint(reserved)
<1>1. input \in Inputs /\ talk \in Seq(Nat) /\ results \in Seq(Results) /\ summary \in Nat /\ history \in Histories
      /\ nextResult \in Nat
  BY DEF ContextInv, ContextTypes
<1>2. history' = trimmed /\ input' = input /\ nextResult' = nextResult
  BY DEF SendRequest
<1>3. \/ sent' = RequestOf(first, reserved) /\ talk' = talk /\ results' = results /\ summary' = summary
      \/ CompactContext /\ sent' = RequestOf(Assemble(reserved, input, talk', <<>>, summary'), reserved)
  <2> HIDE DEF trimmed
  <2>1. SendRequest => \/ sent' = RequestOf(first, reserved) /\ UNCHANGED <<talk, results, summary>>
                       \/ CompactContext /\ sent' = RequestOf(Assemble(reserved, input, talk', <<>>, summary'), reserved)
    BY DEF SendRequest, trimmed
  <2> QED BY <2>1
<1>4. trimmed \in Histories
  BY <1>1, BudgetIs, TrimFits
<1> HIDE DEF trimmed
<1>5. Reserved' = reserved
  BY <1>2 DEF Reserved
<1> HIDE DEF reserved
<1>6. Trimmed'
  BY <1>1, <1>2 DEF Trimmed, trimmed
<1>7. CASE sent' = RequestOf(first, reserved) /\ talk' = talk /\ results' = results /\ summary' = summary
  <2>1. ContextTypes'
    BY <1>1, <1>2, <1>4, <1>7 DEF ContextTypes
  <2>2. sent' = RequestOf(Assemble(Reserved', input', talk', results', summary'), Reserved')
    BY <1>2, <1>5, <1>7, Zenon DEF first
  <2> QED BY <1>6, <2>1, <2>2 DEF ContextInv, RequestIsCurrent
<1>8. CASE CompactContext /\ sent' = RequestOf(Assemble(reserved, input, talk', <<>>, summary'), reserved)
  <2>1. talk' = Latest(talk, Min({KeepMessages, 8})) /\ results' = <<>> /\ summary' \in TextSizes
    BY <1>8 DEF CompactContext
  <2>2. Min({KeepMessages, 8}) \in Nat
    BY MinOfTwo, WindowAssumption
  <2>3. talk' \in Seq(Nat)
    BY <1>1, <2>1, <2>2, LatestIs
  <2>4. summary' \in Nat /\ results' \in Seq(Results)
    BY <2>1, WindowAssumption
  <2>5. ContextTypes'
    BY <1>1, <1>2, <1>4, <2>3, <2>4 DEF ContextTypes
  <2>6. sent' = RequestOf(Assemble(Reserved', input', talk', results', summary'), Reserved')
    BY <1>2, <1>5, <1>8, <2>1, Zenon
  <2> QED BY <1>6, <2>5, <2>6 DEF ContextInv, RequestIsCurrent
<1> QED BY <1>3, <1>7, <1>8

LEMMA ResultIs ==
  ASSUME NEW number \in Nat, NEW kind \in {"file", "search", "shell", "check", "other"}, NEW size \in Nat,
         NEW failure \in BOOLEAN, NEW inHistory \in BOOLEAN
  PROVE  Result(number, kind, size, failure, inHistory) \in Results
  BY DEF Result, Results

(* Once the answer is in no request is out; what it adds is well-formed.   *)
LEMMA CallsKeep ==
  ASSUME ContextInv, AnswerWithCalls
  PROVE  ContextInv'
<1>1. input \in Inputs /\ talk \in Seq(Nat) /\ results \in Seq(Results) /\ summary \in Nat /\ history \in Histories
      /\ nextResult \in Nat
  BY DEF ContextInv, ContextTypes
<1>2. input' = input /\ summary' = summary /\ sent' = NotSent
  BY DEF AnswerWithCalls
<1>3. PICK text \in TextSizes, args \in TextSizes, kinds \in BoundedSeq({"file", "shell"}, MaxResults), size \in TextSizes,
           check \in {"none", "passed", "failed"} :
        /\ talk' = Append(talk, text)
        /\ history' = <<[role |-> "assistant", size |-> text, args |-> args, number |-> 0]>>
                      \o [i \in DOMAIN kinds |-> [role |-> "tool", size |-> size, args |-> 0, number |-> nextResult + i - 1]]
        /\ results' = results \o [i \in DOMAIN kinds |-> Result(nextResult + i - 1, kinds[i], size, FALSE, TRUE)]
                      \o IF check = "none" THEN <<>>
                         ELSE <<Result(nextResult + Len(kinds), "check", size, check = "failed", FALSE)>>
        /\ nextResult' = nextResult + Len(kinds) + (IF check = "none" THEN 0 ELSE 1)
  BY DEF AnswerWithCalls
<1>4. text \in Nat /\ args \in Nat /\ size \in Nat
  BY WindowAssumption
<1>5. PICK k \in Nat : kinds \in [1 .. k -> {"file", "shell"}]
  BY WindowAssumption DEF BoundedSeq, SeqOf
<1>6. DOMAIN kinds = 1 .. k /\ Len(kinds) = k
  <2>1. \A f \in [1 .. k -> {"file", "shell"}] : DOMAIN f = 1 .. k /\ Len(f) = k
    OBVIOUS
  <2> QED BY <1>5, <2>1
<1> DEFINE said == <<[role |-> "assistant", size |-> text, args |-> args, number |-> 0]>>
           answers == [i \in 1 .. k |-> [role |-> "tool", size |-> size, args |-> 0, number |-> nextResult + i - 1]]
           added == [i \in 1 .. k |-> Result(nextResult + i - 1, kinds[i], size, FALSE, TRUE)]
           found == Result(nextResult + k, "check", size, check = "failed", FALSE)
           checked == IF check = "none" THEN <<>> ELSE <<found>>
<1>7. said \in Histories /\ answers \in Histories
  <2>1. [role |-> "assistant", size |-> text, args |-> args, number |-> 0] \in MessageSet
    BY <1>4 DEF MessageSet
  <2>2. \A i \in 1 .. k : [role |-> "tool", size |-> size, args |-> 0, number |-> nextResult + i - 1] \in MessageSet
    <3> SUFFICES ASSUME NEW i \in 1 .. k PROVE [role |-> "tool", size |-> size, args |-> 0, number |-> nextResult + i - 1] \in MessageSet
      OBVIOUS
    <3>1. nextResult + i - 1 \in Nat
      BY <1>1
    <3> QED BY <1>4, <3>1 DEF MessageSet
  <2> HIDE DEF MessageSet
  <2>3. answers \in [1 .. k -> MessageSet]
    BY <2>2
  <2>4. \A f \in [1 .. k -> MessageSet] : f \in Seq(MessageSet)
    OBVIOUS
  <2> QED BY <2>1, <2>3, <2>4 DEF Histories
<1>8. added \in Seq(Results) /\ checked \in Seq(Results)
  <2>1. \A i \in 1 .. k : Result(nextResult + i - 1, kinds[i], size, FALSE, TRUE) \in Results
    <3> SUFFICES ASSUME NEW i \in 1 .. k PROVE Result(nextResult + i - 1, kinds[i], size, FALSE, TRUE) \in Results
      OBVIOUS
    <3>1. nextResult + i - 1 \in Nat
      BY <1>1
    <3>2. kinds[i] \in {"file", "search", "shell", "check", "other"}
      BY <1>5
    <3> QED BY <1>4, <3>1, <3>2, ResultIs
  <2>2. found \in Results
    <3>1. nextResult + k \in Nat /\ (check = "failed") \in BOOLEAN
      BY <1>1
    <3> QED BY <1>4, <3>1, ResultIs
  <2> HIDE DEF Results
  <2>3. added \in [1 .. k -> Results]
    BY <2>1
  <2>4. \A f \in [1 .. k -> Results] : f \in Seq(Results)
    OBVIOUS
  <2> HIDE DEF added, found
  <2>5. checked \in Seq(Results)
    BY <2>2
  <2> QED BY <2>3, <2>4, <2>5
<1>9. history' = said \o answers /\ results' = (results \o added) \o checked
  BY <1>3, <1>6
<1> HIDE DEF said, answers, added, found, checked, Results
<1>10. history' \in Histories
  <2> HIDE DEF MessageSet
  <2> QED BY <1>7, <1>9 DEF Histories
<1>11. results' \in Seq(Results)
  BY <1>1, <1>8, <1>9
<1>12. talk' \in Seq(Nat) /\ nextResult' \in Nat
  BY <1>1, <1>3, <1>4, <1>6
<1> QED BY <1>1, <1>2, <1>10, <1>11, <1>12 DEF ContextInv, ContextTypes, RequestIsCurrent, Ready

LEMMA TurnedBackKeeps ==
  ASSUME ContextInv, AnswerTurnedBack
  PROVE  ContextInv'
<1>1. input \in Inputs /\ talk \in Seq(Nat) /\ results \in Seq(Results) /\ summary \in Nat /\ history \in Histories
      /\ nextResult \in Nat
  BY DEF ContextInv, ContextTypes
<1>2. PICK text \in TextSizes, size \in TextSizes :
        talk' = Append(talk, text) /\ results' = Append(results, Result(nextResult, "check", size, TRUE, FALSE))
  BY DEF AnswerTurnedBack
<1>3. nextResult' = nextResult + 1 /\ sent' = NotSent /\ input' = input /\ summary' = summary /\ history' = history
  BY DEF AnswerTurnedBack
<1>4. text \in Nat /\ size \in Nat
  BY WindowAssumption
<1> DEFINE found == Result(nextResult, "check", size, TRUE, FALSE)
<1>5. found \in Results /\ results' = Append(results, found)
  BY <1>1, <1>2, <1>4, ResultIs
<1> HIDE DEF found, Results
<1>6. results' \in Seq(Results)
  BY <1>1, <1>5
<1>7. talk' \in Seq(Nat) /\ nextResult' \in Nat
  BY <1>1, <1>2, <1>3, <1>4
<1> QED BY <1>1, <1>3, <1>6, <1>7 DEF ContextInv, ContextTypes, RequestIsCurrent, Ready

LEMMA ContextStepInv == ContextInv /\ [ContextNext]_contextVars => ContextInv'
<1> SUFFICES ASSUME ContextInv, [ContextNext]_contextVars PROVE ContextInv'
  OBVIOUS
<1>1. CASE SendRequest
  BY <1>1, SendKeeps
<1>2. CASE AnswerWithCalls
  BY <1>2, CallsKeep
<1>3. CASE AnswerTurnedBack
  BY <1>3, TurnedBackKeeps
<1>4. CASE UNCHANGED contextVars
  <2>1. input' = input /\ talk' = talk /\ results' = results /\ summary' = summary /\ history' = history /\ sent' = sent
        /\ nextResult' = nextResult
    BY <1>4 DEF contextVars
  <2>2. ContextTypes' /\ (Ready' <=> Ready) /\ (Trimmed' <=> Trimmed) /\ Reserved' = Reserved
    BY <2>1 DEF ContextInv, ContextTypes, Ready, Trimmed, Reserved
  <2>3. RequestOf(Assemble(Reserved, input, talk, results, summary), Reserved)'
          = RequestOf(Assemble(Reserved, input, talk, results, summary), Reserved)
    BY <2>1, <2>2, Zenon
  <2> QED BY <2>1, <2>2, <2>3 DEF ContextInv, RequestIsCurrent
<1> QED BY <1>1, <1>2, <1>3, <1>4 DEF ContextNext

(* For all inputs, windows, limits and sizes of what the tools return:     *)
(* prompt and history fit the window together, nothing less relevant takes *)
(* the place of what was left out, and the request, the system's           *)
(* instructions and every failure the history does not show are there      *)
(* (trim_model_history_to_budget, build_for_context_window_reserving).     *)
THEOREM ContextAlwaysFits == ContextSpec => []ContextFits
<1>1. ContextInit => ContextInv
  BY ContextInitInv
<1>2. ContextInv /\ [ContextNext]_contextVars => ContextInv'
  BY ContextStepInv
<1>3. ContextInv => ContextFits
  BY CurrentFits
<1> QED BY <1>1, <1>2, <1>3, PTL DEF ContextSpec
=============================================================================
