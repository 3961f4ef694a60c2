--------------------------- MODULE RepositoryIndex ---------------------------
(* The repository index the search tools answer from: built on the first    *)
(* query, brought up to date by the tools' own writes, and compared with    *)
(* the workspace once its two seconds of validity have passed, while other  *)
(* programs change the files.  The service's mutex is held from Begin... to *)
(* Finish or Fail, so one scan runs at a time.                              *)
(*                                                                          *)
(* A version stands for the metadata (modification time) and the contents   *)
(* of one write.  One manifest per directory; the walk over the workspace   *)
(* and the reading of its manifests are one step each.                      *)
EXTENDS Naturals, Sequences, FiniteSets, FiniteSetsExt, SequencesExt, Functions

CONSTANTS SortedPaths,      \* the paths of the workspace, in the order paths.sort() gives them
          Manifests,        \* those that name a package (Cargo.toml, package.json, ...)
          WithLanguage,     \* those language_for knows
          Enclosing,        \* [path -> the manifests of its directory and those above, deepest first]
          Shapes,           \* what a write may leave: [size, kind]
          ReportedChanges,          \* the sets of files a tool may report as changed
          MaxIndexFiles, MaxFileBytes, MaxTotalBytes,
          MaxWrites         \* bound on what other programs and the tools write

ASSUME IndexAssumption ==
  /\ SortedPaths \in Seq(ToSet(SortedPaths)) /\ IsInjective(SortedPaths)
  /\ MaxTotalBytes \in Nat
  /\ Manifests \cap WithLanguage = {}
  /\ \A c \in ReportedChanges : c \subseteq ToSet(SortedPaths)
  /\ \A s \in Shapes : s.size \in Nat /\ s.kind \in {"text", "binary", "unreadable"}

VARIABLES tree,          \* path -> [version, size, kind] of the files that exist
          writes,        \* writes so far; the next version
          built,         \* the service has an index
          records,       \* path -> [version, size, contents, package]
          indexedBytes,
          packages,      \* manifest -> the version whose name it gave
          expired,       \* the last validation is more than two seconds old
          scan,          \* what the holder of the mutex is doing
          settled,       \* ghost: a scan has ended, and nothing changed since it began
          missed         \* ghost: names and metadata of the manifests were not taken together
indexVars == <<tree, writes, built, records, indexedBytes, packages, expired, scan, settled, missed>>

AllPaths == ToSet(SortedPaths)
NoScan == [kind |-> "idle", todo |-> {}, at |-> "path", stat |-> 0, manifestChanged |-> FALSE, calm |-> TRUE]
NotRead == 0
NoPackage == 0

IndexInit ==
  /\ tree = [p \in AllPaths |-> [version |-> 1, size |-> 1, kind |-> "text"]]
  /\ writes = 1 /\ built = FALSE /\ records = <<>> /\ indexedBytes = 0 /\ packages = <<>>
  /\ expired = FALSE /\ scan = NoScan /\ settled = FALSE /\ missed = FALSE

----------------------------------------------------------------------------
(* What the operations are made of.                                         *)

\* enumerate_files: everything, or some MAX_INDEX_FILES of it.
AllFit == Cardinality(DOMAIN tree) <= MaxIndexFiles
Enumerations == IF AllFit THEN {DOMAIN tree} ELSE kSubset(MaxIndexFiles, DOMAIN tree)

\* discover_packages: the manifests that can be read and are not too large.
DiscoverPackages(paths) ==
  [m \in {m \in paths \cap Manifests : tree[m].size <= MaxFileBytes /\ tree[m].kind = "text"} |-> tree[m].version]
\* The package of a file is the one with the deepest directory around it.
PackageIn(pkgs, path) ==
  LET around == SelectSeq(Enclosing[path], LAMBDA m : m \in DOMAIN pkgs)
  IN IF around = <<>> THEN NoPackage ELSE pkgs[Head(around)]
Repackaged(recs, pkgs) == [p \in DOMAIN recs |-> [recs[p] EXCEPT !.package = PackageIn(pkgs, p)]]

\* The bytes of the contents that some records hold.
Held(recs, path) == IF path \in DOMAIN recs /\ recs[path].contents # NotRead THEN recs[path].size ELSE 0
HeldBytes(recs) ==
  LET sum[n \in 0 .. Len(SortedPaths)] == IF n = 0 THEN 0 ELSE sum[n - 1] + Held(recs, SortedPaths[n])
  IN sum[Len(SortedPaths)]

\* remove_file: what is left of the records and of the bytes counted.
Without(paths) == Restrict(records, DOMAIN records \ paths)
BytesWithout(paths) == indexedBytes - HeldBytes(Restrict(records, DOMAIN records \cap paths))

\* parse_file: the declarations and imports follow from the contents read.
Parsed(file) == file.version
Record(path, stat, contents) ==
  [version |-> stat.version, size |-> stat.size, contents |-> contents, package |-> PackageIn(packages, path)]
WithRecord(path, record) == [p \in DOMAIN records \cup {path} |-> IF p = path THEN record ELSE records[p]]

----------------------------------------------------------------------------
(* The workspace and the clock.                                             *)

Disturb == scan' = [scan EXCEPT !.calm = FALSE] /\ settled' = FALSE
\* A manifest written after build() read the manifests and before it took their metadata.
Misses(path) == missed' = (missed \/ (path \in Manifests /\ scan.kind = "build"))
OtherWrites(path, shape) ==
  /\ writes < MaxWrites /\ writes' = writes + 1
  /\ tree' = [p \in DOMAIN tree \cup {path} |-> IF p = path THEN [version |-> writes + 1, size |-> shape.size, kind |-> shape.kind] ELSE tree[p]]
  /\ Disturb /\ Misses(path)
  /\ UNCHANGED <<built, records, indexedBytes, packages, expired>>
OtherDeletes(path) ==
  /\ writes < MaxWrites /\ writes' = writes + 1
  /\ path \in DOMAIN tree /\ tree' = Restrict(tree, DOMAIN tree \ {path})
  /\ Disturb /\ Misses(path)
  /\ UNCHANGED <<built, records, indexedBytes, packages, expired>>
\* Nobody looks at the clock during a scan, so time that passes then may as well pass after it.
WindowExpires ==
  /\ built /\ scan.kind = "idle" /\ ~expired /\ expired' = TRUE
  /\ UNCHANGED <<tree, writes, built, records, indexedBytes, packages, scan, settled, missed>>

----------------------------------------------------------------------------
(* The three operations: build, refresh_if_stale, update_changed.           *)

BeginBuild ==
  /\ scan.kind = "idle" /\ ~built
  /\ \E paths \in Enumerations :
       /\ packages' = DiscoverPackages(paths)
       /\ scan' = [NoScan EXCEPT !.kind = "build", !.todo = paths]
  /\ records' = <<>> /\ indexedBytes' = 0 /\ expired' = FALSE /\ settled' = FALSE /\ missed' = ~AllFit
  /\ UNCHANGED <<tree, writes, built>>

BeginRefresh ==
  /\ scan.kind = "idle" /\ built /\ expired
  /\ \E paths \in Enumerations :
       LET removed == DOMAIN records \ paths
       IN /\ records' = Without(removed) /\ indexedBytes' = BytesWithout(removed)
          /\ scan' = [NoScan EXCEPT !.kind = "refresh", !.todo = paths, !.manifestChanged = removed # {}]
  /\ settled' = FALSE
  /\ UNCHANGED <<tree, writes, built, packages, expired, missed>>

\* After a tool that reports changed files; nothing to do before the first query.
BeginUpdate(changed) ==
  /\ scan.kind = "idle" /\ built
  /\ scan' = [NoScan EXCEPT !.kind = "update", !.todo = changed, !.manifestChanged = changed \cap Manifests # {}]
  /\ settled' = FALSE
  /\ UNCHANGED <<tree, writes, built, records, indexedBytes, packages, expired, missed>>

CurrentPath ==
  SortedPaths[CHOOSE i \in DOMAIN SortedPaths :
     /\ SortedPaths[i] \in scan.todo
     /\ \A j \in DOMAIN SortedPaths : SortedPaths[j] \in scan.todo => i <= j]
NextPath == scan' = [scan EXCEPT !.todo = @ \ {CurrentPath}, !.at = "path"]
\* The comparison of size and modification time.
Stale(path) == path \notin DOMAIN records \/ records[path].version # tree[path].version
NotesManifest(path) == scan.manifestChanged \/ path \in Manifests

\* refresh_if_stale looks at the metadata before it calls update_file.
CompareMetadata ==
  /\ scan.kind = "refresh" /\ scan.at = "path" /\ scan.todo # {}
  /\ IF CurrentPath \in DOMAIN tree /\ Stale(CurrentPath)
     THEN scan' = [scan EXCEPT !.at = "update", !.manifestChanged = NotesManifest(CurrentPath)]
     ELSE NextPath
  /\ UNCHANGED <<tree, writes, built, records, indexedBytes, packages, expired, settled, missed>>

\* update_file up to its read: the old record goes, the metadata is taken, and what is not to be read is recorded.
UpdateFile ==
  /\ scan.todo # {}
  /\ scan.at = (IF scan.kind = "refresh" THEN "update" ELSE "path")
  /\ indexedBytes' = BytesWithout({CurrentPath})
  /\ LET Readable(stat) == CurrentPath \in WithLanguage /\ stat.size <= MaxFileBytes /\ indexedBytes' < MaxTotalBytes
                              /\ stat.size <= MaxTotalBytes - indexedBytes'
     IN \/ /\ CurrentPath \notin DOMAIN tree
           /\ records' = Without({CurrentPath}) /\ NextPath
        \/ /\ CurrentPath \in DOMAIN tree /\ ~Readable(tree[CurrentPath])
           /\ records' = WithRecord(CurrentPath, Record(CurrentPath, tree[CurrentPath], NotRead)) /\ NextPath
        \/ /\ CurrentPath \in DOMAIN tree /\ Readable(tree[CurrentPath])
           /\ records' = Without({CurrentPath})
           /\ scan' = [scan EXCEPT !.at = "read", !.stat = tree[CurrentPath]]
  /\ UNCHANGED <<tree, writes, built, packages, expired, settled, missed>>

\* Metadata taken after the contents.
ReadContentsFirst ==
  /\ scan.at = "read" /\ CurrentPath \in DOMAIN tree /\ tree[CurrentPath].kind # "unreadable"
  /\ records' = WithRecord(CurrentPath, Record(CurrentPath, tree[CurrentPath], scan.stat.version))
  /\ indexedBytes' = indexedBytes + tree[CurrentPath].size
  /\ NextPath
  /\ UNCHANGED <<tree, writes, built, packages, expired, settled, missed>>
\* The rest of update_file: the file as it is now, under the metadata taken before.
ReadContents ==
  /\ scan.at = "read" /\ CurrentPath \in DOMAIN tree /\ tree[CurrentPath].kind # "unreadable"
  /\ IF tree[CurrentPath].kind = "binary"
     THEN /\ records' = WithRecord(CurrentPath, Record(CurrentPath, scan.stat, NotRead))
          /\ UNCHANGED indexedBytes
     ELSE /\ records' = WithRecord(CurrentPath, Record(CurrentPath, scan.stat, Parsed(tree[CurrentPath])))
          /\ indexedBytes' = indexedBytes + scan.stat.size
  /\ NextPath
  /\ UNCHANGED <<tree, writes, built, packages, expired, settled, missed>>

\* A file that cannot be read ends the operation with `?`: a half-built index is dropped, any other stays as it is.
FailScan ==
  /\ scan.at = "read" /\ (CurrentPath \in DOMAIN tree => tree[CurrentPath].kind = "unreadable")
  /\ scan' = NoScan
  /\ missed' = (missed \/ scan.manifestChanged)
  /\ UNCHANGED <<tree, writes, built, records, indexedBytes, packages, expired, settled>>

FinishScan ==
  /\ scan.kind # "idle" /\ scan.at = "path" /\ scan.todo = {}
  /\ IF scan.manifestChanged
     THEN \E paths \in Enumerations :
            /\ packages' = DiscoverPackages(paths)
            /\ records' = Repackaged(records, packages')
            /\ missed' = (~AllFit \/ ~(DOMAIN packages' \subseteq DOMAIN records))
     ELSE UNCHANGED <<packages, records, missed>>
  /\ expired' = (expired /\ scan.kind # "refresh")
  /\ built' = TRUE
  /\ scan' = NoScan /\ settled' = (scan.calm /\ scan.kind # "update")
  /\ UNCHANGED <<tree, writes, indexedBytes>>

IndexNext ==
  \/ \E path \in AllPaths : OtherDeletes(path) \/ \E shape \in Shapes : OtherWrites(path, shape)
  \/ WindowExpires
  \/ BeginBuild \/ BeginRefresh
  \/ \E changed \in ReportedChanges : BeginUpdate(changed)
  \/ CompareMetadata \/ UpdateFile \/ ReadContents \/ FailScan \/ FinishScan
IndexSpec == IndexInit /\ [][IndexNext]_indexVars

----------------------------------------------------------------------------
(* The bytes counted against MAX_INDEX_TOTAL_BYTES are those of the files   *)
(* whose contents the index holds, through every removal, replacement and   *)
(* failed read (update_file, remove_file).                                  *)
BytesAccounted ==
  /\ indexedBytes = HeldBytes(records)
  /\ indexedBytes <= MaxTotalBytes

(* A file whose metadata has not changed since it was recorded has not      *)
(* changed since it was read, whatever was written between the two: no      *)
(* later refresh would look at it again (update_file).                      *)
MetadataTellsChanges ==
  \A p \in DOMAIN records \cap DOMAIN tree :
    records[p].version = tree[p].version => records[p].contents \in {NotRead, tree[p].version}

(* A refresh that nothing disturbed leaves exactly the files of the         *)
(* workspace, or as many as fit, each with its present contents             *)
(* (refresh_if_stale).                                                      *)
RefreshCatchesUp ==
  settled =>
    /\ DOMAIN records \in Enumerations
    /\ \A p \in DOMAIN records : records[p].contents \in {NotRead, tree[p].version}

(* After such a refresh every file is counted to the package around it,     *)
(* unless an operation took a manifest's metadata without its name or its   *)
(* name without its metadata, or could not list every file                  *)
(* (package_metadata_changed).                                              *)
PackagesFollow ==
  settled /\ ~missed /\ AllFit =>
    \A p \in DOMAIN records : records[p].package = PackageIn(DiscoverPackages(DOMAIN tree), p)

\* The index counts what it holds, notices what has changed, and after a refresh
\* that nothing disturbed says what the workspace is (RepositoryIndex).
IndexIsTrue == BytesAccounted /\ MetadataTellsChanges /\ RefreshCatchesUp /\ PackagesFollow
=============================================================================
