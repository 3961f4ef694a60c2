------------------------------- MODULE Catalog -------------------------------
(* ModelRegistry: the catalogues providers report, the models configured by *)
(* hand, the default of each provider, and the cache file that carries them *)
(* over a restart.  The state has a lock of its own, taken for one change;  *)
(* persist_lock is held over the copy of the state, the write of the        *)
(* temporary file and the rename.  Network answers arrive with no lock.     *)
(* Capability metadata, filters and the age of a catalogue are left out.    *)
EXTENDS Naturals, FiniteSets

CONSTANTS
  Workers,       \* threads serving models.refresh or a settings change
  CatalogOf,     \* provider -> the sets of models it may answer with
  Configurable,  \* provider -> models a settings change may select
  Builtin,       \* provider -> the default compiled in
  NotFetched,    \* no catalogue yet
  MaxJobs,       \* bound: refreshes and registrations
  MaxRestarts    \* bound: restarts of the process

Sources == DOMAIN CatalogOf

ASSUME BuiltinAssumption == /\ Sources # {} /\ DOMAIN Configurable = Sources
                            /\ Builtin = [p \in Sources |-> Builtin[p]]
ASSUME WorkersAssumption == "" \notin Workers

VARIABLES
  registry,  \* RegistryState
  cache,     \* the cache file, or NotFetched when there is none
  temporary, \* the temporary file beside it
  holder,    \* who holds persist_lock, "" when free
  job,       \* per worker: what it is doing
  jobs, restarts,
  unsaved    \* history: a change may be missing from the cache

catalogVars == <<registry, cache, temporary, holder, job, jobs, restarts, unsaved>>

Resting == [pc |-> "idle"]

(* with_builtins_using, without a cache: every provider has its default,    *)
(* which is also entered by hand.                                           *)
Compiled == [catalogs |-> [p \in Sources |-> NotFetched],
             manual   |-> [p \in Sources |-> {Builtin[p]}],
             defaults |-> Builtin]

(* set_cache_path merges the file under what is already there.              *)
Merged(loaded) ==
  IF loaded = NotFetched
  THEN Compiled
  ELSE [catalogs |-> loaded.catalogs,
        manual   |-> [p \in Sources |-> {Builtin[p]} \cup loaded.manual[p]],
        defaults |-> Builtin]

CatalogInit ==
  /\ registry = Compiled
  /\ cache = NotFetched /\ temporary = NotFetched
  /\ holder = ""
  /\ job = [w \in Workers |-> Resting]
  /\ jobs = 0 /\ restarts = 0
  /\ unsaved = TRUE

BeginJob(w, record) ==
  /\ job[w] = Resting
  /\ jobs < MaxJobs
  /\ jobs' = jobs + 1
  /\ job' = [job EXCEPT ![w] = record]

(* refresh_provider of one provider, or refresh_all of every one in turn.   *)
Refresh(w, providers) ==
  /\ BeginJob(w, [pc |-> "fetch", todo |-> providers])
  /\ UNCHANGED <<registry, cache, temporary, holder, restarts, unsaved>>

(* The provider of the job, first in the registry's order.                  *)
CurrentProvider(w) == CHOOSE p \in job[w].todo : TRUE

(* refresh_all goes on to the next provider whatever became of this one.    *)
NextProvider(w) ==
  LET rest == job[w].todo \ {CurrentProvider(w)}
  IN job' = [job EXCEPT ![w] = IF rest = {} THEN Resting ELSE [pc |-> "fetch", todo |-> rest]]

(* provider.refresh_models(): over the network, with no lock.               *)
Fetch(w) ==
  /\ job[w].pc = "fetch"
  /\ \/ \E answer \in CatalogOf[CurrentProvider(w)] :
          job' = [job EXCEPT ![w] = [pc |-> "insert", todo |-> job[w].todo, answer |-> answer]]
     \/ NextProvider(w)
  /\ UNCHANGED <<registry, cache, temporary, holder, jobs, restarts, unsaved>>

Insert(w) ==
  /\ job[w].pc = "insert"
  /\ registry' = [registry EXCEPT !.catalogs[CurrentProvider(w)] = job[w].answer]
  /\ job' = [job EXCEPT ![w] = [pc |-> "lock", todo |-> job[w].todo, again |-> FALSE]]
  /\ unsaved' = TRUE
  /\ UNCHANGED <<cache, temporary, holder, jobs, restarts>>

(* register_configured_model: set_default_model and its persist, then       *)
(* register_manual_model, which finds the model entered, and its persist.   *)
Register(w, provider, selected) ==
  /\ BeginJob(w, [pc |-> "lock", todo |-> {provider}, again |-> TRUE])
  /\ registry' = [registry EXCEPT !.defaults[provider] = selected,
                                  !.manual[provider] = @ \cup {selected}]
  /\ unsaved' = TRUE
  /\ UNCHANGED <<cache, temporary, holder, restarts>>

(* A persist whose lock covers the files only: the state is copied before   *)
(* it is taken.                                                             *)
SnapshotFirst(w) ==
  /\ job[w].pc = "lock"
  /\ job' = [job EXCEPT ![w] = [pc |-> "write", todo |-> job[w].todo, again |-> job[w].again, state |-> registry]]
  /\ UNCHANGED <<registry, cache, temporary, holder, jobs, restarts, unsaved>>

(* persist: wait for persist_lock, ...                                      *)
TakePersistLock(w) ==
  /\ job[w].pc = "lock"
  /\ holder = ""
  /\ holder' = w
  /\ job' = [job EXCEPT ![w].pc = "snapshot"]
  /\ UNCHANGED <<registry, cache, temporary, jobs, restarts, unsaved>>

(* ... copy the state, ...                                                  *)
Snapshot(w) ==
  /\ job[w].pc = "snapshot"
  /\ job' = [job EXCEPT ![w] = [pc |-> "write", todo |-> job[w].todo, again |-> job[w].again, state |-> registry]]
  /\ UNCHANGED <<registry, cache, temporary, holder, jobs, restarts, unsaved>>

(* ... write the temporary file, which may fail: refresh_provider reports   *)
(* it, set_default_model ignores it; ...                                    *)
WriteTemporary(w) ==
  /\ job[w].pc = "write"
  /\ \/ /\ temporary' = job[w].state
        /\ job' = [job EXCEPT ![w].pc = "rename"]
        /\ UNCHANGED holder
     \/ /\ UNCHANGED temporary
        /\ holder' = ""
        /\ IF job[w].again THEN job' = [job EXCEPT ![w] = [pc |-> "lock", todo |-> job[w].todo, again |-> FALSE]]
                           ELSE NextProvider(w)
  /\ UNCHANGED <<registry, cache, jobs, restarts, unsaved>>

(* ... and rename it over the cache.                                        *)
Rename(w) ==
  /\ job[w].pc = "rename"
  /\ cache' = temporary
  /\ holder' = ""
  /\ unsaved' = (unsaved /\ job[w].state # registry)
  /\ IF job[w].again THEN job' = [job EXCEPT ![w] = [pc |-> "lock", todo |-> job[w].todo, again |-> FALSE]]
                     ELSE NextProvider(w)
  /\ UNCHANGED <<registry, temporary, jobs, restarts>>

(* The process ends anywhere; the next one reads the cache.                 *)
RestartRegistry ==
  /\ restarts < MaxRestarts
  /\ restarts' = restarts + 1
  /\ registry' = Merged(cache)
  /\ holder' = ""
  /\ job' = [w \in Workers |-> Resting]
  /\ unsaved' = TRUE
  /\ UNCHANGED <<cache, temporary, jobs>>

CatalogNext ==
  \/ \E w \in Workers :
       \/ \E providers \in {Sources} \cup {{p} : p \in Sources} : Refresh(w, providers)
       \/ \E p \in Sources : \E selected \in Configurable[p] : Register(w, p, selected)
       \/ Fetch(w) \/ Insert(w)
       \/ TakePersistLock(w) \/ Snapshot(w) \/ WriteTemporary(w) \/ Rename(w)
  \/ RestartRegistry

CatalogSpec == CatalogInit /\ [][CatalogNext]_catalogVars

----------------------------------------------------------------------------
(* models(): a catalogue and the hand-entered models it does not name.      *)
Listed(state, p) == state.manual[p] \cup (IF state.catalogs[p] = NotFetched THEN {} ELSE state.catalogs[p])

(* The default of a provider is always among the models listed for it, in   *)
(* the registry and in the file the next process starts from, whatever the  *)
(* provider answers ("the selected model remains manually present even when *)
(* its provider cannot be reached").                                        *)
DefaultIsListed ==
  \A state \in {registry, cache} \ {NotFetched} :
    \A p \in Sources : state.defaults[p] \in Listed(state, p)

(* Once every job is done the cache holds the newest state, although jobs   *)
(* copied and wrote the state in any order: an older copy is never renamed  *)
(* over a newer one.  Only a failed write or a restart since the last       *)
(* complete copy excuses a difference (persist under persist_lock).         *)
CacheCatchesUp == (\A w \in Workers : job[w] = Resting) /\ ~unsaved => cache = registry

\* When nobody is writing, the cache file has the catalogue, and a provider's
\* default is among its models (persist, register_configured_model).
CatalogIsKept == CacheCatchesUp /\ DefaultIsListed
=============================================================================
