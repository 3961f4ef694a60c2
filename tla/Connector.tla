----------------------------- MODULE Connector -----------------------------
(***************************************************************************)
(* Discovery and start of the one runtime of a workspace                   *)
(* (RuntimeConnector in crates/harness-rpc/src/bootstrap.rs, the process   *)
(* launcher in process.rs, the metadata file in metadata.rs, the runtime   *)
(* process in host.rs).                                                    *)
(*                                                                         *)
(* Clients of several processes look for the runtime named in the          *)
(* workspace's metadata file and, when none answers, start one under two   *)
(* locks: a flag per process and a lock file of the kernel.  The lock is   *)
(* held from the second look at the metadata until the new runtime has     *)
(* answered a health check or was stopped.  Runtimes outlive their         *)
(* clients, may exit or stop answering at any moment, and never touch the  *)
(* metadata themselves.                                                    *)
(*                                                                         *)
(* The endpoint is the automatic one (port 0).  A runtime's number stands  *)
(* for its instance ID, process ID, port and the bytes of its record.      *)
(***************************************************************************)
EXTENDS Integers, FiniteSets

CONSTANTS
    Callers,             \* connectors, one call each at a time
    Processes,           \* client processes (CLI, desktop)
    Placements,          \* which caller may live in which process
    None,                \* no caller
    TimeoutIsTransient,  \* is a socket's read time-out one of the error texts
                         \* of is_transient_probe_error?  Yes on Windows
                         \* ("timed out"), no on Unix ("Resource temporarily
                         \* unavailable")
    ReconnectRetries,    \* TRANSIENT_RECONNECT_RETRIES
    MaxRuntimes,         \* bound: processes started
    MaxCalls,            \* bound: calls
    MaxCrashes           \* bound: client processes that die

ASSUME ConnectorAssumption ==
    /\ Placements \subseteq [Callers -> Processes]
    /\ None \notin Callers
    /\ TimeoutIsTransient \in BOOLEAN
    /\ {ReconnectRetries, MaxRuntimes, MaxCalls, MaxCrashes} \subseteq Nat

Runtimes == 1 .. MaxRuntimes
Missing == 0     \* MetadataSnapshot::Missing, and "no runtime"
Invalid == -1    \* MetadataSnapshot::Invalid, or a record of another format

VARIABLES
    pc,         \* where each call is
    op,         \* which operation it is
    site,       \* which of the three looks at the metadata it is at
    tries,      \* attempts of reconnect used up
    expired,    \* the deadline of the current wait has passed
    snap,       \* the metadata it read
    target,     \* the runtime it started
    state,      \* ConnectionStatus::state of each connector
    conn,       \* the runtime its RPC client is connected to
    guard,      \* PROCESS_STARTUP_LOCKS: the caller that holds the flag
    lock,       \* the caller that holds the startup lock file
    metadata,   \* the metadata file
    runtime,    \* the phase of each runtime process
    compatible, \* does it speak this client's protocol version
    abandoned,  \* history: runtimes whose starter died before it published them
    owner,      \* the process each caller lives in
    calls, crashes

callVars == <<pc, op, site, tries, expired, snap, target>>
lockVars == <<guard, lock>>
runtimeVars == <<runtime, compatible>>
countVars == <<owner, calls, crashes>>
vars == <<callVars, state, conn, lockVars, metadata, runtimeVars, abandoned, countVars>>

States == {"Disconnected", "Discovering", "Starting", "Connecting",
           "Connected", "Reconnecting", "Failed"}

(* is_valid_transition *)
ValidTransition(from, to) ==
    \/ from = to
    \/ to \in CASE from = "Disconnected" -> {"Discovering", "Reconnecting"}
                [] from = "Discovering" -> {"Connecting", "Starting", "Failed", "Disconnected"}
                [] from = "Starting" -> {"Connecting", "Connected", "Failed", "Disconnected"}
                [] from = "Connecting" -> {"Connected", "Starting", "Failed", "Disconnected"}
                [] from = "Connected" -> {"Discovering", "Connecting", "Reconnecting",
                                          "Disconnected", "Failed"}
                [] from = "Reconnecting" -> {"Discovering", "Starting", "Connecting",
                                             "Connected", "Failed", "Disconnected"}
                [] from = "Failed" -> {"Discovering", "Disconnected", "Reconnecting"}

(* The state after failed(): the transition may be refused, the error is   *)
(* returned all the same.                                                  *)
Failed(s) == IF ValidTransition(s, "Failed") THEN "Failed" ELSE s

Listening(r) == r \in Runtimes /\ runtime[r] \in {"serving", "hung"}
Alive == {r \in Runtimes : runtime[r] \in {"booting", "serving", "hung"}}

Init ==
    /\ pc = [c \in Callers |-> "idle"]
    /\ op = [c \in Callers |-> "start"]
    /\ site = [c \in Callers |-> "first"]
    /\ tries = [c \in Callers |-> 0]
    /\ expired = [c \in Callers |-> FALSE]
    /\ snap = [c \in Callers |-> Missing]
    /\ target = [c \in Callers |-> Missing]
    /\ state = [c \in Callers |-> "Disconnected"]
    /\ conn = [c \in Callers |-> Missing]
    /\ guard = [p \in Processes |-> None]
    /\ lock = None
    /\ metadata \in {Missing, Invalid}
    /\ runtime = [r \in Runtimes |-> "unborn"]
    /\ compatible = [r \in Runtimes |-> TRUE]
    /\ abandoned = {}
    /\ owner \in Placements
    /\ calls = 0
    /\ crashes = 0

-----------------------------------------------------------------------------
(* The end of a call: both guards are dropped with the stack frame.        *)
Release(c) ==
    /\ guard' = [p \in Processes |-> IF guard[p] = c THEN None ELSE guard[p]]
    /\ lock' = IF lock = c THEN None ELSE lock

(* The locals of a call are gone when it is over.                          *)
Forget(c) ==
    /\ site' = [site EXCEPT ![c] = "first"]
    /\ expired' = [expired EXCEPT ![c] = FALSE]
    /\ snap' = [snap EXCEPT ![c] = Missing]
    /\ target' = [target EXCEPT ![c] = Missing]

(* connect_or_start returns an error and leaves the connector in state s;  *)
(* reconnect tries again after a transient one.                            *)
ReturnError(c, s, transient) ==
    /\ Release(c)
    /\ Forget(c)
    /\ IF /\ op[c] = "reconnect" /\ transient
          /\ tries[c] < ReconnectRetries
          /\ ValidTransition(s, "Reconnecting")
       THEN /\ state' = [state EXCEPT ![c] = "Discovering"]
            /\ pc' = [pc EXCEPT ![c] = "begin"]
            /\ tries' = [tries EXCEPT ![c] = @ + 1]
       ELSE /\ state' = [state EXCEPT ![c] = s]
            /\ pc' = [pc EXCEPT ![c] = "idle"]
            /\ tries' = [tries EXCEPT ![c] = 0]
    /\ UNCHANGED <<op, conn>>

(* connected(): the client is dropped if the transition is refused.        *)
Connected(c, r) ==
    /\ ValidTransition(state[c], "Connected")
    /\ Release(c)
    /\ Forget(c)
    /\ state' = [state EXCEPT ![c] = "Connected"]
    /\ conn' = [conn EXCEPT ![c] = r]
    /\ pc' = [pc EXCEPT ![c] = "idle"]
    /\ tries' = [tries EXCEPT ![c] = 0]
    /\ UNCHANGED op

(* A caller that owns a live connection drops it before it calls again.    *)
Call(c) ==
    /\ pc[c] = "idle"
    /\ calls < MaxCalls
    /\ calls' = calls + 1
    /\ conn' = [conn EXCEPT ![c] = Missing]
    /\ \E o \in {"start", "existing", "reconnect"} :
         /\ op' = [op EXCEPT ![c] = o]
         /\ IF o = "reconnect"
            THEN IF ValidTransition(state[c], "Reconnecting")
                 THEN /\ state' = [state EXCEPT ![c] = "Discovering"]
                      /\ pc' = [pc EXCEPT ![c] = "begin"]
                 ELSE UNCHANGED <<state, pc>>
            ELSE /\ pc' = [pc EXCEPT ![c] = "begin"]
                 /\ UNCHANGED state
    /\ UNCHANGED <<site, tries, expired, snap, target, lockVars, metadata, runtimeVars,
                   abandoned, owner, crashes>>

(* connect_or_start and connect_existing begin: Discovering, Connecting.   *)
Begin(c) ==
    /\ pc[c] = "begin"
    /\ IF ValidTransition(state[c], "Discovering")
       THEN /\ state' = [state EXCEPT ![c] = "Connecting"]
            /\ pc' = [pc EXCEPT ![c] = "read"]
            /\ UNCHANGED <<op, site, tries, expired, snap, target, conn, lockVars>>
       ELSE ReturnError(c, state[c], FALSE)
    /\ UNCHANGED <<metadata, runtimeVars, abandoned, countVars>>

-----------------------------------------------------------------------------
(* try_connect_from_metadata returned an error.  connect_existing passes   *)
(* it on with the question-mark operator, without failed().                *)
LookFails(c, transient) ==
    ReturnError(c, IF op[c] = "existing" THEN state[c] ELSE Failed(state[c]), transient)

(* try_connect_from_metadata found no runtime: what its callers do next.   *)
Proceed(c, to) ==
    /\ pc' = [pc EXCEPT ![c] = to]
    /\ snap' = [snap EXCEPT ![c] = Missing]
    /\ UNCHANGED <<op, site, tries, expired, target, conn, lockVars>>

NoRuntime(c) ==
    \/ op[c] = "existing" /\ ReturnError(c, Failed(state[c]), FALSE)
    \/ /\ op[c] # "existing" /\ site[c] = "first"
       /\ Proceed(c, "guard")
       /\ UNCHANGED state
    \/ /\ op[c] # "existing" /\ site[c] = "first"
       /\ ReturnError(c, state[c], FALSE)     \* ensure_private_directory fails
    \/ /\ op[c] # "existing" /\ site[c] = "contended" /\ ~expired[c]
       /\ Proceed(c, "lock")
       /\ UNCHANGED state
    \/ /\ op[c] # "existing" /\ site[c] = "contended" /\ expired[c]
       /\ ReturnError(c, Failed(state[c]), FALSE)
    \/ /\ op[c] # "existing" /\ site[c] = "locked"
       /\ ValidTransition(state[c], "Starting")
       /\ Proceed(c, "launch")
       /\ state' = [state EXCEPT ![c] = "Starting"]
    \/ /\ op[c] # "existing" /\ site[c] = "locked"
       /\ ~ValidTransition(state[c], "Starting")
       /\ ReturnError(c, state[c], FALSE)

(* A record that cannot belong to a runtime is removed under the lock only. *)
StaleRecord(c, record) ==
    \/ /\ site[c] = "locked"
       /\ pc' = [pc EXCEPT ![c] = "remove"]
       /\ snap' = [snap EXCEPT ![c] = record]
       /\ UNCHANGED <<op, site, tries, expired, target, state, conn, lockVars>>
    \/ site[c] # "locked" /\ NoRuntime(c)

ReadMetadata(c) ==
    /\ pc[c] = "read"
    /\ \/ metadata = Missing /\ NoRuntime(c)
       \/ metadata = Invalid /\ StaleRecord(c, metadata)
       \/ /\ metadata \in Runtimes
          /\ pc' = [pc EXCEPT ![c] = "probe"]
          /\ snap' = [snap EXCEPT ![c] = metadata]
          /\ UNCHANGED <<op, site, tries, expired, target, state, conn, lockVars>>
       \/ LookFails(c, FALSE)     \* the file cannot be read
    /\ UNCHANGED <<metadata, runtimeVars, abandoned, countVars>>

(* What health/check can answer at the port of runtime r.  The version is  *)
(* compared before the identity, and the port of a runtime that has exited *)
(* may belong to anything.                                                 *)
ProbeOutcomes(r) ==
    CASE runtime[r] = "serving" -> IF compatible[r] THEN {"ok"} ELSE {"incompatible"}
      [] runtime[r] = "hung" -> {"transient"} \cup (IF TimeoutIsTransient THEN {} ELSE {"other"})
      [] OTHER -> {"absent", "other", "incompatible", "transient"}

(* process_exists may take another process for one that has exited.        *)
PidExists(r) == IF r \in Alive THEN {TRUE} ELSE BOOLEAN

Probe(c) ==
    /\ pc[c] = "probe"
    /\ \E answer \in ProbeOutcomes(snap[c]), exists \in PidExists(snap[c]) :
         \/ answer = "ok" /\ Connected(c, snap[c])
         \/ /\ answer = "ok" /\ ~ValidTransition(state[c], "Connected")
            /\ ReturnError(c, state[c], FALSE)
         \/ /\ answer \in {"incompatible", "transient"} /\ exists
            /\ LookFails(c, answer = "transient")
         \/ /\ answer \in {"incompatible", "transient"} => ~exists
            /\ answer # "ok"
            /\ StaleRecord(c, snap[c])
    /\ UNCHANGED <<metadata, runtimeVars, abandoned, countVars>>

(* remove_metadata_snapshot, under the lock: remove_if_unchanged.          *)
RemoveStale(c) ==
    /\ pc[c] = "remove"
    /\ \/ /\ metadata' = IF metadata = snap[c] THEN Missing ELSE metadata
          /\ NoRuntime(c)
       \/ LookFails(c, FALSE) /\ UNCHANGED metadata
    /\ UNCHANGED <<runtimeVars, abandoned, countVars>>

-----------------------------------------------------------------------------
(* The flag of the process: taken, or the deadline has passed.             *)
TakeGuard(c) ==
    /\ pc[c] = "guard"
    /\ \/ /\ guard[owner[c]] = None
          /\ guard' = [guard EXCEPT ![owner[c]] = c]
          /\ pc' = [pc EXCEPT ![c] = "lock"]
          /\ UNCHANGED <<op, site, tries, expired, snap, target, state, conn, lock>>
       \/ /\ guard[owner[c]] # None
          /\ expired[c]
          /\ ReturnError(c, Failed(state[c]), FALSE)
    /\ UNCHANGED <<metadata, runtimeVars, abandoned, countVars>>

(* A mistake to check OneRuntime with: a runtime is started as soon as the *)
(* lock is taken, trusting the first look at the metadata.                 *)
TakeLockNoSecondLook(c) ==
    /\ pc[c] = "lock"
    /\ lock = None
    /\ lock' = c
    /\ site' = [site EXCEPT ![c] = "locked"]
    /\ pc' = [pc EXCEPT ![c] = "launch"]
    /\ state' = [state EXCEPT ![c] = "Starting"]
    /\ UNCHANGED <<op, tries, expired, snap, target, conn, guard, metadata, runtimeVars,
                   abandoned, countVars>>

(* try_startup_lock: taken, contended, or it fails.  Both of the first     *)
(* look at the metadata again.                                             *)
TakeLock(c) ==
    /\ pc[c] = "lock"
    /\ \/ /\ lock' = IF lock = None THEN c ELSE lock
          /\ site' = [site EXCEPT ![c] = IF lock = None THEN "locked" ELSE "contended"]
          /\ pc' = [pc EXCEPT ![c] = "read"]
          /\ UNCHANGED <<op, tries, expired, snap, target, state, conn, guard>>
       \/ ReturnError(c, Failed(state[c]), FALSE)
    /\ UNCHANGED <<metadata, runtimeVars, abandoned, countVars>>

(* start_runtime up to the spawned child, or an error before it.           *)
Launch(c) ==
    /\ pc[c] = "launch"
    /\ \/ \E r \in Runtimes, same \in BOOLEAN :
            /\ runtime[r] = "unborn"
            /\ \A q \in 1 .. r - 1 : runtime[q] # "unborn"
            /\ runtime' = [runtime EXCEPT ![r] = "booting"]
            /\ compatible' = [compatible EXCEPT ![r] = same]
            /\ target' = [target EXCEPT ![c] = r]
            /\ pc' = [pc EXCEPT ![c] = "announce"]
            /\ UNCHANGED <<op, site, tries, expired, snap, state, conn, lockVars>>
       \/ ReturnError(c, Failed(state[c]), FALSE) /\ UNCHANGED runtimeVars
    /\ UNCHANGED <<metadata, abandoned, countVars>>

(* terminate_and_reap *)
Terminated(r) == [runtime EXCEPT ![r] = IF @ = "booting" THEN "stillborn" ELSE "dead"]

(* wait_for_startup_announcement: a runtime announces itself once it is    *)
(* bound; one that does not in time, or exits first, is stopped.           *)
Announcement(c) ==
    /\ pc[c] = "announce"
    /\ \/ /\ runtime[target[c]] \in {"serving", "hung", "dead"}
          /\ pc' = [pc EXCEPT ![c] = "publish"]
          /\ UNCHANGED <<op, site, tries, expired, snap, target, state, conn, lockVars, runtime>>
       \/ /\ runtime[target[c]] \in {"booting", "stillborn"}
          /\ runtime' = [runtime EXCEPT ![target[c]] = "stillborn"]
          /\ ReturnError(c, Failed(state[c]), FALSE)
    /\ UNCHANGED <<metadata, compatible, abandoned, countVars>>

(* The metadata is written (or the child stopped); then the first          *)
(* transition of wait_until_ready_normalized.                              *)
Publish(c) ==
    /\ pc[c] = "publish"
    /\ \/ /\ metadata' = target[c]
          /\ expired' = [expired EXCEPT ![c] = FALSE]
          /\ IF ValidTransition(state[c], "Connecting")
             THEN /\ state' = [state EXCEPT ![c] = "Connecting"]
                  /\ pc' = [pc EXCEPT ![c] = "ready"]
             ELSE /\ pc' = [pc EXCEPT ![c] = "stop"]
                  /\ UNCHANGED state
          /\ UNCHANGED <<op, site, tries, snap, target, conn, lockVars, runtime>>
       \/ /\ runtime' = Terminated(target[c])
          /\ ReturnError(c, Failed(state[c]), FALSE)
          /\ UNCHANGED metadata
    /\ UNCHANGED <<compatible, abandoned, countVars>>

(* wait_until_ready_normalized: a health check that decides.  One that     *)
(* finds no runtime or fails transiently is repeated: no step.             *)
Ready(c) ==
    /\ pc[c] = "ready"
    /\ \E answer \in ProbeOutcomes(target[c]) :
         \/ answer = "ok" /\ Connected(c, target[c])
         \/ /\ answer = "ok" /\ ~ValidTransition(state[c], "Connected")
            /\ pc' = [pc EXCEPT ![c] = "stop"]
            /\ UNCHANGED <<op, site, tries, expired, snap, target, state, conn, lockVars>>
         \/ answer = "incompatible" /\ ReturnError(c, Failed(state[c]), FALSE)
         \/ /\ answer = "other"
            /\ pc' = [pc EXCEPT ![c] = "stop"]
            /\ state' = [state EXCEPT ![c] = Failed(@)]
            /\ UNCHANGED <<op, site, tries, expired, snap, target, conn, lockVars>>
    /\ UNCHANGED <<metadata, runtimeVars, abandoned, countVars>>

(* A mistake to check CallReturns with: the wait has no deadline. *)
ReadyTimeoutNever(c) == pc[c] = "ready" /\ FALSE

ReadyTimeout(c) ==
    /\ pc[c] = "ready"
    /\ expired[c]
    /\ pc' = [pc EXCEPT ![c] = "stop"]
    /\ state' = [state EXCEPT ![c] = Failed(@)]
    /\ UNCHANGED <<op, site, tries, expired, snap, target, conn, lockVars, metadata,
                   runtimeVars, abandoned, countVars>>

(* startup_failed ... *)
StopChild(c) ==
    /\ pc[c] = "stop"
    /\ runtime' = Terminated(target[c])
    /\ pc' = [pc EXCEPT ![c] = "unpublish"]
    /\ UNCHANGED <<op, site, tries, expired, snap, target, state, conn, lockVars, metadata,
                   compatible, abandoned, countVars>>

(* ... and its record is removed if it is still there.                     *)
Unpublish(c) ==
    /\ pc[c] = "unpublish"
    /\ metadata' = IF metadata = target[c] THEN Missing ELSE metadata
    /\ ReturnError(c, state[c], FALSE)
    /\ UNCHANGED <<runtimeVars, abandoned, countVars>>

(* The deadline of the wait the caller is in.                              *)
Waiting(c) ==
    \/ pc[c] \in {"guard", "lock", "ready"}
    \/ pc[c] \in {"read", "probe"} /\ site[c] = "contended"

DeadlinePasses(c) ==
    /\ Waiting(c)
    /\ ~expired[c]
    /\ expired' = [expired EXCEPT ![c] = TRUE]
    /\ UNCHANGED <<pc, op, site, tries, snap, target, state, conn, lockVars, metadata,
                   runtimeVars, abandoned, countVars>>

(* disconnect(), from any thread that shares the connector (the desktop's  *)
(* rpc_disconnect and the watcher of a connection).                        *)
Disconnect(c) ==
    /\ pc[c] # "crashed"
    /\ state[c] # "Disconnected"
    /\ state' = [state EXCEPT ![c] = "Disconnected"]
    /\ conn' = [conn EXCEPT ![c] = Missing]
    /\ UNCHANGED <<callVars, lockVars, metadata, runtimeVars, abandoned, countVars>>

(* A client process dies: the kernel releases its lock.                    *)
Crash(p) ==
    LET gone == {c \in Callers : owner[c] = p /\ pc[c] # "crashed"} IN
    /\ crashes < MaxCrashes
    /\ gone # {}
    /\ crashes' = crashes + 1
    /\ pc' = [c \in Callers |-> IF c \in gone THEN "crashed" ELSE pc[c]]
    /\ conn' = [c \in Callers |-> IF c \in gone THEN Missing ELSE conn[c]]
    /\ guard' = [guard EXCEPT ![p] = None]
    /\ lock' = IF lock \in gone THEN None ELSE lock
    /\ abandoned' = abandoned \cup
            {target[c] : c \in {d \in gone : pc[d] \in {"announce", "publish"}}}
    /\ site' = [c \in Callers |-> IF c \in gone THEN "first" ELSE site[c]]
    /\ tries' = [c \in Callers |-> IF c \in gone THEN 0 ELSE tries[c]]
    /\ expired' = [c \in Callers |-> c \notin gone /\ expired[c]]
    /\ snap' = [c \in Callers |-> IF c \in gone THEN Missing ELSE snap[c]]
    /\ target' = [c \in Callers |-> IF c \in gone THEN Missing ELSE target[c]]
    /\ state' = [c \in Callers |-> IF c \in gone THEN "Disconnected" ELSE state[c]]
    /\ UNCHANGED <<op, metadata, runtimeVars, owner, calls>>

-----------------------------------------------------------------------------
(* The runtime process: serve_runtime_process binds, announces and serves; *)
(* it may stop answering for a while (a suspended machine, an overloaded   *)
(* host) and exits by rpc.shutdown, by an error or by a signal.            *)
RuntimeStep(r, from, to) ==
    /\ runtime[r] \in from
    /\ runtime' = [runtime EXCEPT ![r] = to]
    /\ UNCHANGED <<callVars, state, conn, lockVars, metadata, compatible, abandoned, countVars>>

RuntimeServes(r) == RuntimeStep(r, {"booting"}, "serving")
RuntimeHangs(r) == RuntimeStep(r, {"serving"}, "hung")
RuntimeResumes(r) == RuntimeStep(r, {"hung"}, "serving")
RuntimeFailsToBind(r) == RuntimeStep(r, {"booting"}, "stillborn")
RuntimeExits(r) == RuntimeStep(r, {"serving", "hung"}, "dead")

CallStep(c) ==
    \/ Begin(c) \/ ReadMetadata(c) \/ Probe(c) \/ RemoveStale(c)
    \/ TakeGuard(c) \/ TakeLock(c) \/ Launch(c) \/ Announcement(c) \/ Publish(c)
    \/ Ready(c) \/ ReadyTimeout(c) \/ StopChild(c) \/ Unpublish(c)

Next ==
    \/ \E c \in Callers : Call(c) \/ CallStep(c) \/ DeadlinePasses(c) \/ Disconnect(c)
    \/ \E p \in Processes : Crash(p)
    \/ \E r \in Runtimes : \/ RuntimeServes(r) \/ RuntimeHangs(r) \/ RuntimeResumes(r)
                           \/ RuntimeFailsToBind(r) \/ RuntimeExits(r)

Spec == Init /\ [][Next]_vars

(* A call's thread is scheduled and its clock advances.  Nothing is        *)
(* assumed of runtimes, of users, or of the luck of a health check.        *)
Fairness == \A c \in Callers : WF_vars(CallStep(c)) /\ WF_vars(DeadlinePasses(c))
FairSpec == Spec /\ Fairness

-----------------------------------------------------------------------------
TypeOK ==
    /\ pc \in [Callers -> {"idle", "begin", "read", "probe", "remove", "guard", "lock",
                           "launch", "announce", "publish", "ready", "stop", "unpublish",
                           "crashed"}]
    /\ op \in [Callers -> {"start", "existing", "reconnect"}]
    /\ site \in [Callers -> {"first", "contended", "locked"}]
    /\ tries \in [Callers -> 0 .. ReconnectRetries]
    /\ expired \in [Callers -> BOOLEAN]
    /\ snap \in [Callers -> {Missing, Invalid} \cup Runtimes]
    /\ target \in [Callers -> {Missing} \cup Runtimes]
    /\ state \in [Callers -> States]
    /\ conn \in [Callers -> {Missing} \cup Runtimes]
    /\ guard \in [Processes -> Callers \cup {None}]
    /\ lock \in Callers \cup {None}
    /\ metadata \in {Missing, Invalid} \cup Runtimes
    /\ runtime \in [Runtimes -> {"unborn", "booting", "serving", "hung", "dead", "stillborn"}]
    /\ compatible \in [Runtimes -> BOOLEAN]
    /\ abandoned \subseteq Runtimes
    /\ owner \in Placements
    /\ calls \in 0 .. MaxCalls
    /\ crashes \in 0 .. MaxCrashes

(* A workspace has one runtime: however clients race, give up, time out or *)
(* are disconnected in the middle of a start, no second runtime process    *)
(* lives beside the first.  The exception is a runtime whose starter was   *)
(* killed between spawning it and writing its metadata: nobody can know of *)
(* it.  (The lock of connect_or_start, the second look under it, and the   *)
(* order of startup_failed and remove_if_unchanged.)                       *)
OneRuntime == Cardinality(Alive \ abandoned) <= 1

(* The runtime a client is connected to is the one the metadata names, so  *)
(* that every other client finds the same one: no clean-up of a stale      *)
(* record, and no failed start, takes away the record of a runtime that    *)
(* still has clients.                                                      *)
ConnectedIsPublished ==
    \A c \in Callers : Listening(conn[c]) => metadata = conn[c]

(* Every call returns: the waits for the flag, for the lock file and for   *)
(* the new runtime all end, whatever the other clients and the runtimes    *)
(* do, because each compares with its deadline.                            *)
CallReturns ==
    \A c \in Callers : pc[c] # "idle" ~> pc[c] \in {"idle", "crashed"}

\* A workspace has one runtime, and whoever is connected to it is where the
\* next client will look (connect_or_start).
SharedRuntime == TypeOK /\ OneRuntime /\ ConnectedIsPublished
=============================================================================
