---------------------------- MODULE Idempotency ----------------------------
(***************************************************************************)
(* The idempotency cache of the RPC server (IdempotencyCache and dispatch  *)
(* in crates/harness-rpc/src/server.rs).                                   *)
(*                                                                         *)
(* A client that retries a mutation, over the same or another connection,  *)
(* sends the same idempotency key again.  The first call that looks a key  *)
(* up executes the mutation; a call that finds an entry for the same       *)
(* request waits for that entry's response and repeats it; a call with     *)
(* another request under the key is refused.  After an execution the cache *)
(* is trimmed to its limit, oldest completed entry first.                  *)
(*                                                                         *)
(* Keys and requests stand for the 64-bit digests the code compares.       *)
(* Entries are numbered in the order lookup makes them, so the code's      *)
(* insertion_order is the order of the numbers of the entries in the       *)
(* table; the response of an execution is identified with its entry.       *)
(***************************************************************************)
EXTENDS Naturals, FiniteSets

CONSTANTS
    Callers,      \* the connections' reader threads: one request each at a time
    Keys,         \* digests of idempotency keys
    Requests,     \* digests of (method, params)
    None,         \* no key or request yet
    MaxEntries,   \* MAX_IDEMPOTENCY_ENTRIES
    MaxCalls      \* bound: executions

ASSUME CacheAssumption == MaxEntries \in Nat /\ MaxCalls \in Nat
ASSUME NoneAssumption == /\ None \notin Keys /\ None \notin Requests
                         /\ None \notin Callers /\ None \notin Keys \X Requests

\* Digests are 64-bit numbers, and connections are finitely many.
ASSUME FiniteAssumption == IsFiniteSet(Keys) /\ IsFiniteSet(Callers)

NoEntry == 0
Entries == 1 .. MaxCalls

VARIABLES
    pc,           \* where each caller is in dispatch
    key,          \* the key of the caller's request
    request,      \* the fingerprint of the caller's request
    entry,        \* the Arc<IdempotencyEntry> the caller holds
    table,        \* IdempotencyCacheState::entries
    made,         \* entries made so far
    owner,        \* the key each entry was made for
    fingerprint,  \* IdempotencyEntry::request_fingerprint
    completed,    \* the entries whose response is set
    executed      \* history: the entries whose mutation was executed

callVars == <<pc, key, request, entry>>
entryVars == <<made, owner, fingerprint>>
vars == <<callVars, table, entryVars, completed, executed>>

Busy == {"execute", "complete", "trim"}

Init ==
    /\ pc = [c \in Callers |-> "idle"]
    /\ key = [c \in Callers |-> None]
    /\ request = [c \in Callers |-> None]
    /\ entry = [c \in Callers |-> NoEntry]
    /\ table = [k \in Keys |-> NoEntry]
    /\ made = 0
    /\ owner = [e \in Entries |-> None]
    /\ fingerprint = [e \in Entries |-> None]
    /\ completed = {}
    /\ executed = {}

-----------------------------------------------------------------------------
(* A request with a key arrives (readers hold one request at a time).      *)
Receive(c, k, q) ==
    /\ pc[c] = "idle"
    /\ pc' = [pc EXCEPT ![c] = "lookup"]
    /\ key' = [key EXCEPT ![c] = k]
    /\ request' = [request EXCEPT ![c] = q]
    /\ UNCHANGED <<entry, table, entryVars, completed, executed>>

(* The caller's response is sent; it drops what it held.                   *)
Answer(c) ==
    /\ pc' = [pc EXCEPT ![c] = "idle"]
    /\ key' = [key EXCEPT ![c] = None]
    /\ request' = [request EXCEPT ![c] = None]
    /\ entry' = [entry EXCEPT ![c] = NoEntry]

(* Mutation: the entry is made with its response already set.              *)
LookupExecuteAnswered(c) ==
    /\ pc[c] = "lookup"
    /\ table[key[c]] = NoEntry
    /\ made < MaxCalls
    /\ made' = made + 1
    /\ owner' = [owner EXCEPT ![made + 1] = key[c]]
    /\ fingerprint' = [fingerprint EXCEPT ![made + 1] = request[c]]
    /\ table' = [table EXCEPT ![key[c]] = made + 1]
    /\ entry' = [entry EXCEPT ![c] = made + 1]
    /\ completed' = completed \cup {made + 1}
    /\ pc' = [pc EXCEPT ![c] = "execute"]
    /\ UNCHANGED <<key, request, executed>>

(* lookup() under the cache's lock.                                        *)
LookupExecute(c) ==
    /\ pc[c] = "lookup"
    /\ table[key[c]] = NoEntry
    /\ made < MaxCalls
    /\ made' = made + 1
    /\ owner' = [owner EXCEPT ![made + 1] = key[c]]
    /\ fingerprint' = [fingerprint EXCEPT ![made + 1] = request[c]]
    /\ table' = [table EXCEPT ![key[c]] = made + 1]
    /\ entry' = [entry EXCEPT ![c] = made + 1]
    /\ pc' = [pc EXCEPT ![c] = "execute"]
    /\ UNCHANGED <<key, request, completed, executed>>

(* Mutation: the fingerprint of the stored request is not compared.        *)
LookupExistingAny(c) ==
    /\ pc[c] = "lookup"
    /\ table[key[c]] # NoEntry
    /\ entry' = [entry EXCEPT ![c] = table[key[c]]]
    /\ pc' = [pc EXCEPT ![c] = "wait"]
    /\ UNCHANGED <<key, request, table, entryVars, completed, executed>>

LookupExisting(c) ==
    /\ pc[c] = "lookup"
    /\ table[key[c]] # NoEntry
    /\ fingerprint[table[key[c]]] = request[c]
    /\ entry' = [entry EXCEPT ![c] = table[key[c]]]
    /\ pc' = [pc EXCEPT ![c] = "wait"]
    /\ UNCHANGED <<key, request, table, entryVars, completed, executed>>

LookupConflict(c) ==
    /\ pc[c] = "lookup"
    /\ table[key[c]] # NoEntry
    /\ fingerprint[table[key[c]]] # request[c]
    /\ Answer(c)                           \* idempotency_key_conflict
    /\ UNCHANGED <<table, entryVars, completed, executed>>

(* dispatch_validated runs the handler, whatever it answers.               *)
Execute(c) ==
    /\ pc[c] = "execute"
    /\ executed' = executed \cup {entry[c]}
    /\ pc' = [pc EXCEPT ![c] = "complete"]
    /\ UNCHANGED <<key, request, entry, table, entryVars, completed>>

(* Mutation: the response is not stored in the entry.                      *)
CompleteForgotten(c) ==
    /\ pc[c] = "complete"
    /\ pc' = [pc EXCEPT ![c] = "trim"]
    /\ UNCHANGED <<key, request, entry, table, entryVars, completed, executed>>

Complete(c) ==
    /\ pc[c] = "complete"
    /\ completed' = completed \cup {entry[c]}
    /\ pc' = [pc EXCEPT ![c] = "trim"]
    /\ UNCHANGED <<key, request, entry, table, entryVars, executed>>

(* trim() under the cache's lock: while the table is over its limit, the   *)
(* oldest completed entry goes; it stops when no completed entry is left.  *)
Held == {k \in Keys : table[k] # NoEntry}
Removable == {k \in Held : table[k] \in completed}

(* Mutations: entries still executing are removed too; the loop runs until *)
(* the table is below the limit.                                           *)
VictimsAnyState(V) ==
    /\ V \subseteq Held
    /\ \A k \in V, j \in Held \ V : table[k] < table[j]
    /\ Cardinality(Held \ V) <= MaxEntries
    /\ V # {} => Cardinality(Held \ V) >= MaxEntries
VictimsOneMore(V) ==
    /\ V \subseteq Removable
    /\ \A k \in V, j \in Removable \ V : table[k] < table[j]
    /\ Cardinality(Held \ V) < MaxEntries \/ V = Removable
    /\ V # {} => Cardinality(Held \ V) >= MaxEntries - 1

(* V is what the loop removes: oldest first, until the table fits or no    *)
(* completed entry is left, and only while it did not fit.                 *)
Victims(V) ==
    /\ V \subseteq Removable
    /\ \A k \in V, j \in Removable \ V : table[k] < table[j]
    /\ Cardinality(Held \ V) <= MaxEntries \/ V = Removable
    /\ V # {} => Cardinality(Held \ V) >= MaxEntries

Trim(c) ==
    /\ pc[c] = "trim"
    /\ \E V \in SUBSET Held :
          Victims(V) /\ table' = [k \in Keys |-> IF k \in V THEN NoEntry ELSE table[k]]
    /\ Answer(c)
    /\ UNCHANGED <<entryVars, completed, executed>>

(* wait() on the entry's condition variable, then the response is sent.    *)
Replay(c) ==
    /\ pc[c] = "wait"
    /\ entry[c] \in completed
    /\ Answer(c)
    /\ UNCHANGED <<table, entryVars, completed, executed>>

Dispatch(c) ==
    \/ LookupExecute(c) \/ LookupExisting(c) \/ LookupConflict(c)
    \/ Execute(c) \/ Complete(c) \/ Trim(c) \/ Replay(c)

Next ==
    \E c \in Callers :
        Dispatch(c) \/ \E k \in Keys, q \in Requests : Receive(c, k, q)

Spec == Init /\ [][Next]_vars

(* Reader threads are scheduled, and the handlers return.                  *)
Fairness == \A c \in Callers : WF_vars(Dispatch(c))

FairSpec == Spec /\ Fairness

-----------------------------------------------------------------------------
(* Every variable of the cache and of its callers keeps its type.          *)
TypeOK ==
    /\ pc \in [Callers -> Busy \cup {"idle", "lookup", "wait"}]
    /\ key \in [Callers -> Keys \cup {None}]
    /\ request \in [Callers -> Requests \cup {None}]
    /\ entry \in [Callers -> 0 .. MaxCalls]
    /\ table \in [Keys -> 0 .. MaxCalls]
    /\ made \in 0 .. MaxCalls
    /\ owner \in [Entries -> Keys \cup {None}]
    /\ fingerprint \in [Entries -> Requests \cup {None}]
    /\ completed \subseteq Entries
    /\ executed \subseteq Entries

(* While a mutation executes, its key stays in the table, so a retry that  *)
(* arrives meanwhile waits for it: no key is executed by two callers at    *)
(* the same time, however many other keys are looked up and trimmed.       *)
InFlightRetained ==
    \A c \in Callers :
       pc[c] \in {"execute", "complete"} =>
          /\ table[key[c]] = entry[c]
          /\ \A d \in Callers \ {c} :
                pc[d] \in {"execute", "complete"} => key[d] # key[c]

(* A replayed response answers the very request that was sent: the entry a *)
(* call waits for was made for the same key and the same request, also     *)
(* when trim drops the entry from the table and the key is used anew.      *)
ReplayMatchesRequest ==
    \A c \in Callers :
       pc[c] = "wait" => owner[entry[c]] = key[c]
                           /\ fingerprint[entry[c]] = request[c]

(* The cache does not grow without limit: it exceeds the limit by no more  *)
(* than the calls that have not come to their trim.                        *)
CacheBounded ==
    Cardinality(Held) <= MaxEntries + Cardinality({c \in Callers : pc[c] \in Busy})

(* Every retry is answered: a call that waits for another call's response  *)
(* returns.                                                                *)
WaiterAnswered == \A c \in Callers : pc[c] = "wait" ~> pc[c] = "idle"

(* The cache implements OncePerKey: a key runs from the lookup that finds  *)
(* no entry to the response stored in the entry.                           *)
Running(k) == {c \in Callers : pc[c] \in {"execute", "complete"} /\ key[c] = k}

Asked == [c \in Callers |-> IF pc[c] = "idle" THEN None ELSE <<key[c], request[c]>>]
Executor == [k \in Keys |-> IF Running(k) = {} THEN None ELSE CHOOSE c \in Running(k) : TRUE]
Finished == {<<owner[e], fingerprint[e]>> : e \in completed}

Once == INSTANCE OncePerKey WITH asked <- Asked, running <- Executor, finished <- Finished

(* Retries see the abstract promise: whatever entries are made, trimmed    *)
(* and made anew, a key is executed by one call at a time, and every other *)
(* call is answered from a finished execution of its own key and request,  *)
(* or refused because the key stands for another request.                  *)
ImplementsOncePerKey == Once!OnceSpec

(* A mutation is repeated only by a retry that comes very late: when a key *)
(* is executed again, its earlier execution has completed, and clients     *)
(* have used at least as many other keys as the cache has room for.        *)
RetryWindow ==
    \A e, f \in executed :
       e < f /\ owner[e] = owner[f] =>
          /\ e \in completed
          /\ MaxEntries <= Cardinality({owner[g] : g \in 1 .. f} \ {owner[e]})

\* trim removes neither too little, so the table keeps its bound, nor too much,
\* so a key is recognised until as many other keys were used as fit.
EvictionIsExact == CacheBounded /\ RetryWindow
=============================================================================
