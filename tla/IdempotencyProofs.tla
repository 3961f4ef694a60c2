-------------------------- MODULE IdempotencyProofs --------------------------
(***************************************************************************)
(* Proofs about the idempotency cache for any callers, keys, requests and  *)
(* any limit: type correctness, that no key executes twice at the same     *)
(* time, that replayed responses answer the request that was sent, that    *)
(* the cache implements OncePerKey, and which entries a trim evicts.       *)
(***************************************************************************)
EXTENDS Idempotency, FiniteSetTheorems, TLAPS

(* A caller inside dispatch has a key and a request.                       *)
CallerHasKey ==
    \A c \in Callers : pc[c] # "idle" => key[c] \in Keys /\ request[c] \in Requests

(* A caller that executes holds the entry the table has under its key, and *)
(* nobody has completed that entry before it does.                         *)
ExecutorOwnsEntry ==
    \A c \in Callers : pc[c] \in {"execute", "complete"} =>
       /\ entry[c] \in 1 .. made
       /\ table[key[c]] = entry[c]
       /\ owner[entry[c]] = key[c]
       /\ entry[c] \notin completed

(* At most one caller executes on behalf of an entry.                      *)
OneExecutor ==
    \A c, d \in Callers :
       pc[c] \in {"execute", "complete"} /\ pc[d] \in {"execute", "complete"}
          /\ entry[c] = entry[d] => c = d

(* The table holds entries made before, under the key they were made for.  *)
TableOwned ==
    \A k \in Keys : table[k] # NoEntry => table[k] \in 1 .. made /\ owner[table[k]] = k

(* Waiting callers hold an entry of their own key and request.             *)
WaiterHoldsEntry ==
    \A c \in Callers : pc[c] = "wait" => entry[c] \in 1 .. made

(* Only entries that were made are complete; a trimming caller's is.       *)
CompletedMade == completed \subseteq 1 .. made /\ \A c \in Callers :
                    pc[c] = "trim" => entry[c] \in Entries

IndInv ==
    /\ TypeOK
    /\ CallerHasKey
    /\ ExecutorOwnsEntry
    /\ OneExecutor
    /\ TableOwned
    /\ WaiterHoldsEntry
    /\ ReplayMatchesRequest
    /\ CompletedMade

USE DEF NoEntry, Entries

(* The initial state satisfies the inductive invariant.                    *)
LEMMA InitIndInv == Init => IndInv
  BY CacheAssumption, NoneAssumption
  DEF Init, IndInv, TypeOK, CallerHasKey, ExecutorOwnsEntry, OneExecutor,
      TableOwned, WaiterHoldsEntry, ReplayMatchesRequest, CompletedMade, Busy

(* trim only removes entries that are complete.                            *)
LEMMA VictimsCompleted ==
  ASSUME NEW V, Victims(V)
  PROVE  \A k \in V : k \in Held /\ k \in Keys /\ table[k] \in completed
  BY DEF Victims, Removable, Held

(* Every step of a caller preserves the inductive invariant.               *)
LEMMA IndInvStep ==
  ASSUME IndInv, [Next]_vars
  PROVE  IndInv'
PROOF
<1> USE CacheAssumption, NoneAssumption
    DEF TypeOK, CallerHasKey, ExecutorOwnsEntry, OneExecutor, TableOwned,
        WaiterHoldsEntry, ReplayMatchesRequest, CompletedMade, Busy, IndInv
<1>1. ASSUME NEW c \in Callers, NEW k \in Keys, NEW q \in Requests, Receive(c, k, q) PROVE IndInv'
  <2>1. TypeOK'
    BY <1>1 DEF Receive, entryVars, callVars
  <2>2. CallerHasKey'
    BY <1>1 DEF Receive, entryVars, callVars
  <2>3. ExecutorOwnsEntry'
    BY <1>1 DEF Receive, entryVars, callVars
  <2>4. OneExecutor'
    BY <1>1 DEF Receive, entryVars, callVars
  <2>5. TableOwned'
    BY <1>1 DEF Receive, entryVars, callVars
  <2>6. WaiterHoldsEntry'
    BY <1>1 DEF Receive, entryVars, callVars
  <2>7. ReplayMatchesRequest'
    BY <1>1 DEF Receive, entryVars, callVars
  <2>8. CompletedMade'
    BY <1>1 DEF Receive, entryVars, callVars
  <2> QED BY <2>1, <2>2, <2>3, <2>4, <2>5, <2>6, <2>7, <2>8
<1>2. ASSUME NEW c \in Callers, LookupExecute(c) PROVE IndInv'
  <2>1. TypeOK'
    BY <1>2 DEF LookupExecute, entryVars, callVars
  <2>2. CallerHasKey'
    BY <1>2 DEF LookupExecute, entryVars, callVars
  <2>3. ExecutorOwnsEntry'
    BY <1>2 DEF LookupExecute, entryVars, callVars
  <2>4. OneExecutor'
    BY <1>2 DEF LookupExecute, entryVars, callVars
  <2>5. TableOwned'
    BY <1>2 DEF LookupExecute, entryVars, callVars
  <2>6. WaiterHoldsEntry'
    BY <1>2 DEF LookupExecute, entryVars, callVars
  <2>7. ReplayMatchesRequest'
    BY <1>2 DEF LookupExecute, entryVars, callVars
  <2>8. CompletedMade'
    BY <1>2 DEF LookupExecute, entryVars, callVars
  <2> QED BY <2>1, <2>2, <2>3, <2>4, <2>5, <2>6, <2>7, <2>8
<1>3. ASSUME NEW c \in Callers, LookupExisting(c) PROVE IndInv'
  <2>1. TypeOK'
    BY <1>3 DEF LookupExisting, entryVars, callVars
  <2>2. CallerHasKey'
    BY <1>3 DEF LookupExisting, entryVars, callVars
  <2>3. ExecutorOwnsEntry'
    BY <1>3 DEF LookupExisting, entryVars, callVars
  <2>4. OneExecutor'
    BY <1>3 DEF LookupExisting, entryVars, callVars
  <2>5. TableOwned'
    BY <1>3 DEF LookupExisting, entryVars, callVars
  <2>6. WaiterHoldsEntry'
    BY <1>3 DEF LookupExisting, entryVars, callVars
  <2>7. ReplayMatchesRequest'
    BY <1>3 DEF LookupExisting, entryVars, callVars
  <2>8. CompletedMade'
    BY <1>3 DEF LookupExisting, entryVars, callVars
  <2> QED BY <2>1, <2>2, <2>3, <2>4, <2>5, <2>6, <2>7, <2>8
<1>4. ASSUME NEW c \in Callers, LookupConflict(c) PROVE IndInv'
  <2>1. TypeOK'
    BY <1>4 DEF LookupConflict, entryVars, callVars, Answer
  <2>2. CallerHasKey'
    BY <1>4 DEF LookupConflict, entryVars, callVars, Answer
  <2>3. ExecutorOwnsEntry'
    BY <1>4 DEF LookupConflict, entryVars, callVars, Answer
  <2>4. OneExecutor'
    BY <1>4 DEF LookupConflict, entryVars, callVars, Answer
  <2>5. TableOwned'
    BY <1>4 DEF LookupConflict, entryVars, callVars, Answer
  <2>6. WaiterHoldsEntry'
    BY <1>4 DEF LookupConflict, entryVars, callVars, Answer
  <2>7. ReplayMatchesRequest'
    BY <1>4 DEF LookupConflict, entryVars, callVars, Answer
  <2>8. CompletedMade'
    BY <1>4 DEF LookupConflict, entryVars, callVars, Answer
  <2> QED BY <2>1, <2>2, <2>3, <2>4, <2>5, <2>6, <2>7, <2>8
<1>5. ASSUME NEW c \in Callers, Execute(c) PROVE IndInv'
  <2>0. entry[c] \in 1 .. made /\ entry[c] \in Entries
    BY <1>5 DEF Execute
  <2>1. TypeOK'
    BY <1>5, <2>0 DEF Execute, entryVars, callVars
  <2>2. CallerHasKey'
    BY <1>5 DEF Execute, entryVars, callVars
  <2>3. ExecutorOwnsEntry'
    BY <1>5 DEF Execute, entryVars, callVars
  <2>4. OneExecutor'
    BY <1>5 DEF Execute, entryVars, callVars
  <2>5. TableOwned'
    BY <1>5 DEF Execute, entryVars, callVars
  <2>6. WaiterHoldsEntry'
    BY <1>5 DEF Execute, entryVars, callVars
  <2>7. ReplayMatchesRequest'
    BY <1>5 DEF Execute, entryVars, callVars
  <2>8. CompletedMade'
    BY <1>5, <2>0 DEF Execute, entryVars, callVars
  <2> QED BY <2>1, <2>2, <2>3, <2>4, <2>5, <2>6, <2>7, <2>8
<1>6. ASSUME NEW c \in Callers, Complete(c) PROVE IndInv'
  <2>0. entry[c] \in 1 .. made /\ entry[c] \in Entries
    BY <1>6 DEF Complete
  <2>1. TypeOK'
    BY <1>6, <2>0 DEF Complete, entryVars, callVars
  <2>2. CallerHasKey'
    BY <1>6 DEF Complete, entryVars, callVars
  <2>3. ExecutorOwnsEntry'
    BY <1>6 DEF Complete, entryVars, callVars
  <2>4. OneExecutor'
    BY <1>6 DEF Complete, entryVars, callVars
  <2>5. TableOwned'
    BY <1>6 DEF Complete, entryVars, callVars
  <2>6. WaiterHoldsEntry'
    BY <1>6 DEF Complete, entryVars, callVars
  <2>7. ReplayMatchesRequest'
    BY <1>6 DEF Complete, entryVars, callVars
  <2>8. CompletedMade'
    BY <1>6, <2>0 DEF Complete, entryVars, callVars
  <2> QED BY <2>1, <2>2, <2>3, <2>4, <2>5, <2>6, <2>7, <2>8
<1>7. ASSUME NEW c \in Callers, Trim(c) PROVE IndInv'
  <2>0. PICK V \in SUBSET Held :
           Victims(V) /\ table' = [k \in Keys |-> IF k \in V THEN NoEntry ELSE table[k]]
    BY <1>7 DEF Trim
  <2>00. \A k \in V : k \in Keys /\ table[k] \in completed
    BY <2>0, VictimsCompleted
  <2>01. pc[c] = "trim" /\ Answer(c) /\ UNCHANGED <<entryVars, completed, executed>>
    BY <1>7 DEF Trim
  <2>1. TypeOK'
    BY <2>0, <2>00, <2>01 DEF entryVars, Answer
  <2>2. CallerHasKey'
    BY <2>0, <2>00, <2>01 DEF entryVars, Answer
  <2>3. ExecutorOwnsEntry'
    BY <2>0, <2>00, <2>01 DEF entryVars, Answer
  <2>4. OneExecutor'
    BY <2>0, <2>00, <2>01 DEF entryVars, Answer
  <2>5. TableOwned'
    BY <2>0, <2>00, <2>01 DEF entryVars, Answer
  <2>6. WaiterHoldsEntry'
    BY <2>0, <2>00, <2>01 DEF entryVars, Answer
  <2>7. ReplayMatchesRequest'
    BY <2>0, <2>00, <2>01 DEF entryVars, Answer
  <2>8. CompletedMade'
    BY <2>0, <2>00, <2>01 DEF entryVars, Answer
  <2> QED BY <2>1, <2>2, <2>3, <2>4, <2>5, <2>6, <2>7, <2>8
<1>8. ASSUME NEW c \in Callers, Replay(c) PROVE IndInv'
  <2>1. TypeOK'
    BY <1>8 DEF Replay, entryVars, callVars, Answer
  <2>2. CallerHasKey'
    BY <1>8 DEF Replay, entryVars, callVars, Answer
  <2>3. ExecutorOwnsEntry'
    BY <1>8 DEF Replay, entryVars, callVars, Answer
  <2>4. OneExecutor'
    BY <1>8 DEF Replay, entryVars, callVars, Answer
  <2>5. TableOwned'
    BY <1>8 DEF Replay, entryVars, callVars, Answer
  <2>6. WaiterHoldsEntry'
    BY <1>8 DEF Replay, entryVars, callVars, Answer
  <2>7. ReplayMatchesRequest'
    BY <1>8 DEF Replay, entryVars, callVars, Answer
  <2>8. CompletedMade'
    BY <1>8 DEF Replay, entryVars, callVars, Answer
  <2> QED BY <2>1, <2>2, <2>3, <2>4, <2>5, <2>6, <2>7, <2>8
<1>9. CASE UNCHANGED vars
  BY <1>9 DEF vars, callVars, entryVars
<1> HIDE DEF IndInv
<1> QED
  BY <1>1, <1>2, <1>3, <1>4, <1>5, <1>6, <1>7, <1>8, <1>9 DEF Next, Dispatch

(* IndInv is an invariant of the specification.                            *)
THEOREM Invariance == Spec => []IndInv
  BY InitIndInv, IndInvStep, PTL DEF Spec

(* Every variable of the cache keeps its type.                             *)
THEOREM TypeCorrect == Spec => []TypeOK
  <1>1. IndInv => TypeOK
    BY DEF IndInv
  <1> QED BY <1>1, Invariance, PTL

(* For any number of connections and keys and any cache limit, trim never  *)
(* drops a key that is executing and no key executes twice concurrently.   *)
THEOREM NoConcurrentDuplicate == Spec => []InFlightRetained
  <1>1. IndInv => InFlightRetained
    BY DEF IndInv, ExecutorOwnsEntry, OneExecutor, InFlightRetained
  <1> QED BY <1>1, Invariance, PTL

(* A replayed response always belongs to the key and request of the call   *)
(* it answers.                                                             *)
THEOREM ReplayIsFaithful == Spec => []ReplayMatchesRequest
  <1>1. IndInv => ReplayMatchesRequest
    BY DEF IndInv
  <1> QED BY <1>1, Invariance, PTL

-----------------------------------------------------------------------------
(* The refinement of OncePerKey.  Beyond IndInv it needs what an entry     *)
(* stands for: the entry a caller executes or has executed is its own      *)
(* request's, an entry that was made has a key and a request, and one in   *)
(* the table that is not complete has a caller that executes it.           *)
CallerOwnsEntry ==
    \A c \in Callers :
       /\ pc[c] \in Busy => fingerprint[entry[c]] = request[c]
       /\ pc[c] = "trim" => entry[c] \in completed /\ owner[entry[c]] = key[c]

MadeHasRequest ==
    \A e \in 1 .. made : owner[e] \in Keys /\ fingerprint[e] \in Requests

IncompleteIsExecuted ==
    \A k \in Keys : table[k] # NoEntry /\ table[k] \notin completed =>
       \E c \in Callers : pc[c] \in {"execute", "complete"} /\ entry[c] = table[k]

RefInv == IndInv /\ CallerOwnsEntry /\ MadeHasRequest /\ IncompleteIsExecuted

(* The cache starts empty, so every entry has its caller.                  *)
LEMMA InitRefInv == Init => RefInv
<1> SUFFICES ASSUME Init PROVE RefInv
  OBVIOUS
<1>1. CallerOwnsEntry /\ MadeHasRequest /\ IncompleteIsExecuted
  BY DEF Init, CallerOwnsEntry, MadeHasRequest, IncompleteIsExecuted, Busy
<1> QED BY <1>1, InitIndInv DEF RefInv

(* Every step keeps callers and entries together.                          *)
LEMMA RefInvStep ==
  ASSUME RefInv, [Next]_vars
  PROVE  RefInv'
<1>0. IndInv /\ IndInv' /\ CallerOwnsEntry /\ MadeHasRequest /\ IncompleteIsExecuted
  BY IndInvStep DEF RefInv
<1> SUFFICES CallerOwnsEntry' /\ MadeHasRequest' /\ IncompleteIsExecuted'
  BY <1>0 DEF RefInv
<1> USE CacheAssumption, NoneAssumption, <1>0
    DEF IndInv, TypeOK, CallerHasKey, ExecutorOwnsEntry, TableOwned, CompletedMade, Busy
<1>1. ASSUME NEW c \in Callers, NEW k \in Keys, NEW q \in Requests, Receive(c, k, q)
     PROVE  CallerOwnsEntry' /\ MadeHasRequest' /\ IncompleteIsExecuted'
  <2>1. CallerOwnsEntry'
    BY <1>1 DEF Receive, entryVars, CallerOwnsEntry
  <2>2. MadeHasRequest'
    BY <1>1 DEF Receive, entryVars, MadeHasRequest
  <2>3. IncompleteIsExecuted'
    BY <1>1 DEF Receive, entryVars, IncompleteIsExecuted
  <2> QED BY <2>1, <2>2, <2>3
<1>2. ASSUME NEW c \in Callers, LookupExecute(c)
     PROVE  CallerOwnsEntry' /\ MadeHasRequest' /\ IncompleteIsExecuted'
  <2>1. CallerOwnsEntry'
    BY <1>2 DEF LookupExecute, entryVars, CallerOwnsEntry
  <2>2. MadeHasRequest'
    BY <1>2 DEF LookupExecute, entryVars, MadeHasRequest
  <2>3. IncompleteIsExecuted'
    <3> SUFFICES ASSUME NEW k \in Keys, table'[k] # NoEntry, table'[k] \notin completed'
                 PROVE  \E d \in Callers : pc'[d] \in {"execute", "complete"} /\ entry'[d] = table'[k]
      BY DEF IncompleteIsExecuted
    <3>1. CASE k = key[c]
      BY <1>2, <3>1 DEF LookupExecute
    <3>2. CASE k # key[c]
      <4>1. table[k] # NoEntry /\ table[k] \notin completed
        BY <1>2, <3>2 DEF LookupExecute
      <4>2. PICK d \in Callers : pc[d] \in {"execute", "complete"} /\ entry[d] = table[k]
        BY <4>1 DEF IncompleteIsExecuted
      <4> QED BY <1>2, <3>2, <4>2 DEF LookupExecute
    <3> QED BY <3>1, <3>2
  <2> QED BY <2>1, <2>2, <2>3
<1>3. ASSUME NEW c \in Callers, LookupExisting(c)
     PROVE  CallerOwnsEntry' /\ MadeHasRequest' /\ IncompleteIsExecuted'
  <2>1. CallerOwnsEntry'
    BY <1>3 DEF LookupExisting, entryVars, CallerOwnsEntry
  <2>2. MadeHasRequest'
    BY <1>3 DEF LookupExisting, entryVars, MadeHasRequest
  <2>3. IncompleteIsExecuted'
    BY <1>3 DEF LookupExisting, entryVars, IncompleteIsExecuted
  <2> QED BY <2>1, <2>2, <2>3
<1>4. ASSUME NEW c \in Callers, LookupConflict(c)
     PROVE  CallerOwnsEntry' /\ MadeHasRequest' /\ IncompleteIsExecuted'
  <2>1. CallerOwnsEntry'
    BY <1>4 DEF LookupConflict, Answer, entryVars, CallerOwnsEntry
  <2>2. MadeHasRequest'
    BY <1>4 DEF LookupConflict, Answer, entryVars, MadeHasRequest
  <2>3. IncompleteIsExecuted'
    BY <1>4 DEF LookupConflict, Answer, entryVars, IncompleteIsExecuted
  <2> QED BY <2>1, <2>2, <2>3
<1>5. ASSUME NEW c \in Callers, Execute(c)
     PROVE  CallerOwnsEntry' /\ MadeHasRequest' /\ IncompleteIsExecuted'
  <2>1. CallerOwnsEntry'
    BY <1>5 DEF Execute, entryVars, CallerOwnsEntry
  <2>2. MadeHasRequest'
    BY <1>5 DEF Execute, entryVars, MadeHasRequest
  <2>3. IncompleteIsExecuted'
    BY <1>5 DEF Execute, entryVars, IncompleteIsExecuted
  <2> QED BY <2>1, <2>2, <2>3
<1>6. ASSUME NEW c \in Callers, Complete(c)
     PROVE  CallerOwnsEntry' /\ MadeHasRequest' /\ IncompleteIsExecuted'
  <2>1. CallerOwnsEntry'
    BY <1>6 DEF Complete, entryVars, CallerOwnsEntry
  <2>2. MadeHasRequest'
    BY <1>6 DEF Complete, entryVars, MadeHasRequest
  <2>3. IncompleteIsExecuted'
    BY <1>6 DEF Complete, entryVars, IncompleteIsExecuted
  <2> QED BY <2>1, <2>2, <2>3
<1>7. ASSUME NEW c \in Callers, Trim(c)
     PROVE  CallerOwnsEntry' /\ MadeHasRequest' /\ IncompleteIsExecuted'
  <2>1. CallerOwnsEntry'
    BY <1>7 DEF Trim, Answer, entryVars, CallerOwnsEntry
  <2>2. MadeHasRequest'
    BY <1>7 DEF Trim, entryVars, MadeHasRequest
  <2>3. IncompleteIsExecuted'
    <3>1. PICK V \in SUBSET Held :
             Victims(V) /\ table' = [k \in Keys |-> IF k \in V THEN NoEntry ELSE table[k]]
      BY <1>7 DEF Trim
    <3> QED BY <1>7, <3>1 DEF Trim, Answer, IncompleteIsExecuted
  <2> QED BY <2>1, <2>2, <2>3
<1>8. ASSUME NEW c \in Callers, Replay(c)
     PROVE  CallerOwnsEntry' /\ MadeHasRequest' /\ IncompleteIsExecuted'
  <2>1. CallerOwnsEntry'
    BY <1>8 DEF Replay, Answer, entryVars, CallerOwnsEntry
  <2>2. MadeHasRequest'
    BY <1>8 DEF Replay, Answer, entryVars, MadeHasRequest
  <2>3. IncompleteIsExecuted'
    BY <1>8 DEF Replay, Answer, entryVars, IncompleteIsExecuted
  <2> QED BY <2>1, <2>2, <2>3
<1>9. CASE UNCHANGED vars
  BY <1>9 DEF vars, callVars, entryVars, CallerOwnsEntry, MadeHasRequest, IncompleteIsExecuted
<1> QED
  BY <1>1, <1>2, <1>3, <1>4, <1>5, <1>6, <1>7, <1>8, <1>9 DEF Next, Dispatch

(* The abstract state in terms of the callers: a key's executor is the one *)
(* caller that executes it, and a call inside dispatch asks for its pair.  *)
Executes(c, k) == pc[c] \in {"execute", "complete"} /\ key[c] = k

ExecutorIs ==
    /\ Executor \in [Keys -> Callers \cup {None}]
    /\ \A k \in Keys : /\ \A c \in Callers : (Executor[k] = c) <=> Executes(c, k)
                       /\ (Executor[k] = None) <=> \A c \in Callers : ~Executes(c, k)

AskedIs ==
    /\ Asked \in [Callers -> (Keys \X Requests) \cup {None}]
    /\ \A c \in Callers : Asked[c] = IF pc[c] = "idle" THEN None ELSE <<key[c], request[c]>>

(* The refinement mapping is a function of the state: the caller that      *)
(* executes a key is the only one, and a call asks for its key and request *)
(* from its lookup to its answer.                                          *)
LEMMA AbstractState == IndInv => ExecutorIs /\ AskedIs
<1> SUFFICES ASSUME IndInv PROVE ExecutorIs /\ AskedIs
  OBVIOUS
<1>1. ASSUME NEW k \in Keys
      PROVE  /\ Executor[k] \in Callers \cup {None}
             /\ \A c \in Callers : (Executor[k] = c) <=> Executes(c, k)
             /\ (Executor[k] = None) <=> \A c \in Callers : ~Executes(c, k)
  <2>1. \A c, d \in Running(k) : c = d
    BY DEF IndInv, ExecutorOwnsEntry, OneExecutor, Running
  <2>2. \A c \in Callers : c \in Running(k) <=> Executes(c, k)
    BY DEF Running, Executes
  <2>3. CASE Running(k) = {}
    <3>1. Executor[k] = None
      BY <2>3 DEF Executor
    <3> QED BY <2>2, <2>3, <3>1, NoneAssumption
  <2>4. CASE Running(k) # {}
    <3>1. Executor[k] = CHOOSE c \in Running(k) : TRUE
      BY <2>4 DEF Executor
    <3>2. Executor[k] \in Running(k) /\ Executor[k] \in Callers
      BY <2>4, <3>1 DEF Running
    <3> QED BY <2>1, <2>2, <3>2, NoneAssumption
  <2> QED BY <2>3, <2>4
<1>2. ExecutorIs
  <2>1. Executor \in [Keys -> Callers \cup {None}]
    BY <1>1 DEF Executor
  <2> QED BY <1>1, <2>1 DEF ExecutorIs
<1>3. AskedIs
  BY DEF AskedIs, Asked, IndInv, CallerHasKey
<1> QED BY <1>2, <1>3

(* The steps between lookup and the answer that the abstract state sees.   *)
LEMMA FinishedKept ==
  ASSUME IndInv, completed' = completed, \A e \in completed : owner'[e] = owner[e] /\ fingerprint'[e] = fingerprint[e]
  PROVE  Finished' = Finished
  BY DEF Finished

(* A step that no call begins or ends with changes nobody's question.      *)
LEMMA AskedKept ==
  ASSUME AskedIs, AskedIs', key' = key, request' = request, \A c \in Callers : pc'[c] = "idle" <=> pc[c] = "idle"
  PROVE  Asked' = Asked
<1>1. \A c \in Callers : Asked'[c] = Asked[c]
  BY DEF AskedIs
<1> QED BY <1>1 DEF AskedIs

(* A step after which the same callers execute changes no executor.        *)
LEMMA ExecutorKept ==
  ASSUME ExecutorIs, ExecutorIs', \A k \in Keys, c \in Callers : Executes(c, k)' <=> Executes(c, k)
  PROVE  Executor' = Executor
<1>1. ASSUME NEW k \in Keys PROVE Executor'[k] = Executor[k]
  <2>1. CASE Executor[k] = None
    BY <2>1 DEF ExecutorIs
  <2>2. CASE Executor[k] # None
    BY <2>2 DEF ExecutorIs
  <2> QED BY <2>1, <2>2
<1> QED BY <1>1 DEF ExecutorIs

(* An answered call asks for nothing any more; the others are not touched. *)
LEMMA AnswerEnds ==
  ASSUME AskedIs, AskedIs', IndInv, NEW c \in Callers, Answer(c)
  PROVE  Asked' = [Asked EXCEPT ![c] = None]
<1>1. \A d \in Callers : Asked'[d] = IF d = c THEN None ELSE Asked[d]
  BY DEF AskedIs, Answer, IndInv, TypeOK
<1> QED BY <1>1 DEF AskedIs

(* Every step of the cache is a step of OncePerKey or changes nothing it sees. *)
LEMMA OnceStep ==
  ASSUME RefInv, RefInv', ExecutorIs, AskedIs, ExecutorIs', AskedIs', [Next]_vars
  PROVE  [Once!OnceNext]_(Once!onceVars)
<1>0. IndInv /\ CallerOwnsEntry /\ MadeHasRequest /\ IncompleteIsExecuted
  BY DEF RefInv
<1>t. TypeOK /\ CallerHasKey /\ ExecutorOwnsEntry /\ OneExecutor /\ TableOwned /\ WaiterHoldsEntry
         /\ ReplayMatchesRequest /\ CompletedMade
  BY <1>0 DEF IndInv
<1> USE NoneAssumption
<1>1. ASSUME NEW c \in Callers, NEW k \in Keys, NEW q \in Requests, Receive(c, k, q)
      PROVE  Once!Ask(c, k, q)
  <2>1. Asked[c] = None
    BY <1>1 DEF Receive, AskedIs
  <2>2. \A d \in Callers : Asked'[d] = IF d = c THEN <<k, q>> ELSE Asked[d]
    BY <1>1, <1>t DEF Receive, AskedIs, TypeOK
  <2>3. Asked' = [Asked EXCEPT ![c] = <<k, q>>]
    BY <2>2 DEF AskedIs
  <2>4. Executor' = Executor
    <3>1. \A j \in Keys, d \in Callers : Executes(d, j)' <=> Executes(d, j)
      BY <1>1, <1>t DEF Receive, Executes, TypeOK
    <3> QED BY <3>1, ExecutorKept
  <2>5. Finished' = Finished
    BY <1>0, <1>1, FinishedKept DEF Receive, entryVars
  <2> QED BY <2>1, <2>3, <2>4, <2>5 DEF Once!Ask
<1>2. ASSUME NEW c \in Callers, LookupExecute(c) PROVE Once!Start(c)
  <2>1. /\ key[c] \in Keys /\ Asked[c] = <<key[c], request[c]>> /\ Asked[c] # None
    BY <1>2, <1>t DEF LookupExecute, AskedIs, CallerHasKey
  <2>2. \A d \in Callers : ~Executes(d, key[c])
    BY <1>2, <1>t DEF LookupExecute, Executes, ExecutorOwnsEntry, TypeOK
  <2>3. Executor[key[c]] = None
    BY <2>1, <2>2 DEF ExecutorIs
  <2>4. \A d \in Callers, k \in Keys : Executes(d, k)' <=> (Executes(d, k) \/ (d = c /\ k = key[c]))
    BY <1>2, <1>t DEF LookupExecute, Executes, TypeOK
  <2>5. Executor' = [Executor EXCEPT ![key[c]] = c]
    <3>1. ASSUME NEW k \in Keys PROVE Executor'[k] = IF k = key[c] THEN c ELSE Executor[k]
      <4>1. CASE k = key[c]
        BY <2>4, <4>1 DEF ExecutorIs
      <4>2. CASE k # key[c]
        <5>1. \A d \in Callers : Executes(d, k)' <=> Executes(d, k)
          BY <2>4, <4>2
        <5>2. CASE Executor[k] = None
          BY <4>2, <5>1, <5>2 DEF ExecutorIs
        <5>3. CASE Executor[k] # None
          BY <4>2, <5>1, <5>3 DEF ExecutorIs
        <5> QED BY <5>2, <5>3
      <4> QED BY <4>1, <4>2
    <3> QED BY <2>1, <3>1 DEF ExecutorIs
  <2>6. Asked' = Asked
    BY <1>2, <1>t, AskedKept DEF LookupExecute, TypeOK
  <2>7. Finished' = Finished
    BY <1>0, <1>2, <1>t, FinishedKept DEF LookupExecute, CompletedMade, TypeOK
  <2> QED BY <2>1, <2>3, <2>5, <2>6, <2>7 DEF Once!Start
<1>3. ASSUME NEW c \in Callers, LookupExisting(c) \/ Execute(c) PROVE UNCHANGED Once!onceVars
  <2>1. \A j \in Keys, d \in Callers : Executes(d, j)' <=> Executes(d, j)
    BY <1>3, <1>t DEF LookupExisting, Execute, Executes, TypeOK
  <2>2. Executor' = Executor
    BY <2>1, ExecutorKept
  <2>3. Asked' = Asked
    BY <1>3, <1>t, AskedKept DEF LookupExisting, Execute, TypeOK
  <2>4. Finished' = Finished
    BY <1>0, <1>3, FinishedKept DEF LookupExisting, Execute, entryVars
  <2> QED BY <2>2, <2>3, <2>4 DEF Once!onceVars
<1>4. ASSUME NEW c \in Callers, LookupConflict(c) PROVE Once!Refuse(c)
  <2>1. /\ key[c] \in Keys /\ Asked[c] = <<key[c], request[c]>> /\ Asked[c] # None
    BY <1>4, <1>t DEF LookupConflict, AskedIs, CallerHasKey
  <2> DEFINE e == table[key[c]]
  <2>2. /\ e \in 1 .. made /\ owner[e] = key[c] /\ fingerprint[e] \in Requests
        /\ fingerprint[e] # request[c] /\ e # NoEntry
    BY <1>0, <1>4, <1>t, <2>1 DEF LookupConflict, TableOwned, MadeHasRequest
  <2>3. \/ <<key[c], fingerprint[e]>> \in Finished
        \/ Executor[key[c]] \notin {None, c}
    <3>1. CASE e \in completed
      BY <2>2, <3>1 DEF Finished
    <3>2. CASE e \notin completed
      <4>1. PICK d \in Callers : pc[d] \in {"execute", "complete"} /\ entry[d] = e
        BY <1>0, <2>1, <2>2, <3>2 DEF IncompleteIsExecuted
      <4>2. Executes(d, key[c]) /\ d # c
        BY <1>4, <1>t, <2>2, <4>1 DEF Executes, ExecutorOwnsEntry, LookupConflict
      <4>3. Executor[key[c]] = d
        BY <2>1, <4>2 DEF ExecutorIs
      <4> QED BY <4>2, <4>3
    <3> QED BY <3>1, <3>2
  <2>4. Asked' = [Asked EXCEPT ![c] = None]
    BY <1>0, <1>4, AnswerEnds DEF LookupConflict
  <2>5. Executor' = Executor
    <3>1. \A j \in Keys, d \in Callers : Executes(d, j)' <=> Executes(d, j)
      BY <1>4, <1>t DEF LookupConflict, Answer, Executes, TypeOK
    <3> QED BY <3>1, ExecutorKept
  <2>6. Finished' = Finished
    BY <1>0, <1>4, FinishedKept DEF LookupConflict, entryVars
  <2> HIDE DEF e
  <2> QED BY <2>1, <2>2, <2>3, <2>4, <2>5, <2>6 DEF Once!Refuse
<1>5. ASSUME NEW c \in Callers, Complete(c) PROVE Once!Finish(c)
  <2>1. /\ key[c] \in Keys /\ Asked[c] = <<key[c], request[c]>> /\ Asked[c] # None
        /\ entry[c] \notin completed /\ owner[entry[c]] = key[c] /\ fingerprint[entry[c]] = request[c]
    BY <1>0, <1>5, <1>t DEF Complete, AskedIs, CallerHasKey, ExecutorOwnsEntry, CallerOwnsEntry, Busy
  <2>2. Executes(c, key[c])
    BY <1>5 DEF Complete, Executes
  <2>3. Executor[key[c]] = c
    BY <2>1, <2>2 DEF ExecutorIs
  <2>4. \A d \in Callers, k \in Keys : Executes(d, k)' <=> (Executes(d, k) /\ d # c)
    BY <1>5, <1>t DEF Complete, Executes, TypeOK
  <2>5. Executor' = [Executor EXCEPT ![key[c]] = None]
    <3>1. ASSUME NEW k \in Keys PROVE Executor'[k] = IF k = key[c] THEN None ELSE Executor[k]
      <4>1. CASE k = key[c]
        <5>1. \A d \in Callers : Executes(d, k) => d = c
          BY <2>3, <4>1 DEF ExecutorIs
        <5>2. \A d \in Callers : ~Executes(d, k)'
          BY <2>4, <5>1
        <5> QED BY <4>1, <5>2 DEF ExecutorIs
      <4>2. CASE k # key[c]
        <5>1. \A d \in Callers : Executes(d, k)' <=> Executes(d, k)
          BY <2>4, <4>2 DEF Executes
        <5>2. CASE Executor[k] = None
          BY <4>2, <5>1, <5>2 DEF ExecutorIs
        <5>3. CASE Executor[k] # None
          BY <4>2, <5>1, <5>3 DEF ExecutorIs
        <5> QED BY <5>2, <5>3
      <4> QED BY <4>1, <4>2
    <3> QED BY <2>1, <3>1 DEF ExecutorIs
  <2>6. Asked' = Asked
    BY <1>5, <1>t, AskedKept DEF Complete, TypeOK
  <2>7. Finished' = Finished \cup {Asked[c]}
    BY <1>5, <2>1 DEF Complete, Finished, entryVars
  <2> QED BY <2>1, <2>3, <2>5, <2>6, <2>7 DEF Once!Finish
<1>6. ASSUME NEW c \in Callers, Trim(c) \/ Replay(c) PROVE Once!Respond(c)
  <2>1. /\ key[c] \in Keys /\ Asked[c] = <<key[c], request[c]>>
        /\ entry[c] \in completed /\ owner[entry[c]] = key[c] /\ fingerprint[entry[c]] = request[c]
    BY <1>0, <1>6, <1>t
    DEF Trim, Replay, AskedIs, CallerHasKey, CallerOwnsEntry, ReplayMatchesRequest, Busy
  <2>2. Asked[c] \in Finished
    BY <2>1 DEF Finished
  <2>3. Executor[key[c]] # c
    <3>1. ~Executes(c, key[c])
      BY <1>6 DEF Trim, Replay, Executes
    <3> QED BY <2>1, <3>1 DEF ExecutorIs
  <2>4. Answer(c) /\ UNCHANGED <<entryVars, completed>>
    BY <1>6 DEF Trim, Replay
  <2>5. Asked' = [Asked EXCEPT ![c] = None]
    BY <1>0, <2>4, AnswerEnds
  <2>6. Executor' = Executor
    <3>1. \A j \in Keys, d \in Callers : Executes(d, j)' <=> Executes(d, j)
      BY <1>6, <1>t DEF Trim, Replay, Answer, Executes, TypeOK
    <3> QED BY <3>1, ExecutorKept
  <2>7. Finished' = Finished
    BY <1>0, <2>4, FinishedKept DEF entryVars
  <2> QED BY <2>1, <2>2, <2>3, <2>5, <2>6, <2>7 DEF Once!Respond
<1>7. CASE UNCHANGED vars
  <2>1. Executor' = Executor /\ Asked' = Asked /\ Finished' = Finished
    BY <1>7 DEF vars, callVars, entryVars, Executor, Running, Asked, Finished
  <2> QED BY <2>1 DEF Once!onceVars
<1> QED
  BY <1>1, <1>2, <1>3, <1>4, <1>5, <1>6, <1>7 DEF Next, Dispatch, Once!OnceNext

(* The initial state is one of OncePerKey's.                               *)
LEMMA OnceInitially == Init => Once!OnceInit
<1> SUFFICES ASSUME Init PROVE Once!OnceInit
  OBVIOUS
<1>1. Asked = [c \in Callers |-> None]
  BY DEF Init, Asked
<1>2. Executor = [k \in Keys |-> None]
  BY DEF Init, Executor, Running
<1>3. Finished = {}
  BY DEF Init, Finished
<1> QED BY <1>1, <1>2, <1>3 DEF Once!OnceInit

(* For any callers, keys, requests and cache limit: whatever entries are   *)
(* made, trimmed and made anew, clients see a key executed by one call at  *)
(* a time, and every other call answered from a finished execution of its  *)
(* own key and request, or refused for a key that stands for another one.  *)
THEOREM RefinesOncePerKey == Spec => ImplementsOncePerKey
<1>1. Spec => []RefInv
  BY InitRefInv, RefInvStep, PTL DEF Spec
<1>2. RefInv => ExecutorIs /\ AskedIs
  BY AbstractState DEF RefInv
<1>3. RefInv /\ RefInv' /\ [Next]_vars => [Once!OnceNext]_(Once!onceVars)
  <2>1. RefInv' => (ExecutorIs /\ AskedIs)'
    BY <1>2, PTL
  <2> QED BY <1>2, <2>1, OnceStep
<1> QED BY <1>1, <1>3, OnceInitially, PTL DEF Spec, ImplementsOncePerKey, Once!OnceSpec

-----------------------------------------------------------------------------
(* The bound of the table and the window in which a retry is recognised.   *)
BusyCallers == {c \in Callers : pc[c] \in Busy}
UsedKeys(n) == {owner[g] : g \in 1 .. n}

(* An entry that left the table is complete, and left it for as many other *)
(* keys as the table has room for.                                         *)
WindowInv ==
    /\ executed \subseteq 1 .. made
    /\ \A e \in 1 .. made : table[owner[e]] # e => e \in completed
    /\ \A e \in 1 .. made : table[owner[e]] = NoEntry =>
          MaxEntries <= Cardinality(UsedKeys(made) \ {owner[e]})
    /\ \A e, f \in 1 .. made : e < f /\ owner[e] = owner[f] =>
          e \in completed /\ MaxEntries <= Cardinality(UsedKeys(f) \ {owner[e]})

EvictionInv == RefInv /\ WindowInv /\ CacheBounded

(* The sets that are counted are finite.                                   *)
LEMMA FiniteCounts ==
  ASSUME RefInv
  PROVE  /\ IsFiniteSet(Held) /\ IsFiniteSet(BusyCallers)
         /\ \A n \in 0 .. made : \A k : IsFiniteSet(UsedKeys(n) \ {k})
<1>1. Held \in SUBSET Keys /\ BusyCallers \in SUBSET Callers
  BY DEF Held, BusyCallers
<1>2. ASSUME NEW n \in 0 .. made, NEW k PROVE UsedKeys(n) \ {k} \in SUBSET Keys
  BY DEF UsedKeys, RefInv, MadeHasRequest, IndInv, TypeOK
<1> QED BY <1>1, <1>2, FS_Subset, FiniteAssumption

(* The cache starts empty, so it is within its bound and nothing was used. *)
LEMMA InitEviction == Init => EvictionInv
<1> SUFFICES ASSUME Init PROVE EvictionInv
  OBVIOUS
<1>1. WindowInv
  BY DEF Init, WindowInv
<1>2. CacheBounded
  <2>1. Held = {} /\ {c \in Callers : pc[c] \in Busy} = {}
    BY DEF Init, Held, Busy
  <2> QED BY <2>1, FS_EmptySet, CacheAssumption DEF CacheBounded
<1> QED BY <1>1, <1>2, InitRefInv DEF EvictionInv

(* A step that leaves the table alone and no caller's share of it.         *)
LEMMA BoundKept ==
  ASSUME CacheBounded, Held' = Held, BusyCallers' = BusyCallers
  PROVE  CacheBounded'
  BY DEF CacheBounded, BusyCallers

(* A step that makes no entry and takes none from the table.               *)
LEMMA WindowKept ==
  ASSUME RefInv, WindowInv, UNCHANGED <<table, entryVars>>, completed \subseteq completed', executed' \subseteq 1 .. made
  PROVE  WindowInv'
<1>1. \A n : UsedKeys(n)' = UsedKeys(n)
  BY DEF UsedKeys, entryVars
<1> QED BY <1>1 DEF WindowInv, entryVars

(* Entries that are not complete have a caller each.                       *)
LEMMA IncompleteCounted ==
  ASSUME RefInv, NEW c \in Callers, pc[c] = "trim"
  PROVE  Cardinality(Held \ Removable) <= Cardinality(BusyCallers \ {c})
<1> DEFINE H == Held \ Removable
           B == BusyCallers \ {c}
           f == [k \in H |-> CHOOSE d \in Callers : pc[d] \in {"execute", "complete"} /\ entry[d] = table[k]]
<1>1. ASSUME NEW k \in H
      PROVE  f[k] \in B /\ entry[f[k]] = table[k] /\ pc[f[k]] \in {"execute", "complete"}
  <2>1. k \in Keys /\ table[k] # NoEntry /\ table[k] \notin completed
    BY DEF Held, Removable
  <2>2. \E d \in Callers : pc[d] \in {"execute", "complete"} /\ entry[d] = table[k]
    BY <2>1 DEF RefInv, IncompleteIsExecuted
  <2>3. f[k] \in Callers /\ pc[f[k]] \in {"execute", "complete"} /\ entry[f[k]] = table[k]
    BY <2>2
  <2> QED BY <2>3 DEF BusyCallers, Busy
<1>2. \A k, j \in H : f[k] = f[j] => k = j
  <2>1. \A k \in H : owner[table[k]] = k
    BY DEF RefInv, IndInv, TableOwned, Held
  <2> QED BY <1>1, <2>1
<1>3. f \in Injection(H, B)
  BY <1>1, <1>2 DEF Injection, IsInjective
<1>4. IsFiniteSet(B)
  BY FiniteCounts, FS_Subset
<1> HIDE DEF f, H, B
<1>5. Cardinality(H) <= Cardinality(B)
  BY <1>3, <1>4, FS_Injection
<1> QED BY <1>5 DEF H, B

(* Every step keeps the bound of the table and the window of a retry.      *)
LEMMA EvictionStep ==
  ASSUME EvictionInv, [Next]_vars
  PROVE  EvictionInv'
<1>0. RefInv /\ RefInv' /\ WindowInv /\ CacheBounded
  BY RefInvStep DEF EvictionInv
<1>t. TypeOK /\ CallerHasKey /\ ExecutorOwnsEntry /\ TableOwned /\ CompletedMade /\ MadeHasRequest
  BY <1>0 DEF RefInv, IndInv
<1> SUFFICES WindowInv' /\ CacheBounded'
  BY <1>0 DEF EvictionInv
<1> USE CacheAssumption, NoneAssumption
<1>1. ASSUME NEW c \in Callers, LookupExecute(c) PROVE WindowInv' /\ CacheBounded'
  <2> DEFINE n == made + 1
             k == key[c]
  <2>1. /\ pc[c] = "lookup" /\ k \in Keys /\ table[k] = NoEntry /\ n \in Entries
        /\ made' = n /\ owner' = [owner EXCEPT ![n] = k] /\ table' = [table EXCEPT ![k] = n]
        /\ pc' = [pc EXCEPT ![c] = "execute"] /\ UNCHANGED <<completed, executed>>
    BY <1>1, <1>t DEF LookupExecute, CallerHasKey, TypeOK
  <2>2. made \in Nat /\ made < n
    BY <1>t DEF TypeOK
  <2> HIDE DEF n, k
  <2>3. /\ \A e \in 1 .. made : owner'[e] = owner[e] /\ owner'[e] \in Keys
        /\ owner'[n] = k
        /\ \A j \in Keys : table'[j] = IF j = k THEN n ELSE table[j]
    BY <1>t, <2>1, <2>2 DEF TypeOK, MadeHasRequest
  <2>4. \A m \in 0 .. made : UsedKeys(m)' = UsedKeys(m)
    BY <2>2, <2>3 DEF UsedKeys
  <2>5. {owner'[g] : g \in 1 .. n} = UsedKeys(made) \cup {k}
    <3>1. 1 .. n = (1 .. made) \cup {n}
      BY <2>2 DEF n
    <3>2. {owner'[g] : g \in 1 .. made} = UsedKeys(made)
      BY <2>3 DEF UsedKeys
    <3> QED BY <2>3, <3>1, <3>2
  <2>6. \A e \in 1 .. made : owner[e] = k =>
           e \in completed /\ MaxEntries <= Cardinality(UsedKeys(made) \ {k})
    BY <1>0, <2>1, <2>2 DEF WindowInv
  <2>7. WindowInv'
    <3>1. executed' \subseteq 1 .. made'
      BY <1>0, <2>1, <2>2 DEF WindowInv
    <3>2. ASSUME NEW e \in 1 .. made', table'[owner'[e]] # e PROVE e \in completed'
      <4>1. CASE e = n
        BY <2>1, <2>3, <3>2, <4>1
      <4>2. CASE e \in 1 .. made
        BY <1>0, <2>1, <2>3, <2>6, <3>2, <4>2 DEF WindowInv
      <4> QED BY <2>1, <2>2, <4>1, <4>2 DEF n
    <3>3. ASSUME NEW e \in 1 .. made', table'[owner'[e]] = NoEntry
          PROVE  MaxEntries <= Cardinality(UsedKeys(made)' \ {owner'[e]})
      <4>1. e \in 1 .. made /\ owner[e] # k
        BY <2>1, <2>2, <2>3, <3>3 DEF n
      <4>2. MaxEntries <= Cardinality(UsedKeys(made) \ {owner[e]})
        BY <1>0, <2>3, <3>3, <4>1 DEF WindowInv
      <4>3. UsedKeys(made)' = UsedKeys(made) \cup {k}
        BY <2>1, <2>5 DEF UsedKeys
      <4>4. UsedKeys(made) \ {owner[e]} \subseteq UsedKeys(made)' \ {owner[e]}
        BY <4>3
      <4>5. IsFiniteSet(UsedKeys(made)' \ {owner[e]})
        <5>1. UsedKeys(made)' \ {owner[e]} \in SUBSET Keys
          BY <4>3, <2>1, <1>t, <2>2 DEF UsedKeys, MadeHasRequest
        <5> QED BY <5>1, FS_Subset, FiniteAssumption
      <4>6. /\ Cardinality(UsedKeys(made) \ {owner[e]}) <= Cardinality(UsedKeys(made)' \ {owner[e]})
            /\ Cardinality(UsedKeys(made)' \ {owner[e]}) \in Nat
            /\ Cardinality(UsedKeys(made) \ {owner[e]}) \in Nat
        BY <4>4, <4>5, FS_Subset, FS_CardinalityType
      <4> QED BY <2>3, <4>1, <4>2, <4>6
    <3>4. ASSUME NEW e \in 1 .. made', NEW f \in 1 .. made', e < f, owner'[e] = owner'[f]
          PROVE  e \in completed' /\ MaxEntries <= Cardinality(UsedKeys(f)' \ {owner'[e]})
      <4>1. e \in 1 .. made
        BY <2>1, <2>2, <3>4 DEF n
      <4>2. CASE f = n
        <5>1. owner[e] = k /\ owner'[e] = k
          BY <2>3, <3>4, <4>1, <4>2
        <5>2. UsedKeys(f)' = {owner'[g] : g \in 1 .. f}
          BY DEF UsedKeys
        <5>3. UsedKeys(f)' \ {owner'[e]} = UsedKeys(made) \ {k}
          BY <2>5, <4>2, <5>1, <5>2
        <5> QED BY <2>1, <2>6, <4>1, <5>1, <5>3
      <4>3. CASE f \in 1 .. made
        <5>1. UsedKeys(f)' = UsedKeys(f)
          BY <2>2, <2>4, <4>3
        <5> QED BY <1>0, <2>1, <2>3, <3>4, <4>1, <4>3, <5>1 DEF WindowInv
      <4> QED BY <2>1, <2>2, <4>2, <4>3 DEF n
    <3> QED BY <3>1, <3>2, <3>3, <3>4 DEF WindowInv
  <2>8. CacheBounded'
    <3>1. Held' = Held \cup {k} /\ k \notin Held
      BY <2>1, <2>2, <2>3 DEF Held, n
    <3>2. BusyCallers' = BusyCallers \cup {c} /\ c \notin BusyCallers
      BY <2>1, <1>t DEF BusyCallers, Busy, TypeOK
    <3>3. IsFiniteSet(Held) /\ IsFiniteSet(BusyCallers)
      BY <1>0, FiniteCounts
    <3>4. /\ Cardinality(Held') = Cardinality(Held) + 1
          /\ Cardinality(BusyCallers') = Cardinality(BusyCallers) + 1
      BY <3>1, <3>2, <3>3, FS_AddElement
    <3>5. Cardinality(Held) \in Nat /\ Cardinality(BusyCallers) \in Nat
      BY <3>3, FS_CardinalityType
    <3> QED BY <1>0, <3>4, <3>5 DEF CacheBounded, BusyCallers
  <2> QED BY <2>7, <2>8
<1>2. ASSUME NEW c \in Callers, Trim(c) PROVE WindowInv' /\ CacheBounded'
  <2>0. PICK V \in SUBSET Held :
           Victims(V) /\ table' = [k \in Keys |-> IF k \in V THEN NoEntry ELSE table[k]]
    BY <1>2 DEF Trim
  <2>1. /\ pc[c] = "trim" /\ pc' = [pc EXCEPT ![c] = "idle"]
        /\ UNCHANGED <<made, owner, completed, executed>>
    BY <1>2 DEF Trim, Answer, entryVars
  <2>2. \A k \in V : k \in Keys /\ table[k] # NoEntry /\ table[k] \in completed
    BY <2>0, VictimsCompleted DEF Held
  <2>3. Held' = Held \ V
    BY <2>0 DEF Held
  <2>4. IsFiniteSet(Held) /\ IsFiniteSet(BusyCallers) /\ IsFiniteSet(Held')
        /\ Cardinality(Held') \in Nat
    BY <1>0, <2>3, FiniteCounts, FS_Subset, FS_CardinalityType
  <2>5. WindowInv'
    <3>1. \A m : UsedKeys(m)' = UsedKeys(m)
      BY <2>1 DEF UsedKeys
    <3>2. ASSUME NEW e \in 1 .. made, table'[owner[e]] # e PROVE e \in completed
      BY <1>0, <1>t, <2>0, <2>2, <3>2 DEF WindowInv, MadeHasRequest
    <3>3. ASSUME NEW e \in 1 .. made, table'[owner[e]] = NoEntry
          PROVE  MaxEntries <= Cardinality(UsedKeys(made) \ {owner[e]})
      <4>1. CASE table[owner[e]] = NoEntry
        BY <1>0, <4>1 DEF WindowInv
      <4>2. CASE table[owner[e]] # NoEntry
        <5>1. owner[e] \in V
          BY <1>t, <2>0, <3>3, <4>2 DEF MadeHasRequest
        <5>2. MaxEntries <= Cardinality(Held \ V)
          BY <2>0, <2>3, <2>4, <5>1 DEF Victims
        <5>3. Held \ V \subseteq UsedKeys(made) \ {owner[e]}
          <6>1. \A k \in Held : table[k] \in 1 .. made /\ owner[table[k]] = k
            BY <1>t DEF TableOwned, Held
          <6> QED BY <5>1, <6>1 DEF UsedKeys
        <5>4. IsFiniteSet(UsedKeys(made) \ {owner[e]})
          <6>1. made \in 0 .. made
            BY <1>t DEF TypeOK
          <6> QED BY <1>0, <6>1, FiniteCounts
        <5>5. /\ Cardinality(Held \ V) <= Cardinality(UsedKeys(made) \ {owner[e]})
              /\ Cardinality(UsedKeys(made) \ {owner[e]}) \in Nat
          BY <5>3, <5>4, FS_Subset, FS_CardinalityType
        <5> QED BY <2>3, <2>4, <5>2, <5>5
      <4> QED BY <4>1, <4>2
    <3> QED BY <1>0, <2>1, <3>1, <3>2, <3>3 DEF WindowInv
  <2>6. CacheBounded'
    <3>1. BusyCallers' = BusyCallers \ {c}
      BY <2>1, <1>t DEF BusyCallers, Busy, TypeOK
    <3>2. Cardinality(BusyCallers') \in Nat
      BY <2>4, <3>1, FS_Subset, FS_CardinalityType
    <3>3. CASE Cardinality(Held \ V) <= MaxEntries
      BY <2>3, <2>4, <3>2, <3>3 DEF CacheBounded, BusyCallers
    <3>4. CASE V = Removable
      <4>1. Cardinality(Held') <= Cardinality(BusyCallers')
        BY <1>0, <2>1, <2>3, <3>1, <3>4, IncompleteCounted
      <4> QED BY <2>4, <3>2, <4>1 DEF CacheBounded, BusyCallers
    <3> QED BY <2>0, <3>3, <3>4 DEF Victims
  <2> QED BY <2>5, <2>6
<1>3. ASSUME UNCHANGED <<table, entryVars>>, completed \subseteq completed', executed' \subseteq 1 .. made,
             BusyCallers' = BusyCallers
      PROVE  WindowInv' /\ CacheBounded'
  <2>1. Held' = Held
    BY <1>3 DEF Held
  <2> QED BY <1>0, <1>3, <2>1, WindowKept, BoundKept
<1>4. executed \subseteq 1 .. made
  BY <1>0 DEF WindowInv
<1>5. ASSUME NEW c \in Callers, NEW k \in Keys, NEW q \in Requests, Receive(c, k, q)
      PROVE  WindowInv' /\ CacheBounded'
  <2>1. BusyCallers' = BusyCallers
    BY <1>5, <1>t DEF Receive, BusyCallers, Busy, TypeOK
  <2> QED BY <1>3, <1>4, <1>5, <2>1 DEF Receive
<1>6. ASSUME NEW c \in Callers, LookupExisting(c) \/ LookupConflict(c) \/ Replay(c)
      PROVE  WindowInv' /\ CacheBounded'
  <2>1. BusyCallers' = BusyCallers
    BY <1>6, <1>t DEF LookupExisting, LookupConflict, Replay, Answer, BusyCallers, Busy, TypeOK
  <2> QED BY <1>3, <1>4, <1>6, <2>1 DEF LookupExisting, LookupConflict, Replay
<1>7. ASSUME NEW c \in Callers, Execute(c) \/ Complete(c) PROVE WindowInv' /\ CacheBounded'
  <2>1. BusyCallers' = BusyCallers
    BY <1>7, <1>t DEF Execute, Complete, BusyCallers, Busy, TypeOK
  <2>2. executed' \subseteq 1 .. made /\ completed \subseteq completed'
    BY <1>4, <1>7, <1>t DEF Execute, Complete, ExecutorOwnsEntry
  <2>3. UNCHANGED <<table, entryVars>>
    BY <1>7 DEF Execute, Complete
  <2> QED BY <1>3, <2>1, <2>2, <2>3
<1>8. CASE UNCHANGED vars
  <2>1. BusyCallers' = BusyCallers
    BY <1>8 DEF vars, callVars, BusyCallers
  <2> QED BY <1>3, <1>4, <1>8, <2>1 DEF vars
<1> QED
  BY <1>1, <1>2, <1>5, <1>6, <1>7, <1>8 DEF Next, Dispatch

(* For any limit and any number of callers and keys: the table exceeds its *)
(* limit by no more than the calls that have not come to their trim, and a *)
(* key is executed again only after its execution completed and at least   *)
(* as many other keys were used as the table has room for.                 *)
THEOREM EvictionExact == Spec => []EvictionIsExact
<1>1. EvictionInv => EvictionIsExact
  <2>1. RefInv /\ WindowInv => RetryWindow
    BY DEF WindowInv, RetryWindow, UsedKeys
  <2> QED BY <2>1 DEF EvictionInv, EvictionIsExact
<1> QED BY <1>1, InitEviction, EvictionStep, PTL DEF Spec
=============================================================================
