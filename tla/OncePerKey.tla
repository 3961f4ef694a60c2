----------------------------- MODULE OncePerKey -----------------------------
(***************************************************************************)
(* What the RPC server promises a client that retries a mutation under an  *)
(* idempotency key, without entries, table or limit: a key is executed by  *)
(* one call at a time, and a call that is answered without executing gets  *)
(* the response of a finished execution of the very same request, or is    *)
(* refused.                                                                *)
(***************************************************************************)
CONSTANTS
    Callers,      \* the connections' reader threads
    Keys,         \* idempotency keys
    Requests,     \* requests sent under them
    None          \* no call

VARIABLES
    asked,        \* per caller: the key and request it wants answered
    running,      \* per key: the caller that executes it
    finished      \* pairs of a key and a request executed at least once

onceVars == <<asked, running, finished>>

OnceInit ==
    /\ asked = [c \in Callers |-> None]
    /\ running = [k \in Keys |-> None]
    /\ finished = {}

Ask(c, k, q) ==
    /\ asked[c] = None
    /\ asked' = [asked EXCEPT ![c] = <<k, q>>]
    /\ UNCHANGED <<running, finished>>

(* The caller is the only one to execute its key.                          *)
Start(c) ==
    /\ asked[c] # None
    /\ running[asked[c][1]] = None
    /\ running' = [running EXCEPT ![asked[c][1]] = c]
    /\ UNCHANGED <<asked, finished>>

Finish(c) ==
    /\ asked[c] # None
    /\ running[asked[c][1]] = c
    /\ running' = [running EXCEPT ![asked[c][1]] = None]
    /\ finished' = finished \cup {asked[c]}
    /\ UNCHANGED asked

(* The response of a finished execution, the caller's own or another's.    *)
Respond(c) ==
    /\ asked[c] \in finished
    /\ running[asked[c][1]] # c
    /\ asked' = [asked EXCEPT ![c] = None]
    /\ UNCHANGED <<running, finished>>

(* The key is known for another request.                                   *)
Refuse(c) ==
    /\ asked[c] # None
    /\ \E q \in Requests \ {asked[c][2]} :
          <<asked[c][1], q>> \in finished \/ running[asked[c][1]] \notin {None, c}
    /\ asked' = [asked EXCEPT ![c] = None]
    /\ UNCHANGED <<running, finished>>

OnceNext ==
    \E c \in Callers :
        \/ \E k \in Keys, q \in Requests : Ask(c, k, q)
        \/ Start(c) \/ Finish(c) \/ Respond(c) \/ Refuse(c)

OnceSpec == OnceInit /\ [][OnceNext]_onceVars
=============================================================================
