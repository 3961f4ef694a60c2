--------------------------- MODULE ConnectorProofs ---------------------------
(***************************************************************************)
(* Proofs about the connectors for any callers, client processes, crashes  *)
(* and retries: a workspace has one runtime, and the runtime a client is   *)
(* connected to is the one its metadata names.                             *)
(***************************************************************************)
EXTENDS Connector, FiniteSetTheorems, TLAPS

(* Where a call holds the lock file, and where it cannot.                  *)
UnderLock == {"remove", "launch", "announce", "publish", "ready", "stop", "unpublish"}
Outside == {"idle", "begin", "guard", "lock", "crashed"}

(* A call is at its second look, or beyond it, as long as it has the lock. *)
LockIsHeld ==
  \A c \in Callers :
    /\ lock = c <=> site[c] = "locked"
    /\ pc[c] \in UnderLock => site[c] = "locked"
    /\ pc[c] \in Outside => site[c] # "locked"

(* A number that got about is that of a runtime which has announced itself. *)
Announced(r) == r \in Runtimes => runtime[r] \in {"serving", "hung", "dead"}

(* Whoever listens under such a number is the one the metadata names.      *)
Published(r) == Announced(r) /\ (Listening(r) => metadata = r)

(* The calls, and the connections, know runtimes that are published only.  *)
NumbersAreKnown ==
  /\ Announced(metadata)
  /\ \A c \in Callers : Published(snap[c]) /\ Published(conn[c])

(* The look under the lock is still true when a runtime is started, and    *)
(* until its record is written; from then on the record is its own.        *)
Sees(c) ==
  /\ pc[c] = "probe" => snap[c] \in Runtimes /\ (site[c] = "locked" => snap[c] = metadata)
  /\ pc[c] \in {"remove", "launch", "announce", "publish"} => metadata \notin Alive
  /\ pc[c] \in {"announce", "publish", "ready", "stop", "unpublish"} => target[c] \in Runtimes
  /\ pc[c] = "publish" => Announced(target[c])
  /\ pc[c] \in {"ready", "stop", "unpublish"} => metadata = target[c]
  /\ pc[c] = "unpublish" => target[c] \notin Alive
StarterSees == \A c \in Callers : Sees(c)

(* A runtime that lives is published, or its starter is about to do so, or *)
(* its starter was killed.                                                 *)
LivingAreKnown ==
  \A r \in Alive \ abandoned :
    r = metadata \/ \E c \in Callers : pc[c] \in {"announce", "publish"} /\ r = target[c]

ConnInv == TypeOK /\ LockIsHeld /\ NumbersAreKnown /\ StarterSees /\ LivingAreKnown

-----------------------------------------------------------------------------
(* The types of what a call changes, and of what it shares with runtimes.  *)
CallTypes ==
  /\ pc \in [Callers -> {"idle", "begin", "read", "probe", "remove", "guard", "lock",
                         "launch", "announce", "publish", "ready", "stop", "unpublish",
                         "crashed"}]
  /\ op \in [Callers -> {"start", "existing", "reconnect"}]
  /\ site \in [Callers -> {"first", "contended", "locked"}]
  /\ tries \in [Callers -> 0 .. ReconnectRetries]
  /\ expired \in [Callers -> BOOLEAN]
  /\ snap \in [Callers -> {Missing, Invalid} \cup Runtimes]
  /\ target \in [Callers -> {Missing} \cup Runtimes]
  /\ state \in [Callers -> States]
  /\ conn \in [Callers -> {Missing} \cup Runtimes]
  /\ guard \in [Processes -> Callers \cup {None}]
  /\ lock \in Callers \cup {None}
WorldTypes ==
  /\ metadata \in {Missing, Invalid} \cup Runtimes
  /\ runtime \in [Runtimes -> {"unborn", "booting", "serving", "hung", "dead", "stillborn"}]
  /\ compatible \in [Runtimes -> BOOLEAN]
  /\ abandoned \subseteq Runtimes
  /\ owner \in Placements
  /\ calls \in 0 .. MaxCalls
  /\ crashes \in 0 .. MaxCrashes

LEMMA TypesAre == TypeOK <=> CallTypes /\ WorldTypes
BY DEF TypeOK, CallTypes, WorldTypes

(* The numbers of runtimes are neither of the two marks.                   *)
LEMMA MarksAreNoRuntimes == Missing \notin Runtimes /\ Invalid \notin Runtimes /\ Missing # Invalid
BY ConnectorAssumption DEF Missing, Invalid, Runtimes

(* A step of the call c leaves the other calls alone.                      *)
Alone(c) ==
  \A d \in Callers \ {c} :
    /\ pc'[d] = pc[d] /\ site'[d] = site[d] /\ snap'[d] = snap[d]
    /\ conn'[d] = conn[d] /\ target'[d] = target[d]
    /\ lock' = d <=> lock = d

(* It ends a runtime or starts one; nothing else happens to runtimes.      *)
Fades(c) ==
  \A r \in Runtimes :
    \/ runtime'[r] = runtime[r]
    \/ runtime[r] \in {"serving", "hung", "dead"} /\ runtime'[r] = "dead"
    \/ runtime[r] \in {"booting", "stillborn"} /\ runtime'[r] = "stillborn"
    \/ runtime[r] = "unborn" /\ runtime'[r] = "booting" /\ pc'[c] = "announce" /\ target'[c] = r

(* It writes the metadata only with the lock, over a record nobody uses.   *)
Rewrites(c) ==
  metadata' = metadata \/ (lock = c /\ metadata \notin Alive' /\ Announced(metadata)')

(* A runtime it was about to publish is published, or gone.                *)
Settles(c) ==
  pc[c] \in {"announce", "publish"} =>
    \/ pc'[c] \in {"announce", "publish"} /\ target'[c] = target[c]
    \/ metadata' = target[c]
    \/ target[c] \notin Alive'

(* The lock is with the call where it has to be.                           *)
Holds(c) ==
  /\ lock = c <=> site[c] = "locked"
  /\ pc[c] \in UnderLock => site[c] = "locked"
  /\ pc[c] \in Outside => site[c] # "locked"

(* What a step of one call has to do to keep the invariant.                *)
LEMMA OwnStepKeeps ==
  ASSUME ConnInv, NEW c \in Callers, CallTypes', WorldTypes', abandoned' = abandoned,
         Alone(c), Fades(c), Rewrites(c), Settles(c), Holds(c)', Sees(c)',
         Published(snap[c])', Published(conn[c])'
  PROVE  ConnInv'
<1>0. /\ CallTypes /\ WorldTypes /\ Announced(metadata) /\ LivingAreKnown
      /\ \A d \in Callers : Published(snap[d]) /\ Published(conn[d]) /\ Holds(d) /\ Sees(d)
  BY TypesAre DEF ConnInv, NumbersAreKnown, StarterSees, LockIsHeld, Holds
<1>1. \A r \in Runtimes : (Announced(r) => Announced(r)') /\ (Listening(r)' => Listening(r))
  BY <1>0 DEF Fades, Announced, Listening
<1>2. \A r \in Alive' : r \in Alive \/ (pc'[c] = "announce" /\ target'[c] = r /\ ~Announced(r))
  BY DEF Fades, Alive, Announced
<1>3. TypeOK'
  BY TypesAre DEF TypeOK, CallTypes, WorldTypes
<1>4. LockIsHeld'
  BY <1>0 DEF LockIsHeld, Holds, Alone
<1>5. NumbersAreKnown'
  <2>1. Announced(metadata)'
    BY <1>0, <1>1 DEF Rewrites, Announced
  <2>2. ASSUME NEW x, Published(x) PROVE Published(x)'
    <3>1. Announced(x)'
      BY <1>1, <2>2 DEF Published, Announced
    <3>2. ASSUME Listening(x)' PROVE metadata' = x
      <4>1. x \in Runtimes /\ Listening(x) /\ metadata = x /\ x \in Alive'
        BY <1>1, <2>2, <3>2 DEF Published, Listening, Alive
      <4> QED BY <4>1 DEF Rewrites
    <3> QED BY <3>1, <3>2 DEF Published
  <2>3. ASSUME NEW d \in Callers PROVE Published(snap[d])' /\ Published(conn[d])'
    <3>1. CASE d = c
      BY <3>1
    <3>2. CASE d # c
      <4>1. snap'[d] = snap[d] /\ conn'[d] = conn[d] /\ Published(snap[d]) /\ Published(conn[d])
        BY <1>0, <3>2 DEF Alone
      <4>2. Announced(snap[d])' /\ (Listening(snap[d])' => metadata' = snap'[d])
        BY <2>2, <4>1 DEF Published, Announced, Listening
      <4>3. Announced(conn[d])' /\ (Listening(conn[d])' => metadata' = conn'[d])
        BY <2>2, <4>1 DEF Published, Announced, Listening
      <4> QED BY <4>2, <4>3 DEF Published
    <3> QED BY <3>1, <3>2
  <2> QED BY <2>1, <2>3 DEF NumbersAreKnown
<1>6. StarterSees'
  <2> SUFFICES ASSUME NEW d \in Callers, d # c PROVE Sees(d)'
    BY DEF StarterSees
  <2>1. /\ pc'[d] = pc[d] /\ target'[d] = target[d] /\ site'[d] = site[d] /\ snap'[d] = snap[d]
        /\ Sees(d) /\ Holds(d)
    BY <1>0 DEF Alone
  <2>2. CASE site[d] = "locked"
    <3>1. lock = d /\ metadata' = metadata /\ Announced(metadata)
      BY <1>0, <2>1, <2>2 DEF Holds, Rewrites
    <3>2. metadata \notin Alive => metadata' \notin Alive'
      BY <1>2, <3>1
    <3>3. target[d] \in Runtimes /\ Announced(target[d]) => Announced(target[d])'
      BY <1>1, <2>1 DEF Announced
    <3>4. metadata = target[d] /\ target[d] \notin Alive => target[d] \notin Alive'
      BY <1>2, <3>1
    <3> QED BY <2>1, <3>1, <3>2, <3>3, <3>4 DEF Sees, Announced
  <2>3. CASE site[d] # "locked"
    BY <2>1, <2>3 DEF Sees, Holds, UnderLock
  <2> QED BY <2>2, <2>3
<1>7. LivingAreKnown'
  <2> SUFFICES ASSUME NEW r \in Alive' \ abandoned
               PROVE  r = metadata' \/ \E d \in Callers : pc'[d] \in {"announce", "publish"} /\ r = target'[d]
    BY DEF LivingAreKnown
  <2>1. CASE r \notin Alive
    BY <1>2, <2>1
  <2>2. CASE r \in Alive /\ r = metadata
    BY <2>2 DEF Rewrites
  <2>3. CASE r \in Alive /\ r # metadata
    <3>1. PICK d \in Callers : pc[d] \in {"announce", "publish"} /\ r = target[d]
      BY <1>0, <2>3 DEF LivingAreKnown
    <3>2. CASE d = c
      BY <3>1, <3>2 DEF Settles
    <3>3. CASE d # c
      BY <3>1, <3>3 DEF Alone
    <3> QED BY <3>2, <3>3
  <2> QED BY <2>1, <2>2, <2>3
<1> QED BY <1>3, <1>4, <1>5, <1>6, <1>7 DEF ConnInv

-----------------------------------------------------------------------------
(* The call c has ended, or begins its next attempt.                       *)
Left(c) ==
  /\ CallTypes' /\ Alone(c)
  /\ pc'[c] \in {"idle", "begin"} /\ site'[c] = "first" /\ lock' # c
  /\ snap'[c] = Missing

LEMMA FailedIsState == \A s \in States : Failed(s) \in States
BY DEF Failed, States

LEMMA ReleaseShape ==
  ASSUME CallTypes, NEW c \in Callers, Release(c), Forget(c)
  PROVE  /\ guard' \in [Processes -> Callers \cup {None}] /\ lock' \in Callers \cup {None}
         /\ site' \in [Callers -> {"first", "contended", "locked"}] /\ expired' \in [Callers -> BOOLEAN]
         /\ snap' \in [Callers -> {Missing, Invalid} \cup Runtimes] /\ target' \in [Callers -> {Missing} \cup Runtimes]
         /\ site'[c] = "first" /\ snap'[c] = Missing /\ lock' # c
         /\ \A d \in Callers \ {c} : /\ site'[d] = site[d] /\ snap'[d] = snap[d] /\ target'[d] = target[d]
                                     /\ lock' = d <=> lock = d
<1>1. None # c
  BY ConnectorAssumption
<1>2. guard' \in [Processes -> Callers \cup {None}] /\ lock' \in Callers \cup {None}
  BY DEF CallTypes, Release
<1>3. site' \in [Callers -> {"first", "contended", "locked"}] /\ expired' \in [Callers -> BOOLEAN]
  BY DEF CallTypes, Forget
<1>4. snap' \in [Callers -> {Missing, Invalid} \cup Runtimes] /\ target' \in [Callers -> {Missing} \cup Runtimes]
  BY DEF CallTypes, Forget
<1>5. site'[c] = "first" /\ snap'[c] = Missing /\ lock' # c
  BY <1>1 DEF CallTypes, Forget, Release
<1>6. ASSUME NEW d \in Callers \ {c}
      PROVE  site'[d] = site[d] /\ snap'[d] = snap[d] /\ target'[d] = target[d] /\ (lock' = d <=> lock = d)
  BY ConnectorAssumption DEF CallTypes, Forget, Release
<1> QED BY <1>2, <1>3, <1>4, <1>5, <1>6

(* Whether it tries again or not, a call that fails has let go of all.     *)
LEMMA ErrorLeaves ==
  ASSUME CallTypes, NEW c \in Callers, NEW s \in States, NEW transient \in BOOLEAN, ReturnError(c, s, transient)
  PROVE  Left(c) /\ conn' = conn
<1>1. Release(c) /\ Forget(c) /\ op' = op /\ conn' = conn
  BY DEF ReturnError
<1>2. PICK p \in {"idle", "begin"}, n \in 0 .. ReconnectRetries, t \in States :
         pc' = [pc EXCEPT ![c] = p] /\ tries' = [tries EXCEPT ![c] = n] /\ state' = [state EXCEPT ![c] = t]
  <2>0. ReconnectRetries \in Nat /\ 0 \in 0 .. ReconnectRetries /\ "Discovering" \in States
    BY ConnectorAssumption DEF States
  <2>1. CASE op[c] = "reconnect" /\ transient /\ tries[c] < ReconnectRetries /\ ValidTransition(s, "Reconnecting")
    <3>1. tries[c] + 1 \in 0 .. ReconnectRetries
      BY <2>0, <2>1 DEF CallTypes
    <3>2. /\ pc' = [pc EXCEPT ![c] = "begin"] /\ tries' = [tries EXCEPT ![c] = tries[c] + 1]
          /\ state' = [state EXCEPT ![c] = "Discovering"]
      BY <2>1 DEF ReturnError
    <3> QED BY <2>0, <3>1, <3>2
  <2>2. CASE ~(op[c] = "reconnect" /\ transient /\ tries[c] < ReconnectRetries /\ ValidTransition(s, "Reconnecting"))
    <3>1. /\ pc' = [pc EXCEPT ![c] = "idle"] /\ tries' = [tries EXCEPT ![c] = 0] /\ state' = [state EXCEPT ![c] = s]
      BY <2>2 DEF ReturnError
    <3> QED BY <2>0, <3>1
  <2> QED BY <2>1, <2>2
<1>3. pc'[c] \in {"idle", "begin"} /\ \A d \in Callers \ {c} : pc'[d] = pc[d]
  BY <1>2 DEF CallTypes
<1>4. CallTypes'
  BY <1>1, <1>2, ReleaseShape DEF CallTypes
<1> QED BY <1>1, <1>3, <1>4, ReleaseShape DEF Left, Alone

LEMMA ConnectedLeaves ==
  ASSUME CallTypes, NEW c \in Callers, NEW r \in Runtimes, Connected(c, r)
  PROVE  Left(c) /\ conn'[c] = r
<1>1. Release(c) /\ Forget(c) /\ op' = op
  BY DEF Connected
<1>2. /\ pc' = [pc EXCEPT ![c] = "idle"] /\ tries' = [tries EXCEPT ![c] = 0]
      /\ state' = [state EXCEPT ![c] = "Connected"] /\ conn' = [conn EXCEPT ![c] = r]
  BY DEF Connected
<1>3. pc'[c] = "idle" /\ conn'[c] = r /\ \A d \in Callers \ {c} : pc'[d] = pc[d] /\ conn'[d] = conn[d]
  BY <1>2 DEF CallTypes
<1>4. "Connected" \in States /\ ReconnectRetries \in Nat
  BY ConnectorAssumption DEF States
<1>5. CallTypes'
  BY <1>1, <1>2, <1>4, ReleaseShape DEF CallTypes
<1> QED BY <1>1, <1>3, <1>5, ReleaseShape DEF Left, Alone

(* So an ending keeps the invariant if it leaves no runtime unpublished.   *)
LEMMA LeavingKeeps ==
  ASSUME ConnInv, NEW c \in Callers, Left(c), WorldTypes', abandoned' = abandoned,
         Fades(c), Rewrites(c), Settles(c), Published(conn[c])'
  PROVE  ConnInv'
<1>1. Holds(c)'
  BY DEF Left, Holds, UnderLock
<1>2. Sees(c)'
  BY DEF Left, Sees
<1>3. Published(snap[c])'
  BY MarksAreNoRuntimes DEF Left, Published, Announced, Listening
<1> QED BY <1>1, <1>2, <1>3, OwnStepKeeps DEF Left

(* The runtimes and the metadata stay as they are: what needs no proof.    *)
LEMMA StillWorld ==
  ASSUME NEW c, UNCHANGED <<metadata, runtime>>
  PROVE  /\ Fades(c) /\ Rewrites(c)
         /\ \A x : (Published(x) => Published(x)') /\ (Announced(x) => Announced(x)')
         /\ Alive' = Alive
BY DEF Fades, Rewrites, Published, Announced, Listening, Alive


LEMMA PublishedStays ==
  ASSUME NEW c, NEW x, Published(x), runtime' = runtime, Rewrites(c)
  PROVE  Published(x)'
<1>1. Announced(x)' /\ (Listening(x)' => Listening(x) /\ x \in Alive')
  BY DEF Published, Announced, Listening, Alive
<1>2. Listening(x)' => metadata' = x
  BY <1>1 DEF Published, Rewrites
<1> QED BY <1>1, <1>2 DEF Published

(* An error, wherever it comes, that touches nothing shared.               *)
LEMMA StillErrorKeeps ==
  ASSUME ConnInv, NEW c \in Callers, NEW s \in States, NEW transient \in BOOLEAN, ReturnError(c, s, transient),
         UNCHANGED <<runtimeVars, abandoned, countVars>>, WorldTypes', Rewrites(c),
         pc[c] \notin {"announce", "publish"}
  PROVE  ConnInv'
<1>1. CallTypes /\ Published(conn[c])
  BY TypesAre DEF ConnInv, NumbersAreKnown
<1>2. Left(c) /\ conn' = conn
  BY <1>1, ErrorLeaves
<1>3. runtime' = runtime /\ abandoned' = abandoned
  BY DEF runtimeVars
<1>4. Published(conn[c])'
  BY <1>1, <1>2, <1>3, PublishedStays DEF Published, Announced, Listening
<1>5. Fades(c) /\ Settles(c)
  BY <1>3 DEF Fades, Settles
<1> QED BY <1>2, <1>3, <1>4, <1>5, LeavingKeeps

(* What a call does when its look has found no runtime.                    *)
LEMMA NoRuntimeKeeps ==
  ASSUME ConnInv, NEW c \in Callers, NoRuntime(c), pc[c] \in {"read", "probe", "remove"},
         UNCHANGED <<runtimeVars, abandoned, countVars>>, WorldTypes', Rewrites(c),
         site[c] = "locked" => metadata' \notin Alive
  PROVE  ConnInv'
<1>1. CallTypes /\ Published(conn[c]) /\ Holds(c) /\ state[c] \in States /\ Failed(state[c]) \in States
  BY TypesAre, FailedIsState DEF ConnInv, NumbersAreKnown, LockIsHeld, Holds, CallTypes
<1>2. runtime' = runtime /\ abandoned' = abandoned /\ Alive' = Alive
  BY DEF runtimeVars, Alive
<1>3. CASE \E t \in States : ReturnError(c, t, FALSE)
  BY <1>3, StillErrorKeeps
<1>4. ASSUME NEW to \in {"guard", "lock", "launch"}, Proceed(c, to), to = "launch" <=> site[c] = "locked",
             state' \in [Callers -> States]
      PROVE  ConnInv'
  <2>1. CallTypes'
    BY <1>1, <1>4 DEF CallTypes, Proceed, lockVars
  <2>2. Alone(c) /\ pc'[c] = to /\ snap'[c] = Missing /\ conn' = conn /\ site' = site /\ lock' = lock
    BY <1>1, <1>4 DEF CallTypes, Proceed, lockVars, Alone
  <2>3. Holds(c)'
    BY <1>1, <1>4, <2>2 DEF Holds, UnderLock, Outside
  <2>4. Sees(c)'
    BY <1>2, <1>4, <2>2 DEF Sees
  <2>5. Published(snap[c])'
    BY <2>2, MarksAreNoRuntimes DEF Published, Announced, Listening
  <2>6. Published(conn[c])'
    BY <1>1, <1>2, <2>2, PublishedStays DEF Published, Announced, Listening
  <2>7. Fades(c) /\ Settles(c)
    BY <1>2 DEF Fades, Settles
  <2> QED BY <1>2, <2>1, <2>2, <2>3, <2>4, <2>5, <2>6, <2>7, OwnStepKeeps
<1>5. CASE op[c] # "existing" /\ site[c] = "first" /\ Proceed(c, "guard") /\ UNCHANGED state
  BY <1>1, <1>4, <1>5 DEF CallTypes
<1>6. CASE op[c] # "existing" /\ site[c] = "contended" /\ ~expired[c] /\ Proceed(c, "lock") /\ UNCHANGED state
  BY <1>1, <1>4, <1>6 DEF CallTypes
<1>7. CASE op[c] # "existing" /\ site[c] = "locked" /\ Proceed(c, "launch") /\ state' = [state EXCEPT ![c] = "Starting"]
  <2>1. state' \in [Callers -> States]
    BY <1>1, <1>7 DEF CallTypes, States
  <2> QED BY <1>4, <1>7, <2>1
<1> QED BY <1>1, <1>3, <1>5, <1>6, <1>7 DEF NoRuntime

(* A stale record: remembered under the lock, otherwise there is none.     *)
LEMMA StaleRecordKeeps ==
  ASSUME ConnInv, NEW c \in Callers, NEW record \in {Invalid} \cup Runtimes, StaleRecord(c, record),
         pc[c] \in {"read", "probe"}, UNCHANGED <<metadata, runtimeVars, abandoned, countVars>>,
         Published(record), site[c] = "locked" => metadata \notin Alive
  PROVE  ConnInv'
<1>1. CallTypes /\ WorldTypes /\ Published(conn[c]) /\ Holds(c)
  BY TypesAre DEF ConnInv, NumbersAreKnown, LockIsHeld, Holds
<1>2. /\ runtime' = runtime /\ metadata' = metadata /\ abandoned' = abandoned /\ Alive' = Alive
      /\ WorldTypes' /\ Fades(c) /\ Rewrites(c)
  BY <1>1, StillWorld DEF runtimeVars, countVars, WorldTypes
<1>3. CASE site[c] # "locked" /\ NoRuntime(c)
  BY <1>2, <1>3, NoRuntimeKeeps
<1>4. CASE /\ site[c] = "locked" /\ pc' = [pc EXCEPT ![c] = "remove"] /\ snap' = [snap EXCEPT ![c] = record]
           /\ UNCHANGED <<op, site, tries, expired, target, state, conn, lockVars>>
  <2>1. CallTypes'
    BY <1>1, <1>4 DEF CallTypes, lockVars
  <2>2. Alone(c) /\ pc'[c] = "remove" /\ snap'[c] = record /\ conn' = conn /\ site' = site /\ lock' = lock
    BY <1>1, <1>4 DEF CallTypes, lockVars, Alone
  <2>3. Holds(c)'
    BY <1>1, <1>4, <2>2 DEF Holds, UnderLock, Outside
  <2>4. Sees(c)'
    BY <1>2, <1>4, <2>2 DEF Sees
  <2>5. Published(snap[c])' /\ Published(conn[c])'
    BY <1>1, <1>2, <2>2 DEF Published, Announced, Listening
  <2>6. Settles(c)
    BY DEF Settles
  <2> QED BY <1>2, <2>1, <2>2, <2>3, <2>4, <2>5, <2>6, OwnStepKeeps
<1> QED BY <1>3, <1>4 DEF StaleRecord

-----------------------------------------------------------------------------
(* A step within a call that touches nothing shared but the flag.          *)
LEMMA CalmMoveKeeps ==
  ASSUME ConnInv, NEW c \in Callers, NEW to, pc' = [pc EXCEPT ![c] = to], CallTypes',
         UNCHANGED <<site, snap, target, lock, metadata, runtimeVars, abandoned, owner>>,
         WorldTypes', conn' = conn \/ conn' = [conn EXCEPT ![c] = Missing],
         to \in UnderLock => site[c] = "locked", to \in Outside => site[c] # "locked",
         Sees(c)', Settles(c)
  PROVE  ConnInv'
<1>1. CallTypes /\ Published(conn[c]) /\ Published(snap[c]) /\ Holds(c)
  BY TypesAre DEF ConnInv, NumbersAreKnown, LockIsHeld, Holds
<1>2. Alone(c) /\ pc'[c] = to /\ conn'[c] \in {conn[c], Missing}
  BY <1>1 DEF CallTypes, Alone
<1>3. Holds(c)'
  BY <1>1, <1>2 DEF Holds
<1>4. runtime' = runtime /\ Fades(c) /\ Rewrites(c)
  BY StillWorld DEF runtimeVars
<1>5. Published(snap[c])' /\ Published(conn[c])'
  BY <1>1, <1>2, <1>4, MarksAreNoRuntimes DEF Published, Announced, Listening
<1> QED BY <1>2, <1>3, <1>4, <1>5, OwnStepKeeps

(* What every step of a call finds.                                        *)
LEMMA StepFinds ==
  ASSUME ConnInv, NEW c \in Callers
  PROVE  /\ CallTypes /\ WorldTypes /\ Published(conn[c]) /\ Published(snap[c]) /\ Announced(metadata)
         /\ Holds(c) /\ Sees(c) /\ state[c] \in States /\ Failed(state[c]) \in States
BY TypesAre, FailedIsState DEF ConnInv, NumbersAreKnown, LockIsHeld, Holds, StarterSees, CallTypes

LEMMA LookFailsKeeps ==
  ASSUME ConnInv, NEW c \in Callers, NEW transient \in BOOLEAN, LookFails(c, transient),
         UNCHANGED <<metadata, runtimeVars, abandoned, countVars>>, pc[c] \in {"read", "probe", "remove"}
  PROVE  ConnInv'
<1>1. WorldTypes' /\ Rewrites(c) /\ state[c] \in States /\ Failed(state[c]) \in States
  BY StepFinds DEF WorldTypes, runtimeVars, countVars, Rewrites
<1>2. \E s \in States : ReturnError(c, s, transient)
  BY <1>1 DEF LookFails
<1> QED BY <1>1, <1>2, StillErrorKeeps

LEMMA CallKeeps ==
  ASSUME ConnInv, NEW c \in Callers, Call(c)
  PROVE  ConnInv'
<1>1. CallTypes /\ WorldTypes /\ Holds(c) /\ Sees(c)
  BY StepFinds
<1>2. /\ conn' = [conn EXCEPT ![c] = Missing] /\ pc[c] = "idle" /\ calls' = calls + 1 /\ calls < MaxCalls
      /\ UNCHANGED <<site, tries, expired, snap, target, lockVars, metadata, runtimeVars, abandoned, owner, crashes>>
  BY DEF Call
<1>3. PICK to \in {"idle", "begin"} : pc' = [pc EXCEPT ![c] = to]
  BY <1>1, <1>2 DEF Call, CallTypes
<1>4. op' \in [Callers -> {"start", "existing", "reconnect"}] /\ state' \in [Callers -> States]
  <2>1. "Discovering" \in States
    BY DEF States
  <2>2. PICK o \in {"start", "existing", "reconnect"} :
          op' = [op EXCEPT ![c] = o] /\ (state' = state \/ state' = [state EXCEPT ![c] = "Discovering"])
    BY DEF Call
  <2> QED BY <1>1, <2>1, <2>2 DEF CallTypes
<1>5. CallTypes'
  BY <1>1, <1>2, <1>3, <1>4 DEF CallTypes, lockVars
<1>6. WorldTypes'
  BY <1>1, <1>2, ConnectorAssumption DEF WorldTypes, runtimeVars
<1>7. pc'[c] = to /\ Sees(c)' /\ Settles(c) /\ site[c] # "locked" /\ lock' = lock
  BY <1>1, <1>2, <1>3 DEF CallTypes, Sees, Settles, Holds, Outside, lockVars
<1> QED BY <1>2, <1>3, <1>5, <1>6, <1>7, CalmMoveKeeps DEF UnderLock

LEMMA BeginKeeps ==
  ASSUME ConnInv, NEW c \in Callers, Begin(c)
  PROVE  ConnInv'
<1>1. CallTypes /\ WorldTypes /\ Holds(c) /\ state[c] \in States
  BY StepFinds
<1>2. pc[c] = "begin" /\ UNCHANGED <<metadata, runtimeVars, abandoned, countVars>>
  BY DEF Begin
<1>3. WorldTypes' /\ Rewrites(c)
  BY <1>1, <1>2 DEF WorldTypes, runtimeVars, countVars, Rewrites
<1>4. CASE ReturnError(c, state[c], FALSE)
  BY <1>1, <1>2, <1>3, <1>4, StillErrorKeeps
<1>5. CASE /\ state' = [state EXCEPT ![c] = "Connecting"] /\ pc' = [pc EXCEPT ![c] = "read"]
           /\ UNCHANGED <<op, site, tries, expired, snap, target, conn, lockVars>>
  <2>1. CallTypes'
    <3>1. "Connecting" \in States
      BY DEF States
    <3> QED BY <1>1, <1>5, <3>1 DEF CallTypes, lockVars
  <2>2. pc'[c] = "read" /\ Sees(c)' /\ Settles(c) /\ lock' = lock /\ owner' = owner
    BY <1>1, <1>2, <1>5 DEF CallTypes, Sees, Settles, lockVars, countVars
  <2> QED BY <1>2, <1>3, <1>5, <2>1, <2>2, CalmMoveKeeps DEF UnderLock, Outside
<1> QED BY <1>4, <1>5 DEF Begin

LEMMA ReadMetadataKeeps ==
  ASSUME ConnInv, NEW c \in Callers, ReadMetadata(c)
  PROVE  ConnInv'
<1>1. CallTypes /\ WorldTypes /\ Published(conn[c]) /\ Announced(metadata) /\ Holds(c)
  BY StepFinds
<1>2. pc[c] = "read" /\ UNCHANGED <<metadata, runtimeVars, abandoned, countVars>>
  BY DEF ReadMetadata
<1>3. WorldTypes' /\ Fades(c) /\ Rewrites(c) /\ abandoned' = abandoned /\ Alive' = Alive
  BY <1>1, <1>2, StillWorld DEF WorldTypes, runtimeVars, countVars
<1>4. Missing \notin Alive /\ Invalid \notin Alive
  BY MarksAreNoRuntimes DEF Alive
<1>5. CASE metadata = Missing /\ NoRuntime(c)
  BY <1>2, <1>3, <1>4, <1>5, NoRuntimeKeeps
<1>6. CASE metadata = Invalid /\ StaleRecord(c, metadata)
  <2>1. Published(metadata)
    BY <1>6, MarksAreNoRuntimes DEF Published, Announced, Listening
  <2> QED BY <1>2, <1>4, <1>6, <2>1, StaleRecordKeeps
<1>7. CASE LookFails(c, FALSE)
  BY <1>2, <1>7, LookFailsKeeps
<1>8. CASE /\ metadata \in Runtimes /\ pc' = [pc EXCEPT ![c] = "probe"] /\ snap' = [snap EXCEPT ![c] = metadata]
           /\ UNCHANGED <<op, site, tries, expired, target, state, conn, lockVars>>
  <2>1. CallTypes'
    BY <1>1, <1>8 DEF CallTypes, lockVars
  <2>2. /\ Alone(c) /\ pc'[c] = "probe" /\ snap'[c] = metadata /\ metadata' = metadata
        /\ conn' = conn /\ site' = site /\ lock' = lock /\ runtime' = runtime
    BY <1>1, <1>2, <1>8 DEF CallTypes, lockVars, Alone, runtimeVars
  <2>3. Holds(c)'
    BY <1>1, <2>2 DEF Holds, UnderLock, Outside
  <2>4. Sees(c)' /\ Settles(c)
    BY <1>2, <1>8, <2>2 DEF Sees, Settles
  <2>5. Published(snap[c])' /\ Published(conn[c])'
    BY <1>1, <2>2 DEF Published, Announced, Listening
  <2> QED BY <1>3, <2>1, <2>2, <2>3, <2>4, <2>5, OwnStepKeeps
<1> QED BY <1>5, <1>6, <1>7, <1>8 DEF ReadMetadata

(* A health check: only a runtime that serves answers it well, and only a  *)
(* record nobody listens under is taken for stale, for whoever listens     *)
(* exists and a hung one fails transiently.                                *)
LEMMA AnswersAre ==
  ASSUME NEW r \in Runtimes, NEW answer \in ProbeOutcomes(r), WorldTypes
  PROVE  /\ answer = "ok" => runtime[r] = "serving"
         /\ TimeoutIsTransient /\ runtime[r] \in {"serving", "hung"} => answer \in {"ok", "incompatible", "transient"}
         /\ answer \in {"ok", "incompatible", "transient", "absent", "other"}
         /\ \A exists \in PidExists(r) : exists \in BOOLEAN /\ (runtime[r] \in {"serving", "hung"} => exists = TRUE)
<1>1. \A exists \in PidExists(r) : exists \in BOOLEAN /\ (runtime[r] \in {"serving", "hung"} => exists = TRUE)
  BY DEF PidExists, Alive
<1>2. CASE runtime[r] = "serving"
  BY <1>1, <1>2 DEF ProbeOutcomes
<1>3. CASE runtime[r] = "hung"
  BY <1>1, <1>3 DEF ProbeOutcomes
<1>4. CASE runtime[r] \notin {"serving", "hung"}
  <2>1. ProbeOutcomes(r) = {"absent", "other", "incompatible", "transient"}
    BY <1>4 DEF ProbeOutcomes
  <2> QED BY <1>1, <1>4, <2>1
<1> QED BY <1>2, <1>3, <1>4

LEMMA ConnectedKeeps ==
  ASSUME ConnInv, NEW c \in Callers, NEW r \in Runtimes, Connected(c, r), metadata = r, Announced(r),
         UNCHANGED <<metadata, runtimeVars, abandoned, countVars>>, pc[c] \in {"probe", "ready"}
  PROVE  ConnInv'
<1>1. CallTypes /\ WorldTypes
  BY StepFinds
<1>2. Left(c) /\ conn'[c] = r
  BY <1>1, ConnectedLeaves
<1>3. WorldTypes' /\ Fades(c) /\ Rewrites(c) /\ metadata' = metadata /\ abandoned' = abandoned /\ runtime' = runtime
  BY <1>1, StillWorld DEF WorldTypes, runtimeVars, countVars
<1>4. Published(conn[c])'
  BY <1>2, <1>3 DEF Published, Announced, Listening
<1>5. Settles(c)
  BY DEF Settles
<1> QED BY <1>2, <1>3, <1>4, <1>5, LeavingKeeps

LEMMA ProbeKeeps ==
  ASSUME ConnInv, TimeoutIsTransient, NEW c \in Callers, Probe(c)
  PROVE  ConnInv'
<1>1. CallTypes /\ WorldTypes /\ Published(snap[c]) /\ Sees(c) /\ state[c] \in States
  BY StepFinds
<1>2. pc[c] = "probe" /\ UNCHANGED <<metadata, runtimeVars, abandoned, countVars>>
  BY DEF Probe
<1>3. PICK answer \in ProbeOutcomes(snap[c]), exists \in PidExists(snap[c]) :
         \/ answer = "ok" /\ Connected(c, snap[c])
         \/ /\ answer = "ok" /\ ~ValidTransition(state[c], "Connected")
            /\ ReturnError(c, state[c], FALSE)
         \/ /\ answer \in {"incompatible", "transient"} /\ exists
            /\ LookFails(c, answer = "transient")
         \/ /\ answer \in {"incompatible", "transient"} => ~exists
            /\ answer # "ok"
            /\ StaleRecord(c, snap[c])
  BY DEF Probe
<1>4. WorldTypes' /\ Rewrites(c)
  BY <1>1, <1>2 DEF WorldTypes, runtimeVars, countVars, Rewrites
<1>5. /\ snap[c] \in Runtimes /\ answer \in {"ok", "incompatible", "transient", "absent", "other"} /\ exists \in BOOLEAN
      /\ answer = "ok" => runtime[snap[c]] = "serving"
      /\ runtime[snap[c]] \in {"serving", "hung"} => answer \in {"ok", "incompatible", "transient"} /\ exists = TRUE
  BY <1>1, <1>2, AnswersAre DEF Sees
<1>6. CASE answer = "ok" /\ Connected(c, snap[c])
  <2>1. metadata = snap[c] /\ Announced(snap[c])
    BY <1>1, <1>5, <1>6 DEF Published, Listening
  <2> QED BY <1>2, <1>5, <1>6, <2>1, ConnectedKeeps
<1>7. CASE ReturnError(c, state[c], FALSE)
  BY <1>1, <1>2, <1>4, <1>7, StillErrorKeeps
<1>8. CASE LookFails(c, answer = "transient")
  <2>1. (answer = "transient") \in BOOLEAN
    OBVIOUS
  <2> QED BY <1>2, <1>8, <2>1, LookFailsKeeps
<1>9. CASE (answer \in {"incompatible", "transient"} => ~exists) /\ answer # "ok" /\ StaleRecord(c, snap[c])
  <2>1. runtime[snap[c]] \notin {"serving", "hung"}
    BY <1>5, <1>9
  <2>2. snap[c] \notin Alive
    BY <1>1, <1>5, <2>1 DEF Published, Announced, Alive
  <2>3. site[c] = "locked" => metadata \notin Alive
    BY <1>1, <1>2, <2>2 DEF Sees
  <2> QED BY <1>1, <1>2, <1>5, <1>9, <2>3, StaleRecordKeeps
<1> QED BY <1>3, <1>6, <1>7, <1>8, <1>9

LEMMA RemoveStaleKeeps ==
  ASSUME ConnInv, NEW c \in Callers, RemoveStale(c)
  PROVE  ConnInv'
<1>1. CallTypes /\ WorldTypes /\ Sees(c) /\ Holds(c) /\ Announced(metadata)
  BY StepFinds
<1>2. pc[c] = "remove" /\ UNCHANGED <<runtimeVars, abandoned, countVars>>
  BY DEF RemoveStale
<1>3. lock = c /\ site[c] = "locked" /\ metadata \notin Alive
  BY <1>1, <1>2 DEF Holds, Sees, UnderLock
<1>4. CASE LookFails(c, FALSE) /\ UNCHANGED metadata
  BY <1>2, <1>4, LookFailsKeeps
<1>5. CASE metadata' = (IF metadata = snap[c] THEN Missing ELSE metadata) /\ NoRuntime(c)
  <2>1. runtime' = runtime /\ Alive' = Alive /\ metadata' \in {Missing, metadata}
    BY <1>2, <1>5 DEF runtimeVars, Alive
  <2>2. metadata' \notin Alive /\ WorldTypes' /\ Rewrites(c)
    <3>1. Missing \notin Alive /\ metadata' \notin Alive
      BY <1>3, <2>1, MarksAreNoRuntimes DEF Alive
    <3>2. WorldTypes'
      BY <1>1, <1>2, <2>1 DEF WorldTypes, runtimeVars, countVars
    <3>3. Announced(metadata)'
      BY <1>1, <2>1, MarksAreNoRuntimes DEF Announced
    <3> QED BY <1>3, <2>1, <3>1, <3>2, <3>3 DEF Rewrites
  <2> QED BY <1>2, <1>5, <2>2, NoRuntimeKeeps
<1> QED BY <1>4, <1>5 DEF RemoveStale

-----------------------------------------------------------------------------
LEMMA TakeGuardKeeps ==
  ASSUME ConnInv, NEW c \in Callers, TakeGuard(c)
  PROVE  ConnInv'
<1>1. CallTypes /\ WorldTypes /\ Holds(c) /\ state[c] \in States /\ Failed(state[c]) \in States
  BY StepFinds
<1>2. pc[c] = "guard" /\ UNCHANGED <<metadata, runtimeVars, abandoned, countVars>>
  BY DEF TakeGuard
<1>3. WorldTypes' /\ Rewrites(c)
  BY <1>1, <1>2 DEF WorldTypes, runtimeVars, countVars, Rewrites
<1>4. CASE ReturnError(c, Failed(state[c]), FALSE)
  BY <1>1, <1>2, <1>3, <1>4, StillErrorKeeps
<1>5. CASE /\ guard' = [guard EXCEPT ![owner[c]] = c] /\ pc' = [pc EXCEPT ![c] = "lock"]
           /\ UNCHANGED <<op, site, tries, expired, snap, target, state, conn, lock>>
  <2>1. CallTypes'
    BY <1>1, <1>5 DEF CallTypes
  <2>2. pc'[c] = "lock" /\ Sees(c)' /\ Settles(c) /\ owner' = owner /\ site[c] # "locked"
    BY <1>1, <1>2, <1>5 DEF CallTypes, Sees, Settles, countVars, Holds, Outside
  <2> QED BY <1>2, <1>3, <1>5, <2>1, <2>2, CalmMoveKeeps DEF UnderLock
<1> QED BY <1>4, <1>5 DEF TakeGuard

LEMMA TakeLockKeeps ==
  ASSUME ConnInv, NEW c \in Callers, TakeLock(c)
  PROVE  ConnInv'
<1>1. /\ CallTypes /\ WorldTypes /\ Holds(c) /\ Published(snap[c]) /\ Published(conn[c])
      /\ state[c] \in States /\ Failed(state[c]) \in States
  BY StepFinds
<1>2. pc[c] = "lock" /\ UNCHANGED <<metadata, runtimeVars, abandoned, countVars>>
  BY DEF TakeLock
<1>3. WorldTypes' /\ Fades(c) /\ Rewrites(c) /\ abandoned' = abandoned /\ metadata' = metadata /\ runtime' = runtime
  BY <1>1, <1>2, StillWorld DEF WorldTypes, runtimeVars, countVars
<1>4. CASE ReturnError(c, Failed(state[c]), FALSE)
  BY <1>1, <1>2, <1>3, <1>4, StillErrorKeeps
<1>5. CASE /\ lock' = (IF lock = None THEN c ELSE lock)
           /\ site' = [site EXCEPT ![c] = IF lock = None THEN "locked" ELSE "contended"]
           /\ pc' = [pc EXCEPT ![c] = "read"]
           /\ UNCHANGED <<op, tries, expired, snap, target, state, conn, guard>>
  <2>1. CallTypes'
    BY <1>1, <1>5 DEF CallTypes
  <2>2. lock # c /\ None \notin Callers
    BY <1>1, <1>2, ConnectorAssumption DEF Holds, Outside
  <2>3. Alone(c) /\ pc'[c] = "read" /\ (lock' = c <=> site'[c] = "locked")
    BY <1>1, <1>5, <2>2 DEF CallTypes, Alone
  <2>4. Holds(c)' /\ Sees(c)' /\ Settles(c)
    BY <1>2, <2>3 DEF Holds, Sees, Settles, UnderLock, Outside
  <2>5. Published(snap[c])' /\ Published(conn[c])'
    BY <1>1, <1>3, <1>5 DEF Published, Announced, Listening
  <2> QED BY <1>3, <2>1, <2>3, <2>4, <2>5, OwnStepKeeps
<1> QED BY <1>4, <1>5 DEF TakeLock

(* The one step that starts a runtime: no other is alive that is known.    *)
LEMMA LaunchKeeps ==
  ASSUME ConnInv, NEW c \in Callers, Launch(c)
  PROVE  ConnInv'
<1>1. /\ CallTypes /\ WorldTypes /\ Holds(c) /\ Sees(c) /\ Published(snap[c]) /\ Published(conn[c])
      /\ Announced(metadata) /\ state[c] \in States /\ Failed(state[c]) \in States
  BY StepFinds
<1>2. pc[c] = "launch" /\ UNCHANGED <<metadata, abandoned, countVars>>
  BY DEF Launch
<1>3. CASE ReturnError(c, Failed(state[c]), FALSE) /\ UNCHANGED runtimeVars
  <2>1. WorldTypes' /\ Rewrites(c)
    BY <1>1, <1>2, <1>3 DEF WorldTypes, runtimeVars, countVars, Rewrites
  <2> QED BY <1>1, <1>2, <1>3, <2>1, StillErrorKeeps
<1>4. ASSUME NEW r \in Runtimes, NEW same \in BOOLEAN, runtime[r] = "unborn", runtime' = [runtime EXCEPT ![r] = "booting"],
             compatible' = [compatible EXCEPT ![r] = same], target' = [target EXCEPT ![c] = r],
             pc' = [pc EXCEPT ![c] = "announce"], UNCHANGED <<op, site, tries, expired, snap, state, conn, lockVars>>
      PROVE  ConnInv'
  <2>1. CallTypes'
    BY <1>1, <1>4 DEF CallTypes, lockVars
  <2>2. WorldTypes'
    BY <1>1, <1>2, <1>4 DEF WorldTypes, countVars
  <2>3. /\ Alone(c) /\ pc'[c] = "announce" /\ target'[c] = r /\ snap' = snap /\ conn' = conn /\ site' = site /\ lock' = lock
        /\ runtime'[r] = "booting" /\ (\A q \in Runtimes \ {r} : runtime'[q] = runtime[q])
    BY <1>1, <1>4 DEF CallTypes, WorldTypes, lockVars, Alone
  <2>4. Fades(c) /\ Rewrites(c) /\ Settles(c) /\ Holds(c)'
    BY <1>1, <1>2, <1>4, <2>3 DEF Fades, Rewrites, Settles, Holds, UnderLock, Outside
  <2>5. metadata \notin Alive' /\ Sees(c)'
    BY <1>1, <1>2, <1>4, <2>3 DEF Sees, Alive, Announced
  <2>6. Published(snap[c])' /\ Published(conn[c])'
    BY <1>1, <1>2, <1>4, <2>3 DEF Published, Announced, Listening
  <2> QED BY <1>2, <2>1, <2>2, <2>3, <2>4, <2>5, <2>6, OwnStepKeeps
<1> QED BY <1>3, <1>4 DEF Launch

(* A call that gives up its start has stopped what it started.             *)
LEMMA GiveUpKeeps ==
  ASSUME ConnInv, NEW c \in Callers, NEW s \in States, ReturnError(c, s, FALSE), WorldTypes', abandoned' = abandoned,
         Fades(c), Rewrites(c), pc[c] \in {"announce", "publish"} => target[c] \notin Alive'
  PROVE  ConnInv'
<1>1. CallTypes /\ Published(conn[c])
  BY StepFinds
<1>2. Left(c) /\ conn' = conn
  BY <1>1, ErrorLeaves
<1>3. Published(conn[c])'
  <2>1. Announced(conn[c])' /\ (Listening(conn[c])' => Listening(conn[c]) /\ conn'[c] \in Alive')
    BY <1>1, <1>2 DEF Fades, Published, Announced, Listening, Alive
  <2>2. Listening(conn[c])' => metadata' = conn'[c]
    BY <1>1, <1>2, <2>1 DEF Published, Rewrites
  <2> QED BY <2>1, <2>2 DEF Published
<1>4. Settles(c)
  BY DEF Settles
<1> QED BY <1>2, <1>3, <1>4, LeavingKeeps

LEMMA AnnouncementKeeps ==
  ASSUME ConnInv, NEW c \in Callers, Announcement(c)
  PROVE  ConnInv'
<1>1. /\ CallTypes /\ WorldTypes /\ Holds(c) /\ Sees(c) /\ state[c] \in States /\ Failed(state[c]) \in States
  BY StepFinds
<1>2. pc[c] = "announce" /\ UNCHANGED <<metadata, compatible, abandoned, countVars>> /\ target[c] \in Runtimes
  BY <1>1 DEF Announcement, Sees
<1>3. site[c] = "locked" /\ metadata \notin Alive
  BY <1>1, <1>2 DEF Holds, Sees, UnderLock
<1>4. CASE /\ runtime[target[c]] \in {"serving", "hung", "dead"} /\ pc' = [pc EXCEPT ![c] = "publish"]
           /\ UNCHANGED <<op, site, tries, expired, snap, target, state, conn, lockVars, runtime>>
  <2>1. CallTypes' /\ WorldTypes'
    BY <1>1, <1>2, <1>4 DEF CallTypes, WorldTypes, lockVars, countVars
  <2>2. pc'[c] = "publish" /\ target' = target /\ lock' = lock /\ owner' = owner /\ Alive' = Alive
    BY <1>1, <1>2, <1>4 DEF CallTypes, lockVars, countVars, Alive
  <2>3. Sees(c)' /\ Settles(c)
    BY <1>1, <1>2, <1>3, <1>4, <2>2 DEF Sees, Settles, Announced
  <2> QED BY <1>2, <1>3, <1>4, <2>1, <2>2, <2>3, CalmMoveKeeps DEF UnderLock, Outside, runtimeVars
<1>5. CASE /\ runtime[target[c]] \in {"booting", "stillborn"} /\ runtime' = [runtime EXCEPT ![target[c]] = "stillborn"]
           /\ ReturnError(c, Failed(state[c]), FALSE)
  <2>1. WorldTypes' /\ Fades(c) /\ Rewrites(c)
    BY <1>1, <1>2, <1>5 DEF WorldTypes, countVars, Fades, Rewrites
  <2>2. target[c] \notin Alive'
    BY <1>1, <1>2, <1>5 DEF WorldTypes, Alive
  <2> QED BY <1>1, <1>2, <1>5, <2>1, <2>2, GiveUpKeeps
<1> QED BY <1>4, <1>5 DEF Announcement

(* terminate_and_reap of a runtime that has announced itself.              *)
LEMMA TerminatedIsDead ==
  ASSUME WorldTypes, NEW c, NEW r \in Runtimes, Announced(r), runtime' = Terminated(r)
  PROVE  /\ runtime' \in [Runtimes -> {"unborn", "booting", "serving", "hung", "dead", "stillborn"}]
         /\ Fades(c) /\ r \notin Alive'
<1>1. runtime' = [runtime EXCEPT ![r] = "dead"]
  BY DEF WorldTypes, Announced, Terminated
<1> QED BY <1>1 DEF WorldTypes, Announced, Fades, Alive

LEMMA PublishKeeps ==
  ASSUME ConnInv, NEW c \in Callers, Publish(c)
  PROVE  ConnInv'
<1>1. /\ CallTypes /\ WorldTypes /\ Holds(c) /\ Sees(c) /\ Published(snap[c]) /\ Published(conn[c])
      /\ state[c] \in States /\ Failed(state[c]) \in States
  BY StepFinds
<1>2. /\ pc[c] = "publish" /\ UNCHANGED <<compatible, abandoned, countVars>>
      /\ target[c] \in Runtimes /\ Announced(target[c])
  BY <1>1 DEF Publish, Sees
<1>3. site[c] = "locked" /\ lock = c /\ metadata \notin Alive
  BY <1>1, <1>2 DEF Holds, Sees, UnderLock
<1>4. CASE runtime' = Terminated(target[c]) /\ ReturnError(c, Failed(state[c]), FALSE) /\ UNCHANGED metadata
  <2>1. WorldTypes' /\ Fades(c) /\ Rewrites(c) /\ target[c] \notin Alive'
    BY <1>1, <1>2, <1>4, TerminatedIsDead DEF WorldTypes, countVars, Rewrites
  <2> QED BY <1>1, <1>2, <1>4, <2>1, GiveUpKeeps
<1>5. ASSUME NEW to \in {"ready", "stop"}, pc' = [pc EXCEPT ![c] = to], state' \in [Callers -> States],
             metadata' = target[c], expired' = [expired EXCEPT ![c] = FALSE],
             UNCHANGED <<op, site, tries, snap, target, conn, lockVars, runtime>>
      PROVE  ConnInv'
  <2>1. CallTypes' /\ WorldTypes'
    BY <1>1, <1>2, <1>5 DEF CallTypes, WorldTypes, lockVars, countVars
  <2>2. /\ Alone(c) /\ pc'[c] = to /\ lock' = lock /\ Alive' = Alive
    BY <1>1, <1>5 DEF CallTypes, lockVars, Alone, Alive
  <2>3. Fades(c) /\ Rewrites(c) /\ Settles(c)
    BY <1>2, <1>3, <1>5, <2>2 DEF Fades, Rewrites, Settles, Announced
  <2>4. Holds(c)' /\ Sees(c)'
    BY <1>2, <1>3, <1>5, <2>2 DEF Holds, Sees, UnderLock, Outside
  <2>5. ASSUME NEW x, Published(x) PROVE Announced(x)' /\ ~Listening(x)'
    BY <1>3, <1>5, <2>5 DEF Published, Announced, Listening, Alive
  <2>6. Published(snap[c])' /\ Published(conn[c])'
    BY <1>1, <1>5, <2>5 DEF Published, Announced, Listening
  <2> QED BY <1>2, <2>1, <2>2, <2>3, <2>4, <2>6, OwnStepKeeps
<1>6. CASE /\ metadata' = target[c] /\ expired' = [expired EXCEPT ![c] = FALSE]
           /\ IF ValidTransition(state[c], "Connecting")
              THEN /\ state' = [state EXCEPT ![c] = "Connecting"]
                   /\ pc' = [pc EXCEPT ![c] = "ready"]
              ELSE /\ pc' = [pc EXCEPT ![c] = "stop"]
                   /\ UNCHANGED state
           /\ UNCHANGED <<op, site, tries, snap, target, conn, lockVars, runtime>>
  <2>1. state' \in [Callers -> States]
    <3>1. "Connecting" \in States
      BY DEF States
    <3> QED BY <1>1, <1>6, <3>1 DEF CallTypes
  <2> QED BY <1>5, <1>6, <2>1
<1> QED BY <1>4, <1>6 DEF Publish

(* The wait for the new runtime, its end, and the way back.                *)
LEMMA StopKeeps ==
  ASSUME ConnInv, NEW c \in Callers, pc[c] = "ready", pc' = [pc EXCEPT ![c] = "stop"], state' \in [Callers -> States],
         UNCHANGED <<op, site, tries, expired, snap, target, conn, lockVars, metadata, runtimeVars, abandoned, countVars>>
  PROVE  ConnInv'
<1>1. CallTypes /\ WorldTypes /\ Holds(c) /\ Sees(c)
  BY StepFinds
<1>2. CallTypes' /\ WorldTypes'
  BY <1>1 DEF CallTypes, WorldTypes, lockVars, runtimeVars, countVars
<1>3. pc'[c] = "stop" /\ site[c] = "locked" /\ lock' = lock /\ owner' = owner
  BY <1>1 DEF CallTypes, Holds, UnderLock, lockVars, countVars
<1>4. Sees(c)' /\ Settles(c)
  BY <1>1, <1>3 DEF Sees, Settles
<1> QED BY <1>2, <1>3, <1>4, CalmMoveKeeps DEF UnderLock, Outside

LEMMA ReadyKeeps ==
  ASSUME ConnInv, NEW c \in Callers, Ready(c)
  PROVE  ConnInv'
<1>1. /\ CallTypes /\ WorldTypes /\ Sees(c) /\ Announced(metadata) /\ state[c] \in States /\ Failed(state[c]) \in States
  BY StepFinds
<1>2. /\ pc[c] = "ready" /\ UNCHANGED <<metadata, runtimeVars, abandoned, countVars>>
      /\ target[c] \in Runtimes /\ metadata = target[c]
  BY <1>1 DEF Ready, Sees
<1>3. WorldTypes' /\ Rewrites(c)
  BY <1>1, <1>2 DEF WorldTypes, runtimeVars, countVars, Rewrites
<1>4. CASE Connected(c, target[c])
  BY <1>1, <1>2, <1>4, ConnectedKeeps
<1>5. CASE ReturnError(c, Failed(state[c]), FALSE)
  BY <1>1, <1>2, <1>3, <1>5, StillErrorKeeps
<1>6. CASE /\ pc' = [pc EXCEPT ![c] = "stop"] /\ (state' = state \/ state' = [state EXCEPT ![c] = Failed(@)])
           /\ UNCHANGED <<op, site, tries, expired, snap, target, conn, lockVars>>
  <2>1. state' \in [Callers -> States]
    BY <1>1, <1>6 DEF CallTypes
  <2> QED BY <1>2, <1>6, <2>1, StopKeeps
<1> QED BY <1>4, <1>5, <1>6 DEF Ready

LEMMA ReadyTimeoutKeeps ==
  ASSUME ConnInv, NEW c \in Callers, ReadyTimeout(c)
  PROVE  ConnInv'
<1>1. CallTypes /\ state[c] \in States /\ Failed(state[c]) \in States
  BY StepFinds
<1>2. state' \in [Callers -> States]
  BY <1>1 DEF ReadyTimeout, CallTypes
<1> QED BY <1>2, StopKeeps DEF ReadyTimeout

LEMMA StopChildKeeps ==
  ASSUME ConnInv, NEW c \in Callers, StopChild(c)
  PROVE  ConnInv'
<1>1. /\ CallTypes /\ WorldTypes /\ Holds(c) /\ Sees(c) /\ Announced(metadata) /\ Published(snap[c]) /\ Published(conn[c])
  BY StepFinds
<1>2. /\ pc[c] = "stop" /\ runtime' = Terminated(target[c]) /\ pc' = [pc EXCEPT ![c] = "unpublish"]
      /\ UNCHANGED <<op, site, tries, expired, snap, target, state, conn, lockVars, metadata, compatible, abandoned, countVars>>
  BY DEF StopChild
<1>3. target[c] \in Runtimes /\ metadata = target[c] /\ Announced(target[c]) /\ site[c] = "locked"
  BY <1>1, <1>2 DEF Sees, Holds, UnderLock
<1>4. WorldTypes' /\ Fades(c) /\ target[c] \notin Alive'
  BY <1>1, <1>2, <1>3, TerminatedIsDead DEF WorldTypes, countVars
<1>5. CallTypes' /\ Alone(c) /\ pc'[c] = "unpublish" /\ lock' = lock
  BY <1>1, <1>2 DEF CallTypes, Alone, lockVars
<1>6. Rewrites(c) /\ Settles(c) /\ Holds(c)' /\ Sees(c)'
  BY <1>1, <1>2, <1>3, <1>4, <1>5 DEF Rewrites, Settles, Holds, Sees, UnderLock, Outside
<1>7. ASSUME NEW x, Published(x) PROVE Announced(x)' /\ (Listening(x)' => metadata' = x)
  BY <1>2, <1>4, <1>5, <1>7 DEF Published, Announced, Listening, Fades
<1>8. Published(snap[c])' /\ Published(conn[c])'
  BY <1>1, <1>2, <1>7 DEF Published, Announced, Listening
<1> QED BY <1>2, <1>4, <1>5, <1>6, <1>8, OwnStepKeeps

LEMMA UnpublishKeeps ==
  ASSUME ConnInv, NEW c \in Callers, Unpublish(c)
  PROVE  ConnInv'
<1>1. /\ CallTypes /\ WorldTypes /\ Holds(c) /\ Sees(c) /\ state[c] \in States
  BY StepFinds
<1>2. /\ pc[c] = "unpublish" /\ metadata' = (IF metadata = target[c] THEN Missing ELSE metadata)
      /\ ReturnError(c, state[c], FALSE) /\ UNCHANGED <<runtimeVars, abandoned, countVars>>
  BY DEF Unpublish
<1>3. metadata' = Missing /\ metadata \notin Alive /\ lock = c
  BY <1>1, <1>2 DEF Sees, Holds, UnderLock
<1>4. WorldTypes'
  BY <1>1, <1>2, <1>3 DEF WorldTypes, runtimeVars, countVars
<1>5. Rewrites(c)
  BY <1>2, <1>3, MarksAreNoRuntimes DEF Rewrites, Announced, Alive, runtimeVars
<1> QED BY <1>1, <1>2, <1>4, <1>5, StillErrorKeeps

-----------------------------------------------------------------------------
(* Clocks, disconnect() and UNCHANGED.                                     *)
LEMMA AsideKeeps ==
  ASSUME ConnInv, NEW c \in Callers, CallTypes',
         UNCHANGED <<pc, op, site, snap, target, lockVars, metadata, runtimeVars, abandoned, countVars>>,
         conn' = conn \/ conn' = [conn EXCEPT ![c] = Missing]
  PROVE  ConnInv'
<1>1. CallTypes /\ WorldTypes /\ Holds(c) /\ Sees(c)
  BY StepFinds
<1>2. pc' = [pc EXCEPT ![c] = pc[c]] /\ lock' = lock /\ owner' = owner
  BY <1>1 DEF CallTypes, lockVars, countVars
<1>3. WorldTypes' /\ Sees(c)' /\ Settles(c)
  BY <1>1 DEF WorldTypes, Sees, Settles, Announced, Alive, runtimeVars, countVars
<1> QED BY <1>1, <1>2, <1>3, CalmMoveKeeps DEF Holds

LEMMA DeadlinePassesKeeps ==
  ASSUME ConnInv, NEW c \in Callers, DeadlinePasses(c)
  PROVE  ConnInv'
<1>1. CallTypes
  BY StepFinds
<1>2. CallTypes'
  BY <1>1 DEF CallTypes, DeadlinePasses, lockVars
<1> QED BY <1>2, AsideKeeps DEF DeadlinePasses

LEMMA DisconnectKeeps ==
  ASSUME ConnInv, NEW c \in Callers, Disconnect(c)
  PROVE  ConnInv'
<1>1. CallTypes
  BY StepFinds
<1>2. CallTypes'
  BY <1>1 DEF CallTypes, Disconnect, callVars, lockVars, States
<1> QED BY <1>2, AsideKeeps DEF Disconnect, callVars

(* A client process dies: what it was about to publish is abandoned.       *)
LEMMA CrashKeeps ==
  ASSUME ConnInv, NEW p \in Processes, Crash(p)
  PROVE  ConnInv'
<1> DEFINE gone == {c \in Callers : owner[c] = p /\ pc[c] # "crashed"}
<1>1. /\ CallTypes /\ WorldTypes /\ LockIsHeld /\ NumbersAreKnown /\ StarterSees /\ LivingAreKnown
  BY TypesAre DEF ConnInv
<1>2. /\ crashes < MaxCrashes /\ crashes' = crashes + 1
      /\ pc' = [c \in Callers |-> IF c \in gone THEN "crashed" ELSE pc[c]]
      /\ conn' = [c \in Callers |-> IF c \in gone THEN Missing ELSE conn[c]]
      /\ guard' = [guard EXCEPT ![p] = None]
      /\ lock' = (IF lock \in gone THEN None ELSE lock)
      /\ abandoned' = abandoned \cup {target[c] : c \in {d \in gone : pc[d] \in {"announce", "publish"}}}
      /\ site' = [c \in Callers |-> IF c \in gone THEN "first" ELSE site[c]]
      /\ tries' = [c \in Callers |-> IF c \in gone THEN 0 ELSE tries[c]]
      /\ expired' = [c \in Callers |-> c \notin gone /\ expired[c]]
      /\ snap' = [c \in Callers |-> IF c \in gone THEN Missing ELSE snap[c]]
      /\ target' = [c \in Callers |-> IF c \in gone THEN Missing ELSE target[c]]
      /\ state' = [c \in Callers |-> IF c \in gone THEN "Disconnected" ELSE state[c]]
      /\ UNCHANGED <<op, metadata, runtimeVars, owner, calls>>
  BY DEF Crash
<1>3. gone \subseteq Callers /\ None \notin Callers
  BY ConnectorAssumption
<1> HIDE DEF gone
<1>4. metadata' = metadata /\ runtime' = runtime /\ Alive' = Alive
  BY <1>2 DEF runtimeVars, Alive
<1>5. \A c \in Callers : IF c \in gone
        THEN pc'[c] = "crashed" /\ conn'[c] = Missing /\ site'[c] = "first" /\ snap'[c] = Missing
        ELSE pc'[c] = pc[c] /\ conn'[c] = conn[c] /\ site'[c] = site[c] /\ snap'[c] = snap[c] /\ target'[c] = target[c]
  BY <1>2, <1>3
<1>6. TypeOK'
  <2>1. ReconnectRetries \in Nat /\ MaxCrashes \in Nat /\ "Disconnected" \in States
    BY ConnectorAssumption DEF States
  <2>2. /\ pc' \in [Callers -> {"idle", "begin", "read", "probe", "remove", "guard", "lock",
                               "launch", "announce", "publish", "ready", "stop", "unpublish", "crashed"}]
        /\ site' \in [Callers -> {"first", "contended", "locked"}] /\ expired' \in [Callers -> BOOLEAN]
    BY <1>1, <1>2 DEF CallTypes
  <2>3. /\ snap' \in [Callers -> {Missing, Invalid} \cup Runtimes] /\ target' \in [Callers -> {Missing} \cup Runtimes]
        /\ conn' \in [Callers -> {Missing} \cup Runtimes]
    BY <1>1, <1>2 DEF CallTypes
  <2>4. tries' \in [Callers -> 0 .. ReconnectRetries] /\ state' \in [Callers -> States]
    BY <1>1, <1>2, <2>1 DEF CallTypes
  <2>5. CallTypes'
    BY <1>1, <1>2, <2>2, <2>3, <2>4 DEF CallTypes
  <2>6. {target[c] : c \in {d \in gone : pc[d] \in {"announce", "publish"}}} \subseteq Runtimes
    BY <1>1, <1>3 DEF StarterSees, Sees
  <2>7. WorldTypes'
    BY <1>1, <1>2, <2>1, <2>6 DEF WorldTypes, runtimeVars
  <2> QED BY <2>5, <2>7 DEF TypeOK, CallTypes, WorldTypes
<1>7. LockIsHeld'
  <2> SUFFICES ASSUME NEW c \in Callers PROVE Holds(c)'
    BY DEF LockIsHeld, Holds
  <2>1. Holds(c)
    BY <1>1 DEF LockIsHeld, Holds
  <2>2. CASE c \in gone
    BY <1>2, <1>3, <1>5, <2>2 DEF Holds, UnderLock, Outside
  <2>3. CASE c \notin gone
    <3>1. lock' = c <=> lock = c
      BY <1>2, <1>3, <2>3
    <3> QED BY <1>5, <2>1, <2>3, <3>1 DEF Holds
  <2> QED BY <2>2, <2>3
<1>8. NumbersAreKnown'
  <2> SUFFICES ASSUME NEW c \in Callers PROVE Published(snap[c])' /\ Published(conn[c])'
    BY <1>1, <1>4 DEF NumbersAreKnown, Announced
  <2>1. snap'[c] \in {snap[c], Missing} /\ conn'[c] \in {conn[c], Missing} /\ Published(snap[c]) /\ Published(conn[c])
    BY <1>1, <1>5 DEF NumbersAreKnown
  <2> QED BY <1>4, <2>1, MarksAreNoRuntimes DEF Published, Announced, Listening
<1>9. StarterSees'
  <2> SUFFICES ASSUME NEW c \in Callers PROVE Sees(c)'
    BY DEF StarterSees
  <2>1. Sees(c)
    BY <1>1 DEF StarterSees
  <2> QED BY <1>4, <1>5, <2>1 DEF Sees, Announced
<1>10. LivingAreKnown'
  <2> SUFFICES ASSUME NEW r \in Alive \ abandoned'
               PROVE  r = metadata \/ \E c \in Callers : pc'[c] \in {"announce", "publish"} /\ r = target'[c]
    BY <1>4 DEF LivingAreKnown
  <2>1. CASE r = metadata
    BY <2>1
  <2>2. CASE r # metadata
    <3>1. PICK c \in Callers : pc[c] \in {"announce", "publish"} /\ r = target[c]
      BY <1>1, <1>2, <2>2 DEF LivingAreKnown
    <3>2. c \notin gone
      BY <1>2, <3>1
    <3> QED BY <1>5, <3>1, <3>2
  <2> QED BY <2>1, <2>2
<1> QED BY <1>6, <1>7, <1>8, <1>9, <1>10 DEF ConnInv

(* A step of a runtime: it begins to serve, stops or resumes answering, or *)
(* is gone.                                                                *)
LEMMA RuntimeKeeps ==
  ASSUME ConnInv, NEW r \in Runtimes,
         \/ RuntimeServes(r) \/ RuntimeHangs(r) \/ RuntimeResumes(r) \/ RuntimeFailsToBind(r) \/ RuntimeExits(r)
  PROVE  ConnInv'
<1>1. CallTypes /\ WorldTypes /\ LockIsHeld /\ NumbersAreKnown /\ StarterSees /\ LivingAreKnown
  BY TypesAre DEF ConnInv
<1>2. UNCHANGED <<pc, op, site, tries, expired, snap, target, state, conn, guard, lock, metadata, compatible, abandoned,
                  owner, calls, crashes>>
  BY DEF RuntimeServes, RuntimeHangs, RuntimeResumes, RuntimeFailsToBind, RuntimeExits, RuntimeStep,
         callVars, lockVars, countVars
<1>3. PICK to \in {"serving", "hung", "dead", "stillborn"} :
         /\ runtime' = [runtime EXCEPT ![r] = to]
         /\ to = "stillborn" => runtime[r] = "booting"
         /\ to # "stillborn" => runtime[r] \in {"booting", "serving", "hung"}
         /\ runtime[r] = "booting" => to \in {"serving", "stillborn"}
  BY DEF RuntimeServes, RuntimeHangs, RuntimeResumes, RuntimeFailsToBind, RuntimeExits, RuntimeStep
<1>4. runtime'[r] = to /\ \A q \in Runtimes \ {r} : runtime'[q] = runtime[q]
  BY <1>1, <1>3 DEF WorldTypes
<1>5. TypeOK'
  <2>1. WorldTypes'
    BY <1>1, <1>2, <1>3 DEF WorldTypes
  <2>2. CallTypes'
    BY <1>1, <1>2 DEF CallTypes
  <2> QED BY <2>1, <2>2 DEF TypeOK, CallTypes, WorldTypes
<1>6. \A q : Announced(q) => Announced(q)' /\ (Listening(q)' => Listening(q))
  BY <1>3, <1>4 DEF Announced, Listening
<1>7. Alive' \subseteq Alive
  BY <1>3, <1>4 DEF Alive
<1>8. LockIsHeld'
  BY <1>1, <1>2 DEF LockIsHeld
<1>9. NumbersAreKnown'
  <2>1. ASSUME NEW c \in Callers PROVE Published(snap[c])' /\ Published(conn[c])'
    <3>1. Published(snap[c]) /\ Published(conn[c])
      BY <1>1 DEF NumbersAreKnown
    <3> QED BY <1>2, <1>6, <3>1 DEF Published, Announced, Listening
  <2>2. Announced(metadata)'
    BY <1>1, <1>2, <1>6 DEF NumbersAreKnown, Announced
  <2> QED BY <2>1, <2>2 DEF NumbersAreKnown
<1>10. StarterSees'
  <2> SUFFICES ASSUME NEW c \in Callers PROVE Sees(c)'
    BY DEF StarterSees
  <2>1. Sees(c)
    BY <1>1 DEF StarterSees
  <2>2. Announced(target[c]) => Announced(target[c])'
    BY <1>2, <1>6 DEF Announced
  <2> QED BY <1>2, <1>7, <2>1, <2>2 DEF Sees
<1>11. LivingAreKnown'
  BY <1>1, <1>2, <1>7 DEF LivingAreKnown
<1> QED BY <1>5, <1>8, <1>9, <1>10, <1>11 DEF ConnInv

-----------------------------------------------------------------------------
LEMMA ConnInitInv == Init => ConnInv
<1> SUFFICES ASSUME Init PROVE ConnInv
  OBVIOUS
<1>1. {ReconnectRetries, MaxRuntimes, MaxCalls, MaxCrashes} \subseteq Nat /\ None \notin Callers
  BY ConnectorAssumption
<1>2. Alive = {} /\ \A c \in Callers : pc[c] = "idle" /\ site[c] = "first" /\ snap[c] = Missing /\ conn[c] = Missing
  BY DEF Init, Alive
<1>3. TypeOK
  BY <1>1 DEF Init, TypeOK, States
<1>4. LockIsHeld
  BY <1>1, <1>2 DEF Init, LockIsHeld, UnderLock
<1>5. NumbersAreKnown
  BY <1>2, MarksAreNoRuntimes DEF Init, NumbersAreKnown, Published, Announced, Listening
<1>6. StarterSees /\ LivingAreKnown
  BY <1>2 DEF StarterSees, Sees, LivingAreKnown
<1> QED BY <1>3, <1>4, <1>5, <1>6 DEF ConnInv

LEMMA ConnNextKeeps ==
  ASSUME TimeoutIsTransient, ConnInv, [Next]_vars
  PROVE  ConnInv'
<1>1. ASSUME NEW c \in Callers, CallStep(c) PROVE ConnInv'
  BY <1>1, BeginKeeps, ReadMetadataKeeps, ProbeKeeps, RemoveStaleKeeps, TakeGuardKeeps, TakeLockKeeps, LaunchKeeps,
     AnnouncementKeeps, PublishKeeps, ReadyKeeps, ReadyTimeoutKeeps, StopChildKeeps, UnpublishKeeps DEF CallStep
<1>2. ASSUME NEW c \in Callers, Call(c) \/ DeadlinePasses(c) \/ Disconnect(c) PROVE ConnInv'
  BY <1>2, CallKeeps, DeadlinePassesKeeps, DisconnectKeeps
<1>3. ASSUME NEW p \in Processes, Crash(p) PROVE ConnInv'
  BY <1>3, CrashKeeps
<1>4. CASE UNCHANGED vars
  BY <1>4 DEF vars, callVars, lockVars, runtimeVars, countVars, ConnInv, TypeOK, LockIsHeld, NumbersAreKnown, StarterSees,
              LivingAreKnown, Published, Announced, Listening, Alive, Sees
<1> QED BY <1>1, <1>2, <1>3, <1>4, RuntimeKeeps DEF Next

(* The lock's holder is the only starter, so at most one runtime lives     *)
(* that is known, and it is the one the metadata names once it has clients. *)
LEMMA SharedFollows == ConnInv => SharedRuntime
<1> SUFFICES ASSUME ConnInv PROVE SharedRuntime
  OBVIOUS
<1>1. ConnectedIsPublished
  BY DEF ConnInv, NumbersAreKnown, Published, ConnectedIsPublished
<1>2. OneRuntime
  <2>1. PICK x : Alive \ abandoned \subseteq {x}
    <3>1. CASE \E c \in Callers : pc[c] \in {"announce", "publish"}
      <4>1. PICK c \in Callers : pc[c] \in {"announce", "publish"}
        BY <3>1
      <4>2. metadata \notin Alive /\ lock = c
        BY <4>1 DEF ConnInv, StarterSees, Sees, LockIsHeld, UnderLock
      <4>3. \A d \in Callers : pc[d] \in {"announce", "publish"} => d = c
        BY <4>2 DEF ConnInv, LockIsHeld, UnderLock
      <4>4. Alive \ abandoned \subseteq {target[c]}
        BY <4>2, <4>3 DEF ConnInv, LivingAreKnown
      <4> QED BY <4>4
    <3>2. CASE ~\E c \in Callers : pc[c] \in {"announce", "publish"}
      <4>1. Alive \ abandoned \subseteq {metadata}
        BY <3>2 DEF ConnInv, LivingAreKnown
      <4> QED BY <4>1
    <3> QED BY <3>1, <3>2
  <2>2. IsFiniteSet({x}) /\ Cardinality({x}) = 1
    BY FS_Singleton
  <2>3. Cardinality(Alive \ abandoned) <= Cardinality({x})
    BY <2>1, <2>2, FS_Subset
  <2> QED BY <2>2, <2>3 DEF OneRuntime
<1> QED BY <1>1, <1>2 DEF SharedRuntime, ConnInv

(* However clients race, give up, time out, are disconnected or killed in  *)
(* the middle of a start, a workspace has one runtime, and a client is     *)
(* connected to the one the metadata names: provided that a health check   *)
(* that times out counts as transient (is_transient_probe_error), as it    *)
(* does with the error texts of Windows (connect_or_start).                *)
THEOREM RuntimeShared ==
  ASSUME TimeoutIsTransient = TRUE
  PROVE  Spec => []SharedRuntime
<1>1. Init => ConnInv
  BY ConnInitInv
<1>2. ConnInv /\ [Next]_vars => ConnInv'
  BY ConnNextKeeps
<1>3. ConnInv => SharedRuntime
  BY SharedFollows
<1> QED BY <1>1, <1>2, <1>3, PTL DEF Spec
=============================================================================
