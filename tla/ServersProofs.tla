---------------------------- MODULE ServersProofs ----------------------------
(***************************************************************************)
(* Proofs about the servers beside the run: the entry of an MCP server,    *)
(* for any operations and tool lists, and a human terminal, for any number *)
(* of close calls and any output.                                          *)
(***************************************************************************)
EXTENDS Terminals, Mcp, SequenceTheorems, WellFoundedInduction, TLAPS

Holding == {"connecting", "pages", "request", "waiting", "disconnect", "dropping", "closing"}
Marks == {"Failed", "Disconnected"}
Pcs == Holding \cup {"idle", "lock", "record", "done"}
Results == {"none", "refused", "failed", "cancelled", "unknown tool", "ok"}
OpRecords == [kind : McpKinds \cup {"none"}, pc : Pcs, page : Nat, mark : Marks \cup {"none"}, result : Results]

McpTypeOK ==
  /\ mstate \in {"Disconnected", "Connecting", "Connected", "Failed"}
  /\ merror \in BOOLEAN
  /\ created \in Nat /\ client \in 0 .. created
  /\ transports \subseteq 1 .. created
  /\ mlock \in McpOps \cup {"free"}
  /\ mop \in [McpOps -> OpRecords]
  /\ sent \in [McpOps -> Nat]

(* The entry's mutex: an operation that is between lock and release holds it. *)
LockIsHeld == \A o \in McpOps : (mlock = o) = (mop[o].pc \in Holding)

NoRecord == \A o \in McpOps : ~At(o, "record")
Settled ==
  /\ mstate # "Connecting"
  /\ (mstate = "Connected") = (client # 0)
  /\ merror = (mstate = "Failed")

(* What the holder of the entry relies on. *)
HolderSees ==
  \A o \in McpOps :
    /\ At(o, "connecting") => client = 0 /\ ~merror
    /\ mop[o].pc \in {"dropping", "closing"} => client = 0
    /\ mop[o].pc \in {"pages", "request", "waiting"} => client # 0
    /\ mop[o].pc \in {"pages", "request", "waiting", "disconnect"} /\ NoRecord => Settled
    /\ mop[o].pc \in {"record", "closing"} => mop[o].mark \in Marks

(* How often a call was sent, by where it is. *)
SentOnce ==
  \A o \in McpOps :
    /\ mop[o].pc \in {"idle", "lock", "connecting", "pages", "request", "disconnect", "dropping"} => sent[o] = 0
    /\ sent[o] <= 1
    /\ At(o, "waiting") /\ mop[o].kind = "call" => sent[o] = 1
    /\ mop[o].result = "ok" => At(o, "done")
    /\ At(o, "disconnect") => mop[o].kind = "disconnect"

McpInv == McpTypeOK /\ LockIsHeld /\ HolderSees /\ SentOnce /\ EntryIsSound

(* An entry that was never used is in the inductive invariant.             *)
LEMMA McpInitInv == McpInit => McpInv
<1> SUFFICES ASSUME McpInit PROVE McpInv
  OBVIOUS
<1>1. /\ mop \in [McpOps -> OpRecords]
      /\ \A o \in McpOps : mop[o].pc = "idle" /\ mop[o].result = "none"
  BY DEF McpInit, OpRecords, Pcs, Results
<1>2. /\ mstate = "Disconnected" /\ merror = FALSE /\ client = 0 /\ mlock = "free"
      /\ transports = {} /\ told = {} /\ created = 0 /\ sent = [o \in McpOps |-> 0]
  BY DEF McpInit
<1>3. McpTypeOK
  <2>1. client \in 0 .. created /\ transports \subseteq 1 .. created
    BY <1>2
  <2>2. sent \in [McpOps -> Nat]
    BY <1>2
  <2> QED BY <1>1, <1>2, <2>1, <2>2 DEF McpTypeOK
<1>4. LockIsHeld
  BY <1>1, <1>2, OpsAssumption DEF LockIsHeld, Holding
<1>5. HolderSees /\ SentOnce
  BY <1>1, <1>2 DEF HolderSees, SentOnce, At
<1>6. EntryIsSettled
  BY <1>2 DEF EntryIsSettled
<1>7. TransportIsOwned /\ CallNeverReplayed
  BY <1>1, <1>2 DEF TransportIsOwned, CallNeverReplayed
<1> QED BY <1>3, <1>4, <1>5, <1>6, <1>7 DEF McpInv, EntryIsSound

OthersKept(o) == \A x \in McpOps \ {o} : mop'[x] = mop[x]

(* An update of the operation's record changes the named fields and no other operation's record. *)
LEMMA GotoMoves ==
  ASSUME mop \in [McpOps -> OpRecords], NEW o \in McpOps, NEW p \in Pcs, Goto(o, p)
  PROVE  /\ mop' \in [McpOps -> OpRecords] /\ OthersKept(o)
         /\ mop'[o].pc = p /\ mop'[o].kind = mop[o].kind
         /\ mop'[o].mark = mop[o].mark /\ mop'[o].result = mop[o].result
  BY DEF Goto, OpRecords, OthersKept

(* An operation that returns is over, with the result it returns.          *)
LEMMA ReturnsEnds ==
  ASSUME mop \in [McpOps -> OpRecords], NEW o \in McpOps, NEW r \in Results, Returns(o, r)
  PROVE  /\ mop' \in [McpOps -> OpRecords] /\ OthersKept(o)
         /\ mop'[o].pc = "done" /\ mop'[o].kind = mop[o].kind /\ mop'[o].result = r
  BY DEF Returns, OpRecords, OthersKept, Pcs

(* An operation that will record a state has it as its mark, and has not   *)
(* returned yet.                                                           *)
LEMMA WillRecordMarks ==
  ASSUME mop \in [McpOps -> OpRecords], NEW o \in McpOps, NEW m \in Marks, WillRecord(o, m)
  PROVE  /\ mop' \in [McpOps -> OpRecords] /\ OthersKept(o)
         /\ mop'[o].pc = "record" /\ mop'[o].kind = mop[o].kind
         /\ mop'[o].mark = m /\ mop'[o].result = mop[o].result
  BY DEF WillRecord, OpRecords, OthersKept, Pcs

(* The holder takes the client away and awaits its end.                    *)
LEMMA BeginsCloseMoves ==
  ASSUME mop \in [McpOps -> OpRecords], NEW o \in McpOps, NEW m \in Marks, BeginsClose(o, m)
  PROVE  /\ mop' \in [McpOps -> OpRecords] /\ OthersKept(o)
         /\ mop'[o].pc = "closing" /\ mop'[o].kind = mop[o].kind
         /\ mop'[o].mark = m /\ mop'[o].result = mop[o].result
         /\ client' = 0 /\ told \subseteq told' /\ (client # 0 => client \in told')
  BY DEF BeginsClose, Tell, OpRecords, OthersKept, Pcs, Holding

(* The holder lets the entry's mutex go: nobody holds it, and only         *)
(* operations about to record are left with a mark.                        *)
LEMMA ReleaseKeeps ==
  ASSUME LockIsHeld, HolderSees, NEW o \in McpOps, mlock = o, mlock' = "free",
         mop'[o].pc \in {"done", "record"}, mop'[o].pc = "record" => mop'[o].mark \in Marks, OthersKept(o)
  PROVE  LockIsHeld' /\ HolderSees'
<1>1. \A x \in McpOps : mop'[x].pc \notin Holding /\ mlock' # x
  BY OpsAssumption DEF LockIsHeld, OthersKept, Holding
<1>2. \A x \in McpOps : mop'[x].pc = "record" => mop'[x].mark \in Marks
  BY DEF HolderSees, OthersKept, At
<1> QED BY <1>1, <1>2 DEF LockIsHeld, HolderSees, At, Holding

(* A connection attempt that begins, with the entry held and no client.    *)
LEMMA ConnectsKeeps ==
  ASSUME McpInv, NEW o \in McpOps, mop[o].pc \in {"lock", "dropping"}, mlock \in {"free", o}, mlock' = o,
         client = 0, Connects(o), UNCHANGED <<client, sent, told>>
  PROVE  McpInv'
<1> USE OpsAssumption
<1> USE DEF Holding, Marks, At, OthersKept
<1>0. McpTypeOK /\ LockIsHeld /\ HolderSees /\ SentOnce /\ EntryIsSettled /\ TransportIsOwned /\ CallNeverReplayed
      /\ mop \in [McpOps -> OpRecords]
  BY DEF McpInv, McpTypeOK, EntryIsSound
<1>1. /\ mstate' = "Connecting" /\ merror' = FALSE /\ created' = created + 1
      /\ transports' = transports \cup {created'}
  BY DEF Connects
<1>2. /\ mop' \in [McpOps -> OpRecords] /\ OthersKept(o)
      /\ mop'[o].pc = "connecting" /\ mop'[o].kind = mop[o].kind
      /\ mop'[o].mark = mop[o].mark /\ mop'[o].result = mop[o].result
  BY <1>0, GotoMoves DEF Pcs, Connects
<1>3. created' \in Nat /\ client' \in 0 .. created' /\ transports' \subseteq 1 .. created'
  BY <1>1, <1>0 DEF McpTypeOK
<1>91. McpTypeOK'
  BY <1>1, <1>2, <1>3, <1>0 DEF McpTypeOK
<1>92. LockIsHeld'
  BY <1>1, <1>2, <1>3, <1>0 DEF LockIsHeld, McpTypeOK
<1>93. HolderSees'
  BY <1>1, <1>2, <1>3, <1>0 DEF HolderSees, LockIsHeld, Settled, NoRecord, EntryIsSettled, McpTypeOK
<1>94. SentOnce'
  BY <1>1, <1>2, <1>3, <1>0 DEF SentOnce, McpTypeOK
<1>95. EntryIsSettled'
  BY <1>1, <1>2, <1>3, <1>0 DEF EntryIsSettled, HolderSees, LockIsHeld, NoRecord, Settled, McpTypeOK
<1>96. TransportIsOwned'
  BY <1>1, <1>2, <1>3, <1>0 DEF TransportIsOwned, LockIsHeld, HolderSees, McpTypeOK
<1>97. CallNeverReplayed'
  BY <1>1, <1>2, <1>3, <1>0 DEF CallNeverReplayed, SentOnce, McpTypeOK
<1> QED BY <1>91, <1>92, <1>93, <1>94, <1>95, <1>96, <1>97 DEF McpInv, EntryIsSound

(* Every step of an operation, and of the server's side of one, preserves  *)
(* the inductive invariant.                                                *)
LEMMA McpStepInv == ASSUME McpInv, [McpNext]_mcpVars PROVE McpInv'
<1> USE OpsAssumption
<1> USE DEF Holding, Marks, At, OthersKept
<1>0. McpTypeOK /\ LockIsHeld /\ HolderSees /\ SentOnce /\ EntryIsSettled /\ TransportIsOwned /\ CallNeverReplayed
      /\ mop \in [McpOps -> OpRecords]
  BY DEF McpInv, McpTypeOK, EntryIsSound
<1>1. ASSUME NEW o \in McpOps, Ask(o) PROVE McpInv'
  <2>1. /\ mop' \in [McpOps -> OpRecords] /\ OthersKept(o)
        /\ mop'[o].pc \in {"lock", "done"} /\ mop'[o].result # "ok"
    <3>1. PICK k \in McpKinds : \/ mop' = [mop EXCEPT ![o].kind = k, ![o].pc = "lock"]
                              \/ mop' = [mop EXCEPT ![o].kind = k, ![o].pc = "done", ![o].result = "refused"]
      BY <1>1 DEF Ask
    <3>2. mop[o].result # "ok"
      BY <1>0, <1>1 DEF SentOnce, Ask
    <3>3. CASE mop' = [mop EXCEPT ![o].kind = k, ![o].pc = "lock"]
      <4>1. mop' \in [McpOps -> OpRecords] /\ mop'[o].pc = "lock" /\ mop'[o].result = mop[o].result
        BY <3>3, <1>0 DEF OpRecords, Pcs
      <4>2. OthersKept(o)
        BY <3>3, <1>0 DEF OpRecords, Pcs
      <4> QED BY <3>2, <4>1, <4>2
    <3>4. CASE mop' = [mop EXCEPT ![o].kind = k, ![o].pc = "done", ![o].result = "refused"]
      <4>1. mop' \in [McpOps -> OpRecords]
        <5> DEFINE r == [mop[o] EXCEPT !.kind = k, !.pc = "done", !.result = "refused"]
        <5>1. r \in OpRecords
          BY <1>0 DEF OpRecords, Pcs, Results
        <5>2. mop' = [mop EXCEPT ![o] = r]
          BY <3>4, <1>0
        <5> HIDE DEF r
        <5> QED BY <5>1, <5>2, <1>0
      <4>3. mop'[o].pc = "done" /\ mop'[o].result = "refused"
        BY <3>4, <1>0 DEF OpRecords
      <4>2. OthersKept(o)
        BY <3>4, <1>0 DEF OpRecords, Pcs
      <4> QED BY <4>1, <4>2, <4>3
    <3> QED BY <3>1, <3>3, <3>4
  <2>2. /\ mop[o].pc = "idle"
        /\ UNCHANGED <<mstate, merror, client, toolListed, mlock, mcancel, sent, transports, told, closing, created>>
    BY <1>1 DEF Ask
  <2>3. McpTypeOK'
    BY <2>1, <2>2, <1>0 DEF McpTypeOK
  <2>4. LockIsHeld'
    BY <2>1, <2>2, <1>0 DEF LockIsHeld
  <2>5. HolderSees'
    BY <2>1, <2>2, <1>0 DEF HolderSees, Settled, NoRecord
  <2>6. SentOnce'
    BY <2>1, <2>2, <1>0 DEF SentOnce
  <2>7. EntryIsSettled'
    BY <2>1, <2>2, <1>0 DEF EntryIsSettled
  <2>8. TransportIsOwned'
    BY <2>1, <2>2, <1>0 DEF TransportIsOwned, McpTypeOK
  <2>9. CallNeverReplayed'
    BY <2>1, <2>2, <1>0 DEF CallNeverReplayed
  <2> QED BY <2>3, <2>4, <2>5, <2>6, <2>7, <2>8, <2>9 DEF McpInv, EntryIsSound
<1>2. ASSUME NEW o \in McpOps, Lock(o) PROVE McpInv'
  <2>1. /\ mop[o].pc = "lock" /\ mlock = "free" /\ mlock' = o
        /\ UNCHANGED <<toolListed, mcancel, sent>>
    BY <1>2 DEF Lock
  <2>2. ASSUME NEW p \in {"disconnect", "request", "pages"}, Goto(o, p),
               UNCHANGED <<mstate, merror, client, transports, told, created>>,
               p = "disconnect" => mop[o].kind = "disconnect", p # "disconnect" => client # 0
        PROVE  McpInv'
    <3>3. /\ mop' \in [McpOps -> OpRecords] /\ OthersKept(o)
          /\ mop'[o].pc = p /\ mop'[o].kind = mop[o].kind
          /\ mop'[o].mark = mop[o].mark /\ mop'[o].result = mop[o].result
      BY <2>2, <1>0, GotoMoves DEF Pcs
    <3>91. McpTypeOK'
      BY <2>1, <2>2, <3>3, <1>0 DEF McpTypeOK
    <3>92. LockIsHeld'
      BY <2>1, <2>2, <3>3, <1>0 DEF LockIsHeld, McpTypeOK
    <3>93. HolderSees'
      BY <2>1, <2>2, <3>3, <1>0 DEF HolderSees, LockIsHeld, Settled, NoRecord, EntryIsSettled, McpTypeOK
    <3>94. SentOnce'
      BY <2>1, <2>2, <3>3, <1>0 DEF SentOnce, McpTypeOK
    <3>95. EntryIsSettled'
      BY <2>1, <2>2, <3>3, <1>0 DEF EntryIsSettled, HolderSees, LockIsHeld, NoRecord, Settled, McpTypeOK
    <3>96. TransportIsOwned'
      BY <2>1, <2>2, <3>3, <1>0 DEF TransportIsOwned, LockIsHeld, HolderSees, McpTypeOK
    <3>97. CallNeverReplayed'
      BY <2>1, <2>2, <3>3, <1>0 DEF CallNeverReplayed, SentOnce, McpTypeOK
    <3> QED BY <3>91, <3>92, <3>93, <3>94, <3>95, <3>96, <3>97 DEF McpInv, EntryIsSound
  <2>3. CASE mop[o].kind = "disconnect"
    <3>1. /\ Goto(o, "disconnect")
          /\ UNCHANGED <<mstate, merror, client, transports, told, created>>
      BY <1>2, <2>3 DEF Lock
    <3> QED BY <2>2, <2>3, <3>1
  <2>4. CASE mop[o].kind # "disconnect" /\ HasOpenClient
    <3>1. /\ Goto(o, AfterConnect(o)) /\ client # 0
          /\ UNCHANGED <<mstate, merror, client, transports, told, created>>
      BY <1>2, <2>4 DEF Lock, HasOpenClient
    <3>2. AfterConnect(o) \in {"request", "pages"}
      BY DEF AfterConnect
    <3> DEFINE p == AfterConnect(o)
    <3>3. p \in {"disconnect", "request", "pages"} /\ p # "disconnect" /\ Goto(o, p)
      BY <3>1, <3>2
    <3> HIDE DEF p
    <3> QED BY <2>2, <3>1, <3>3
  <2>5. CASE mop[o].kind # "disconnect" /\ client # 0 /\ ~Open(client)
    <3>1. /\ Goto(o, "dropping") /\ client' = 0 /\ Tell
          /\ UNCHANGED <<mstate, merror, transports, created>>
      BY <1>2, <2>5 DEF Lock, HasOpenClient
    <3>2. told' = told \cup {client}
      BY <2>5, <3>1 DEF Tell
    <3>3. /\ mop' \in [McpOps -> OpRecords] /\ OthersKept(o)
          /\ mop'[o].pc = "dropping" /\ mop'[o].kind = mop[o].kind
          /\ mop'[o].mark = mop[o].mark /\ mop'[o].result = mop[o].result
      BY <3>1, <1>0, GotoMoves DEF Pcs
    <3>91. McpTypeOK'
      BY <2>1, <3>1, <3>2, <3>3, <1>0 DEF McpTypeOK
    <3>92. LockIsHeld'
      BY <2>1, <3>1, <3>2, <3>3, <1>0 DEF LockIsHeld, McpTypeOK
    <3>93. HolderSees'
      BY <2>1, <3>1, <3>2, <3>3, <1>0 DEF HolderSees, LockIsHeld, Settled, NoRecord, EntryIsSettled, McpTypeOK
    <3>94. SentOnce'
      BY <2>1, <3>1, <3>2, <3>3, <1>0 DEF SentOnce, McpTypeOK
    <3>95. EntryIsSettled'
      BY <2>1, <3>1, <3>2, <3>3, <1>0 DEF EntryIsSettled, HolderSees, LockIsHeld, NoRecord, Settled, McpTypeOK
    <3>96. TransportIsOwned'
      BY <2>1, <3>1, <3>2, <3>3, <1>0 DEF TransportIsOwned, LockIsHeld, HolderSees, McpTypeOK
    <3>97. CallNeverReplayed'
      BY <2>1, <3>1, <3>2, <3>3, <1>0 DEF CallNeverReplayed, SentOnce, McpTypeOK
    <3> QED BY <3>91, <3>92, <3>93, <3>94, <3>95, <3>96, <3>97 DEF McpInv, EntryIsSound
  <2>6. CASE mop[o].kind # "disconnect" /\ client = 0
    <3>1. Connects(o) /\ UNCHANGED <<client, told>>
      BY <1>2, <2>6 DEF Lock, HasOpenClient
    <3> QED BY <2>1, <2>6, <3>1, <1>0, ConnectsKeeps
  <2> QED BY <2>3, <2>4, <2>5, <2>6 DEF HasOpenClient
<1>3. ASSUME NEW o \in McpOps, Record(o) PROVE McpInv'
  <2>1. /\ mop[o].pc = "record" /\ mlock = "free" /\ mlock' = o
        /\ UNCHANGED <<mstate, merror, toolListed, mcancel, sent, transports, created>>
        /\ BeginsClose(o, mop[o].mark) /\ mop[o].mark \in Marks
    BY <1>3, <1>0 DEF Record, HolderSees
  <2>2. /\ mop' \in [McpOps -> OpRecords] /\ OthersKept(o)
        /\ mop'[o].pc = "closing" /\ mop'[o].kind = mop[o].kind
        /\ mop'[o].mark \in Marks /\ mop'[o].result = mop[o].result
        /\ client' = 0 /\ told \subseteq told' /\ (client # 0 => client \in told')
    <3> DEFINE m == mop[o].mark
    <3>1. m \in Marks /\ BeginsClose(o, m)
      BY <2>1
    <3> HIDE DEF m
    <3> QED BY <3>1, <1>0, BeginsCloseMoves
  <2>91. McpTypeOK'
    BY <2>1, <2>2, <1>0 DEF McpTypeOK
  <2>92. LockIsHeld'
    BY <2>1, <2>2, <1>0 DEF LockIsHeld, McpTypeOK
  <2>93. HolderSees'
    BY <2>1, <2>2, <1>0 DEF HolderSees, LockIsHeld, Settled, NoRecord, EntryIsSettled, McpTypeOK
  <2>94. SentOnce'
    BY <2>1, <2>2, <1>0 DEF SentOnce, McpTypeOK
  <2>95. EntryIsSettled'
    BY <2>1, <2>2, <1>0 DEF EntryIsSettled, HolderSees, LockIsHeld, NoRecord, Settled, McpTypeOK
  <2>96. TransportIsOwned'
    BY <2>1, <2>2, <1>0 DEF TransportIsOwned, LockIsHeld, HolderSees, McpTypeOK
  <2>97. CallNeverReplayed'
    BY <2>1, <2>2, <1>0 DEF CallNeverReplayed, SentOnce, McpTypeOK
  <2> QED BY <2>91, <2>92, <2>93, <2>94, <2>95, <2>96, <2>97 DEF McpInv, EntryIsSound
<1>4. ASSUME NEW o \in McpOps, Send(o) PROVE McpInv'
  <2>1. /\ mop[o].pc = "request"
        /\ UNCHANGED <<mstate, merror, client, toolListed, mcancel, transports, told, created>>
    BY <1>4 DEF Send
  <2>2. CASE mop[o].kind = "call" /\ o \in mcancel
    <3>1. Returns(o, "cancelled") /\ mlock' = "free" /\ sent' = sent
      BY <1>4, <2>2 DEF Send
    <3>2. /\ mop' \in [McpOps -> OpRecords] /\ OthersKept(o)
          /\ mop'[o].pc = "done" /\ mop'[o].kind = mop[o].kind /\ mop'[o].result = "cancelled"
      BY <3>1, <1>0, ReturnsEnds DEF Results
    <3>3. mlock = o
      BY <2>1, <1>0 DEF LockIsHeld
    <3>4. McpTypeOK'
      BY <2>1, <3>1, <3>2, <3>3, <1>0 DEF McpTypeOK
    <3>5. LockIsHeld' /\ HolderSees'
      BY <2>1, <3>1, <3>2, <3>3, <1>0, ReleaseKeeps
    <3>7. SentOnce'
      BY <2>1, <3>1, <3>2, <3>3, <1>0 DEF SentOnce, McpTypeOK
    <3>8. EntryIsSettled'
      BY <2>1, <3>1, <3>2, <3>3, <1>0 DEF EntryIsSettled, HolderSees, LockIsHeld, NoRecord, Settled, McpTypeOK
    <3>9. TransportIsOwned'
      BY <2>1, <3>1, <3>2, <3>3, <1>0 DEF TransportIsOwned, LockIsHeld, HolderSees, McpTypeOK
    <3>10. CallNeverReplayed'
      BY <2>1, <3>1, <3>2, <3>3, <1>0 DEF CallNeverReplayed, SentOnce, McpTypeOK
    <3> QED BY <3>4, <3>5, <3>7, <3>8, <3>9, <3>10 DEF McpInv, EntryIsSound
  <2>3. CASE ~(mop[o].kind = "call" /\ o \in mcancel)
    <3>1. /\ Goto(o, "waiting") /\ mlock' = mlock
          /\ sent' = [sent EXCEPT ![o] = IF mop[o].kind = "call" THEN @ + 1 ELSE @]
      BY <1>4, <2>3 DEF Send
    <3>2. /\ mop' \in [McpOps -> OpRecords] /\ OthersKept(o)
          /\ mop'[o].pc = "waiting" /\ mop'[o].kind = mop[o].kind
          /\ mop'[o].mark = mop[o].mark /\ mop'[o].result = mop[o].result
      BY <3>1, <1>0, GotoMoves DEF Pcs
    <3>3. mlock = o /\ sent[o] = 0
      BY <2>1, <1>0 DEF LockIsHeld, SentOnce
    <3>4. McpTypeOK'
      BY <2>1, <3>1, <3>2, <3>3, <1>0 DEF McpTypeOK
    <3>5. LockIsHeld'
      BY <2>1, <3>1, <3>2, <3>3, <1>0 DEF LockIsHeld, McpTypeOK
    <3>6. HolderSees'
      BY <2>1, <3>1, <3>2, <3>3, <1>0 DEF HolderSees, LockIsHeld, Settled, NoRecord, EntryIsSettled, McpTypeOK
    <3>7. SentOnce'
      BY <2>1, <3>1, <3>2, <3>3, <1>0 DEF SentOnce, McpTypeOK
    <3>8. EntryIsSettled'
      BY <2>1, <3>1, <3>2, <3>3, <1>0 DEF EntryIsSettled, HolderSees, LockIsHeld, NoRecord, Settled, McpTypeOK
    <3>9. TransportIsOwned'
      BY <2>1, <3>1, <3>2, <3>3, <1>0 DEF TransportIsOwned, LockIsHeld, HolderSees, McpTypeOK
    <3>10. CallNeverReplayed'
      BY <2>1, <3>1, <3>2, <3>3, <1>0 DEF CallNeverReplayed, SentOnce, McpTypeOK
    <3> QED BY <3>4, <3>5, <3>6, <3>7, <3>8, <3>9, <3>10 DEF McpInv, EntryIsSound
  <2> QED BY <2>2, <2>3
<1>5. ASSUME NEW o \in McpOps, Disconnect(o) PROVE McpInv'
  <2>1. /\ mop[o].pc = "disconnect" /\ BeginsClose(o, "Disconnected")
        /\ UNCHANGED <<mstate, merror, mlock, mcancel, sent, transports, created>>
    BY <1>5 DEF Disconnect
  <2>2. /\ mop' \in [McpOps -> OpRecords] /\ OthersKept(o)
        /\ mop'[o].pc = "closing" /\ mop'[o].kind = mop[o].kind
        /\ mop'[o].mark = "Disconnected" /\ mop'[o].result = mop[o].result
        /\ client' = 0 /\ told \subseteq told' /\ (client # 0 => client \in told')
    BY <2>1, <1>0, BeginsCloseMoves
  <2>91. McpTypeOK'
    BY <2>1, <2>2, <1>0 DEF McpTypeOK
  <2>92. LockIsHeld'
    BY <2>1, <2>2, <1>0 DEF LockIsHeld, McpTypeOK
  <2>93. HolderSees'
    BY <2>1, <2>2, <1>0 DEF HolderSees, LockIsHeld, Settled, NoRecord, EntryIsSettled, McpTypeOK
  <2>94. SentOnce'
    BY <2>1, <2>2, <1>0 DEF SentOnce, McpTypeOK
  <2>95. EntryIsSettled'
    BY <2>1, <2>2, <1>0 DEF EntryIsSettled, HolderSees, LockIsHeld, NoRecord, Settled, McpTypeOK
  <2>96. TransportIsOwned'
    BY <2>1, <2>2, <1>0 DEF TransportIsOwned, LockIsHeld, HolderSees, McpTypeOK
  <2>97. CallNeverReplayed'
    BY <2>1, <2>2, <1>0 DEF CallNeverReplayed, SentOnce, McpTypeOK
  <2> QED BY <2>91, <2>92, <2>93, <2>94, <2>95, <2>96, <2>97 DEF McpInv, EntryIsSound
<1>18. ASSUME NEW o \in McpOps, OldClientEnds(o) PROVE McpInv'
  <2>1. /\ mop[o].pc = "dropping" /\ Connects(o) /\ UNCHANGED <<client, mlock, sent, told>>
    BY <1>18 DEF OldClientEnds
  <2>2. mlock = o /\ client = 0
    BY <2>1, <1>0 DEF LockIsHeld, HolderSees
  <2> QED BY <2>1, <2>2, <1>0, ConnectsKeeps
<1>19. ASSUME NEW o \in McpOps, CloseEnds(o) PROVE McpInv'
  <2>1. /\ mop[o].pc = "closing" /\ mlock' = "free"
        /\ mstate' = mop[o].mark /\ merror' = (mop[o].mark = "Failed")
        /\ UNCHANGED <<client, sent, transports, told, created>>
    BY <1>19 DEF CloseEnds
  <2>2. /\ mop' \in [McpOps -> OpRecords] /\ OthersKept(o)
        /\ mop'[o].pc = "done" /\ mop'[o].kind = mop[o].kind
        /\ mop'[o].result = "ok" => mop[o].kind = "disconnect"
    <3> DEFINE r == Result(o)
    <3>1. Returns(o, r) /\ r \in {"ok", "failed", "cancelled"} /\ (r = "ok" => mop[o].kind = "disconnect")
      BY <1>19 DEF CloseEnds, Result
    <3> HIDE DEF r
    <3> QED BY <3>1, <1>0, ReturnsEnds DEF Results
  <2>3. mlock = o /\ client = 0 /\ mop[o].mark \in Marks
    BY <2>1, <1>0 DEF LockIsHeld, HolderSees
  <2>91. McpTypeOK'
    BY <2>1, <2>2, <2>3, <1>0 DEF McpTypeOK
  <2>92. LockIsHeld' /\ HolderSees'
    BY <2>1, <2>2, <2>3, <1>0, ReleaseKeeps
  <2>94. SentOnce'
    BY <2>1, <2>2, <2>3, <1>0 DEF SentOnce, McpTypeOK
  <2>95. EntryIsSettled'
    BY <2>1, <2>2, <2>3, <1>0 DEF EntryIsSettled, HolderSees, LockIsHeld, NoRecord, Settled, McpTypeOK
  <2>96. TransportIsOwned'
    BY <2>1, <2>2, <2>3, <1>0 DEF TransportIsOwned, LockIsHeld, HolderSees, McpTypeOK
  <2>97. CallNeverReplayed'
    BY <2>1, <2>2, <2>3, <1>0 DEF CallNeverReplayed, SentOnce, McpTypeOK
  <2> QED BY <2>91, <2>92, <2>94, <2>95, <2>96, <2>97 DEF McpInv, EntryIsSound
<1>6. ASSUME NEW o \in McpOps, ConnectFails(o) PROVE McpInv'
  <2>1. /\ mop[o].pc = "connecting" /\ mlock' = "free"
        /\ transports' = transports \ {created}
        /\ UNCHANGED <<client, sent, told, created>>
    BY <1>6 DEF ConnectFails, ConnectionDropped
  <2>2. mlock = o /\ client = 0 /\ merror = FALSE
    BY <2>1, <1>0 DEF LockIsHeld, HolderSees, McpTypeOK
  <2>3. CASE mop[o].kind = "call"
    <3>1. mstate' = "Failed" /\ merror' = TRUE
      BY <1>6, <2>3 DEF ConnectFails
    <3>2. /\ mop' \in [McpOps -> OpRecords] /\ OthersKept(o)
          /\ mop'[o].pc = "done" /\ mop'[o].kind = mop[o].kind /\ mop'[o].result = "failed"
      BY <1>6, <2>3, <1>0, ReturnsEnds DEF ConnectFails, Ends, Results
    <3>3. McpTypeOK'
      BY <2>1, <2>2, <3>1, <3>2, <1>0 DEF McpTypeOK
    <3>4. LockIsHeld' /\ HolderSees'
      BY <2>1, <2>2, <3>1, <3>2, <1>0, ReleaseKeeps
    <3>6. SentOnce'
      BY <2>1, <2>2, <3>1, <3>2, <1>0 DEF SentOnce, McpTypeOK
    <3>7. EntryIsSettled'
      BY <2>1, <2>2, <3>1, <3>2, <1>0 DEF EntryIsSettled, HolderSees, LockIsHeld, NoRecord, Settled, McpTypeOK
    <3>8. TransportIsOwned'
      BY <2>1, <2>2, <3>1, <3>2, <1>0 DEF TransportIsOwned, LockIsHeld, HolderSees, McpTypeOK
    <3>9. CallNeverReplayed'
      BY <2>1, <2>2, <3>1, <3>2, <1>0 DEF CallNeverReplayed, SentOnce, McpTypeOK
    <3> QED BY <3>3, <3>4, <3>6, <3>7, <3>8, <3>9 DEF McpInv, EntryIsSound
  <2>4. CASE mop[o].kind # "call"
    <3>1. mstate' = "Failed" /\ merror' = TRUE
      BY <1>6, <2>4 DEF ConnectFails
    <3>2. /\ mop' \in [McpOps -> OpRecords] /\ OthersKept(o)
          /\ mop'[o].pc = "record" /\ mop'[o].kind = mop[o].kind
          /\ mop'[o].mark = "Failed" /\ mop'[o].result = mop[o].result
      BY <1>6, <2>4, <1>0, WillRecordMarks DEF ConnectFails
    <3>3. McpTypeOK'
      BY <2>1, <2>2, <3>1, <3>2, <1>0 DEF McpTypeOK
    <3>4. LockIsHeld'
      BY <2>1, <2>2, <3>1, <3>2, <1>0 DEF LockIsHeld, McpTypeOK
    <3>5. HolderSees'
      BY <2>1, <2>2, <3>1, <3>2, <1>0 DEF HolderSees, LockIsHeld, Settled, NoRecord, EntryIsSettled, McpTypeOK
    <3>6. SentOnce'
      BY <2>1, <2>2, <3>1, <3>2, <1>0 DEF SentOnce, McpTypeOK
    <3>7. EntryIsSettled'
      BY <2>1, <2>2, <3>1, <3>2, <1>0 DEF EntryIsSettled, HolderSees, LockIsHeld, NoRecord, Settled, McpTypeOK
    <3>8. TransportIsOwned'
      BY <2>1, <2>2, <3>1, <3>2, <1>0 DEF TransportIsOwned, LockIsHeld, HolderSees, McpTypeOK
    <3>9. CallNeverReplayed'
      BY <2>1, <2>2, <3>1, <3>2, <1>0 DEF CallNeverReplayed, SentOnce, McpTypeOK
    <3> QED BY <3>3, <3>4, <3>5, <3>6, <3>7, <3>8, <3>9 DEF McpInv, EntryIsSound
  <2> QED BY <2>3, <2>4
<1>7. ASSUME NEW o \in McpOps, RequestFails(o) PROVE McpInv'
  <2>1. /\ mop[o].pc \in {"pages", "waiting"} /\ GivesUp(o, "Failed")
        /\ UNCHANGED <<mstate, merror, transports, toolListed, mcancel, sent, created>>
    BY <1>7 DEF RequestFails, Awaits, GivesUp
  <2>2. mlock = o /\ client # 0
    BY <2>1, <1>0 DEF LockIsHeld, HolderSees
  <2>3. CASE mop[o].kind = "call"
    <3>1. BeginsClose(o, "Failed") /\ mlock' = mlock
      BY <2>1, <2>3 DEF GivesUp
    <3>2. /\ mop' \in [McpOps -> OpRecords] /\ OthersKept(o)
          /\ mop'[o].pc = "closing" /\ mop'[o].kind = mop[o].kind
          /\ mop'[o].mark = "Failed" /\ mop'[o].result = mop[o].result
          /\ client' = 0 /\ told \subseteq told' /\ client \in told'
      BY <3>1, <2>2, <1>0, BeginsCloseMoves
    <3>91. McpTypeOK'
      BY <2>1, <2>2, <3>1, <3>2, <1>0 DEF McpTypeOK
    <3>92. LockIsHeld'
      BY <2>1, <2>2, <3>1, <3>2, <1>0 DEF LockIsHeld, McpTypeOK
    <3>93. HolderSees'
      BY <2>1, <2>2, <3>1, <3>2, <1>0 DEF HolderSees, LockIsHeld, Settled, NoRecord, EntryIsSettled, McpTypeOK
    <3>94. SentOnce'
      BY <2>1, <2>2, <3>1, <3>2, <1>0 DEF SentOnce, McpTypeOK
    <3>95. EntryIsSettled'
      BY <2>1, <2>2, <3>1, <3>2, <1>0 DEF EntryIsSettled, HolderSees, LockIsHeld, NoRecord, Settled, McpTypeOK
    <3>96. TransportIsOwned'
      BY <2>1, <2>2, <3>1, <3>2, <1>0 DEF TransportIsOwned, LockIsHeld, HolderSees, McpTypeOK
    <3>97. CallNeverReplayed'
      BY <2>1, <2>2, <3>1, <3>2, <1>0 DEF CallNeverReplayed, SentOnce, McpTypeOK
    <3> QED BY <3>91, <3>92, <3>93, <3>94, <3>95, <3>96, <3>97 DEF McpInv, EntryIsSound
  <2>4. CASE mop[o].kind # "call"
    <3>1. mlock' = "free" /\ UNCHANGED <<client, told>>
      BY <2>1, <2>4 DEF GivesUp
    <3>2. /\ mop' \in [McpOps -> OpRecords] /\ OthersKept(o)
          /\ mop'[o].pc = "record" /\ mop'[o].kind = mop[o].kind
          /\ mop'[o].mark = "Failed" /\ mop'[o].result = mop[o].result
      BY <2>1, <2>4, <1>0, WillRecordMarks DEF GivesUp
    <3>91. McpTypeOK'
      BY <2>1, <2>2, <3>1, <3>2, <1>0 DEF McpTypeOK
    <3>92. LockIsHeld' /\ HolderSees'
      BY <2>1, <2>2, <3>1, <3>2, <1>0, ReleaseKeeps
    <3>94. SentOnce'
      BY <2>1, <2>2, <3>1, <3>2, <1>0 DEF SentOnce, McpTypeOK
    <3>95. EntryIsSettled'
      BY <2>1, <2>2, <3>1, <3>2, <1>0 DEF EntryIsSettled, HolderSees, LockIsHeld, NoRecord, Settled, McpTypeOK
    <3>96. TransportIsOwned'
      BY <2>1, <2>2, <3>1, <3>2, <1>0 DEF TransportIsOwned, LockIsHeld, HolderSees, McpTypeOK
    <3>97. CallNeverReplayed'
      BY <2>1, <2>2, <3>1, <3>2, <1>0 DEF CallNeverReplayed, SentOnce, McpTypeOK
    <3> QED BY <3>91, <3>92, <3>94, <3>95, <3>96, <3>97 DEF McpInv, EntryIsSound
  <2> QED BY <2>3, <2>4
<1>8. ASSUME NEW o \in McpOps, ConnectSucceeds(o) PROVE McpInv'
  <2>1. /\ mop[o].pc = "connecting" /\ created \in transports
        /\ client' = created /\ mstate' = "Connected"
        /\ UNCHANGED <<merror, mlock, sent, transports, told, created>>
    BY <1>8 DEF ConnectSucceeds, Open
  <2>2. mlock = o /\ client = 0 /\ merror = FALSE /\ created # 0
    BY <2>1, <1>0 DEF LockIsHeld, HolderSees, McpTypeOK
  <2>10. /\ mop' \in [McpOps -> OpRecords] /\ OthersKept(o)
        /\ mop'[o].pc \in {"request", "pages"} /\ mop'[o].kind = mop[o].kind
        /\ mop'[o].mark = mop[o].mark /\ mop'[o].result = mop[o].result
    <3>1. Goto(o, AfterConnect(o)) /\ AfterConnect(o) \in {"request", "pages"}
      BY <1>8 DEF ConnectSucceeds, AfterConnect
    <3> QED BY <3>1, <1>0, GotoMoves DEF Pcs
  <2>3. McpTypeOK'
    BY <2>1, <2>2, <2>10, <1>0 DEF McpTypeOK
  <2>4. LockIsHeld'
    BY <2>1, <2>2, <2>10, <1>0 DEF LockIsHeld, McpTypeOK
  <2>5. HolderSees'
    BY <2>1, <2>2, <2>10, <1>0 DEF HolderSees, LockIsHeld, Settled, NoRecord, EntryIsSettled, McpTypeOK
  <2>6. SentOnce'
    BY <2>1, <2>2, <2>10, <1>0 DEF SentOnce, McpTypeOK
  <2>7. EntryIsSettled'
    BY <2>1, <2>2, <2>10, <1>0 DEF EntryIsSettled, HolderSees, LockIsHeld, NoRecord, Settled, McpTypeOK
  <2>8. TransportIsOwned'
    <3>1. 0 \notin transports
      BY <1>0 DEF McpTypeOK
    <3> QED BY <2>1, <2>2, <3>1, <1>0 DEF TransportIsOwned
  <2>9. CallNeverReplayed'
    BY <2>1, <2>2, <2>10, <1>0 DEF CallNeverReplayed, SentOnce, McpTypeOK
  <2> QED BY <2>3, <2>4, <2>5, <2>6, <2>7, <2>8, <2>9 DEF McpInv, EntryIsSound
<1>9. ASSUME NEW o \in McpOps, PreparationCancelled(o) PROVE McpInv'
  <2>1. /\ mop[o].pc \in {"connecting", "dropping"} /\ mlock' = "free"
        /\ mop[o].pc = "connecting" => transports' = transports \ {created}
        /\ mop[o].pc = "dropping" => transports' = transports
        /\ UNCHANGED <<client, sent, told, created>>
    BY <1>9 DEF PreparationCancelled, ConnectionDropped
  <2>2. mlock = o /\ client = 0
    BY <2>1, <1>0 DEF LockIsHeld, HolderSees
  <2>5. transports' \subseteq transports
    BY <2>1
  <2>3. CASE mop[o].kind = "call"
    <3>1. mstate' = "Disconnected" /\ merror' = FALSE
      BY <1>9, <2>3 DEF PreparationCancelled
    <3>2. /\ mop' \in [McpOps -> OpRecords] /\ OthersKept(o)
          /\ mop'[o].pc = "done" /\ mop'[o].kind = mop[o].kind /\ mop'[o].result = "cancelled"
      BY <1>9, <2>3, <1>0, ReturnsEnds DEF PreparationCancelled, Ends, Results
    <3>91. McpTypeOK'
      BY <2>1, <2>2, <2>5, <3>1, <3>2, <1>0 DEF McpTypeOK
    <3>92. LockIsHeld' /\ HolderSees'
      BY <2>1, <2>2, <2>5, <3>1, <3>2, <1>0, ReleaseKeeps
    <3>94. SentOnce'
      BY <2>1, <2>2, <2>5, <3>1, <3>2, <1>0 DEF SentOnce, McpTypeOK
    <3>95. EntryIsSettled'
      BY <2>1, <2>2, <2>5, <3>1, <3>2, <1>0 DEF EntryIsSettled, HolderSees, LockIsHeld, NoRecord, Settled, McpTypeOK
    <3>96. TransportIsOwned'
      BY <2>1, <2>2, <2>5, <3>1, <3>2, <1>0 DEF TransportIsOwned, LockIsHeld, HolderSees, McpTypeOK
    <3>97. CallNeverReplayed'
      BY <2>1, <2>2, <2>5, <3>1, <3>2, <1>0 DEF CallNeverReplayed, SentOnce, McpTypeOK
    <3> QED BY <3>91, <3>92, <3>94, <3>95, <3>96, <3>97 DEF McpInv, EntryIsSound
  <2>4. CASE mop[o].kind # "call"
    <3>1. mstate' = mstate /\ merror' = merror
      BY <1>9, <2>4 DEF PreparationCancelled
    <3>2. /\ mop' \in [McpOps -> OpRecords] /\ OthersKept(o)
          /\ mop'[o].pc = "record" /\ mop'[o].kind = mop[o].kind
          /\ mop'[o].mark = "Disconnected" /\ mop'[o].result = mop[o].result
      BY <1>9, <2>4, <1>0, WillRecordMarks DEF PreparationCancelled
    <3>91. McpTypeOK'
      BY <2>1, <2>2, <2>5, <3>1, <3>2, <1>0 DEF McpTypeOK
    <3>92. LockIsHeld' /\ HolderSees'
      BY <2>1, <2>2, <2>5, <3>1, <3>2, <1>0, ReleaseKeeps
    <3>94. SentOnce'
      BY <2>1, <2>2, <2>5, <3>1, <3>2, <1>0 DEF SentOnce, McpTypeOK
    <3>95. EntryIsSettled'
      BY <2>1, <2>2, <2>5, <3>1, <3>2, <1>0 DEF EntryIsSettled, HolderSees, LockIsHeld, NoRecord, Settled, McpTypeOK
    <3>96. TransportIsOwned'
      BY <2>1, <2>2, <2>5, <3>1, <3>2, <1>0 DEF TransportIsOwned, LockIsHeld, HolderSees, McpTypeOK
    <3>97. CallNeverReplayed'
      BY <2>1, <2>2, <2>5, <3>1, <3>2, <1>0 DEF CallNeverReplayed, SentOnce, McpTypeOK
    <3> QED BY <3>91, <3>92, <3>94, <3>95, <3>96, <3>97 DEF McpInv, EntryIsSound
  <2> QED BY <2>3, <2>4
<1>10. ASSUME NEW o \in McpOps, NextPage(o) PROVE McpInv'
  <2>1. UNCHANGED <<mstate, merror, client, toolListed, mlock, mcancel, sent, transports, told, closing, created>>
    BY <1>10 DEF NextPage
  <2>2. /\ mop' \in [McpOps -> OpRecords] /\ OthersKept(o)
        /\ mop'[o].pc = mop[o].pc /\ mop'[o].kind = mop[o].kind
        /\ mop'[o].mark = mop[o].mark /\ mop'[o].result = mop[o].result
    <3>1. mop' = [mop EXCEPT ![o].page = mop[o].page + 1] /\ mop[o].page \in Nat
      BY <1>10, <1>0 DEF NextPage, OpRecords
    <3> QED BY <3>1, <1>0 DEF OpRecords
  <2>3. McpTypeOK'
    BY <2>1, <2>2, <1>0 DEF McpTypeOK
  <2>4. LockIsHeld'
    BY <2>1, <2>2, <1>0 DEF LockIsHeld, McpTypeOK
  <2>5. HolderSees'
    BY <2>1, <2>2, <1>0 DEF HolderSees, LockIsHeld, Settled, NoRecord, EntryIsSettled, McpTypeOK
  <2>6. SentOnce'
    BY <2>1, <2>2, <1>0 DEF SentOnce, McpTypeOK
  <2>7. EntryIsSettled'
    BY <2>1, <2>2, <1>0 DEF EntryIsSettled, HolderSees, LockIsHeld, NoRecord, Settled, McpTypeOK
  <2>8. TransportIsOwned'
    BY <2>1, <2>2, <1>0 DEF TransportIsOwned, LockIsHeld, HolderSees, McpTypeOK
  <2>9. CallNeverReplayed'
    BY <2>1, <2>2, <1>0 DEF CallNeverReplayed, SentOnce, McpTypeOK
  <2> QED BY <2>3, <2>4, <2>5, <2>6, <2>7, <2>8, <2>9 DEF McpInv, EntryIsSound
<1>11. ASSUME NEW o \in McpOps, LastPage(o) PROVE McpInv'
  <2>1. /\ mop[o].pc = "pages" /\ mstate' = "Connected" /\ merror' = FALSE
        /\ UNCHANGED <<client, sent, transports, told, created>>
    BY <1>11 DEF LastPage
  <2>2. mlock = o /\ client # 0 /\ sent[o] = 0
    BY <2>1, <1>0 DEF LockIsHeld, HolderSees, SentOnce
  <2>3. CASE mop[o].kind = "call" /\ Goto(o, "request") /\ mlock' = mlock
    <3>1. /\ mop' \in [McpOps -> OpRecords] /\ OthersKept(o)
          /\ mop'[o].pc = "request" /\ mop'[o].kind = mop[o].kind
          /\ mop'[o].mark = mop[o].mark /\ mop'[o].result = mop[o].result
      BY <2>3, <1>0, GotoMoves DEF Pcs
    <3>2. McpTypeOK'
      BY <2>1, <2>2, <2>3, <3>1, <1>0 DEF McpTypeOK
    <3>3. LockIsHeld'
      BY <2>1, <2>2, <2>3, <3>1, <1>0 DEF LockIsHeld, McpTypeOK
    <3>4. HolderSees'
      BY <2>1, <2>2, <2>3, <3>1, <1>0 DEF HolderSees, LockIsHeld, Settled, NoRecord, EntryIsSettled, McpTypeOK
    <3>5. SentOnce'
      BY <2>1, <2>2, <2>3, <3>1, <1>0 DEF SentOnce, McpTypeOK
    <3>6. EntryIsSettled'
      BY <2>1, <2>2, <2>3, <3>1, <1>0 DEF EntryIsSettled, HolderSees, LockIsHeld, NoRecord, Settled, McpTypeOK
    <3>7. TransportIsOwned'
      BY <2>1, <2>2, <2>3, <3>1, <1>0 DEF TransportIsOwned, LockIsHeld, HolderSees, McpTypeOK
    <3>8. CallNeverReplayed'
      BY <2>1, <2>2, <2>3, <3>1, <1>0 DEF CallNeverReplayed, SentOnce, McpTypeOK
    <3> QED BY <3>2, <3>3, <3>4, <3>5, <3>6, <3>7, <3>8 DEF McpInv, EntryIsSound
  <2>4. CASE mop[o].kind = "call" /\ Returns(o, "unknown tool") /\ mlock' = "free"
    <3>1. /\ mop' \in [McpOps -> OpRecords] /\ OthersKept(o)
          /\ mop'[o].pc = "done" /\ mop'[o].kind = mop[o].kind /\ mop'[o].result = "unknown tool"
      BY <2>4, <1>0, ReturnsEnds DEF Results
    <3>2. McpTypeOK'
      BY <2>1, <2>2, <2>4, <3>1, <1>0 DEF McpTypeOK
    <3>3. LockIsHeld' /\ HolderSees'
      BY <2>2, <2>4, <3>1, <1>0, ReleaseKeeps
    <3>5. SentOnce'
      BY <2>1, <2>2, <2>4, <3>1, <1>0 DEF SentOnce, McpTypeOK
    <3>6. EntryIsSettled'
      BY <2>1, <2>2, <2>4, <3>1, <1>0 DEF EntryIsSettled, HolderSees, LockIsHeld, NoRecord, Settled, McpTypeOK
    <3>7. TransportIsOwned'
      BY <2>1, <2>2, <2>4, <3>1, <1>0 DEF TransportIsOwned, LockIsHeld, HolderSees, McpTypeOK
    <3>8. CallNeverReplayed'
      BY <2>1, <2>2, <2>4, <3>1, <1>0 DEF CallNeverReplayed, SentOnce, McpTypeOK
    <3> QED BY <3>2, <3>3, <3>5, <3>6, <3>7, <3>8 DEF McpInv, EntryIsSound
  <2>5. CASE mop[o].kind # "call" /\ Returns(o, "ok") /\ mlock' = "free"
    <3>1. /\ mop' \in [McpOps -> OpRecords] /\ OthersKept(o)
          /\ mop'[o].pc = "done" /\ mop'[o].kind = mop[o].kind /\ mop'[o].result = "ok"
      BY <2>5, <1>0, ReturnsEnds DEF Results
    <3>2. McpTypeOK'
      BY <2>1, <2>2, <2>5, <3>1, <1>0 DEF McpTypeOK
    <3>3. LockIsHeld' /\ HolderSees'
      BY <2>1, <2>2, <2>5, <3>1, <1>0, ReleaseKeeps
    <3>5. SentOnce'
      BY <2>1, <2>2, <2>5, <3>1, <1>0 DEF SentOnce, McpTypeOK
    <3>6. EntryIsSettled'
      BY <2>1, <2>2, <2>5, <3>1, <1>0 DEF EntryIsSettled, HolderSees, LockIsHeld, NoRecord, Settled, McpTypeOK
    <3>7. TransportIsOwned'
      BY <2>1, <2>2, <2>5, <3>1, <1>0 DEF TransportIsOwned, LockIsHeld, HolderSees, McpTypeOK
    <3>8. CallNeverReplayed'
      BY <2>1, <2>2, <2>5, <3>1, <1>0 DEF CallNeverReplayed, SentOnce, McpTypeOK
    <3> QED BY <3>2, <3>3, <3>5, <3>6, <3>7, <3>8 DEF McpInv, EntryIsSound
  <2> QED BY <1>11, <2>3, <2>4, <2>5 DEF LastPage
<1>12. ASSUME NEW o \in McpOps, Answered(o) PROVE McpInv'
  <2>1. /\ mop[o].pc = "waiting" /\ mlock' = "free"
        /\ UNCHANGED <<mstate, merror, client, toolListed, mcancel, sent, transports, told, created>>
    BY <1>12 DEF Answered
  <2>2. /\ mop' \in [McpOps -> OpRecords] /\ OthersKept(o)
        /\ mop'[o].pc = "done" /\ mop'[o].kind = mop[o].kind /\ mop'[o].result = "ok"
    BY <1>12, <1>0, ReturnsEnds DEF Answered, Results
  <2>10. mlock = o
    BY <2>1, <1>0 DEF LockIsHeld
  <2>3. McpTypeOK'
    BY <2>1, <2>2, <2>10, <1>0 DEF McpTypeOK
  <2>4. LockIsHeld' /\ HolderSees'
    BY <2>1, <2>2, <2>10, <1>0, ReleaseKeeps
  <2>6. SentOnce'
    BY <2>1, <2>2, <2>10, <1>0 DEF SentOnce, McpTypeOK
  <2>7. EntryIsSettled'
    BY <2>1, <2>2, <2>10, <1>0 DEF EntryIsSettled, HolderSees, LockIsHeld, NoRecord, Settled, McpTypeOK
  <2>8. TransportIsOwned'
    BY <2>1, <2>2, <2>10, <1>0 DEF TransportIsOwned, LockIsHeld, HolderSees, McpTypeOK
  <2>9. CallNeverReplayed'
    BY <2>1, <2>2, <2>10, <1>0 DEF CallNeverReplayed, SentOnce, McpTypeOK
  <2> QED BY <2>3, <2>4, <2>6, <2>7, <2>8, <2>9 DEF McpInv, EntryIsSound
<1>13. ASSUME NEW o \in McpOps, RequestCancelled(o) PROVE McpInv'
  <2>1. /\ mop[o].pc \in {"pages", "waiting"} /\ GivesUp(o, "Disconnected")
        /\ UNCHANGED <<mstate, merror, transports, toolListed, mcancel, sent, created>>
    BY <1>13 DEF RequestCancelled, Awaits, GivesUp
  <2>2. mlock = o /\ client # 0
    BY <2>1, <1>0 DEF LockIsHeld, HolderSees
  <2>3. CASE mop[o].kind = "call"
    <3>1. BeginsClose(o, "Disconnected") /\ mlock' = mlock
      BY <2>1, <2>3 DEF GivesUp
    <3>2. /\ mop' \in [McpOps -> OpRecords] /\ OthersKept(o)
          /\ mop'[o].pc = "closing" /\ mop'[o].kind = mop[o].kind
          /\ mop'[o].mark = "Disconnected" /\ mop'[o].result = mop[o].result
          /\ client' = 0 /\ told \subseteq told' /\ client \in told'
      BY <3>1, <2>2, <1>0, BeginsCloseMoves
    <3>91. McpTypeOK'
      BY <2>1, <2>2, <3>1, <3>2, <1>0 DEF McpTypeOK
    <3>92. LockIsHeld'
      BY <2>1, <2>2, <3>1, <3>2, <1>0 DEF LockIsHeld, McpTypeOK
    <3>93. HolderSees'
      BY <2>1, <2>2, <3>1, <3>2, <1>0 DEF HolderSees, LockIsHeld, Settled, NoRecord, EntryIsSettled, McpTypeOK
    <3>94. SentOnce'
      BY <2>1, <2>2, <3>1, <3>2, <1>0 DEF SentOnce, McpTypeOK
    <3>95. EntryIsSettled'
      BY <2>1, <2>2, <3>1, <3>2, <1>0 DEF EntryIsSettled, HolderSees, LockIsHeld, NoRecord, Settled, McpTypeOK
    <3>96. TransportIsOwned'
      BY <2>1, <2>2, <3>1, <3>2, <1>0 DEF TransportIsOwned, LockIsHeld, HolderSees, McpTypeOK
    <3>97. CallNeverReplayed'
      BY <2>1, <2>2, <3>1, <3>2, <1>0 DEF CallNeverReplayed, SentOnce, McpTypeOK
    <3> QED BY <3>91, <3>92, <3>93, <3>94, <3>95, <3>96, <3>97 DEF McpInv, EntryIsSound
  <2>4. CASE mop[o].kind # "call"
    <3>1. mlock' = "free" /\ UNCHANGED <<client, told>>
      BY <2>1, <2>4 DEF GivesUp
    <3>2. /\ mop' \in [McpOps -> OpRecords] /\ OthersKept(o)
          /\ mop'[o].pc = "record" /\ mop'[o].kind = mop[o].kind
          /\ mop'[o].mark = "Disconnected" /\ mop'[o].result = mop[o].result
      BY <2>1, <2>4, <1>0, WillRecordMarks DEF GivesUp
    <3>91. McpTypeOK'
      BY <2>1, <2>2, <3>1, <3>2, <1>0 DEF McpTypeOK
    <3>92. LockIsHeld' /\ HolderSees'
      BY <2>1, <2>2, <3>1, <3>2, <1>0, ReleaseKeeps
    <3>94. SentOnce'
      BY <2>1, <2>2, <3>1, <3>2, <1>0 DEF SentOnce, McpTypeOK
    <3>95. EntryIsSettled'
      BY <2>1, <2>2, <3>1, <3>2, <1>0 DEF EntryIsSettled, HolderSees, LockIsHeld, NoRecord, Settled, McpTypeOK
    <3>96. TransportIsOwned'
      BY <2>1, <2>2, <3>1, <3>2, <1>0 DEF TransportIsOwned, LockIsHeld, HolderSees, McpTypeOK
    <3>97. CallNeverReplayed'
      BY <2>1, <2>2, <3>1, <3>2, <1>0 DEF CallNeverReplayed, SentOnce, McpTypeOK
    <3> QED BY <3>91, <3>92, <3>94, <3>95, <3>96, <3>97 DEF McpInv, EntryIsSound
  <2> QED BY <2>3, <2>4
<1>14. ASSUME UNCHANGED <<mstate, merror, client, mlock, mop, sent, transports, told, created>> PROVE McpInv'
  BY <1>14, <1>0 DEF McpInv, McpTypeOK, LockIsHeld, HolderSees, SentOnce, EntryIsSound, EntryIsSettled,
     Settled, NoRecord, TransportIsOwned, CallNeverReplayed
<1>15. ASSUME NEW o \in McpOps, CancelOp(o) PROVE McpInv'
  BY <1>14, <1>15 DEF CancelOp
<1>16. CASE ServerCrashes \/ ServerHangsUp \/ ServerGoes
  <2>1. /\ transports' \subseteq transports /\ told \subseteq told'
        /\ UNCHANGED <<mstate, merror, client, mlock, mop, sent, created>>
    BY <1>16 DEF ServerCrashes, ServerHangsUp, ServerGoes
  <2> QED BY <2>1, <1>0 DEF McpInv, McpTypeOK, LockIsHeld, HolderSees, SentOnce, EntryIsSound, EntryIsSettled,
     Settled, NoRecord, TransportIsOwned, CallNeverReplayed
<1>17. CASE UNCHANGED mcpVars
  BY <1>14, <1>17 DEF mcpVars
<1> QED
  BY <1>1, <1>2, <1>3, <1>4, <1>5, <1>6, <1>7, <1>8, <1>9, <1>10, <1>11, <1>12, <1>13, <1>15, <1>16, <1>17, <1>18, <1>19
  DEF McpNext, McpStep, OwnStep

(* However connects, refreshes, calls and disconnects of any number of     *)
(* operations, the server's failures, cancellations and the ends of closed *)
(* clients interleave on an entry: with nobody at work it says what is the *)
(* case, a transport that is there is its own or told to close, and a call *)
(* was sent once at most (ensure_connected, call_tool, close_entry).       *)
THEOREM EntrySound == McpSpec => []EntryIsSound
<1>1. McpInv => EntryIsSound
  BY DEF McpInv
<1> QED BY <1>1, McpInitInv, McpStepInv, PTL DEF McpSpec

-----------------------------------------------------------------------------
(* A set of naturals that is not empty has a first one.                    *)
LEMMA FirstOf ==
  ASSUME NEW S \in SUBSET Nat, S # {}
  PROVE  \E n \in S : \A m \in S : n <= m
<1> DEFINE R == OpToRel(<, Nat)
<1>1. IsWellFoundedOn(R, Nat)
  BY NatLessThanWellFounded, Zenon
<1>2. \E n \in S : \A m \in S : ~(<<m, n>> \in R)
  <2> HIDE DEF R
  <2> QED BY <1>1, WFMin, Zenon
<1>3. \A m, n \in Nat : <<m, n>> \in R <=> m < n
  BY DEF OpToRel
<1> HIDE DEF R
<1>4. PICK n \in S : \A m \in S : ~(<<m, n>> \in R)
  BY <1>2
<1>5. \A m \in S : n <= m
  <2> SUFFICES ASSUME NEW m \in S PROVE n <= m
    OBVIOUS
  <2>1. m \in Nat /\ n \in Nat
    OBVIOUS
  <2>2. ~(m < n)
    BY <1>3, <1>4, <2>1
  <2> QED BY <2>1, <2>2
<1> QED BY <1>5

-----------------------------------------------------------------------------
(* The terminal: who may report its end, and the text of its output.       *)
TermTypeOK ==
  /\ shell \in {"alive", "exited", "killed"} /\ listed \in BOOLEAN /\ closed \in BOOLEAN
  /\ closedBy \in {"nobody", "reaper", "close"} /\ reaper \in {"polling", "seen", "publish", "gone"}
  /\ closer \in [Closers -> {"idle", "found", "kill", "remove", "publish", "done", "not found"}]
  /\ exits \in Seq({"exited", "closed"})
  /\ printed \in Seq(ShellBytes) /\ unread \in Seq(ShellBytes) /\ pending \in Seq(ShellBytes) /\ shown \in Seq(ShellBytes)

(* The flag is set by one, and the reaper reports only when it was it.     *)
FlagIsTaken ==
  /\ closed <=> closedBy # "nobody"
  /\ reaper = "publish" => closedBy = "reaper"
  /\ reaper # "gone" => \A i \in 1 .. Len(exits) : exits[i] # "exited"

TermInv == TermTypeOK /\ FlagIsTaken /\ TerminalIsFaithful

(* from_utf8: the longest prefix of whole characters.                      *)
LEMMA ValidIsLongest ==
  ASSUME NEW s \in Seq(ShellBytes)
  PROVE  /\ ValidUpTo(s) \in 0 .. Len(s) /\ WholeUpTo(s, ValidUpTo(s))
         /\ \A k \in (ValidUpTo(s) + 1) .. Len(s) : ~WholeUpTo(s, k)
<1> DEFINE S == {m \in 0 .. Len(s) : WholeUpTo(s, Len(s) - m)}
<1>1. Len(s) \in Nat
  BY LenProperties
<1>2. S \in SUBSET Nat /\ Len(s) \in S
  BY <1>1 DEF WholeUpTo
<1>3. \E m \in S : \A l \in S : m <= l
  <2> HIDE DEF S
  <2> QED BY <1>2, FirstOf
<1>4. PICK m \in S : \A l \in S : m <= l
  BY <1>3
<1> DEFINE n == Len(s) - m
<1>5. n \in 0 .. Len(s) /\ WholeUpTo(s, n)
  BY <1>1, <1>4
<1>6. ASSUME NEW k \in (n + 1) .. Len(s), WholeUpTo(s, k) PROVE FALSE
  <2>1. Len(s) - k \in 0 .. Len(s) /\ Len(s) - (Len(s) - k) = k /\ Len(s) - k < m
    BY <1>1, <1>4, <1>6
  <2>2. Len(s) - k \in S
    BY <1>6, <2>1
  <2> QED BY <1>1, <1>4, <2>1, <2>2
<1> HIDE DEF n
<1>7. \E v \in 0 .. Len(s) : WholeUpTo(s, v) /\ \A k \in (v + 1) .. Len(s) : ~WholeUpTo(s, k)
  BY <1>5, <1>6
<1> QED BY <1>7 DEF ValidUpTo

(* A sequence cut in two is its two parts.                                 *)
LEMMA CutAndJoin ==
  ASSUME NEW s \in Seq(ShellBytes), NEW n \in 0 .. Len(s)
  PROVE  /\ SubSeq(s, 1, n) \in Seq(ShellBytes) /\ Len(SubSeq(s, 1, n)) = n
         /\ \A i \in 1 .. n : SubSeq(s, 1, n)[i] = s[i]
         /\ SubSeq(s, n + 1, Len(s)) \in Seq(ShellBytes) /\ Len(SubSeq(s, n + 1, Len(s))) = Len(s) - n
         /\ SubSeq(s, 1, n) \o SubSeq(s, n + 1, Len(s)) = s
<1>1. Len(s) \in Nat /\ \A i \in 1 .. Len(s) : s[i] \in ShellBytes
  BY LenProperties, ElementOfSeq
<1>2. SubSeq(s, 1, n) \in Seq(ShellBytes) /\ Len(SubSeq(s, 1, n)) = n /\ \A i \in 1 .. n : SubSeq(s, 1, n)[i] = s[i]
  <2>1. 1 \in Int /\ n \in Int /\ \A i \in 1 .. n : s[i] \in ShellBytes
    BY <1>1
  <2>2. /\ SubSeq(s, 1, n) \in Seq(ShellBytes) /\ Len(SubSeq(s, 1, n)) = IF 1 <= n THEN n - 1 + 1 ELSE 0
        /\ \A i \in 1 .. n - 1 + 1 : SubSeq(s, 1, n)[i] = s[1 + i - 1]
    BY <2>1, SubSeqProperties
  <2> QED BY <1>1, <2>2
<1>3. SubSeq(s, n + 1, Len(s)) \in Seq(ShellBytes) /\ Len(SubSeq(s, n + 1, Len(s))) = Len(s) - n
  <2>1. n + 1 \in Int /\ Len(s) \in Int /\ \A i \in n + 1 .. Len(s) : s[i] \in ShellBytes
    BY <1>1
  <2>2. /\ SubSeq(s, n + 1, Len(s)) \in Seq(ShellBytes)
        /\ Len(SubSeq(s, n + 1, Len(s))) = IF n + 1 <= Len(s) THEN Len(s) - (n + 1) + 1 ELSE 0
    BY <2>1, SubSeqProperties
  <2> QED BY <1>1, <2>2
<1>4. SubSeq(s, 1, n) \o SubSeq(s, n + 1, Len(s)) = s
  <2>1. 1 \in 1 .. Len(s) + 1 /\ n \in 1 - 1 .. Len(s) /\ Len(s) \in n .. Len(s)
    BY <1>1
  <2>2. SubSeq(s, 1, n) \o SubSeq(s, n + 1, Len(s)) = SubSeq(s, 1, Len(s))
    BY <2>1, ConcatAdjacentSubSeq
  <2> QED BY <2>2, SubSeqFull
<1> QED BY <1>2, <1>3, <1>4

(* Joining bytes is associative.                                           *)
LEMMA JoinBytes ==
  \A s, t, u \in Seq(ShellBytes) : (s \o t) \o u = s \o (t \o u)
BY ConcatAssociative

(* Text cut at a boundary of well-formed output: at most half a character  *)
(* is kept back, and what is shown does not end inside one.                *)
LEMMA CutIsClean ==
  ASSUME NEW before \in Seq(ShellBytes), NEW s \in Seq(ShellBytes), NEW after \in Seq(ShellBytes),
         WellFormed((before \o s) \o after), before # <<>> => before[Len(before)] # "lead", s # <<>>
  PROVE  /\ Len(s) - ValidUpTo(s) <= 1
         /\ ValidUpTo(s) > 0 => s[ValidUpTo(s)] # "lead"
<1> DEFINE b == Len(before) l == Len(s) all == (before \o s) \o after
<1>1. b \in Nat /\ l \in Nat /\ Len(after) \in Nat /\ l >= 1
  BY LenProperties, EmptySeq
<1>2. /\ before \o s \in Seq(ShellBytes) /\ Len(before \o s) = b + l
      /\ \A i \in 1 .. b + l : (before \o s)[i] = IF i <= b THEN before[i] ELSE s[i - b]
  BY ConcatProperties
<1>3. /\ all \in Seq(ShellBytes) /\ Len(all) = b + l + Len(after)
      /\ \A i \in 1 .. b + l + Len(after) : all[i] = IF i <= b + l THEN (before \o s)[i] ELSE after[i - (b + l)]
  BY <1>2, ConcatProperties
<1>4. DOMAIN all = 1 .. Len(all)
  BY <1>3, LenProperties
<1> HIDE DEF all
<1>5. \A i \in 1 .. l : b + i \in DOMAIN all /\ all[b + i] = s[i]
  <2> SUFFICES ASSUME NEW i \in 1 .. l PROVE b + i \in DOMAIN all /\ all[b + i] = s[i]
    OBVIOUS
  <2>1. b + i \in 1 .. b + l /\ b + i \in 1 .. b + l + Len(after) /\ ~(b + i <= b) /\ (b + i) - b = i
    BY <1>1
  <2> QED BY <1>2, <1>3, <1>4, <2>1
<1>6. b > 0 => b \in DOMAIN all /\ all[b] = before[b]
  <2>1. b > 0 => b \in 1 .. b + l /\ b \in 1 .. b + l + Len(after) /\ b <= b + l
    BY <1>1
  <2> QED BY <1>1, <1>2, <1>3, <1>4, <2>1
<1>7. \A i \in DOMAIN all : /\ all[i] = "cont" => i > 1 /\ all[i - 1] = "lead"
                            /\ all[i] = "lead" /\ i < Len(all) => all[i + 1] = "cont"
  BY DEF WellFormed, all
<1>8. s[1] # "cont"
  <2> SUFFICES ASSUME s[1] = "cont" PROVE FALSE
    OBVIOUS
  <2>1. b + 1 \in DOMAIN all /\ all[b + 1] = "cont"
    BY <1>1, <1>5
  <2>2. b + 1 > 1 /\ all[(b + 1) - 1] = "lead"
    BY <1>7, <2>1
  <2>3. b > 0 /\ (b + 1) - 1 = b
    BY <1>1, <2>2
  <2>4. before # <<>>
    BY <2>3
  <2> QED BY <1>6, <2>2, <2>3, <2>4
<1>9. ASSUME NEW i \in 1 .. l, s[i] = "cont" PROVE i > 1 /\ s[i - 1] = "lead"
  <2>1. i > 1
    BY <1>1, <1>8, <1>9
  <2>2. b + i \in DOMAIN all /\ all[b + i] = "cont"
    BY <1>5, <1>9
  <2>3. all[(b + i) - 1] = "lead"
    BY <1>7, <2>2
  <2>4. i - 1 \in 1 .. l /\ (b + i) - 1 = b + (i - 1)
    BY <1>1, <2>1
  <2> QED BY <1>5, <2>1, <2>3, <2>4
<1>10. ASSUME NEW i \in 1 .. l, s[i] = "lead", i < l PROVE s[i + 1] = "cont"
  <2>1. b + i \in DOMAIN all /\ all[b + i] = "lead" /\ b + i < Len(all)
    BY <1>1, <1>3, <1>5, <1>10
  <2>2. all[(b + i) + 1] = "cont"
    BY <1>7, <2>1
  <2>3. i + 1 \in 1 .. l /\ (b + i) + 1 = b + (i + 1)
    BY <1>1, <1>10
  <2> QED BY <1>5, <2>2, <2>3
<1>11. WholeUpTo(s, l) \/ WholeUpTo(s, l - 1)
  <2>1. CASE s[l] # "lead"
    <3>1. ASSUME NEW i \in 1 .. l
          PROVE  (s[i] = "cont" => i > 1 /\ s[i - 1] = "lead") /\ (s[i] = "lead" => i < l /\ s[i + 1] = "cont")
      <4>1. s[i] = "lead" => i < l
        BY <1>1, <2>1
      <4> QED BY <1>9, <1>10, <4>1
    <3> QED BY <3>1 DEF WholeUpTo
  <2>2. CASE s[l] = "lead"
    <3>1. ASSUME NEW i \in 1 .. l - 1
          PROVE  (s[i] = "cont" => i > 1 /\ s[i - 1] = "lead") /\ (s[i] = "lead" => i < l - 1 /\ s[i + 1] = "cont")
      <4>1. i \in 1 .. l /\ i < l
        BY <1>1
      <4>2. s[i] = "lead" => i # l - 1
        BY <1>1, <1>10, <2>2, <4>1
      <4>3. i # l - 1 => i < l - 1
        BY <1>1
      <4> QED BY <1>9, <1>10, <4>1, <4>2, <4>3
    <3> QED BY <3>1 DEF WholeUpTo
  <2> QED BY <2>1, <2>2
<1> DEFINE v == ValidUpTo(s)
<1>12. v \in 0 .. l /\ WholeUpTo(s, v) /\ \A k \in (v + 1) .. l : ~WholeUpTo(s, k)
  BY ValidIsLongest
<1> HIDE DEF v
<1>13. l - v <= 1
  <2>1. CASE WholeUpTo(s, l)
    <3>1. ~(l \in (v + 1) .. l)
      BY <1>12, <2>1
    <3> QED BY <1>1, <1>12, <3>1
  <2>2. CASE WholeUpTo(s, l - 1)
    <3>1. ~(l - 1 \in (v + 1) .. l)
      BY <1>12, <2>2
    <3> QED BY <1>1, <1>12, <3>1
  <2> QED BY <1>11, <2>1, <2>2
<1>14. v > 0 => s[v] # "lead"
  <2>1. v > 0 => v \in 1 .. v /\ ~(v < v)
    BY <1>1, <1>12
  <2> QED BY <1>12, <2>1 DEF WholeUpTo
<1> QED BY <1>13, <1>14 DEF v

(* The reader takes bytes: nothing is lost, and the cut is clean.          *)
LEMMA TakeKeeps ==
  ASSUME TermInv, NEW n, ReaderTakes(n)
  PROVE  TermInv'
<1> DEFINE c == SubSeq(unread, 1, n) r == SubSeq(unread, n + 1, Len(unread)) s == pending \o c v == ValidUpTo(s)
           text == SubSeq(s, 1, v) rest == SubSeq(s, v + 1, Len(s))
<1>1. /\ n \in 1 .. Len(unread) /\ unread' = r /\ shown' = shown \o text /\ pending' = rest
      /\ UNCHANGED <<shell, listed, closed, closedBy, reaper, closer, exits, printed>>
  BY DEF ReaderTakes, TakeCompleteUtf8, lifeVars
<1>2. /\ printed \in Seq(ShellBytes) /\ unread \in Seq(ShellBytes) /\ pending \in Seq(ShellBytes) /\ shown \in Seq(ShellBytes)
      /\ Len(unread) \in Nat /\ Len(pending) \in Nat /\ Len(shown) \in Nat
  BY LenProperties DEF TermInv, TermTypeOK
<1>3. n \in 0 .. Len(unread) /\ n >= 1
  BY <1>1, <1>2
<1>4. c \in Seq(ShellBytes) /\ Len(c) = n /\ r \in Seq(ShellBytes) /\ c \o r = unread
  BY <1>2, <1>3, CutAndJoin
<1> HIDE DEF c, r
<1>5. s \in Seq(ShellBytes) /\ Len(s) = Len(pending) + n
  BY <1>2, <1>4, ConcatProperties
<1> HIDE DEF s
<1>6. v \in 0 .. Len(s) /\ Len(s) \in Nat
  BY <1>5, ValidIsLongest, LenProperties
<1> HIDE DEF v
<1>7. /\ text \in Seq(ShellBytes) /\ Len(text) = v /\ (\A i \in 1 .. v : text[i] = s[i])
      /\ rest \in Seq(ShellBytes) /\ Len(rest) = Len(s) - v /\ text \o rest = s
  BY <1>5, <1>6, CutAndJoin
<1> HIDE DEF text, rest
<1>8. (shown \o s) \o r = printed
  <2>1. (shown \o pending) \o unread = printed
    BY DEF TermInv, TerminalIsFaithful, UnicodeIntact
  <2>2. shown \o s = (shown \o pending) \o c
    BY <1>2, <1>4, JoinBytes, Zenon DEF s
  <2>3. shown \o pending \in Seq(ShellBytes)
    BY <1>2, ConcatProperties
  <2>4. ((shown \o pending) \o c) \o r = (shown \o pending) \o (c \o r)
    BY <1>4, <2>3, JoinBytes, Zenon
  <2> QED BY <1>4, <2>1, <2>2, <2>4
<1>9. (shown' \o pending') \o unread' = printed'
  <2>1. (shown \o text) \o rest = shown \o (text \o rest)
    BY <1>2, <1>7, JoinBytes, Zenon
  <2> QED BY <1>1, <1>7, <1>8, <2>1
<1>10. ASSUME shell' = "alive", WellFormed(printed')
       PROVE  Len(pending') <= 1 /\ (shown' # <<>> => shown'[Len(shown')] # "lead")
  <2>1. WellFormed((shown \o s) \o r) /\ shell = "alive" /\ WellFormed(printed)
    BY <1>1, <1>8, <1>10
  <2>2. shown # <<>> => shown[Len(shown)] # "lead"
    BY <2>1 DEF TermInv, TerminalIsFaithful, UnicodeIntact
  <2>3. s # <<>>
    BY <1>2, <1>3, <1>5
  <2>4. Len(s) - v <= 1 /\ (v > 0 => s[v] # "lead")
    BY <1>2, <1>4, <1>5, <2>1, <2>2, <2>3, CutIsClean DEF v
  <2>5. Len(pending') <= 1
    BY <1>1, <1>7, <2>4
  <2>6. CASE v = 0
    <3>1. text = <<>>
      BY <1>7, <2>6, EmptySeq
    <3>2. shown' = shown
      BY <1>1, <1>2, <3>1, ConcatEmptySeq
    <3> QED BY <2>2, <2>5, <3>2
  <2>7. CASE v > 0
    <3>1. /\ Len(shown') = Len(shown) + v
          /\ \A i \in 1 .. Len(shown) + v : shown'[i] = IF i <= Len(shown) THEN shown[i] ELSE text[i - Len(shown)]
      BY <1>1, <1>2, <1>7, ConcatProperties
    <3>2. Len(shown) + v \in 1 .. Len(shown) + v /\ ~(Len(shown) + v <= Len(shown)) /\ (Len(shown) + v) - Len(shown) = v /\ v \in 1 .. v
      BY <1>2, <1>6, <2>7
    <3>3. shown'[Len(shown')] = text[v]
      BY <3>1, <3>2
    <3> QED BY <1>7, <2>4, <2>5, <2>7, <3>2, <3>3
  <2> QED BY <1>6, <2>6, <2>7
<1>11. UnicodeIntact'
  BY <1>9, <1>10 DEF UnicodeIntact
<1>12. ReaperDefers' /\ FlagIsTaken'
  BY <1>1 DEF TermInv, TerminalIsFaithful, ReaperDefers, FlagIsTaken
<1>13. shown' \in Seq(ShellBytes)
  BY <1>1, <1>2, <1>7, ConcatProperties
<1>14. TermTypeOK'
  BY <1>1, <1>4, <1>7, <1>13 DEF TermInv, TermTypeOK
<1> QED BY <1>11, <1>12, <1>14 DEF TermInv, TerminalIsFaithful

(* A report added at the end leaves the earlier ones where they were.      *)
LEMMA ReportAdded ==
  ASSUME NEW s \in Seq({"exited", "closed"}), NEW e \in {"exited", "closed"}
  PROVE  /\ Append(s, e) \in Seq({"exited", "closed"}) /\ Len(s) \in Nat
         /\ DOMAIN s = 1 .. Len(s) /\ DOMAIN Append(s, e) = 1 .. Len(s) + 1 /\ Len(Append(s, e)) = Len(s) + 1
         /\ \A i \in 1 .. Len(s) : Append(s, e)[i] = s[i]
         /\ Append(s, e)[Len(s) + 1] = e
<1>1. Len(s) \in Nat /\ DOMAIN s = 1 .. Len(s)
  BY LenProperties
<1>2. /\ Append(s, e) \in Seq({"exited", "closed"}) /\ Len(Append(s, e)) = Len(s) + 1
      /\ \A i \in 1 .. Len(s) : Append(s, e)[i] = s[i]
      /\ Append(s, e)[Len(s) + 1] = e
  BY AppendProperties
<1>3. DOMAIN Append(s, e) = 1 .. Len(Append(s, e))
  BY <1>2, LenProperties
<1> QED BY <1>1, <1>2, <1>3

(* A step of the session's end that leaves the text alone and brings no    *)
(* shell back to life cuts no character.                                   *)
LEMMA TextUntouched ==
  ASSUME UnicodeIntact, UNCHANGED textVars, shell' = "alive" => shell = "alive"
  PROVE  UnicodeIntact'
BY DEF UnicodeIntact, textVars, WellFormed

(* The flag is swapped: by the first, while nobody has reported an exit.   *)
LEMMA SwapKeeps ==
  ASSUME TermInv, NEW who \in {"reaper", "close"}, Swap(who), UNCHANGED exits
  PROVE  /\ closed' = TRUE /\ closedBy' \in {"reaper", "close"} /\ ReaperDefers'
         /\ closedBy = "reaper" => closedBy' = "reaper"
         /\ ~closed => closedBy' = who
<1>1. /\ closed' = TRUE /\ closed \in BOOLEAN /\ closedBy' = IF closed THEN closedBy ELSE who
  BY DEF TermInv, TermTypeOK, Swap
<1>2. closedBy \in {"nobody", "reaper", "close"} /\ (closed <=> closedBy # "nobody")
  BY DEF TermInv, TermTypeOK, FlagIsTaken
<1>3. closedBy' \in {"reaper", "close"} /\ (closedBy = "reaper" => closedBy' = "reaper")
  BY <1>1, <1>2
<1>4. ReaperDefers'
  BY <1>3 DEF TermInv, TerminalIsFaithful, ReaperDefers
<1> QED BY <1>1, <1>3, <1>4

(* The reaper thread and the shell's own end.                              *)
LEMMA ReaperKeeps ==
  ASSUME TermInv, ShellExits \/ Reaper
  PROVE  TermInv'
<1> USE DEF TermInv
<1>1. CASE ShellExits
  <2>1. UnicodeIntact'
    BY <1>1, TextUntouched DEF ShellExits, TerminalIsFaithful
  <2>2. TermTypeOK' /\ FlagIsTaken' /\ ReaperDefers'
    BY <1>1 DEF ShellExits, TermTypeOK, FlagIsTaken, TerminalIsFaithful, ReaperDefers, textVars
  <2> QED BY <2>1, <2>2 DEF TerminalIsFaithful
<1>2. CASE ReaperPolls
  <2>1. UnicodeIntact'
    BY <1>2, TextUntouched DEF ReaperPolls, TerminalIsFaithful
  <2>2. TermTypeOK' /\ FlagIsTaken' /\ ReaperDefers'
    BY <1>2 DEF ReaperPolls, TermTypeOK, FlagIsTaken, TerminalIsFaithful, ReaperDefers, textVars
  <2> QED BY <2>1, <2>2 DEF TerminalIsFaithful
<1>3. CASE ReaperSwaps
  <2>1. UnicodeIntact'
    BY <1>3, TextUntouched DEF ReaperSwaps, TerminalIsFaithful
  <2>2. /\ Swap("reaper") /\ reaper = "seen" /\ reaper' = (IF closed THEN "gone" ELSE "publish")
        /\ UNCHANGED <<shell, listed, closer, exits, textVars>>
    BY <1>3 DEF ReaperSwaps, ReaperReports
  <2>3. /\ closed' = TRUE /\ closedBy' \in {"reaper", "close"} /\ ReaperDefers'
        /\ (~closed => closedBy' = "reaper")
    BY <2>2, SwapKeeps
  <2>4. TermTypeOK'
    BY <2>2, <2>3 DEF TermTypeOK, textVars
  <2>5. FlagIsTaken'
    BY <2>2, <2>3 DEF FlagIsTaken, TermTypeOK
  <2> QED BY <2>1, <2>3, <2>4, <2>5 DEF TerminalIsFaithful
<1>4. CASE ReaperPublishes
  <2>1. UnicodeIntact'
    BY <1>4, TextUntouched DEF ReaperPublishes, TerminalIsFaithful
  <2>2. /\ reaper = "publish" /\ reaper' = "gone" /\ exits' = Append(exits, "exited")
        /\ UNCHANGED <<shell, listed, closed, closedBy, closer, textVars>>
    BY <1>4 DEF ReaperPublishes
  <2>3. exits \in Seq({"exited", "closed"}) /\ closedBy = "reaper"
    BY <2>2 DEF TermTypeOK, FlagIsTaken
  <2>4. /\ exits' \in Seq({"exited", "closed"}) /\ Len(exits) \in Nat /\ DOMAIN exits' = 1 .. Len(exits) + 1
        /\ \A i \in 1 .. Len(exits) : exits'[i] = exits[i]
    BY <2>2, <2>3, ReportAdded
  <2>5. \A i \in 1 .. Len(exits) : exits'[i] # "exited"
    BY <2>2, <2>4 DEF FlagIsTaken
  <2>6. ReaperDefers'
    <3> SUFFICES ASSUME NEW i \in DOMAIN exits', exits'[i] = "exited"
                 PROVE  closedBy' = "reaper" /\ \A k \in DOMAIN exits' : exits'[k] = "exited" => k = i
      BY DEF ReaperDefers
    <3>1. i = Len(exits) + 1 /\ \A k \in DOMAIN exits' : exits'[k] = "exited" => k = Len(exits) + 1
      BY <2>4, <2>5
    <3> QED BY <2>2, <2>3, <3>1
  <2>7. TermTypeOK'
    BY <2>2, <2>4 DEF TermTypeOK, textVars
  <2>8. FlagIsTaken'
    BY <2>2, <2>3 DEF FlagIsTaken
  <2> QED BY <2>1, <2>6, <2>7, <2>8 DEF TerminalIsFaithful
<1> QED BY <1>1, <1>2, <1>3, <1>4 DEF Reaper

(* A close call.                                                           *)
LEMMA CloseKeeps ==
  ASSUME TermInv, NEW c \in Closers, Close(c)
  PROVE  TermInv'
<1> USE DEF TermInv
<1>1. CASE CloseFinds(c)
  <2>1. UnicodeIntact'
    BY <1>1, TextUntouched DEF CloseFinds, TerminalIsFaithful
  <2>2. TermTypeOK'
    BY <1>1 DEF CloseFinds, TermTypeOK, textVars
  <2>3. FlagIsTaken' /\ ReaperDefers'
    BY <1>1 DEF CloseFinds, FlagIsTaken, TerminalIsFaithful, ReaperDefers
  <2> QED BY <2>1, <2>2, <2>3 DEF TerminalIsFaithful
<1>2. CASE CloseSwaps(c)
  <2>1. UnicodeIntact'
    BY <1>2, TextUntouched DEF CloseSwaps, TerminalIsFaithful
  <2>2. /\ Swap("close") /\ closer' = [closer EXCEPT ![c] = IF closed THEN "remove" ELSE "kill"]
        /\ UNCHANGED <<shell, listed, reaper, exits, textVars>>
    BY <1>2 DEF CloseSwaps
  <2>3. /\ closed' = TRUE /\ closedBy' \in {"reaper", "close"} /\ ReaperDefers'
        /\ (closedBy = "reaper" => closedBy' = "reaper")
    BY <2>2, SwapKeeps
  <2>4. TermTypeOK'
    BY <2>2, <2>3 DEF TermTypeOK, textVars
  <2>5. FlagIsTaken'
    BY <2>2, <2>3 DEF FlagIsTaken
  <2> QED BY <2>1, <2>3, <2>4, <2>5 DEF TerminalIsFaithful
<1>3. CASE CloseKills(c)
  <2>1. UnicodeIntact'
    BY <1>3, TextUntouched DEF CloseKills, TerminalIsFaithful
  <2>2. TermTypeOK'
    BY <1>3 DEF CloseKills, TermTypeOK, textVars
  <2>3. FlagIsTaken' /\ ReaperDefers'
    BY <1>3 DEF CloseKills, FlagIsTaken, TerminalIsFaithful, ReaperDefers
  <2> QED BY <2>1, <2>2, <2>3 DEF TerminalIsFaithful
<1>4. CASE CloseRemoves(c)
  <2>1. UnicodeIntact'
    BY <1>4, TextUntouched DEF CloseRemoves, TerminalIsFaithful
  <2>2. TermTypeOK'
    BY <1>4 DEF CloseRemoves, TermTypeOK, textVars
  <2>3. FlagIsTaken' /\ ReaperDefers'
    BY <1>4 DEF CloseRemoves, FlagIsTaken, TerminalIsFaithful, ReaperDefers
  <2> QED BY <2>1, <2>2, <2>3 DEF TerminalIsFaithful
<1>5. CASE ClosePublishes(c)
  <2>1. UnicodeIntact'
    BY <1>5, TextUntouched DEF ClosePublishes, TerminalIsFaithful
  <2>2. /\ closer' = [closer EXCEPT ![c] = "done"] /\ exits' = Append(exits, "closed")
        /\ UNCHANGED <<shell, listed, closed, closedBy, reaper, textVars>>
    BY <1>5 DEF ClosePublishes
  <2>3. exits \in Seq({"exited", "closed"})
    BY DEF TermTypeOK
  <2>4. /\ exits' \in Seq({"exited", "closed"}) /\ Len(exits) \in Nat
        /\ DOMAIN exits = 1 .. Len(exits) /\ DOMAIN exits' = 1 .. Len(exits) + 1 /\ Len(exits') = Len(exits) + 1
        /\ \A i \in 1 .. Len(exits) : exits'[i] = exits[i]
        /\ exits'[Len(exits) + 1] = "closed"
    BY <2>2, <2>3, ReportAdded
  <2>5. \A i \in DOMAIN exits' : exits'[i] = "exited" => i \in DOMAIN exits /\ exits[i] = "exited"
    BY <2>4
  <2>6. ReaperDefers'
    <3>1. ReaperDefers
      BY DEF TerminalIsFaithful
    <3> QED BY <2>2, <2>5, <3>1 DEF ReaperDefers
  <2>7. TermTypeOK'
    BY <2>2, <2>4 DEF TermTypeOK, textVars
  <2>8. FlagIsTaken'
    BY <2>2, <2>4, <2>5 DEF FlagIsTaken
  <2> QED BY <2>1, <2>6, <2>7, <2>8 DEF TerminalIsFaithful
<1> QED BY <1>1, <1>2, <1>3, <1>4, <1>5 DEF Close, CloseStep

(* A byte printed reaches the terminal; output that is well-formed after   *)
(* it was so before.                                                       *)
LEMMA PrintKeeps ==
  ASSUME TermInv, NEW b \in ShellBytes, ShellPrints(b)
  PROVE  TermInv'
<1>1. /\ printed' = Append(printed, b) /\ unread' = Append(unread, b)
      /\ UNCHANGED <<shell, listed, closed, closedBy, reaper, closer, exits, pending, shown>>
  BY DEF ShellPrints, lifeVars
<1>2. printed \in Seq(ShellBytes) /\ unread \in Seq(ShellBytes) /\ pending \in Seq(ShellBytes) /\ shown \in Seq(ShellBytes)
  BY DEF TermInv, TermTypeOK
<1>3. /\ printed' \in Seq(ShellBytes) /\ unread' \in Seq(ShellBytes) /\ Len(printed) \in Nat
      /\ Len(printed') = Len(printed) + 1 /\ DOMAIN printed = 1 .. Len(printed) /\ DOMAIN printed' = 1 .. Len(printed')
      /\ \A i \in 1 .. Len(printed) : printed'[i] = printed[i]
  <2>1. /\ Append(printed, b) \in Seq(ShellBytes) /\ Len(Append(printed, b)) = Len(printed) + 1
        /\ \A i \in 1 .. Len(printed) : Append(printed, b)[i] = printed[i]
    BY <1>2, AppendProperties
  <2>2. Append(unread, b) \in Seq(ShellBytes)
    BY <1>2, AppendProperties
  <2>3. DOMAIN Append(printed, b) = 1 .. Len(Append(printed, b))
    BY <2>1, LenProperties
  <2>4. Len(printed) \in Nat /\ DOMAIN printed = 1 .. Len(printed)
    BY <1>2, LenProperties
  <2> QED BY <1>1, <2>1, <2>2, <2>3, <2>4
<1>4. (shown' \o pending') \o unread' = printed'
  <2>1. (shown \o pending) \o unread = printed
    BY DEF TermInv, TerminalIsFaithful, UnicodeIntact
  <2>2. shown \o pending \in Seq(ShellBytes) /\ <<b>> \in Seq(ShellBytes)
    BY <1>2, ConcatProperties
  <2> DEFINE p == shown \o pending one == <<b>>
  <2> HIDE DEF p, one
  <2>3. (p \o unread) \o one = p \o (unread \o one)
    <3>1. p \in Seq(ShellBytes) /\ one \in Seq(ShellBytes)
      BY <2>2 DEF p, one
    <3> QED BY <1>2, <3>1, JoinBytes
  <2>4. Append(unread, b) = unread \o <<b>> /\ Append(printed, b) = printed \o <<b>>
    BY <1>2, AppendIsConcat
  <2> QED BY <1>1, <2>1, <2>3, <2>4 DEF p, one
<1>5. WellFormed(printed') => WellFormed(printed)
  <2> SUFFICES ASSUME WellFormed(printed'), NEW i \in DOMAIN printed
               PROVE  /\ printed[i] = "cont" => i > 1 /\ printed[i - 1] = "lead"
                      /\ printed[i] = "lead" /\ i < Len(printed) => printed[i + 1] = "cont"
    BY DEF WellFormed
  <2>1. i \in 1 .. Len(printed) /\ i \in DOMAIN printed' /\ printed'[i] = printed[i]
    BY <1>3
  <2>2. /\ printed'[i] = "cont" => i > 1 /\ printed'[i - 1] = "lead"
        /\ printed'[i] = "lead" /\ i < Len(printed') => printed'[i + 1] = "cont"
    BY <2>1 DEF WellFormed
  <2>3. i > 1 => i - 1 \in 1 .. Len(printed)
    BY <1>3, <2>1
  <2>4. i < Len(printed) => i + 1 \in 1 .. Len(printed) /\ i < Len(printed')
    BY <1>3, <2>1
  <2> QED BY <1>3, <2>1, <2>2, <2>3, <2>4
<1>6. UnicodeIntact'
  BY <1>1, <1>4, <1>5 DEF TermInv, TerminalIsFaithful, UnicodeIntact
<1>7. TermTypeOK'
  BY <1>1, <1>3 DEF TermInv, TermTypeOK
<1>8. FlagIsTaken' /\ ReaperDefers'
  BY <1>1 DEF TermInv, TerminalIsFaithful, FlagIsTaken, ReaperDefers
<1> QED BY <1>6, <1>7, <1>8 DEF TermInv, TerminalIsFaithful

(* The end of the stream: what was kept back is shown.                     *)
LEMMA FlushKeeps ==
  ASSUME TermInv, ReaderFlushes
  PROVE  TermInv'
<1>1. /\ shell # "alive" /\ unread = <<>> /\ shown' = shown \o pending /\ pending' = <<>>
      /\ UNCHANGED <<shell, listed, closed, closedBy, reaper, closer, exits, printed, unread>>
  BY DEF ReaderFlushes, lifeVars
<1>2. printed \in Seq(ShellBytes) /\ unread \in Seq(ShellBytes) /\ pending \in Seq(ShellBytes) /\ shown \in Seq(ShellBytes)
  BY DEF TermInv, TermTypeOK
<1>3. shown' \in Seq(ShellBytes) /\ pending' \in Seq(ShellBytes)
  BY <1>1, <1>2, ConcatProperties
<1>4. shown' \o <<>> = shown'
  BY <1>3, ConcatEmptySeq
<1>5. (shown' \o pending') \o unread' = printed'
  <2>1. (shown \o pending) \o unread = printed
    BY DEF TermInv, TerminalIsFaithful, UnicodeIntact
  <2> QED BY <1>1, <1>4, <2>1
<1>6. UnicodeIntact'
  BY <1>1, <1>5 DEF UnicodeIntact
<1>7. TermTypeOK'
  BY <1>1, <1>2, <1>3 DEF TermInv, TermTypeOK
<1>8. FlagIsTaken' /\ ReaperDefers'
  BY <1>1 DEF TermInv, TerminalIsFaithful, FlagIsTaken, ReaperDefers
<1> QED BY <1>6, <1>7, <1>8 DEF TermInv, TerminalIsFaithful

(* The inductive invariant holds when the session is opened ...            *)
LEMMA TermInitInv == TermInit => TermInv
<1> SUFFICES ASSUME TermInit PROVE TermInv
  OBVIOUS
<1>1. TermTypeOK
  <2>1. <<>> \in Seq(ShellBytes) /\ <<>> \in Seq({"exited", "closed"})
    BY EmptySeq
  <2>2. closer \in [Closers -> {"idle", "found", "kill", "remove", "publish", "done", "not found"}]
    BY DEF TermInit
  <2> QED BY <2>1, <2>2 DEF TermInit, TermTypeOK
<1>2. FlagIsTaken /\ ReaperDefers
  BY DEF TermInit, FlagIsTaken, ReaperDefers
<1>3. (shown \o pending) \o unread = printed /\ Len(pending) <= 1 /\ shown = <<>>
  BY DEF TermInit
<1> QED BY <1>1, <1>2, <1>3 DEF TermInv, TerminalIsFaithful, UnicodeIntact

(* ... and every step keeps it.                                            *)
LEMMA TermStepInv == TermInv /\ [TermNext]_termVars => TermInv'
<1> SUFFICES ASSUME TermInv, [TermNext]_termVars PROVE TermInv'
  OBVIOUS
<1>1. CASE ShellExits \/ Reaper
  BY <1>1, ReaperKeeps
<1>2. CASE ReaderFlushes
  BY <1>2, FlushKeeps
<1>3. CASE \E n \in 1 .. MaxPrinted : ReaderTakes(n)
  BY <1>3, TakeKeeps
<1>4. CASE \E c \in Closers : Close(c)
  BY <1>4, CloseKeeps
<1>5. CASE \E b \in ShellBytes : ShellPrints(b)
  BY <1>5, PrintKeeps
<1>6. CASE UNCHANGED termVars
  BY <1>6 DEF termVars, TermInv, TermTypeOK, FlagIsTaken, TerminalIsFaithful, ReaperDefers, UnicodeIntact, WellFormed
<1> QED BY <1>1, <1>2, <1>3, <1>4, <1>5, <1>6 DEF TermNext, Reader

(* However many calls close a session and whatever its shell prints, its   *)
(* reaper reports the end at most once and never when a close was first;   *)
(* no byte is lost or shown twice, and text is not cut inside a character  *)
(* while the output is well-formed (spawn_reaper, close,                   *)
(* take_complete_utf8).                                                    *)
THEOREM TerminalFaithful == TermSpec => []TerminalIsFaithful
<1>1. TermInv => TerminalIsFaithful
  BY DEF TermInv
<1> QED BY <1>1, TermInitInv, TermStepInv, PTL DEF TermSpec
=============================================================================
