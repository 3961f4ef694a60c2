-------------------------------- MODULE Mcp --------------------------------
(***************************************************************************)
(* One MCP server of McpManager (harness-mcp): the entry behind its mutex, *)
(* the operations that share it, and a server that may refuse, hang, crash *)
(* or list its tools over several pages.  Operations on different servers  *)
(* share nothing.  A client is numbered when its transport is created.     *)
(***************************************************************************)
EXTENDS Naturals, FiniteSets

CONSTANTS McpOps,       \* operations, each performed once
          MaxPages      \* pages of the server's tool catalogue

\* The operations are told from the free lock.
ASSUME OpsAssumption == "free" \notin McpOps

VARIABLES mstate,       \* entry.state
          merror,       \* entry.error.is_some()
          client,       \* entry.client, 0 when None
          toolListed,   \* entry.tools holds the tool that calls ask for
          mlock,        \* the operation that holds the entry, or "free"
          mop,          \* operation -> [kind, pc, page, mark, result]
          mcancel,      \* operations whose run was cancelled
          sent,         \* operation -> tools/call requests sent for it
          transports,   \* clients whose server process or HTTP session is there
          told,         \* clients whose service was told to close, or found its connection lost
          closing,      \* the client whose end the holder of the entry awaits, or 0
          created       \* transports created so far

mcpVars == <<mstate, merror, client, toolListed, mlock, mop, mcancel, sent, transports, told, closing, created>>

McpKinds == {"refresh", "list", "read", "call", "disconnect"}

McpInit == /\ mstate = "Disconnected" /\ merror = FALSE /\ client = 0 /\ toolListed = FALSE
           /\ mlock = "free" /\ mcancel = {} /\ transports = {} /\ told = {} /\ closing = 0 /\ created = 0
           /\ mop = [o \in McpOps |-> [kind |-> "none", pc |-> "idle", page |-> 0, mark |-> "none", result |-> "none"]]
           /\ sent = [o \in McpOps |-> 0]

At(o, pc) == mop[o].pc = pc
Goto(o, pc) == mop' = [mop EXCEPT ![o].pc = pc]
Returns(o, result) == mop' = [mop EXCEPT ![o].pc = "done", ![o].result = result]
\* The operation released the entry, and is to lock it again to close its client.
WillRecord(o, state) == mop' = [mop EXCEPT ![o].pc = "record", ![o].mark = state]

\* A request for a server that is not configured, or with arguments over the limit, is refused.
Ask(o) == /\ At(o, "idle")
          /\ \E k \in McpKinds : \/ mop' = [mop EXCEPT ![o].kind = k, ![o].pc = "lock"]
                              \/ mop' = [mop EXCEPT ![o].kind = k, ![o].pc = "done", ![o].result = "refused"]
          /\ UNCHANGED <<mstate, merror, client, toolListed, mlock, mcancel, sent, transports, told, closing, created>>

Open(c) == c \in transports \ told

(***************************************************************************)
(* client.cancel().await: the service is told to close and its end is      *)
(* awaited, with the entry held.  There is no time-out on it but in        *)
(* disconnect.  Some callers write the entry's state before it and some    *)
(* after it; nobody sees the entry before it is released.                  *)
(***************************************************************************)
Tell == told' = IF client = 0 THEN told ELSE told \cup {client}
BeginsClose(o, state) ==
  /\ client' = 0 /\ closing' = client /\ Tell
  /\ mop' = [mop EXCEPT ![o].pc = "closing", ![o].mark = state]

Result(o) == IF mop[o].kind = "disconnect" THEN "ok" ELSE IF mop[o].mark = "Failed" THEN "failed" ELSE "cancelled"
CloseEnds(o) == /\ At(o, "closing")
                /\ closing \notin transports \/ mop[o].kind = "disconnect"
                /\ closing' = 0 /\ mstate' = mop[o].mark /\ merror' = (mop[o].mark = "Failed")
                /\ toolListed' = (toolListed /\ mop[o].kind # "disconnect")
                /\ Returns(o, Result(o)) /\ mlock' = "free"
                /\ UNCHANGED <<client, mcancel, sent, transports, told, created>>

(***************************************************************************)
(* ensure_connected: an open client is kept; the end of a closed one is    *)
(* awaited and another connection made, within REQUEST_TIMEOUT.            *)
(***************************************************************************)
HasOpenClient == client # 0 /\ Open(client)

AfterConnect(o) == IF mop[o].kind = "read" \/ (mop[o].kind = "call" /\ toolListed) THEN "request" ELSE "pages"

Connects(o) == /\ mstate' = "Connecting" /\ merror' = FALSE
               /\ created' = created + 1 /\ transports' = transports \cup {created'}
               /\ Goto(o, "connecting")

Lock(o) == /\ At(o, "lock") /\ mlock = "free" /\ mlock' = o
           /\ \/ /\ mop[o].kind = "disconnect" /\ Goto(o, "disconnect")
                 /\ UNCHANGED <<mstate, merror, client, transports, told, closing, created>>
              \/ /\ mop[o].kind # "disconnect" /\ HasOpenClient /\ Goto(o, AfterConnect(o))
                 /\ UNCHANGED <<mstate, merror, client, transports, told, closing, created>>
              \/ /\ mop[o].kind # "disconnect" /\ client # 0 /\ ~Open(client) /\ Goto(o, "dropping")
                 /\ client' = 0 /\ closing' = client /\ Tell
                 /\ UNCHANGED <<mstate, merror, transports, created>>
              \/ /\ mop[o].kind # "disconnect" /\ client = 0 /\ Connects(o)
                 /\ UNCHANGED <<client, told, closing>>
           /\ UNCHANGED <<toolListed, mcancel, sent>>
OldClientEnds(o) == /\ At(o, "dropping") /\ closing \notin transports
               /\ closing' = 0 /\ Connects(o)
               /\ UNCHANGED <<client, toolListed, mlock, mcancel, sent, told>>

ConnectSucceeds(o) == /\ At(o, "connecting") /\ Open(created)
                      /\ client' = created /\ mstate' = "Connected"
                      /\ Goto(o, AfterConnect(o))
                      /\ UNCHANGED <<merror, toolListed, mlock, mcancel, sent, transports, told, closing, created>>

\* Mutant: the process of an abandoned connection not killed on drop.
ConnectionLeft == transports
\* The future of a connection that is not finished is dropped, and its process with it.
ConnectionDropped == transports \ {created}

(***************************************************************************)
(* An operation that failed or was cancelled.  A call takes the client     *)
(* away while it holds the entry; the other operations release the entry   *)
(* and lock it again to do so.                                             *)
(***************************************************************************)
Ends(o, state) == Returns(o, IF state = "Failed" THEN "failed" ELSE "cancelled")

GivesUp(o, state) ==
  /\ \/ mop[o].kind = "call" /\ BeginsClose(o, state) /\ UNCHANGED mlock
     \/ mop[o].kind # "call" /\ WillRecord(o, state) /\ mlock' = "free" /\ UNCHANGED <<client, closing, told>>
  /\ UNCHANGED <<mstate, merror, transports>>

\* Refused by the server, or timed out.
ConnectFails(o) == /\ At(o, "connecting")
                   /\ mlock' = "free" /\ mstate' = "Failed" /\ merror' = TRUE
                   /\ transports' = ConnectionDropped
                   /\ IF mop[o].kind = "call" THEN Ends(o, "Failed")
                      ELSE WillRecord(o, "Failed")
                   /\ UNCHANGED <<client, toolListed, mcancel, sent, told, closing, created>>
\* The poll of is_cancelled every 40 ms, while an old client ends or a new one connects.
PreparationCancelled(o) ==
  /\ o \in mcancel /\ mlock' = "free" /\ closing' = 0
  /\ \/ At(o, "connecting") /\ transports' = ConnectionDropped
     \/ At(o, "dropping") /\ UNCHANGED transports
  /\ \/ mop[o].kind = "call" /\ mstate' = "Disconnected" /\ merror' = FALSE /\ Ends(o, "Disconnected")
     \/ mop[o].kind # "call" /\ WillRecord(o, "Disconnected") /\ UNCHANGED <<mstate, merror>>
  /\ UNCHANGED <<client, toolListed, mcancel, sent, told, created>>

\* The entry is locked again: whatever client it holds by then is closed.
Record(o) == /\ At(o, "record") /\ mlock = "free" /\ mlock' = o
             /\ BeginsClose(o, mop[o].mark)
             /\ UNCHANGED <<mstate, merror, toolListed, mcancel, sent, transports, created>>

(***************************************************************************)
(* refresh_server, the tool call and the resource read.  The catalogue is  *)
(* replaced when all of its pages were read; resources are optional.       *)
(***************************************************************************)
NextPage(o) == /\ At(o, "pages") /\ Open(client) /\ mop[o].page < MaxPages - 1
               /\ mop' = [mop EXCEPT ![o].page = @ + 1]
               /\ UNCHANGED <<mstate, merror, client, toolListed, mlock, mcancel, sent, transports, told, closing, created>>
LastPage(o) == /\ At(o, "pages") /\ Open(client)
               /\ toolListed' \in BOOLEAN /\ mstate' = "Connected" /\ merror' = FALSE
               /\ \/ mop[o].kind = "call" /\ toolListed' /\ Goto(o, "request") /\ mlock' = mlock
                  \/ mop[o].kind = "call" /\ ~toolListed' /\ Returns(o, "unknown tool") /\ mlock' = "free"
                  \/ mop[o].kind # "call" /\ Returns(o, "ok") /\ mlock' = "free"
               /\ UNCHANGED <<client, mcancel, sent, transports, told, closing, created>>

Send(o) == /\ At(o, "request")
           /\ IF mop[o].kind = "call" /\ o \in mcancel
              THEN Returns(o, "cancelled") /\ mlock' = "free" /\ UNCHANGED sent
              ELSE /\ Goto(o, "waiting") /\ UNCHANGED mlock
                   /\ sent' = [sent EXCEPT ![o] = IF mop[o].kind = "call" THEN @ + 1 ELSE @]
           /\ UNCHANGED <<mstate, merror, client, toolListed, mcancel, transports, told, closing, created>>
Answered(o) == /\ At(o, "waiting") /\ Open(client)
               /\ Returns(o, "ok") /\ mlock' = "free"
               /\ UNCHANGED <<mstate, merror, client, toolListed, mcancel, sent, transports, told, closing, created>>

Awaits(o) == At(o, "pages") \/ At(o, "waiting")
\* An error of the server or of the transport, or REQUEST_TIMEOUT.
RequestFails(o) == /\ Awaits(o) /\ GivesUp(o, "Failed")
                   /\ UNCHANGED <<toolListed, mcancel, sent, created>>
RequestCancelled(o) == /\ Awaits(o) /\ o \in mcancel /\ GivesUp(o, "Disconnected")
                       /\ UNCHANGED <<toolListed, mcancel, sent, created>>

Disconnect(o) == /\ At(o, "disconnect") /\ BeginsClose(o, "Disconnected")
                 /\ UNCHANGED <<mstate, merror, toolListed, mlock, mcancel, sent, transports, created>>

\* Outside the manager.  A server may crash, or end its connection and stay; it may take any
\* time to go when its client was told to close, and may never go.
CancelOp(o) == /\ ~At(o, "done") /\ mop[o].kind # "disconnect" /\ o \notin mcancel
               /\ mcancel' = mcancel \cup {o}
               /\ UNCHANGED <<mstate, merror, client, toolListed, mlock, mop, sent, transports, told, closing, created>>
ServerCrashes == /\ transports # {} /\ transports' = {}
                 /\ UNCHANGED <<mstate, merror, client, toolListed, mlock, mop, mcancel, sent, told, closing, created>>
ServerHangsUp == /\ ~(transports \subseteq told) /\ told' = told \cup transports
                 /\ UNCHANGED <<mstate, merror, client, toolListed, mlock, mop, mcancel, sent, transports, closing, created>>
ServerGoes == \E c \in told \cap transports :
                 /\ transports' = transports \ {c}
                 /\ UNCHANGED <<mstate, merror, client, toolListed, mlock, mop, mcancel, sent, told, closing, created>>

\* Mutant: no time-out on a connection attempt.
StepWithoutConnectTimeout(o) == Lock(o) \/ OldClientEnds(o) \/ Record(o) \/ Send(o) \/ Disconnect(o) \/ CloseEnds(o) \/ RequestFails(o)
\* What happens without any help from the server: the runtime's own steps and the time-outs.
OwnStep(o) == \/ Lock(o) \/ OldClientEnds(o) \/ Record(o) \/ Send(o) \/ Disconnect(o) \/ CloseEnds(o)
              \/ ConnectFails(o) \/ RequestFails(o)

McpStep(o) == \/ Ask(o) \/ OwnStep(o) \/ ConnectSucceeds(o) \/ PreparationCancelled(o) \/ NextPage(o) \/ LastPage(o)
              \/ Answered(o) \/ RequestCancelled(o) \/ CancelOp(o)

McpNext == ServerCrashes \/ ServerHangsUp \/ ServerGoes \/ \E o \in McpOps : McpStep(o)
\* tokio's mutex is fair and the poll of is_cancelled comes; every request to the server is under
\* REQUEST_TIMEOUT.  Nothing is assumed of the server.
McpFairness == \A o \in McpOps : /\ WF_mcpVars(OwnStep(o)) /\ WF_mcpVars(PreparationCancelled(o))
                                 /\ SF_mcpVars(Lock(o)) /\ SF_mcpVars(Record(o))
McpSpec == McpInit /\ [][McpNext]_mcpVars /\ McpFairness

(***************************************************************************)
(* Properties.                                                             *)
(***************************************************************************)

\* Whatever failed, crashed or was cancelled before: when nobody is at work on the entry, it says
\* Connected exactly when it holds a client, shows an error exactly when it failed, and is never
\* left Connecting (refresh_cancellable, close_entry, call_tool).
EntryIsSettled == (mlock = "free" /\ \A o \in McpOps : ~At(o, "record")) =>
                    /\ mstate # "Connecting"
                    /\ (mstate = "Connected") = (client # 0)
                    /\ merror = (mstate = "Failed")

\* No server process or HTTP session is forgotten: it is the client of the entry, or of the
\* connection attempt of the operation that holds it, or was told to close (kill_on_drop, client.cancel).
TransportIsOwned == \A c \in transports :
                      \/ c = client \/ c \in told
                      \/ c = created /\ mlock # "free" /\ At(mlock, "connecting")

\* A tools/call request is sent at most once, whatever becomes of the connection: a call that failed,
\* timed out or was cancelled is not repeated by the manager (call_tool).
CallNeverReplayed == \A o \in McpOps : sent[o] <= 1 /\ (mop[o].result = "ok" /\ mop[o].kind = "call" => sent[o] = 1)

\* Every operation returns, also when the server hangs or crashes at any point: the requests to the
\* server end by time-out and the entry's mutex is handed on.  Excepted is a server that hangs when
\* its client is closed: the holder of the entry awaits its end without a time-out.
CloseHangs == \E o \in McpOps : At(o, "closing") \/ At(o, "dropping")
OperationReturns == <>[]CloseHangs \/ \A o \in McpOps : At(o, "lock") ~> At(o, "done")

\* With nobody at work the entry of a server says what is the case, its open
\* transport is the entry's, and a call was sent once at most (McpManager).
EntryIsSound == EntryIsSettled /\ TransportIsOwned /\ CallNeverReplayed

\* "Cancellation tears down an uncertain connection" (docs/architecture.md:187) and "always takes
\* effect" (README.md:662): an operation whose run was cancelled ends.  The code awaits the end of
\* the client it tears down, without a time-out.
CancellationTakesEffect == \A o \in McpOps : o \in mcancel /\ At(o, "lock") ~> At(o, "done")
=============================================================================
