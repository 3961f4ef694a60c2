----------------------------- MODULE RunControl -----------------------------
(***************************************************************************)
(* Clients, the active run and the approval broker of the RPC runtime      *)
(* (crates/harness-rpc/src/server.rs).                                     *)
(*                                                                         *)
(* Every connection is served by two threads: the reader dispatches the    *)
(* client's requests one at a time, the writer drains the client's message *)
(* channel.  BOTH of them call ServerState::unregister when they end.      *)
(* agent.run starts a worker thread; at most one run is active.  While it  *)
(* works, the run may ask for approval: ApprovalBroker::request blocks the *)
(* worker until a client answers, a client leaves, the broker's            *)
(* cancellation token is cancelled or the deadline passes.                 *)
(*                                                                         *)
(* Every mutex of the code is taken for one assignment, so one critical    *)
(* section is one step here: unregister is four steps of its thread,       *)
(* start_run two, request one per lock it takes.                           *)
(*                                                                         *)
(* A run is named by its CancellationToken (start_run makes one per        *)
(* request, before it knows whether the run is accepted).                  *)
(***************************************************************************)
EXTENDS Naturals, FiniteSets

CONSTANTS
    Clients,       \* connections; next_client gives each accept a fresh id
    NoClient,      \* the broker has no sender
    MaxStarts,     \* bound: agent.run requests that reach start_run's token
    MaxApprovals   \* bound: approval ids issued

ASSUME NoClientAssumption == NoClient \notin Clients
ASSUME BoundsAssumption == MaxStarts \in Nat /\ MaxApprovals \in Nat

NoRun == 0
NoApproval == 0
Runs == 1 .. MaxStarts
Approvals == 1 .. MaxApprovals
Kinds == {"reader", "writer"}
Threads == Clients \X Kinds

VARIABLES
    pc,            \* what each connection thread does next
    clients,       \* ServerState::clients
    sender,        \* ApprovalBroker::sender: the client prompts are sent to
    token,         \* the token a reader created in start_run
    started,       \* tokens created so far
    brokerToken,   \* ApprovalBroker::cancellation
    cancelled,     \* the tokens that are cancelled
    activeRun,     \* ServerState::active_run
    worker,        \* what the worker thread of each run does next
    asked,         \* approval ids issued so far (ApprovalBroker::next_id)
    wants,         \* the approval the run's request() is about
    to,            \* the client whose sender request() cloned
    pending,       \* ApprovalBroker::pending
    slot,          \* the one-place channel behind each pending entry
    verdict,       \* history: what request() returned for the approval
    approved       \* history: approvals some client's agent.approve resolved

connVars == <<pc, clients, sender, token>>
runVars == <<started, brokerToken, cancelled, activeRun, worker>>
approvalVars == <<asked, wants, to, pending, slot, verdict, approved>>
vars == <<connVars, runVars, approvalVars>>

Unregistering == {"remove", "clear", "deny", "cancel", "done"}
PcValues == {"accept", "register", "none", "reading", "starting", "writing"}
              \cup Unregistering
Requesting == {"asking", "sending", "waiting"}
InFlight == {"running", "returned"} \cup Requesting
WorkerValues == {"none", "report", "done"} \cup InFlight

Reader(c) == <<c, "reader">>
Writer(c) == <<c, "writer">>

Init ==
    /\ pc = [t \in Threads |-> IF t[2] = "reader" THEN "accept" ELSE "none"]
    /\ clients = {}
    /\ sender = NoClient
    /\ token = [c \in Clients |-> NoRun]
    /\ started = 0
    /\ brokerToken = NoRun
    /\ cancelled = {}
    /\ activeRun = NoRun
    /\ worker = [r \in Runs |-> "none"]
    /\ asked = 0
    /\ wants = [r \in Runs |-> NoApproval]
    /\ to = [a \in Approvals |-> NoClient]
    /\ pending = {}
    /\ slot = [a \in Approvals |-> "empty"]
    /\ verdict = [a \in Approvals |-> "none"]
    /\ approved = {}

-----------------------------------------------------------------------------
(* Connecting: register() inserts the client, then makes it the receiver   *)
(* of prompts (the newest connection always takes over); serve_connection  *)
(* then spawns the writer and starts to read.                              *)

Register(c) ==
    /\ pc[Reader(c)] = "accept"
    /\ clients' = clients \cup {c}
    /\ pc' = [pc EXCEPT ![Reader(c)] = "register"]
    /\ UNCHANGED <<sender, token, runVars, approvalVars>>

SetSender(c) ==
    /\ pc[Reader(c)] = "register"
    /\ sender' = c
    /\ pc' = [pc EXCEPT ![Reader(c)] = "reading", ![Writer(c)] = "writing"]
    /\ UNCHANGED <<clients, token, runVars, approvalVars>>

(* Leaving.  The reader ends on EOF, on a read error or on an oversized    *)
(* line; the writer on a write error, or when its channel is closed, which *)
(* is when neither the client table nor the broker holds a sender.         *)

ReaderEnds(c) ==
    /\ pc[Reader(c)] = "reading"
    /\ pc' = [pc EXCEPT ![Reader(c)] = "remove"]
    /\ UNCHANGED <<clients, sender, token, runVars, approvalVars>>

WriterFails(c) ==
    /\ pc[Writer(c)] = "writing"
    /\ pc' = [pc EXCEPT ![Writer(c)] = "remove"]
    /\ UNCHANGED <<clients, sender, token, runVars, approvalVars>>

WriterDrained(c) ==
    /\ c \notin clients
    /\ sender # c
    /\ WriterFails(c)

(* ServerState::unregister, one step per lock: clients, sender, pending,   *)
(* active_run.  It cancels the active run whoever started it.              *)

UnregisterRemove(t) ==
    /\ pc[t] = "remove"
    /\ clients' = clients \ {t[1]}
    /\ pc' = [pc EXCEPT ![t] = "clear"]
    /\ UNCHANGED <<sender, token, runVars, approvalVars>>

(* Mutation: clear_sender is left out of unregister.                       *)
ClearSenderSkipped(t) ==
    /\ pc[t] = "clear"
    /\ pc' = [pc EXCEPT ![t] = "deny"]
    /\ UNCHANGED <<clients, sender, token, runVars, approvalVars>>

ClearSender(t) ==
    /\ pc[t] = "clear"
    /\ sender' = IF sender = t[1] THEN NoClient ELSE sender
    /\ pc' = [pc EXCEPT ![t] = "deny"]
    /\ UNCHANGED <<clients, token, runVars, approvalVars>>

DenyAll(t) ==
    /\ pc[t] = "deny"
    /\ slot' = [a \in Approvals |-> IF a \in pending THEN "no" ELSE slot[a]]
    /\ pending' = {}
    /\ pc' = [pc EXCEPT ![t] = "cancel"]
    /\ UNCHANGED <<clients, sender, token, runVars,
                   asked, wants, to, verdict, approved>>

(* Mutations: the active run is not cancelled; the Option is not checked.  *)
CancelActiveSkipped(t) ==
    /\ pc[t] = "cancel"
    /\ pc' = [pc EXCEPT ![t] = "done"]
    /\ UNCHANGED <<clients, sender, token, runVars, approvalVars>>

CancelActive(t) ==
    /\ pc[t] = "cancel"
    /\ cancelled' = cancelled \cup ({activeRun} \ {NoRun})
    /\ pc' = [pc EXCEPT ![t] = "done"]
    /\ UNCHANGED <<clients, sender, token, started, brokerToken, activeRun,
                   worker, approvalVars>>

Unregister(t) ==
    UnregisterRemove(t) \/ ClearSender(t) \/ DenyAll(t) \/ CancelActive(t)

-----------------------------------------------------------------------------
(* Requests of a client.                                                   *)

(* start_run gives the broker the new token BEFORE begin_run decides       *)
(* whether the run is accepted.                                            *)
StartRun(c) ==
    /\ pc[Reader(c)] = "reading"
    /\ started < MaxStarts
    /\ started' = started + 1
    /\ token' = [token EXCEPT ![c] = started + 1]
    /\ brokerToken' = started + 1
    /\ pc' = [pc EXCEPT ![Reader(c)] = "starting"]
    /\ UNCHANGED <<clients, sender, cancelled, activeRun, worker, approvalVars>>

(* Mutation: begin_run does not look whether a run is active.              *)
BeginRunUnchecked(c) ==
    /\ pc[Reader(c)] = "starting"
    /\ pc' = [pc EXCEPT ![Reader(c)] = "reading"]
    /\ activeRun' = token[c]
    /\ worker' = [worker EXCEPT ![token[c]] = "running"]
    /\ token' = [token EXCEPT ![c] = NoRun]
    /\ UNCHANGED <<clients, sender, started, brokerToken, cancelled, approvalVars>>

BeginRun(c) ==
    /\ pc[Reader(c)] = "starting"
    /\ pc' = [pc EXCEPT ![Reader(c)] = "reading"]
    /\ \/ /\ activeRun = NoRun
          /\ activeRun' = token[c]
          /\ worker' = [worker EXCEPT ![token[c]] = "running"]
       \/ /\ activeRun # NoRun            \* run_in_progress
          /\ UNCHANGED <<activeRun, worker>>
    /\ token' = [token EXCEPT ![c] = NoRun]
    /\ UNCHANGED <<clients, sender, started, brokerToken, cancelled, approvalVars>>

(* agent.approve / agent.deny: resolve() takes the entry out of pending    *)
(* and puts the answer in its channel; an unknown id is approval_not_found.*)
Resolve(c, a, answer) ==
    /\ pc[Reader(c)] = "reading"
    /\ a \in pending
    /\ pending' = pending \ {a}
    /\ slot' = [slot EXCEPT ![a] = answer]
    /\ approved' = IF answer = "yes" THEN approved \cup {a} ELSE approved
    /\ UNCHANGED <<connVars, runVars, asked, wants, to, verdict>>

(* agent.cancel: only the active run can be cancelled (run_not_active).    *)
CancelRun(c, r) ==
    /\ pc[Reader(c)] = "reading"
    /\ activeRun = r
    /\ cancelled' = cancelled \cup {r}
    /\ UNCHANGED <<connVars, started, brokerToken, activeRun, worker,
                   approvalVars>>

-----------------------------------------------------------------------------
(* The worker thread of a run.                                             *)

(* request() inserts a fresh id; the agent loop checks its token before    *)
(* every tool call, so a run that knows it is cancelled does not ask.      *)
RequestApproval(r) ==
    /\ worker[r] = "running"
    /\ r \notin cancelled
    /\ asked < MaxApprovals
    /\ asked' = asked + 1
    /\ wants' = [wants EXCEPT ![r] = asked + 1]
    /\ pending' = pending \cup {asked + 1}
    /\ worker' = [worker EXCEPT ![r] = "asking"]
    /\ UNCHANGED <<connVars, started, brokerToken, cancelled, activeRun,
                   to, slot, verdict, approved>>

ReadSender(r) ==
    /\ worker[r] = "asking"
    /\ to' = [to EXCEPT ![wants[r]] = sender]
    /\ worker' = [worker EXCEPT ![r] = "sending"]
    /\ UNCHANGED <<connVars, started, brokerToken, cancelled, activeRun,
                   asked, wants, pending, slot, verdict, approved>>

(* What request() does on each of its returns: the entry is removed and    *)
(* the channel dropped.  A refusal is an error that ends the run.          *)
RequestReturns(r, result) ==
    /\ pending' = pending \ {wants[r]}
    /\ slot' = [slot EXCEPT ![wants[r]] = "empty"]
    /\ to' = [to EXCEPT ![wants[r]] = NoClient]
    /\ wants' = [wants EXCEPT ![r] = NoApproval]
    /\ verdict' = [verdict EXCEPT ![wants[r]] = result]
    /\ worker' = [worker EXCEPT
                    ![r] = IF result = "granted" THEN "running" ELSE "returned"]
    /\ UNCHANGED <<connVars, started, brokerToken, cancelled, activeRun,
                   asked, approved>>

(* The channel's receiver lives as long as the client's writer loop.       *)
Reachable(c) == c # NoClient /\ pc[Writer(c)] = "writing"

SendPrompt(r) ==
    /\ worker[r] = "sending"
    /\ \/ /\ Reachable(to[wants[r]])
          /\ worker' = [worker EXCEPT ![r] = "waiting"]
          /\ UNCHANGED <<connVars, started, brokerToken, cancelled, activeRun,
                         approvalVars>>
       \/ /\ ~Reachable(to[wants[r]])
          /\ RequestReturns(r, "refused")

WaitCancelled(r) ==
    /\ worker[r] = "waiting"
    /\ brokerToken \in cancelled
    /\ RequestReturns(r, "refused")

(* Mutations: an expired prompt counts as approved; a prompt never expires.*)
WaitTimeoutGrants(r) ==
    /\ worker[r] = "waiting"
    /\ RequestReturns(r, "granted")

WaitTimeout(r) ==
    /\ worker[r] = "waiting"
    /\ RequestReturns(r, "refused")

WaitAnswer(r) ==
    /\ worker[r] = "waiting"
    /\ slot[wants[r]] # "empty"
    /\ RequestReturns(r, IF slot[wants[r]] = "yes" THEN "granted" ELSE "refused")

(* run_agent returns, finish_run clears the active run, and only then is   *)
(* agent.completed or agent.failed broadcast.                              *)
Return(r) ==
    /\ worker[r] = "running"
    /\ worker' = [worker EXCEPT ![r] = "returned"]
    /\ UNCHANGED <<connVars, started, brokerToken, cancelled, activeRun,
                   approvalVars>>

FinishRun(r) ==
    /\ worker[r] = "returned"
    /\ activeRun' = IF activeRun = r THEN NoRun ELSE activeRun
    /\ worker' = [worker EXCEPT ![r] = "report"]
    /\ UNCHANGED <<connVars, started, brokerToken, cancelled, approvalVars>>

Broadcast(r) ==
    /\ worker[r] = "report"
    /\ worker' = [worker EXCEPT ![r] = "done"]
    /\ UNCHANGED <<connVars, started, brokerToken, cancelled, activeRun,
                   approvalVars>>

-----------------------------------------------------------------------------
Connection(c) ==
    Register(c) \/ SetSender(c) \/ ReaderEnds(c) \/ WriterFails(c)
        \/ WriterDrained(c)

Request(c) ==
    \/ StartRun(c) \/ BeginRun(c)
    \/ \E a \in Approvals, answer \in {"yes", "no"} : Resolve(c, a, answer)
    \/ \E r \in Runs : CancelRun(c, r)

WaitEnds(r) == WaitCancelled(r) \/ WaitTimeout(r) \/ WaitAnswer(r)

Work(r) ==
    \/ RequestApproval(r) \/ ReadSender(r) \/ SendPrompt(r) \/ WaitEnds(r)
    \/ Return(r) \/ FinishRun(r) \/ Broadcast(r)

Next ==
    \/ \E c \in Clients : Connection(c) \/ Request(c)
    \/ \E t \in Threads : Unregister(t)
    \/ \E r \in Runs : Work(r)

Spec == Init /\ [][Next]_vars

(***************************************************************************)
(* Threads of the server are scheduled; clients and the model are not      *)
(* assumed to do anything.  A wait ends because its deadline is a timer.   *)
(* run_agent is only assumed to return once its token is cancelled: the    *)
(* loop checks it before every turn and every tool call.                   *)
(***************************************************************************)
Fairness ==
    /\ \A c \in Clients : WF_vars(SetSender(c)) /\ WF_vars(BeginRun(c))
                            /\ WF_vars(WriterDrained(c))
    /\ \A t \in Threads : WF_vars(Unregister(t))
    /\ \A r \in Runs :
         /\ WF_vars(ReadSender(r)) /\ WF_vars(SendPrompt(r))
         /\ WF_vars(WaitEnds(r))
         /\ WF_vars(r \in cancelled /\ Return(r))
         /\ WF_vars(FinishRun(r)) /\ WF_vars(Broadcast(r))

FairSpec == Spec /\ Fairness

-----------------------------------------------------------------------------
(* Every variable holds a value of its type: the states of the threads,    *)
(* the ids issued so far, and the channels of the approvals.               *)
TypeOK ==
    /\ pc \in [Threads -> PcValues]
    /\ clients \subseteq Clients
    /\ sender \in Clients \cup {NoClient}
    /\ token \in [Clients -> 0 .. MaxStarts]
    /\ started \in 0 .. MaxStarts
    /\ brokerToken \in 0 .. MaxStarts
    /\ cancelled \subseteq Runs
    /\ activeRun \in 0 .. MaxStarts
    /\ worker \in [Runs -> WorkerValues]
    /\ asked \in 0 .. MaxApprovals
    /\ wants \in [Runs -> 0 .. MaxApprovals]
    /\ to \in [Approvals -> Clients \cup {NoClient}]
    /\ pending \subseteq Approvals
    /\ slot \in [Approvals -> {"empty", "yes", "no"}]
    /\ verdict \in [Approvals -> {"none", "granted", "refused"}]
    /\ approved \subseteq Approvals

(* begin_run and finish_run keep agent executions apart: whatever clients  *)
(* request and however workers end, two runs never execute at once, and    *)
(* active_run names exactly the run whose agent has not been cleaned up.   *)
OneRunExecutes ==
    \A r \in Runs : worker[r] \in InFlight <=> activeRun = r

(* A tool is only let through by a person: request() returns true for an   *)
(* id only if some client's agent.approve resolved that id, never because  *)
(* of a disconnect, a timeout, a cancellation or an answer to another id.  *)
GrantNeedsApproval ==
    \A a \in Approvals : verdict[a] = "granted" => a \in approved

(* The thread has run deny_all.                                            *)
PastDeny(t) == pc[t] \in {"cancel", "done"}

(* A dropped client denies pending approvals, in every interleaving of     *)
(* request() with unregister(): once a client's unregister is past         *)
(* deny_all, no run waits unanswered on a prompt that went to this client. *)
NoOrphanPrompt ==
    \A r \in Runs :
       worker[r] = "waiting" /\ slot[wants[r]] = "empty" =>
          \A k \in Kinds : ~PastDeny(<<to[wants[r]], k>>)

(* The pending table holds no leftovers: whatever returns out of request() *)
(* and however it races with resolve() and deny_all(), each pending id     *)
(* belongs to a run that is still inside request(), with an empty channel. *)
PendingHasWaiter ==
    \A a \in pending :
       /\ slot[a] = "empty"
       /\ \E r \in Runs : worker[r] \in Requesting /\ wants[r] = a

(* A run whose token is cancelled comes to its end and reports it, even    *)
(* when it is blocked in an approval nobody answers.                       *)
CancelledRunEnds ==
    \A r \in Runs : r \in cancelled ~> worker[r] = "done"

(* When a connection thread begins unregister() during a run, that run     *)
(* ends: a dropped client cancels the active run.                          *)
DropEndsRun ==
    \A r \in Runs :
       (activeRun = r /\ \E t \in Threads : pc[t] = "remove")
          ~> worker[r] = "done"

\* Both ways to end a run from outside end it: its client's connection drops, or
\* it is cancelled (unregister, cancel_active, the polling of request).
ControlEndsRun == DropEndsRun /\ CancelledRunEnds
=============================================================================
