----------------------------- MODULE RunsProofs -----------------------------
(***************************************************************************)
(* Proofs about the runs of a session, from the request that starts one to *)
(* the children it delegates to.  For any connections and bounds: at most  *)
(* one run executes, approvals are granted only by a client, and no prompt *)
(* is orphaned by a client that left.  For any limits and tool calls, any  *)
(* number of runs and any abrupt error or end of the process: a task that  *)
(* is done has settled what its runs remember, and what a run remembers is *)
(* handed on to the next.  A batch of children of any size reports each of *)
(* them truly and leaves none untold.                                      *)
(***************************************************************************)
EXTENDS RunControl, AgentLoop, Delegation, FiniteSetTheorems, SequenceTheorems, TLAPS

-----------------------------------------------------------------------------
(* Runs and approvals: RunControl.                                         *)


(* A run inside request() either has its entry in pending, with an empty   *)
(* channel, or the entry was taken out and the channel holds the answer.   *)
RequestState ==
    \A r \in Runs : worker[r] \in Requesting =>
       /\ wants[r] \in 1 .. asked
       /\ wants[r] \in pending <=> slot[wants[r]] = "empty"

(* Only the ids issued so far are used.                                    *)
IssuedOnly == \A a \in Approvals : a > asked => a \notin pending /\ slot[a] = "empty"

(* A reader between start_run's two steps holds a token created before.    *)
TokenHeld ==
    \A c \in Clients : pc[Reader(c)] = "starting" => token[c] \in 1 .. started

(* The writer starts after registration.                                   *)
WriterAfterRegister ==
    \A c \in Clients : pc[Reader(c)] \in {"accept", "register"}
                          => pc[Writer(c)] = "none"

(* The broker's sender is a client none of whose threads cleared it.       *)
SenderNotCleared ==
    \A c \in Clients : sender = c =>
       \A k \in Kinds : pc[<<c, k>>] \notin {"deny", "cancel", "done"}

(* As NoOrphanPrompt, from the moment request() has cloned the sender.     *)
PromptCovered ==
    \A r \in Runs :
       worker[r] \in {"sending", "waiting"} /\ wants[r] \in pending =>
          \A k \in Kinds : to[wants[r]] \in Clients
                             => ~PastDeny(<<to[wants[r]], k>>)

(* A request that waits was sent to a client.                              *)
WaitsOnClient ==
    \A r \in Runs : worker[r] = "waiting" => to[wants[r]] \in Clients

(* An affirmative answer in a channel was put there by agent.approve.      *)
YesIsApproved == \A a \in Approvals : slot[a] = "yes" => a \in approved

ConnInv == WriterAfterRegister /\ SenderNotCleared

RunInv == OneRunExecutes /\ TokenHeld

ApprovalInv ==
    /\ RequestState
    /\ IssuedOnly
    /\ PendingHasWaiter
    /\ WaitsOnClient
    /\ PromptCovered
    /\ YesIsApproved
    /\ GrantNeedsApproval

IndInv == TypeOK /\ ConnInv /\ RunInv /\ ApprovalInv

USE DEF Reader, Writer, Threads, Kinds, NoRun, NoApproval, Runs, Approvals

(* The initial state satisfies the inductive invariant.                    *)
LEMMA InitIndInv == Init => IndInv
  BY NoClientAssumption, BoundsAssumption
  DEF Init, IndInv, ConnInv, RunInv, ApprovalInv, TypeOK, OneRunExecutes, GrantNeedsApproval,
      PendingHasWaiter, RequestState, IssuedOnly, TokenHeld,
      WriterAfterRegister, SenderNotCleared, PromptCovered, WaitsOnClient,
      YesIsApproved, PcValues, WorkerValues, InFlight, Requesting,
      Unregistering

(* Leaving request() preserves type correctness.                           *)
LEMMA ReturnsType ==
  ASSUME TypeOK, RequestState, NEW r \in Runs, worker[r] \in Requesting,
         NEW answer \in {"granted", "refused"}, RequestReturns(r, answer)
  PROVE  TypeOK'
PROOF
<1> USE BoundsAssumption
<1>1. wants[r] \in Approvals
  BY DEF RequestState, TypeOK
<1>2. worker' \in [Runs -> WorkerValues]
  BY DEF TypeOK, RequestReturns, WorkerValues, InFlight
<1>3. /\ pending' \subseteq Approvals
      /\ slot' \in [Approvals -> {"empty", "yes", "no"}]
      /\ to' \in [Approvals -> Clients \cup {NoClient}]
      /\ wants' \in [Runs -> 0 .. MaxApprovals]
  <2>1. pending' \subseteq Approvals
    BY DEF TypeOK, RequestReturns
  <2>2. slot' \in [Approvals -> {"empty", "yes", "no"}]
    BY DEF TypeOK, RequestReturns
  <2>3. to' \in [Approvals -> Clients \cup {NoClient}]
    BY DEF TypeOK, RequestReturns
  <2>4. wants' \in [Runs -> 0 .. MaxApprovals]
    BY DEF TypeOK, RequestReturns
  <2> QED BY <2>1, <2>2, <2>3, <2>4
<1>4. verdict' \in [Approvals -> {"none", "granted", "refused"}]
  <2>1. verdict \in [Approvals -> {"none", "granted", "refused"}]
    BY DEF TypeOK
  <2>2. verdict' = [verdict EXCEPT ![wants[r]] = answer]
    BY DEF RequestReturns
  <2> QED BY <1>1, <2>1, <2>2
<1> QED
  BY <1>2, <1>3, <1>4 DEF TypeOK, RequestReturns, connVars

(* Type correctness is preserved by every step.                            *)
LEMMA TypeStep ==
  ASSUME TypeOK, RequestState, TokenHeld, [Next]_vars
  PROVE  TypeOK'
PROOF
<1> USE NoClientAssumption, BoundsAssumption
    DEF TypeOK, PcValues, WorkerValues, InFlight, Requesting, Unregistering
<1>1. ASSUME NEW c \in Clients, Register(c) PROVE TypeOK'
  BY <1>1 DEF Register, runVars, approvalVars
<1>2. ASSUME NEW c \in Clients, SetSender(c) PROVE TypeOK'
  BY <1>2 DEF SetSender, runVars, approvalVars
<1>3. ASSUME NEW c \in Clients, ReaderEnds(c) PROVE TypeOK'
  BY <1>3 DEF ReaderEnds, runVars, approvalVars
<1>4. ASSUME NEW c \in Clients, WriterFails(c) PROVE TypeOK'
  BY <1>4 DEF WriterFails, runVars, approvalVars
<1>5. ASSUME NEW c \in Clients, WriterDrained(c) PROVE TypeOK'
  BY <1>5 DEF WriterDrained, runVars, approvalVars, WriterFails
<1>6. ASSUME NEW c \in Clients, StartRun(c) PROVE TypeOK'
  BY <1>6 DEF StartRun, runVars, approvalVars
<1>7. ASSUME NEW c \in Clients, BeginRun(c) PROVE TypeOK'
  <2>1. token[c] \in Runs /\ token[c] \in 0 .. MaxStarts
    <3>1. token[c] \in 1 .. started
      BY <1>7 DEF BeginRun, TokenHeld
    <3> QED BY <3>1
  <2>2. /\ worker' \in [Runs -> WorkerValues]
        /\ activeRun' \in 0 .. MaxStarts
        /\ token' \in [Clients -> 0 .. MaxStarts]
        /\ pc' \in [Threads -> PcValues]
    BY <1>7, <2>1 DEF BeginRun
  <2> QED BY <1>7, <2>2 DEF BeginRun, approvalVars
<1>8. ASSUME NEW c \in Clients, NEW a \in Approvals, NEW ans \in {"yes", "no"},
             Resolve(c, a, ans)
      PROVE  TypeOK'
  BY <1>8 DEF Resolve, connVars, runVars
<1>9. ASSUME NEW c \in Clients, NEW r \in Runs, CancelRun(c, r) PROVE TypeOK'
  BY <1>9 DEF CancelRun, connVars, approvalVars
<1>10. ASSUME NEW t \in Threads, UnregisterRemove(t) PROVE TypeOK'
  BY <1>10 DEF UnregisterRemove, runVars, approvalVars
<1>11. ASSUME NEW t \in Threads, ClearSender(t) PROVE TypeOK'
  BY <1>11 DEF ClearSender, runVars, approvalVars
<1>12. ASSUME NEW t \in Threads, DenyAll(t) PROVE TypeOK'
  BY <1>12 DEF DenyAll, runVars, approvalVars
<1>13. ASSUME NEW t \in Threads, CancelActive(t) PROVE TypeOK'
  BY <1>13 DEF CancelActive, runVars, approvalVars
<1>14. ASSUME NEW r \in Runs, RequestApproval(r) PROVE TypeOK'
  BY <1>14 DEF RequestApproval, connVars
<1>15. ASSUME NEW r \in Runs, ReadSender(r) PROVE TypeOK'
  BY <1>15 DEF ReadSender, connVars, RequestState
<1>16. ASSUME NEW r \in Runs, SendPrompt(r) PROVE TypeOK'
  <2>1. CASE Reachable(to[wants[r]])
    BY <1>16, <2>1 DEF SendPrompt, connVars, approvalVars
  <2>2. CASE ~Reachable(to[wants[r]])
    BY <1>16, <2>2, ReturnsType DEF SendPrompt
  <2> QED BY <2>1, <2>2
<1>17. ASSUME NEW r \in Runs, WaitCancelled(r) PROVE TypeOK'
  BY <1>17, ReturnsType DEF WaitCancelled
<1>18. ASSUME NEW r \in Runs, WaitTimeout(r) PROVE TypeOK'
  BY <1>18, ReturnsType DEF WaitTimeout
<1>19. ASSUME NEW r \in Runs, WaitAnswer(r) PROVE TypeOK'
  BY <1>19, ReturnsType DEF WaitAnswer
<1>20. ASSUME NEW r \in Runs, Return(r) PROVE TypeOK'
  BY <1>20 DEF Return, connVars, approvalVars
<1>21. ASSUME NEW r \in Runs, FinishRun(r) PROVE TypeOK'
  BY <1>21 DEF FinishRun, connVars, approvalVars
<1>22. ASSUME NEW r \in Runs, Broadcast(r) PROVE TypeOK'
  BY <1>22 DEF Broadcast, connVars, approvalVars
<1>23. CASE UNCHANGED vars
  BY <1>23 DEF vars, connVars, runVars, approvalVars
<1> HIDE DEF TypeOK
<1> QED
  BY <1>1, <1>2, <1>3, <1>4, <1>5, <1>6, <1>7, <1>8, <1>9, <1>10, <1>11, <1>12, <1>13, <1>14, <1>15, <1>16, <1>17, <1>18, <1>19, <1>20, <1>21, <1>22, <1>23
  DEF Next, Connection, Request, Unregister, Work, WaitEnds





(* The connections' part of the invariant is preserved.                    *)
LEMMA ConnStep ==
  ASSUME TypeOK, ConnInv, [Next]_vars
  PROVE  ConnInv'
PROOF
<1> USE NoClientAssumption, BoundsAssumption
    DEF TypeOK, ConnInv, WriterAfterRegister, SenderNotCleared
<1>1. ASSUME NEW c \in Clients, Register(c) PROVE ConnInv'
  BY <1>1 DEF Register, connVars, runVars, approvalVars
<1>2. ASSUME NEW c \in Clients, SetSender(c) PROVE ConnInv'
  BY <1>2 DEF SetSender, connVars, runVars, approvalVars
<1>3. ASSUME NEW c \in Clients, ReaderEnds(c) PROVE ConnInv'
  BY <1>3 DEF ReaderEnds, connVars, runVars, approvalVars
<1>4. ASSUME NEW c \in Clients, WriterFails(c) PROVE ConnInv'
  BY <1>4 DEF WriterFails, connVars, runVars, approvalVars
<1>5. ASSUME NEW c \in Clients, WriterDrained(c) PROVE ConnInv'
  BY <1>5 DEF WriterDrained, WriterFails, connVars, runVars, approvalVars
<1>6. ASSUME NEW c \in Clients, StartRun(c) PROVE ConnInv'
  BY <1>6 DEF StartRun, connVars, runVars, approvalVars
<1>7. ASSUME NEW c \in Clients, BeginRun(c) PROVE ConnInv'
  BY <1>7 DEF BeginRun, connVars, runVars, approvalVars
<1>8. ASSUME NEW c \in Clients, NEW a \in Approvals, NEW ans \in {"yes", "no"},
             Resolve(c, a, ans)
      PROVE  ConnInv'
  BY <1>8 DEF Resolve, connVars, runVars, approvalVars
<1>9. ASSUME NEW c \in Clients, NEW r \in Runs, CancelRun(c, r)
      PROVE  ConnInv'
  BY <1>9 DEF CancelRun, connVars, runVars, approvalVars
<1>10. ASSUME NEW t \in Threads, UnregisterRemove(t) PROVE ConnInv'
  BY <1>10 DEF UnregisterRemove, connVars, runVars, approvalVars
<1>11. ASSUME NEW t \in Threads, ClearSender(t) PROVE ConnInv'
  BY <1>11 DEF ClearSender, connVars, runVars, approvalVars
<1>12. ASSUME NEW t \in Threads, DenyAll(t) PROVE ConnInv'
  BY <1>12 DEF DenyAll, connVars, runVars, approvalVars
<1>13. ASSUME NEW t \in Threads, CancelActive(t) PROVE ConnInv'
  BY <1>13 DEF CancelActive, connVars, runVars, approvalVars
<1>14. ASSUME NEW r \in Runs, RequestApproval(r) PROVE ConnInv'
  BY <1>14 DEF RequestApproval, connVars, runVars, approvalVars
<1>15. ASSUME NEW r \in Runs, ReadSender(r) PROVE ConnInv'
  BY <1>15 DEF ReadSender, connVars, runVars, approvalVars
<1>16. ASSUME NEW r \in Runs, SendPrompt(r) PROVE ConnInv'
  BY <1>16 DEF SendPrompt, RequestReturns, connVars, runVars, approvalVars
<1>17. ASSUME NEW r \in Runs, WaitCancelled(r) PROVE ConnInv'
  BY <1>17 DEF WaitCancelled, RequestReturns, connVars, runVars, approvalVars
<1>18. ASSUME NEW r \in Runs, WaitTimeout(r) PROVE ConnInv'
  BY <1>18 DEF WaitTimeout, RequestReturns, connVars, runVars, approvalVars
<1>19. ASSUME NEW r \in Runs, WaitAnswer(r) PROVE ConnInv'
  BY <1>19 DEF WaitAnswer, RequestReturns, connVars, runVars, approvalVars
<1>20. ASSUME NEW r \in Runs, Return(r) PROVE ConnInv'
  BY <1>20 DEF Return, connVars, runVars, approvalVars
<1>21. ASSUME NEW r \in Runs, FinishRun(r) PROVE ConnInv'
  BY <1>21 DEF FinishRun, connVars, runVars, approvalVars
<1>22. ASSUME NEW r \in Runs, Broadcast(r) PROVE ConnInv'
  BY <1>22 DEF Broadcast, connVars, runVars, approvalVars
<1>23. CASE UNCHANGED vars
  BY <1>23 DEF vars, connVars, runVars, approvalVars
<1> HIDE DEF ConnInv
<1> QED
  BY <1>1, <1>2, <1>3, <1>4, <1>5, <1>6, <1>7, <1>8, <1>9, <1>10, <1>11, <1>12,
     <1>13, <1>14, <1>15, <1>16, <1>17, <1>18, <1>19, <1>20, <1>21, <1>22, <1>23
  DEF Next, Connection, Request, Unregister, Work, WaitEnds

(* The runs' part of the invariant is preserved.                           *)
LEMMA RunStep ==
  ASSUME TypeOK, RequestState, RunInv, [Next]_vars
  PROVE  RunInv'
PROOF
<1> USE NoClientAssumption, BoundsAssumption
    DEF TypeOK, RunInv, OneRunExecutes, TokenHeld, InFlight, Requesting
<1>1. ASSUME NEW c \in Clients, Register(c) PROVE RunInv'
  BY <1>1 DEF Register, connVars, runVars, approvalVars
<1>2. ASSUME NEW c \in Clients, SetSender(c) PROVE RunInv'
  BY <1>2 DEF SetSender, connVars, runVars, approvalVars
<1>3. ASSUME NEW c \in Clients, ReaderEnds(c) PROVE RunInv'
  BY <1>3 DEF ReaderEnds, connVars, runVars, approvalVars
<1>4. ASSUME NEW c \in Clients, WriterFails(c) PROVE RunInv'
  BY <1>4 DEF WriterFails, connVars, runVars, approvalVars
<1>5. ASSUME NEW c \in Clients, WriterDrained(c) PROVE RunInv'
  BY <1>5 DEF WriterDrained, WriterFails, connVars, runVars, approvalVars
<1>6. ASSUME NEW c \in Clients, StartRun(c) PROVE RunInv'
  BY <1>6 DEF StartRun, connVars, runVars, approvalVars
<1>7. ASSUME NEW c \in Clients, BeginRun(c) PROVE RunInv'
  BY <1>7 DEF BeginRun, connVars, runVars, approvalVars
<1>8. ASSUME NEW c \in Clients, NEW a \in Approvals, NEW ans \in {"yes", "no"},
             Resolve(c, a, ans)
      PROVE  RunInv'
  BY <1>8 DEF Resolve, connVars, runVars, approvalVars
<1>9. ASSUME NEW c \in Clients, NEW r \in Runs, CancelRun(c, r)
      PROVE  RunInv'
  BY <1>9 DEF CancelRun, connVars, runVars, approvalVars
<1>10. ASSUME NEW t \in Threads, UnregisterRemove(t) PROVE RunInv'
  BY <1>10 DEF UnregisterRemove, connVars, runVars, approvalVars
<1>11. ASSUME NEW t \in Threads, ClearSender(t) PROVE RunInv'
  BY <1>11 DEF ClearSender, connVars, runVars, approvalVars
<1>12. ASSUME NEW t \in Threads, DenyAll(t) PROVE RunInv'
  BY <1>12 DEF DenyAll, connVars, runVars, approvalVars
<1>13. ASSUME NEW t \in Threads, CancelActive(t) PROVE RunInv'
  BY <1>13 DEF CancelActive, connVars, runVars, approvalVars
<1>14. ASSUME NEW r \in Runs, RequestApproval(r) PROVE RunInv'
  BY <1>14 DEF RequestApproval, connVars, runVars, approvalVars
<1>15. ASSUME NEW r \in Runs, ReadSender(r) PROVE RunInv'
  BY <1>15 DEF ReadSender, connVars, runVars, approvalVars
<1>16. ASSUME NEW r \in Runs, SendPrompt(r) PROVE RunInv'
  BY <1>16 DEF SendPrompt, RequestReturns, connVars, runVars, approvalVars
<1>17. ASSUME NEW r \in Runs, WaitCancelled(r) PROVE RunInv'
  BY <1>17 DEF WaitCancelled, RequestReturns, connVars, runVars, approvalVars
<1>18. ASSUME NEW r \in Runs, WaitTimeout(r) PROVE RunInv'
  BY <1>18 DEF WaitTimeout, RequestReturns, connVars, runVars, approvalVars
<1>19. ASSUME NEW r \in Runs, WaitAnswer(r) PROVE RunInv'
  BY <1>19 DEF WaitAnswer, RequestReturns, connVars, runVars, approvalVars
<1>20. ASSUME NEW r \in Runs, Return(r) PROVE RunInv'
  BY <1>20 DEF Return, connVars, runVars, approvalVars
<1>21. ASSUME NEW r \in Runs, FinishRun(r) PROVE RunInv'
  BY <1>21 DEF FinishRun, connVars, runVars, approvalVars
<1>22. ASSUME NEW r \in Runs, Broadcast(r) PROVE RunInv'
  BY <1>22 DEF Broadcast, connVars, runVars, approvalVars
<1>23. CASE UNCHANGED vars
  BY <1>23 DEF vars, connVars, runVars, approvalVars
<1> HIDE DEF RunInv
<1> QED
  BY <1>1, <1>2, <1>3, <1>4, <1>5, <1>6, <1>7, <1>8, <1>9, <1>10, <1>11, <1>12,
     <1>13, <1>14, <1>15, <1>16, <1>17, <1>18, <1>19, <1>20, <1>21, <1>22, <1>23
  DEF Next, Connection, Request, Unregister, Work, WaitEnds

(* A run in flight is the only one.                                        *)
LEMMA OnlyOneInFlight ==
  ASSUME OneRunExecutes, NEW r \in Runs, worker[r] \in InFlight,
         NEW q \in Runs, worker[q] \in InFlight
  PROVE  q = r
  BY DEF OneRunExecutes

(* The approvals' part of the invariant is preserved.                      *)
LEMMA ApprovalStep ==
  ASSUME TypeOK, TypeOK', ConnInv, RunInv, ApprovalInv, [Next]_vars
  PROVE  ApprovalInv'
PROOF
<1> USE NoClientAssumption, BoundsAssumption
    DEF TypeOK, ConnInv, SenderNotCleared, RunInv, OneRunExecutes, ApprovalInv,
        RequestState, IssuedOnly, PendingHasWaiter, WaitsOnClient, PromptCovered,
        YesIsApproved, GrantNeedsApproval, PastDeny, InFlight, Requesting
<1>1. ASSUME NEW c \in Clients, Register(c) PROVE ApprovalInv'
  BY <1>1 DEF Register, connVars, runVars, approvalVars
<1>2. ASSUME NEW c \in Clients, SetSender(c) PROVE ApprovalInv'
  BY <1>2 DEF SetSender, connVars, runVars, approvalVars
<1>3. ASSUME NEW c \in Clients, ReaderEnds(c) PROVE ApprovalInv'
  BY <1>3 DEF ReaderEnds, connVars, runVars, approvalVars
<1>4. ASSUME NEW c \in Clients, WriterFails(c) PROVE ApprovalInv'
  BY <1>4 DEF WriterFails, connVars, runVars, approvalVars
<1>5. ASSUME NEW c \in Clients, WriterDrained(c) PROVE ApprovalInv'
  BY <1>5 DEF WriterDrained, WriterFails, connVars, runVars, approvalVars
<1>6. ASSUME NEW c \in Clients, StartRun(c) PROVE ApprovalInv'
  BY <1>6 DEF StartRun, connVars, runVars, approvalVars
<1>7. ASSUME NEW c \in Clients, BeginRun(c) PROVE ApprovalInv'
  BY <1>7 DEF BeginRun, connVars, runVars, approvalVars
<1>8. ASSUME NEW c \in Clients, NEW a \in Approvals, NEW ans \in {"yes", "no"},
             Resolve(c, a, ans)
      PROVE  ApprovalInv'
  BY <1>8 DEF Resolve, connVars, runVars, approvalVars
<1>9. ASSUME NEW c \in Clients, NEW r \in Runs, CancelRun(c, r)
      PROVE  ApprovalInv'
  BY <1>9 DEF CancelRun, connVars, runVars, approvalVars
<1>10. ASSUME NEW t \in Threads, UnregisterRemove(t) PROVE ApprovalInv'
  BY <1>10 DEF UnregisterRemove, connVars, runVars, approvalVars
<1>11. ASSUME NEW t \in Threads, ClearSender(t) PROVE ApprovalInv'
  BY <1>11 DEF ClearSender, connVars, runVars, approvalVars
<1>12. ASSUME NEW t \in Threads, DenyAll(t) PROVE ApprovalInv'
  BY <1>12 DEF DenyAll, connVars, runVars, approvalVars
<1>13. ASSUME NEW t \in Threads, CancelActive(t) PROVE ApprovalInv'
  BY <1>13 DEF CancelActive, connVars, runVars, approvalVars
<1>14. ASSUME NEW r \in Runs, RequestApproval(r) PROVE ApprovalInv'
  <2>1. RequestState'
    BY <1>14 DEF RequestApproval, connVars, runVars, approvalVars
  <2>2. IssuedOnly'
    BY <1>14 DEF RequestApproval, connVars, runVars, approvalVars
  <2>3. PendingHasWaiter'
    <3>1. pending = {}
      <4> SUFFICES ASSUME NEW a \in pending PROVE FALSE
        OBVIOUS
      <4>1. PICK q \in Runs : worker[q] \in Requesting /\ wants[q] = a
        BY DEF PendingHasWaiter
      <4>2. q = r
        BY <1>14, <4>1, OnlyOneInFlight DEF RequestApproval
      <4> QED BY <1>14, <4>1, <4>2 DEF RequestApproval
    <3>2. slot'[asked + 1] = "empty"
      BY <1>14 DEF RequestApproval
    <3>3. worker'[r] = "asking" /\ wants'[r] = asked + 1
      BY <1>14 DEF RequestApproval
    <3>4. pending' = {asked + 1}
      BY <1>14, <3>1 DEF RequestApproval
    <3> QED BY <3>2, <3>3, <3>4
  <2>4. WaitsOnClient'
    BY <1>14 DEF RequestApproval, connVars, runVars, approvalVars
  <2>5. PromptCovered'
    BY <1>14 DEF RequestApproval, connVars, runVars, approvalVars
  <2>6. YesIsApproved'
    BY <1>14 DEF RequestApproval, connVars, runVars, approvalVars
  <2>7. GrantNeedsApproval'
    BY <1>14 DEF RequestApproval, connVars, runVars, approvalVars
  <2> QED BY <2>1, <2>2, <2>3, <2>4, <2>5, <2>6, <2>7
<1>15. ASSUME NEW r \in Runs, ReadSender(r) PROVE ApprovalInv'
  BY <1>15 DEF ReadSender, connVars, runVars, approvalVars
<1>16. ASSUME NEW r \in Runs, SendPrompt(r) PROVE ApprovalInv'
  <2>1. RequestState'
    BY <1>16 DEF SendPrompt, RequestReturns, connVars, runVars, approvalVars
  <2>2. IssuedOnly'
    BY <1>16 DEF SendPrompt, RequestReturns, connVars, runVars, approvalVars
  <2>3. PendingHasWaiter'
    BY <1>16 DEF SendPrompt, RequestReturns, connVars, runVars, approvalVars
  <2>4. WaitsOnClient' /\ PromptCovered'
    <3>1. CASE Reachable(to[wants[r]])
      <4>1. worker' = [worker EXCEPT ![r] = "waiting"] /\ worker[r] = "sending"
        BY <1>16, <3>1 DEF SendPrompt
      <4>2. UNCHANGED <<pc, wants, to, pending>>
        BY <1>16, <3>1 DEF SendPrompt, connVars, approvalVars
      <4>3. to[wants[r]] \in Clients
        BY <1>16, <3>1 DEF SendPrompt, Reachable
      <4>4. WaitsOnClient'
        BY <4>1, <4>2, <4>3
      <4>5. \A q \in Runs : worker'[q] \in {"sending", "waiting"}
                               => worker[q] \in {"sending", "waiting"}
        BY <4>1
      <4>6. PromptCovered'
        BY <4>2, <4>5
      <4> QED BY <4>4, <4>6
    <3>2. CASE ~Reachable(to[wants[r]])
      <4>1. /\ worker[r] = "sending"
            /\ worker' = [worker EXCEPT ![r] = "returned"]
        BY <1>16, <3>2 DEF SendPrompt, RequestReturns
      <4>2. \A q \in Runs : worker'[q] \notin {"sending", "waiting"}
        BY <4>1, OnlyOneInFlight
      <4> QED BY <4>2
    <3> QED BY <3>1, <3>2
  <2>5. YesIsApproved'
    BY <1>16 DEF SendPrompt, RequestReturns, connVars, runVars, approvalVars
  <2>6. GrantNeedsApproval'
    BY <1>16 DEF SendPrompt, RequestReturns, connVars, runVars, approvalVars
  <2> QED BY <2>1, <2>2, <2>3, <2>4, <2>5, <2>6
<1>17. ASSUME NEW r \in Runs, WaitCancelled(r) PROVE ApprovalInv'
  BY <1>17 DEF WaitCancelled, RequestReturns, connVars, runVars, approvalVars
<1>18. ASSUME NEW r \in Runs, WaitTimeout(r) PROVE ApprovalInv'
  BY <1>18 DEF WaitTimeout, RequestReturns, connVars, runVars, approvalVars
<1>19. ASSUME NEW r \in Runs, WaitAnswer(r) PROVE ApprovalInv'
  BY <1>19 DEF WaitAnswer, RequestReturns, connVars, runVars, approvalVars
<1>20. ASSUME NEW r \in Runs, Return(r) PROVE ApprovalInv'
  <2>1. RequestState'
    BY <1>20 DEF Return, connVars, runVars, approvalVars
  <2>2. IssuedOnly'
    BY <1>20 DEF Return, connVars, runVars, approvalVars
  <2>3. PendingHasWaiter'
    BY <1>20 DEF Return, connVars, runVars, approvalVars
  <2>4. WaitsOnClient'
    BY <1>20 DEF Return, connVars, runVars, approvalVars
  <2>5. PromptCovered'
    BY <1>20 DEF Return, connVars, runVars, approvalVars
  <2>6. YesIsApproved'
    BY <1>20 DEF Return, connVars, runVars, approvalVars
  <2>7. GrantNeedsApproval'
    BY <1>20 DEF Return, connVars, runVars, approvalVars
  <2> QED BY <2>1, <2>2, <2>3, <2>4, <2>5, <2>6, <2>7
<1>21. ASSUME NEW r \in Runs, FinishRun(r) PROVE ApprovalInv'
  <2>1. RequestState'
    BY <1>21 DEF FinishRun, connVars, runVars, approvalVars
  <2>2. IssuedOnly'
    BY <1>21 DEF FinishRun, connVars, runVars, approvalVars
  <2>3. PendingHasWaiter'
    BY <1>21 DEF FinishRun, connVars, runVars, approvalVars
  <2>4. WaitsOnClient'
    BY <1>21 DEF FinishRun, connVars, runVars, approvalVars
  <2>5. PromptCovered'
    BY <1>21 DEF FinishRun, connVars, runVars, approvalVars
  <2>6. YesIsApproved'
    BY <1>21 DEF FinishRun, connVars, runVars, approvalVars
  <2>7. GrantNeedsApproval'
    BY <1>21 DEF FinishRun, connVars, runVars, approvalVars
  <2> QED BY <2>1, <2>2, <2>3, <2>4, <2>5, <2>6, <2>7
<1>22. ASSUME NEW r \in Runs, Broadcast(r) PROVE ApprovalInv'
  <2>1. RequestState'
    BY <1>22 DEF Broadcast, connVars, runVars, approvalVars
  <2>2. IssuedOnly'
    BY <1>22 DEF Broadcast, connVars, runVars, approvalVars
  <2>3. PendingHasWaiter'
    <3> SUFFICES ASSUME NEW a \in pending
                 PROVE  /\ slot[a] = "empty"
                        /\ \E q \in Runs : worker'[q] \in Requesting /\ wants[q] = a
      BY <1>22 DEF Broadcast, approvalVars
    <3>1. PICK q \in Runs : worker[q] \in Requesting /\ wants[q] = a
      BY DEF PendingHasWaiter
    <3>2. worker'[q] \in Requesting
      BY <1>22, <3>1 DEF Broadcast
    <3> QED BY <3>1, <3>2
  <2>4. WaitsOnClient'
    BY <1>22 DEF Broadcast, connVars, runVars, approvalVars
  <2>5. PromptCovered'
    <3>1. \A q \in Runs : worker'[q] \in {"sending", "waiting"}
                             => worker[q] \in {"sending", "waiting"}
      BY <1>22 DEF Broadcast
    <3>2. UNCHANGED <<pc, wants, to, pending>>
      BY <1>22 DEF Broadcast, connVars, approvalVars
    <3> QED BY <3>1, <3>2
  <2>6. YesIsApproved'
    BY <1>22 DEF Broadcast, connVars, runVars, approvalVars
  <2>7. GrantNeedsApproval'
    BY <1>22 DEF Broadcast, connVars, runVars, approvalVars
  <2> QED BY <2>1, <2>2, <2>3, <2>4, <2>5, <2>6, <2>7
<1>23. CASE UNCHANGED vars
  BY <1>23 DEF vars, connVars, runVars, approvalVars
<1> HIDE DEF ApprovalInv
<1> QED
  BY <1>1, <1>2, <1>3, <1>4, <1>5, <1>6, <1>7, <1>8, <1>9, <1>10, <1>11, <1>12,
     <1>13, <1>14, <1>15, <1>16, <1>17, <1>18, <1>19, <1>20, <1>21, <1>22, <1>23
  DEF Next, Connection, Request, Unregister, Work, WaitEnds

(* The inductive invariant is preserved by every step.                     *)
LEMMA IndInvStep == IndInv /\ [Next]_vars => IndInv'
  <1> SUFFICES ASSUME IndInv, [Next]_vars PROVE IndInv'
    OBVIOUS
  <1>1. TypeOK'
    BY TypeStep DEF IndInv, RunInv, ApprovalInv
  <1>2. ConnInv' /\ RunInv'
    BY ConnStep, RunStep DEF IndInv, ApprovalInv
  <1>3. ApprovalInv'
    BY <1>1, ApprovalStep DEF IndInv
  <1> QED BY <1>1, <1>2, <1>3 DEF IndInv

(* IndInv is an invariant of the specification.                            *)
THEOREM Invariance == Spec => []IndInv
  BY InitIndInv, IndInvStep, PTL DEF Spec

(* Every variable of the server's run control keeps its type.              *)
THEOREM TypeCorrect == Spec => []TypeOK
  <1>1. IndInv => TypeOK
    BY DEF IndInv
  <1> QED BY <1>1, Invariance, PTL

(* For any number of connections and requests, begin_run and finish_run    *)
(* let at most one agent run execute, and active_run names it.             *)
THEOREM SingleRun == Spec => []OneRunExecutes
  <1>1. IndInv => OneRunExecutes
    BY DEF IndInv, RunInv
  <1> QED BY <1>1, Invariance, PTL

(* ApprovalBroker::request answers true only for an id that agent.approve  *)
(* resolved.                                                               *)
THEOREM GrantsAreApproved == Spec => []GrantNeedsApproval
  <1>1. IndInv => GrantNeedsApproval
    BY DEF IndInv, ApprovalInv
  <1> QED BY <1>1, Invariance, PTL

(* No entry of the pending table outlives the request that made it.        *)
THEOREM NoLeftoverApproval == Spec => []PendingHasWaiter
  <1>1. IndInv => PendingHasWaiter
    BY DEF IndInv, ApprovalInv
  <1> QED BY <1>1, Invariance, PTL

(* Whatever the interleaving of unregister with request, no run keeps      *)
(* waiting on a prompt sent to a client whose unregister has denied all.   *)
THEOREM DroppedClientDenies == Spec => []NoOrphanPrompt
  <1>1. IndInv => NoOrphanPrompt
    BY DEF IndInv, ApprovalInv, RequestState, WaitsOnClient, PromptCovered,
           NoOrphanPrompt, Requesting
  <1> QED BY <1>1, Invariance, PTL

-----------------------------------------------------------------------------
(* The completion gate: AgentLoop.                                         *)

TaggedErrors(errors) == {e \in errors : e.tagged}

(* What keeps a matter from being forgotten: a failure by its key, a diff  *)
(* that was not shown by the task's change or the error of its edit; both  *)
(* save what is lost.                                                      *)
Keeps(o, s, l, keys, task) ==
  /\ o \ l \subseteq keys
  /\ ~s /\ "diff" \notin l => "tool_edit" \in keys \/ (task.changed /\ ~task.inspected)

(* A run keeps it in its map, the keys of which the task's texts have,     *)
(* except between a call and its checks; a stored task in its texts.       *)
RunKeeps ==
  /\ phase # "idle" => Keeps(owed, shown, lost, KeysOf(keyed), taskRun)
  /\ phase \notin {"idle", "verify"} => KeysOf(keyed) \subseteq KeysOf(taskRun.errors)
StoreKeeps == phase = "idle" => Keeps(owed, shown, lost, KeysOf(saved.errors), saved)

PhasesKept ==
  /\ phase # "idle" => outcome = "running" /\ taskRun.status = "in_progress" /\ saved.status = "in_progress"
  /\ phase \in {"idle", "model"} => saved = taskRun
  /\ phase = "verify" => left > 0
  /\ owed \subseteq ToolKeys \cup CheckKeys
LoopInv == LoopTypeOK /\ PhasesKept /\ RunKeeps /\ StoreKeeps /\ DoneIsSettled

LEMMA KeepsMore ==
  ASSUME NEW o, NEW s, NEW l, NEW keys, NEW task, NEW keys2, NEW task2, Keeps(o, s, l, keys, task),
         keys \subseteq keys2, task2.changed = task.changed, task2.inspected = task.inspected
  PROVE  Keeps(o, s, l, keys2, task2)
  BY DEF Keeps

(* What the operations on the map do to its keys.                          *)
LEMMA KeysAre ==
  ASSUME NEW errors, NEW ks
  PROVE  /\ KeysOf(Without(errors, ks)) = KeysOf(errors) \ ks
         /\ KeysOf(Tagged(ks)) = ks
         /\ KeysOf(Insert(errors, ks)) = KeysOf(errors) \cup ks
  <1>1. KeysOf(Without(errors, ks)) = KeysOf(errors) \ ks BY DEF KeysOf, Without
  <1>2. \A e : e \in Tagged(ks) <=> e \in [key : ks, tagged : {TRUE}] BY DEF Tagged
  <1>3. \A e \in Tagged(ks) : e.key \in ks /\ e.tagged
    <2> SUFFICES ASSUME NEW e \in [key : ks, tagged : {TRUE}] PROVE e.key \in ks /\ e.tagged BY DEF Tagged
    <2>1. e.key \in ks /\ e.tagged \in {TRUE} OBVIOUS
    <2>2. e.tagged = TRUE BY <2>1
    <2> QED BY <2>1, <2>2, Zenon
  <1>4. \A k \in ks : [key |-> k, tagged |-> TRUE] \in Tagged(ks) BY <1>2
  <1>5. KeysOf(Tagged(ks)) = ks
    <2>1. \A k \in ks : k \in KeysOf(Tagged(ks))
      <3> SUFFICES ASSUME NEW k \in ks PROVE k \in KeysOf(Tagged(ks)) OBVIOUS
      <3>1. [key |-> k, tagged |-> TRUE] \in Tagged(ks) /\ [key |-> k, tagged |-> TRUE].key = k BY <1>4
      <3> HIDE DEF Tagged
      <3> QED BY <3>1 DEF KeysOf
    <2> QED BY <1>3, <2>1 DEF KeysOf
  <1>6. KeysOf(Insert(errors, ks)) = KeysOf(Without(errors, ks)) \cup KeysOf(Tagged(ks)) BY DEF KeysOf, Insert
  <1>8. (KeysOf(errors) \ ks) \cup ks = KeysOf(errors) \cup ks OBVIOUS
  <1> QED BY <1>1, <1>5, <1>6, <1>8

OneText(errors) == errors \subseteq Errors /\ \A e, f \in errors : e.key = f.key => e = f
LEMMA TextsAre ==
  ASSUME NEW errors, OneText(errors), NEW ks \in SUBSET Keys
  PROVE  OneText(Without(errors, ks)) /\ OneText(Tagged(ks)) /\ OneText(Insert(errors, ks))
  <1>1. OneText(Without(errors, ks)) BY DEF OneText, Without
  <1>2. \A e \in Tagged(ks) : e = [key |-> e.key, tagged |-> TRUE] /\ e.key \in ks
    <2> SUFFICES ASSUME NEW e \in [key : ks, tagged : {TRUE}] PROVE e = [key |-> e.key, tagged |-> TRUE] /\ e.key \in ks
      BY DEF Tagged
    <2>1. e.tagged \in {TRUE} /\ e.key \in ks /\ e = [key |-> e.key, tagged |-> e.tagged] OBVIOUS
    <2>2. e.tagged = TRUE BY <2>1
    <2> QED BY <2>1, <2>2
  <1>3. OneText(Tagged(ks))
    <2>1. Tagged(ks) \subseteq Errors BY DEF Tagged, Errors
    <2>2. \A e, f \in Tagged(ks) : e.key = f.key => e = f BY <1>2
    <2> QED BY <2>1, <2>2 DEF OneText
  <1>4. \A e \in Without(errors, ks) : e.key \notin ks BY DEF Without
  <1>5. OneText(Insert(errors, ks))
    <2>1. Insert(errors, ks) \subseteq Errors BY <1>1, <1>3 DEF OneText, Insert
    <2>2. \A e, f \in Insert(errors, ks) : e.key = f.key => e = f
      <3> SUFFICES ASSUME NEW e \in Insert(errors, ks), NEW f \in Insert(errors, ks), e.key = f.key PROVE e = f OBVIOUS
      <3>1. e \in Without(errors, ks) \/ e \in Tagged(ks) BY DEF Insert
      <3>2. f \in Without(errors, ks) \/ f \in Tagged(ks) BY DEF Insert
      <3>3. CASE e \in Without(errors, ks) /\ f \in Without(errors, ks) BY <1>1, <3>3 DEF OneText
      <3>4. CASE e \in Tagged(ks) /\ f \in Tagged(ks) BY <1>3, <3>4 DEF OneText
      <3>5. CASE (e \in Tagged(ks) /\ f \in Without(errors, ks)) \/ (f \in Tagged(ks) /\ e \in Without(errors, ks))
        BY <1>2, <1>4, <3>5
      <3> QED BY <3>1, <3>2, <3>3, <3>4, <3>5
    <2> QED BY <2>1, <2>2 DEF OneText
  <1> QED BY <1>1, <1>3, <1>5

LEMMA KeyOfTool ==
  ASSUME NEW c \in Calls
  PROVE  ToolKey[c] \in ToolKeys /\ ToolKey[c] \in Keys /\ (c = "edit" => ToolKey[c] = "tool_edit")
  BY ShapeAssumption DEF ToolKey, ToolKeys, Keys

LEMMA KeysInOrder ==
  /\ ToolKeys \subseteq Keys /\ CheckKeys \subseteq VerificationKeys /\ GateKeys \subseteq VerificationKeys
  /\ VerificationKeys \subseteq Keys /\ {"guard", "provider", "hook"} \subseteq Keys
  /\ ToolKeys \cap VerificationKeys = {} /\ "tool_edit" \in ToolKeys
  /\ CheckKeys \cap GateKeys = {} /\ {"guard", "provider", "hook"} \cap (ToolKeys \cup VerificationKeys) = {}
  /\ "diff" \notin Keys
  BY DEF ToolKeys, CheckKeys, GateKeys, VerificationKeys, Keys

LEMMA ReportsAre ==
  ASSUME NEW steps \in Seq({"auto", "gitdiff"}), NEW checks, checks \in ReportsOf(steps) \/ checks = <<>>
  PROVE  Passed(checks) \subseteq {"auto", "gitdiff"} /\ Failed(checks) \subseteq {"auto", "gitdiff", "runner"}
  <1>1. CASE checks = <<>> BY <1>1 DEF Passed, Failed, StepsOf
  <1>2. CASE checks = <<Report("runner", FALSE)>> BY <1>2 DEF Passed, Failed, StepsOf, Report
  <1>3. CASE \E n \in 1 .. Len(steps) : checks = [i \in 1 .. n |-> Report(steps[i], i < n)]
    <2>1. PICK n \in 1 .. Len(steps) : checks = [i \in 1 .. n |-> Report(steps[i], i < n)] BY <1>3
    <2>2. \A i \in DOMAIN checks : checks[i].step \in {"auto", "gitdiff"} BY <2>1 DEF Report
    <2> QED BY <2>2 DEF Passed, Failed, StepsOf
  <1>4. CASE checks = [i \in 1 .. Len(steps) |-> Report(steps[i], TRUE)]
    <2>1. \A i \in DOMAIN checks : checks[i].step \in {"auto", "gitdiff"} BY <1>4 DEF Report
    <2> QED BY <2>1 DEF Passed, Failed, StepsOf
  <1> QED BY <1>1, <1>2, <1>3, <1>4 DEF ReportsOf

LEMMA StepsAre == EditSteps \in Seq({"auto", "gitdiff"}) /\ <<"gitdiff">> \in Seq({"auto", "gitdiff"})
  <1> DEFINE T == {"auto", "gitdiff"}
             a == IF HasChecks THEN <<"auto">> ELSE <<>>
             g == IF Git THEN <<"gitdiff">> ELSE <<>>
  <1>1. <<"auto">> \in Seq(T) /\ <<"gitdiff">> \in Seq(T) /\ <<>> \in Seq(T) OBVIOUS
  <1> HIDE DEF T
  <1>2. a \in Seq(T) /\ g \in Seq(T)
    <2>1. HasChecks \in BOOLEAN /\ Git \in BOOLEAN BY ShapeAssumption
    <2>2. a = <<"auto">> \/ a = <<>> BY <2>1
    <2>3. g = <<"gitdiff">> \/ g = <<>> BY <2>1
    <2> HIDE DEF a, g
    <2> QED BY <1>1, <2>2, <2>3
  <1> HIDE DEF a, g
  <1>3. a \o g \in Seq(T) BY <1>2
  <1>4. EditSteps = a \o g BY DEF EditSteps, a, g
  <1> QED BY <1>1, <1>3, <1>4 DEF T

-----------------------------------------------------------------------------
(* Every way out of a run.                                                 *)
LEMMA LeaveKeeps ==
  ASSUME LoopInv, Leave, saved' \in TaskRuns, outcome' \in Statuses \cup {"error", "dead"}, {closed', shown'} \subseteq BOOLEAN,
         owed' \subseteq ToolKeys \cup CheckKeys, lost' \subseteq Matters,
         Keeps(owed', shown', lost', KeysOf(saved'.errors), saved'),
         saved'.status = "done" => owed' \subseteq lost' /\ (saved'.mode = "code" => shown' \/ "diff" \in lost')
  PROVE  LoopInv'
  <1>1. /\ phase' = "idle" /\ interrupted' = FALSE /\ taskRun' = saved'
        /\ keyed' = {} /\ validated' = TRUE /\ edited' = FALSE
        /\ turns' = 0 /\ toolCalls' = 0 /\ left' = 0 /\ stalls' = 0
        /\ repeated' = [c \in Calls |-> 0] /\ failures' = [k \in Keys |-> 0]
        /\ runs' = runs
    BY DEF Leave
  <1>2. LoopTypeOK'
    <2>1. runs' \in 0 .. MaxRuns /\ {interrupted', validated', edited', closed', shown'} \subseteq BOOLEAN
      BY <1>1 DEF LoopInv, LoopTypeOK
    <2>2. repeated' \in [Calls -> 0 .. MaxRepeatedCalls] /\ failures' \in [Keys -> Nat] BY <1>1, LimitsAssumption
    <2>3. turns' \in 0 .. MaxTurns + 1 /\ toolCalls' \in 0 .. MaxToolCalls /\ left' \in 0 .. MaxBatch
          /\ stalls' \in 0 .. MaxRepeatedFailures
      BY <1>1, LimitsAssumption
    <2>4. owed' \subseteq Keys BY KeysInOrder
    <2> QED BY <1>1, <2>1, <2>2, <2>3, <2>4 DEF LoopTypeOK
  <1>3. PhasesKept' /\ RunKeeps' /\ StoreKeeps' BY <1>1 DEF PhasesKept, RunKeeps, StoreKeeps
  <1>4. DoneIsSettled' BY DEF DoneIsSettled, Outstanding
  <1> QED BY <1>2, <1>3, <1>4 DEF LoopInv

LEMMA FinishKeeps ==
  ASSUME LoopInv, NEW task \in TaskRuns, Finish(task), shown' \in BOOLEAN, owed' \subseteq ToolKeys \cup CheckKeys,
         lost' \subseteq Matters, Keeps(owed', shown', lost', KeysOf(task.errors), task),
         task.status = "done" => owed' \subseteq lost' /\ (task.mode = "code" => shown' \/ "diff" \in lost')
  PROVE  LoopInv'
  <1>1. Leave /\ (outcome' = saved'.status \/ outcome' = "dead") /\ (closed' = TRUE \/ closed' = closed) BY DEF Finish
  <1>2. closed' \in BOOLEAN BY <1>1 DEF LoopInv, LoopTypeOK
  <1>3. CASE saved' = task
    <2>1. outcome' \in Statuses \cup {"error", "dead"} BY <1>1, <1>3 DEF TaskRuns
    <2> QED BY <1>1, <1>2, <1>3, <2>1, LeaveKeeps
  <1>4. CASE saved' = [task EXCEPT !.status = "blocked", !.errors = @ \cup {[key |-> "hook", tagged |-> FALSE]}]
    <2> DEFINE more == task.errors \cup {[key |-> "hook", tagged |-> FALSE]}
    <2>1. more \subseteq Errors
      <3>1. task.errors \subseteq Errors BY DEF TaskRuns
      <3>2. "hook" \in Keys BY KeysInOrder
      <3>3. [key |-> "hook", tagged |-> FALSE] \in Errors BY <3>2 DEF Errors
      <3> QED BY <3>1, <3>3
    <2>2. saved' = [task EXCEPT !.status = "blocked", !.errors = more] BY <1>4
    <2>3. KeysOf(task.errors) \subseteq KeysOf(more) BY DEF KeysOf
    <2> HIDE DEF more
    <2>4. /\ saved'.status = "blocked" /\ saved'.errors = more
          /\ saved'.changed = task.changed /\ saved'.inspected = task.inspected /\ saved' \in TaskRuns
      BY <2>1, <2>2 DEF TaskRuns, Statuses
    <2>5. outcome' \in Statuses \cup {"error", "dead"} BY <1>1, <2>4 DEF Statuses
    <2>6. Keeps(owed', shown', lost', KeysOf(saved'.errors), saved') BY <2>3, <2>4, KeepsMore
    <2> QED BY <1>1, <1>2, <2>4, <2>5, <2>6, LeaveKeeps
  <1> QED BY <1>3, <1>4 DEF Finish

LEMMA AbortKeeps ==
  ASSUME LoopInv, NEW task \in TaskRuns, NEW status \in Statuses \ {"done"}, Abort(task, status), shown' \in BOOLEAN,
         owed' \subseteq ToolKeys \cup CheckKeys, lost' \subseteq Matters,
         Keeps(owed', shown', lost', KeysOf(task.errors), task)
  PROVE  LoopInv'
  <1>1. Leave /\ outcome' = "error" /\ closed' = TRUE /\ saved' = [task EXCEPT !.status = status] BY DEF Abort
  <1>2. /\ saved'.errors = task.errors /\ saved'.changed = task.changed /\ saved'.inspected = task.inspected
        /\ saved' \in TaskRuns /\ saved'.status = status
    BY <1>1 DEF TaskRuns
  <1>3. Keeps(owed', shown', lost', KeysOf(saved'.errors), saved') BY <1>2, KeepsMore
  <1> QED BY <1>1, <1>2, <1>3, LeaveKeeps

(* What the stored task does not tell is counted as lost.                  *)
LEMMA StopKeeps ==
  ASSUME LoopInv, NEW how \in {"error", "dead"}, shown' \in BOOLEAN, owed' = owed,
         \/ StopAt(saved, how) /\ phase # "idle"
         \/ StopAt(taskRun, how) /\ phase # "idle"
  PROVE  LoopInv'
  <1>1. PICK task \in TaskRuns :
          /\ Leave /\ saved' = task /\ outcome' = how /\ closed' = closed /\ lost' = Outstanding' \ CarriedBy(task)
          /\ task.status = "in_progress"
    <2>1. saved \in TaskRuns /\ taskRun \in TaskRuns BY DEF LoopInv, LoopTypeOK
    <2>2. saved.status = "in_progress" /\ taskRun.status = "in_progress" BY DEF LoopInv, PhasesKept
    <2> QED BY <2>1, <2>2 DEF StopAt
  <1>2. owed' \subseteq ToolKeys \cup CheckKeys /\ "diff" \notin owed'
    <2>1. owed' \subseteq ToolKeys \cup CheckKeys BY DEF LoopInv, PhasesKept
    <2> QED BY <2>1, KeysInOrder
  <1>3. Outstanding' = owed' \cup (IF shown' THEN {} ELSE {"diff"}) BY DEF Outstanding
  <1>4. lost' \subseteq Matters BY <1>1, <1>2, <1>3, KeysInOrder DEF Matters
  <1>5. CarriedBy(task) = KeysOf(task.errors) \cup (IF DiffIsCarried(task) THEN {"diff"} ELSE {}) BY DEF CarriedBy
  <1>6. KeysOf(task.errors) \subseteq Keys BY DEF KeysOf, TaskRuns, Errors
  <1>7. Keeps(owed', shown', lost', KeysOf(task.errors), task)
    <2>1. owed' \ lost' \subseteq KeysOf(task.errors) BY <1>1, <1>2, <1>3, <1>5
    <2>2. ~shown' /\ "diff" \notin lost' => DiffIsCarried(task)
      BY <1>1, <1>3, <1>5, <1>6, KeysInOrder
    <2> QED BY <2>1, <2>2 DEF Keeps, DiffIsCarried
  <1>8. closed' \in BOOLEAN BY <1>1 DEF LoopInv, LoopTypeOK
  <1>9. task.status # "done" BY <1>1
  <1> QED BY <1>1, <1>2, <1>4, <1>7, <1>8, <1>9, LeaveKeeps

LEMMA LoadKeysAre ==
  ASSUME NEW errors \in SUBSET Errors
  PROVE  OneText(LoadKeys(errors)) /\ KeysOf(LoadKeys(errors)) = KeysOf(TaggedErrors(errors))
  <1> DEFINE kept == TaggedErrors(errors)
             keys == LoadKeys(errors)
  <1>1. keys = {[key |-> e.key, tagged |-> FALSE] : e \in kept} BY DEF LoadKeys, TaggedErrors
  <1>2. \A e \in kept : e.key \in Keys BY DEF TaggedErrors, Errors
  <1> HIDE DEF kept, keys
  <1>3. ASSUME NEW e \in keys PROVE e \in Errors /\ e = [key |-> e.key, tagged |-> FALSE] /\ \E k \in kept : k.key = e.key
    <2>1. PICK k \in kept : e = [key |-> k.key, tagged |-> FALSE] BY <1>1
    <2>2. e.key = k.key /\ e = [key |-> e.key, tagged |-> FALSE] BY <2>1
    <2>3. [key |-> k.key, tagged |-> FALSE] \in [key : Keys, tagged : BOOLEAN] BY <1>2
    <2> QED BY <2>1, <2>2, <2>3 DEF Errors
  <1>4. \A k \in kept : \E e \in keys : e.key = k.key
    <2> SUFFICES ASSUME NEW k \in kept PROVE \E e \in keys : e.key = k.key OBVIOUS
    <2>1. [key |-> k.key, tagged |-> FALSE] \in keys BY <1>1
    <2> QED BY <2>1
  <1>5. KeysOf(keys) = KeysOf(kept) BY <1>3, <1>4 DEF KeysOf
  <1>6. OneText(keys) BY <1>3 DEF OneText
  <1> QED BY <1>5, <1>6 DEF kept, keys

-----------------------------------------------------------------------------
(* A resumed run: what only the texts without a key told is lost.          *)
LEMMA RunBegins ==
  ASSUME LoopInv, NEW m \in Modes, EnterRun(m)
  PROVE  LoopInv'
  <1> USE DEF LoopInv
  <1> DEFINE task == IF Replaced(m) THEN NewTask ELSE saved
             open == {e \in task.errors : ~(e.tagged /\ e.key = "guard")}
  <1>1. /\ phase = "idle" /\ runs < MaxRuns /\ runs' = runs + 1 /\ phase' = "head"
        /\ taskRun' = [task EXCEPT !.status = "in_progress", !.mode = m, !.errors = open]
        /\ saved' = taskRun' /\ keyed' = LoadKeys(open)
        /\ validated' = (m # "code" \/ ~task.changed)
        /\ outcome' = "running" /\ closed' = FALSE
        /\ owed' = (IF Replaced(m) THEN {} ELSE owed) /\ shown' = (Replaced(m) \/ shown)
        /\ lost' = (IF Replaced(m) THEN {} ELSE lost \cup ToldByBareTexts(saved))
        /\ UNCHANGED <<interrupted, edited, turns, toolCalls, left, stalls, repeated, failures>>
    BY DEF EnterRun, counters
  <1>2. NewTask \in TaskRuns /\ NewTask.errors = {} /\ NewTask.changed = FALSE BY DEF NewTask, TaskRuns, Statuses
  <1>3. task \in TaskRuns /\ task.errors \subseteq Errors /\ task.changed \in BOOLEAN
    <2>1. saved \in TaskRuns BY DEF LoopTypeOK
    <2>2. task \in TaskRuns BY <1>2, <2>1
    <2> HIDE DEF task
    <2> QED BY <2>2 DEF TaskRuns
  <1>4. open \subseteq task.errors OBVIOUS
  <1>5. OneText(keyed') /\ KeysOf(keyed') = KeysOf(TaggedErrors(open))
    BY <1>1, <1>3, LoadKeysAre
  <1>6. /\ taskRun' \in TaskRuns /\ taskRun'.errors = open /\ taskRun'.changed = task.changed
        /\ taskRun'.inspected = task.inspected /\ taskRun'.status = "in_progress"
    <2>1. m \in {"code", "plan"} BY ShapeAssumption
    <2>2. "in_progress" \in Statuses BY DEF Statuses
    <2> HIDE DEF open, task
    <2> QED BY <1>1, <1>3, <1>4, <2>1, <2>2 DEF TaskRuns
  <1>7. shown' \in BOOLEAN /\ validated' \in BOOLEAN BY <1>1, <1>3 DEF LoopTypeOK
  <1> DEFINE tagged == TaggedErrors(saved.errors)
             bared == [saved EXCEPT !.errors = tagged]
  <1>8. /\ ToldByBareTexts(saved) = CarriedBy(saved) \ CarriedBy(bared)
        /\ saved \in TaskRuns /\ tagged \subseteq Errors /\ saved.errors \subseteq Errors
    <2>1. saved \in TaskRuns BY DEF LoopTypeOK
    <2>2. saved.errors \subseteq Errors BY <2>1 DEF TaskRuns
    <2> QED BY <2>1, <2>2 DEF ToldByBareTexts, TaggedErrors
  <1> HIDE DEF tagged
  <1>9. bared.errors = tagged /\ bared.changed = saved.changed /\ bared.inspected = saved.inspected
    BY <1>8 DEF TaskRuns
  <1> HIDE DEF bared
  <1>10. KeysOf(saved.errors) \subseteq Keys /\ KeysOf(tagged) \subseteq Keys BY <1>8 DEF KeysOf, Errors
  <1>11. LoopTypeOK'
    <2>1. runs' \in 0 .. MaxRuns BY <1>1, LimitsAssumption DEF LoopTypeOK
    <2>2. owed' \subseteq Keys BY <1>1 DEF LoopTypeOK
    <2>3. {interrupted', edited', closed'} \subseteq BOOLEAN BY <1>1 DEF LoopTypeOK
    <2>4. /\ turns' \in 0 .. MaxTurns + 1 /\ toolCalls' \in 0 .. MaxToolCalls /\ left' \in 0 .. MaxBatch
          /\ stalls' \in 0 .. MaxRepeatedFailures
          /\ repeated' \in [Calls -> 0 .. MaxRepeatedCalls] /\ failures' \in [Keys -> Nat]
      BY <1>1 DEF LoopTypeOK
    <2>5. lost' \subseteq Matters
      <3>1. ToldByBareTexts(saved) \subseteq Matters BY <1>8, <1>10 DEF CarriedBy, Matters
      <3> QED BY <1>1, <3>1 DEF LoopTypeOK
    <2> QED BY <1>1, <1>5, <1>6, <1>7, <2>1, <2>2, <2>3, <2>4, <2>5 DEF LoopTypeOK, OneText
  <1>12. PhasesKept' BY <1>1, <1>6 DEF PhasesKept
  <1>13. Keeps(owed', shown', lost', KeysOf(keyed'), taskRun')
    <2>1. CASE Replaced(m) BY <1>1, <2>1 DEF Keeps
    <2>2. CASE ~Replaced(m)
      <3>1. /\ task = saved /\ Keeps(owed, shown, lost, KeysOf(saved.errors), saved)
            /\ owed' = owed /\ shown' = shown /\ lost' = lost \cup (CarriedBy(saved) \ CarriedBy(bared))
        <4>1. task = saved BY <2>2
        <4>2. shown \in BOOLEAN BY DEF LoopTypeOK
        <4>3. StoreKeeps OBVIOUS
        <4> HIDE DEF task, open
        <4>4. Keeps(owed, shown, lost, KeysOf(saved.errors), saved) BY <1>1, <4>3 DEF StoreKeeps
        <4> QED BY <1>1, <1>8, <2>2, <4>1, <4>2, <4>4
      <3>2. KeysOf(tagged) \subseteq KeysOf(TaggedErrors(open)) \cup {"guard"}
        BY <3>1 DEF KeysOf, TaggedErrors, tagged
      <3>3. owed \subseteq Keys \ {"guard", "diff"} BY KeysInOrder DEF PhasesKept
      <3>4. ASSUME NEW k \in owed, k \notin lost' PROVE k \in KeysOf(keyed')
        <4>1. k \in CarriedBy(saved) BY <3>1, <3>4 DEF Keeps, CarriedBy
        <4>2. k \in CarriedBy(bared) /\ k # "diff" BY <3>1, <3>3, <3>4, <4>1
        <4>3. k \in KeysOf(tagged) BY <1>9, <4>2 DEF CarriedBy
        <4> QED BY <1>5, <3>2, <3>3, <4>3
      <3>5. ASSUME ~shown, "diff" \notin lost'
            PROVE  "tool_edit" \in KeysOf(keyed') \/ (taskRun'.changed /\ ~taskRun'.inspected)
        <4>1. DiffIsCarried(saved) BY <3>1, <3>5 DEF Keeps, DiffIsCarried
        <4>2. "diff" \in CarriedBy(bared) BY <3>1, <3>5, <4>1 DEF CarriedBy
        <4>3. DiffIsCarried(bared) BY <1>9, <1>10, <4>2, KeysInOrder DEF CarriedBy
        <4>4. (saved.changed /\ ~saved.inspected) \/ "tool_edit" \in KeysOf(tagged) BY <1>9, <4>3 DEF DiffIsCarried
        <4>5. "tool_edit" # "guard" OBVIOUS
        <4> QED BY <1>5, <1>6, <3>1, <3>2, <4>4, <4>5
      <3> QED BY <3>1, <3>4, <3>5 DEF Keeps
    <2> QED BY <2>1, <2>2
  <1>14. KeysOf(keyed') \subseteq KeysOf(taskRun'.errors)
    <2>1. KeysOf(TaggedErrors(open)) \subseteq KeysOf(open) BY DEF KeysOf, TaggedErrors
    <2> HIDE DEF open
    <2> QED BY <1>5, <1>6, <2>1
  <1>15. RunKeeps' /\ StoreKeeps' BY <1>1, <1>13, <1>14 DEF RunKeeps, StoreKeeps
  <1>16. DoneIsSettled' BY <1>1, <1>6 DEF DoneIsSettled
  <1> QED BY <1>11, <1>12, <1>15, <1>16

LEMMA MovesKeep ==
  ASSUME LoopInv, LoopTypeOK', phase # "idle", phase' # "idle",
         UNCHANGED <<runs, taskRun, keyed, outcome, owed, shown, lost>>, saved' = saved \/ saved' = taskRun,
         phase = "verify" => phase' = "verify", phase' = "verify" => left' > 0, phase' = "model" => saved' = taskRun
  PROVE  LoopInv'
  <1> USE DEF LoopInv
  <1>1. PhasesKept' BY DEF PhasesKept
  <1>2. RunKeeps' /\ StoreKeeps' BY DEF RunKeeps, StoreKeeps
  <1>3. saved'.status # "done" BY DEF PhasesKept
  <1> QED BY <1>1, <1>2, <1>3 DEF DoneIsSettled

LEMMA CancelKeeps == ASSUME LoopInv, Cancel PROVE LoopInv'
  <1>1. /\ phase # "idle" /\ interrupted' = TRUE
        /\ UNCHANGED <<phase, runs, taskRun, saved, keyed, validated, edited, turns, toolCalls, left, stalls, repeated, failures,
                       outcome, closed, owed, shown, lost>>
    BY DEF Cancel, counters, result, history
  <1>2. LoopTypeOK' BY <1>1 DEF LoopInv, LoopTypeOK
  <1>3. (phase = "verify" => left > 0) /\ (phase = "model" => saved = taskRun) BY DEF LoopInv, PhasesKept
  <1> QED BY <1>1, <1>2, <1>3, MovesKeep

LEMMA LoopMoves ==
  ASSUME LoopInv, LoopHead \/ UseResponse \/ EndOfCalls \/ DiffSkipped
  PROVE  LoopInv'
  <1>1. CASE LoopHead
    <2>1. /\ phase = "head" /\ phase' = "model" /\ turns <= MaxTurns /\ turns' = turns + 1 /\ saved' = taskRun
          /\ UNCHANGED <<runs, interrupted, taskRun, keyed, validated, edited, toolCalls, left, stalls, repeated, failures,
                         outcome, closed, owed, shown, lost>>
      BY <1>1 DEF LoopHead, WithinLimits, result, history
    <2>2. turns' \in 0 .. MaxTurns + 1 BY <2>1, LimitsAssumption DEF LoopInv, LoopTypeOK
    <2>3. LoopTypeOK' BY <2>1, <2>2 DEF LoopInv, LoopTypeOK
    <2> QED BY <2>1, <2>3, MovesKeep
  <1>2. CASE UseResponse \/ EndOfCalls \/ DiffSkipped
    <2>1. /\ phase \in {"response", "calls", "diff"} /\ phase' \in {"calls", "final", "head", "gate"}
          /\ UNCHANGED <<runs, interrupted, taskRun, saved, keyed, validated, edited, turns, toolCalls, left, stalls, repeated, failures,
                         outcome, closed, owed, shown, lost>>
      BY <1>2 DEF UseResponse, EndOfCalls, DiffSkipped, counters, result, history
    <2>2. LoopTypeOK' BY <2>1 DEF LoopInv, LoopTypeOK
    <2> QED BY <2>1, <2>2, MovesKeep
  <1> QED BY <1>1, <1>2

LEMMA Standing ==
  ASSUME LoopInv, phase \notin {"idle", "verify"}
  PROVE  /\ taskRun \in TaskRuns /\ shown \in BOOLEAN /\ owed \subseteq ToolKeys \cup CheckKeys /\ lost \subseteq Matters
         /\ OneText(keyed) /\ taskRun.status = "in_progress" /\ saved.status = "in_progress" /\ outcome = "running"
         /\ Keeps(owed, shown, lost, KeysOf(keyed), taskRun)
         /\ Keeps(owed, shown, lost, KeysOf(taskRun.errors), taskRun)
  <1>1. Keeps(owed, shown, lost, KeysOf(keyed), taskRun) /\ KeysOf(keyed) \subseteq KeysOf(taskRun.errors)
    BY DEF LoopInv, RunKeeps
  <1>2. Keeps(owed, shown, lost, KeysOf(taskRun.errors), taskRun) BY <1>1, KeepsMore
  <1> QED BY <1>1, <1>2 DEF LoopInv, LoopTypeOK, PhasesKept, OneText

(* The ways out that change no failure and no inspection.                  *)
LEMMA ExitsKeep ==
  ASSUME LoopInv, CheckLimitsFails \/ ContextFails \/ ModelFails \/ CallStopped \/ FinalUserInput \/ FinalBlocked
  PROVE  LoopInv'
  <1>1. CASE CheckLimitsFails \/ CallStopped \/ (ModelFails /\ Abort(taskRun, "cancelled"))
    <2>1. phase \notin {"idle", "verify"} /\ UNCHANGED <<owed, shown, lost>>
      BY <1>1 DEF CheckLimitsFails, CallStopped, ModelFails, history
    <2>2. \E status \in Statuses \ {"done"} : Abort(taskRun, status)
      <3>1. "cancelled" \in Statuses \ {"done"} /\ "limit" \in Statuses \ {"done"} BY DEF Statuses
      <3> HIDE DEF Abort
      <3>2. Abort(taskRun, "cancelled") \/ Abort(taskRun, "limit") BY <1>1 DEF CheckLimitsFails, CallStopped
      <3> QED BY <3>1, <3>2
    <2>3. PICK status \in Statuses \ {"done"} : Abort(taskRun, status) BY <2>2
    <2> QED BY <2>1, <2>3, Standing, AbortKeeps
  <1>2. CASE ModelFails /\ Abort([taskRun EXCEPT !.errors = @ \cup Tagged({"provider"})], "blocked")
    <2> DEFINE more == taskRun.errors \cup Tagged({"provider"})
               task == [taskRun EXCEPT !.errors = more]
    <2>1. phase \notin {"idle", "verify"} /\ UNCHANGED <<owed, shown, lost>> BY <1>2 DEF ModelFails, history
    <2>2. Tagged({"provider"}) \subseteq Errors BY KeysInOrder DEF Tagged, Errors
    <2>3. more \subseteq Errors /\ taskRun \in TaskRuns BY <2>1, <2>2, Standing DEF TaskRuns
    <2>4. KeysOf(taskRun.errors) \subseteq KeysOf(more) BY DEF KeysOf
    <2> HIDE DEF more
    <2>5. task \in TaskRuns /\ task.errors = more /\ task.changed = taskRun.changed /\ task.inspected = taskRun.inspected
      BY <2>3 DEF TaskRuns
    <2>6. Abort(task, "blocked") /\ "blocked" \in Statuses \ {"done"} BY <1>2 DEF more, Statuses
    <2> HIDE DEF task
    <2>7. Keeps(owed', shown', lost', KeysOf(task.errors), task) BY <2>1, <2>4, <2>5, Standing, KeepsMore
    <2> QED BY <2>1, <2>5, <2>6, <2>7, Standing, AbortKeeps
  <1>3. CASE ContextFails
    <2>1. /\ phase = "model" /\ Leave /\ saved' = saved /\ saved = taskRun /\ outcome' = "error" /\ closed' = TRUE
          /\ UNCHANGED <<owed, shown, lost>>
      BY <1>3 DEF ContextFails, Fail, history, LoopInv, PhasesKept
    <2> QED BY <2>1, Standing, LeaveKeeps
  <1>4. CASE FinalUserInput \/ FinalBlocked
    <2>1. /\ phase \notin {"idle", "verify"} /\ UNCHANGED <<owed, shown, lost>>
          /\ Finish([taskRun EXCEPT !.status = "user_input"]) \/ Finish([taskRun EXCEPT !.status = "blocked"])
      BY <1>4 DEF FinalUserInput, FinalBlocked, FinishBlocked, history
    <2>2. PICK status \in {"user_input", "blocked"} : Finish([taskRun EXCEPT !.status = status]) BY <2>1
    <2> DEFINE task == [taskRun EXCEPT !.status = status]
    <2>3. /\ task \in TaskRuns /\ task.errors = taskRun.errors /\ task.changed = taskRun.changed
          /\ task.inspected = taskRun.inspected /\ task.status # "done"
      BY <2>1, Standing DEF TaskRuns, Statuses
    <2>4. Finish(task) BY <2>2
    <2> HIDE DEF task
    <2>5. Keeps(owed', shown', lost', KeysOf(task.errors), task) BY <2>1, <2>3, Standing, KeepsMore
    <2> QED BY <2>1, <2>3, <2>4, <2>5, Standing, FinishKeeps
  <1> QED BY <1>1, <1>2, <1>3, <1>4 DEF ModelFails

(* The abrupt ends.                                                        *)
LEMMA AbruptEndsKeep ==
  ASSUME LoopInv, CompactionFails \/ CheckpointFails \/ VerificationRefused \/ ProcessEnds
  PROVE  LoopInv'
  <1>1. shown \in BOOLEAN BY DEF LoopInv, LoopTypeOK
  <1>2. CASE CompactionFails \/ VerificationRefused \/ ProcessEnds
    <2>1. phase # "idle" /\ owed' = owed /\ shown' \in BOOLEAN
      BY <1>1, <1>2 DEF CompactionFails, VerificationRefused, ProcessEnds
    <2>2. StopAt(saved, "error") \/ StopAt(saved, "dead") BY <1>2 DEF CompactionFails, VerificationRefused, ProcessEnds
    <2>3. "error" \in {"error", "dead"} /\ "dead" \in {"error", "dead"} OBVIOUS
    <2>4. PICK how \in {"error", "dead"} : StopAt(saved, how) BY <2>2, <2>3
    <2> QED BY <2>1, <2>4, StopKeeps
  <1>3. CASE CheckpointFails
    <2>1. phase # "idle" /\ owed' = owed /\ shown' \in BOOLEAN BY <1>3 DEF CheckpointFails, CallAdmitted
    <2>2. PICK how \in {"error", "dead"} : StopAt(taskRun, how) BY <1>3 DEF CheckpointFails
    <2> QED BY <2>1, <2>2, StopKeeps
  <1> QED BY <1>2, <1>3

LEMMA ModelAnswers ==
  ASSUME LoopInv, NEW n \in 0 .. MaxBatch, ModelResponds(n)
  PROVE  LoopInv'
  <1>1. /\ phase = "model" /\ phase' = "response" /\ keyed' = Without(keyed, {"provider"}) /\ left' = n
        /\ taskRun' = (IF keyed' = keyed THEN taskRun ELSE [taskRun EXCEPT !.errors = keyed'])
        /\ UNCHANGED <<runs, interrupted, saved, validated, edited, turns, toolCalls, stalls, repeated, failures,
                       outcome, closed, owed, shown, lost>>
    BY DEF ModelResponds, result, history
  <1>2. /\ taskRun \in TaskRuns /\ OneText(keyed) /\ owed \subseteq ToolKeys \cup CheckKeys /\ taskRun.status = "in_progress"
        /\ Keeps(owed, shown, lost, KeysOf(keyed), taskRun) /\ KeysOf(keyed) \subseteq KeysOf(taskRun.errors)
        /\ saved.status = "in_progress" /\ outcome = "running"
    BY <1>1, Standing DEF LoopInv, RunKeeps
  <1>3. {"provider"} \in SUBSET Keys /\ "provider" \notin ToolKeys \cup CheckKeys BY KeysInOrder
  <1>4. OneText(keyed') /\ KeysOf(keyed') = KeysOf(keyed) \ {"provider"} BY <1>1, <1>2, <1>3, TextsAre, KeysAre
  <1>5. /\ taskRun' \in TaskRuns /\ taskRun'.changed = taskRun.changed /\ taskRun'.inspected = taskRun.inspected
        /\ taskRun'.status = "in_progress" /\ KeysOf(keyed') \subseteq KeysOf(taskRun'.errors)
    BY <1>1, <1>2, <1>4 DEF TaskRuns, OneText
  <1>6. LoopTypeOK' BY <1>1, <1>4, <1>5 DEF LoopInv, LoopTypeOK, OneText
  <1>7. PhasesKept' BY <1>1, <1>2, <1>5 DEF PhasesKept
  <1>8. Keeps(owed', shown', lost', KeysOf(keyed'), taskRun') BY <1>1, <1>2, <1>3, <1>4, <1>5 DEF Keeps, ToolKeys
  <1>9. RunKeeps' /\ StoreKeeps' BY <1>1, <1>5, <1>8 DEF RunKeeps, StoreKeeps
  <1> QED BY <1>1, <1>2, <1>6, <1>7, <1>9 DEF LoopInv, DoneIsSettled

-----------------------------------------------------------------------------
(* A call that ends the run.                                               *)
LEMMA CallEnds ==
  ASSUME LoopInv, NEW c \in Calls, CallRepeated(c) \/ CallRefused(c) \/ \E same, hookFailed \in BOOLEAN : CallBlocks(c, same, hookFailed)
  PROVE  LoopInv'
  <1> DEFINE key == IF CallRepeated(c) THEN "guard" ELSE ToolKey[c]
             task == [taskRun EXCEPT !.errors = Insert(keyed, {key})]
  <1>1. /\ phase = "calls"
        /\ FinishBlocked(task) \/ Abort(task, "blocked")
        /\ \/ UNCHANGED <<owed, shown, lost>>
           \/ /\ key = ToolKey[c]
              /\ \E changes \in BOOLEAN : (changes => c = "edit") /\ Record({}, {ToolKey[c]}, changes, FALSE)
    <2>1. CASE CallRepeated(c)
      <3>1. key = "guard" /\ phase = "calls" /\ UNCHANGED <<owed, shown, lost>> BY <2>1 DEF CallRepeated, CallAdmitted, history
      <3>2. FinishBlocked(task) BY <2>1, <3>1 DEF CallRepeated
      <3> QED BY <3>1, <3>2
    <2>2. CASE ~CallRepeated(c) /\ CallRefused(c)
      <3>1. key = ToolKey[c] BY <2>2
      <3>2. phase = "calls" /\ Record({}, {ToolKey[c]}, FALSE, FALSE) BY <2>2 DEF CallRefused, CallAdmitted
      <3>3. Abort(task, "blocked") BY <2>2, <3>1 DEF CallRefused
      <3> HIDE DEF key, task
      <3> QED BY <3>1, <3>2, <3>3
    <2>3. CASE ~CallRepeated(c) /\ \E same, hookFailed \in BOOLEAN : CallBlocks(c, same, hookFailed)
      <3>1. key = ToolKey[c] BY <2>3
      <3>2. PICK same \in BOOLEAN, hookFailed \in BOOLEAN : CallBlocks(c, same, hookFailed) BY <2>3
      <3>3. phase = "calls" /\ Record({}, {ToolKey[c]}, Changes(c, FALSE, hookFailed), FALSE)
        BY <3>2 DEF CallBlocks, CallAdmitted
      <3>4. FinishBlocked(task) BY <3>1, <3>2 DEF CallBlocks
      <3>5. Changes(c, FALSE, hookFailed) \in BOOLEAN /\ (Changes(c, FALSE, hookFailed) => c = "edit") BY DEF Changes
      <3> HIDE DEF key, task
      <3> QED BY <3>1, <3>3, <3>4, <3>5
    <2> QED BY <2>1, <2>2, <2>3
  <1>2. /\ taskRun \in TaskRuns /\ shown \in BOOLEAN /\ OneText(keyed) /\ owed \subseteq ToolKeys \cup CheckKeys
        /\ lost \subseteq Matters /\ Keeps(owed, shown, lost, KeysOf(keyed), taskRun)
    BY <1>1, Standing
  <1>3. key \in Keys /\ ToolKey[c] \in ToolKeys /\ (c = "edit" => ToolKey[c] = "tool_edit") BY KeyOfTool, KeysInOrder
  <1>4. "blocked" \in Statuses \ {"done"} BY DEF Statuses
  <1> DEFINE ended == [task EXCEPT !.status = "blocked"]
             errors == Insert(keyed, {key})
  <1> HIDE DEF key
  <1>5. OneText(errors) /\ KeysOf(errors) = KeysOf(keyed) \cup {key} BY <1>2, <1>3, TextsAre, KeysAre
  <1>6. errors \in SUBSET Errors BY <1>5 DEF OneText
  <1>7. /\ task \in TaskRuns /\ task.errors = errors /\ task.changed = taskRun.changed /\ task.inspected = taskRun.inspected
        /\ ended \in TaskRuns /\ ended.errors = errors /\ ended.changed = taskRun.changed /\ ended.inspected = taskRun.inspected
        /\ ended.status = "blocked"
    <2> HIDE DEF errors
    <2>1. task = [taskRun EXCEPT !.errors = errors] BY DEF errors
    <2> HIDE DEF task
    <2>2. /\ task \in TaskRuns /\ task.errors = errors /\ task.changed = taskRun.changed /\ task.inspected = taskRun.inspected
      BY <1>2, <1>6, <2>1 DEF TaskRuns
    <2> QED BY <1>4, <2>2 DEF TaskRuns
  <1> HIDE DEF errors, task, ended
  <1>8. /\ shown' \in BOOLEAN /\ owed' \subseteq ToolKeys \cup CheckKeys /\ lost' \subseteq Matters
        /\ Keeps(owed', shown', lost', KeysOf(errors), taskRun)
    <2>1. CASE UNCHANGED <<owed, shown, lost>> BY <1>2, <1>5, <2>1, KeepsMore
    <2>2. CASE /\ key = ToolKey[c]
               /\ \E changes \in BOOLEAN : (changes => c = "edit") /\ Record({}, {ToolKey[c]}, changes, FALSE)
      <3>1. PICK changes \in BOOLEAN : (changes => c = "edit") /\ Record({}, {ToolKey[c]}, changes, FALSE) BY <2>2
      <3>2. /\ owed' = owed \cup {key} /\ shown' = (shown /\ ~changes)
            /\ lost' = (lost \ {key}) \ (IF changes THEN {"diff"} ELSE {})
        BY <2>2, <3>1 DEF Record
      <3>3. owed' \ lost' \subseteq KeysOf(errors)
        <4>1. owed' \subseteq Keys /\ "diff" \notin owed' BY <1>2, <1>3, <2>2, <3>2, KeysInOrder
        <4> QED BY <1>2, <1>5, <3>2, <4>1 DEF Keeps
      <3>4. ASSUME ~shown', "diff" \notin lost' PROVE "tool_edit" \in KeysOf(errors) \/ (taskRun.changed /\ ~taskRun.inspected)
        <4>1. CASE changes BY <1>3, <1>5, <2>2, <3>1, <4>1
        <4>2. CASE ~changes
          <5>1. "diff" # key BY <1>3, KeysInOrder
          <5>2. ~shown /\ "diff" \notin lost BY <3>2, <3>4, <4>2, <5>1
          <5> QED BY <1>2, <1>5, <5>2 DEF Keeps
        <4> QED BY <4>1, <4>2
      <3> QED BY <1>2, <1>3, <2>2, <3>2, <3>3, <3>4 DEF Keeps
    <2> QED BY <1>1, <2>1, <2>2
  <1>9. CASE Abort(task, "blocked")
    <2>1. Keeps(owed', shown', lost', KeysOf(task.errors), task) BY <1>7, <1>8, KeepsMore
    <2> QED BY <1>4, <1>7, <1>8, <1>9, <2>1, AbortKeeps
  <1>10. CASE FinishBlocked(task)
    <2>1. Finish(ended) BY <1>10 DEF FinishBlocked, ended
    <2>2. Keeps(owed', shown', lost', KeysOf(ended.errors), ended) BY <1>7, <1>8, KeepsMore
    <2> QED BY <1>7, <1>8, <2>1, <2>2, FinishKeeps
  <1> QED BY <1>1, <1>9, <1>10

LEMMA CallIsDenied ==
  ASSUME LoopInv, NEW c \in Calls, CallDenied(c)
  PROVE  LoopInv'
  <1> DEFINE check == {c} \cap {"check", "diffcheck"}
  <1>1. /\ phase = "calls" /\ left > 0 /\ toolCalls < MaxToolCalls /\ repeated[c] < MaxRepeatedCalls
        /\ toolCalls' = toolCalls + 1 /\ repeated' = [repeated EXCEPT ![c] = @ + 1]
        /\ saved' = taskRun /\ keyed' = Insert(keyed, check) /\ validated' = (validated /\ check = {})
        /\ edited' = FALSE /\ phase' = "verify"
        /\ owed' = owed \cup check /\ lost' = lost \ check /\ shown' = shown
        /\ UNCHANGED <<runs, interrupted, taskRun, turns, left, stalls, failures, outcome, closed>>
    <2>1. shown \in BOOLEAN BY DEF LoopInv, LoopTypeOK
    <2> QED BY <2>1 DEF CallDenied, CountCall, CallAdmitted, Record, result
  <1>2. check \subseteq CheckKeys /\ check \in SUBSET Keys BY KeysInOrder DEF CheckKeys
  <1> HIDE DEF check
  <1>3. /\ taskRun \in TaskRuns /\ OneText(keyed) /\ owed \subseteq ToolKeys \cup CheckKeys
        /\ lost \subseteq Matters /\ Keeps(owed, shown, lost, KeysOf(keyed), taskRun)
        /\ taskRun.status = "in_progress" /\ outcome = "running"
    BY <1>1, Standing
  <1>4. OneText(keyed') /\ KeysOf(keyed') = KeysOf(keyed) \cup check BY <1>1, <1>2, <1>3, TextsAre, KeysAre
  <1>5. owed' \subseteq ToolKeys \cup CheckKeys BY <1>1, <1>2, <1>3
  <1>6. toolCalls' \in 0 .. MaxToolCalls /\ repeated' \in [Calls -> 0 .. MaxRepeatedCalls]
    BY <1>1, LimitsAssumption DEF LoopInv, LoopTypeOK
  <1>7. LoopTypeOK'
    <2>1. owed' \subseteq Keys /\ lost' \subseteq Matters BY <1>1, <1>3, <1>5, KeysInOrder
    <2>2. validated' \in BOOLEAN /\ edited' \in BOOLEAN /\ saved' \in TaskRuns BY <1>1, <1>3
    <2> QED BY <1>1, <1>4, <1>6, <2>1, <2>2 DEF LoopInv, LoopTypeOK, OneText
  <1>8. PhasesKept' BY <1>1, <1>3, <1>5 DEF PhasesKept
  <1>9. Keeps(owed', shown', lost', KeysOf(keyed'), taskRun')
    <2>1. "diff" \notin check BY <1>2, KeysInOrder
    <2>2. owed' \ lost' \subseteq KeysOf(keyed') BY <1>1, <1>3, <1>4 DEF Keeps
    <2>3. ~shown' /\ "diff" \notin lost' => "tool_edit" \in KeysOf(keyed') \/ (taskRun'.changed /\ ~taskRun'.inspected)
      BY <1>1, <1>3, <1>4, <2>1 DEF Keeps
    <2> QED BY <2>2, <2>3 DEF Keeps
  <1>10. RunKeeps' /\ StoreKeeps' BY <1>1, <1>9 DEF RunKeeps, StoreKeeps
  <1>11. DoneIsSettled' BY <1>1, <1>3 DEF DoneIsSettled
  <1> QED BY <1>7, <1>8, <1>10, <1>11 DEF LoopInv

LEMMA CallIsHandled ==
  ASSUME LoopInv, NEW c \in Calls, NEW ok \in BOOLEAN, NEW same \in BOOLEAN, NEW hookFailed \in BOOLEAN,
         NEW diagnostics \in {"none", "pass", "fail"}, NEW complete \in BOOLEAN,
         CallReturns(c, ok, same, hookFailed, diagnostics, complete)
  PROVE  LoopInv'
  <1> DEFINE changes == Changes(c, ok, hookFailed)
             diff == DiffOfEdit(changes, complete)
             pass == Checked(c, ok, diagnostics).pass
             fail == Checked(c, ok, diagnostics).fail
             key == ToolKey[c]
             tool == IF ok THEN Without(keyed, {key}) ELSE Insert(keyed, {key})
             passed == pass \cup (IF pass # {} THEN {"after_edit"} ELSE {}) \cup (IF diff THEN {"final_diff"} ELSE {})
                         \cup (IF diff /\ ~(Verifier /\ HasChecks) THEN {"after_edit"} ELSE {})
             settled == pass \cup (IF ok THEN {key} ELSE {})
             failed == fail \cup (IF ok THEN {} ELSE {key})
             seen == diff \/ (c = "diffcheck" /\ ok)
  <1>1. /\ phase = "calls" /\ phase' = "verify" /\ left > 0 /\ toolCalls < MaxToolCalls /\ repeated[c] < MaxRepeatedCalls
        /\ toolCalls' = toolCalls + 1 /\ repeated' = [repeated EXCEPT ![c] = @ + 1]
        /\ failures' = (IF ok \/ ~same THEN failures ELSE [failures EXCEPT ![key] = @ + 1])
        /\ stalls' = (IF ok THEN 0 ELSE stalls) /\ saved' = taskRun
        /\ UNCHANGED <<runs, interrupted, turns, left, outcome, closed>>
    BY DEF CallReturns, CountCall, CallAdmitted, result
  <1>2. /\ keyed' = Insert(Without(tool, passed), fail)
        /\ validated' = (\/ diff /\ ~(Verifier /\ HasChecks)
                         \/ fail = {} /\ (pass # {} \/ (validated /\ ~changes)))
        /\ edited' = changes
    BY DEF CallReturns, CallKeys
  <1>3. /\ owed' = (owed \ settled) \cup failed
        /\ lost' = (lost \ (settled \cup failed)) \ (IF seen \/ changes THEN {"diff"} ELSE {})
        /\ shown' = (seen \/ (shown /\ ~changes))
    BY DEF CallReturns, Record
  <1>4. taskRun' = [taskRun EXCEPT !.changed = @ \/ changes,
                                   !.inspected = (@ /\ ~(ok /\ changes)) \/ (c = "diffcheck" /\ ok) \/ diff]
    BY DEF CallReturns, CallTask
  <1>5. pass \subseteq CheckKeys /\ fail \subseteq CheckKeys BY DEF Checked, CheckKeys
  <1>6. changes = (c = "edit" /\ (ok \/ hookFailed)) /\ diff \in BOOLEAN /\ changes \in BOOLEAN /\ (diff => changes)
    <2>1. changes = (c = "edit" /\ (ok \/ hookFailed)) BY DEF Changes
    <2>2. diff \in BOOLEAN /\ (diff => changes) BY DEF DiffOfEdit
    <2> HIDE DEF changes, diff
    <2> QED BY <2>1, <2>2
  <1> HIDE DEF pass, fail, diff, changes
  <1>7. key \in ToolKeys /\ key \in Keys /\ (key = "tool_edit" <=> c = "edit")
    BY ShapeAssumption DEF ToolKey, ToolKeys, Keys
  <1>8. passed \subseteq pass \cup GateKeys BY DEF GateKeys
  <1> HIDE DEF key, passed
  <1>9. /\ taskRun \in TaskRuns /\ shown \in BOOLEAN /\ OneText(keyed) /\ owed \subseteq ToolKeys \cup CheckKeys
        /\ lost \subseteq Matters /\ Keeps(owed, shown, lost, KeysOf(keyed), taskRun)
        /\ taskRun.status = "in_progress" /\ outcome = "running"
    BY <1>1, Standing
  <1>10. /\ OneText(keyed')
         /\ KeysOf(keyed') = (KeysOf(tool) \ passed) \cup fail
         /\ KeysOf(tool) = IF ok THEN KeysOf(keyed) \ {key} ELSE KeysOf(keyed) \cup {key}
    <2>1. {key} \in SUBSET Keys /\ passed \in SUBSET Keys /\ fail \in SUBSET Keys BY <1>5, <1>7, <1>8, KeysInOrder
    <2>2. OneText(tool) /\ KeysOf(tool) = IF ok THEN KeysOf(keyed) \ {key} ELSE KeysOf(keyed) \cup {key}
      BY <1>9, <2>1, TextsAre, KeysAre
    <2> HIDE DEF tool
    <2> DEFINE rest == Without(tool, passed)
    <2>3. OneText(rest) /\ KeysOf(rest) = KeysOf(tool) \ passed BY <2>1, <2>2, TextsAre, KeysAre
    <2>4. keyed' = Insert(rest, fail) BY <1>2
    <2> HIDE DEF rest
    <2>5. OneText(keyed') /\ KeysOf(keyed') = KeysOf(rest) \cup fail BY <2>1, <2>3, <2>4, TextsAre, KeysAre
    <2> QED BY <2>2, <2>3, <2>5
  <1> HIDE DEF tool
  <1>11. settled \cup failed \subseteq ToolKeys \cup CheckKeys BY <1>5, <1>7
  <1>12. owed' \subseteq ToolKeys \cup CheckKeys BY <1>3, <1>9, <1>11
  <1>13. seen \in BOOLEAN BY <1>6
  <1>14. /\ taskRun' \in TaskRuns /\ taskRun'.changed = (taskRun.changed \/ changes) /\ taskRun'.status = "in_progress"
         /\ taskRun'.inspected = ((taskRun.inspected /\ ~(ok /\ changes)) \/ (c = "diffcheck" /\ ok) \/ diff)
    <2> DEFINE ch == taskRun.changed \/ changes
               ins == (taskRun.inspected /\ ~(ok /\ changes)) \/ (c = "diffcheck" /\ ok) \/ diff
    <2>1. taskRun' = [taskRun EXCEPT !.changed = ch, !.inspected = ins] BY <1>4
    <2>2. ch \in BOOLEAN /\ ins \in BOOLEAN OBVIOUS
    <2> HIDE DEF ch, ins
    <2>3. taskRun' \in TaskRuns /\ taskRun'.changed = ch /\ taskRun'.inspected = ins /\ taskRun'.status = "in_progress"
      BY <1>9, <2>1, <2>2 DEF TaskRuns
    <2> QED BY <2>3 DEF ch, ins
  <1>15. owed' \ lost' \subseteq KeysOf(keyed')
    <2> SUFFICES ASSUME NEW k \in owed', k \notin lost' PROVE k \in KeysOf(keyed') OBVIOUS
    <2>1. k \notin GateKeys /\ k # "diff" BY <1>12, KeysInOrder
    <2>2. k \in failed \/ (k \in owed /\ k \notin settled /\ k \notin lost) BY <1>3, <2>1
    <2>3. key \notin passed BY <1>5, <1>7, <1>8, KeysInOrder
    <2>4. CASE k \in failed BY <1>10, <2>3, <2>4
    <2>5. CASE k \in owed /\ k \notin settled /\ k \notin lost
      <3>1. k \in KeysOf(keyed) BY <1>9, <2>5 DEF Keeps
      <3> QED BY <1>8, <1>10, <2>1, <2>5, <3>1
    <2> QED BY <2>2, <2>4, <2>5
  <1>16. ASSUME ~shown', "diff" \notin lost' PROVE "tool_edit" \in KeysOf(keyed') \/ (taskRun'.changed /\ ~taskRun'.inspected)
    <2>1. ~diff /\ ~(c = "diffcheck" /\ ok) /\ (~shown \/ changes) BY <1>3, <1>16
    <2>2. "tool_edit" \notin passed BY <1>5, <1>8, KeysInOrder
    <2>3. CASE changes /\ ok BY <1>14, <2>1, <2>3
    <2>4. CASE changes /\ ~ok BY <1>6, <1>7, <1>10, <2>2, <2>4
    <2>5. CASE ~changes
      <3>1. "diff" \notin settled \cup failed BY <1>11, KeysInOrder
      <3>2. "diff" \notin lost BY <1>3, <1>16, <2>1, <2>5, <3>1
      <3>3. "tool_edit" \in KeysOf(keyed) \/ (taskRun.changed /\ ~taskRun.inspected) BY <1>9, <2>1, <2>5, <3>2 DEF Keeps
      <3>4. ok => key # "tool_edit" BY <1>6, <1>7, <2>5
      <3>5. "tool_edit" \in KeysOf(keyed) => "tool_edit" \in KeysOf(keyed') BY <1>10, <2>2, <3>4
      <3>6. taskRun.changed /\ ~taskRun.inspected => taskRun'.changed /\ ~taskRun'.inspected BY <1>14, <2>1, <2>5
      <3> QED BY <3>3, <3>5, <3>6
    <2> QED BY <1>6, <2>3, <2>4, <2>5
  <1>17. Keeps(owed', shown', lost', KeysOf(keyed'), taskRun') BY <1>15, <1>16 DEF Keeps
  <1>18. LoopTypeOK'
    <2>1. toolCalls' \in 0 .. MaxToolCalls /\ repeated' \in [Calls -> 0 .. MaxRepeatedCalls]
      BY <1>1, LimitsAssumption DEF LoopInv, LoopTypeOK
    <2>2. failures' \in [Keys -> Nat] /\ stalls' \in 0 .. MaxRepeatedFailures
      BY <1>1, <1>7, LimitsAssumption DEF LoopInv, LoopTypeOK
    <2>3. validated' \in BOOLEAN /\ edited' \in BOOLEAN /\ shown' \in BOOLEAN BY <1>2, <1>3, <1>6, <1>13
    <2>4. owed' \subseteq Keys /\ lost' \subseteq Matters BY <1>3, <1>9, <1>12, KeysInOrder
    <2> QED BY <1>1, <1>9, <1>10, <1>14, <2>1, <2>2, <2>3, <2>4 DEF LoopInv, LoopTypeOK, OneText
  <1>19. PhasesKept' BY <1>1, <1>9, <1>12, <1>14 DEF PhasesKept
  <1>20. RunKeeps' /\ StoreKeeps' BY <1>1, <1>17 DEF RunKeeps, StoreKeeps
  <1>21. DoneIsSettled' BY <1>1, <1>9 DEF DoneIsSettled
  <1> QED BY <1>18, <1>19, <1>20, <1>21 DEF LoopInv

-----------------------------------------------------------------------------
(* The checks after a call.                                                *)
LEMMA ReportKeysAre ==
  ASSUME OneText(keyed), NEW checks, NEW typed \in BOOLEAN,
         Passed(checks) \subseteq {"auto", "gitdiff"}, Failed(checks) \subseteq {"auto", "gitdiff", "runner"}
  PROVE  /\ Answered(checks, typed) \subseteq CheckKeys /\ Failed(checks) \subseteq CheckKeys
         /\ OneText(ReportKeys(checks, typed))
         /\ KeysOf(ReportKeys(checks, typed)) = (KeysOf(keyed) \ Answered(checks, typed)) \cup Failed(checks)
  <1> DEFINE answered == Answered(checks, typed)
             failed == Failed(checks)
             rest == Without(keyed, answered)
  <1>1. answered \subseteq CheckKeys /\ failed \subseteq CheckKeys BY DEF Answered, CheckKeys
  <1>2. ReportKeys(checks, typed) = Insert(rest, failed) BY DEF ReportKeys
  <1> HIDE DEF answered, failed
  <1>3. answered \in SUBSET Keys /\ failed \in SUBSET Keys BY <1>1, KeysInOrder
  <1>4. OneText(rest) /\ KeysOf(rest) = KeysOf(keyed) \ answered BY <1>3, TextsAre, KeysAre
  <1> HIDE DEF rest
  <1>5. OneText(Insert(rest, failed)) /\ KeysOf(Insert(rest, failed)) = KeysOf(rest) \cup failed
    BY <1>3, <1>4, TextsAre, KeysAre
  <1>6. (KeysOf(keyed) \ answered) \cup failed = KeysOf(Insert(rest, failed)) BY <1>4, <1>5
  <1> QED BY <1>1, <1>2, <1>4, <1>5, <1>6 DEF answered, failed

LEMMA AfterCallKeeps ==
  ASSUME LoopInv, phase = "verify", NEW checks, NEW same \in BOOLEAN, NEW typed \in BOOLEAN,
         Passed(checks) \subseteq {"auto", "gitdiff"}, Failed(checks) \subseteq {"auto", "gitdiff", "runner"},
         AfterCall(checks, same, typed)
  PROVE  LoopInv'
  <1> DEFINE seen == Visible(checks)
             diff == "gitdiff" \in Passed(checks)
             ins == taskRun.inspected \/ diff
             good == IF seen # <<>> THEN Failed(seen) = {} ELSE ins
             drop == IF good THEN {"after_edit"} ELSE {}
             known == ReportKeys(checks, typed)
             keys == Without(known, drop)
             answered == Answered(checks, typed)
             failed == Failed(checks)
             task == [taskRun EXCEPT !.inspected = ins, !.errors = keys]
             ended == [task EXCEPT !.status = "blocked"]
  <1>1. /\ taskRun \in TaskRuns /\ shown \in BOOLEAN /\ owed \subseteq ToolKeys \cup CheckKeys /\ lost \subseteq Matters
        /\ OneText(keyed) /\ left > 0 /\ validated \in BOOLEAN /\ outcome = "running" /\ taskRun.status = "in_progress"
        /\ Keeps(owed, shown, lost, KeysOf(keyed), taskRun)
    BY DEF LoopInv, LoopTypeOK, PhasesKept, RunKeeps, OneText
  <1>2. /\ owed' = (owed \ answered) \cup failed
        /\ shown' = (diff \/ shown)
        /\ lost' = (lost \ (answered \cup failed)) \ (IF diff THEN {"diff"} ELSE {})
    BY <1>1 DEF AfterCall, RecordReports, Record
  <1>3. /\ answered \subseteq CheckKeys /\ failed \subseteq CheckKeys /\ OneText(known)
        /\ KeysOf(known) = (KeysOf(keyed) \ answered) \cup failed
    BY <1>1, ReportKeysAre
  <1>4. good \in BOOLEAN /\ ins \in BOOLEAN /\ drop \subseteq GateKeys /\ diff \in BOOLEAN
    <2>1. ins \in BOOLEAN BY <1>1 DEF TaskRuns
    <2>2. good \in BOOLEAN BY <2>1
    <2> HIDE DEF good
    <2> QED BY <2>1, <2>2 DEF GateKeys
  <1>5. \/ FinishBlocked(task)
        \/ /\ taskRun' = task /\ saved' = task /\ keyed' = keys
           /\ validated' = (good \/ (seen = <<>> /\ validated))
           /\ stalls' = (IF good /\ seen # <<>> THEN 0 ELSE stalls)
           /\ failures' = [k \in Keys |-> IF k \in failed /\ same THEN failures[k] + 1 ELSE failures[k]]
           /\ edited' = FALSE /\ left' = left - 1 /\ phase' = "calls"
           /\ UNCHANGED <<runs, interrupted, turns, toolCalls, repeated, outcome, closed>>
    BY DEF AfterCall, RecordReports, result
  <1> HIDE DEF answered, failed, known, drop, good
  <1>6. OneText(keys) /\ KeysOf(keys) = KeysOf(known) \ drop
    <2>1. drop \in SUBSET Keys BY <1>4, KeysInOrder
    <2> QED BY <1>3, <2>1, TextsAre, KeysAre
  <1> HIDE DEF keys, seen
  <1>7. owed' \subseteq ToolKeys \cup CheckKeys /\ shown' \in BOOLEAN /\ lost' \subseteq Matters BY <1>1, <1>2, <1>3, <1>4
  <1>8. task \in TaskRuns /\ task.errors = keys /\ task.inspected = ins /\ task.changed = taskRun.changed
        /\ task.status = "in_progress"
    <2>1. keys \subseteq Errors BY <1>6 DEF OneText
    <2> HIDE DEF ins
    <2> QED BY <1>1, <1>4, <2>1 DEF TaskRuns
  <1> HIDE DEF diff
  <1>9. owed' \ lost' \subseteq KeysOf(keys)
    <2> SUFFICES ASSUME NEW k \in owed', k \notin lost' PROVE k \in KeysOf(keys) OBVIOUS
    <2>1. k \notin GateKeys /\ k # "diff" BY <1>7, KeysInOrder
    <2>2. k \in failed \/ (k \in owed /\ k \notin answered /\ k \notin lost) BY <1>2, <2>1
    <2> QED BY <1>1, <1>3, <1>4, <1>6, <2>1, <2>2 DEF Keeps
  <1>10. ASSUME ~shown', "diff" \notin lost' PROVE "tool_edit" \in KeysOf(keys) \/ (task.changed /\ ~task.inspected)
    <2>1. ~shown /\ ~diff BY <1>2, <1>10
    <2>2. ins = taskRun.inspected
      <3>1. taskRun.inspected \in BOOLEAN BY <1>1 DEF TaskRuns
      <3> QED BY <2>1, <3>1
    <2>3. "diff" \notin answered \cup failed BY <1>3, KeysInOrder
    <2>4. "diff" \notin lost BY <1>2, <1>10, <2>1, <2>3
    <2>5. "tool_edit" \in KeysOf(keyed) \/ (taskRun.changed /\ ~taskRun.inspected) BY <1>1, <2>1, <2>4 DEF Keeps
    <2>6. "tool_edit" \notin answered /\ "tool_edit" \notin drop BY <1>3, <1>4, KeysInOrder
    <2> QED BY <1>3, <1>6, <1>8, <2>2, <2>5, <2>6
  <1>11. Keeps(owed', shown', lost', KeysOf(task.errors), task) BY <1>8, <1>9, <1>10 DEF Keeps
  <1> HIDE DEF task, ins
  <1>12. CASE FinishBlocked(task)
    <2>1. /\ ended \in TaskRuns /\ ended.errors = keys /\ ended.changed = task.changed /\ ended.inspected = task.inspected
          /\ ended.status # "done"
      <3>1. "blocked" \in Statuses BY DEF Statuses
      <3> QED BY <1>8, <3>1 DEF TaskRuns
    <2>2. Finish(ended) BY <1>12 DEF FinishBlocked
    <2> HIDE DEF ended
    <2>3. Keeps(owed', shown', lost', KeysOf(ended.errors), ended) BY <1>8, <1>11, <2>1, KeepsMore
    <2> QED BY <1>7, <2>1, <2>2, <2>3, FinishKeeps
  <1>13. CASE ~FinishBlocked(task)
    <2>1. /\ taskRun' = task /\ saved' = task /\ keyed' = keys
          /\ validated' = (good \/ (seen = <<>> /\ validated))
          /\ stalls' = (IF good /\ seen # <<>> THEN 0 ELSE stalls)
          /\ failures' = [k \in Keys |-> IF k \in failed /\ same THEN failures[k] + 1 ELSE failures[k]]
          /\ edited' = FALSE /\ left' = left - 1 /\ phase' = "calls"
          /\ UNCHANGED <<runs, interrupted, turns, toolCalls, repeated, outcome, closed>>
      BY <1>5, <1>13
    <2>2. LoopTypeOK'
      <3>1. left' \in 0 .. MaxBatch /\ stalls' \in 0 .. MaxRepeatedFailures
        BY <1>1, <2>1, LimitsAssumption DEF LoopInv, LoopTypeOK
      <3>2. failures' \in [Keys -> Nat] BY <2>1 DEF LoopInv, LoopTypeOK
      <3>3. validated' \in BOOLEAN /\ edited' \in BOOLEAN BY <1>1, <1>4, <2>1
      <3>4. owed' \subseteq Keys BY <1>7, KeysInOrder
      <3> QED BY <1>6, <1>7, <1>8, <2>1, <3>1, <3>2, <3>3, <3>4 DEF LoopInv, LoopTypeOK, OneText
    <2>3. PhasesKept' BY <1>1, <1>7, <1>8, <2>1 DEF PhasesKept
    <2>4. Keeps(owed', shown', lost', KeysOf(keyed'), taskRun') BY <1>8, <1>11, <2>1
    <2>5. RunKeeps' /\ StoreKeeps' BY <1>8, <2>1, <2>4 DEF RunKeeps, StoreKeeps
    <2>6. DoneIsSettled' BY <1>8, <2>1 DEF DoneIsSettled
    <2> QED BY <2>2, <2>3, <2>5, <2>6 DEF LoopInv
  <1> QED BY <1>12, <1>13

LEMMA ChecksKeep ==
  ASSUME LoopInv, Verify \/ NoVerification
  PROVE  LoopInv'
  <1>1. CASE Verify
    <2>1. phase = "verify" BY <1>1 DEF Verify
    <2>2. PICK checks \in ReportsOf(EditSteps) : \E same, typed \in BOOLEAN : AfterCall(checks, same, typed)
      BY <1>1 DEF Verify
    <2>3. PICK same \in BOOLEAN, typed \in BOOLEAN : AfterCall(checks, same, typed) BY <2>2
    <2>4. Passed(checks) \subseteq {"auto", "gitdiff"} /\ Failed(checks) \subseteq {"auto", "gitdiff", "runner"}
      BY ReportsAre, StepsAre
    <2> QED BY <2>1, <2>3, <2>4, AfterCallKeeps
  <1>2. CASE NoVerification
    <2>1. phase = "verify" /\ AfterCall(<<>>, FALSE, FALSE) BY <1>2 DEF NoVerification
    <2>2. Passed(<<>>) \subseteq {"auto", "gitdiff"} /\ Failed(<<>>) \subseteq {"auto", "gitdiff", "runner"}
      BY ReportsAre, StepsAre
    <2> QED BY <2>1, <2>2, AfterCallKeeps
  <1> QED BY <1>1, <1>2

-----------------------------------------------------------------------------
(* A response without tool calls, and the gate.                            *)
LEMMA ClaimKeeps ==
  ASSUME LoopInv, NEW unrelated \in SUBSET VerificationKeys, FinalClaim(unrelated)
  PROVE  LoopInv'
  <1> DEFINE planned == [taskRun EXCEPT !.plan = @ \/ taskRun.mode = "plan"]
             named == IF unrelated = {} THEN {} ELSE unrelated \cup {"after_edit"}
  <1>1. /\ phase = "final" /\ phase' = "diff"
        /\ keyed' = (IF unrelated = {} THEN keyed ELSE Without(keyed, named))
        /\ validated' = (validated \/ unrelated # {})
        /\ taskRun' = [planned EXCEPT !.errors = keyed']
        /\ saved' = (IF taskRun.mode = "plan" THEN planned ELSE saved)
        /\ owed' = owed \ unrelated /\ lost' = lost \ unrelated
        /\ UNCHANGED <<runs, interrupted, edited, turns, toolCalls, left, stalls, repeated, failures, outcome, closed, shown>>
    <2>1. shown \in BOOLEAN BY DEF LoopInv, LoopTypeOK
    <2> QED BY <2>1 DEF FinalClaim, Record, counters, result
  <1>2. /\ taskRun \in TaskRuns /\ shown \in BOOLEAN /\ owed \subseteq ToolKeys \cup CheckKeys /\ lost \subseteq Matters
        /\ OneText(keyed) /\ taskRun.status = "in_progress" /\ saved.status = "in_progress" /\ outcome = "running"
        /\ Keeps(owed, shown, lost, KeysOf(keyed), taskRun)
    BY <1>1, Standing
  <1>3. named \in SUBSET Keys /\ named \subseteq unrelated \cup GateKeys BY KeysInOrder DEF GateKeys
  <1>4. OneText(keyed') /\ KeysOf(keyed') = KeysOf(keyed) \ named
    <2>1. CASE unrelated = {} BY <1>1, <1>2, <2>1
    <2>2. CASE unrelated # {} BY <1>1, <1>2, <1>3, <2>2, TextsAre, KeysAre
    <2> QED BY <2>1, <2>2
  <1> HIDE DEF named
  <1>5. /\ planned \in TaskRuns /\ planned.changed = taskRun.changed /\ planned.inspected = taskRun.inspected
        /\ planned.status = "in_progress"
    <2> DEFINE plan == taskRun.plan \/ taskRun.mode = "plan"
    <2>1. plan \in BOOLEAN BY <1>2 DEF TaskRuns
    <2>2. planned = [taskRun EXCEPT !.plan = plan] BY DEF planned
    <2> HIDE DEF plan, planned
    <2> QED BY <1>2, <2>1, <2>2 DEF TaskRuns
  <1> HIDE DEF planned
  <1>6. /\ taskRun' \in TaskRuns /\ taskRun'.changed = taskRun.changed /\ taskRun'.inspected = taskRun.inspected
        /\ taskRun'.errors = keyed' /\ taskRun'.status = "in_progress"
    BY <1>1, <1>4, <1>5 DEF TaskRuns, OneText
  <1>7. saved' \in TaskRuns /\ saved'.status = "in_progress" BY <1>1, <1>2, <1>5 DEF LoopInv, LoopTypeOK
  <1>8. LoopTypeOK' BY <1>1, <1>4, <1>6, <1>7 DEF LoopInv, LoopTypeOK, OneText
  <1>9. PhasesKept' BY <1>1, <1>2, <1>6, <1>7 DEF PhasesKept
  <1>10. Keeps(owed', shown', lost', KeysOf(keyed'), taskRun')
    <2>1. owed' \ lost' \subseteq KeysOf(keyed') BY <1>1, <1>2, <1>3, <1>4, KeysInOrder DEF Keeps
    <2>2. "tool_edit" \notin named /\ "diff" \notin unrelated BY <1>3, KeysInOrder
    <2>3. ~shown' /\ "diff" \notin lost' => "tool_edit" \in KeysOf(keyed') \/ (taskRun'.changed /\ ~taskRun'.inspected)
      BY <1>1, <1>2, <1>4, <1>6, <2>2 DEF Keeps
    <2> QED BY <2>1, <2>3 DEF Keeps
  <1>11. RunKeeps' /\ StoreKeeps' BY <1>1, <1>6, <1>10 DEF RunKeeps, StoreKeeps
  <1>12. DoneIsSettled' BY <1>7 DEF DoneIsSettled
  <1> QED BY <1>8, <1>9, <1>11, <1>12 DEF LoopInv

LEMMA DiffKeeps ==
  ASSUME LoopInv, InspectDiff
  PROVE  LoopInv'
  <1>1. PICK checks \in ReportsOf(<<"gitdiff">>) : \E same \in BOOLEAN :
          /\ phase = "diff" /\ DiffNeeded
          /\ keyed' = ReportKeys(checks, FALSE)
          /\ taskRun' = [taskRun EXCEPT !.errors = keyed', !.inspected = "gitdiff" \in Passed(Visible(checks))]
          /\ RecordReports(checks, same, FALSE)
    BY DEF InspectDiff
  <1>2. PICK same \in BOOLEAN :
          /\ phase = "diff" /\ DiffNeeded
          /\ keyed' = ReportKeys(checks, FALSE)
          /\ taskRun' = [taskRun EXCEPT !.errors = keyed', !.inspected = "gitdiff" \in Passed(Visible(checks))]
          /\ RecordReports(checks, same, FALSE)
    BY <1>1
  <1> DEFINE answered == Answered(checks, FALSE)
             failed == Failed(checks)
             diff == "gitdiff" \in Passed(checks)
             ins == "gitdiff" \in Passed(Visible(checks))
  <1>3. /\ phase' \in {"head", "gate"} /\ saved' = taskRun'
        /\ UNCHANGED <<runs, interrupted, validated, edited, turns, toolCalls, left, stalls, repeated, outcome, closed>>
    BY DEF InspectDiff, result
  <1>4. /\ taskRun \in TaskRuns /\ shown \in BOOLEAN /\ owed \subseteq ToolKeys \cup CheckKeys /\ lost \subseteq Matters
        /\ OneText(keyed) /\ taskRun.status = "in_progress" /\ outcome = "running"
        /\ Keeps(owed, shown, lost, KeysOf(keyed), taskRun)
    BY <1>1, Standing
  <1>5. /\ owed' = (owed \ answered) \cup failed
        /\ shown' = (diff \/ shown)
        /\ lost' = (lost \ (answered \cup failed)) \ (IF diff THEN {"diff"} ELSE {})
        /\ failures' = [k \in Keys |-> IF k \in failed /\ same THEN failures[k] + 1 ELSE failures[k]]
    BY <1>2, <1>4 DEF RecordReports, Record
  <1>6. Passed(checks) \subseteq {"auto", "gitdiff"} /\ Failed(checks) \subseteq {"auto", "gitdiff", "runner"}
    BY ReportsAre, StepsAre
  <1>7. /\ answered \subseteq CheckKeys /\ failed \subseteq CheckKeys /\ OneText(keyed')
        /\ KeysOf(keyed') = (KeysOf(keyed) \ answered) \cup failed
    BY <1>2, <1>4, <1>6, ReportKeysAre
  <1>8. ins \in BOOLEAN /\ (ins => diff)
    <2>1. CASE ResultsFull BY <2>1 DEF Visible, Passed, StepsOf
    <2>2. CASE ~ResultsFull BY <2>2 DEF Visible
    <2> QED BY <2>1, <2>2
  <1>9. taskRun' = [taskRun EXCEPT !.errors = keyed', !.inspected = ins] BY <1>2
  <1>10. diff \in BOOLEAN OBVIOUS
  <1> HIDE DEF ins, answered, failed, diff
  <1>11. /\ taskRun' \in TaskRuns /\ taskRun'.changed = taskRun.changed /\ taskRun'.inspected = ins
         /\ taskRun'.errors = keyed' /\ taskRun'.status = "in_progress"
    BY <1>4, <1>7, <1>8, <1>9 DEF TaskRuns, OneText
  <1>12. owed' \subseteq ToolKeys \cup CheckKeys /\ shown' \in BOOLEAN /\ lost' \subseteq Matters
    BY <1>4, <1>5, <1>7, <1>10
  <1>13. LoopTypeOK'
    <2>1. failures' \in [Keys -> Nat] BY <1>5 DEF LoopInv, LoopTypeOK
    <2>2. owed' \subseteq Keys BY <1>12, KeysInOrder
    <2> QED BY <1>3, <1>7, <1>11, <1>12, <2>1, <2>2 DEF LoopInv, LoopTypeOK, OneText
  <1>14. PhasesKept' BY <1>3, <1>4, <1>11, <1>12 DEF PhasesKept
  <1>15. Keeps(owed', shown', lost', KeysOf(keyed'), taskRun')
    <2>1. owed' \ lost' \subseteq KeysOf(keyed')
      <3> SUFFICES ASSUME NEW k \in owed', k \notin lost' PROVE k \in KeysOf(keyed') OBVIOUS
      <3>1. k # "diff" BY <1>12, KeysInOrder
      <3>2. k \in failed \/ (k \in owed /\ k \notin answered /\ k \notin lost) BY <1>5, <3>1
      <3> QED BY <1>4, <1>7, <3>2 DEF Keeps
    <2>2. ~shown' => ~ins BY <1>5, <1>8
    <2>3. taskRun.changed BY <1>2 DEF DiffNeeded
    <2> QED BY <1>11, <2>1, <2>2, <2>3 DEF Keeps
  <1>16. RunKeeps' /\ StoreKeeps' BY <1>3, <1>11, <1>15 DEF RunKeeps, StoreKeeps
  <1>17. DoneIsSettled' BY <1>3, <1>11 DEF DoneIsSettled
  <1> QED BY <1>13, <1>14, <1>16, <1>17 DEF LoopInv

LEMMA GateErrorsAre ==
  ASSUME OneText(keyed)
  PROVE  /\ OneText(GateErrors) /\ KeysOf(keyed) \subseteq KeysOf(GateErrors)
         /\ GateErrors = {} => KeysOf(keyed) = {} /\ GateMissing = {}
  <1> DEFINE missing == GateMissing \ KeysOf(keyed)
  <1>1. GateErrors = keyed \cup Tagged(missing) BY DEF GateErrors
  <1>2. missing \subseteq GateKeys BY DEF GateMissing, GateKeys
  <1>3. \A e \in keyed : e.key \notin missing BY DEF KeysOf
  <1>4. GateMissing = {} \/ KeysOf(keyed) # {} \/ missing # {} OBVIOUS
  <1> HIDE DEF missing
  <1>5. missing \in SUBSET Keys BY <1>2, KeysInOrder
  <1>6. Without(keyed, missing) = keyed BY <1>3 DEF Without
  <1>7. GateErrors = Insert(keyed, missing) BY <1>1, <1>6 DEF Insert
  <1>8. OneText(GateErrors) /\ KeysOf(GateErrors) = KeysOf(keyed) \cup missing
    BY <1>5, <1>7, TextsAre, KeysAre
  <1>9. GateErrors = {} => KeysOf(GateErrors) = {} BY DEF KeysOf
  <1> QED BY <1>4, <1>8, <1>9

LEMMA GateKeeps ==
  ASSUME LoopInv, GateRejects \/ GateAccepts
  PROVE  LoopInv'
  <1>1. phase = "gate" /\ UNCHANGED <<owed, shown, lost>> BY DEF GateRejects, GateAccepts, history
  <1>2. /\ taskRun \in TaskRuns /\ shown \in BOOLEAN /\ owed \subseteq ToolKeys \cup CheckKeys /\ lost \subseteq Matters
        /\ OneText(keyed) /\ taskRun.status = "in_progress" /\ outcome = "running"
        /\ Keeps(owed, shown, lost, KeysOf(keyed), taskRun) /\ Keeps(owed, shown, lost, KeysOf(taskRun.errors), taskRun)
    BY <1>1, Standing
  <1> DEFINE errors == GateErrors
             task == [taskRun EXCEPT !.errors = errors]
             ended == [task EXCEPT !.status = "blocked"]
             done == [taskRun EXCEPT !.status = "done"]
  <1>3. /\ OneText(errors) /\ KeysOf(keyed) \subseteq KeysOf(errors)
        /\ errors = {} => KeysOf(keyed) = {} /\ GateMissing = {}
    BY <1>2, GateErrorsAre
  <1>4. CASE GateAccepts
    <2>1. errors = {} /\ Finish(done) BY <1>4 DEF GateAccepts
    <2>2. done \in TaskRuns /\ done.errors = taskRun.errors /\ done.changed = taskRun.changed
          /\ done.inspected = taskRun.inspected /\ done.mode = taskRun.mode
      BY <1>2 DEF TaskRuns, Statuses
    <2>3. owed \subseteq lost /\ (taskRun.mode = "code" => shown \/ "diff" \in lost)
      <3>1. KeysOf(keyed) = {} BY <1>3, <2>1
      <3>2. ~(taskRun.mode = "code" /\ taskRun.changed /\ ~taskRun.inspected) BY <1>3, <2>1 DEF GateMissing, GateKeys
      <3> QED BY <1>2, <3>1, <3>2 DEF Keeps
    <2> HIDE DEF done, errors
    <2>4. Keeps(owed', shown', lost', KeysOf(done.errors), done) BY <1>1, <1>2, <2>2, KeepsMore
    <2> QED BY <1>1, <1>2, <2>1, <2>2, <2>3, <2>4, FinishKeeps
  <1> HIDE DEF errors
  <1>5. task \in TaskRuns /\ task.errors = errors /\ task.changed = taskRun.changed /\ task.inspected = taskRun.inspected
        /\ task.status = "in_progress"
    BY <1>2, <1>3 DEF TaskRuns, OneText
  <1>6. Keeps(owed', shown', lost', KeysOf(errors), task) BY <1>1, <1>2, <1>3, <1>5, KeepsMore
  <1>7. CASE GateRejects
    <2>1. \/ FinishBlocked(task)
          \/ /\ stalls + 1 < MaxRepeatedFailures /\ stalls' = stalls + 1 /\ keyed' = errors /\ taskRun' = task /\ saved' = taskRun'
             /\ phase' = "head"
             /\ UNCHANGED <<runs, interrupted, validated, edited, turns, toolCalls, left, repeated, failures, outcome, closed>>
      BY <1>7, LimitsAssumption DEF GateRejects, result, LoopInv, LoopTypeOK, errors
    <2> HIDE DEF task
    <2>2. CASE FinishBlocked(task)
      <3>1. ended \in TaskRuns /\ ended.errors = errors /\ ended.changed = task.changed /\ ended.inspected = task.inspected
            /\ ended.status # "done"
        BY <1>5 DEF TaskRuns, Statuses
      <3>2. Finish(ended) BY <2>2 DEF FinishBlocked
      <3> HIDE DEF ended
      <3>3. Keeps(owed', shown', lost', KeysOf(ended.errors), ended) BY <1>6, <3>1, KeepsMore
      <3> QED BY <1>1, <1>2, <3>1, <3>2, <3>3, FinishKeeps
    <2>3. CASE ~FinishBlocked(task)
      <3>1. /\ stalls + 1 < MaxRepeatedFailures /\ stalls' = stalls + 1 /\ keyed' = errors /\ taskRun' = task /\ saved' = taskRun'
            /\ phase' = "head"
            /\ UNCHANGED <<runs, interrupted, validated, edited, turns, toolCalls, left, repeated, failures, outcome, closed>>
        BY <2>1, <2>3
      <3>2. stalls' \in 0 .. MaxRepeatedFailures BY <3>1, LimitsAssumption DEF LoopInv, LoopTypeOK
      <3>3. LoopTypeOK' BY <1>1, <1>3, <1>5, <3>1, <3>2 DEF LoopInv, LoopTypeOK, OneText
      <3>4. PhasesKept' BY <1>1, <1>2, <1>5, <3>1 DEF PhasesKept
      <3>5. RunKeeps' /\ StoreKeeps'
        <4>1. Keeps(owed', shown', lost', KeysOf(keyed'), taskRun') BY <1>6, <3>1
        <4>2. KeysOf(keyed') \subseteq KeysOf(taskRun'.errors) BY <1>5, <3>1
        <4> QED BY <3>1, <4>1, <4>2 DEF RunKeeps, StoreKeeps
      <3>6. DoneIsSettled' BY <1>5, <3>1 DEF DoneIsSettled
      <3> QED BY <3>3, <3>4, <3>5, <3>6 DEF LoopInv
    <2> QED BY <2>2, <2>3
  <1> QED BY <1>4, <1>7

-----------------------------------------------------------------------------
LEMMA LoopStarts == LoopInit => LoopInv
  <1> SUFFICES ASSUME LoopInit PROVE LoopInv OBVIOUS
  <1> USE DEF LoopInit
  <1>1. NewTask \in TaskRuns /\ NewTask.status # "done" BY DEF NewTask, TaskRuns, Statuses
  <1>2. LoopTypeOK
    <2>1. runs \in 0 .. MaxRuns /\ turns \in 0 .. MaxTurns + 1 /\ toolCalls \in 0 .. MaxToolCalls /\ left \in 0 .. MaxBatch
          /\ stalls \in 0 .. MaxRepeatedFailures /\ repeated \in [Calls -> 0 .. MaxRepeatedCalls]
          /\ failures \in [Keys -> Nat]
      BY LimitsAssumption
    <2> QED BY <1>1, <2>1 DEF LoopTypeOK
  <1>3. PhasesKept /\ DoneIsSettled BY <1>1 DEF PhasesKept, DoneIsSettled
  <1>4. RunKeeps /\ StoreKeeps BY DEF RunKeeps, StoreKeeps, Keeps
  <1> QED BY <1>2, <1>3, <1>4 DEF LoopInv

LEMMA LoopSteps ==
  ASSUME LoopInv, [LoopNext]_loopVars
  PROVE  LoopInv'
  <1>1. CASE UNCHANGED loopVars
    <2>1. UNCHANGED <<phase, runs, interrupted, taskRun, saved, keyed, validated, edited, turns, toolCalls, left, stalls, repeated,
                      failures, outcome, closed, owed, shown, lost>>
      BY <1>1 DEF loopVars, counters, result, history
    <2>2. LoopTypeOK' BY <2>1 DEF LoopInv, LoopTypeOK
    <2>3. PhasesKept' BY <2>1 DEF LoopInv, PhasesKept
    <2>4. RunKeeps' /\ StoreKeeps' BY <2>1 DEF LoopInv, RunKeeps, StoreKeeps
    <2>5. DoneIsSettled' BY <2>1 DEF LoopInv, DoneIsSettled, Outstanding
    <2> QED BY <2>2, <2>3, <2>4, <2>5 DEF LoopInv
  <1>2. CASE \E m \in Modes : EnterRun(m) BY <1>2, RunBegins
  <1>3. CASE Cancel BY <1>3, CancelKeeps
  <1>4. CASE \/ CheckLimitsFails \/ ContextFails \/ ModelFails \/ CallStopped \/ FinalUserInput \/ FinalBlocked
    BY <1>4, ExitsKeep
  <1>5. CASE CompactionFails \/ CheckpointFails \/ VerificationRefused \/ ProcessEnds BY <1>5, AbruptEndsKeep
  <1>6. CASE \E n \in 0 .. MaxBatch : ModelResponds(n) BY <1>6, ModelAnswers
  <1>7. CASE LoopHead \/ UseResponse \/ EndOfCalls \/ DiffSkipped BY <1>7, LoopMoves
  <1>8. CASE \E c \in Calls : Call(c)
    <2>1. PICK c \in Calls : Call(c) BY <1>8
    <2>2. CASE CallDenied(c) BY <2>2, CallIsDenied
    <2>3. CASE CallRepeated(c) \/ CallRefused(c) \/ \E same, hookFailed \in BOOLEAN : CallBlocks(c, same, hookFailed)
      BY <2>3, CallEnds
    <2>4. CASE \E ok, same, hookFailed, complete \in BOOLEAN, diagnostics \in {"none", "pass", "fail"} :
                 CallReturns(c, ok, same, hookFailed, diagnostics, complete)
      BY <2>4, CallIsHandled
    <2> QED BY <2>1, <2>2, <2>3, <2>4 DEF Call
  <1>9. CASE Verify \/ NoVerification BY <1>9, ChecksKeep
  <1>10. CASE \E unrelated \in SUBSET VerificationKeys : FinalClaim(unrelated) BY <1>10, ClaimKeeps
  <1>11. CASE InspectDiff BY <1>11, DiffKeeps
  <1>12. CASE GateRejects \/ GateAccepts BY <1>12, GateKeeps
  <1> QED BY <1>1, <1>2, <1>3, <1>4, <1>5, <1>6, <1>7, <1>8, <1>9, <1>10, <1>11, <1>12 DEF LoopNext, Step

(* Over any number of runs of a session, however each of them ends, a task *)
(* is marked done only with every failure of its tools and checks settled  *)
(* and, for a code task, the diff of its last edit shown; and each run     *)
(* leaves what is outstanding in the task it stores.  What a text without  *)
(* its key or an abrupt end loses is the exception, counted in lost.       *)
THEOREM GateKept == LoopSpec => []GateHolds
  <1>1. LoopInit => LoopInv BY LoopStarts
  <1>2. LoopInv /\ [LoopNext]_loopVars => LoopInv' BY LoopSteps
  <1>3. LoopInv => GateHolds
    <2> SUFFICES ASSUME LoopInv PROVE GateHolds OBVIOUS
    <2>1. owed \subseteq Keys BY DEF LoopInv, LoopTypeOK
    <2>2. HandedOn BY <2>1 DEF LoopInv, StoreKeeps, Keeps, HandedOn, Outstanding, CarriedBy, DiffIsCarried
    <2> QED BY <2>2 DEF LoopInv, GateHolds
  <1> QED BY <1>1, <1>2, <1>3, PTL DEF LoopSpec

-----------------------------------------------------------------------------
(* What a child's run, the channel and the parent may hold.                *)
RunResults == Outcomes \cup Failures
ChildStatuses == Outcomes \cup Failures \cup {"cancelled", "timed_out"}
Messages == [child : Children, outcome : RunResults]
Stages == {"spawning", "collecting", "reporting", "ok", "failed"}

BatchTypeOK ==
  /\ batch \in Stages \cup {"called", "refused"}
  /\ tasks \in Nat /\ spawned \in 0 .. MaxChildren /\ spawned <= tasks
  /\ childRun \in [Children -> {"none", "running", "ended", "panicked"}]
  /\ outcomes \in [Children -> ChildStatuses \cup {"none"}]
  /\ parentStop \in BOOLEAN /\ spent \in BOOLEAN
  /\ results \in Seq(Messages)
  /\ reports \in Seq([child : Children, status : ChildStatuses])
  /\ stopped \subseteq Children

(* The children made so far are 1 .. spawned.                              *)
SpawnedOnly ==
  /\ announced = 1 .. spawned
  /\ \A c \in Children : childRun[c] # "none" => c \in 1 .. spawned
  /\ batch \in {"called", "refused"} => spawned = 0
  /\ batch = "spawning" => tasks \in 1 .. MaxChildren
  /\ batch \in {"collecting", "reporting", "ok"} => spawned = tasks \/ parentStop

(* A message of the channel comes from a run that has ended; so does what  *)
(* the parent filed, unless it gave the children up and told them.         *)
FiledIsTrue ==
  /\ \A i \in 1 .. Len(results) : childRun[results[i].child] = "ended"
  /\ \A c \in 1 .. spawned : outcomes[c] = "completed" => childRun[c] = "ended"
  /\ \A c \in 1 .. spawned : outcomes[c] # "none" => childRun[c] # "running" \/ c \in stopped
  /\ \A c \in Children : outcomes[c] # "none" => c \in 1 .. spawned
  /\ batch \in {"reporting", "ok"} => \A c \in 1 .. spawned : outcomes[c] # "none"

(* The reports made so far, in the order of the tasks.                     *)
ReportedInOrder ==
  /\ Len(reports) <= spawned
  /\ batch \notin {"reporting", "ok"} => Len(reports) = 0
  /\ batch = "ok" => Len(reports) = spawned
  /\ \A i \in 1 .. Len(reports) : /\ reports[i].child = i
                                  /\ reports[i].status = "completed" => outcomes[i] = "completed"

BatchInv == BatchTypeOK /\ SpawnedOnly /\ FiledIsTrue /\ ReportedInOrder

(* The call starts in a state of the invariant.                            *)
LEMMA BatchInitInv == BatchInit => BatchInv
<1> SUFFICES ASSUME BatchInit PROVE BatchInv
  OBVIOUS
<1>1. BatchTypeOK
  <2>1. tasks \in Nat /\ spawned \in 0 .. MaxChildren /\ spawned <= tasks
    BY TasksAssumption DEF BatchInit
  <2>2. results \in Seq(Messages) /\ reports \in Seq([child : Children, status : ChildStatuses])
    BY DEF BatchInit
  <2>3. /\ childRun \in [Children -> {"none", "running", "ended", "panicked"}]
        /\ outcomes \in [Children -> ChildStatuses \cup {"none"}]
    BY DEF BatchInit
  <2> QED BY <2>1, <2>2, <2>3 DEF BatchInit, BatchTypeOK
<1>2. SpawnedOnly
  BY DEF BatchInit, SpawnedOnly, Children
<1>3. FiledIsTrue /\ ReportedInOrder
  BY DEF BatchInit, FiledIsTrue, ReportedInOrder, Children
<1> QED BY <1>1, <1>2, <1>3 DEF BatchInv

(* An answer for every child is an answer for each.                        *)
LEMMA AllAnswered ==
  ASSUME BatchTypeOK, Cardinality(Known) = spawned
  PROVE  Known = 1 .. spawned
<1>1. IsFiniteSet(1 .. spawned) /\ Cardinality(1 .. spawned) = spawned
  BY FS_Interval DEF BatchTypeOK
<1>2. Known \in SUBSET (1 .. spawned)
  BY DEF Known
<1> QED BY <1>1, <1>2, FS_Subset

(* Every step of the parent and of a child preserves it.                   *)
LEMMA BatchStepInv == ASSUME BatchInv, [BatchNext]_batchVars PROVE BatchInv'
<1>0. BatchTypeOK /\ SpawnedOnly /\ FiledIsTrue /\ ReportedInOrder
  BY DEF BatchInv
<1>m. \A i \in 1 .. Len(results) : results[i].child \in Children /\ results[i].outcome \in RunResults
  <2>1. \A i \in 1 .. Len(results) : results[i] \in Messages
    BY <1>0, ElementOfSeq DEF BatchTypeOK
  <2> QED BY <2>1 DEF Messages
<1> USE TasksAssumption DEF Children, RunResults, ChildStatuses, Outcomes, Failures, Stages
<1>1. CASE Accept
  <2>1. BatchTypeOK'
    BY <1>0, <1>1 DEF Accept, BatchTypeOK
  <2>2. SpawnedOnly'
    BY <1>0, <1>1 DEF Accept, SpawnedOnly, BatchTypeOK
  <2>3. FiledIsTrue'
    BY <1>0, <1>1 DEF Accept, FiledIsTrue
  <2>4. ReportedInOrder'
    BY <1>0, <1>1 DEF Accept, ReportedInOrder
  <2> QED BY <2>1, <2>2, <2>3, <2>4 DEF BatchInv
<1>2. CASE Spawn
  <2>1. /\ batch = "spawning" /\ spawned < tasks
        /\ UNCHANGED <<tasks, results, outcomes, stopped, parentStop, spent, reports>>
    BY <1>2 DEF Spawn
  <2>2. CASE batch' = "failed" /\ UNCHANGED <<spawned, childRun, announced>>
    BY <1>0, <2>1, <2>2 DEF BatchInv, BatchTypeOK, SpawnedOnly, FiledIsTrue, ReportedInOrder
  <2>3. CASE /\ spawned' = spawned + 1 /\ batch' = batch
             /\ childRun' = [childRun EXCEPT ![spawned + 1] = "running"]
             /\ announced' = announced \cup {spawned + 1}
    <3>0. spawned + 1 \in Children /\ spawned \in Nat /\ tasks \in Nat /\ MaxChildren \in Nat
          /\ outcomes[spawned + 1] = "none"
      BY <1>0, <2>1 DEF BatchTypeOK, SpawnedOnly, FiledIsTrue
    <3>1. BatchTypeOK'
      BY <1>0, <2>1, <2>3, <3>0 DEF BatchTypeOK
    <3>2. SpawnedOnly'
      <4>1. announced' = 1 .. spawned'
        BY <1>0, <2>3, <3>0 DEF SpawnedOnly
      <4>2. \A c \in Children : childRun'[c] # "none" => c \in 1 .. spawned'
        BY <1>0, <2>3, <3>0 DEF SpawnedOnly, BatchTypeOK
      <4> QED BY <1>0, <2>1, <2>3, <4>1, <4>2 DEF SpawnedOnly
    <3>3. FiledIsTrue'
      <4>1. \A i \in 1 .. Len(results) : results[i].child \in Children /\ childRun[results[i].child] = "ended"
        BY <1>0, <1>m DEF FiledIsTrue
      <4>2. childRun[spawned + 1] = "none"
        BY <1>0, <3>0 DEF SpawnedOnly, BatchTypeOK
      <4> QED BY <1>0, <2>1, <2>3, <3>0, <4>1, <4>2 DEF FiledIsTrue, BatchTypeOK
    <3>4. ReportedInOrder'
      BY <1>0, <2>1, <2>3, <3>0 DEF ReportedInOrder
    <3> QED BY <3>1, <3>2, <3>3, <3>4 DEF BatchInv
  <2> QED BY <1>2, <2>2, <2>3 DEF Spawn
<1>3. CASE SpawningEnds
  <2>1. BatchTypeOK'
    BY <1>0, <1>3 DEF SpawningEnds, BatchTypeOK
  <2>2. SpawnedOnly'
    BY <1>0, <1>3 DEF SpawningEnds, SpawnedOnly
  <2>3. FiledIsTrue'
    BY <1>0, <1>3 DEF SpawningEnds, FiledIsTrue
  <2>4. ReportedInOrder'
    BY <1>0, <1>3 DEF SpawningEnds, ReportedInOrder
  <2> QED BY <2>1, <2>2, <2>3, <2>4 DEF BatchInv
<1>4. CASE CollectOutcome
  <2> DEFINE d == Head(results).child
             o == Head(results).outcome
  <2>0. /\ results # <<>> /\ results \in Seq(Messages)
        /\ outcomes' = [outcomes EXCEPT ![d] = o] /\ results' = Tail(results)
        /\ UNCHANGED <<batch, tasks, spawned, childRun, stopped, parentStop, spent, reports, announced>>
        /\ batch = "collecting"
    BY <1>0, <1>4 DEF CollectOutcome, BatchTypeOK
  <2>5. /\ Len(results) \in Nat \ {0} /\ Head(results) = results[1]
        /\ results' \in Seq(Messages) /\ Len(results') = Len(results) - 1
        /\ \A i \in 1 .. Len(results') : results'[i] = results[i + 1]
    BY <2>0, HeadTailProperties, EmptySeq
  <2>6. d \in Children /\ o \in RunResults /\ childRun[d] = "ended" /\ d \in 1 .. spawned
    BY <1>0, <1>m, <2>5 DEF FiledIsTrue, SpawnedOnly
  <2> HIDE DEF d, o
  <2>1. BatchTypeOK'
    BY <1>0, <2>0, <2>5, <2>6 DEF BatchTypeOK
  <2>2. SpawnedOnly'
    BY <1>0, <2>0 DEF SpawnedOnly
  <2>3. FiledIsTrue'
    BY <1>0, <2>0, <2>5, <2>6 DEF FiledIsTrue, BatchTypeOK
  <2>4. ReportedInOrder'
    BY <1>0, <2>0 DEF ReportedInOrder
  <2> QED BY <2>1, <2>2, <2>3, <2>4 DEF BatchInv
<1>5. CASE GiveUp
  <2>0. GiveUpReason \in {"cancelled", "timed_out", "failed"}
    BY <1>5 DEF GiveUp, GiveUpReason
  <2>1. BatchTypeOK'
    BY <1>0, <1>5, <2>0 DEF GiveUp, BatchTypeOK
  <2>2. SpawnedOnly'
    BY <1>0, <1>5 DEF GiveUp, SpawnedOnly
  <2>3. FiledIsTrue'
    BY <1>0, <1>5, <2>0 DEF GiveUp, FiledIsTrue, Known, BatchTypeOK
  <2>4. ReportedInOrder'
    BY <1>0, <1>5 DEF GiveUp, ReportedInOrder, BatchTypeOK
  <2> QED BY <2>1, <2>2, <2>3, <2>4 DEF BatchInv
<1>6. CASE AllKnown
  <2>1. BatchTypeOK'
    BY <1>0, <1>6 DEF AllKnown, BatchTypeOK
  <2>2. SpawnedOnly'
    BY <1>0, <1>6 DEF AllKnown, SpawnedOnly
  <2>3. FiledIsTrue'
    <3>1. Known = 1 .. spawned
      BY <1>0, <1>6, AllAnswered DEF AllKnown
    <3> QED BY <1>0, <1>6, <3>1 DEF AllKnown, FiledIsTrue, Known
  <2>4. ReportedInOrder'
    BY <1>0, <1>6 DEF AllKnown, ReportedInOrder, BatchTypeOK
  <2> QED BY <2>1, <2>2, <2>3, <2>4 DEF BatchInv
<1>7. CASE ReportChild
  <2> DEFINE n == Len(reports) + 1
  <2>0. /\ n \in 1 .. spawned /\ Len(reports) \in Nat /\ StatusOf(n) \in ChildStatuses
        /\ StatusOf(n) = "completed" => outcomes[n] = "completed"
    BY <1>0, <1>7 DEF ReportChild, StatusOf, BatchTypeOK, FiledIsTrue
  <2>1. BatchTypeOK'
    BY <1>0, <1>7, <2>0 DEF ReportChild, BatchTypeOK
  <2>2. SpawnedOnly'
    BY <1>0, <1>7 DEF ReportChild, SpawnedOnly
  <2>3. FiledIsTrue'
    BY <1>0, <1>7 DEF ReportChild, FiledIsTrue
  <2>4. ReportedInOrder'
    <3>1. /\ Len(reports') = n
          /\ \A i \in 1 .. Len(reports) : reports'[i] = reports[i]
          /\ reports'[n] = [child |-> n, status |-> StatusOf(n)]
      BY <1>0, <1>7 DEF ReportChild, BatchTypeOK
    <3> QED BY <1>0, <1>7, <2>0, <3>1 DEF ReportChild, ReportedInOrder
  <2> QED BY <2>1, <2>2, <2>3, <2>4 DEF BatchInv
<1>8. CASE ReturnReports
  BY <1>0, <1>8 DEF ReturnReports, BatchInv, BatchTypeOK, SpawnedOnly, FiledIsTrue, ReportedInOrder
<1>9. ASSUME NEW c \in Children, ChildEnds(c) \/ ChildSeesToken(c) PROVE BatchInv'
  <2>0. PICK o \in RunResults : results' = Append(results, [child |-> c, outcome |-> o])
    BY <1>9 DEF ChildEnds, ChildSeesToken
  <2>1. /\ childRun[c] = "running" /\ childRun' = [childRun EXCEPT ![c] = "ended"]
        /\ UNCHANGED <<batch, tasks, spawned, outcomes, stopped, parentStop, spent, reports, announced>>
    BY <1>9 DEF ChildEnds, ChildSeesToken
  <2>6. /\ results' \in Seq(Messages) /\ Len(results') = Len(results) + 1 /\ Len(results) \in Nat
        /\ \A i \in 1 .. Len(results) : results'[i] = results[i]
        /\ results'[Len(results) + 1].child = c
    <3> DEFINE m == [child |-> c, outcome |-> o]
    <3>1. m \in Messages /\ m.child = c
      BY DEF Messages
    <3>2. results \in Seq(Messages) /\ results' = Append(results, m)
      BY <1>0, <2>0 DEF BatchTypeOK
    <3> HIDE DEF m
    <3> QED BY <3>1, <3>2, AppendProperties, LenProperties
  <2>2. BatchTypeOK'
    BY <1>0, <2>1, <2>6 DEF BatchTypeOK
  <2>3. SpawnedOnly'
    BY <1>0, <2>1 DEF SpawnedOnly, BatchTypeOK
  <2>4. FiledIsTrue'
    <3>1. \A i \in 1 .. Len(results') : childRun'[results'[i].child] = "ended"
      <4>1. \A i \in 1 .. Len(results) : childRun'[results[i].child] = "ended"
        BY <1>0, <1>m, <2>1 DEF FiledIsTrue, BatchTypeOK
      <4>2. childRun'[c] = "ended"
        BY <1>0, <2>1 DEF BatchTypeOK
      <4>3. \A i \in 1 .. Len(results') : i \in 1 .. Len(results) \/ i = Len(results) + 1
        BY <2>6
      <4> QED BY <2>6, <4>1, <4>2, <4>3
    <3> QED BY <1>0, <2>1, <3>1 DEF FiledIsTrue, BatchTypeOK
  <2>5. ReportedInOrder'
    BY <1>0, <2>1 DEF ReportedInOrder
  <2> QED BY <2>2, <2>3, <2>4, <2>5 DEF BatchInv
<1>10. ASSUME NEW c \in Children, ChildPanics(c) PROVE BatchInv'
  <2>1. BatchTypeOK'
    BY <1>0, <1>10 DEF ChildPanics, BatchTypeOK
  <2>2. SpawnedOnly'
    BY <1>0, <1>10 DEF ChildPanics, SpawnedOnly, BatchTypeOK
  <2>3. FiledIsTrue'
    BY <1>0, <1>10 DEF ChildPanics, FiledIsTrue, BatchTypeOK
  <2>4. ReportedInOrder'
    BY <1>0, <1>10 DEF ChildPanics, ReportedInOrder
  <2> QED BY <2>1, <2>2, <2>3, <2>4 DEF BatchInv
<1>11. CASE CancelParent
  BY <1>0, <1>11 DEF CancelParent, BatchInv, BatchTypeOK, SpawnedOnly, FiledIsTrue, ReportedInOrder
<1>12. CASE BudgetRunsOut
  BY <1>0, <1>12 DEF BudgetRunsOut, BatchInv, BatchTypeOK, SpawnedOnly, FiledIsTrue, ReportedInOrder
<1>13. CASE UNCHANGED batchVars
  BY <1>0, <1>13 DEF batchVars, BatchInv, BatchTypeOK, SpawnedOnly, FiledIsTrue, ReportedInOrder
<1> QED
  BY <1>1, <1>2, <1>3, <1>4, <1>5, <1>6, <1>7, <1>8, <1>9, <1>10, <1>11, <1>12, <1>13 DEF BatchNext, ParentStep

(* For any number of tasks and children: a batch that returns reports has  *)
(* one for each child it announced, in the order of the tasks; a child     *)
(* reported as completed did complete, and one still at work was told to   *)
(* stop, however answers, panics, the budget and cancellation interleave.  *)
THEOREM BatchIsSettled == BatchSpec => []BatchSettled
<1>1. BatchInv => BatchSettled
  <2> SUFFICES ASSUME BatchInv, batch = "ok" PROVE BatchSettled
    BY DEF BatchSettled, ReportsAreTrue, NoChildLeft
  <2>0. BatchTypeOK /\ SpawnedOnly /\ FiledIsTrue /\ ReportedInOrder
    BY DEF BatchInv
  <2>1. DOMAIN reports = 1 .. Len(reports) /\ Len(reports) = spawned /\ announced = 1 .. spawned
    BY <2>0 DEF BatchTypeOK, SpawnedOnly, ReportedInOrder
  <2>2. {reports[i].child : i \in DOMAIN reports} = announced
    BY <2>0, <2>1 DEF ReportedInOrder
  <2>3. ReportsAreTrue
    BY <2>0, <2>1, <2>2 DEF ReportsAreTrue, ReportedInOrder, FiledIsTrue, SpawnedOnly
  <2>4. NoChildLeft
    BY <2>0, <2>1 DEF NoChildLeft, FiledIsTrue, Told
  <2> QED BY <2>3, <2>4 DEF BatchSettled
<1> QED BY <1>1, BatchInitInv, BatchStepInv, PTL DEF BatchSpec
=============================================================================
