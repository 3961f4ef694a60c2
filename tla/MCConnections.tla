--------------------------- MODULE MCConnections ---------------------------
(* The connections of the program: connectors and the runtimes they find or *)
(* start, a generate call of a model provider, or the requests of a run of  *)
(* several turns.  They share no state; unit says which one is at work.     *)
EXTENDS MCConnector, Streams, Conversation
VARIABLE unit
allVars == <<unit, vars, streamVars, convVars>>

MCAnswers == { <<>>, <<"text">>, <<"tool">>, <<"reason", "text">>, <<"text", "tool", "tool">>,
               <<"reason", "tool">>, <<"tool", "cut">>, <<"tool", "text">> }

NoStream == /\ case = [proto |-> "chat", answer |-> <<>>, limit |-> FALSE, optIn |-> FALSE, mode |-> "stream"]
            /\ phase = "done" /\ attempt = 0 /\ wire = <<>> /\ acc = ChatInit /\ out = <<FailedEvent("unsupported")>>
            /\ result = [status |-> "unsupported", response |-> NoResponse]
            /\ cancelled = FALSE /\ late = FALSE /\ cut = FALSE /\ line = "whole" /\ lost = 0
NoConversation == ConvInit /\ adapter = "chat" /\ optIn = FALSE
NoConnector == metadata = Missing /\ owner = (c1 :> p1) @@ (c2 :> p2) /\ Init

MCInit == \/ unit = "connector" /\ Init /\ NoStream /\ NoConversation
          \/ unit = "stream" /\ NoConnector /\ StreamInit /\ NoConversation
          \/ unit = "conversation" /\ NoConnector /\ NoStream /\ ConvInit
MCNext == \/ unit = "connector" /\ Next /\ UNCHANGED <<unit, streamVars, convVars>>
          \/ unit = "stream" /\ StreamNext /\ UNCHANGED <<unit, vars, convVars>>
          \/ unit = "conversation" /\ ConvNext /\ UNCHANGED <<unit, vars, streamVars>>
MCSpec == MCInit /\ [][MCNext]_allVars /\ Fairness /\ StreamFairness
=============================================================================
