------------------------------ MODULE MCServers ------------------------------
(* The connections the runtime keeps open for its clients: terminals and    *)
(* MCP servers.  They share no state, so unit says which of them a          *)
(* behaviour is about.                                                      *)
EXTENDS Terminals, Mcp
VARIABLE unit
allVars == <<unit, termVars, mcpVars>>

MCInit == unit \in {"terminal", "mcp"} /\ TermInit /\ McpInit
MCNext == /\ \/ unit = "terminal" /\ TermNext /\ UNCHANGED mcpVars
             \/ unit = "mcp" /\ McpNext /\ UNCHANGED termVars
          /\ UNCHANGED unit
MCSpec == MCInit /\ [][MCNext]_allVars /\ TermFairness /\ McpFairness
=============================================================================
