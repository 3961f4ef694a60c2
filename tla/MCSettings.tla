----------------------------- MODULE MCSettings -----------------------------
(* Settings for TLC: two providers, requests that name a provider, a model  *)
(* with or without its namespace, an effort, or a scope to save it in.      *)
EXTENDS Settings, TLC

Ask(provider, name, spaced, effort, scope, event, session) ==
  [provider |-> provider, name |-> name, spaced |-> spaced, effort |-> effort,
   scope |-> scope, event |-> event, session |-> session]
MCRequests == {
  Ask("zen", Unselected, FALSE, Unselected, "none", FALSE, FALSE),
  Ask(Unselected, "n", FALSE, Unselected, "project", FALSE, FALSE),
  Ask(Unselected, "m", FALSE, "high", "user", FALSE, FALSE),
  Ask("zen", "m", TRUE, "low", "project", TRUE, TRUE),
  Ask(Unselected, Unselected, FALSE, "off", "session", TRUE, TRUE) }
MCLevels == (<<"ai", "m">> :> {"high"}) @@ (<<"zen", "m">> :> {"low"})
MCDefault == Config("ai", DefaultName("ai"), FALSE, Unselected)
=============================================================================
