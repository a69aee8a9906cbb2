----------------------------- MODULE MCAgentTurn -----------------------------
(* Two calls at a time and the policies the cases use: a tool that has to  *)
(* be called, one that must not be, both, and no tool at all.              *)
EXTENDS AgentTurnProps

Policy(expect, forbid, any) == [expect |-> expect, forbid |-> forbid, any |-> any]

MCPolicies ==
  {Policy({"search"}, {}, FALSE), Policy({}, {"forget", "clarify"}, FALSE),
   Policy({"search"}, {"forget"}, FALSE), Policy({}, {"forget"}, FALSE),
   Policy({}, {}, TRUE)}

(* What the documentation lists as optional: url (for hermes an endpoint)  *)
(* and key of four harnesses, and the plugin of opencode; and one variable *)
(* that it does not list, the endpoint of codex.                           *)
MCOverrides ==
  ({"codex", "opencode", "openclaw"} \X {"url", "key"})
    \cup {<<"hermes", "endpoint">>, <<"hermes", "key">>, <<"codex", "endpoint">>}
MCPluginOverrides == {<<"opencode", "plugin">>}
=============================================================================
