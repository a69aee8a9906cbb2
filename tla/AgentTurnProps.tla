---------------------------- MODULE AgentTurnProps ----------------------------
(***************************************************************************)
(* What an agent's turn and its evidence promise to a test case.           *)
(***************************************************************************)
EXTENDS AgentTurn

Attempted == {did[c].tool : c \in Calls} \ {"none"}
Succeeded == {did[c].tool : c \in {x \in Calls : did[x].end = "ok"}}

(* What a policy asks, of what really happened.                            *)
Deserved(p) ==
  /\ p.any => Attempted = {}
  /\ p.expect \subseteq Succeeded
  /\ p.forbid \cap Attempted = {}

(* An adapter is blind after a line longer than its scanner takes, and     *)
(* hermes is blind for tools that are not OpenViking's.                    *)
Blind ==
  \/ harness \in {"codex", "claude", "opencode", "pi"} /\ \E e \in Range(log) : e.long
  \/ harness = "hermes" /\ policy.forbid \cap Attempted \cap OtherTools # {}

(* The evidence operators of the six adapters decide from a transcript of  *)
(* parallel calls, failed results and several runs exactly what the agent  *)
(* did: every expected tool succeeded, no forbidden one was attempted.     *)
(* Where an adapter is blind, at least no expected tool is taken for       *)
(* granted.                                                                *)
EvidenceExact ==
  /\ verdict = "ok" => policy.expect \subseteq Succeeded
  /\ verdict \in {"ok", "refused"} /\ ~Blind => (verdict = "ok" <=> Deserved(policy))

(* The operator's shell can send an agent elsewhere: in a manual run with  *)
(* any variable of its harness, in a release with the ENDPOINT variable of *)
(* three adapters, which they read before the URL variable that a release  *)
(* sets.                                                                   *)
Asks(names) == \E n \in names : <<harness, n>> \in Overrides
EndpointFirst == {"codex", "claude", "opencode"}

(* A turn that an operator reports as good had an agent that ended by      *)
(* itself within its time, in a configuration with all its parts in force  *)
(* (the hooks of codex still trusted, the isolated MCP file not            *)
(* overwritten), with a reply unless the node allows none, with the        *)
(* compaction done where one was asked for, and on the server and as the   *)
(* user that the ov commands of the same case use, unless the shell sends  *)
(* it elsewhere: nothing in the shell but an ENDPOINT variable does so in  *)
(* a release.                                                              *)
OkIsEarned ==
  outcome = "ok" =>
    /\ exit = 0 /\ expired # "deadline"
    /\ harness = "codex" => IF plan.isolated THEN "mcp" \in config /\ "trust" \notin config
                            ELSE {"home", "install", "trust"} \subseteq config
    /\ ~plan.silent /\ (harness = "openclaw" => ~plan.compact) =>
         \E e \in Range(log) : e.kind = "reply"
    /\ plan.compact => \E e \in Range(log) : e.kind = "compacted"
    /\ target.server = "asked" => Asks({"endpoint", "url", "key"})
    /\ target.server = "foreign" => harness \in EndpointFirst /\ Asks({"endpoint"})
    /\ target.server \in {"own", "asked", "foreign"}

(* A turn of a release reported as good loaded the plugin of the sources   *)
(* that were prepared for it: a release freezes the exact commit and       *)
(* records the hash of that plugin in its manifest as what it has tested.  *)
PluginUnderTest == outcome = "ok" => target.plugin # "foreign"

(* No way out of the operators leaves an agent, an app-server or a gateway *)
(* running.                                                                *)
NothingLeftRunning == outcome # "none" => helper # "running" /\ proc # "running"

(* A turn ends, whatever the agent and its helpers do.                     *)
TurnEnds == <>(outcome # "none")
=============================================================================
