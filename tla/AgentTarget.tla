----------------------------- MODULE AgentTarget -----------------------------
(***************************************************************************)
(* Which OpenViking server and user an agent under test is sent to, and    *)
(* which OpenViking plugin it loads.  Every adapter has its own list of     *)
(* places to look: its environment variables first, the configuration of   *)
(* the ov command or a source checkout last.  A release sets some of these *)
(* variables for all its cases, others for one case, and removes the       *)
(* credentials it knows nothing of.                                        *)
(*                                                                         *)
(* Values: "unset" is the empty string of the code, "own" is what this run *)
(* prepared and what its ov commands use.  What the operator's shell holds *)
(* is "asked" in a manual run, where it is the operator's way to send a    *)
(* harness elsewhere, and "foreign" in a release, which prepares its own   *)
(* server, user and plugin.                                                *)
(***************************************************************************)
EXTENDS Integers, FiniteSets, Sequences, SequencesExt

CONSTANTS
  Harnesses,    \* the harnesses of this instance
  Overrides     \* OV_TEST_<harness>_... the shell may hold: <<harness, name>>

Names == {"endpoint", "url", "key", "plugin"}
EnvVars == Harnesses \X Names

(* A shell that holds the variables of s.                                  *)
Held(mode) == IF mode = "release" THEN "foreign" ELSE "asked"
ShellEnv(mode, s) == [v \in EnvVars |-> IF v \in s THEN Held(mode) ELSE "unset"]

(* releaseEnvironment: one address for each harness, and the extension of  *)
(* pi; the other plugins are to be found in the worktree it names.         *)
ReleaseVar(h) == IF h = "hermes" THEN <<h, "endpoint">> ELSE <<h, "url">>
ReleaseEnvironment(env) ==
  [v \in EnvVars |-> IF v \in {ReleaseVar(v[1]), <<"pi", "plugin">>} THEN "own" ELSE env[v]]

(* ScrubProviderEnv keeps the keys that are scoped to a harness, and every *)
(* address; harnessEnvironment then sets the key of the case's harness.    *)
HarnessEnvironment(h, env) == [env EXCEPT ![<<h, "key">>] = "own"]

(* The environment of a case of a release or of a manual run.              *)
CaseEnv(h, mode, s) ==
  IF mode = "release" THEN HarnessEnvironment(h, ReleaseEnvironment(ShellEnv(mode, s)))
  ELSE ShellEnv(mode, s)

FirstOf(s) ==
  LET set == {i \in DOMAIN s : s[i] # "unset"}
  IN  IF set = {} THEN "unset" ELSE s[CHOOSE i \in set : \A j \in set : i <= j]

(* conf is ovcli.conf, as far as it can be read; the cases hand an empty   *)
(* user key to their agents, so that it counts for nothing.                *)
CodexTarget(env, conf) ==
  [url |-> FirstOf(<<env[<<"codex", "endpoint">>], env[<<"codex", "url">>], conf.url>>),
   key |-> FirstOf(<<env[<<"codex", "key">>], conf.key>>)]
ClaudeTarget(env, conf) ==
  [url |-> FirstOf(<<env[<<"claude", "endpoint">>], env[<<"claude", "url">>], conf.url>>),
   key |-> FirstOf(<<env[<<"claude", "key">>], conf.key>>)]
OpenCodeTarget(env, conf) ==
  [url |-> FirstOf(<<env[<<"opencode", "endpoint">>], env[<<"opencode", "url">>], conf.url>>),
   key |-> FirstOf(<<env[<<"opencode", "key">>], conf.key>>)]
HermesTarget(env, conf) ==
  [url |-> FirstOf(<<env[<<"hermes", "endpoint">>], conf.url>>),
   key |-> FirstOf(<<env[<<"hermes", "key">>], conf.key>>)]
OpenClawTarget(env, conf) ==
  [url |-> FirstOf(<<env[<<"openclaw", "url">>], conf.url>>),
   key |-> FirstOf(<<env[<<"openclaw", "key">>], conf.key>>)]
(* pi takes no key from ovcli.conf.                                        *)
PiTarget(env, conf) ==
  [url |-> FirstOf(<<env[<<"pi", "url">>], conf.url>>), key |-> env[<<"pi", "key">>]]

TargetOf(h, env, conf) ==
  CASE h = "codex" -> CodexTarget(env, conf)
    [] h = "claude" -> ClaudeTarget(env, conf)
    [] h = "opencode" -> OpenCodeTarget(env, conf)
    [] h = "hermes" -> HermesTarget(env, conf)
    [] h = "pi" -> PiTarget(env, conf)
    [] OTHER -> OpenClawTarget(env, conf)

(* The plugin: repo is OV_TEST_OPENVIKING_REPO, near a checkout close to   *)
(* the working directory.                                                  *)
CodexPlugin(env, repo, near) == FirstOf(<<env[<<"codex", "plugin">>], repo, near>>)
ClaudePlugin(env, repo, near) == FirstOf(<<env[<<"claude", "plugin">>], repo, near>>)
OpenCodePlugin(env, repo, near) == FirstOf(<<env[<<"opencode", "plugin">>], repo, near>>)
OpenClawPlugin(env, repo) == FirstOf(<<env[<<"openclaw", "plugin">>], repo>>)
PiPlugin(env, repo) == FirstOf(<<env[<<"pi", "plugin">>], repo>>)

(* hermes has its memory provider built in.                                *)
PluginOf(h, env, repo, near) ==
  CASE h = "codex" -> CodexPlugin(env, repo, near)
    [] h = "claude" -> ClaudePlugin(env, repo, near)
    [] h = "opencode" -> OpenCodePlugin(env, repo, near)
    [] h = "openclaw" -> OpenClawPlugin(env, repo)
    [] h = "pi" -> PiPlugin(env, repo)
    [] OTHER -> "own"

(* ovcli.conf: present with what this run uses, or absent.                 *)
Confs == {[url |-> "own", key |-> "own"], [url |-> "unset", key |-> "unset"]}

Repos(mode) == IF mode = "release" THEN {"own"} ELSE {"own", "unset"}

(* Server and user together: whose they are.                               *)
Whose(t) ==
  LET both == {t.url, t.key}
  IN  IF "unset" \in both THEN "unset"
      ELSE IF "foreign" \in both THEN "foreign"
      ELSE IF "asked" \in both THEN "asked" ELSE "own"

(* What an adapter can come to; with a server, a user or a plugin missing  *)
(* it ends in a configuration error before the agent is run.               *)
TargetsOf(h) ==
  UNION {LET env == CaseEnv(h, mode, s)
         IN  {[server |-> Whose(TargetOf(h, env, conf)), plugin |-> PluginOf(h, env, repo, near)] :
                conf \in Confs, repo \in Repos(mode),
                near \in {"own", "unset"}} :
         mode \in {"release", "manual"}, s \in SUBSET (Overrides \cap ({h} \X Names))}
=============================================================================
