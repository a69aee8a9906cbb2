---------------------------- MODULE AgentTurnProofs ----------------------------
(***************************************************************************)
(* Safety of an agent's turn and of its evidence, for any number of calls, *)
(* tools and policies, any length of a transcript and any of the six       *)
(* harnesses.                                                              *)
(***************************************************************************)
EXTENDS AgentTurnProps, WellFoundedInduction, TLAPS

(* The places of the operator of each harness.                             *)
Stops ==
  CASE harness = "codex" ->
         {"message", "dirs", "env", "home", "run", "save", "reply", "end"}
           \cup IF plan.isolated THEN {"mcp"} ELSE {"install", "trust"}
    [] harness = "claude" ->
         {"message", "dirs", "env", "home", "run", "save", "reply", "end"}
           \cup IF plan.isolated THEN {"mcp"} ELSE {}
    [] harness = "opencode" -> {"message", "dirs", "env", "home", "run", "save", "reply", "end"}
    [] harness = "pi" -> {"message", "dirs", "env", "run", "save", "reply", "end"}
    [] harness = "hermes" -> {"message", "dirs", "home", "env", "run", "reply", "end"}
    [] OTHER ->
         {"message", "env", "run", "reply", "end"}
           \cup IF plan.compact THEN {"gateway", "stop"} ELSE {"export"}

Places ==
  /\ harness \in Harnesses /\ plan \in PlansOf(harness)
  /\ stage \in Stops
  /\ outcome \in {"none", "ok", "gate", "config", "error"}
  /\ stage = "end" <=> outcome # "none"
  /\ proc \in {"none", "running", "exited", "killed"}

(* The agent runs only at its own stage; a helper only where it is waited  *)
(* for, or, as openclaw's gateway, until the stage that stops it.          *)
Running ==
  /\ proc # "none" => stage = "run"
  /\ helper = "running" =>
       stage = "trust" \/ ("stop" \in Stops /\ stage \in {"gateway", "run", "stop"})
  /\ stage = "trust" /\ rpc = "none" => helper # "running"

(* The parts of codex's configuration that are in force at each stage.     *)
Configured ==
  harness = "codex" /\ outcome \in {"none", "ok"} =>
    /\ rpc # "none" => ~plan.isolated /\ stage \in {"trust", "run", "save", "reply", "end"}
    /\ rpc = "leave" => "trust" \in config
    /\ ~plan.isolated =>
         /\ stage \in {"install", "trust", "run", "save", "reply", "end"} => "home" \in config
         /\ stage \in {"trust", "run", "save", "reply", "end"} => "install" \in config
         /\ stage \in {"run", "save", "reply", "end"} => "trust" \in config
    /\ plan.isolated /\ stage \in {"run", "save", "reply", "end"} =>
         "mcp" \in config /\ "trust" \notin config

(* The server and the user of the case, once they are resolved.            *)
Served(h, whose) ==
  /\ whose \in {"own", "asked", "foreign"}
  /\ whose = "asked" => \E n \in {"endpoint", "url", "key"} : <<h, n>> \in Overrides
  /\ whose = "foreign" => h \in EndpointFirst /\ <<h, "endpoint">> \in Overrides

Resolved ==
  \/ stage \in {"message", "dirs", "env"} \/ (harness = "hermes" /\ stage = "home")
  \/ outcome \in {"config", "gate", "error"}
  \/ Served(harness, target.server)

(* A good end of the agent's process: in time, with no call left open.     *)
Ended ==
  /\ proc \in {"none", "exited"} /\ exit = 0 => Open = {}
  /\ stage \in {"save", "stop", "reply", "export"} \/ outcome = "ok" =>
       (exit = 0 => expired # "deadline")
  /\ stage = "export" \/ outcome = "ok" => Result = "ok"

(* The transcript tells the calls as they went.                            *)
Record ==
  [tool : Tools \cup {"none"}, end : {"none", "ok", "error"}]

Kinds ==
  {"call", "result", "reply", "limit", "session", "compacted", "stop", "settled", "refused",
   "extension_error", "compaction_end", "aborted"}

LogEvents ==
  [kind : Kinds, id : Calls \cup {"none"}, tool : Tools \cup {"none"},
   end : {"none", "ok", "error"}, long : BOOLEAN]

TrueEntry(i) ==
  /\ log[i].kind = "call" =>
       /\ log[i].id \in Calls /\ log[i].tool # "none"
       /\ log[i].tool = did[log[i].id].tool
  /\ log[i].kind = "result" =>
       /\ log[i].id \in Calls /\ log[i].end # "none"
       /\ log[i].tool = did[log[i].id].tool /\ log[i].end = did[log[i].id].end

Told ==
  /\ did \in [Calls -> Record]
  /\ \A c \in Calls : did[c].end # "none" => did[c].tool # "none"
  /\ log \in Seq(LogEvents)
  /\ \A i \in 1..Len(log) : TrueEntry(i)

(* An entry of the transcript about the call c.                            *)
CallTold(c, i) ==
  i \in 1..Len(log) /\ log[i] = Event("call", c, did[c].tool, "none", FALSE)
ResultTold(c, i) ==
  i \in 1..Len(log) /\ log[i].kind = "result" /\ log[i].id = c

(* Every call is told when it starts, except to opencode, and every result *)
(* after its call.                                                         *)
AllTold(c) ==
  /\ did[c].tool # "none" /\ harness # "opencode" => \E j \in Nat : CallTold(c, j)
  /\ did[c].end # "none" =>
       \E i \in Nat :
         /\ ResultTold(c, i)
         /\ harness # "opencode" => \E j \in 1..i : CallTold(c, j)

Complete == \A c \in Calls : AllTold(c)

(* A verdict was given on a turn that ended well, for such a policy as the *)
(* cases use.                                                              *)
Asked ==
  /\ policy \in Policies
  /\ policy.any => harness \in {"claude", "pi"}
  /\ harness = "pi" => policy.forbid = {}
  /\ policy.forbid \subseteq OvTools \/ harness = "hermes"

Judged ==
  /\ verdict \in {"none", "ok", "refused", "config"}
  /\ verdict \in {"ok", "refused"} =>
       outcome = "ok" /\ Asked /\ (verdict = "ok" <=> Accepts(policy))

TurnInv == Places /\ Running /\ Configured /\ Ended /\ Told /\ Complete /\ Judged
-----------------------------------------------------------------------------
(* Where each adapter goes next.                                           *)
LEMMA Moves ==
  ASSUME stage \in Stops, stage # "end"
  PROVE  /\ Following \in Stops \ {"message"}
         /\ Following \in {"end", "export"} => stage \in {"reply", "export"}
         /\ stage \in {"run", "save", "stop"} => Following \in {"save", "stop", "reply"}
         /\ Following \in {"save", "stop", "reply"} => stage \in {"run", "save", "stop"}
         /\ stage = "gateway" => Following = "run" /\ "stop" \in Stops
         /\ stage = "run" /\ "stop" \in Stops => Following = "stop"
         /\ stage = "stop" => Following = "reply"
<1>1. CASE harness = "codex"
  BY <1>1 DEF Stops, Following, CodexAfter
<1>2. CASE harness = "claude"
  BY <1>2 DEF Stops, Following, ClaudeAfter
<1>3. CASE harness = "opencode"
  BY <1>3 DEF Stops, Following, OpenCodeAfter
<1>4. CASE harness = "pi"
  BY <1>4 DEF Stops, Following, PiAfter
<1>5. CASE harness = "hermes"
  BY <1>5 DEF Stops, Following, HermesAfter
<1>6. CASE harness \notin {"codex", "claude", "opencode", "pi", "hermes"}
  BY <1>6 DEF Stops, Following, OpenClawAfter
<1> QED BY <1>1, <1>2, <1>3, <1>4, <1>5, <1>6
LEMMA LastStop == "end" \in Stops
BY DEF Stops

LEMMA Results == Result \in {"ok", "gate", "error"}
BY DEF Result, CodexResult, ClaudeResult, OpenCodeResult, PiResult, HermesResult, OpenClawResult

(* Nothing changes the adapter or the way its nodes are configured.        *)
LEMMA Fixed ==
  ASSUME [TurnNext]_turnVars
  PROVE  harness' = harness /\ plan' = plan /\ Stops' = Stops
<1>1. CASE Operator
  BY <1>1 DEF Operator, PrepareStep, ResolveStep, TrustStarts, TrustAnswers, TrustEnds,
     GatewayStarts, GatewayAnswers, GatewayStops, Launch, PiAsks, RunReturns, Reply, Check, Stops
<1>2. CASE HelperEnds \/ TrustTimesOut \/ Expire \/ TurnDone \/ UNCHANGED turnVars
  BY <1>2 DEF HelperEnds, TrustTimesOut, Expire, TurnDone, turnVars, Stops
<1>3. CASE Agent
  BY <1>3 DEF Agent, AgentMoves, CallStarts, CallEnds, Says, Exits, Stops
<1> QED BY <1>1, <1>2, <1>3 DEF TurnNext

(* What the agent does changes nothing but its process, its calls, its     *)
(* transcript and its input.                                               *)
LEMMA AgentOnly ==
  ASSUME Agent
  PROVE  /\ proc = "running" /\ proc' \in {"running", "exited"}
         /\ UNCHANGED <<harness, plan, stage, settings, aside, expired, runs, from, outcome,
                        evidence>>
BY DEF Agent, AgentMoves, CallStarts, CallEnds, Says, Exits

LEMMA PlacesStep ==
  ASSUME Places, Running, [TurnNext]_turnVars
  PROVE  Places' /\ Running'
<1>1. harness' = harness /\ plan' = plan /\ Stops' = Stops
  BY Fixed
<1> USE <1>1, Moves, LastStop DEF Places, Running, Proceed, Goto, FailWith
<1>2. CASE PrepareStep BY <1>2 DEF PrepareStep, aside, process, Passive
<1>3. CASE ResolveStep BY <1>3 DEF ResolveStep, aside, process
<1>4. CASE TrustStarts BY <1>4 DEF TrustStarts, aside, process
<1>5. CASE TrustAnswers BY <1>5 DEF TrustAnswers, TrustFails, process
<1>6. CASE TrustEnds BY <1>6 DEF TrustEnds, aside, process
<1>7. CASE GatewayStarts BY <1>7 DEF GatewayStarts, process
<1>8. CASE GatewayAnswers BY <1>8 DEF GatewayAnswers, process
<1>9. CASE GatewayStops BY <1>9 DEF GatewayStops, process
<1>10. CASE Launch BY <1>10 DEF Launch, aside
<1>11. CASE PiAsks BY <1>11 DEF PiAsks, process
<1>12. CASE RunReturns BY <1>12 DEF RunReturns, aside
<1>13. CASE Reply BY <1>13, Results DEF Reply, aside, process
<1>14. CASE Check BY <1>14 DEF Check, aside, process
<1>15. CASE HelperEnds BY <1>15 DEF HelperEnds, process
<1>16. CASE TrustTimesOut BY <1>16 DEF TrustTimesOut, process
<1>17. CASE Agent BY <1>17, AgentOnly DEF aside
<1>18. CASE Expire BY <1>18 DEF Expire, ExpireKills, aside
<1>19. CASE TurnDone \/ UNCHANGED turnVars
  BY <1>19 DEF TurnDone, turnVars, aside, process
<1> QED
  BY <1>2, <1>3, <1>4, <1>5, <1>6, <1>7, <1>8, <1>9, <1>10, <1>11, <1>12, <1>13, <1>14, <1>15,
     <1>16, <1>17, <1>18, <1>19 DEF TurnNext, Operator
-----------------------------------------------------------------------------
LEMMA CodexMoves ==
  ASSUME harness = "codex", stage \in Stops
  PROVE  /\ stage \in {"message", "dirs", "env"} => Following \in {"dirs", "env", "home"}
         /\ stage = "home" => Following = IF plan.isolated THEN "mcp" ELSE "install"
         /\ stage = "install" => Following = "trust" /\ ~plan.isolated
         /\ stage = "trust" => Following = "run" /\ ~plan.isolated
         /\ stage = "mcp" => Following = "run" /\ plan.isolated
         /\ stage = "run" => Following = "save"
         /\ stage = "save" => Following = "reply"
         /\ stage = "reply" => Following = "end"
         /\ stage \notin {"gateway", "stop", "export"}
BY DEF Stops, Following, CodexAfter

LEMMA ConfiguredStep ==
  ASSUME Places, Configured, [TurnNext]_turnVars
  PROVE  Configured'
<1> SUFFICES ASSUME harness = "codex" PROVE Configured'
  BY Fixed DEF Configured
<1>1. harness' = harness /\ plan' = plan
  BY Fixed
<1> USE <1>1, CodexMoves DEF Places, Configured, Proceed, Goto, FailWith
<1>2. CASE PrepareStep BY <1>2 DEF PrepareStep, ConfigAfter, aside, Passive
<1>3. CASE ResolveStep BY <1>3 DEF ResolveStep, ConfigAfter, aside, settings
<1>4. CASE TrustStarts BY <1>4 DEF TrustStarts, settings, aside
<1>5. CASE TrustAnswers BY <1>5 DEF TrustAnswers, TrustFails
<1>6. CASE TrustEnds BY <1>6 DEF TrustEnds, settings, aside
<1>7. CASE GatewayStarts \/ GatewayAnswers \/ GatewayStops
  BY <1>7 DEF GatewayStarts, GatewayAnswers, GatewayStops
<1>8. CASE Launch BY <1>8 DEF Launch, settings, aside
<1>9. CASE PiAsks BY <1>9 DEF PiAsks
<1>10. CASE RunReturns BY <1>10 DEF RunReturns, settings, aside
<1>11. CASE Reply BY <1>11, Results DEF Reply, settings, aside
<1>12. CASE Check BY <1>12 DEF Check, settings, aside
<1>13. CASE HelperEnds BY <1>13 DEF HelperEnds, settings
<1>14. CASE TrustTimesOut BY <1>14 DEF TrustTimesOut, settings
<1>15. CASE Agent BY <1>15, AgentOnly DEF settings, aside
<1>16. CASE Expire BY <1>16 DEF Expire, settings, aside
<1>17. CASE TurnDone \/ UNCHANGED turnVars BY <1>17 DEF TurnDone, turnVars, settings, aside
<1> QED
  BY <1>2, <1>3, <1>4, <1>5, <1>6, <1>7, <1>8, <1>9, <1>10, <1>11, <1>12, <1>13, <1>14, <1>15,
     <1>16, <1>17 DEF TurnNext, Operator
-----------------------------------------------------------------------------
(* The first value that is set.                                            *)
LEMMA FirstOfFirst ==
  ASSUME NEW s, DOMAIN s \subseteq Int, NEW k \in DOMAIN s, s[k] # "unset",
         \A i \in DOMAIN s : i < k => s[i] = "unset"
  PROVE  FirstOf(s) = s[k]
<1> DEFINE set == {i \in DOMAIN s : s[i] # "unset"}
           least == CHOOSE i \in set : \A j \in set : i <= j
<1>1. k \in set /\ \A j \in set : j \in Int /\ k <= j OBVIOUS
<1>2. FirstOf(s) = IF set = {} THEN "unset" ELSE s[least]
  BY DEF FirstOf
<1> HIDE DEF set
<1>3. least \in set /\ \A j \in set : least <= j BY <1>1
<1> HIDE DEF least
<1>4. least = k BY <1>1, <1>3
<1> QED BY <1>1, <1>2, <1>4

LEMMA FirstOfNone ==
  ASSUME NEW s, \A i \in DOMAIN s : s[i] = "unset" PROVE FirstOf(s) = "unset"
BY DEF FirstOf

LEMMA FirstOfTwo ==
  ASSUME NEW a, NEW b PROVE FirstOf(<<a, b>>) = IF a # "unset" THEN a ELSE b
<1>1. PICK s : s = <<a, b>> OBVIOUS
<1>2. DOMAIN s = {1, 2} /\ s[1] = a /\ s[2] = b BY <1>1
<1>3. FirstOf(s) = IF a # "unset" THEN a ELSE b
  <2>1. a # "unset" => FirstOf(s) = s[1] BY <1>2, FirstOfFirst
  <2>2. a = "unset" /\ b # "unset" => FirstOf(s) = s[2] BY <1>2, FirstOfFirst
  <2>3. a = "unset" /\ b = "unset" => FirstOf(s) = "unset" BY <1>2, FirstOfNone
  <2> QED BY <1>2, <2>1, <2>2, <2>3
<1> QED BY <1>1, <1>3

LEMMA FirstOfThree ==
  ASSUME NEW a, NEW b, NEW c
  PROVE  FirstOf(<<a, b, c>>) = IF a # "unset" THEN a ELSE IF b # "unset" THEN b ELSE c
<1>1. PICK s : s = <<a, b, c>> OBVIOUS
<1>2. DOMAIN s = {1, 2, 3} /\ s[1] = a /\ s[2] = b /\ s[3] = c BY <1>1
<1>3. FirstOf(s) = IF a # "unset" THEN a ELSE IF b # "unset" THEN b ELSE c
  <2>1. a # "unset" => FirstOf(s) = s[1] BY <1>2, FirstOfFirst
  <2>2. a = "unset" /\ b # "unset" => FirstOf(s) = s[2] BY <1>2, FirstOfFirst
  <2>3. a = "unset" /\ b = "unset" /\ c # "unset" => FirstOf(s) = s[3] BY <1>2, FirstOfFirst
  <2>4. a = "unset" /\ b = "unset" /\ c = "unset" => FirstOf(s) = "unset" BY <1>2, FirstOfNone
  <2> QED BY <1>2, <2>1, <2>2, <2>3, <2>4
<1> QED BY <1>1, <1>3

(* What an adapter looks at, in the environment of a case.                 *)
LEMMA EnvOfRelease ==
  ASSUME NEW h \in Harnesses, NEW s, NEW env, env = CaseEnv(h, "release", s)
  PROVE  /\ env[<<h, "key">>] = "own"
         /\ h # "hermes" => env[<<h, "url">>] = "own"
         /\ h = "hermes" => env[<<h, "endpoint">>] = "own"
         /\ h # "hermes" => env[<<h, "endpoint">>] =
                              IF <<h, "endpoint">> \in s THEN "foreign" ELSE "unset"
BY DEF CaseEnv, HarnessEnvironment, ReleaseEnvironment, ReleaseVar, ShellEnv, Held, EnvVars, Names

LEMMA EnvOfManual ==
  ASSUME NEW h \in Harnesses, NEW s, NEW env, env = CaseEnv(h, "manual", s), NEW n \in Names
  PROVE  env[<<h, n>>] = IF <<h, n>> \in s THEN "asked" ELSE "unset"
BY DEF CaseEnv, ShellEnv, Held, EnvVars

LEMMA TargetIsServed ==
  ASSUME NEW h \in Harnesses, NEW mode \in {"release", "manual"},
         NEW s \in SUBSET (Overrides \cap ({h} \X Names)), NEW conf \in Confs,
         NEW t, t = TargetOf(h, CaseEnv(h, mode, s), conf), Whose(t) # "unset"
  PROVE  Served(h, Whose(t))
<1> DEFINE env == CaseEnv(h, mode, s)
<1>1. h \in {"codex", "claude", "opencode", "openclaw", "hermes", "pi"}
  BY TurnAssumption
<1>2. conf.url \in {"own", "unset"} /\ conf.key \in {"own", "unset"}
  BY DEF Confs
<1>3. \A n \in Names : <<h, n>> \in s => <<h, n>> \in Overrides
  OBVIOUS
<1>4. CASE mode = "release"
  <2>1. /\ env[<<h, "key">>] = "own"
        /\ h # "hermes" => env[<<h, "url">>] = "own"
        /\ h = "hermes" => env[<<h, "endpoint">>] = "own"
        /\ h # "hermes" => env[<<h, "endpoint">>] =
                             IF <<h, "endpoint">> \in s THEN "foreign" ELSE "unset"
    BY <1>4, EnvOfRelease
  <2> HIDE DEF env
  <2>2. t = TargetOf(h, env, conf) BY DEF env
  <2>3. /\ t.key = "own"
        /\ t.url \in {"own", "foreign"}
        /\ t.url = "foreign" => h \in EndpointFirst /\ <<h, "endpoint">> \in s
    <3>1. CASE h \in {"codex", "claude", "opencode"}
      BY <3>1, <1>2, <2>1, <2>2, FirstOfTwo, FirstOfThree
      DEF TargetOf, CodexTarget, ClaudeTarget, OpenCodeTarget, EndpointFirst
    <3>2. CASE h \in {"openclaw", "hermes", "pi"}
      BY <3>2, <1>2, <2>1, <2>2, FirstOfTwo
      DEF TargetOf, OpenClawTarget, HermesTarget, PiTarget
    <3> QED BY <1>1, <3>1, <3>2
  <2> QED BY <1>3, <2>3 DEF Whose, Served, Names
<1>5. CASE mode = "manual"
  <2>1. \A n \in Names : env[<<h, n>>] = IF <<h, n>> \in s THEN "asked" ELSE "unset"
    BY <1>5, EnvOfManual
  <2>2. \A n \in {"endpoint", "url", "key"} :
          env[<<h, n>>] \in {"unset", "asked"} /\ (env[<<h, n>>] = "asked" => <<h, n>> \in s)
    BY <2>1 DEF Names
  <2> HIDE DEF env
  <2>3. t = TargetOf(h, env, conf) BY DEF env
  <2>4. /\ t.key \in {"own", "asked", "unset"} /\ t.url \in {"own", "asked", "unset"}
        /\ "asked" \in {t.url, t.key} => \E n \in {"endpoint", "url", "key"} : <<h, n>> \in s
    <3>1. CASE h \in {"codex", "claude", "opencode"}
      BY <3>1, <1>2, <2>2, <2>3, FirstOfTwo, FirstOfThree
      DEF TargetOf, CodexTarget, ClaudeTarget, OpenCodeTarget
    <3>2. CASE h \in {"openclaw", "hermes", "pi"}
      BY <3>2, <1>2, <2>2, <2>3, FirstOfTwo
      DEF TargetOf, OpenClawTarget, HermesTarget, PiTarget
    <3> QED BY <1>1, <3>1, <3>2
  <2> QED BY <1>3, <2>4 DEF Whose, Served, Names
<1> QED BY <1>4, <1>5

LEMMA TargetsAreServed ==
  ASSUME NEW h \in Harnesses, NEW t \in TargetsOf(h), t.server # "unset"
  PROVE  Served(h, t.server)
<1>1. PICK mode \in {"release", "manual"}, s \in SUBSET (Overrides \cap ({h} \X Names)) :
        t \in LET env == CaseEnv(h, mode, s)
              IN  {[server |-> Whose(TargetOf(h, env, conf)),
                    plugin |-> PluginOf(h, env, repo, near)] :
                     conf \in Confs, repo \in Repos(mode), near \in {"own", "unset"}}
  BY DEF TargetsOf
<1>2. PICK conf \in Confs, repo \in Repos(mode), near \in {"own", "unset"} :
        t = [server |-> Whose(TargetOf(h, CaseEnv(h, mode, s), conf)),
             plugin |-> PluginOf(h, CaseEnv(h, mode, s), repo, near)]
  BY <1>1
<1> QED BY <1>2, TargetIsServed

LEMMA EarlyMoves ==
  ASSUME stage \in Stops, stage # "end"
  PROVE  /\ stage \in {"message", "dirs"} =>
              Following \in {"dirs", "env"} \/ (harness = "hermes" /\ Following = "home")
         /\ harness = "hermes" /\ stage = "home" => Following = "env"
<1>1. CASE harness = "codex"
  BY <1>1 DEF Stops, Following, CodexAfter
<1>2. CASE harness = "claude"
  BY <1>2 DEF Stops, Following, ClaudeAfter
<1>3. CASE harness = "opencode"
  BY <1>3 DEF Stops, Following, OpenCodeAfter
<1>4. CASE harness = "pi"
  BY <1>4 DEF Stops, Following, PiAfter
<1>5. CASE harness = "hermes"
  BY <1>5 DEF Stops, Following, HermesAfter
<1>6. CASE harness \notin {"codex", "claude", "opencode", "pi", "hermes"}
  BY <1>6 DEF Stops, Following, OpenClawAfter
<1> QED BY <1>1, <1>2, <1>3, <1>4, <1>5, <1>6

LEMMA ResolvedStep ==
  ASSUME Places, Resolved, [TurnNext]_turnVars
  PROVE  Resolved'
<1>1. harness' = harness BY Fixed
<1> USE <1>1, EarlyMoves DEF Places, Resolved, Proceed, Goto, FailWith
<1>2. CASE PrepareStep BY <1>2 DEF PrepareStep, Passive
<1>3. CASE ResolveStep
  <2>1. CASE FailWith("config") BY <2>1
  <2>2. CASE target' \in {t \in TargetsOf(harness) : "unset" \notin {t.server, t.plugin}}
    BY <2>2, TargetsAreServed
  <2> QED BY <1>3, <2>1, <2>2 DEF ResolveStep
<1>4. CASE TrustStarts BY <1>4 DEF TrustStarts, settings
<1>5. CASE TrustAnswers BY <1>5 DEF TrustAnswers, TrustFails
<1>6. CASE TrustEnds BY <1>6 DEF TrustEnds, settings
<1>7. CASE GatewayStarts \/ GatewayAnswers \/ GatewayStops
  BY <1>7 DEF GatewayStarts, GatewayAnswers, GatewayStops, settings
<1>8. CASE Launch BY <1>8 DEF Launch, settings
<1>9. CASE PiAsks BY <1>9 DEF PiAsks, settings
<1>10. CASE RunReturns BY <1>10 DEF RunReturns, settings
<1>11. CASE Reply BY <1>11 DEF Reply, settings
<1>12. CASE Check BY <1>12 DEF Check, settings
<1>13. CASE HelperEnds \/ TrustTimesOut BY <1>13 DEF HelperEnds, TrustTimesOut, settings
<1>14. CASE Agent BY <1>14, AgentOnly DEF settings
<1>15. CASE Expire BY <1>15 DEF Expire, settings
<1>16. CASE TurnDone \/ UNCHANGED turnVars BY <1>16 DEF TurnDone, turnVars, settings
<1> QED
  BY <1>2, <1>3, <1>4, <1>5, <1>6, <1>7, <1>8, <1>9, <1>10, <1>11, <1>12, <1>13, <1>14, <1>15,
     <1>16 DEF TurnNext, Operator
-----------------------------------------------------------------------------
(* What an adapter makes of a run depends on nothing else.                 *)
LEMMA ResultKept ==
  ASSUME harness' = harness, plan' = plan, log' = log, from' = from, exit' = exit
  PROVE  Result' = Result
BY DEF Result, CodexResult, ClaudeResult, OpenCodeResult, PiResult, HermesResult, OpenClawResult,
   Compacted, Transcript, LastRun

LEMMA OkResult ==
  ASSUME Result = "ok"
  PROVE  exit = 0 /\ (harness \in {"pi", "openclaw"} /\ plan.compact => Compacted)
BY DEF Result, CodexResult, ClaudeResult, OpenCodeResult, PiResult, HermesResult, OpenClawResult

LEMMA EndedStep ==
  ASSUME Places, Running, Ended, [TurnNext]_turnVars
  PROVE  Ended'
<1>1. harness' = harness /\ plan' = plan BY Fixed
<1> USE <1>1, Moves, ResultKept DEF Places, Running, Ended, Proceed, Goto, FailWith, Open
<1>2. CASE PrepareStep BY <1>2 DEF PrepareStep, Passive, process, agent
<1>3. CASE ResolveStep BY <1>3 DEF ResolveStep, process, agent
<1>4. CASE TrustStarts BY <1>4 DEF TrustStarts, process, agent
<1>5. CASE TrustAnswers BY <1>5 DEF TrustAnswers, TrustFails, process, agent
<1>6. CASE TrustEnds BY <1>6 DEF TrustEnds, process, agent
<1>7. CASE GatewayStarts BY <1>7 DEF GatewayStarts, process, agent
<1>8. CASE GatewayAnswers BY <1>8 DEF GatewayAnswers, process, agent
<1>9. CASE GatewayStops BY <1>9 DEF GatewayStops, process, agent
<1>10. CASE Launch BY <1>10 DEF Launch, agent
<1>11. CASE PiAsks BY <1>11 DEF PiAsks, process, agent
<1>12. CASE RunReturns BY <1>12 DEF RunReturns, ExitCode, ExitCodeOfProcess, agent
<1>13. CASE Reply BY <1>13, Results DEF Reply, process, agent
<1>14. CASE Check BY <1>14 DEF Check, process, agent
<1>15. CASE HelperEnds BY <1>15 DEF HelperEnds, process, agent
<1>16. CASE TrustTimesOut BY <1>16 DEF TrustTimesOut, process, agent
<1>17. CASE Agent
  <2>1. stage' = "run" /\ outcome' = "none" BY <1>17, AgentOnly
  <2>2. proc' = "running" \/ (Open = {} /\ did' = did)
    BY <1>17 DEF Agent, AgentMoves, CallStarts, CallEnds, Says, Exits, agent
  <2> QED BY <2>1, <2>2
<1>18. CASE Expire BY <1>18 DEF Expire, ExpireKills, agent
<1>19. CASE TurnDone \/ UNCHANGED turnVars BY <1>19 DEF TurnDone, turnVars, process, agent
<1> QED
  BY <1>2, <1>3, <1>4, <1>5, <1>6, <1>7, <1>8, <1>9, <1>10, <1>11, <1>12, <1>13, <1>14, <1>15,
     <1>16, <1>17, <1>18, <1>19 DEF TurnNext, Operator
-----------------------------------------------------------------------------
(* Only what the agent does is told, and nothing that was told changes.    *)
LEMMA AgentKept ==
  ASSUME [TurnNext]_turnVars, ~Agent PROVE UNCHANGED <<harness, did, log>>
<1>1. CASE Operator
  BY <1>1 DEF Operator, PrepareStep, ResolveStep, TrustStarts, TrustAnswers, TrustEnds,
     GatewayStarts, GatewayAnswers, GatewayStops, Launch, PiAsks, RunReturns, Reply, Check, agent
<1>2. CASE HelperEnds \/ TrustTimesOut \/ Expire \/ TurnDone \/ UNCHANGED turnVars
  BY <1>2 DEF HelperEnds, TrustTimesOut, Expire, TurnDone, turnVars, agent
<1> QED BY <1>1, <1>2 DEF TurnNext

LEMMA SignalKinds == Signals \subseteq Kinds \ {"call", "result"}
BY DEF Signals, Kinds

LEMMA Appended ==
  ASSUME log \in Seq(LogEvents), NEW kind \in Kinds, NEW c \in Calls \cup {"none"},
         NEW t \in Tools \cup {"none"}, NEW end \in {"none", "ok", "error"}, NEW long \in BOOLEAN,
         log' = Append(log, Event(kind, c, t, end, long))
  PROVE  /\ log' \in Seq(LogEvents) /\ Len(log) \in Nat /\ Len(log') = Len(log) + 1
         /\ \A i \in 1..Len(log) : log'[i] = log[i]
         /\ log'[Len(log) + 1] = Event(kind, c, t, end, long)
<1>1. Event(kind, c, t, end, long) \in LogEvents
  BY DEF Event, LogEvents
<1> QED BY <1>1

LEMMA ToldStep ==
  ASSUME Told, [TurnNext]_turnVars
  PROVE  Told'
<1> USE DEF Told
<1>1. CASE UNCHANGED <<did, log>>
  BY <1>1 DEF TrueEntry
<1>2. ASSUME NEW c \in Calls, NEW t \in Tools, CallStarts(c, t) PROVE Told'
  <2>1. t # "none" /\ did[c].tool = "none" /\ did[c].end = "none"
    BY <1>2, TurnAssumption DEF CallStarts
  <2>2. /\ did' \in [Calls -> Record]
        /\ did'[c].tool = t /\ did'[c].end = "none"
        /\ \A b \in Calls \ {c} : did'[b] = did[b]
    BY <1>2, <2>1 DEF CallStarts, Record
  <2>3. \A b \in Calls : did'[b].end # "none" => did'[b].tool # "none"
    BY <2>1, <2>2
  <2>4. CASE log' = log
    BY <2>1, <2>2, <2>3, <2>4 DEF TrueEntry
  <2>5. CASE log' = Append(log, Event("call", c, t, "none", FALSE))
    <3>1. /\ log' \in Seq(LogEvents) /\ Len(log) \in Nat /\ Len(log') = Len(log) + 1
          /\ \A i \in 1..Len(log) : log'[i] = log[i]
          /\ log'[Len(log) + 1] = Event("call", c, t, "none", FALSE)
      BY <2>5, Appended DEF Kinds
    <3>2. /\ log'[Len(log) + 1].kind = "call" /\ log'[Len(log) + 1].id = c
          /\ log'[Len(log) + 1].tool = t
      BY <3>1 DEF Event
    <3>3. \A i \in 1..Len(log') : i \in 1..Len(log) \/ i = Len(log) + 1
      BY <3>1
    <3>4. ASSUME NEW i, i = Len(log) + 1 PROVE TrueEntry(i)'
      BY <3>4, <2>1, <2>2, <3>1, <3>2 DEF TrueEntry
    <3>5. ASSUME NEW i \in 1..Len(log) PROVE TrueEntry(i)'
      BY <2>1, <2>2, <3>1, TrueEntry(i) DEF TrueEntry
    <3> QED BY <2>2, <2>3, <3>1, <3>3, <3>4, <3>5
  <2> QED BY <1>2, <2>4, <2>5 DEF CallStarts, Appears
<1>3. ASSUME NEW c \in Calls, NEW end \in Statuses, NEW long \in BOOLEAN, CallEnds(c, end, long)
      PROVE  Told'
  <2>1. did[c].tool # "none" /\ did[c].end = "none" /\ end \in {"ok", "error"}
    BY <1>3 DEF CallEnds, Open, Statuses
  <2>2. /\ did' \in [Calls -> Record]
        /\ did'[c].tool = did[c].tool /\ did'[c].end = end
        /\ \A b \in Calls \ {c} : did'[b] = did[b]
    BY <1>3, <2>1 DEF CallEnds, Record
  <2>3. \A b \in Calls : did'[b].end # "none" => did'[b].tool # "none"
    BY <2>1, <2>2
  <2>4. did[c].tool \in Tools \cup {"none"} /\ "result" \in Kinds
    BY DEF Record, Kinds
  <2>5. /\ log' \in Seq(LogEvents) /\ Len(log) \in Nat /\ Len(log') = Len(log) + 1
        /\ \A i \in 1..Len(log) : log'[i] = log[i]
        /\ log'[Len(log) + 1] = Event("result", c, did[c].tool, end, long)
    BY <1>3, <2>1, <2>4, Appended DEF CallEnds, Appears
  <2>6. LET e == log'[Len(log) + 1]
        IN  e.kind = "result" /\ e.id = c /\ e.tool = did[c].tool /\ e.end = end
    BY <2>5 DEF Event
  <2>7. \A i \in 1..Len(log') : i \in 1..Len(log) \/ i = Len(log) + 1
    BY <2>5
  <2>8. ASSUME NEW i, i = Len(log) + 1 PROVE TrueEntry(i)'
    BY <2>8, <2>1, <2>2, <2>5, <2>6 DEF TrueEntry
  <2>9. ASSUME NEW i \in 1..Len(log) PROVE TrueEntry(i)'
    BY <2>1, <2>2, <2>5, TrueEntry(i) DEF TrueEntry
  <2> QED BY <2>2, <2>3, <2>5, <2>7, <2>8, <2>9
<1>4. ASSUME NEW x \in Signals, Says(x) PROVE Told'
  <2>1. x \in Kinds /\ x \notin {"call", "result"}
    BY SignalKinds
  <2>2. /\ log' \in Seq(LogEvents) /\ Len(log) \in Nat /\ Len(log') = Len(log) + 1
        /\ \A i \in 1..Len(log) : log'[i] = log[i]
        /\ log'[Len(log) + 1] = Event(x, "none", "none", "none", FALSE)
    BY <1>4, <2>1, Appended DEF Says, Appears
  <2>3. log'[Len(log) + 1].kind = x
    BY <2>2 DEF Event
  <2>4. \A i \in 1..Len(log') : i \in 1..Len(log) \/ i = Len(log) + 1
    BY <2>2
  <2>5. did' = did
    BY <1>4 DEF Says
  <2> QED BY <2>1, <2>2, <2>3, <2>4, <2>5 DEF TrueEntry
<1>5. ASSUME NEW code, Exits(code) PROVE Told'
  BY <1>1, <1>5 DEF Exits, agent
<1> QED BY <1>1, <1>2, <1>3, <1>4, <1>5, AgentKept DEF Agent
(* A longer transcript tells all that it told.                             *)
LEMMA StillTold ==
  ASSUME Told, NEW b \in Calls, AllTold(b), did'[b] = did[b], harness' = harness,
         Len(log') \in Nat, Len(log') >= Len(log), \A i \in 1..Len(log) : log'[i] = log[i]
  PROVE  AllTold(b)'
<1>1. Len(log) \in Nat BY DEF Told
<1>2. \A i \in Nat : CallTold(b, i) => CallTold(b, i)'
  BY <1>1 DEF CallTold, Event
<1>3. \A i \in Nat : ResultTold(b, i) => ResultTold(b, i)'
  BY <1>1 DEF ResultTold
<1>4. \A i \in Nat : \A j \in 1..i : j \in Nat OBVIOUS
<1> QED BY <1>2, <1>3, <1>4 DEF AllTold

LEMMA CompleteStep ==
  ASSUME Told, Complete, [TurnNext]_turnVars
  PROVE  Complete'
<1> USE DEF Complete
<1>0. harness' = harness BY Fixed
<1>1. CASE UNCHANGED <<did, log>>
  BY <1>0, <1>1 DEF AllTold, CallTold, ResultTold, Event
<1>2. ASSUME NEW c \in Calls, NEW t \in Tools, CallStarts(c, t) PROVE Complete'
  <2>1. t # "none" /\ did[c].tool = "none" /\ did[c].end = "none"
    BY <1>2, TurnAssumption DEF CallStarts, Told
  <2>2. did'[c].tool = t /\ did'[c].end = "none" /\ \A b \in Calls \ {c} : did'[b] = did[b]
    BY <1>2, <2>1 DEF CallStarts, Told, Record
  <2>3. \/ harness = "opencode" /\ log' = log
        \/ /\ Len(log) \in Nat /\ Len(log') = Len(log) + 1
           /\ \A i \in 1..Len(log) : log'[i] = log[i]
           /\ log'[Len(log) + 1] = Event("call", c, t, "none", FALSE)
    <3>1. "call" \in Kinds BY DEF Kinds
    <3>2. CASE log' = Append(log, Event("call", c, t, "none", FALSE))
      BY <3>1, <3>2, Appended DEF Told
    <3> QED BY <1>2, <3>2 DEF CallStarts, Appears
  <2>4. Len(log') \in Nat /\ Len(log') >= Len(log) /\ \A i \in 1..Len(log) : log'[i] = log[i]
    <3>1. Len(log) \in Nat BY DEF Told
    <3>2. CASE log' = log BY <3>1, <3>2
    <3>3. CASE Len(log') = Len(log) + 1 /\ \A i \in 1..Len(log) : log'[i] = log[i]
      BY <3>1, <3>3
    <3> QED BY <2>3, <3>2, <3>3
  <2>5. ASSUME NEW b \in Calls \ {c} PROVE AllTold(b)'
    BY <1>0, <2>2, <2>4, StillTold
  <2>6. ASSUME harness # "opencode" PROVE \E j \in Nat : CallTold(c, j)'
    <3>1. ASSUME NEW j, j = Len(log) + 1 PROVE j \in Nat /\ CallTold(c, j)'
      BY <2>2, <2>3, <2>6, <3>1 DEF CallTold, Event
    <3> QED BY <3>1
  <2>7. AllTold(c)'
    BY <1>0, <2>2, <2>6 DEF AllTold
  <2> QED BY <2>5, <2>7
<1>3. ASSUME NEW c \in Calls, NEW end \in Statuses, NEW long \in BOOLEAN, CallEnds(c, end, long)
      PROVE  Complete'
  <2>1. did[c].tool # "none" /\ end \in {"ok", "error"}
    BY <1>3 DEF CallEnds, Open, Statuses
  <2>2. /\ did'[c].tool = did[c].tool
        /\ \A b \in Calls \ {c} : did'[b] = did[b]
    BY <1>3, <2>1 DEF CallEnds, Told, Record
  <2>3. /\ Len(log) \in Nat /\ Len(log') = Len(log) + 1
        /\ \A i \in 1..Len(log) : log'[i] = log[i]
        /\ log'[Len(log) + 1] = Event("result", c, did[c].tool, end, long)
    <3>1. "result" \in Kinds /\ did[c].tool \in Tools \cup {"none"}
      BY DEF Kinds, Told, Record
    <3> QED BY <1>3, <2>1, <3>1, Appended DEF CallEnds, Appears, Told
  <2>4. Len(log') \in Nat /\ Len(log') >= Len(log)
    BY <2>3
  <2>5. ASSUME NEW b \in Calls \ {c} PROVE AllTold(b)'
    BY <1>0, <2>2, <2>3, <2>4, StillTold
  <2>6. ASSUME harness # "opencode" PROVE \E j \in 1..Len(log) : CallTold(c, j)'
    <3>1. PICK j \in Nat : CallTold(c, j)
      BY <2>1, <2>6 DEF AllTold
    <3>2. j \in 1..Len(log) /\ CallTold(c, j)'
      BY <2>2, <2>3, <3>1 DEF CallTold, Event
    <3> QED BY <3>2
  <2>7. ASSUME NEW i, i = Len(log) + 1 PROVE i \in Nat /\ ResultTold(c, i)'
    BY <2>3, <2>7 DEF ResultTold, Event
  <2>8. \A j \in 1..Len(log) : j \in Nat /\ j \in 1..Len(log) + 1
    BY <2>3
  <2>9. AllTold(c)'
    BY <1>0, <2>3, <2>6, <2>7, <2>8 DEF AllTold
  <2> QED BY <2>5, <2>9
<1>4. ASSUME NEW x \in Signals, Says(x) PROVE Complete'
  <2>1. /\ Len(log) \in Nat /\ Len(log') = Len(log) + 1
        /\ \A i \in 1..Len(log) : log'[i] = log[i]
    BY <1>4, SignalKinds, Appended DEF Says, Appears, Told
  <2>2. Len(log') \in Nat /\ Len(log') >= Len(log) /\ did' = did
    BY <1>4, <2>1 DEF Says
  <2> QED BY <1>0, <2>1, <2>2, StillTold
<1>5. ASSUME NEW code, Exits(code) PROVE Complete'
  BY <1>1, <1>5 DEF Exits, agent
<1> QED BY <1>1, <1>2, <1>3, <1>4, <1>5, AgentKept DEF Agent

(* A verdict does not depend on what comes after it: nothing does.         *)
LEMMA AcceptsKept ==
  ASSUME UNCHANGED <<harness, log, policy>>
  PROVE  Accepts(policy)' <=> Accepts(policy)
BY DEF Accepts, Observed, CodexObserved, ClaudeObserved, OpenCodeObserved, PiObserved,
   HermesObserved, OpenClawObserved, Completed, CodexCompleted, ClaudeCompleted,
   OpenCodeCompleted, PiCompleted, HermesCompleted, OpenClawCompleted, Transcript, Joined

LEMMA VerdictKept ==
  ASSUME [TurnNext]_turnVars, ~Check PROVE UNCHANGED evidence
<1>1. CASE Operator
  BY <1>1 DEF Operator, PrepareStep, ResolveStep, TrustStarts, TrustAnswers, TrustEnds,
     GatewayStarts, GatewayAnswers, GatewayStops, Launch, PiAsks, RunReturns, Reply
<1>2. CASE HelperEnds \/ TrustTimesOut \/ Expire \/ TurnDone \/ UNCHANGED turnVars
  BY <1>2 DEF HelperEnds, TrustTimesOut, Expire, TurnDone, turnVars
<1> QED BY <1>1, <1>2, AgentOnly DEF TurnNext

(* At its end the operator does nothing but judge.                         *)
LEMMA EndKept ==
  ASSUME [TurnNext]_turnVars, stage = "end", proc # "running"
  PROVE  UNCHANGED <<outcome, log, did, stage>>
<1>1. CASE Operator
  BY <1>1 DEF Operator, PrepareStep, ResolveStep, TrustStarts, TrustAnswers, TrustEnds, Passive,
     GatewayStarts, GatewayAnswers, GatewayStops, Launch, PiAsks, RunReturns, Reply, Check, agent
<1>2. CASE HelperEnds \/ TrustTimesOut \/ Expire \/ TurnDone \/ UNCHANGED turnVars
  BY <1>2 DEF HelperEnds, TrustTimesOut, Expire, TurnDone, turnVars, agent
<1> QED BY <1>1, <1>2, AgentOnly DEF TurnNext

LEMMA JudgedStep ==
  ASSUME Places, Running, Judged, [TurnNext]_turnVars
  PROVE  Judged'
<1>0. harness' = harness /\ plan' = plan BY Fixed
<1> USE <1>0 DEF Judged, Asked, evidence
<1>1. CASE Check
  <2>1. /\ outcome = "ok" /\ outcome' = "ok" /\ policy' \in Policies
        /\ policy'.any => harness \in {"claude", "pi"}
        /\ harness = "pi" => policy'.forbid = {}
        /\ policy'.forbid \subseteq OvTools \/ harness = "hermes"
        /\ verdict' = (IF Accepts(policy') THEN "ok" ELSE "refused") \/ verdict' = "config"
        /\ UNCHANGED <<harness, log>>
    BY <1>1 DEF Check, agent
  <2>2. Accepts(policy)' <=> Accepts(policy')
    BY <2>1 DEF Accepts, Observed, CodexObserved, ClaudeObserved, OpenCodeObserved, PiObserved,
       HermesObserved, OpenClawObserved, Completed, CodexCompleted, ClaudeCompleted,
       OpenCodeCompleted, PiCompleted, HermesCompleted, OpenClawCompleted, Transcript, Joined
  <2> QED BY <2>1, <2>2
<1>2. CASE verdict \notin {"ok", "refused"} /\ ~Check
  BY <1>2, VerdictKept
<1>3. CASE verdict \in {"ok", "refused"} /\ ~Check
  <2>1. stage = "end" /\ proc # "running" /\ outcome = "ok"
    BY <1>3 DEF Places, Running
  <2>2. UNCHANGED <<harness, log, policy, verdict, outcome>>
    BY <1>3, <2>1, VerdictKept, EndKept
  <2> QED BY <1>3, <2>1, <2>2, AcceptsKept
<1> QED BY <1>1, <1>2, <1>3
-----------------------------------------------------------------------------
(* Reading up to the first line that is too long.                          *)
LEMMA Least ==
  ASSUME NEW T \in SUBSET Nat, T # {}
  PROVE  \E m \in T : \A k \in T : m <= k
<1>1. PICK m \in T : \A k \in T : ~(<<k, m>> \in OpToRel(<, Nat))
  BY NatLessThanWellFounded, WFMin
<1>2. \A k \in T : ~(k < m)
  BY <1>1 DEF OpToRel
<1>3. \A k \in T : m <= k
  BY <1>2
<1> QED BY <1>3

LEMMA LinesOf ==
  ASSUME NEW s \in Seq(LogEvents)
  PROVE  /\ DOMAIN Lines(s) \subseteq DOMAIN s
         /\ \A i \in DOMAIN Lines(s) : Lines(s)[i] = s[i]
         /\ (\A i \in DOMAIN s : ~s[i].long) => Lines(s) = s
<1> DEFINE overlong == {i \in DOMAIN s : s[i].long}
           first == CHOOSE i \in overlong : \A j \in overlong : i <= j
<1>1. Lines(s) = IF overlong = {} THEN s ELSE SubSeq(s, 1, first - 1)
  BY DEF Lines
<1>2. overlong \in SUBSET Nat /\ overlong \subseteq 1..Len(s) OBVIOUS
<1>3. (\A i \in DOMAIN s : ~s[i].long) <=> overlong = {} OBVIOUS
<1> HIDE DEF overlong
<1>4. CASE overlong = {}
  BY <1>1, <1>3, <1>4
<1>5. CASE overlong # {}
  <2>1. first \in overlong
    BY <1>2, <1>5, Least
  <2> HIDE DEF first
  <2>2. first \in 1..Len(s)
    BY <1>2, <2>1
  <2>3. /\ DOMAIN SubSeq(s, 1, first - 1) = 1..first - 1
        /\ \A i \in 1..first - 1 : SubSeq(s, 1, first - 1)[i] = s[i]
    BY <2>2
  <2> QED BY <1>1, <1>3, <1>5, <2>2, <2>3
<1> QED BY <1>4, <1>5

(* A transcript tells what its log tells, up to the first long line.       *)
LEMMA TranscriptOf ==
  ASSUME Told
  PROVE  /\ DOMAIN log = 1..Len(log) /\ Len(log) \in Nat
         /\ DOMAIN Transcript \subseteq 1..Len(log)
         /\ \A i \in DOMAIN Transcript : Transcript[i] = log[i]
         /\ ~Blind /\ harness \in {"codex", "claude", "opencode", "pi"} => Lines(log) = log
         /\ ~Blind => Transcript = log
<1>1. log \in Seq(LogEvents) BY DEF Told
<1>2. DOMAIN log = 1..Len(log) /\ Len(log) \in Nat BY <1>1
<1>3. ~Blind /\ harness \in {"codex", "claude", "opencode", "pi"} => Lines(log) = log
  BY <1>1, LinesOf DEF Blind, Range
<1> QED BY <1>1, <1>2, <1>3, LinesOf DEF Transcript
(* What is told of a result, or of a call, is what happened.               *)
LEMMA ToldResult ==
  ASSUME Told, NEW i \in 1..Len(log), log[i].kind = "result"
  PROVE  /\ log[i].tool \in Attempted
         /\ log[i].end = "ok" => log[i].tool \in Succeeded
<1>1. log[i].id \in Calls /\ log[i].tool = did[log[i].id].tool /\ log[i].end = did[log[i].id].end
      /\ did[log[i].id].tool # "none"
  BY DEF Told, TrueEntry
<1> QED BY <1>1 DEF Attempted, Succeeded

LEMMA ToldCall ==
  ASSUME Told, NEW i \in 1..Len(log), log[i].kind = "call"
  PROVE  log[i].tool \in Attempted
<1>1. log[i].id \in Calls /\ log[i].tool = did[log[i].id].tool /\ log[i].tool # "none"
  BY DEF Told, TrueEntry
<1> QED BY <1>1 DEF Attempted

(* No adapter takes a tool for successful that was not.                    *)
LEMMA CompletedSound == ASSUME Told PROVE Completed \subseteq Succeeded
<1> USE TranscriptOf, ToldResult
<1>1. CodexCompleted \subseteq Succeeded BY DEF CodexCompleted, Range
<1>2. ClaudeCompleted \subseteq Succeeded BY DEF ClaudeCompleted
<1>3. OpenCodeCompleted \subseteq Succeeded BY DEF OpenCodeCompleted, Range
<1>4. PiCompleted \subseteq Succeeded BY DEF PiCompleted, Range
<1>5. HermesCompleted \subseteq Succeeded BY DEF HermesCompleted, Range
<1>6. OpenClawCompleted \subseteq Succeeded BY DEF OpenClawCompleted
<1> QED BY <1>1, <1>2, <1>3, <1>4, <1>5, <1>6 DEF Completed

(* No adapter that sees all misses a successful tool of OpenViking.        *)
LEMMA CompletedWhole ==
  ASSUME Told, Complete, ~Blind
  PROVE  Succeeded \cap OvTools \subseteq Completed
<1> SUFFICES ASSUME NEW t \in Succeeded \cap OvTools PROVE t \in Completed
  OBVIOUS
<1>1. PICK c \in Calls : did[c].end = "ok" /\ t = did[c].tool
  BY DEF Succeeded
<1>2. PICK i \in Nat : /\ ResultTold(c, i)
                       /\ harness # "opencode" => \E j \in 1..i : CallTold(c, j)
  BY <1>1 DEF Complete, AllTold
<1>3. /\ i \in 1..Len(log) /\ log[i].kind = "result" /\ log[i].id = c
      /\ log[i].tool = t /\ log[i].end = "ok"
  BY <1>1, <1>2 DEF ResultTold, Told, TrueEntry
<1>4. DOMAIN log = 1..Len(log) /\ Transcript = log
  BY TranscriptOf
<1>5. log[i] \in Range(log)
  BY <1>3, <1>4 DEF Range
<1>6. t \in CodexCompleted BY <1>3, <1>4, <1>5 DEF CodexCompleted
<1>7. t \in OpenCodeCompleted BY <1>3, <1>4, <1>5 DEF OpenCodeCompleted
<1>8. t \in PiCompleted BY <1>3, <1>4, <1>5 DEF PiCompleted
<1>9. t \in HermesCompleted BY <1>3, <1>4, <1>5 DEF HermesCompleted
<1>10. ASSUME harness # "opencode" PROVE t \in ClaudeCompleted /\ t \in OpenClawCompleted
  <2>1. PICK j \in 1..i : log[j] = Event("call", c, t, "none", FALSE)
    BY <1>1, <1>2, <1>10 DEF CallTold
  <2>2. log[j].kind = "call" /\ log[j].id = c /\ log[j].tool = t
    BY <2>1 DEF Event
  <2>3. Joined(log, i)
    BY <1>3, <2>2 DEF Joined
  <2> QED BY <1>3, <1>4, <2>1, <2>3 DEF ClaudeCompleted, OpenClawCompleted
<1> QED BY <1>6, <1>7, <1>8, <1>9, <1>10 DEF Completed

(* The tools that an adapter sees are the ones that were tried: all of     *)
(* them for claude and pi, those of OpenViking for the others.             *)
LEMMA ObservedExact ==
  ASSUME Told, Complete, ~Blind, Open = {}
  PROVE  /\ Observed \cap OvTools = Attempted \cap OvTools
         /\ harness \in {"claude", "pi"} => Observed = Attempted
         /\ harness = "hermes" => Observed = Attempted \cap OvTools
<1>1. DOMAIN log = 1..Len(log) /\ Transcript = log
      /\ (harness \in {"codex", "claude", "opencode", "pi"} => Lines(log) = log)
  BY TranscriptOf
<1>2. ToolsOf(log, {"call", "result"}) \subseteq Attempted
  BY <1>1, ToldCall, ToldResult DEF ToolsOf, Range
<1>3. ToolsOf(log, {"call"}) \subseteq Attempted
  BY <1>1, ToldCall DEF ToolsOf, Range
<1>4. ToolsOf(log, {"result"}) \subseteq Attempted
  BY <1>1, ToldResult DEF ToolsOf, Range
<1>5. ASSUME harness # "opencode" PROVE Attempted \subseteq ToolsOf(log, {"call"})
  <2> SUFFICES ASSUME NEW t \in Attempted PROVE t \in ToolsOf(log, {"call"})
    OBVIOUS
  <2>1. PICK c \in Calls : t = did[c].tool /\ t # "none"
    BY DEF Attempted
  <2>2. PICK j \in Nat : CallTold(c, j)
    BY <1>5, <2>1 DEF Complete, AllTold
  <2>3. j \in DOMAIN log /\ log[j].kind = "call" /\ log[j].tool = t
    BY <1>1, <2>1, <2>2 DEF CallTold, Event
  <2> QED BY <2>3 DEF ToolsOf, Range
<1>6. Attempted \subseteq ToolsOf(log, {"result"})
  <2> SUFFICES ASSUME NEW t \in Attempted PROVE t \in ToolsOf(log, {"result"})
    OBVIOUS
  <2>1. PICK c \in Calls : t = did[c].tool /\ t # "none"
    BY DEF Attempted
  <2>2. did[c].end # "none"
    BY <2>1 DEF Open
  <2>3. PICK i \in Nat : ResultTold(c, i)
    BY <2>2 DEF Complete, AllTold
  <2>4. i \in DOMAIN log /\ log[i].kind = "result" /\ log[i].tool = t
    BY <1>1, <2>1, <2>3 DEF ResultTold, Told, TrueEntry
  <2> QED BY <2>4 DEF ToolsOf, Range
<1>7. ToolsOf(log, {"call"}) \subseteq ToolsOf(log, {"call", "result"})
  BY DEF ToolsOf
<1>8. harness = "opencode" => Observed = Attempted \cap OvTools
  BY <1>1, <1>4, <1>6 DEF Observed, OpenCodeObserved
<1>9. harness # "opencode" =>
        ToolsOf(log, {"call"}) = Attempted /\ ToolsOf(log, {"call", "result"}) = Attempted
  BY <1>2, <1>3, <1>5, <1>7
<1> QED BY <1>1, <1>8, <1>9 DEF Observed, CodexObserved, ClaudeObserved, PiObserved,
       HermesObserved, OpenClawObserved

LEMMA VerdictEarned ==
  ASSUME Places, Running, Ended, Told, Complete, Judged
  PROVE  EvidenceExact
<1>1. Completed \subseteq Succeeded
  BY CompletedSound
<1>2. verdict = "ok" => policy.expect \subseteq Succeeded
  BY <1>1 DEF Judged, Accepts
<1>3. ASSUME verdict \in {"ok", "refused"}, ~Blind PROVE Accepts(policy) <=> Deserved(policy)
  <2>1. outcome = "ok" /\ Asked
    BY <1>3 DEF Judged
  <2>2. Open = {}
    BY <2>1, OkResult DEF Places, Running, Ended
  <2>3. /\ policy.expect \subseteq OvTools /\ policy.forbid \subseteq Tools
        /\ policy.any \in BOOLEAN
    BY <2>1, TurnAssumption DEF Asked
  <2>4. policy.expect \subseteq Completed <=> policy.expect \subseteq Succeeded
    BY <1>1, <1>3, <2>3, CompletedWhole
  <2>5. policy.any => Observed = Attempted
    BY <1>3, <2>1, <2>2, ObservedExact DEF Asked
  <2>6. policy.forbid \cap Observed = {} <=> policy.forbid \cap Attempted = {}
    <3>1. CASE policy.forbid \subseteq OvTools
      BY <1>3, <2>2, <3>1, ObservedExact
    <3>2. CASE harness = "hermes"
      <4>1. policy.forbid \cap Attempted \cap OtherTools = {}
        BY <1>3, <3>2 DEF Blind
      <4>2. Observed = Attempted \cap OvTools
        BY <1>3, <2>2, <3>2, ObservedExact
      <4> QED BY <2>3, <4>1, <4>2 DEF Tools
    <3> QED BY <2>1, <3>1, <3>2 DEF Asked
  <2> QED BY <2>3, <2>4, <2>5, <2>6 DEF Accepts, Deserved
<1> QED BY <1>2, <1>3 DEF EvidenceExact, Judged
-----------------------------------------------------------------------------
LEMMA TurnStarts == ASSUME TurnInit PROVE TurnInv
<1>1. Places /\ Running /\ Configured
  BY DEF TurnInit, Places, Running, Configured, Stops
<1>2. Ended
  BY DEF TurnInit, Ended, Open, NoCall
<1>3. Told
  BY DEF TurnInit, Told, Record, NoCall
<1>4. Complete
  BY DEF TurnInit, Complete, AllTold, NoCall
<1>5. Judged
  BY DEF TurnInit, Judged
<1> QED BY <1>1, <1>2, <1>3, <1>4, <1>5 DEF TurnInv

(* Where a run starts in the transcript, and that a reply found there is   *)
(* one of the transcript.                                                  *)
Started == from \in Nat \ {0}

LEMMA StartedStep == ASSUME TurnInv, Started, [TurnNext]_turnVars PROVE Started'
<1>1. CASE Launch
  <2>1. from' = Len(log) + 1 /\ Len(log) \in Nat BY <1>1 DEF Launch, TurnInv, Told
  <2> QED BY <2>1 DEF Started
<1>2. CASE Operator /\ ~Launch
  BY <1>2 DEF Operator, PrepareStep, ResolveStep, TrustStarts, TrustAnswers, TrustEnds,
     GatewayStarts, GatewayAnswers, GatewayStops, PiAsks, RunReturns, Reply, Check, process,
     Started
<1>3. CASE HelperEnds \/ TrustTimesOut \/ Expire \/ TurnDone \/ UNCHANGED turnVars
  BY <1>3 DEF HelperEnds, TrustTimesOut, Expire, TurnDone, turnVars, process, Started
<1>4. CASE Agent BY <1>4, AgentOnly DEF Started
<1> QED BY <1>1, <1>2, <1>3, <1>4 DEF TurnNext

LEMMA ReplyHeard ==
  ASSUME Result = "ok", Started, log \in Seq(LogEvents), ~plan.silent,
         harness = "openclaw" => ~plan.compact, harness \in Harnesses
  PROVE  \E e \in Range(log) : e.kind = "reply"
<1>1. \/ Heard(log, "reply")
      \/ harness \in {"codex", "claude", "opencode"} /\ Heard(LastRun, "reply")
  BY TurnAssumption DEF Result, CodexResult, ClaudeResult, OpenCodeResult, PiResult, HermesResult,
     OpenClawResult
<1> DEFINE run == SubSeq(log, from, Len(log))
<1>2. run \in Seq(LogEvents) /\ Range(run) \subseteq Range(log)
  <2>1. from \in Int /\ from >= 1 /\ Len(log) \in Nat BY DEF Started
  <2>2. /\ DOMAIN run = 1..Len(run) /\ run \in Seq(LogEvents)
        /\ \A i \in 1..Len(run) : i + from - 1 \in 1..Len(log) /\ run[i] = log[i + from - 1]
    BY <2>1
  <2> HIDE DEF run
  <2>3. DOMAIN log = 1..Len(log) OBVIOUS
  <2> QED BY <2>2, <2>3 DEF Range
<1>3. LastRun \in {run, Lines(run)} BY DEF LastRun
<1> HIDE DEF run
<1>4. Range(Lines(run)) \subseteq Range(run) BY <1>2, LinesOf DEF Range
<1> QED BY <1>1, <1>2, <1>3, <1>4 DEF Heard

(* The inductive invariant of a turn: where the operator is, what runs and *)
(* what is in force there, and a transcript that tells the agent's calls   *)
(* as they went.                                                           *)
THEOREM TurnInvariant == TurnSpec => []TurnInv
<1>1. TurnInit => TurnInv
  BY TurnStarts
<1>2. TurnInv /\ [TurnNext]_turnVars => TurnInv'
  BY PlacesStep, ConfiguredStep, EndedStep, ToldStep, CompleteStep, JudgedStep DEF TurnInv
<1> QED BY <1>1, <1>2, PTL DEF TurnSpec

(* No way out of the operators leaves an agent, an app-server or a gateway *)
(* running.                                                                *)
THEOREM NothingIsLeftRunning == TurnSpec => []NothingLeftRunning
<1>1. TurnInv => NothingLeftRunning
  BY DEF TurnInv, Places, Running, NothingLeftRunning
<1> QED BY <1>1, TurnInvariant, PTL

(* The evidence operators decide exactly what the agent did wherever their *)
(* adapter is not blind, and never take an expected tool for granted.      *)
THEOREM EvidenceIsExact == TurnSpec => []EvidenceExact
<1>1. TurnInv => EvidenceExact
  BY VerdictEarned DEF TurnInv
<1> QED BY <1>1, TurnInvariant, PTL

(* A turn reported as good is one, and its agent was on the server and     *)
(* had the user of the case, or those that the operator's shell names.     *)
THEOREM GoodTurnsAreEarned == TurnSpec => []OkIsEarned
<1>1. TurnInit => Resolved /\ Started
  BY DEF TurnInit, Resolved, Started
<1>2. TurnInv /\ Resolved /\ Started /\ [TurnNext]_turnVars => Resolved' /\ Started'
  BY ResolvedStep, StartedStep DEF TurnInv
<1>3. TurnInv /\ Resolved /\ Started => OkIsEarned
  <2> SUFFICES ASSUME TurnInv, Resolved, Started, outcome = "ok" PROVE OkIsEarned
    BY DEF OkIsEarned
  <2>1. stage = "end" /\ Result = "ok" /\ harness \in Harnesses /\ plan \in PlansOf(harness)
    BY DEF TurnInv, Places, Ended
  <2>2. exit = 0 /\ expired # "deadline"
    BY <2>1, OkResult DEF TurnInv, Ended
  <2>3. harness = "codex" => IF plan.isolated THEN "mcp" \in config /\ "trust" \notin config
                             ELSE {"home", "install", "trust"} \subseteq config
    BY <2>1 DEF TurnInv, Configured
  <2>4. plan.compact => \E e \in Range(log) : e.kind = "compacted"
    <3>1. plan.compact => harness \in {"pi", "openclaw"}
      BY <2>1 DEF PlansOf
    <3> QED BY <2>1, <3>1, OkResult DEF Compacted, Heard
  <2>5. Served(harness, target.server)
    BY <2>1 DEF Resolved
  <2>6. ~plan.silent /\ (harness = "openclaw" => ~plan.compact) =>
          \E e \in Range(log) : e.kind = "reply"
    BY <2>1, ReplyHeard DEF TurnInv, Told
  <2> QED BY <2>2, <2>3, <2>4, <2>5, <2>6 DEF OkIsEarned, Served, Asks
<1> QED BY <1>1, <1>2, <1>3, TurnInvariant, PTL DEF TurnSpec
=============================================================================
