------------------------------ MODULE AgentTurn ------------------------------
(***************************************************************************)
(* One turn of an agent under test: the exec/chat operator of an adapter   *)
(* (src/adapters), which prepares an isolated configuration, runs the        *)
(* agent's own command line under a timeout and reads its transcript, and  *)
(* the evidence operator, which decides from that transcript whether the   *)
(* tools that had to be called succeeded and the forbidden ones were left  *)
(* alone.                                                                  *)
(*                                                                         *)
(* The agent is free: it starts calls, several at a time, gets results in  *)
(* any order, some of them errors, talks, exits or hangs, and is killed    *)
(* at the deadline.  What it really did is in `did`; what an adapter can   *)
(* know is `log`, in the event format of that harness.                     *)
(***************************************************************************)
EXTENDS AgentTarget

CONSTANTS
  MaxCalls,     \* bounds the tool calls of a turn
  OvTools,      \* the tools of OpenViking
  OtherTools,   \* the agent's own tools
  Policies,     \* what an evidence node expects and forbids
  MaxLog        \* bounds what one transcript holds

Calls == 1..MaxCalls
Tools == OvTools \cup OtherTools

(* What a case expects of its agent is always a tool of OpenViking.        *)
ASSUME TurnAssumption ==
  /\ Harnesses \subseteq {"codex", "claude", "opencode", "openclaw", "hermes", "pi"}
  /\ "none" \notin Tools
  /\ Policies \subseteq [expect : SUBSET OvTools, forbid : SUBSET Tools, any : BOOLEAN]

(* A call fails when the protocol says so, or when only the text of its    *)
(* result does (HasBusinessError); every adapter takes both for a failure. *)
Statuses == {"ok", "error"}

VARIABLES
  harness, plan,    \* which adapter, and how its nodes are configured
  stage,            \* where the operator is
  config, target,   \* what the agent would find in its configuration, and whom it serves
  helper, rpc,      \* codex's app-server or openclaw's gateway, and the talk with it
  proc, expired, exit, runs,  \* the agent's process, and how it has ended
  stdin,            \* whether the agent's standard input is still open
  log, from,        \* the transcript, and where the current run starts in it
  did,              \* did[c]: the call c as it really went
  outcome,          \* what the exec/chat operator returns
  policy, verdict   \* what the evidence node asks for, and its answer

agent == <<log, did, stdin>>
process == <<proc, expired, exit, runs, from>>
aside == <<helper, rpc>>
settings == <<config, target>>
evidence == <<policy, verdict>>
turnVars == <<harness, plan, stage, settings, aside, process, agent, outcome, evidence>>

NoTarget == [server |-> "unset", plugin |-> "unset"]
NoPolicy == [expect |-> {}, forbid |-> {}, any |-> FALSE]
NoCall == [tool |-> "none", end |-> "none"]
Open == {c \in Calls : did[c].tool # "none" /\ did[c].end = "none"}

(* The options an adapter reads: isolated_mcp, compact_after (for openclaw *)
(* the node is a compaction), empty_reply_retries, allow_empty_reply.      *)
PlansOf(h) ==
  [isolated : IF h \in {"codex", "claude"} THEN BOOLEAN ELSE {FALSE},
   compact : IF h \in {"pi", "openclaw"} THEN BOOLEAN ELSE {FALSE},
   retries : IF h = "opencode" THEN 0..1 ELSE {0},
   silent : IF h = "opencode" THEN BOOLEAN ELSE {FALSE}]

TurnInit ==
  /\ harness \in Harnesses /\ plan \in PlansOf(harness)
  /\ stage = "message" /\ config = {} /\ target = NoTarget
  /\ helper = "none" /\ rpc = "none"
  /\ proc = "none" /\ expired = "no" /\ exit = 0 /\ runs = 0
  /\ stdin = "open" /\ log = <<>> /\ from = 1
  /\ did = [c \in Calls |-> NoCall]
  /\ outcome = "none" /\ policy = NoPolicy /\ verdict = "none"
-----------------------------------------------------------------------------
(* The order of work in each adapter.  "env" resolves the OpenViking url   *)
(* and key and writes the agent's own copies of them; "home" its home,     *)
(* plugin or template; "mcp" the configuration that holds only the MCP     *)
(* server.                                                                 *)
CodexAfter ==
  [message |-> "dirs", dirs |-> "env", env |-> "home",
   home |-> IF plan.isolated THEN "mcp" ELSE "install",
   install |-> "trust", trust |-> "run", mcp |-> "run",
   run |-> "save", save |-> "reply", reply |-> "end"]

ClaudeAfter ==
  [message |-> "dirs", dirs |-> "env", env |-> "home",
   home |-> IF plan.isolated THEN "mcp" ELSE "run", mcp |-> "run",
   run |-> "save", save |-> "reply", reply |-> "end"]

OpenCodeAfter ==
  [message |-> "dirs", dirs |-> "env", env |-> "home", home |-> "run",
   run |-> "save", save |-> "reply", reply |-> "end"]

PiAfter ==
  [message |-> "dirs", dirs |-> "env", env |-> "run",
   run |-> "save", save |-> "reply", reply |-> "end"]

HermesAfter ==
  [message |-> "dirs", dirs |-> "home", home |-> "env", env |-> "run",
   run |-> "reply", reply |-> "end"]

OpenClawAfter ==
  [message |-> "env", env |-> IF plan.compact THEN "gateway" ELSE "run",
   gateway |-> "run", run |-> IF plan.compact THEN "stop" ELSE "reply",
   stop |-> "reply", reply |-> IF plan.compact THEN "end" ELSE "export",
   export |-> "end"]

Following ==
  CASE harness = "codex" -> CodexAfter[stage]
    [] harness = "claude" -> ClaudeAfter[stage]
    [] harness = "opencode" -> OpenCodeAfter[stage]
    [] harness = "pi" -> PiAfter[stage]
    [] harness = "hermes" -> HermesAfter[stage]
    [] OTHER -> OpenClawAfter[stage]

Goto(s, o) == stage' = s /\ outcome' = o
Proceed == Goto(Following, IF Following = "end" THEN "ok" ELSE "none")
FailWith(o) == Goto("end", o)

(* prepareCodexHome and writeIsolatedMCPConfig each write config.toml      *)
(* anew, which takes the plugin's entry and its trusted hooks with it.     *)
ConfigAfter ==
  (IF harness = "codex" /\ stage \in {"home", "mcp"}
   THEN config \ {"home", "install", "trust"} ELSE config) \cup {stage}

Passive == {"message", "dirs", "home", "mcp", "install", "save", "export"}

(* The server, the user and the plugin are resolved (the plugin while the  *)
(* home is written, in some); without them nothing is run.                 *)
ResolveStep ==
  /\ stage = "env"
  /\ \/ /\ target' \in {t \in TargetsOf(harness) :
                         "unset" \notin {t.server, t.plugin}}
        /\ Proceed /\ config' = ConfigAfter
     \/ FailWith("config") /\ UNCHANGED settings
  /\ UNCHANGED <<harness, plan, aside, process, agent, evidence>>

PrepareStep ==
  /\ stage \in Passive
  /\ \/ Proceed /\ config' = ConfigAfter
     \/ FailWith("config") /\ UNCHANGED config
     \/ stage = "export" /\ FailWith("gate") /\ UNCHANGED config
  /\ UNCHANGED <<harness, plan, target, aside, process, agent, evidence>>
-----------------------------------------------------------------------------
(* trustCodexPluginHooks: list the plugin's hooks, check them, write their *)
(* hashes, close the input and wait for the server to leave by itself; on  *)
(* every other way out the server is killed and reaped.                    *)
TrustStarts ==
  /\ stage = "trust" /\ rpc = "none"
  /\ \/ helper' = "running" /\ rpc' = "list" /\ UNCHANGED <<stage, outcome>>
     \/ FailWith("config") /\ UNCHANGED aside
  /\ UNCHANGED <<harness, plan, settings, process, agent, evidence>>

TrustFailsLeaving == FailWith("config") /\ UNCHANGED aside
TrustFails == FailWith("config") /\ helper' = "killed" /\ UNCHANGED rpc

TrustAnswers ==
  /\ stage = "trust" /\ helper = "running" /\ rpc \in {"list", "write"}
  /\ \/ /\ rpc' = IF rpc = "list" THEN "write" ELSE "leave"
        /\ config' = IF rpc = "write" THEN config \cup {"trust"} ELSE config
        /\ UNCHANGED <<helper, stage, outcome>>
     \/ TrustFails /\ UNCHANGED config
  /\ UNCHANGED <<harness, plan, target, process, agent, evidence>>

TrustEnds ==
  /\ stage = "trust" /\ helper \in {"left", "killed"}
  /\ IF rpc = "leave" /\ helper = "left" THEN Proceed ELSE FailWith("config")
  /\ UNCHANGED <<harness, plan, settings, aside, process, agent, evidence>>

(* startIsolatedOpenClawGateway and its stop function.                     *)
GatewayStarts ==
  /\ stage = "gateway" /\ helper = "none"
  /\ \/ helper' = "running" /\ UNCHANGED <<stage, outcome>>
     \/ FailWith("gate") /\ UNCHANGED helper
  /\ UNCHANGED <<harness, plan, settings, rpc, process, agent, evidence>>

GatewayAnswers ==
  /\ stage = "gateway" /\ helper \in {"running", "left", "killed"}
  /\ \/ helper = "running" /\ Proceed /\ UNCHANGED helper
     \/ FailWith("gate") /\ helper' = "killed"
  /\ UNCHANGED <<harness, plan, settings, rpc, process, agent, evidence>>

(* An error of the stop function spoils a compaction that went well.       *)
GatewayStops ==
  /\ stage = "stop"
  /\ helper' = "killed"
  /\ Proceed \/ FailWith("gate")
  /\ UNCHANGED <<harness, plan, settings, rpc, process, agent, evidence>>

(* The helper ends by itself, or with the context of its command: the      *)
(* trust has a timer of 30 seconds, the gateway runs under the case's.     *)
HelperEnds ==
  /\ helper = "running"
  /\ helper' \in {"left", "killed"}
  /\ UNCHANGED <<harness, plan, stage, settings, rpc, process, agent, outcome, evidence>>

TrustTimesOut ==
  /\ stage = "trust" /\ helper = "running"
  /\ helper' = "killed"
  /\ UNCHANGED <<harness, plan, stage, settings, rpc, process, agent, outcome, evidence>>
-----------------------------------------------------------------------------
(* RunCLI (cli.go, runCLIContext) and runPiRPC.                            *)
Launch ==
  /\ stage = "run" /\ proc = "none"
  /\ \/ /\ expired = "no"
        /\ proc' = "running" /\ UNCHANGED exit
     \/ proc' = "exited" /\ exit' = 127
  /\ runs' = runs + 1 /\ from' = Len(log) + 1
  /\ UNCHANGED <<harness, plan, stage, settings, aside, expired, agent, outcome, evidence>>

(* The agent's part.  An event is a call, its result or something it says. *)
Event(kind, c, t, end, long) ==
  [kind |-> kind, id |-> c, tool |-> t, end |-> end, long |-> long]

Appears(kind, c, t, end, long) ==
  /\ Len(log) < MaxLog
  /\ log' = Append(log, Event(kind, c, t, end, long))

AgentMoves ==
  /\ proc = "running"
  /\ UNCHANGED <<harness, plan, stage, settings, aside, expired, runs, from, outcome, evidence>>

(* opencode writes a tool_use event only when the call has ended.          *)
CallStarts(c, t) ==
  /\ AgentMoves
  /\ did[c].tool = "none" /\ \A b \in 1..(c - 1) : did[b].tool # "none"
  /\ did' = [did EXCEPT ![c].tool = t]
  /\ IF harness = "opencode" THEN Len(log) < MaxLog /\ UNCHANGED log
     ELSE Appears("call", c, t, "none", FALSE)
  /\ UNCHANGED <<proc, exit, stdin>>

CallEnds(c, end, long) ==
  /\ AgentMoves
  /\ c \in Open /\ (long => end = "ok")
  /\ did' = [did EXCEPT ![c].end = end]
  /\ Appears("result", c, did[c].tool, end, long)
  /\ UNCHANGED <<proc, exit, stdin>>

Heard(s, kind) == \E e \in Range(s) : e.kind = kind

Signals ==
  CASE harness = "codex" -> {"reply", "limit"}
    [] harness = "hermes" -> {"reply", "session"}
    [] harness = "openclaw" -> IF plan.compact THEN {"compacted"} ELSE {"reply", "stop"}
    [] harness = "pi" ->
         {"reply", "settled", "extension_error"}
           \cup IF rpc = "compact" THEN {"compacted", "refused", "compaction_end", "aborted"} ELSE {}
    [] OTHER -> {"reply"}

(* runPiRPC answers pi's events: it asks for the compaction when the agent *)
(* has settled, and closes the input after that, or at once without one.   *)
Says(x) ==
  /\ AgentMoves
  /\ x \in Signals /\ ~Heard(SubSeq(log, from, Len(log)), x)
  /\ x \notin {"reply", "limit"} => Open = {}
  /\ Appears(x, "none", "none", "none", FALSE)
  /\ stdin' = IF \/ x = "settled" /\ ~plan.compact
                 \/ x \in {"compacted", "refused"}
              THEN "closed" ELSE stdin
  /\ UNCHANGED <<did, proc, exit>>

(* A harness ends its turn by itself when none of its calls is open; pi    *)
(* stays until its input is closed.                                        *)
Exits(code) ==
  /\ AgentMoves
  /\ Open = {}
  /\ harness = "pi" /\ code = 0 => stdin = "closed"
  /\ proc' = "exited" /\ exit' = code
  /\ UNCHANGED agent

PiAsks ==
  /\ harness = "pi" /\ plan.compact /\ proc = "running" /\ rpc = "none"
  /\ \E i \in DOMAIN log : log[i].kind = "settled"
  /\ rpc' = "compact"
  /\ UNCHANGED <<harness, plan, stage, settings, helper, process, agent, outcome, evidence>>

Agent ==
  \/ \E c \in Calls : \/ \E t \in Tools : CallStarts(c, t)
                      \/ \E end \in Statuses, long \in BOOLEAN : CallEnds(c, end, long)
  \/ \E x \in Signals : Says(x)
  \/ \E code \in {0, 1} : Exits(code)

(* The timeout of the command or the end of the case's context kills the   *)
(* whole process group; either can still come when the process has ended.  *)
ExpireKept == UNCHANGED proc
ExpireKills == proc' = IF proc = "running" THEN "killed" ELSE proc

Expire ==
  /\ stage = "run" /\ proc \in {"running", "exited"} /\ expired = "no"
  /\ expired' \in {"deadline", "canceled"}
  /\ ExpireKills
  /\ UNCHANGED <<harness, plan, stage, settings, aside, exit, runs, from, agent, outcome, evidence>>

ExitCodeOfProcess == IF proc = "killed" THEN 1 ELSE exit
ExitCode ==
  IF expired = "deadline" \/ (harness = "pi" /\ expired # "no") THEN 124
  ELSE ExitCodeOfProcess
-----------------------------------------------------------------------------
(* Reading a transcript.  codex, claude and opencode read their lines with *)
(* a bufio.Scanner of the default size, which stops at the first line that *)
(* is longer than 64 KiB; so does pi's list of attempted tools.  openclaw  *)
(* decodes a stream of JSON values and hermes the rows of a database.      *)
Lines(s) ==
  LET overlong == {i \in DOMAIN s : s[i].long}
  IN  IF overlong = {} THEN s
      ELSE SubSeq(s, 1, (CHOOSE i \in overlong : \A j \in overlong : i <= j) - 1)

Transcript == IF harness \in {"codex", "claude", "opencode"} THEN Lines(log) ELSE log
LastRun == LET s == SubSeq(log, from, Len(log))
           IN  IF harness \in {"claude", "opencode"} THEN Lines(s) ELSE s

(* parsePiRun: the last compaction_end counts, and the response as well.   *)
Compacted ==
  IF harness # "pi" THEN Heard(log, "compacted")
  ELSE /\ Heard(log, "compacted")
       /\ \E i \in DOMAIN log :
            /\ log[i].kind = "compaction_end"
            /\ \A j \in (i + 1)..Len(log) : log[j].kind # "aborted"

(* What each adapter makes of a run.  "error" is neither a gate failure    *)
(* nor a configuration error.                                              *)
CodexResult ==
  IF Heard(Transcript, "limit") THEN "error"
  ELSE IF exit # 0 \/ ~Heard(LastRun, "reply") THEN "gate" ELSE "ok"
ClaudeResult == IF exit # 0 \/ ~Heard(LastRun, "reply") THEN "gate" ELSE "ok"
OpenCodeResult ==
  IF exit # 0 \/ ~(Heard(LastRun, "reply") \/ plan.silent) THEN "gate" ELSE "ok"
PiResult ==
  IF \/ exit # 0 \/ Heard(log, "extension_error") \/ ~Heard(log, "reply")
     \/ plan.compact /\ ~Compacted
  THEN "gate" ELSE "ok"
HermesResult ==
  IF exit # 0 \/ ~Heard(log, "reply") \/ ~Heard(log, "session") THEN "gate" ELSE "ok"
OpenClawResult ==
  IF exit # 0 THEN "gate"
  ELSE IF plan.compact THEN (IF Compacted THEN "ok" ELSE "gate")
  ELSE IF Heard(log, "stop") /\ Heard(log, "reply") THEN "ok" ELSE "gate"

Result ==
  CASE harness = "codex" -> CodexResult
    [] harness = "claude" -> ClaudeResult
    [] harness = "opencode" -> OpenCodeResult
    [] harness = "pi" -> PiResult
    [] harness = "hermes" -> HermesResult
    [] OTHER -> OpenClawResult

(* opencode runs again when a run ended well without a reply.              *)
RunsAgain ==
  harness = "opencode" /\ ExitCode = 0 /\ ~Heard(LastRun, "reply") /\ runs <= plan.retries

RunReturns ==
  /\ stage = "run" /\ proc \in {"exited", "killed"}
  /\ exit' = ExitCode /\ proc' = "none"
  /\ IF RunsAgain THEN UNCHANGED <<stage, outcome>> ELSE Proceed
  /\ UNCHANGED <<harness, plan, settings, aside, expired, runs, from, agent, evidence>>

Reply ==
  /\ stage = "reply"
  /\ IF Result = "ok" THEN Proceed ELSE FailWith(Result)
  /\ UNCHANGED <<harness, plan, settings, aside, process, agent, evidence>>
-----------------------------------------------------------------------------
(* The evidence operators: the tools with a successful result, and the     *)
(* tools that were at least attempted.                                     *)
ToolsOf(s, kinds) == {e.tool : e \in {x \in Range(s) : x.kind \in kinds}}

(* codex: one item per call that carries its status and its result.        *)
CodexCompleted ==
  {e.tool : e \in {x \in Range(Transcript) : x.kind = "result" /\ x.end = "ok"}} \cap OvTools
CodexObserved == ToolsOf(Transcript, {"call", "result"}) \cap OvTools

(* claude: a tool_result is joined with the tool_use before it by its id.  *)
Joined(s, i) ==
  \E j \in 1..i : s[j].kind = "call" /\ s[j].id = s[i].id /\ s[j].tool \in OvTools
ClaudeCompletedAnyResult ==
  {Transcript[i].tool : i \in {k \in DOMAIN Transcript :
     Transcript[k].kind = "result" /\ Joined(Transcript, k)}}
ClaudeCompleted ==
  {Transcript[i].tool : i \in {k \in DOMAIN Transcript :
     /\ Transcript[k].kind = "result" /\ Transcript[k].end = "ok"
     /\ Joined(Transcript, k)}}
ClaudeObserved == ToolsOf(Transcript, {"call"})

OpenCodeCompleted ==
  {e.tool : e \in {x \in Range(Transcript) : x.kind = "result" /\ x.end = "ok"}} \cap OvTools
OpenCodeObserved == ToolsOf(Transcript, {"result"}) \cap OvTools

(* hermes: the calls of all rows first, then the results; only viking_*    *)
(* names are entered in either set.                                        *)
HermesCompleted ==
  {e.tool : e \in {x \in Range(log) : x.kind = "result" /\ x.end = "ok"}} \cap OvTools
HermesObserved == ToolsOf(log, {"call"}) \cap OvTools

(* openclaw: a result counts for the tool its call was for.                *)
OpenClawCompleted ==
  {log[i].tool : i \in {k \in DOMAIN log :
     /\ log[k].kind = "result" /\ log[k].end = "ok"
     /\ \E j \in 1..k : log[j] = Event("call", log[k].id, log[k].tool, "none", FALSE)}}
OpenClawObserved == ToolsOf(log, {"call"})

PiCompleted ==
  {e.tool : e \in {x \in Range(log) : x.kind = "result" /\ x.end = "ok"}} \cap OvTools
PiObserved == ToolsOf(Lines(log), {"call", "result"})

Completed ==
  CASE harness = "codex" -> CodexCompleted
    [] harness = "claude" -> ClaudeCompleted
    [] harness = "opencode" -> OpenCodeCompleted
    [] harness = "pi" -> PiCompleted
    [] harness = "hermes" -> HermesCompleted
    [] OTHER -> OpenClawCompleted

Observed ==
  CASE harness = "codex" -> CodexObserved
    [] harness = "claude" -> ClaudeObserved
    [] harness = "opencode" -> OpenCodeObserved
    [] harness = "pi" -> PiObserved
    [] harness = "hermes" -> HermesObserved
    [] OTHER -> OpenClawObserved

Accepts(p) ==
  /\ p.any => Observed = {}
  /\ p.expect \subseteq Completed
  /\ p.forbid \cap Observed = {}

(* What the cases ask for: a policy that forbids every tool for claude and *)
(* pi, no single tool of pi, and a tool that is not OpenViking's only for  *)
(* hermes.                                                                 *)
Check ==
  /\ outcome = "ok" /\ verdict = "none" /\ (harness = "openclaw" => ~plan.compact)
  /\ policy' \in {p \in Policies : /\ p.any => harness \in {"claude", "pi"}
                                   /\ harness = "pi" => p.forbid = {}
                                   /\ p.forbid \subseteq OvTools \/ harness = "hermes"}
  /\ \/ verdict' = IF Accepts(policy') THEN "ok" ELSE "refused"
     \/ harness \in {"hermes", "openclaw"} /\ verdict' = "config"
  /\ UNCHANGED <<harness, plan, stage, settings, aside, process, agent, outcome>>
-----------------------------------------------------------------------------
TurnDone == stage = "end" /\ UNCHANGED turnVars

Operator ==
  \/ PrepareStep \/ ResolveStep \/ TrustStarts \/ TrustAnswers \/ TrustEnds
  \/ GatewayStarts \/ GatewayAnswers \/ GatewayStops
  \/ Launch \/ PiAsks \/ RunReturns \/ Reply \/ Check

TurnNext == Operator \/ HelperEnds \/ TrustTimesOut \/ Agent \/ Expire \/ TurnDone

(* The operator's own code runs on, and the timers fire: the 30 seconds of *)
(* the trust and the timeout of the command.  Nothing is asked of the      *)
(* agent or the helper.                                                    *)
TurnFairness ==
  /\ WF_turnVars(PrepareStep) /\ WF_turnVars(ResolveStep) /\ WF_turnVars(TrustStarts) /\ WF_turnVars(TrustEnds)
  /\ WF_turnVars(TrustTimesOut)
  /\ WF_turnVars(GatewayStarts) /\ WF_turnVars(GatewayAnswers) /\ WF_turnVars(GatewayStops)
  /\ WF_turnVars(Launch) /\ WF_turnVars(RunReturns) /\ WF_turnVars(Reply)
  /\ WF_turnVars(Expire)

TurnSpec == TurnInit /\ [][TurnNext]_turnVars /\ TurnFairness
=============================================================================
