--------------------------- MODULE CaseCatalogProps ---------------------------
(***************************************************************************)
(* What a passed case stands for, and what a case leaves behind.           *)
(***************************************************************************)
EXTENDS CaseCatalog

(* The References of the cases, as data.  Tools that were not asked for    *)
(* are `banned`: those of OpenViking, so that only the plugin can have     *)
(* brought the fact there, or all; the reply rests on recalled context, or *)
(* on the conversation where that goes on; `tools` have to succeed; what   *)
(* was said in `extracted` became memories; one of each of `things` has to *)
(* be found; the one exact memory is forgotten, and what was `removed` is  *)
(* not found again.                                                        *)
Nothing ==
  [banned |-> "nothing", bases |-> {}, tools |-> {}, extracted |-> {}, things |-> {},
   forgotten |-> FALSE, removed |-> {}]

ToolMemory == <<"memory", "tool">>
Local == <<"resource", "local">>
Remote == <<"resource", "remote">>
Leftover(what) == <<"leftover", what>>
MemoriesOf(convs) == {<<"memory", c>> : c \in convs}

FromSessions(convs) ==
  [Nothing EXCEPT !.extracted = convs, !.things = {MemoriesOf({c}) : c \in convs}]
Automatic(calls) ==
  [FromSessions({"captured"}) EXCEPT !.banned = calls, !.bases = {"context"}]
Flow(tools, memories) ==
  [Nothing EXCEPT !.tools = tools, !.things = {{Remote}, {Local}, memories}, !.forgotten = TRUE]
McpTools ==
  {"health", "remember", "find", "search", "read", "add_resource", "list", "grep", "glob", "forget"}

(* A memory of the facts that carry no mark of this run, or one left over. *)
AnyMemory(convs) == MemoriesOf(convs) \cup {Leftover("memory")}

Reference ==
  [ServiceBaseline |-> [FromSessions({"baseline"}) EXCEPT
     !.things = {MemoriesOf({"baseline"}), {Local}}, !.removed = {<<"memory", "baseline">>, Local}],
   MemoryUpdate |-> FromSessions({"dialogue"}),
   ExperienceLearning |-> LET told == {"first", "second", "third"} IN
     [Nothing EXCEPT !.extracted = told, !.things = {AnyMemory(told)}],
   NegativeRecall |-> FromSessions({"facts"}), RetrievalPrecision |-> FromSessions({"schedule"}),
   MemoryCJK |-> FromSessions({"cjk"}),
   MemoryFromSession |-> [Nothing EXCEPT
     !.extracted = {"conversation"}, !.things = {AnyMemory({"conversation"})}],
   MemoryDirect |-> [Nothing EXCEPT !.things = {AnyMemory({"first", "second", "third"})}],
   SearchCompare |-> [Nothing EXCEPT
     !.things = {AnyMemory({"first", "second", "third", "fourth", "fifth", "sixth"})}],
   ForgetGhost |-> [Nothing EXCEPT
     !.things = {MemoriesOf({"first"})}, !.removed = MemoriesOf({"first"})],
   OpenClawAutomatic |-> Automatic("openviking"),
   OpenClawTools |-> Flow(
     {"memory_store", "memory_recall", "ov_search", "ov_read", "add_resource", "memory_forget"},
     {ToolMemory}),
   OpenClawCompaction |-> [Automatic("openviking") EXCEPT !.bases = {"context", "history"}],
   HermesAutomatic |-> Automatic("openviking"),
   HermesTools |-> Flow(
     {"viking_remember", "viking_browse", "viking_search", "viking_read", "viking_add_resource",
      "viking_forget"}, {ToolMemory, <<"memory", "workflow">>}),
   CodexAutomatic |-> Automatic("openviking"), CodexTools |-> Flow(McpTools, {ToolMemory}),
   ClaudeAutomatic |-> Automatic("any"), ClaudeTools |-> Flow(McpTools, {ToolMemory}),
   ClaudeSubagent |-> [Nothing EXCEPT
     !.banned = "openviking", !.tools = {"SubagentStart", "SubagentStop"},
     !.extracted = {"child"}, !.things = {MemoriesOf({"parent", "child"})}],
   OpenCodeAutomatic |-> Automatic("openviking"),
   OpenCodeTools |-> Flow(
     {"remember", "find", "search", "add_resource", "list", "glob", "forget"}, {ToolMemory}),
   PiAutomatic |-> Automatic("any"),
   PiTools |-> [Flow(
     {"viking_remember", "viking_search", "viking_read", "viking_browse", "viking_archive_expand",
      "viking_add_resource", "viking_forget"}, {}) EXCEPT
     !.extracted = {"remembered"},
     !.things = {{<<"memory", "remembered">>, ToolMemory}, {Remote, Leftover("remote")}}],
   PiTakeover |-> [Automatic("any") EXCEPT !.tools = {"compaction"}]]

Turns == DOMAIN turn
Did == UNION {ToolsOf(n) : n \in Turns}

(* A turn called another tool than those of OpenViking, a shell say.  A    *)
(* ban of the tools of OpenViking does not see what it did there.          *)
WentAround == \E n \in Turns : turn[n].stray = "other"

(* A case passes only if what its Reference asks for really happened on    *)
(* the way: with an agent that skips jobs, calls tools of its own or       *)
(* answers from elsewhere, a server that extracts and indexes at its own   *)
(* pace or not at all or goes on finding what it removed, and the same     *)
(* facts left over from earlier runs, no order of events gets a run        *)
(* through the workflow without it.  What the code cannot tell is in the   *)
(* formula: where only the tools of OpenViking are banned, an agent that   *)
(* went around them may have written the memory and answered from there;   *)
(* facts without a mark of this run, pi's remote resource among them, may  *)
(* be left over from another; the prompt of the subagent case tells the    *)
(* fact to parent and child alike, so the memory of either is taken for    *)
(* the child's.                                                            *)
PassIsEarned ==
  result = "passed" =>
    LET r == Reference[case]
        unseen == r.banned = "openviking" /\ WentAround
        seen == ever \cup {Leftover(what) : what \in leftovers}
        extra(it) == IF unseen THEN {it} ELSE {}
    IN
    /\ r.banned # "nothing" => \A n \in Turns : turn[n].stray # "openviking"
    /\ r.banned = "any" => ~WentAround
    /\ r.banned # "nothing" /\ ToolMemory \in ever => unseen
    /\ r.bases # {} => \E n \in Turns : graph[n].recalls /\ turn[n].basis \in r.bases \cup extra("tool")
    /\ r.tools \subseteq Did
    /\ \A c \in r.extracted : session[c] = "extracted"
    /\ \A alternatives \in r.things : (alternatives \cup extra(ToolMemory)) \cap seen # {}
    /\ r.forgotten => uri[1] = "memory" /\ uri \notin present
    /\ r.removed \cap present = {}

(* What a passed case of the release suites is known to leave unclaimed:   *)
(* hermes sends the session of every turn to OpenViking, and what is       *)
(* extracted from it may be taken for the memory its tool wrote; the       *)
(* parent agent of the subagent case has memories of its own; pi's         *)
(* resource has no URI of this run, and its agent may remember twice.      *)
KnownLeft(c) ==
  CASE c = "HermesAutomatic" -> {<<"session", "recall">>, <<"memory", "recall">>}
    [] c = "HermesTools" ->
         ({"session", "memory"} \X {"workflow", "forget"}) \cup {ToolMemory}
    [] c = "ClaudeSubagent" -> {<<"memory", "parent">>}
    [] c = "PiTools" -> {<<"resource", "remote">>, ToolMemory}
    [] OTHER -> {}

(* The cleanup of a server that stays: no case, passed or failed, claims   *)
(* anything another run left; a passed case of the release suites has      *)
(* claimed all that is left of it, although its searches claim only some   *)
(* of what they see, unless its agent went around the tools of OpenViking; *)
(* and after the cleanup nothing claimed is left but what could not be     *)
(* deleted.                                                                *)
ClaimsExact ==
  /\ \A t \in claimed : t[1] # "leftover"
  /\ result = "passed" /\ case \in Suite.openviking =>
       present \subseteq claimed \cup KnownLeft(case) \cup (IF WentAround THEN {ToolMemory} ELSE {})
  /\ Over => claimed \cap present \subseteq stuck

(* With an agent and a server that behave no case fails, whatever the pace *)
(* of the server: no node looks before what it looks for is due, and no    *)
(* turn meets another one in its directory.  (That a run gets to its end   *)
(* is the check for deadlocks.)                                            *)
GoodRunPasses == ~faults => result # "failed"
=============================================================================
