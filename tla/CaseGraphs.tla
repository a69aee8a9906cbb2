----------------------------- MODULE CaseGraphs -----------------------------
(***************************************************************************)
(* The workflows of the release suites (cases/): one definition per case,  *)
(* each a function from the names of its nodes to what the node does and   *)
(* which nodes it comes after.  A data edge between two nodes (a           *)
(* transcript, a session id, a URI) orders them like an "after" edge, so   *)
(* `after` holds both.  The user node, a constant, is left out.            *)
(*                                                                         *)
(* A prompt is the set of jobs it gives the agent: the tool to call and    *)
(* the thing it is about.  Texts, timeouts and retry counts are left out;  *)
(* whether a search names the nonce or the URI of this very run, and       *)
(* whether it claims what it finds, are kept.                              *)
(***************************************************************************)
EXTENDS FiniteSets

(* A node, with every field any operator uses.                             *)
Node(op, after) ==
  [op |-> op, after |-> after,
   dir |-> "none", jobs |-> {}, captures |-> {}, commits |-> "end of turn", recalls |-> FALSE,
   continues |-> {}, of |-> "none", expect |-> {}, forbid |-> "nothing", conv |-> "none",
   what |-> "none", named |-> TRUE, claim |-> FALSE, gone |-> FALSE]

Jobs(tools) == tools \X {"none"}
AddBoth == {"add_resource"} \X {"remote", "local"}
AddRemote == {<<"add_resource", "remote">>}
AddLocal == {<<"add_resource", "local">>}
Remember(tool) == {<<tool, "memory">>}
Forget(tool) == {<<tool, "forget">>}

(* A turn of the agent: its state directory, its jobs, the conversations   *)
(* the plugin captures and what makes the plugin commit them, and whether  *)
(* the context is recalled automatically.                                  *)
Turn(after, dir, jobs) == [Node("Turn", after) EXCEPT !.dir = dir, !.jobs = jobs]
Captured(turn, convs) == [turn EXCEPT !.captures = convs]
CapturedUntil(turn, convs, event) == [turn EXCEPT !.captures = convs, !.commits = event]
Recalling(turn) == [turn EXCEPT !.recalls = TRUE]

(* The evidence of one turn: tools that succeeded; and what must not be    *)
(* called.  `forbid_any_tool` refuses every call, `forbid_tools` only the  *)
(* OpenViking tools it lists: a shell passes.                              *)
Evidence(turn, tools) == [Node("Evidence", {turn}) EXCEPT !.of = turn, !.expect = tools]
Forbidding(evidence, calls) == [evidence EXCEPT !.forbid = calls]
NoTools(turn) == Forbidding(Evidence(turn, {}), "any")
NoOpenViking(turn) == Forbidding(Evidence(turn, {}), "openviking")

Command(after) == Node("Command", after)
Compact(after, turn) == [Node("Compact", after \cup {turn}) EXCEPT !.of = turn]
Wait(after) == Node("Wait", after)
SessionCommitted(after, turn, conv) ==
  [Node("SessionCommitted", after \cup {turn}) EXCEPT !.conv = conv]
SessionPresent(after, turn, conv) == [Node("SessionPresent", after \cup {turn}) EXCEPT !.conv = conv]

(* A search: what for, by this run's own mark or not, claiming it or not,  *)
(* and until it is found or until it is gone.                              *)
FindUnclaimed(after, what) == [Node("Find", after) EXCEPT !.what = what]
Find(after, what) == [FindUnclaimed(after, what) EXCEPT !.claim = TRUE]
FindAnyones(after, what) == [FindUnclaimed(after, what) EXCEPT !.named = FALSE]
FindGone(after, what) == [FindUnclaimed(after, what) EXCEPT !.gone = TRUE]

MemoryURI(find) == [Node("MemoryURI", {find}) EXCEPT !.of = find]
URIAbsent(uri, after) == Node("URIAbsent", {uri} \cup after)
Text(turn, after) == [Node("Text", {turn} \cup after) EXCEPT !.of = turn]
Check(after) == Node("Check", after)
Judge(after) == Node("Judge", after)

SessionNew(after, conv) == [Node("SessionNew", after) EXCEPT !.conv = conv]
AddMessages(session, after, conv) == [Node("AddMessages", {session} \cup after) EXCEPT !.conv = conv]
SessionCommit(session, after, conv, added) ==
  [Node("SessionCommit", {session} \cup after) EXCEPT !.conv = conv, !.claim = added]
AddResource(after) == Node("AddResource", after)
AddMemory(after, fact) == [Node("AddMemory", after) EXCEPT !.conv = fact]
Search(after) == Node("Search", after)
RemoveFound(find) == [Node("Remove", {find}) EXCEPT !.of = find]
RemoveTree(after, what) == [Node("Remove", after) EXCEPT !.what = what]
-----------------------------------------------------------------------------
(* Codex: only the startup of the next codex with the same state directory *)
(* commits what was captured.                                              *)
CodexAutomatic ==
  [openviking_health |-> Command({}),
   chat_capture |-> CapturedUntil(Turn({"openviking_health"}, "plugin", {}), {"captured"}, "next startup"),
   capture_no_tool_bypass |-> NoOpenViking("chat_capture"),
   chat_commit_trigger |-> Turn({"capture_no_tool_bypass"}, "plugin", {}),
   trigger_no_tool_bypass |-> NoOpenViking("chat_commit_trigger"),
   verify_captured_session |-> SessionCommitted({"trigger_no_tool_bypass"}, "chat_capture", "captured"),
   find_extracted_memory |-> Find({"verify_captured_session"}, "memory"),
   chat_recall |-> Recalling(Turn({"find_extracted_memory"}, "plugin", {})),
   recall_no_tool_bypass |-> NoOpenViking("chat_recall"),
   reply_check |-> Text("chat_recall", {"find_extracted_memory", "recall_no_tool_bypass"})]

CodexTools ==
  [openviking_health |-> Command({}),
   chat_mcp_submit |-> Turn({"openviking_health"}, "plugin",
      Jobs({"health", "find", "search", "read"}) \cup Remember("remember") \cup AddBoth),
   mcp_submit_evidence |-> Evidence("chat_mcp_submit",
      {"health", "remember", "find", "search", "read", "add_resource"}),
   find_memory_before_forget |-> Find({"mcp_submit_evidence"}, "memory"),
   exact_memory_uri |-> MemoryURI("find_memory_before_forget"),
   wait_for_resource_ingestion |-> Wait({"mcp_submit_evidence", "exact_memory_uri"}),
   find_remote_resource |-> Find({"wait_for_resource_ingestion"}, "remote"),
   find_local_resource |-> Find({"wait_for_resource_ingestion"}, "local"),
   chat_mcp_resource_tools |-> Turn({"find_remote_resource", "find_local_resource"}, "plugin",
      Jobs({"search", "read", "list", "grep", "glob"})),
   mcp_resource_tool_evidence |-> Evidence("chat_mcp_resource_tools",
      {"search", "read", "list", "grep", "glob"}),
   chat_mcp_forget_exact_uri |-> Turn({"exact_memory_uri", "mcp_resource_tool_evidence"}, "plugin",
      Forget("forget")),
   mcp_forget_evidence |-> Evidence("chat_mcp_forget_exact_uri", {"forget"}),
   find_forgotten_memory |-> URIAbsent("exact_memory_uri", {"mcp_forget_evidence"}),
   evidence_check |-> Check({"mcp_submit_evidence", "mcp_resource_tool_evidence",
      "find_memory_before_forget", "mcp_forget_evidence", "find_remote_resource",
      "find_local_resource", "find_forgotten_memory"})]

ClaudeAutomatic ==
  [openviking_health |-> Command({}),
   chat_capture |-> Captured(Turn({"openviking_health"}, "plugin", {}), {"captured"}),
   capture_no_tool_bypass |-> NoTools("chat_capture"),
   verify_captured_session |-> SessionCommitted({"capture_no_tool_bypass"}, "chat_capture", "captured"),
   find_extracted_memory |-> Find({"verify_captured_session"}, "memory"),
   chat_recall |-> Recalling(Turn({"find_extracted_memory"}, "plugin", {})),
   recall_no_tool_bypass |-> NoTools("chat_recall"),
   reply_check |-> Text("chat_recall", {"find_extracted_memory", "recall_no_tool_bypass"})]

(* One turn leaves two conversations: the parent's and the child agent's.  *)
(* The hooks of the child show in its transcript like tools.               *)
ClaudeSubagent ==
  [run_child_agent |-> Captured(Turn({}, "plugin", Jobs({"SubagentStart", "SubagentStop"})),
      {"parent", "child"}),
   subagent_hook_evidence |->
      Forbidding(Evidence("run_child_agent", {"SubagentStart", "SubagentStop"}), "openviking"),
   wait_for_child_commit |-> Wait({"subagent_hook_evidence"}),
   verify_parent_session |-> SessionPresent({"subagent_hook_evidence"}, "run_child_agent", "parent"),
   verify_child_session |-> SessionCommitted({"wait_for_child_commit"}, "run_child_agent", "child"),
   find_child_memory |-> Find({"verify_child_session"}, "memory"),
   evidence_check |-> Check({"subagent_hook_evidence", "verify_parent_session",
      "verify_child_session", "find_child_memory"})]

ClaudeTools ==
  [openviking_health |-> Command({}),
   chat_mcp_tools |-> Turn({"openviking_health"}, "plugin",
      Jobs({"health", "find", "search", "read", "list", "grep", "glob"})
        \cup Remember("remember") \cup AddBoth),
   mcp_tool_evidence |-> Evidence("chat_mcp_tools",
      {"health", "remember", "find", "search", "read", "add_resource", "list", "grep", "glob"}),
   find_memory_before_forget |-> Find({"mcp_tool_evidence"}, "memory"),
   exact_memory_uri |-> MemoryURI("find_memory_before_forget"),
   wait_for_resource_ingestion |-> Wait({"mcp_tool_evidence", "exact_memory_uri"}),
   find_remote_resource |-> Find({"wait_for_resource_ingestion"}, "remote"),
   find_local_resource |-> Find({"wait_for_resource_ingestion"}, "local"),
   chat_mcp_forget_exact_uri |-> Turn(
      {"exact_memory_uri", "find_remote_resource", "find_local_resource"}, "plugin", Forget("forget")),
   mcp_forget_evidence |-> Evidence("chat_mcp_forget_exact_uri", {"forget"}),
   find_forgotten_memory |-> URIAbsent("exact_memory_uri", {"mcp_forget_evidence"}),
   evidence_check |-> Check({"mcp_tool_evidence", "find_memory_before_forget", "mcp_forget_evidence",
      "find_remote_resource", "find_local_resource", "find_forgotten_memory"})]
-----------------------------------------------------------------------------
(* OpenCode and OpenClaw look for the two preferences one by one; the      *)
(* colour is looked for without this run's mark.                           *)
OpenCodeAutomatic ==
  [openviking_health |-> Command({}),
   chat_capture |-> Captured(Turn({"openviking_health"}, "plugin", {}), {"captured"}),
   capture_no_tool_bypass |-> NoOpenViking("chat_capture"),
   verify_captured_session |-> SessionCommitted({"capture_no_tool_bypass"}, "chat_capture", "captured"),
   find_extracted_alias |-> Find({"verify_captured_session"}, "memory"),
   find_extracted_color |-> FindAnyones({"verify_captured_session"}, "memory"),
   chat_recall |-> Recalling(Turn({"find_extracted_alias", "find_extracted_color"}, "plugin", {})),
   recall_no_tool_bypass |-> NoOpenViking("chat_recall"),
   reply_check |-> Text("chat_recall",
      {"find_extracted_alias", "find_extracted_color", "recall_no_tool_bypass"})]

OpenCodeTools ==
  [openviking_health |-> Command({}),
   chat_mcp_memory |-> Turn({"openviking_health"}, "plugin",
      Jobs({"find", "search"}) \cup Remember("remember")),
   mcp_memory_evidence |-> Evidence("chat_mcp_memory", {"remember", "find", "search"}),
   chat_mcp_local_resource |-> Turn({"mcp_memory_evidence"}, "plugin", AddLocal),
   mcp_local_resource_evidence |-> Evidence("chat_mcp_local_resource", {"add_resource"}),
   chat_mcp_remote_resource |-> Turn({"mcp_local_resource_evidence"}, "plugin",
      Jobs({"search", "list", "glob"}) \cup AddRemote),
   mcp_remote_resource_evidence |-> Evidence("chat_mcp_remote_resource",
      {"add_resource", "search", "list", "glob"}),
   find_memory_before_forget |-> Find({"mcp_memory_evidence"}, "memory"),
   exact_memory_uri |-> MemoryURI("find_memory_before_forget"),
   wait_for_resource_ingestion |-> Wait(
      {"mcp_local_resource_evidence", "mcp_remote_resource_evidence", "exact_memory_uri"}),
   find_remote_resource |-> Find({"wait_for_resource_ingestion"}, "remote"),
   find_local_resource |-> Find({"wait_for_resource_ingestion"}, "local"),
   chat_mcp_forget_exact_uri |-> Turn(
      {"exact_memory_uri", "find_remote_resource", "find_local_resource"}, "plugin", Forget("forget")),
   mcp_forget_evidence |-> Evidence("chat_mcp_forget_exact_uri", {"forget"}),
   find_forgotten_memory |-> URIAbsent("exact_memory_uri", {"mcp_forget_evidence"}),
   evidence_check |-> Check({"mcp_memory_evidence", "mcp_local_resource_evidence",
      "mcp_remote_resource_evidence", "find_memory_before_forget", "mcp_forget_evidence",
      "find_remote_resource", "find_local_resource", "find_forgotten_memory"})]

OpenClawAutomatic ==
  [chat_capture |-> Captured(Turn({}, "state", {}), {"captured"}),
   capture_no_tool_bypass |-> NoOpenViking("chat_capture"),
   verify_captured_session |-> SessionCommitted({"capture_no_tool_bypass"}, "chat_capture", "captured"),
   find_extracted_alias |-> FindUnclaimed({"verify_captured_session"}, "memory"),
   find_extracted_color |-> FindAnyones({"verify_captured_session"}, "memory"),
   chat_recall |-> Recalling(Turn({"find_extracted_alias", "find_extracted_color"}, "state", {})),
   recall_no_tool_bypass |-> NoOpenViking("chat_recall"),
   reply_check |-> Text("chat_recall",
      {"find_extracted_alias", "find_extracted_color", "recall_no_tool_bypass"})]

OpenClawTools ==
  [chat_memory_store |-> Turn({}, "state", Remember("memory_store")),
   memory_store_evidence |-> Evidence("chat_memory_store", {"memory_store"}),
   find_memory_before_forget |-> Find({"memory_store_evidence"}, "memory"),
   exact_memory_uri |-> MemoryURI("find_memory_before_forget"),
   chat_memory_recall |-> Turn({"exact_memory_uri"}, "state", Jobs({"memory_recall"})),
   memory_recall_evidence |-> Evidence("chat_memory_recall", {"memory_recall"}),
   chat_memory_search |-> Turn({"memory_recall_evidence"}, "state", Jobs({"ov_search"})),
   memory_search_evidence |-> Evidence("chat_memory_search", {"ov_search"}),
   chat_memory_read |-> Turn({"exact_memory_uri", "memory_search_evidence"}, "state", Jobs({"ov_read"})),
   memory_read_evidence |-> Evidence("chat_memory_read", {"ov_read"}),
   chat_local_resource |-> Turn({"memory_read_evidence"}, "state", AddLocal),
   local_resource_evidence |-> Evidence("chat_local_resource", {"add_resource"}),
   chat_remote_resource |-> Turn({"local_resource_evidence"}, "state", AddRemote),
   remote_resource_evidence |-> Evidence("chat_remote_resource", {"add_resource"}),
   find_local_resource |-> Find({"local_resource_evidence"}, "local"),
   find_remote_resource |-> Find({"remote_resource_evidence"}, "remote"),
   chat_forget_exact_uri |-> Turn(
      {"exact_memory_uri", "find_local_resource", "find_remote_resource"}, "state",
      Forget("memory_forget")),
   forget_evidence |-> Evidence("chat_forget_exact_uri", {"memory_forget"}),
   find_memory_after_forget |-> URIAbsent("exact_memory_uri", {"forget_evidence"}),
   evidence_check |-> Check({"memory_store_evidence", "memory_recall_evidence",
      "memory_search_evidence", "memory_read_evidence", "local_resource_evidence",
      "remote_resource_evidence", "find_memory_before_forget", "find_local_resource",
      "find_remote_resource", "forget_evidence", "find_memory_after_forget"})]

(* The recall continues the conversation that was compacted.               *)
OpenClawCompaction ==
  [chat_capture |-> CapturedUntil(Turn({}, "state", {}), {"captured"}, "compaction"),
   capture_no_tool_bypass |-> NoOpenViking("chat_capture"),
   compact_session |-> Compact({"capture_no_tool_bypass"}, "chat_capture"),
   verify_compacted_session |-> SessionCommitted({"compact_session"}, "chat_capture", "captured"),
   find_compacted_memory |-> Find({"verify_compacted_session"}, "memory"),
   chat_after_compaction |-> [Recalling(Turn({"find_compacted_memory"}, "state", {}))
      EXCEPT !.continues = {"chat_capture"}],
   recall_no_tool_bypass |-> NoOpenViking("chat_after_compaction"),
   reply_check |-> Text("chat_after_compaction",
      {"compact_session", "find_compacted_memory", "recall_no_tool_bypass"})]
-----------------------------------------------------------------------------
(* Hermes: the sessions of all turns go to OpenViking, whatever they are   *)
(* for, and each turn has a home of its own unless it is said.             *)
HermesAutomatic ==
  [chat_capture |-> Captured(Turn({}, "capture home", {}), {"captured"}),
   capture_no_tool_bypass |-> NoOpenViking("chat_capture"),
   wait_for_commit |-> SessionCommitted({"capture_no_tool_bypass"}, "chat_capture", "captured"),
   find_story_memory |-> Find({"wait_for_commit"}, "memory"),
   chat_recall |-> Captured(Recalling(Turn({"find_story_memory"}, "recall home", {})), {"recall"}),
   recall_no_tool_bypass |-> NoOpenViking("chat_recall"),
   reply_check |-> Text("chat_recall",
      {"wait_for_commit", "find_story_memory", "recall_no_tool_bypass"})]

HermesTools ==
  [chat_tool_workflow |-> Captured(Turn({}, "workflow home",
      Jobs({"viking_browse", "viking_search", "viking_read"}) \cup Remember("viking_remember")
        \cup ({"viking_add_resource"} \X {"remote", "local"})), {"workflow"}),
   tool_workflow_evidence |-> Evidence("chat_tool_workflow",
      {"viking_remember", "viking_browse", "viking_search", "viking_read", "viking_add_resource"}),
   find_memory_before_forget |-> Find({"tool_workflow_evidence"}, "memory"),
   find_local_resource |-> Find({"tool_workflow_evidence"}, "local"),
   find_remote_resource |-> Find({"tool_workflow_evidence"}, "remote"),
   exact_memory_uri |-> MemoryURI("find_memory_before_forget"),
   chat_forget_exact_uri |-> Captured(Turn(
      {"exact_memory_uri", "find_local_resource", "find_remote_resource"}, "forget home",
      Forget("viking_forget")), {"forget"}),
   forget_evidence |-> Evidence("chat_forget_exact_uri", {"viking_forget"}),
   find_memory_after_forget |-> URIAbsent("exact_memory_uri", {"forget_evidence"}),
   evidence_check |-> Check({"tool_workflow_evidence", "find_memory_before_forget",
      "find_local_resource", "find_remote_resource", "forget_evidence", "find_memory_after_forget"})]

PiAutomatic ==
  [chat_capture |-> Captured(Turn({}, "extension", {}), {"captured"}),
   capture_no_tool_bypass |-> NoTools("chat_capture"),
   verify_captured_session |-> SessionCommitted({"capture_no_tool_bypass"}, "chat_capture", "captured"),
   find_extracted_memory |-> Find({"verify_captured_session"}, "memory"),
   chat_recall |-> Recalling(Turn({"find_extracted_memory"}, "extension", {})),
   recall_no_tool_bypass |-> NoTools("chat_recall"),
   reply_check |-> Text("chat_recall", {"find_extracted_memory", "recall_no_tool_bypass"})]

(* Pi remembers through a session of its own; the remote resource is       *)
(* looked for by its contents alone.                                       *)
PiTools ==
  [remember_memory |-> CapturedUntil(Turn({}, "extension", {<<"viking_remember", "session">>}),
      {"remembered"}, "end of turn"),
   remember_evidence |-> Evidence("remember_memory", {"viking_remember"}),
   verify_remembered_session |-> SessionCommitted({"remember_evidence"}, "remember_memory", "remembered"),
   find_memory_before_forget |-> Find({"verify_remembered_session"}, "memory"),
   exact_memory_uri |-> MemoryURI("find_memory_before_forget"),
   native_tool_workflow |-> Turn({"exact_memory_uri", "remember_memory"}, "extension",
      Jobs({"viking_search", "viking_read", "viking_browse", "viking_archive_expand"})
        \cup {<<"viking_add_resource", "remote">>} \cup Forget("viking_forget")),
   native_tool_evidence |-> Evidence("native_tool_workflow", {"viking_search", "viking_read",
      "viking_browse", "viking_archive_expand", "viking_add_resource", "viking_forget"}),
   wait_for_resource |-> Wait({"native_tool_evidence"}),
   find_remote_resource |-> FindAnyones({"wait_for_resource"}, "remote"),
   verify_memory_forgotten |-> URIAbsent("exact_memory_uri", {"native_tool_evidence"}),
   evidence_check |-> Check({"remember_evidence", "native_tool_evidence", "find_remote_resource",
      "verify_memory_forgotten"})]

PiTakeover ==
  [capture_and_compact |-> Captured(Turn({}, "extension", Jobs({"compaction"})), {"captured"}),
   takeover_compaction_evidence |->
      Forbidding(Evidence("capture_and_compact", {"compaction"}), "any"),
   verify_takeover_session |-> SessionCommitted({"takeover_compaction_evidence"},
      "capture_and_compact", "captured"),
   find_takeover_memory |-> Find({"verify_takeover_session"}, "memory"),
   recall_after_takeover |-> Recalling(Turn({"find_takeover_memory"}, "extension", {})),
   recall_no_tool_bypass |-> NoTools("recall_after_takeover"),
   reply_check |-> Text("recall_after_takeover",
      {"takeover_compaction_evidence", "find_takeover_memory", "recall_no_tool_bypass"})]
-----------------------------------------------------------------------------
(* The cases of the service itself.                                        *)
ServiceBaseline ==
  [health |-> Command({}),
   session_new |-> SessionNew({"health"}, "baseline"),
   session_messages |-> AddMessages("session_new", {}, "baseline"),
   session_commit |-> SessionCommit("session_new", {"session_messages"}, "baseline", FALSE),
   find_extracted_memory |-> Find({"session_commit"}, "memory"),
   add_local_resource |-> AddResource({"health"}),
   find_local_resource |-> Find({"add_local_resource"}, "local"),
   remove_exact_memory |-> RemoveFound("find_extracted_memory"),
   remove_exact_resource |-> RemoveTree({"find_local_resource"}, "local"),
   verify_memory_removed |-> FindGone({"remove_exact_memory"}, "memory"),
   verify_resource_removed |-> FindGone({"remove_exact_resource"}, "local"),
   evidence_check |-> Check({"verify_memory_removed", "verify_resource_removed"})]

MemoryUpdate ==
  [session_new |-> SessionNew({}, "dialogue"),
   msg_1 |-> AddMessages("session_new", {}, "dialogue"),
   msg_2 |-> AddMessages("session_new", {"msg_1"}, "dialogue"),
   msg_3 |-> AddMessages("session_new", {"msg_2"}, "dialogue"),
   msg_4 |-> AddMessages("session_new", {"msg_3"}, "dialogue"),
   commit |-> SessionCommit("session_new", {"msg_4"}, "dialogue", TRUE),
   ls |-> Command({"commit"}),
   find |-> Find({"commit"}, "memory"),
   judge |-> Judge({"ls", "find"})]

(* Three scenarios, one after the other; then they are looked for at once. *)
ExperienceLearning ==
  LET commits == {"commit_1", "commit_2", "commit_3"}
      finds == FindAnyones(commits, "memory")
  IN
  [session_new_1 |-> SessionNew({}, "first"),
   seed_transcript_1 |-> AddMessages("session_new_1", {}, "first"),
   commit_1 |-> SessionCommit("session_new_1", {"seed_transcript_1"}, "first", TRUE),
   session_new_2 |-> SessionNew({"commit_1"}, "second"),
   seed_transcript_2 |-> AddMessages("session_new_2", {}, "second"),
   commit_2 |-> SessionCommit("session_new_2", {"seed_transcript_2"}, "second", TRUE),
   session_new_3 |-> SessionNew({"commit_2"}, "third"),
   seed_transcript_3 |-> AddMessages("session_new_3", {}, "third"),
   commit_3 |-> SessionCommit("session_new_3", {"seed_transcript_3"}, "third", TRUE),
   find_trajectories_1 |-> finds, find_experiences_1 |-> finds,
   find_trajectories_2 |-> finds, find_experiences_2 |-> finds,
   find_trajectories_3 |-> finds, find_experiences_3 |-> finds,
   judge |-> Judge(commits \cup {"find_trajectories_1", "find_experiences_1",
      "find_trajectories_2", "find_experiences_2", "find_trajectories_3", "find_experiences_3"})]

(* A badge number that was never told must not be found.                   *)
NegativeRecall ==
  [session_new |-> SessionNew({}, "facts"),
   seed |-> AddMessages("session_new", {}, "facts"),
   commit |-> SessionCommit("session_new", {"seed"}, "facts", TRUE),
   find_known_fact |-> Find({"commit"}, "memory"),
   find |-> FindGone({"find_known_fact"}, "never told"),
   judge |-> Judge({"find"})]

RetrievalPrecision ==
  [session_new |-> SessionNew({}, "schedule"),
   seed |-> AddMessages("session_new", {}, "schedule"),
   commit |-> SessionCommit("session_new", {"seed"}, "schedule", TRUE),
   find_seeded_corpus |-> Find({"commit"}, "memory"),
   ls |-> Command({"find_seeded_corpus"}),
   find |-> FindUnclaimed({"find_seeded_corpus"}, "memory"),
   judge |-> Judge({"ls", "find"})]

MemoryCJK ==
  [session_new |-> SessionNew({}, "cjk"),
   seed |-> AddMessages("session_new", {}, "cjk"),
   commit |-> SessionCommit("session_new", {"seed"}, "cjk", TRUE),
   ls |-> Command({"commit"}),
   find |-> FindUnclaimed({"commit"}, "memory"),
   judge |-> Judge({"ls", "find"})]
-----------------------------------------------------------------------------
(* Cases outside the release gate.  Their facts carry no nonce (but the    *)
(* one to be forgotten), so memories of earlier runs answer as well, and   *)
(* nothing is claimed.                                                     *)
MemoryFromSession ==
  [session_new |-> SessionNew({}, "conversation"),
   msg_1 |-> AddMessages("session_new", {}, "conversation"),
   msg_2 |-> AddMessages("session_new", {"msg_1"}, "conversation"),
   msg_3 |-> AddMessages("session_new", {"msg_2"}, "conversation"),
   msg_4 |-> AddMessages("session_new", {"msg_3"}, "conversation"),
   msg_5 |-> AddMessages("session_new", {"msg_4"}, "conversation"),
   msg_6 |-> AddMessages("session_new", {"msg_5"}, "conversation"),
   commit |-> SessionCommit("session_new", {"msg_6"}, "conversation", FALSE),
   wait |-> Wait({"commit"}),
   ls |-> Command({"wait"}),
   find |-> FindAnyones({"wait"}, "memory"),
   judge |-> Judge({"ls", "find"})]

MemoryDirect ==
  [add_mem_1 |-> AddMemory({}, "first"),
   add_mem_2 |-> AddMemory({"add_mem_1"}, "second"),
   add_mem_3 |-> AddMemory({"add_mem_2"}, "third"),
   wait |-> Wait({"add_mem_3"}),
   ls |-> Command({"wait"}),
   find |-> FindAnyones({"wait"}, "memory"),
   judge |-> Judge({"ls", "find"})]

SearchCompare ==
  [add_mem_1 |-> AddMemory({}, "first"),
   add_mem_2 |-> AddMemory({}, "second"),
   add_mem_3 |-> AddMemory({}, "third"),
   add_mem_4 |-> AddMemory({}, "fourth"),
   add_mem_5 |-> AddMemory({}, "fifth"),
   add_mem_6 |-> AddMemory({}, "sixth"),
   wait |-> Wait({"add_mem_1", "add_mem_2", "add_mem_3", "add_mem_4", "add_mem_5", "add_mem_6"}),
   find |-> FindAnyones({"wait"}, "memory"),
   search |-> Search({"wait"}),
   judge |-> Judge({"find", "search"})]

ForgetGhost ==
  [seed |-> AddMemory({}, "first"),
   wait |-> Wait({"seed"}),
   find_before |-> FindUnclaimed({"wait"}, "memory"),
   rm |-> RemoveFound("find_before"),
   find_after |-> FindGone({"rm"}, "memory"),
   judge |-> Judge({"find_after"})]
-----------------------------------------------------------------------------
(* The registry, by the names above.  The legacy openclaw-memory is the    *)
(* automatic case of OpenClaw under a second name.                         *)
Workflow ==
  [ServiceBaseline |-> ServiceBaseline, MemoryUpdate |-> MemoryUpdate,
   ExperienceLearning |-> ExperienceLearning, NegativeRecall |-> NegativeRecall,
   RetrievalPrecision |-> RetrievalPrecision, MemoryCJK |-> MemoryCJK,
   MemoryFromSession |-> MemoryFromSession, MemoryDirect |-> MemoryDirect,
   SearchCompare |-> SearchCompare, ForgetGhost |-> ForgetGhost,
   OpenClawAutomatic |-> OpenClawAutomatic, OpenClawTools |-> OpenClawTools,
   OpenClawCompaction |-> OpenClawCompaction,
   HermesAutomatic |-> HermesAutomatic, HermesTools |-> HermesTools,
   CodexAutomatic |-> CodexAutomatic, CodexTools |-> CodexTools,
   ClaudeAutomatic |-> ClaudeAutomatic, ClaudeTools |-> ClaudeTools,
   ClaudeSubagent |-> ClaudeSubagent,
   OpenCodeAutomatic |-> OpenCodeAutomatic, OpenCodeTools |-> OpenCodeTools,
   PiAutomatic |-> PiAutomatic, PiTools |-> PiTools, PiTakeover |-> PiTakeover]

(* The suites with more than the cases of one harness.  "openviking" is    *)
(* the release gate.                                                       *)
Suite ==
  [smoke |-> {"MemoryDirect", "OpenClawAutomatic"},
   openviking |-> DOMAIN Workflow
     \ {"MemoryFromSession", "MemoryDirect", "SearchCompare", "ForgetGhost"}]
=============================================================================
