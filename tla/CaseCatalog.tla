----------------------------- MODULE CaseCatalog -----------------------------
(***************************************************************************)
(* The cases of the suites, run against a server and an agent.             *)
(*                                                                         *)
(* What the operators and the executor promise is taken from the modules   *)
(* about them: a node starts once all it comes after are done, nothing     *)
(* starts after a failure (DagRun); the evidence of a turn is what the     *)
(* agent did (AgentTurn); a committed session is one whose memories are    *)
(* extracted (SessionCommit).  New here is what a CASE makes of them: which *)
(* nodes it has, in which order, and what it claims for the cleanup of a   *)
(* server that is not thrown away afterwards.                              *)
(*                                                                         *)
(* With `faults` an agent may leave jobs undone, call tools nobody asked   *)
(* for, or answer wrongly, the plugin may capture nothing, the server may  *)
(* extract or index nothing, or go on finding what it said it removed, and *)
(* any operator may fail.  Without, agent and server behave, and only      *)
(* their pace is open.                                                     *)
(***************************************************************************)
EXTENDS CaseGraphs

CONSTANT Cases

ASSUME CasesAssumption == Cases \subseteq DOMAIN Workflow

VARIABLES
  case, graph, faults,  \* the case, the workflow built for it, and whether anybody errs
  leftovers,  \* what earlier runs left on the server, as far as a search here can see it:
              \* the same facts, with another nonce
  running,    \* nodes that were started
  sent,       \* those of them whose first effect is out: the prompt, the request
  done,       \* "no", "ok" or "failed" for each node
  result,     \* "running", "passed" or "failed"
  session,    \* each conversation on the server
  pending,    \* this run's memories and resources the server has not indexed yet
  present,    \* this run's things that can be found
  ever,       \* history: things that could be found at some time
  turn,       \* of each turn: jobs done, a call nobody asked for ("none", "openviking" for
              \* one of the tools of OpenViking, "other"), and what its reply rests on
  found,      \* what a search returned, where another node uses it
  uri,        \* the exact memory to be forgotten
  claimed,    \* what the case gives to the cleanup
  handled,    \* claims the cleanup has tried to delete
  stuck       \* those of them it could not delete

fixed == <<case, graph, faults, leftovers>>
progress == <<running, done, result>>
world == <<session, pending, present, ever>>
cleanup == <<handled, stuck>>
vars == <<fixed, progress, sent, world, turn, found, uri, claimed, cleanup>>

Nodes(op) == {n \in DOMAIN graph : graph[n].op = op}
Conversations(g) ==
  UNION {IF g[n].op = "Turn" THEN g[n].captures
         ELSE IF g[n].op = "SessionNew" THEN {g[n].conv} ELSE {} : n \in DOMAIN g}

Used == {graph[n].of : n \in {m \in Nodes("MemoryURI") \cup Nodes("Remove") : graph[m].of # "none"}}

NotYet == [did |-> {}, stray |-> "none", basis |-> "none", primed |-> FALSE, clash |-> FALSE]

CatalogInit ==
  /\ case \in Cases /\ graph = Workflow[case] /\ faults \in BOOLEAN
  /\ leftovers \in SUBSET {graph[n].what : n \in {f \in Nodes("Find") : ~graph[f].named}}
  /\ done = [n \in DOMAIN graph |-> "no"]
  /\ running = {n \in DOMAIN graph : graph[n].after = {}} /\ sent = {}
  /\ result = "running"
  /\ session = [c \in Conversations(graph) |-> "none"]
  /\ pending = {} /\ present = {} /\ ever = {}
  /\ turn = [n \in Nodes("Turn") |-> NotYet]
  /\ found = [n \in Used |-> {}] /\ uri = <<"none", "none">>
  /\ claimed = {} /\ handled = {} /\ stuck = {}

MayFail == IF faults THEN BOOLEAN ELSE {TRUE}

(* A slip: one of the nodes it comes after is enough.                      *)
MayStartAfterOne(m, d) == \E p \in graph[m].after : d[p] = "ok"

MayStart(m, d) == \A p \in graph[m].after : d[p] = "ok"

(* The executor: a node ends; those whose turn has come are started, and   *)
(* the last one to end decides.                                            *)
Finish(n, good) ==
  LET d == [done EXCEPT ![n] = IF good THEN "ok" ELSE "failed"]
      halted == \E m \in DOMAIN graph : d[m] = "failed"
      started == IF halted THEN {}
                 ELSE {m \in DOMAIN graph : d[m] = "no" /\ m \notin running /\ MayStart(m, d)}
      live == (running \ {n}) \cup started
  IN /\ done' = d /\ running' = live
     /\ result' = IF live # {} THEN "running" ELSE IF halted THEN "failed" ELSE "passed"
     /\ UNCHANGED <<fixed>>
-----------------------------------------------------------------------------
(* The server, at its own pace.                                            *)
Extract(c) ==
  /\ session[c] = "committed"
  /\ \E any \in MayFail :
       /\ session' = [session EXCEPT ![c] = IF any THEN "extracted" ELSE "empty"]
       /\ pending' = IF any THEN pending \cup {<<"memory", c>>} ELSE pending
  /\ UNCHANGED <<fixed, progress, sent, present, ever, turn, found, uri, claimed, cleanup>>

Index(t) ==
  /\ t \in pending /\ pending' = pending \ {t}
  /\ \E good \in MayFail :
       /\ present' = IF good THEN present \cup {t} ELSE present
       /\ ever' = IF good THEN ever \cup {t} ELSE ever
  /\ UNCHANGED <<fixed, progress, sent, session, turn, found, uri, claimed, cleanup>>

Quiet == pending = {} /\ \A c \in DOMAIN session : session[c] # "committed"
-----------------------------------------------------------------------------
(* A turn starts: the plugin injects what can be recalled, commits what an *)
(* earlier turn left open in the same directory, and collides with another *)
(* turn there.                                                             *)
LeftOpen(m, n, event) ==
  {c \in graph[m].captures :
     session[c] = "open" /\ graph[m].commits = event /\ graph[m].dir = graph[n].dir}

TurnStarts(n) ==
  /\ n \in (running \ sent) \cap Nodes("Turn") /\ sent' = sent \cup {n}
  /\ LET others == {m \in (running \cap sent) \cap Nodes("Turn") : graph[m].dir = graph[n].dir}
         opened == UNION {LeftOpen(m, n, "next startup") : m \in Nodes("Turn")}
     IN /\ session' = [c \in DOMAIN session |-> IF c \in opened THEN "committed" ELSE session[c]]
        /\ turn' = [m \in DOMAIN turn |->
             [turn[m] EXCEPT !.clash = @ \/ (others # {} /\ m \in others \cup {n}),
                             !.primed = IF m = n THEN \E t \in present : t[1] = "memory" ELSE @]]
  /\ UNCHANGED <<fixed, progress, pending, present, ever, found, uri, claimed, cleanup>>

(* What the agent may leave undone, and what it may answer from.  A stray  *)
(* call, of a tool of OpenViking or of a shell that goes there, remembers  *)
(* the fact or searches for it.                                            *)
Does(n) ==
  LET jobs == graph[n].jobs IN
  IF faults THEN {jobs, {}} \cup {jobs \ {j} : j \in jobs} ELSE {jobs}
Strays(n) ==
  IF faults /\ (graph[n].jobs = {} \/ graph[n].captures # {})
  THEN {"none", "openviking", "other"} ELSE {"none"}
Bases(n, stray) ==
  IF ~graph[n].recalls THEN {"none"}
  ELSE LET real == {b \in {"context", "history", "tool"} :
                      \/ b = "context" /\ turn[n].primed
                      \/ b = "history" /\ graph[n].continues # {}
                      \/ b = "tool" /\ stray # "none"}
       IN IF faults \/ real = {} THEN real \cup {"wrong"} ELSE real

Added(n, did, stray) ==
  {<<"memory", "tool">> : j \in {x \in did : x[2] = "memory"}}
    \cup {<<"resource", j[2]>> : j \in {x \in did : x[2] \in {"remote", "local"}}}
    \cup (IF stray # "none" /\ ~graph[n].recalls THEN {<<"memory", "tool">>} ELSE {})
Forgotten(did) == IF \E j \in did : j[2] = "forget" THEN {uri} ELSE {}

(* A server that errs may go on finding what it said it removed.           *)
Gone(things) == IF faults THEN SUBSET things ELSE {things}

(* Conversations the plugin captures in this turn; pi's remember tool is   *)
(* the one that writes a conversation itself.                              *)
Caught(n, did) ==
  IF \E j \in graph[n].jobs \ did : j[2] = "session" THEN {} ELSE graph[n].captures

Ended(n, did, stray, basis) ==
  [did |-> did, stray |-> stray, basis |-> basis, primed |-> turn[n].primed, clash |-> turn[n].clash]

TurnEnds(n) ==
  /\ n \in running \cap sent \cap Nodes("Turn")
  /\ \E did \in Does(n), stray \in Strays(n), hooks \in MayFail :
       LET caught == IF hooks THEN Caught(n, did) ELSE {} IN
       /\ pending' = (pending \cup Added(n, did, stray)) \ Forgotten(did)
       /\ \E gone \in Gone(Forgotten(did)) :
            present' = (present \cup {<<"session", c>> : c \in caught}) \ gone
       /\ session' = [c \in DOMAIN session |->
            IF c \notin caught THEN session[c]
            ELSE IF graph[n].commits = "end of turn" THEN "committed" ELSE "open"]
       /\ \E basis \in Bases(n, stray) :
            turn' = [turn EXCEPT ![n] = Ended(n, did, stray, basis)]
  /\ \E good \in IF turn[n].clash THEN BOOLEAN ELSE MayFail : Finish(n, good)
  /\ UNCHANGED <<sent, ever, found, uri, claimed, cleanup>>
-----------------------------------------------------------------------------
(* Checks of what a turn left behind.                                      *)
ToolsOf(n) == {j[1] : j \in turn[n].did}
(* A slip: the evidence of a turn forgets what was forbidden.              *)
AcceptsAnyTool(n) ==
  CASE graph[n].op = "Evidence" -> graph[n].expect \subseteq ToolsOf(graph[n].of)
    [] graph[n].op = "Text" -> turn[graph[n].of].basis # "wrong"
    [] graph[n].op = "Check" -> TRUE

Accepts(n) ==
  CASE graph[n].op = "Evidence" ->
         /\ graph[n].expect \subseteq ToolsOf(graph[n].of)
         /\ graph[n].forbid = "any" => turn[graph[n].of].stray = "none"
         /\ graph[n].forbid = "openviking" => turn[graph[n].of].stray # "openviking"
    [] graph[n].op = "Text" -> turn[graph[n].of].basis # "wrong"
    [] graph[n].op = "Check" -> TRUE

CheckEnds(n) ==
  /\ n \in running /\ graph[n].op \in {"Evidence", "Text", "Check"}
  /\ Finish(n, Accepts(n))
  /\ UNCHANGED <<sent, world, turn, found, uri, claimed, cleanup>>

(* What a search returns.  Without this run's mark the leftovers of other  *)
(* runs match as well.                                                     *)
Matches(n) ==
  {t \in present : t[1] = graph[n].what \/ t = <<"resource", graph[n].what>>}
    \cup (IF graph[n].named THEN {} ELSE {<<"leftover", w>> : w \in leftovers \cap {graph[n].what}})
Unmarked(n) == {t \in Matches(n) : t[1] = "leftover"}

Ready(n) ==
  CASE graph[n].op = "Find" -> IF graph[n].gone THEN Matches(n) = {} ELSE Matches(n) # {}
    [] graph[n].op \in {"SessionCommitted", "SessionCommit"} -> session[graph[n].conv] = "extracted"
    [] graph[n].op = "SessionPresent" -> session[graph[n].conv] # "none"
    [] graph[n].op = "URIAbsent" -> uri \notin present
    [] graph[n].op = "AddResource" -> <<"resource", "local">> \in present
    [] graph[n].op = "Wait" -> Quiet \/ faults

(* A slip: a committed session is claimed without what was extracted.      *)
ClaimsOfSession(n) ==
  CASE graph[n].op = "Find" -> IF graph[n].claim THEN Matches(n) ELSE {}
    [] graph[n].op \in {"SessionCommitted", "SessionPresent"} -> {<<"session", graph[n].conv>>}
    [] OTHER -> {}

ClaimsOf(n) ==
  CASE graph[n].op = "Find" -> IF graph[n].claim THEN Matches(n) ELSE {}
    [] graph[n].op = "SessionCommitted" -> {"session", "memory"} \X {graph[n].conv}
    [] graph[n].op = "SessionPresent" -> {<<"session", graph[n].conv>>}
    [] graph[n].op = "SessionCommit" -> IF graph[n].claim THEN {<<"memory", graph[n].conv>>} ELSE {}
    [] OTHER -> {}

Polls == {"Find", "SessionCommitted", "SessionCommit", "SessionPresent", "URIAbsent",
          "AddResource", "Wait"}
Requests == {"SessionCommit", "AddResource"}

(* `session commit` and `add-resource --wait` first ask for the work.      *)
RequestSent(n) ==
  /\ n \in running \ sent /\ graph[n].op \in Requests /\ sent' = sent \cup {n}
  /\ IF graph[n].op = "SessionCommit"
     THEN session' = [session EXCEPT ![graph[n].conv] = "committed"] /\ UNCHANGED pending
     ELSE pending' = pending \cup {<<"resource", "local">>} /\ UNCHANGED session
  /\ UNCHANGED <<fixed, progress, present, ever, turn, found, uri, claimed, cleanup>>

(* A poll ends well once it sees what it waits for, unless it would claim  *)
(* something without this run's mark.  It gives up when the server has     *)
(* nothing left to do: its retries outlast the server's work.              *)
PollEnds(n) ==
  /\ n \in running /\ graph[n].op \in Polls /\ (graph[n].op \in Requests => n \in sent)
  /\ \/ /\ Ready(n) /\ (graph[n].claim => Unmarked(n) = {})
        /\ claimed' = claimed \cup ClaimsOf(n) /\ Finish(n, TRUE)
        /\ found' = [m \in DOMAIN found |-> IF m = n THEN Matches(n) ELSE found[m]]
     \/ /\ faults \/ (~Ready(n) /\ Quiet) \/ (graph[n].claim /\ Unmarked(n) # {})
        /\ Finish(n, FALSE) /\ UNCHANGED <<claimed, found>>
  /\ UNCHANGED <<sent, world, turn, uri, cleanup>>
-----------------------------------------------------------------------------
(* Operators that ask once.                                                *)
CommandEnds(n) ==
  /\ n \in running /\ graph[n].op \in {"Command", "AddMessages", "Judge", "Search"}
  /\ \E good \in MayFail : Finish(n, good \/ graph[n].op = "Search")
  /\ UNCHANGED <<sent, world, turn, found, uri, claimed, cleanup>>

MemoryURIEnds(n) ==
  /\ n \in running /\ graph[n].op = "MemoryURI"
  /\ uri' \in found[graph[n].of]
  /\ Finish(n, TRUE)
  /\ UNCHANGED <<sent, world, turn, found, claimed, cleanup>>

(* The session is claimed only when the answer carries its URI.            *)
SessionNewEnds(n) ==
  /\ n \in running /\ graph[n].op = "SessionNew"
  /\ \E created \in MayFail, answered \in MayFail :
       /\ session' = [session EXCEPT ![graph[n].conv] = IF created THEN "open" ELSE @]
       /\ present' = IF created THEN present \cup {<<"session", graph[n].conv>>} ELSE present
       /\ claimed' = claimed \cup IF created /\ answered THEN {<<"session", graph[n].conv>>} ELSE {}
       /\ Finish(n, created /\ answered)
  /\ UNCHANGED <<sent, pending, ever, turn, found, uri, cleanup>>

CompactEnds(n) ==
  /\ n \in running /\ graph[n].op = "Compact"
  /\ \E good \in MayFail :
       /\ session' = [c \in DOMAIN session |->
            IF good /\ c \in graph[graph[n].of].captures /\ session[c] = "open"
              /\ graph[graph[n].of].commits = "compaction" THEN "committed" ELSE session[c]]
       /\ Finish(n, good)
  /\ UNCHANGED <<sent, pending, present, ever, turn, found, uri, claimed, cleanup>>

AddMemoryEnds(n) ==
  /\ n \in running /\ graph[n].op = "AddMemory"
  /\ \E good \in MayFail :
       /\ pending' = IF good THEN pending \cup {<<"memory", graph[n].conv>>} ELSE pending
       /\ Finish(n, good)
  /\ UNCHANGED <<sent, session, present, ever, turn, found, uri, claimed, cleanup>>

(* The memories a search returned are removed one by one, or one resource  *)
(* tree as a whole.                                                        *)
RemoveEnds(n) ==
  /\ n \in running /\ graph[n].op = "Remove"
  /\ LET all == IF graph[n].of = "none" THEN {<<"resource", graph[n].what>>} ELSE found[graph[n].of]
     IN \E gone \in Gone(all), good \in MayFail : present' = present \ gone /\ Finish(n, good)
  /\ UNCHANGED <<sent, session, pending, ever, turn, found, uri, claimed, cleanup>>
-----------------------------------------------------------------------------
(* The release deletes what a case claims, one by one in a fixed order,    *)
(* also of a case that failed.                                             *)
(* What is already gone counts as deleted, and one failure does not stop   *)
(* the rest.                                                               *)
Delete(t) ==
  /\ result # "running" /\ handled' = handled \cup {t}
  /\ \E good \in IF t \in present \cup pending THEN MayFail ELSE {TRUE} :
       /\ present' = IF good THEN present \ {t} ELSE present
       /\ pending' = IF good THEN pending \ {t} ELSE pending
       /\ stuck' = IF good THEN stuck ELSE stuck \cup {t}
  /\ UNCHANGED <<fixed, progress, sent, session, ever, turn, found, uri, claimed>>

Over == result # "running" /\ claimed \subseteq handled /\ Quiet

OneNode ==
  \E n \in running :
    \/ TurnStarts(n) \/ TurnEnds(n) \/ CheckEnds(n) \/ RequestSent(n) \/ PollEnds(n)
    \/ CommandEnds(n) \/ MemoryURIEnds(n) \/ SessionNewEnds(n) \/ CompactEnds(n)
    \/ AddMemoryEnds(n) \/ RemoveEnds(n)
Server == (\E c \in DOMAIN session : Extract(c)) \/ (\E t \in pending : Index(t))
Cleanup == claimed \ handled # {} /\ Delete(CHOOSE t \in claimed \ handled : TRUE)

(* Nothing comes back to where it was, so a run that does not end shows as *)
(* a deadlock.                                                             *)
CatalogNext == OneNode \/ Server \/ Cleanup \/ (Over /\ UNCHANGED vars)

CatalogSpec == CatalogInit /\ [][CatalogNext]_vars
=============================================================================
