--------------------------- MODULE CaseCatalogProofs ---------------------------
(***************************************************************************)
(* Proofs that every case that keeps the rules of CaseRules has the        *)
(* properties of CaseCatalogProps, with any agent, any server and any      *)
(* leftovers.  The graphs themselves are never looked at.  The invariant   *)
(* says what of the past can be read off the state: which nodes are over,  *)
(* where each thing on the server came from, what each check and search    *)
(* saw, what cannot come back, what is claimed; and, when nobody errs,     *)
(* what has to be there.                                                   *)
(***************************************************************************)
EXTENDS CaseRules, FiniteSetTheorems, WellFoundedInduction, TLAPS

Before == Past[case]
Ok(n) == done[n] = "ok"
Begun(n) == done[n] # "no"

(* A request takes effect when it is sent, other nodes when they end.      *)
Gave(n) == IF graph[n].op \in Requests THEN n \in sent ELSE Begun(n)
Given(t) == \E n \in DOMAIN graph : t \in Gives(graph[n]) /\ Gave(n)

StrayCalls == {"none", "openviking", "other"}

TurnType ==
  [did : SUBSET UNION {graph[n].jobs : n \in Nodes("Turn")}, stray : StrayCalls,
   basis : {"none", "context", "history", "tool", "wrong"}, primed : BOOLEAN, clash : BOOLEAN]

CatalogTypeOK ==
  /\ case \in Cases /\ graph = Workflow[case] /\ faults \in BOOLEAN
  /\ running \subseteq DOMAIN graph /\ sent \subseteq DOMAIN graph
  /\ done \in [DOMAIN graph -> {"no", "ok", "failed"}]
  /\ result \in {"running", "passed", "failed"}
  /\ session \in [Conversations(graph) -> {"none", "open", "committed", "extracted", "empty"}]
  /\ turn \in [Nodes("Turn") -> TurnType]
  /\ found = [n \in Used |-> found[n]]

(* The executor: what runs or ran comes after what is done, and it stops   *)
(* only when nothing can be started.                                       *)
OrderInv ==
  /\ \A n \in running : done[n] = "no" /\ \A m \in Before[n] : Ok(m)
  /\ \A n \in DOMAIN graph : Begun(n) => \A m \in Before[n] : Ok(m)
  /\ \A n \in DOMAIN graph :
       done[n] = "no" /\ (\A m \in graph[n].after : Ok(m)) =>
         n \in running \/ \E m \in DOMAIN graph : done[m] = "failed"
  /\ sent \subseteq running \cup {n \in DOMAIN graph : Begun(n)}
  /\ result # "running" => running = {}
  /\ result = "passed" => \A n \in DOMAIN graph : done[n] # "failed"
  /\ result = "failed" => \E n \in DOMAIN graph : done[n] = "failed"

SentInv ==
  \A n \in DOMAIN graph : Begun(n) /\ graph[n].op \in Requests \cup {"Turn"} => n \in sent

(* What is on the server comes from a node of the case, once.              *)
WorldInv ==
  /\ \A t \in pending \cup present \cup ever : Given(t)
  /\ \A t \in pending \cup ever : t[1] # "session"
  /\ \A t \in present : t[1] = "session" \/ t \in ever
  /\ pending \cap ever \subseteq {ToolMemory}
  /\ ToolMemory \in pending \cup ever =>
       \E m \in Nodes("Turn") :
         /\ Begun(m) /\ ToolMemory \in Gives(graph[m])
         /\ turn[m].stray # "none" \/ ToolMemory \in JobThings(graph[m].jobs)

SessionInv ==
  \A c \in DOMAIN session :
    /\ session[c] # "none" => Given(<<"session", c>>)
    /\ session[c] \in {"committed", "extracted", "empty"} => Given(<<"memory", c>>)
    /\ <<"memory", c>> \in pending \cup ever => session[c] = "extracted"

TurnInv ==
  \A n \in Nodes("Turn") :
    /\ turn[n].did \subseteq graph[n].jobs
    /\ turn[n].did # {} => Begun(n)
    /\ ~turn[n].clash
    /\ turn[n].stray # "none" => MayStray(graph[n])
    /\ Begun(n) /\ graph[n].recalls => turn[n].basis # "none"
    /\ turn[n].basis = "history" => graph[n].continues # {}
    /\ turn[n].basis = "tool" => turn[n].stray # "none"

(* What a check or a search has seen.                                      *)
SeenInv ==
  \A n \in DOMAIN graph : Ok(n) =>
    /\ graph[n].op = "Evidence" =>
         /\ graph[n].expect \subseteq ToolsOf(graph[n].of)
         /\ graph[n].forbid = "any" => turn[graph[n].of].stray = "none"
         /\ graph[n].forbid = "openviking" => turn[graph[n].of].stray # "openviking"
    /\ graph[n].op = "Text" => turn[graph[n].of].basis # "wrong"
    /\ graph[n].op \in {"SessionCommitted", "SessionCommit"} => session[graph[n].conv] = "extracted"
    /\ graph[n].op = "Find" /\ ~graph[n].gone =>
         \/ ~graph[n].named /\ graph[n].what \in leftovers
         \/ \E t \in ever : Fits(t, graph[n].what) /\
              \E m \in DOMAIN graph : t \in Gives(graph[m]) /\ n \notin Before[m]
    /\ Own(graph[n]) /\ n \in Used =>
         found[n] # {} /\ \A t \in found[n] : t \in ever /\ Fits(t, graph[n].what)

(* What is gone, or was not found again, does not come back.               *)
Forgot(f) == \E j \in turn[f].did : j[2] = "forget"

GoneInv ==
  /\ \A u \in DOMAIN graph :
       Ok(u) /\ graph[u].op = "MemoryURI" => uri \in ever /\ uri[1] = "memory"
  /\ \A f \in Nodes("Turn") : Forgot(f) => uri \notin pending /\ (faults \/ uri \notin present)
  /\ \A v \in DOMAIN graph : Ok(v) /\ graph[v].op = "URIAbsent" =>
       \A f \in Before[v] \cap Nodes("Turn") : Forgot(f) => uri \notin present
  /\ ~faults => \A r \in DOMAIN graph : Ok(r) /\ graph[r].op = "Remove" =>
       \A t \in Cleared(graph, r) : t \in ever /\ t \notin pending \cup present
  /\ \A n \in DOMAIN graph : Ok(n) =>
       \A t \in Yields(graph) : LooksBack(graph, Before, n, t) => t \in ever /\ t \notin pending \cup present

ClaimInv ==
  /\ claimed \subseteq Yields(graph)
  /\ \A c \in DOMAIN session : <<"memory", c>> \in claimed => session[c] = "extracted"
  /\ \A n \in DOMAIN graph : Ok(n) => Claims(graph, n) \subseteq claimed
  /\ handled \subseteq claimed
  /\ handled # {} => result # "running"
  /\ \A t \in handled \ stuck : t \notin pending \cup present

(* With an agent and a server that behave.                                 *)
Removed(t) == \E r \in DOMAIN graph : MayRemove(graph[r], t) /\ Begun(r)
Here(t) == t \in pending \cup present \/ Removed(t)

GoodTurns ==
  \A n \in Nodes("Turn") :
    /\ Begun(n) => turn[n].did = graph[n].jobs
    /\ turn[n].stray = "none"
    /\ n \in sent /\ Recalled(graph, Before, n) =>
         ~graph[n].recalls \/ graph[n].continues # {} \/ turn[n].primed
    /\ Recalled(graph, Before, n) => turn[n].basis # "wrong"

GoodSessions ==
  /\ \A c \in DOMAIN session : session[c] # "empty"
  /\ \A m \in Nodes("Turn") : Begun(m) => \A c \in graph[m].captures :
       /\ session[c] # "none"
       /\ session[c] = "open" =>
            /\ graph[m].commits # "end of turn"
            /\ graph[m].commits = "next startup" =>
                 \A j \in sent \cap Nodes("Turn") : graph[j].dir = graph[m].dir => m \notin Before[j]
            /\ graph[m].commits = "compaction" =>
                 \A j \in Nodes("Compact") : graph[j].of = m => ~Begun(j)
  /\ \A n \in sent \cap Nodes("SessionCommit") : session[graph[n].conv] \in {"committed", "extracted"}

GoodThings ==
  /\ \A t \in ever : t \in present \/ Removed(t)
  /\ \A c \in DOMAIN session : session[c] = "extracted" => Here(<<"memory", c>>)
  /\ \A n \in DOMAIN graph : Ok(n) => \A t \in Provides(graph[n]) : Here(t)
  /\ \A n \in sent \cap Nodes("AddResource") : Here(<<"resource", "local">>)

GoodInv ==
  ~faults =>
    /\ \A n \in DOMAIN graph : done[n] # "failed"
    /\ GoodTurns /\ GoodSessions
    /\ result = "running" => GoodThings

CatInv ==
  /\ CatalogTypeOK /\ OrderInv /\ SentInv /\ WorldInv /\ SessionInv /\ TurnInv /\ SeenInv
  /\ GoneInv /\ ClaimInv /\ GoodInv
-----------------------------------------------------------------------------
LEMMA Rules ==
  ASSUME CatalogTypeOK
  PROVE  /\ Disciplined(graph, Before) /\ DemandMet(graph, Before, Reference[case])
         /\ case \in Suite.openviking => AllClaimed(graph, KnownLeft(case))
BY CasesAreDisciplined DEF CatalogTypeOK, Before

LEMMA GivesOf ==
  ASSUME NEW node
  PROVE  /\ node.op = "Turn" =>
              Gives(node) = ({"session", "memory"} \X node.captures) \cup JobThings(node.jobs)
                              \cup (IF MayStray(node) /\ ~node.recalls THEN {ToolMemory} ELSE {})
         /\ node.op = "SessionNew" => Gives(node) = {<<"session", node.conv>>}
         /\ node.op \in {"SessionCommit", "AddMemory"} => Gives(node) = {<<"memory", node.conv>>}
         /\ node.op = "AddResource" => Gives(node) = {<<"resource", "local">>}
         /\ node.op \notin {"Turn", "SessionNew", "SessionCommit", "AddMemory", "AddResource"} =>
              Gives(node) = {}
BY DEF Gives

LEMMA Jobs2 ==
  ASSUME NEW jobs, NEW t \in JobThings(jobs)
  PROVE  t = ToolMemory \/ t = <<"resource", "remote">> \/ t = <<"resource", "local">>
BY DEF JobThings, ToolMemory

LEMMA Kinds ==
  ASSUME NEW node, NEW t \in Gives(node)
  PROVE  /\ t = <<t[1], t[2]>> /\ t[1] \in {"session", "memory", "resource"}
         /\ t[1] = "resource" => t[2] \in {"remote", "local"}
<1>1. CASE node.op = "Turn"
  BY <1>1, GivesOf, Jobs2 DEF ToolMemory
<1>2. CASE node.op # "Turn"
  BY <1>2, GivesOf
<1> QED BY <1>1, <1>2

LEMMA FinishFacts ==
  ASSUME CatalogTypeOK, NEW n \in DOMAIN graph, NEW good \in BOOLEAN, Finish(n, good)
  PROVE  /\ done' = [done EXCEPT ![n] = IF good THEN "ok" ELSE "failed"]
         /\ UNCHANGED fixed
         /\ running' \subseteq DOMAIN graph
         /\ result' \in {"running", "passed", "failed"}
         /\ done' \in [DOMAIN graph -> {"no", "ok", "failed"}]
BY DEF Finish, CatalogTypeOK

LEMMA FinishOrder ==
  ASSUME CatalogTypeOK, OrderInv, NEW n \in running, NEW good \in BOOLEAN, Finish(n, good), sent' = sent
  PROVE  OrderInv'
<1>1. Ordered(graph, Before) BY Rules DEF Disciplined
<1>2. /\ n \in DOMAIN graph /\ done \in [DOMAIN graph -> {"no", "ok", "failed"}]
      /\ done[n] = "no" /\ running \subseteq DOMAIN graph
  BY DEF CatalogTypeOK, OrderInv
<1>3. /\ done' = [done EXCEPT ![n] = IF good THEN "ok" ELSE "failed"] /\ graph' = graph /\ case' = case
  BY <1>2, FinishFacts DEF fixed
<1> DEFINE halted == \E m \in DOMAIN graph : done'[m] = "failed"
           started == IF halted THEN {}
                 ELSE {m \in DOMAIN graph : done'[m] = "no" /\ m \notin running
                                        /\ \A p \in graph[m].after : done'[p] = "ok"}
<1>4. /\ running' = (running \ {n}) \cup started
      /\ result' = IF running' # {} THEN "running" ELSE IF halted THEN "failed" ELSE "passed"
  BY DEF Finish, MayStart
<1>5. Before' = Before BY <1>3 DEF Before
<1>6. \A m \in DOMAIN graph : m # n => done'[m] = done[m] BY <1>2, <1>3
<1>7. \A m \in DOMAIN graph : Ok(m) => Ok(m)' BY <1>6, <1>2 DEF Ok
<1>8. \A m \in DOMAIN graph : Before[m] \subseteq DOMAIN graph /\ m \notin Before[m]
        /\ Before[m] = graph[m].after \cup UNION {Before[p] : p \in graph[m].after}
  BY <1>1 DEF Ordered
<1>9. \A m \in DOMAIN graph : Begun(m) => \A p \in Before[m] : Ok(p) BY DEF OrderInv
<1>10. \A m \in started : done'[m] = "no" /\ \A q \in Before[m] : Ok(q)'
  <2> TAKE m \in started
  <2>1. \A p \in graph[m].after : p \in DOMAIN graph /\ Ok(p)' BY <1>8 DEF Ok
  <2>2. \A p \in graph[m].after : \A q \in Before[p] : Ok(q)'
    <3> TAKE p \in graph[m].after
    <3>1. Begun(p) \/ p = n BY <2>1, <1>6 DEF Ok, Begun
    <3>2. \A q \in Before[p] : Ok(q) BY <3>1, <1>9, <2>1 DEF OrderInv
    <3> QED BY <3>2, <2>1, <1>7, <1>8
  <2> QED BY <2>1, <2>2, <1>8
<1>11. \A m \in running' : done'[m] = "no" /\ \A q \in Before[m] : Ok(q)'
  BY <1>4, <1>10, <1>6, <1>7, <1>8, <1>2 DEF OrderInv
<1>12. \A m \in DOMAIN graph : Begun(m)' => \A q \in Before[m] : Ok(q)'
  BY <1>6, <1>7, <1>8, <1>9, <1>2 DEF OrderInv, Begun
<1>13. \A m \in DOMAIN graph :
       done'[m] = "no" /\ (\A p \in graph[m].after : Ok(p)') => m \in running' \/ halted
  BY <1>4, <1>6, <1>2, <1>3 DEF Ok
<1>14. sent' \subseteq running' \cup {m \in DOMAIN graph : Begun(m)'}
  BY <1>4, <1>6, <1>2, <1>3 DEF OrderInv, Begun
<1>15. result' # "running" => running' = {} BY <1>4
<1>16. (result' = "passed" => \A m \in DOMAIN graph : done'[m] # "failed") /\ (result' = "failed" => halted)
  BY <1>4
<1> HIDE DEF started
<1> QED BY <1>3, <1>5, <1>11, <1>12, <1>13, <1>14, <1>15, <1>16 DEF OrderInv

LEMMA AllPassed ==
  ASSUME CatalogTypeOK, OrderInv, result = "passed"
  PROVE  \A n \in DOMAIN graph : Ok(n)
<1>1. Ordered(graph, Before) BY Rules DEF Disciplined
<1> DEFINE Left == {n \in DOMAIN graph : ~Ok(n)}
           Rank(n) == Cardinality(Before[n])
           Ranks == {Rank(n) : n \in Left}
<1> SUFFICES ASSUME Left # {} PROVE FALSE OBVIOUS
<1>2. \A n \in DOMAIN graph : IsFiniteSet(Before[n]) /\ Rank(n) \in Nat
  BY <1>1, FS_Subset, FS_CardinalityType DEF Ordered
<1>3. Ranks \subseteq Nat /\ Ranks # {} BY <1>2
<1>4. PICK x \in Ranks : \A y \in Ranks : ~(<<y, x>> \in OpToRel(<, Nat))
  BY <1>3, NatLessThanWellFounded, WFMin
<1>5. \A y \in Ranks : ~(y < x) BY <1>3, <1>4 DEF OpToRel
<1>6. PICK n \in Left : Rank(n) = x OBVIOUS
<1>7. \A p \in graph[n].after : p \in DOMAIN graph /\ Before[p] \subseteq Before[n] /\ p \in Before[n] /\ p \notin Before[p]
  BY <1>1 DEF Ordered
<1>8. \A p \in graph[n].after : Rank(p) < Rank(n)
  <2> TAKE p \in graph[n].after
  <2>1. Before[p] \subseteq Before[n] /\ Before[p] # Before[n] /\ IsFiniteSet(Before[n]) BY <1>7, <1>2
  <2> QED BY <2>1, FS_Subset, <1>2, <1>7
<1>9. \A p \in graph[n].after : Ok(p) BY <1>5, <1>6, <1>7, <1>8
<1> QED BY <1>9 DEF OrderInv, CatalogTypeOK, Ok
-----------------------------------------------------------------------------
(* The steps, one by one.                                                  *)
NodeStep(n) ==
  \/ TurnStarts(n) \/ TurnEnds(n) \/ CheckEnds(n) \/ RequestSent(n) \/ PollEnds(n)
  \/ CommandEnds(n) \/ MemoryURIEnds(n) \/ SessionNewEnds(n) \/ CompactEnds(n)
  \/ AddMemoryEnds(n) \/ RemoveEnds(n)

Deletes == result # "running" /\ \E t \in claimed \ handled : Delete(t)

LEMMA StepCases ==
  ASSUME [CatalogNext]_vars
  PROVE  \/ \E n \in running : NodeStep(n)
         \/ \E c \in DOMAIN session : Extract(c)
         \/ \E t \in pending : Index(t)
         \/ Deletes \/ UNCHANGED vars
<1>1. Cleanup => Deletes
  <2> SUFFICES ASSUME Cleanup PROVE Deletes OBVIOUS
  <2>1. (CHOOSE t \in claimed \ handled : TRUE) \in claimed \ handled BY DEF Cleanup
  <2> QED BY <2>1 DEF Cleanup, Deletes, Delete
<1>2. OneNode => \E n \in running : NodeStep(n) BY DEF OneNode, NodeStep
<1> QED BY <1>1, <1>2 DEF CatalogNext, Server

LEMMA MayFailBool == MayFail \subseteq BOOLEAN
BY DEF MayFail

(* A node that ends, and one that only begins.                             *)
Ending(n) == \E good \in BOOLEAN : Finish(n, good)

LEMMA NodeKinds ==
  ASSUME CatalogTypeOK, NEW n \in running, NodeStep(n)
  PROVE  \/ Ending(n) /\ sent' = sent
         \/ UNCHANGED <<fixed, progress>> /\ sent' = sent \cup {n} /\ n \notin sent
<1>1. CASE TurnStarts(n) BY <1>1 DEF TurnStarts
<1>2. CASE TurnEnds(n) BY <1>2, MayFailBool DEF TurnEnds, Ending
<1>3. CASE CheckEnds(n)
  <2>1. Accepts(n) \in BOOLEAN
    BY <1>3 DEF CheckEnds, Accepts
  <2> QED BY <2>1, <1>3 DEF CheckEnds, Ending
<1>4. CASE RequestSent(n) BY <1>4 DEF RequestSent
<1>5. CASE PollEnds(n) BY <1>5 DEF PollEnds, Ending
<1>6. CASE CommandEnds(n)
  <2>1. PICK good \in MayFail : Finish(n, good \/ graph[n].op = "Search") BY <1>6 DEF CommandEnds
  <2>2. (good \/ graph[n].op = "Search") \in BOOLEAN OBVIOUS
  <2> QED BY <2>1, <2>2, <1>6 DEF CommandEnds, Ending
<1>7. CASE MemoryURIEnds(n) BY <1>7 DEF MemoryURIEnds, Ending
<1>8. CASE SessionNewEnds(n)
  <2>1. PICK created \in MayFail, answered \in MayFail : Finish(n, created /\ answered)
    BY <1>8 DEF SessionNewEnds
  <2>2. (created /\ answered) \in BOOLEAN OBVIOUS
  <2> QED BY <2>1, <2>2, <1>8 DEF SessionNewEnds, Ending
<1>9. CASE CompactEnds(n) BY <1>9, MayFailBool DEF CompactEnds, Ending
<1>10. CASE AddMemoryEnds(n) BY <1>10, MayFailBool DEF AddMemoryEnds, Ending
<1>11. CASE RemoveEnds(n) BY <1>11, MayFailBool DEF RemoveEnds, Ending
<1> QED BY <1>1, <1>2, <1>3, <1>4, <1>5, <1>6, <1>7, <1>8, <1>9, <1>10, <1>11 DEF NodeStep

LEMMA OtherKinds ==
  ASSUME \/ \E c \in DOMAIN session : Extract(c)
         \/ \E t \in pending : Index(t)
         \/ Deletes \/ UNCHANGED vars
  PROVE  UNCHANGED <<fixed, progress, sent, turn, found, uri, claimed>>
BY DEF Extract, Index, Deletes, Delete, vars, cleanup

LEMMA OrderStep ==
  ASSUME CatalogTypeOK, OrderInv, [CatalogNext]_vars
  PROVE  OrderInv'
<1>1. ASSUME NEW n \in running, NodeStep(n) PROVE OrderInv'
  <2>1. CASE Ending(n) /\ sent' = sent BY <2>1, FinishOrder DEF Ending
  <2>2. CASE UNCHANGED <<fixed, progress>> /\ sent' = sent \cup {n}
    BY <2>2 DEF OrderInv, fixed, progress, Begun, Ok, Before
  <2> QED BY <1>1, <2>1, <2>2, NodeKinds
<1>2. CASE UNCHANGED <<fixed, progress, sent>>
  BY <1>2 DEF OrderInv, fixed, progress, Begun, Ok, Before
<1> QED BY <1>1, <1>2, StepCases, OtherKinds

LEMMA TurnResult ==
  ASSUME NEW n, TurnEnds(n)
  PROVE  \E did \in Does(n), stray \in Strays(n) : \E basis \in Bases(n, stray) :
           turn' = [turn EXCEPT ![n] = Ended(n, did, stray, basis)]
BY DEF TurnEnds

LEMMA TypeStep ==
  ASSUME CatalogTypeOK, [CatalogNext]_vars
  PROVE  CatalogTypeOK'
<1>0. running \subseteq DOMAIN graph BY DEF CatalogTypeOK
<1> DEFINE ProgressTyped ==
      /\ UNCHANGED fixed /\ running' \subseteq DOMAIN graph /\ sent' \subseteq DOMAIN graph
      /\ done' \in [DOMAIN graph -> {"no", "ok", "failed"}]
      /\ result' \in {"running", "passed", "failed"}
    SessionTyped ==
      session' \in [Conversations(graph) -> {"none", "open", "committed", "extracted", "empty"}]
    TurnTyped == turn' \in [Nodes("Turn") -> TurnType]
    FoundTyped == found' = [n \in Used |-> found'[n]]
<1>1. ProgressTyped
  <2>1. ASSUME NEW n \in running, NodeStep(n) PROVE ProgressTyped
    <3>1. CASE Ending(n) /\ sent' = sent
      BY <3>1, <1>0, FinishFacts DEF Ending, CatalogTypeOK
    <3>2. CASE UNCHANGED <<fixed, progress>> /\ sent' = sent \cup {n}
      BY <3>2, <1>0 DEF CatalogTypeOK, progress
    <3> QED BY <2>1, <3>1, <3>2, NodeKinds
  <2>2. CASE UNCHANGED <<fixed, progress, sent>>
    BY <2>2 DEF CatalogTypeOK, progress
  <2> QED BY <2>1, <2>2, StepCases, OtherKinds
<1>2. graph' = graph /\ case' = case /\ faults' = faults BY <1>1 DEF fixed
<1>3. SessionTyped
  <2>0. session \in [Conversations(graph) -> {"none", "open", "committed", "extracted", "empty"}]
    BY DEF CatalogTypeOK
  <2>1. ASSUME NEW n \in running, NodeStep(n), session' # session PROVE SessionTyped
    <3>1. CASE TurnStarts(n) BY <3>1, <2>0 DEF TurnStarts
    <3>2. CASE TurnEnds(n) BY <3>2, <2>0 DEF TurnEnds
    <3>3. CASE RequestSent(n) BY <3>3, <2>0 DEF RequestSent
    <3>4. CASE SessionNewEnds(n) BY <3>4, <2>0 DEF SessionNewEnds
    <3>5. CASE CompactEnds(n) BY <3>5, <2>0 DEF CompactEnds
    <3> QED BY <2>1, <3>1, <3>2, <3>3, <3>4, <3>5 DEF NodeStep, CheckEnds, PollEnds, CommandEnds,
          MemoryURIEnds, AddMemoryEnds, RemoveEnds, world
  <2>2. CASE \E c \in DOMAIN session : Extract(c) BY <2>2, <2>0 DEF Extract
  <2>3. CASE (\E t \in pending : Index(t)) \/ Deletes \/ UNCHANGED vars
    BY <2>3, <2>0 DEF Index, Deletes, Delete, vars, world
  <2> QED BY <2>0, <2>1, <2>2, <2>3, StepCases
<1>4. TurnTyped
  <2>0. turn \in [Nodes("Turn") -> TurnType] BY DEF CatalogTypeOK
  <2>1. ASSUME NEW n \in running, TurnStarts(n) PROVE TurnTyped
    <3> DEFINE others == {m \in (running \cap sent) \cap Nodes("Turn") : graph[m].dir = graph[n].dir}
    <3>1. turn' = [m \in DOMAIN turn |->
             [turn[m] EXCEPT !.clash = @ \/ (others # {} /\ m \in others \cup {n}),
                             !.primed = IF m = n THEN \E t \in present : t[1] = "memory" ELSE @]]
      BY <2>1 DEF TurnStarts
    <3> HIDE DEF others
    <3>2. ASSUME NEW m \in Nodes("Turn"), NEW x \in BOOLEAN, NEW y \in BOOLEAN
          PROVE  [turn[m] EXCEPT !.clash = x, !.primed = y] \in TurnType
      BY <2>0 DEF TurnType
    <3>3. \A m \in Nodes("Turn") :
            /\ (turn[m].clash \/ (others # {} /\ m \in others \cup {n})) \in BOOLEAN
            /\ (IF m = n THEN \E t \in present : t[1] = "memory" ELSE turn[m].primed) \in BOOLEAN
      BY <2>0 DEF TurnType
    <3> QED BY <3>1, <3>2, <3>3, <2>0
  <2>2. ASSUME NEW n \in running, TurnEnds(n) PROVE TurnTyped
    <3>1. PICK did \in Does(n), stray \in Strays(n) : \E basis \in Bases(n, stray) :
            turn' = [turn EXCEPT ![n] = Ended(n, did, stray, basis)]
      BY <2>2, TurnResult
    <3>2. PICK basis \in Bases(n, stray) : turn' = [turn EXCEPT ![n] = Ended(n, did, stray, basis)]
      BY <3>1
    <3>3. n \in Nodes("Turn") BY <2>2 DEF TurnEnds
    <3>4. did \subseteq graph[n].jobs BY DEF Does
    <3>5. stray \in StrayCalls BY DEF Strays, StrayCalls
    <3>6. basis \in {"none", "context", "history", "tool", "wrong"} BY DEF Bases
    <3>7. did \in SUBSET UNION {graph[m].jobs : m \in Nodes("Turn")} BY <3>3, <3>4
    <3>8. Ended(n, did, stray, basis) \in TurnType
      BY <2>0, <3>3, <3>5, <3>6, <3>7 DEF TurnType, Ended
    <3> QED BY <2>0, <3>2, <3>8
  <2>3. ASSUME NEW n \in running, NodeStep(n), ~TurnStarts(n), ~TurnEnds(n) PROVE turn' = turn
    BY <2>3 DEF NodeStep, CheckEnds, RequestSent, PollEnds, CommandEnds,
          MemoryURIEnds, SessionNewEnds, CompactEnds, AddMemoryEnds, RemoveEnds
  <2> QED BY <2>0, <2>1, <2>2, <2>3, StepCases, OtherKinds
<1>5. FoundTyped
  <2>0. found = [n \in Used |-> found[n]] BY DEF CatalogTypeOK
  <2>1. ASSUME NEW n \in running, NodeStep(n), found' # found PROVE FoundTyped
    <3>1. PollEnds(n)
      BY <2>1 DEF NodeStep, TurnStarts, TurnEnds, CheckEnds, RequestSent, CommandEnds,
          MemoryURIEnds, SessionNewEnds, CompactEnds, AddMemoryEnds, RemoveEnds
    <3>2. found' = [m \in DOMAIN found |-> IF m = n THEN Matches(n) ELSE found[m]]
      BY <2>1, <3>1 DEF PollEnds
    <3>3. DOMAIN found = Used BY <2>0
    <3> QED BY <3>2, <3>3
  <2> QED BY <2>0, <2>1, StepCases, OtherKinds
<1> QED BY <1>1, <1>2, <1>3, <1>4, <1>5 DEF CatalogTypeOK, Nodes, Used, TurnType
-----------------------------------------------------------------------------
(* What a step leaves as it is.                                            *)
LEMMA Static ==
  ASSUME CatalogTypeOK, [CatalogNext]_vars
  PROVE  graph' = graph /\ case' = case /\ faults' = faults /\ leftovers' = leftovers /\ Before' = Before
<1>1. running \subseteq DOMAIN graph BY DEF CatalogTypeOK
<1>2. ASSUME NEW n \in running, NodeStep(n) PROVE UNCHANGED fixed
  <2>1. CASE Ending(n) BY <2>1, <1>1, FinishFacts DEF Ending
  <2> QED BY <2>1, <1>2, NodeKinds
<1>3. UNCHANGED fixed BY <1>2, StepCases, OtherKinds
<1> QED BY <1>3 DEF fixed, Before

(* Only a running node can end.                                            *)
LEMMA Ends ==
  ASSUME CatalogTypeOK, OrderInv, [CatalogNext]_vars, NEW m \in DOMAIN graph
  PROVE  /\ Begun(m) => done'[m] = done[m]
         /\ Begun(m)' /\ ~Begun(m) => m \in running /\ NodeStep(m) /\ done[m] = "no" /\ sent' = sent
         /\ Ok(m)' /\ ~Ok(m) => m \in running /\ NodeStep(m) /\ done[m] = "no" /\ sent' = sent
<1>1. running \subseteq DOMAIN graph /\ done \in [DOMAIN graph -> {"no", "ok", "failed"}]
  BY DEF CatalogTypeOK
<1>2. ASSUME NEW n \in running, NodeStep(n)
      PROVE  (m # n => done'[m] = done[m]) /\ done[n] = "no" /\ (done' = done \/ sent' = sent)
  <2>0. done[n] = "no" BY DEF OrderInv
  <2>1. CASE Ending(n) /\ sent' = sent BY <2>1, <2>0, <1>1, FinishFacts DEF Ending
  <2>2. CASE UNCHANGED progress BY <2>2, <2>0 DEF progress
  <2> QED BY <2>1, <2>2, <1>2, NodeKinds
<1>3. CASE done' = done BY <1>3 DEF Begun, Ok
<1>4. CASE \E n \in running : NodeStep(n) BY <1>4, <1>2, <1>1 DEF Begun, Ok
<1> QED BY <1>3, <1>4, StepCases, OtherKinds DEF progress

LEMMA Grows ==
  ASSUME CatalogTypeOK, OrderInv, [CatalogNext]_vars
  PROVE  /\ \A m \in DOMAIN graph :
              (Begun(m) => Begun(m)') /\ (Ok(m) => Ok(m)') /\ (Gave(m) => Gave(m)')
         /\ \A t : Given(t) => Given(t)'
         /\ \A t : Removed(t) => Removed(t)'
         /\ sent \subseteq sent' /\ ever \subseteq ever' /\ claimed \subseteq claimed'
<1>1. graph' = graph BY Static
<1>2. \A m \in DOMAIN graph : (Begun(m) => Begun(m)') /\ (Ok(m) => Ok(m)')
  BY Ends DEF Begun, Ok
<1>3. sent \subseteq sent' BY NodeKinds, StepCases, OtherKinds
<1>4. \A m \in DOMAIN graph : Gave(m) => Gave(m)' BY <1>1, <1>2, <1>3 DEF Gave
<1>5. ever \subseteq ever'
  BY StepCases DEF NodeStep, TurnStarts, TurnEnds, CheckEnds, RequestSent, PollEnds, CommandEnds,
    MemoryURIEnds, SessionNewEnds, CompactEnds, AddMemoryEnds, RemoveEnds, Extract, Index, Deletes,
    Delete, vars, world
<1>6. claimed \subseteq claimed'
  BY StepCases, OtherKinds DEF NodeStep, TurnStarts, TurnEnds, CheckEnds, RequestSent, PollEnds,
    CommandEnds, MemoryURIEnds, SessionNewEnds, CompactEnds, AddMemoryEnds, RemoveEnds
<1> QED BY <1>1, <1>2, <1>3, <1>4, <1>5, <1>6 DEF Given, Removed

LEMMA StepOf ==
  ASSUME NEW n, NodeStep(n)
  PROVE  /\ graph[n].op = "Turn" /\ n \in DOMAIN graph => TurnStarts(n) \/ TurnEnds(n)
         /\ graph[n].op \in {"Evidence", "Text", "Check"} => CheckEnds(n)
         /\ graph[n].op \in Polls \ Requests => PollEnds(n)
         /\ graph[n].op \in Requests => RequestSent(n) \/ PollEnds(n)
         /\ graph[n].op = "MemoryURI" => MemoryURIEnds(n)
         /\ graph[n].op = "SessionNew" => SessionNewEnds(n)
         /\ graph[n].op = "Compact" => CompactEnds(n)
         /\ graph[n].op = "AddMemory" => AddMemoryEnds(n)
         /\ graph[n].op = "Remove" => RemoveEnds(n)
BY DEF NodeStep, TurnStarts, TurnEnds, CheckEnds, RequestSent, PollEnds, CommandEnds, Nodes,
    MemoryURIEnds, SessionNewEnds, CompactEnds, AddMemoryEnds, RemoveEnds, Polls, Requests

LEMMA TurnKept ==
  ASSUME CatalogTypeOK, [CatalogNext]_vars, NEW m \in Nodes("Turn"), ~(m \in running /\ TurnEnds(m))
  PROVE  turn'[m].did = turn[m].did /\ turn'[m].stray = turn[m].stray /\ turn'[m].basis = turn[m].basis
<1>0. turn \in [Nodes("Turn") -> TurnType] BY DEF CatalogTypeOK
<1>1. ASSUME NEW n \in running, TurnStarts(n)
      PROVE  turn'[m].did = turn[m].did /\ turn'[m].stray = turn[m].stray /\ turn'[m].basis = turn[m].basis
  <2> DEFINE others == {k \in (running \cap sent) \cap Nodes("Turn") : graph[k].dir = graph[n].dir}
  <2>1. turn' = [k \in DOMAIN turn |->
             [turn[k] EXCEPT !.clash = @ \/ (others # {} /\ k \in others \cup {n}),
                             !.primed = IF k = n THEN \E t \in present : t[1] = "memory" ELSE @]]
    BY <1>1 DEF TurnStarts
  <2> HIDE DEF others
  <2>2. turn'[m] = [turn[m] EXCEPT !.clash = @ \/ (others # {} /\ m \in others \cup {n}),
                             !.primed = IF m = n THEN \E t \in present : t[1] = "memory" ELSE @]
    BY <2>1, <1>0
  <2>3. turn[m] \in TurnType BY <1>0
  <2> QED BY <2>2, <2>3 DEF TurnType
<1>2. ASSUME NEW n \in running, TurnEnds(n) PROVE turn'[m] = turn[m]
  BY <1>0, <1>2, TurnResult
<1>3. ASSUME NEW n \in running, NodeStep(n), ~TurnStarts(n), ~TurnEnds(n) PROVE turn' = turn
  BY <1>3 DEF NodeStep, CheckEnds, RequestSent, PollEnds, CommandEnds,
        MemoryURIEnds, SessionNewEnds, CompactEnds, AddMemoryEnds, RemoveEnds
<1> QED BY <1>1, <1>2, <1>3, StepCases, OtherKinds

LEMMA SentStep ==
  ASSUME CatalogTypeOK, OrderInv, SentInv, [CatalogNext]_vars
  PROVE  SentInv'
<1>1. graph' = graph /\ sent \subseteq sent' BY Static, Grows
<1>2. ASSUME NEW n \in DOMAIN graph, Begun(n)', ~Begun(n), graph[n].op \in Requests \cup {"Turn"}
      PROVE  n \in sent
  <2>1. NodeStep(n) /\ sent' = sent /\ n \in running BY <1>2, Ends
  <2> QED BY <1>2, <2>1, StepOf DEF TurnStarts, TurnEnds, RequestSent, PollEnds, Requests, Polls
<1> QED BY <1>1, <1>2 DEF SentInv
-----------------------------------------------------------------------------
(* What a node brings to the server, and when.                             *)
LEMMA AddedGives ==
  ASSUME NEW n \in Nodes("Turn"), NEW did \in Does(n), NEW stray \in Strays(n)
  PROVE  /\ did \subseteq graph[n].jobs /\ stray \in StrayCalls
         /\ stray # "none" => MayStray(graph[n])
         /\ Added(n, did, stray) \subseteq Gives(graph[n])
         /\ \A t \in Added(n, did, stray) : t[1] # "session" /\ (t[1] = "memory" => t = ToolMemory)
         /\ ToolMemory \in Added(n, did, stray) => stray # "none" \/ ToolMemory \in JobThings(graph[n].jobs)
<1>1. graph[n].op = "Turn" BY DEF Nodes
<1>2. did \subseteq graph[n].jobs BY DEF Does
<1>3. stray \in StrayCalls /\ (stray # "none" => MayStray(graph[n]))
  BY <1>1 DEF Strays, MayStray, StrayCalls
<1>4. JobThings(did) \subseteq JobThings(graph[n].jobs) BY <1>2 DEF JobThings
<1>5. Added(n, did, stray) = JobThings(did) \cup (IF stray # "none" /\ ~graph[n].recalls THEN {ToolMemory} ELSE {})
  BY DEF Added, JobThings, ToolMemory
<1>6. Added(n, did, stray) \subseteq Gives(graph[n]) BY <1>1, <1>3, <1>4, <1>5, GivesOf
<1>7. \A t \in Added(n, did, stray) : t[1] # "session" /\ (t[1] = "memory" => t = ToolMemory)
  BY <1>5, Jobs2 DEF ToolMemory
<1>8. ToolMemory \in Added(n, did, stray) => stray # "none" \/ ToolMemory \in JobThings(graph[n].jobs)
  BY <1>4, <1>5
<1> QED BY <1>2, <1>3, <1>6, <1>7, <1>8

LEMMA CaughtGives ==
  ASSUME NEW n \in Nodes("Turn"), NEW did, NEW c \in Caught(n, did)
  PROVE  <<"session", c>> \in Gives(graph[n]) /\ <<"memory", c>> \in Gives(graph[n])
<1>1. graph[n].op = "Turn" /\ c \in graph[n].captures BY DEF Nodes, Caught
<1> QED BY <1>1, GivesOf

Adds(n) ==
  /\ ever' = ever
  /\ \A t \in pending' \ pending :
       t[1] # "session" /\ t \in Gives(graph[n]) /\ ~Gave(n) /\ Gave(n)' 
  /\ \A t \in present' \ present :
       t[1] = "session" /\ t \in Gives(graph[n]) /\ ~Gave(n) /\ Gave(n)'
  /\ \A c \in DOMAIN session : session'[c] # session[c] =>
       \/ /\ <<"session", c>> \in Gives(graph[n]) /\ ~Gave(n) /\ Gave(n)'
          /\ session'[c] = "open" \/ (session'[c] = "committed" /\ <<"memory", c>> \in Gives(graph[n]))
       \/ /\ session[c] = "open" /\ session'[c] = "committed"
          /\ \E m \in Nodes("Turn") : c \in graph[m].captures
       \/ /\ graph[n].op = "SessionCommit" /\ c = graph[n].conv /\ session'[c] = "committed"
          /\ ~Gave(n) /\ Gave(n)'

LEMMA NodeAdds ==
  ASSUME CatalogTypeOK, OrderInv, NEW n \in running, NodeStep(n)
  PROVE  Adds(n)
<1>0. /\ n \in DOMAIN graph /\ done[n] = "no" /\ done \in [DOMAIN graph -> {"no", "ok", "failed"}]
      /\ session \in [Conversations(graph) -> {"none", "open", "committed", "extracted", "empty"}]
  BY DEF CatalogTypeOK, OrderInv
<1>1. ASSUME Ending(n), graph[n].op \notin Requests PROVE ~Gave(n) /\ Gave(n)'
  <2>1. graph' = graph /\ done'[n] \in {"ok", "failed"} BY <1>0, <1>1, FinishFacts DEF Ending, fixed
  <2> QED BY <2>1, <1>0, <1>1 DEF Gave, Begun
<1>2. ASSUME TurnStarts(n) PROVE Adds(n)
  <2>1. \A c \in DOMAIN session : session'[c] # session[c] =>
          /\ session[c] = "open" /\ session'[c] = "committed"
          /\ \E m \in Nodes("Turn") : c \in graph[m].captures
    <3> DEFINE opened == UNION {LeftOpen(m, n, "next startup") : m \in Nodes("Turn")}
    <3>1. session' = [c \in DOMAIN session |-> IF c \in opened THEN "committed" ELSE session[c]]
      BY <1>2 DEF TurnStarts
    <3> QED BY <3>1 DEF LeftOpen
  <2> QED BY <2>1, <1>2 DEF Adds, TurnStarts
<1>3. ASSUME TurnEnds(n) PROVE Adds(n)
  <2>1. PICK did \in Does(n), stray \in Strays(n), hooks \in MayFail :
        LET caught == IF hooks THEN Caught(n, did) ELSE {} IN
        /\ pending' = (pending \cup Added(n, did, stray)) \ Forgotten(did)
        /\ \E gone \in Gone(Forgotten(did)) :
             present' = (present \cup {<<"session", c>> : c \in caught}) \ gone
        /\ session' = [c \in DOMAIN session |->
             IF c \notin caught THEN session[c]
             ELSE IF graph[n].commits = "end of turn" THEN "committed" ELSE "open"]
    BY <1>3 DEF TurnEnds
  <2> DEFINE caught == IF hooks THEN Caught(n, did) ELSE {}
  <2>2. n \in Nodes("Turn") /\ ever' = ever BY <1>3 DEF TurnEnds
  <2>3. ~Gave(n) /\ Gave(n)'
    BY <1>1, <1>3, MayFailBool, <2>2 DEF TurnEnds, Ending, Nodes, Requests
  <2>4. \A c \in caught : <<"session", c>> \in Gives(graph[n]) /\ <<"memory", c>> \in Gives(graph[n])
    BY <2>2, CaughtGives
  <2>5. \A t \in Added(n, did, stray) : t[1] # "session" /\ t \in Gives(graph[n])
    BY <2>2, AddedGives
  <2>6. /\ pending' \ pending \subseteq Added(n, did, stray)
        /\ present' \ present \subseteq {<<"session", c>> : c \in caught}
        /\ \A c \in DOMAIN session : session'[c] # session[c] =>
             c \in caught /\ session'[c] \in {"open", "committed"}
    BY <2>1
  <2> HIDE DEF caught
  <2>7. \A t \in pending' \ pending : t[1] # "session" /\ t \in Gives(graph[n]) BY <2>5, <2>6
  <2>8. \A t \in present' \ present : t[1] = "session" /\ t \in Gives(graph[n])
    <3> TAKE t \in present' \ present
    <3>1. PICK c \in caught : t = <<"session", c>> BY <2>6
    <3> QED BY <3>1, <2>4
  <2>9. \A c \in DOMAIN session : session'[c] # session[c] =>
          /\ <<"session", c>> \in Gives(graph[n]) /\ <<"memory", c>> \in Gives(graph[n])
          /\ session'[c] = "open" \/ session'[c] = "committed"
    BY <2>4, <2>6
  <2> QED BY <2>2, <2>3, <2>7, <2>8, <2>9 DEF Adds
<1>4. ASSUME RequestSent(n) PROVE Adds(n)
  <2>1. graph' = graph /\ ever' = ever /\ present' = present BY <1>4 DEF RequestSent, fixed
  <2>2. ~Gave(n) /\ Gave(n)' BY <2>1, <1>4 DEF RequestSent, Gave
  <2>3. CASE graph[n].op = "SessionCommit"
    <3>1. session' = [session EXCEPT ![graph[n].conv] = "committed"] /\ pending' = pending
      BY <1>4, <2>3 DEF RequestSent
    <3> QED BY <3>1, <2>1, <2>2, <2>3, <1>0 DEF Adds
  <2>4. CASE graph[n].op # "SessionCommit"
    <3>1. graph[n].op = "AddResource" /\ session' = session
          /\ pending' = pending \cup {<<"resource", "local">>}
      BY <1>4, <2>4 DEF RequestSent, Requests
    <3>2. Gives(graph[n]) = {<<"resource", "local">>} BY <3>1, GivesOf
    <3> QED BY <3>1, <3>2, <2>1, <2>2 DEF Adds
  <2> QED BY <2>3, <2>4
<1>5. ASSUME SessionNewEnds(n) PROVE Adds(n)
  <2>1. PICK created \in MayFail :
       /\ session' = [session EXCEPT ![graph[n].conv] = IF created THEN "open" ELSE @]
       /\ present' = IF created THEN present \cup {<<"session", graph[n].conv>>} ELSE present
    BY <1>5 DEF SessionNewEnds
  <2>2. pending' = pending /\ ever' = ever /\ graph[n].op = "SessionNew" BY <1>5 DEF SessionNewEnds
  <2>3. \E good \in BOOLEAN : Finish(n, good)
    <3>1. PICK one \in MayFail, two \in MayFail : Finish(n, one /\ two) BY <1>5 DEF SessionNewEnds
    <3>2. (one /\ two) \in BOOLEAN OBVIOUS
    <3> QED BY <3>1, <3>2
  <2>4. ~Gave(n) /\ Gave(n)' BY <1>1, <2>2, <2>3 DEF Ending, Requests
  <2>5. Gives(graph[n]) = {<<"session", graph[n].conv>>} BY <2>2, GivesOf
  <2>6. \A c \in DOMAIN session : session'[c] # session[c] => c = graph[n].conv /\ session'[c] = "open"
    BY <2>1, <1>0
  <2> QED BY <2>1, <2>2, <2>4, <2>5, <2>6 DEF Adds
<1>6. ASSUME CompactEnds(n) PROVE Adds(n)
  <2>1. /\ ever' = ever /\ pending' = pending /\ present' = present
        /\ \E good : session' = [c \in DOMAIN session |->
            IF good /\ c \in graph[graph[n].of].captures /\ session[c] = "open"
              /\ graph[graph[n].of].commits = "compaction" THEN "committed" ELSE session[c]]
        /\ graph[n].op = "Compact"
    BY <1>6 DEF CompactEnds
  <2>2. graph[n].of \in Nodes("Turn")
    BY <2>1, <1>0, Rules DEF Disciplined, Refers, Ordered, Nodes
  <2> QED BY <2>1, <2>2 DEF Adds
<1>7. ASSUME AddMemoryEnds(n) PROVE Adds(n)
  <2>1. /\ ever' = ever /\ session' = session /\ present' = present /\ graph[n].op = "AddMemory"
        /\ pending' \ pending \subseteq {<<"memory", graph[n].conv>>}
    BY <1>7 DEF AddMemoryEnds
  <2>2. ~Gave(n) /\ Gave(n)' BY <1>1, <1>7, MayFailBool DEF AddMemoryEnds, Ending, Requests
  <2>3. Gives(graph[n]) = {<<"memory", graph[n].conv>>} BY <2>1, GivesOf
  <2> QED BY <2>1, <2>2, <2>3 DEF Adds
<1>8. ASSUME RemoveEnds(n) PROVE Adds(n) BY <1>8 DEF RemoveEnds, Adds
<1>9. ASSUME UNCHANGED world PROVE Adds(n) BY <1>9 DEF world, Adds
<1> QED BY <1>2, <1>3, <1>4, <1>5, <1>6, <1>7, <1>8, <1>9
      DEF NodeStep, CheckEnds, PollEnds, CommandEnds, MemoryURIEnds
-----------------------------------------------------------------------------
(* What the server does with it.                                           *)
ServerStep ==
  \/ \E c \in DOMAIN session : Extract(c)
  \/ \E t \in pending : Index(t)
  \/ Deletes \/ UNCHANGED vars

LEMMA ServerAdds ==
  ASSUME CatalogTypeOK, ServerStep
  PROVE  /\ \A t \in pending' \ pending : \E c \in DOMAIN session :
              t = <<"memory", c>> /\ session[c] = "committed" /\ session'[c] = "extracted"
         /\ \A t \in present' \ present : t \in pending /\ t \notin pending' /\ t \in ever'
         /\ \A t \in ever' \ ever : t \in pending /\ t \notin pending'
         /\ \A c \in DOMAIN session : session'[c] # session[c] =>
              session[c] = "committed" /\ session'[c] \in {"extracted", "empty"}
<1>0. session \in [Conversations(graph) -> {"none", "open", "committed", "extracted", "empty"}]
  BY DEF CatalogTypeOK
<1>1. ASSUME NEW c \in DOMAIN session, Extract(c)
      PROVE  /\ pending' \ pending \subseteq {<<"memory", c>>} /\ present' = present /\ ever' = ever
             /\ session[c] = "committed" /\ session'[c] \in {"extracted", "empty"}
             /\ pending' # pending => session'[c] = "extracted"
             /\ \A d \in DOMAIN session : d # c => session'[d] = session[d]
  BY <1>0, <1>1 DEF Extract
<1>2. CASE \E c \in DOMAIN session : Extract(c) BY <1>1, <1>2
<1>3. CASE \E t \in pending : Index(t) BY <1>3 DEF Index
<1>4. CASE Deletes BY <1>4 DEF Deletes, Delete
<1>5. CASE UNCHANGED vars BY <1>5 DEF vars, world
<1> QED BY <1>2, <1>3, <1>4, <1>5 DEF ServerStep

LEMMA TwoSteps ==
  ASSUME [CatalogNext]_vars
  PROVE  (\E n \in running : NodeStep(n)) \/ ServerStep
BY StepCases DEF ServerStep

(* What only one node gives is not there before that node gave it.         *)
LEMMA Fresh ==
  ASSUME CatalogTypeOK, WorldInv, SessionInv,
         NEW n \in DOMAIN graph, ~Gave(n), NEW t \in Gives(graph[n]), t # ToolMemory
  PROVE  /\ ~Given(t) /\ t \notin pending \cup present \cup ever
         /\ \A c \in DOMAIN session :
              /\ t = <<"session", c>> => session[c] = "none"
              /\ t = <<"memory", c>> => session[c] \notin {"committed", "extracted", "empty"}
<1>1. OneGiver(graph) BY Rules DEF Disciplined
<1>2. ~Given(t) BY <1>1 DEF OneGiver, Given
<1> QED BY <1>2 DEF WorldInv, SessionInv

LEMMA NoTool ==
  ASSUME CatalogTypeOK
  PROVE  /\ DOMAIN session = Conversations(graph)
         /\ \A c \in DOMAIN session : <<"memory", c>> # ToolMemory /\ <<"session", c>> # ToolMemory
         /\ \A m \in DOMAIN graph : ToolMemory \in Gives(graph[m]) => m \in Nodes("Turn")
         /\ \A m \in Nodes("Turn") : graph[m].captures \subseteq DOMAIN session
<1>1. OneGiver(graph) BY Rules DEF Disciplined
<1>2. DOMAIN session = Conversations(graph) BY DEF CatalogTypeOK
<1>3. "tool" \notin Conversations(graph) BY <1>1 DEF OneGiver
<1>4. \A m \in Nodes("Turn") : graph[m].captures \subseteq DOMAIN session
  BY <1>2 DEF Conversations, Nodes
<1>5. ASSUME NEW m \in DOMAIN graph, ToolMemory \in Gives(graph[m]), graph[m].op # "Turn" PROVE FALSE
  <2>1. CASE graph[m].op \in {"SessionCommit", "AddMemory"}
    <3>1. Gives(graph[m]) = {<<"memory", graph[m].conv>>} BY <2>1, GivesOf
    <3>2. graph[m].conv = "tool" BY <3>1, <1>5 DEF ToolMemory
    <3> QED BY <3>2, <2>1, <1>1, <1>3 DEF OneGiver
  <2>2. CASE graph[m].op \notin {"SessionCommit", "AddMemory"}
    BY <2>2, <1>5, GivesOf DEF ToolMemory
  <2> QED BY <2>1, <2>2
<1> QED BY <1>2, <1>3, <1>4, <1>5 DEF ToolMemory, Nodes

(* The session a node commits was opened by another node before.           *)
LEMMA CommitOpened ==
  ASSUME CatalogTypeOK, OrderInv, NEW n \in running, graph[n].op = "SessionCommit"
  PROVE  Given(<<"session", graph[n].conv>>)
<1>1. n \in DOMAIN graph /\ Refers(graph, Before) /\ Ordered(graph, Before)
  BY Rules DEF Disciplined, CatalogTypeOK
<1>2. PICK m \in Before[n] : graph[m].op = "SessionNew" /\ graph[m].conv = graph[n].conv
  BY <1>1 DEF Refers
<1>3. m \in DOMAIN graph /\ Ok(m) BY <1>1, <1>2 DEF OrderInv, Ordered
<1>4. Gives(graph[m]) = {<<"session", graph[n].conv>>} BY <1>2, GivesOf
<1>5. Gave(m) BY <1>2, <1>3 DEF Gave, Ok, Begun, Requests
<1> QED BY <1>3, <1>4, <1>5 DEF Given

(* How a conversation goes on.                                             *)
LEMMA SessionMoves ==
  ASSUME CatalogTypeOK, OrderInv, WorldInv, SessionInv, [CatalogNext]_vars,
         NEW c \in DOMAIN session, session'[c] # session[c]
  PROVE  \/ /\ session[c] = "none" /\ session'[c] \in {"open", "committed"}
            /\ Given(<<"session", c>>)'
            /\ session'[c] = "committed" => Given(<<"memory", c>>)'
         \/ /\ session[c] = "open" /\ session'[c] = "committed" /\ Given(<<"memory", c>>)'
         \/ /\ session[c] = "committed" /\ session'[c] \in {"extracted", "empty"}
<1>1. graph' = graph /\ OneGiver(graph) BY Static, Rules DEF Disciplined
<1>2. ASSUME NEW n \in running, NodeStep(n)
      PROVE  \/ /\ session[c] = "none" /\ session'[c] \in {"open", "committed"}
                /\ Given(<<"session", c>>)'
                /\ session'[c] = "committed" => Given(<<"memory", c>>)'
             \/ /\ session[c] = "open" /\ session'[c] = "committed" /\ Given(<<"memory", c>>)'
  <2>0. n \in DOMAIN graph BY DEF CatalogTypeOK
  <2>1. CASE /\ <<"session", c>> \in Gives(graph[n]) /\ ~Gave(n) /\ Gave(n)'
             /\ session'[c] = "open" \/ (session'[c] = "committed" /\ <<"memory", c>> \in Gives(graph[n]))
    <3>1. session[c] = "none" BY <2>0, <2>1, Fresh, NoTool
    <3> QED BY <2>0, <2>1, <3>1, <1>1 DEF Given
  <2>2. CASE /\ session[c] = "open" /\ session'[c] = "committed"
             /\ \E m \in Nodes("Turn") : c \in graph[m].captures
    <3>1. PICK m \in Nodes("Turn") : c \in graph[m].captures BY <2>2
    <3>2. m \in DOMAIN graph /\ <<"session", c>> \in Gives(graph[m]) /\ <<"memory", c>> \in Gives(graph[m])
      BY <3>1, GivesOf DEF Nodes
    <3>3. Given(<<"session", c>>) BY <2>2 DEF SessionInv
    <3>4. PICK k \in DOMAIN graph : <<"session", c>> \in Gives(graph[k]) /\ Gave(k) BY <3>3 DEF Given
    <3>5. k = m BY <3>2, <3>4, <1>1, NoTool DEF OneGiver
    <3>6. Given(<<"memory", c>>) BY <3>2, <3>4, <3>5 DEF Given
    <3> QED BY <3>6, <2>2, Grows
  <2>3. CASE /\ graph[n].op = "SessionCommit" /\ c = graph[n].conv /\ session'[c] = "committed"
             /\ ~Gave(n) /\ Gave(n)'
    <3>1. <<"memory", c>> \in Gives(graph[n]) BY <2>3, GivesOf
    <3>2. session[c] \notin {"committed", "extracted", "empty"} BY <2>0, <2>3, <3>1, Fresh, NoTool
    <3>3. Given(<<"memory", c>>)' BY <2>0, <2>3, <3>1, <1>1 DEF Given
    <3>4. Given(<<"session", c>>)' BY <2>3, CommitOpened, Grows
    <3>5. session[c] \in {"none", "open", "committed", "extracted", "empty"} BY DEF CatalogTypeOK
    <3> QED BY <2>3, <3>2, <3>3, <3>4, <3>5
  <2> QED BY <1>2, <2>1, <2>2, <2>3, NodeAdds DEF Adds
<1> QED BY <1>2, TwoSteps, ServerAdds

LEMMA NewPending ==
  ASSUME CatalogTypeOK, OrderInv, WorldInv, SessionInv, [CatalogNext]_vars, NEW t \in pending' \ pending
  PROVE  /\ t[1] # "session" /\ Given(t)'
         /\ t \in ever => /\ t = ToolMemory
                          /\ \E n \in running : NodeStep(n) /\ t \in Gives(graph[n]) /\ ~Gave(n)
         /\ \A c \in DOMAIN session : t = <<"memory", c>> =>
              session[c] = "committed" /\ session'[c] = "extracted"
<1>1. graph' = graph /\ OneGiver(graph) BY Static, Rules DEF Disciplined
<1>2. ASSUME NEW n \in running, NodeStep(n)
      PROVE  /\ t[1] # "session" /\ Given(t)'
             /\ t \in ever => t = ToolMemory /\ t \in Gives(graph[n]) /\ ~Gave(n)
             /\ \A c \in DOMAIN session : t # <<"memory", c>>
  <2>0. n \in DOMAIN graph BY DEF CatalogTypeOK
  <2>1. t[1] # "session" /\ t \in Gives(graph[n]) /\ ~Gave(n) /\ Gave(n)'
    BY <1>2, NodeAdds DEF Adds
  <2>2. Given(t)' BY <2>0, <2>1, <1>1 DEF Given
  <2>3. t \in ever => t = ToolMemory BY <2>0, <2>1, Fresh
  <2>4. ASSUME NEW c \in DOMAIN session, t = <<"memory", c>> PROVE FALSE
    <3>1. CASE TurnEnds(n)
      <4>1. n \in Nodes("Turn") /\ \E did \in Does(n), stray \in Strays(n) : t \in Added(n, did, stray)
        BY <3>1 DEF TurnEnds
      <4>2. t[1] = "memory" => t = ToolMemory BY <4>1, AddedGives
      <4> QED BY <4>2, <2>4, NoTool
    <3>2. CASE RequestSent(n)
      <4>1. t = <<"resource", "local">> BY <3>2 DEF RequestSent
      <4> QED BY <4>1, <2>4
    <3>3. CASE AddMemoryEnds(n)
      <4>1. graph[n].op = "AddMemory" /\ t = <<"memory", graph[n].conv>> BY <3>3 DEF AddMemoryEnds
      <4>2. graph[n].conv \notin Conversations(graph) BY <4>1, <2>0, <1>1 DEF OneGiver
      <4> QED BY <4>1, <4>2, <2>4, NoTool
    <3>4. CASE pending' = pending BY <3>4
    <3> QED BY <1>2, <3>1, <3>2, <3>3, <3>4 DEF NodeStep, TurnStarts, CheckEnds, PollEnds,
          CommandEnds, MemoryURIEnds, SessionNewEnds, CompactEnds, RemoveEnds, world
  <2> QED BY <2>1, <2>2, <2>3, <2>4
<1>3. ASSUME ServerStep
      PROVE  /\ t[1] # "session" /\ Given(t)' /\ t \notin ever
             /\ \A c \in DOMAIN session : t = <<"memory", c>> =>
                  session[c] = "committed" /\ session'[c] = "extracted"
  <2>1. PICK c \in DOMAIN session :
          t = <<"memory", c>> /\ session[c] = "committed" /\ session'[c] = "extracted"
    BY <1>3, ServerAdds
  <2>2. Given(t) BY <2>1 DEF SessionInv
  <2>3. t \notin ever BY <2>1 DEF SessionInv
  <2> QED BY <2>1, <2>2, <2>3, Grows
<1> QED BY <1>2, <1>3, TwoSteps

LEMMA NewPresent ==
  ASSUME CatalogTypeOK, OrderInv, [CatalogNext]_vars
  PROVE  /\ \A t \in present' \ present :
              \/ t \in pending /\ t \notin pending' /\ t \in ever'
              \/ t[1] = "session" /\ Given(t)'
         /\ \A t \in ever' \ ever : t \in pending /\ t \notin pending'
<1>1. graph' = graph /\ running \subseteq DOMAIN graph BY Static DEF CatalogTypeOK
<1>2. ASSUME NEW n \in running, NodeStep(n)
      PROVE  ever' = ever /\ \A t \in present' \ present : t[1] = "session" /\ Given(t)'
  BY <1>1, <1>2, NodeAdds DEF Adds, Given
<1> QED BY <1>2, TwoSteps, ServerAdds

LEMMA SessionStep ==
  ASSUME CatalogTypeOK, OrderInv, WorldInv, SessionInv, [CatalogNext]_vars
  PROVE  SessionInv'
<1>1. DOMAIN session' = DOMAIN session BY TypeStep, Static DEF CatalogTypeOK
<1> SUFFICES ASSUME NEW c \in DOMAIN session
    PROVE /\ session'[c] # "none" => Given(<<"session", c>>)'
          /\ session'[c] \in {"committed", "extracted", "empty"} => Given(<<"memory", c>>)'
          /\ <<"memory", c>> \in pending' \cup ever' => session'[c] = "extracted"
  BY <1>1 DEF SessionInv
<1>2. <<"memory", c>> \in pending' \cup ever' =>
        <<"memory", c>> \in pending \cup ever \/ session'[c] = "extracted"
  BY NewPending, NewPresent
<1>3. /\ session[c] # "none" => Given(<<"session", c>>)'
      /\ session[c] \in {"committed", "extracted", "empty"} => Given(<<"memory", c>>)'
      /\ <<"memory", c>> \in pending \cup ever => session[c] = "extracted"
  BY Grows DEF SessionInv
<1>4. CASE session'[c] = session[c] BY <1>2, <1>3, <1>4
<1>5. CASE session'[c] # session[c]
  BY <1>2, <1>3, <1>5, SessionMoves
<1> QED BY <1>4, <1>5

LEMMA WorldStep ==
  ASSUME CatalogTypeOK, OrderInv, WorldInv, SessionInv, TurnInv, [CatalogNext]_vars
  PROVE  WorldInv'
<1>1. \A t \in pending' \cup present' \cup ever' : Given(t)'
  BY NewPending, NewPresent, Grows DEF WorldInv
<1>2. \A t \in pending' \cup ever' : t[1] # "session"
  BY NewPending, NewPresent DEF WorldInv
<1>3. \A t \in present' : t[1] = "session" \/ t \in ever'
  BY NewPresent, Grows DEF WorldInv
<1>4. pending' \cap ever' \subseteq {ToolMemory}
  BY NewPending, NewPresent DEF WorldInv
<1>5. ASSUME ToolMemory \in pending' \cup ever'
      PROVE  \E m \in Nodes("Turn")' : (Begun(m) /\ ToolMemory \in Gives(graph[m])
               /\ (turn[m].stray # "none" \/ ToolMemory \in JobThings(graph[m].jobs)))'
  <2>1. graph' = graph /\ Nodes("Turn")' = Nodes("Turn") BY Static DEF Nodes
  <2>2. CASE ToolMemory \in pending \cup ever
    <3>1. PICK m \in Nodes("Turn") : Begun(m) /\ ToolMemory \in Gives(graph[m])
             /\ (turn[m].stray # "none" \/ ToolMemory \in JobThings(graph[m].jobs))
      BY <2>2 DEF WorldInv
    <3>2. m \in DOMAIN graph /\ m \notin running BY <3>1 DEF Nodes, OrderInv, Begun
    <3>3. turn'[m].stray = turn[m].stray /\ Begun(m)' BY <3>1, <3>2, TurnKept, Grows
    <3> QED BY <3>1, <3>3, <2>1
  <2>3. CASE ToolMemory \notin pending \cup ever
    <3>1. ToolMemory \in pending' \ pending BY <2>3, <1>5, NewPresent
    <3>2. PICK n \in running : NodeStep(n)
      <4>1. ASSUME ServerStep PROVE FALSE
        <5>1. \E c \in DOMAIN session : ToolMemory = <<"memory", c>> BY <4>1, <3>1, ServerAdds
        <5> QED BY <5>1, NoTool
      <4> QED BY <4>1, TwoSteps
    <3>3. n \in DOMAIN graph /\ ToolMemory \in Gives(graph[n]) /\ Gave(n)'
      BY <3>1, <3>2, NodeAdds DEF Adds, CatalogTypeOK
    <3>4. n \in Nodes("Turn") BY <3>3, NoTool
    <3>5. TurnEnds(n)
      BY <3>1, <3>2, <3>4, StepOf DEF Nodes, TurnStarts
    <3>6. PICK did \in Does(n), stray \in Strays(n) :
            /\ pending' = (pending \cup Added(n, did, stray)) \ Forgotten(did)
            /\ \E basis \in Bases(n, stray) : turn' = [turn EXCEPT ![n] = Ended(n, did, stray, basis)]
      BY <3>5 DEF TurnEnds
    <3>7. turn'[n].stray = stray BY <3>4, <3>6 DEF CatalogTypeOK, Ended
    <3>8. stray # "none" \/ ToolMemory \in JobThings(graph[n].jobs) BY <3>1, <3>4, <3>6, AddedGives
    <3>9. Begun(n)' BY <3>3, <3>4, <2>1 DEF Gave, Nodes, Requests
    <3> QED BY <2>1, <3>3, <3>4, <3>7, <3>8, <3>9
  <2> QED BY <2>2, <2>3
<1> QED BY <1>1, <1>2, <1>3, <1>4, <1>5 DEF WorldInv
-----------------------------------------------------------------------------
(* The turns, and what checks and searches see.                            *)
LEMMA EndedTurn ==
  ASSUME CatalogTypeOK, NEW n, TurnEnds(n)
  PROVE  \E did \in Does(n), stray \in Strays(n) : \E basis \in Bases(n, stray) :
           /\ turn'[n] = Ended(n, did, stray, basis)
           /\ turn'[n].did = did /\ turn'[n].stray = stray /\ turn'[n].basis = basis
           /\ turn'[n].primed = turn[n].primed /\ turn'[n].clash = turn[n].clash
<1>1. turn \in [Nodes("Turn") -> TurnType] /\ n \in Nodes("Turn") BY DEF CatalogTypeOK, TurnEnds
<1>2. PICK did \in Does(n), stray \in Strays(n) : \E basis \in Bases(n, stray) :
        turn' = [turn EXCEPT ![n] = Ended(n, did, stray, basis)]
  BY TurnResult
<1>3. PICK basis \in Bases(n, stray) : turn' = [turn EXCEPT ![n] = Ended(n, did, stray, basis)]
  BY <1>2
<1>4. turn'[n] = Ended(n, did, stray, basis) BY <1>1, <1>3
<1>5. /\ turn'[n].did = did /\ turn'[n].stray = stray /\ turn'[n].basis = basis
      /\ turn'[n].primed = turn[n].primed /\ turn'[n].clash = turn[n].clash
  BY <1>4 DEF Ended
<1> QED BY <1>4, <1>5

LEMMA StartedTurn ==
  ASSUME CatalogTypeOK, OrderInv, NEW n \in running, TurnStarts(n), NEW m \in Nodes("Turn")
  PROVE  /\ turn'[m].clash = turn[m].clash
         /\ m # n => turn'[m].primed = turn[m].primed
         /\ m = n => (turn'[m].primed <=> \E t \in present : t[1] = "memory")
<1> DEFINE others == {k \in (running \cap sent) \cap Nodes("Turn") : graph[k].dir = graph[n].dir}
<1>1. turn' = [k \in DOMAIN turn |->
             [turn[k] EXCEPT !.clash = @ \/ (others # {} /\ k \in others \cup {n}),
                             !.primed = IF k = n THEN \E t \in present : t[1] = "memory" ELSE @]]
  BY DEF TurnStarts
<1>2. others = {}
  <2>1. ASSUME NEW k \in others PROVE FALSE
    <3>1. TurnsInTurn(graph, Before) BY Rules DEF Disciplined
    <3>2. k # n /\ n \notin sent BY DEF TurnStarts
    <3>3. k \in DOMAIN graph /\ n \in DOMAIN graph /\ graph[k].op = "Turn" /\ graph[n].op = "Turn"
      BY DEF Nodes, TurnStarts
    <3>4. n \in Before[k] \/ k \in Before[n] BY <3>1, <3>2, <3>3 DEF TurnsInTurn
    <3>5. done[n] = "no" /\ done[k] = "no" BY DEF OrderInv
    <3> QED BY <3>4, <3>5 DEF OrderInv, Ok
  <2> QED BY <2>1
<1> HIDE DEF others
<1>3. turn[m] \in TurnType /\ DOMAIN turn = Nodes("Turn") BY DEF CatalogTypeOK
<1>4. turn'[m] = [turn[m] EXCEPT !.clash = @ \/ (others # {} /\ m \in others \cup {n}),
                             !.primed = IF m = n THEN \E t \in present : t[1] = "memory" ELSE @]
  BY <1>1, <1>3
<1>5. (turn[m].clash \/ (others # {} /\ m \in others \cup {n})) = turn[m].clash
  BY <1>2, <1>3 DEF TurnType
<1> QED BY <1>3, <1>4, <1>5 DEF TurnType

LEMMA TurnStill ==
  ASSUME CatalogTypeOK, [CatalogNext]_vars, ~(\E n \in running : TurnStarts(n) \/ TurnEnds(n))
  PROVE  turn' = turn
<1>1. ASSUME NEW n \in running, NodeStep(n) PROVE turn' = turn
  BY <1>1 DEF NodeStep, CheckEnds, RequestSent, PollEnds, CommandEnds,
        MemoryURIEnds, SessionNewEnds, CompactEnds, AddMemoryEnds, RemoveEnds
<1> QED BY <1>1, StepCases, OtherKinds

LEMMA OtherTurn ==
  ASSUME CatalogTypeOK, NEW n, TurnEnds(n), NEW m \in Nodes("Turn"), m # n
  PROVE  turn'[m] = turn[m]
BY TurnResult DEF CatalogTypeOK

LEMMA TurnStep ==
  ASSUME CatalogTypeOK, OrderInv, TurnInv, [CatalogNext]_vars
  PROVE  TurnInv'
<1>1. graph' = graph /\ Nodes("Turn")' = Nodes("Turn") BY Static DEF Nodes
<1> SUFFICES ASSUME NEW m \in Nodes("Turn")
    PROVE /\ turn'[m].did \subseteq graph[m].jobs
          /\ turn'[m].did # {} => Begun(m)'
          /\ ~turn'[m].clash
          /\ turn'[m].stray # "none" => MayStray(graph[m])
          /\ Begun(m)' /\ graph[m].recalls => turn'[m].basis # "none"
          /\ turn'[m].basis = "history" => graph[m].continues # {}
          /\ turn'[m].basis = "tool" => turn'[m].stray # "none"
  BY <1>1 DEF TurnInv
<1>2. m \in DOMAIN graph /\ graph[m].op = "Turn" BY DEF Nodes
<1>3. CASE m \in running /\ TurnEnds(m)
  <2>1. PICK did \in Does(m), stray \in Strays(m) : \E basis \in Bases(m, stray) :
           /\ turn'[m].did = did /\ turn'[m].stray = stray /\ turn'[m].basis = basis
           /\ turn'[m].clash = turn[m].clash
    BY <1>3, EndedTurn
  <2>2. PICK basis \in Bases(m, stray) :
           /\ turn'[m].did = did /\ turn'[m].stray = stray /\ turn'[m].basis = basis
           /\ turn'[m].clash = turn[m].clash
    BY <2>1
  <2>3. did \subseteq graph[m].jobs /\ (stray # "none" => MayStray(graph[m])) BY AddedGives
  <2>4. /\ graph[m].recalls => basis # "none"
        /\ basis = "history" => graph[m].continues # {}
        /\ basis = "tool" => stray # "none"
    BY DEF Bases
  <2>5. Begun(m)'
    <3>1. \E good \in BOOLEAN : Finish(m, good) BY <1>3, MayFailBool DEF TurnEnds
    <3> QED BY <3>1, <1>2, FinishFacts DEF Begun, CatalogTypeOK
  <2> QED BY <2>2, <2>3, <2>4, <2>5 DEF TurnInv
<1>4. CASE ~(m \in running /\ TurnEnds(m))
  <2>1. turn'[m].did = turn[m].did /\ turn'[m].stray = turn[m].stray /\ turn'[m].basis = turn[m].basis
    BY <1>4, TurnKept
  <2>2. ~turn'[m].clash
    <3>1. CASE \E n \in running : TurnStarts(n) BY <3>1, StartedTurn DEF TurnInv
    <3>2. CASE \E n \in running : TurnEnds(n) BY <3>2, <1>4, OtherTurn DEF TurnInv
    <3>3. CASE turn' = turn BY <3>3 DEF TurnInv
    <3> QED BY <3>1, <3>2, <3>3, TurnStill
  <2>3. Begun(m)' => Begun(m)
    <3>1. ASSUME Begun(m)', ~Begun(m) PROVE FALSE
      <4>1. m \in running /\ NodeStep(m) /\ sent' = sent BY <1>2, <3>1, Ends
      <4>2. TurnStarts(m) BY <4>1, <1>2, <1>4, StepOf
      <4> QED BY <4>1, <4>2 DEF TurnStarts
    <3> QED BY <3>1
  <2>4. Begun(m) => Begun(m)' BY <1>2, Grows
  <2> QED BY <2>1, <2>2, <2>3, <2>4 DEF TurnInv
<1> QED BY <1>3, <1>4

(* What is over does not change any more.                                  *)
LEMMA TurnOver ==
  ASSUME CatalogTypeOK, OrderInv, [CatalogNext]_vars, NEW m \in Nodes("Turn"), Begun(m)
  PROVE  turn'[m].did = turn[m].did /\ turn'[m].stray = turn[m].stray /\ turn'[m].basis = turn[m].basis
<1>1. m \notin running BY DEF OrderInv, Begun
<1> QED BY <1>1, TurnKept

LEMMA FoundKept ==
  ASSUME CatalogTypeOK, OrderInv, [CatalogNext]_vars, NEW m \in Used, Begun(m)
  PROVE  found'[m] = found[m]
<1>1. m \notin running BY DEF OrderInv, Begun
<1>2. DOMAIN found = Used BY DEF CatalogTypeOK
<1>3. ASSUME NEW n \in running, NodeStep(n) PROVE found'[m] = found[m]
  <2>1. CASE PollEnds(n) BY <1>1, <1>2, <2>1 DEF PollEnds
  <2>2. CASE found' = found BY <2>2
  <2> QED BY <1>3, <2>1, <2>2 DEF NodeStep, TurnStarts, TurnEnds, CheckEnds, RequestSent, CommandEnds,
          MemoryURIEnds, SessionNewEnds, CompactEnds, AddMemoryEnds, RemoveEnds
<1> QED BY <1>3, StepCases, OtherKinds

LEMMA GoodEnd ==
  ASSUME CatalogTypeOK, NEW n \in DOMAIN graph, NEW good \in BOOLEAN, Finish(n, good)
  PROVE  Ok(n)' <=> good
BY FinishFacts DEF Ok, CatalogTypeOK

(* A poll that ends well has seen what it waits for.                       *)
LEMMA PollOk ==
  ASSUME CatalogTypeOK, NEW n \in DOMAIN graph, PollEnds(n), Ok(n)'
  PROVE  /\ Ready(n) /\ (graph[n].claim => Unmarked(n) = {})
         /\ claimed' = claimed \cup ClaimsOf(n)
         /\ found' = [m \in DOMAIN found |-> IF m = n THEN Matches(n) ELSE found[m]]
<1>1. ~Finish(n, FALSE) BY GoodEnd
<1> QED BY <1>1 DEF PollEnds

(* What a search sees, and one of this run's own.                          *)
LEMMA FindMatches ==
  ASSUME CatalogTypeOK, WorldInv, NEW n \in DOMAIN graph, graph[n].op = "Find", NEW t \in Matches(n)
  PROVE  \/ ~graph[n].named /\ graph[n].what \in leftovers
         \/ t \in ever /\ Given(t) /\ Fits(t, graph[n].what)
<1>1. graph[n].what # "session" BY Rules DEF Disciplined, Refers
<1>2. \/ ~graph[n].named /\ graph[n].what \in leftovers
      \/ t \in present /\ Fits(t, graph[n].what)
  BY DEF Matches, Fits
<1>3. Fits(t, graph[n].what) => t[1] # "session" BY <1>1 DEF Fits
<1> QED BY <1>2, <1>3 DEF WorldInv

LEMMA OwnMatches ==
  ASSUME CatalogTypeOK, WorldInv, NEW n \in DOMAIN graph, graph[n].op = "Find", graph[n].named
  PROVE  /\ Matches(n) = {t \in present : Fits(t, graph[n].what)}
         /\ \A t \in Matches(n) : t \in ever /\ Given(t)
<1>1. Matches(n) = {t \in present : Fits(t, graph[n].what)} BY DEF Matches, Fits
<1>2. graph[n].what # "session" BY Rules DEF Disciplined, Refers
<1>3. \A t \in Matches(n) : t[1] # "session" BY <1>1, <1>2 DEF Fits
<1> QED BY <1>1, <1>3 DEF WorldInv

LEMMA NamedUse ==
  ASSUME CatalogTypeOK, NEW n \in DOMAIN graph
  PROVE  /\ graph[n].op \in {"Evidence", "Text", "Compact"} =>
              graph[n].of \in Before[n] /\ graph[n].of \in Nodes("Turn")
         /\ graph[n].op = "MemoryURI" =>
              /\ graph[n].of \in Before[n] /\ graph[n].of \in Used
              /\ Own(graph[graph[n].of]) /\ graph[graph[n].of].what = "memory"
         /\ Before[n] \subseteq DOMAIN graph /\ n \notin Before[n]
<1>1. Ordered(graph, Before) /\ Refers(graph, Before) BY Rules DEF Disciplined
<1> QED BY <1>1 DEF Ordered, Refers, Nodes, Used

LEMMA SeenStep ==
  ASSUME CatalogTypeOK, OrderInv, WorldInv, SessionInv, SeenInv, [CatalogNext]_vars
  PROVE  SeenInv'
<1>1. graph' = graph /\ Before' = Before /\ leftovers' = leftovers /\ Used' = Used
  BY Static DEF Used, Nodes
<1> SUFFICES ASSUME NEW n \in DOMAIN graph, Ok(n)'
    PROVE /\ graph[n].op = "Evidence" =>
               /\ graph[n].expect \subseteq ToolsOf(graph[n].of)'
               /\ graph[n].forbid = "any" => turn'[graph[n].of].stray = "none"
               /\ graph[n].forbid = "openviking" => turn'[graph[n].of].stray # "openviking"
          /\ graph[n].op = "Text" => turn'[graph[n].of].basis # "wrong"
          /\ graph[n].op \in {"SessionCommitted", "SessionCommit"} => session'[graph[n].conv] = "extracted"
          /\ graph[n].op = "Find" /\ ~graph[n].gone =>
               \/ ~graph[n].named /\ graph[n].what \in leftovers
               \/ \E t \in ever' : Fits(t, graph[n].what) /\
                    \E m \in DOMAIN graph : t \in Gives(graph[m]) /\ n \notin Before[m]
          /\ Own(graph[n]) /\ n \in Used =>
               found'[n] # {} /\ \A t \in found'[n] : t \in ever' /\ Fits(t, graph[n].what)
  BY <1>1 DEF SeenInv, ToolsOf
<1>2. ASSUME graph[n].op \in {"Evidence", "Text"}
      PROVE  /\ graph[n].of \in Nodes("Turn") /\ Begun(graph[n].of)
             /\ ToolsOf(graph[n].of)' = ToolsOf(graph[n].of)
             /\ turn'[graph[n].of].stray = turn[graph[n].of].stray
             /\ turn'[graph[n].of].basis = turn[graph[n].of].basis
  <2>1. graph[n].of \in Before[n] /\ graph[n].of \in Nodes("Turn") BY <1>2, NamedUse
  <2>2. n \in running \/ Begun(n) BY Ends DEF Begun, Ok
  <2>3. Begun(graph[n].of) BY <2>1, <2>2 DEF OrderInv, Ok, Begun
  <2> QED BY <1>1, <2>1, <2>3, TurnOver DEF ToolsOf
<1>3. CASE Ok(n)
  <2>1. n \in Used => found'[n] = found[n] BY <1>3, FoundKept DEF Ok, Begun
  <2>2. ASSUME graph[n].op \in {"SessionCommitted", "SessionCommit"}
        PROVE  session'[graph[n].conv] = "extracted"
    <3>1. graph[n].conv \in DOMAIN session BY <2>2, NoTool, Rules DEF Disciplined, OneGiver
    <3>2. session[graph[n].conv] = "extracted" BY <1>3, <2>2 DEF SeenInv
    <3> QED BY <3>1, <3>2, SessionMoves
  <2> QED BY <1>2, <1>3, <2>1, <2>2, Grows DEF SeenInv
<1>4. CASE ~Ok(n)
  <2>1. n \in running /\ NodeStep(n) /\ done[n] = "no" BY <1>4, Ends
  <2>2. CASE graph[n].op \in {"Evidence", "Text"}
    <3>1. CheckEnds(n) BY <2>1, <2>2, StepOf
    <3>2. Accepts(n) \in BOOLEAN BY <2>2 DEF Accepts
    <3>3. Accepts(n) BY <3>1, <3>2, GoodEnd DEF CheckEnds
    <3> QED BY <1>2, <2>2, <3>3 DEF Accepts, Own
  <2>3. CASE graph[n].op = "Find" /\ ~graph[n].gone
    <3>1. PollEnds(n) BY <2>1, <2>3, StepOf DEF Polls, Requests
    <3>2. Ready(n) /\ found' = [m \in DOMAIN found |-> IF m = n THEN Matches(n) ELSE found[m]]
      BY <3>1, PollOk
    <3>3. Matches(n) # {} BY <2>3, <3>2 DEF Ready
    <3>4. graph[n].named =>
            \A t \in Matches(n) : t \in ever' /\ Fits(t, graph[n].what) /\ Given(t)
      BY <2>3, OwnMatches, Grows
    <3>5. PICK t \in Matches(n) : TRUE BY <3>3
    <3>6. ASSUME ~(~graph[n].named /\ graph[n].what \in leftovers)
          PROVE  \E u \in ever' : Fits(u, graph[n].what) /\
                   \E m \in DOMAIN graph : u \in Gives(graph[m]) /\ n \notin Before[m]
      <4>1. t \in ever /\ Given(t) /\ Fits(t, graph[n].what) BY <2>3, <3>6, FindMatches
      <4>2. PICK m \in DOMAIN graph : t \in Gives(graph[m]) /\ Gave(m) BY <4>1 DEF Given
      <4>3. m \in running \/ Begun(m) BY <4>2 DEF Gave, OrderInv
      <4>4. n \notin Before[m] BY <2>1, <4>3 DEF OrderInv, Ok
      <4> QED BY <4>1, <4>2, <4>4, Grows
    <3>7. n \in Used => found'[n] = Matches(n) BY <3>2 DEF CatalogTypeOK
    <3> QED BY <2>3, <3>3, <3>4, <3>6, <3>7 DEF Own
  <2>4. CASE graph[n].op \in {"SessionCommitted", "SessionCommit"}
    <3>1. PollEnds(n) BY <1>4, <2>1, <2>4, StepOf, <1>1 DEF Polls, Requests, RequestSent, progress, Ok
    <3>2. Ready(n) /\ session' = session BY <3>1, PollOk DEF PollEnds, world
    <3> QED BY <2>4, <3>2 DEF Ready, Own
  <2> QED BY <2>2, <2>3, <2>4 DEF Own
<1> QED BY <1>3, <1>4
-----------------------------------------------------------------------------
(* What is removed stays away.                                             *)
LEMMA IsMemory ==
  ASSUME NEW t, Given(t), Fits(t, "memory")
  PROVE  t[1] = "memory"
<1>1. PICK m \in DOMAIN graph : t \in Gives(graph[m]) BY DEF Given
<1> QED BY <1>1, Kinds DEF Fits

LEMMA IsYield ==
  ASSUME NEW t, Given(t)
  PROVE  t \in Yields(graph)
BY DEF Given, Yields

(* What was found once and is no longer there comes back only if a tool    *)
(* remembers it again.                                                     *)
LEMMA StaysAway ==
  ASSUME CatalogTypeOK, OrderInv, WorldInv, SessionInv, [CatalogNext]_vars,
         NEW t \in ever, t \notin pending, t[1] # "session"
  PROVE  /\ t \notin present => t \notin present'
         /\ t \in pending' => /\ t = ToolMemory
                              /\ \E n \in running : NodeStep(n) /\ ToolMemory \in Gives(graph[n])
BY NewPending, NewPresent

LEMMA RemovedTurn ==
  ASSUME CatalogTypeOK, NEW f \in DOMAIN graph, Forgets(graph[f])
  PROVE  /\ \E u \in Before[f] : u \in DOMAIN graph /\ graph[u].op = "MemoryURI"
         /\ \A m \in DOMAIN graph : ToolMemory \in Gives(graph[m]) => m = f \/ m \in Before[f]
BY Rules DEF Disciplined, ForgetsOnce, Ordered

LEMMA OneURI ==
  ASSUME CatalogTypeOK, OrderInv, NEW u \in DOMAIN graph, graph[u].op = "MemoryURI", Ok(u),
         [CatalogNext]_vars
  PROVE  uri' = uri
<1>1. ASSUME NEW n \in running, MemoryURIEnds(n) PROVE FALSE
  <2>1. n \in DOMAIN graph /\ graph[n].op = "MemoryURI" BY <1>1 DEF MemoryURIEnds, CatalogTypeOK
  <2>2. n = u BY <2>1, Rules DEF Disciplined, ForgetsOnce
  <2> QED BY <2>2 DEF OrderInv, Ok
<1>2. ASSUME NEW n \in running, NodeStep(n) PROVE uri' = uri
  BY <1>1, <1>2 DEF NodeStep, TurnStarts, TurnEnds, CheckEnds, RequestSent, PollEnds, CommandEnds,
          SessionNewEnds, CompactEnds, AddMemoryEnds, RemoveEnds
<1> QED BY <1>2, StepCases, OtherKinds

(* A node that removes: the one thing it is about.                         *)
LEMMA RemovesOne ==
  ASSUME CatalogTypeOK, OrderInv, WorldInv, SeenInv,
         NEW r \in DOMAIN graph, r \in running \/ Begun(r), graph[r].op = "Remove"
  PROVE  \E t \in ever :
           /\ t # ToolMemory /\ t \in Yields(graph) /\ t[1] # "session" /\ t \notin pending
           /\ Cleared(graph, r) = {t} /\ MayRemove(graph[r], t)
           /\ (IF graph[r].of = "none" THEN {<<"resource", graph[r].what>>} ELSE found[graph[r].of]) = {t}
<1>1. PICK k \in Before[r], t \in Yields(graph) \ {ToolMemory} :
      /\ Own(graph[k]) /\ {s \in Yields(graph) : Fits(s, graph[k].what)} = {t} /\ Cleared(graph, r) = {t}
      /\ graph[r].of # "none" => k = graph[r].of /\ t[1] = "memory"
  BY Rules DEF Disciplined, RemovesItsOwn
<1>2. k \in DOMAIN graph /\ Ok(k) BY <1>1, NamedUse DEF OrderInv
<1>3. PICK s \in ever : Fits(s, graph[k].what) BY <1>1, <1>2 DEF SeenInv, Own
<1>4. s \in Yields(graph) BY <1>3, IsYield DEF WorldInv
<1>5. s = t BY <1>1, <1>3, <1>4
<1>6. t[1] # "session" /\ t \notin pending BY <1>1, <1>3, <1>5 DEF WorldInv
<1>7. CASE graph[r].of = "none"
  <2>1. t = <<"resource", graph[r].what>> BY <1>1, <1>7 DEF Cleared
  <2> QED BY <1>1, <1>3, <1>5, <1>6, <1>7, <2>1 DEF MayRemove
<1>8. CASE graph[r].of # "none"
  <2>1. k = graph[r].of /\ t[1] = "memory" BY <1>1, <1>8
  <2>2. k \in Used BY <1>8, <2>1 DEF Used, Nodes
  <2>3. found[k] # {} /\ \A x \in found[k] : x \in ever /\ Fits(x, graph[k].what)
    BY <1>1, <1>2, <2>2 DEF SeenInv
  <2>4. \A x \in found[k] : x \in Yields(graph) BY <2>3, IsYield DEF WorldInv
  <2>5. found[k] = {t} BY <1>1, <2>3, <2>4
  <2>6. MayRemove(graph[r], t) BY <1>8, <2>1 DEF MayRemove
  <2> QED BY <1>1, <1>3, <1>5, <1>6, <1>8, <2>1, <2>5, <2>6
<1> QED BY <1>7, <1>8

(* What was forgotten is the one URI, and stays forgotten.                 *)
LEMMA ForgottenStays ==
  ASSUME CatalogTypeOK, OrderInv, WorldInv, SessionInv, TurnInv, GoneInv, [CatalogNext]_vars,
         NEW f \in Nodes("Turn"), Forgot(f)
  PROVE  /\ uri' = uri /\ uri \notin pending'
         /\ uri \notin present => uri \notin present'
<1>1. uri \notin pending /\ Begun(f) /\ Forgets(graph[f]) /\ f \in DOMAIN graph
  BY DEF GoneInv, TurnInv, Forgets, Forgot, Nodes
<1>2. PICK u \in Before[f] : u \in DOMAIN graph /\ graph[u].op = "MemoryURI" BY <1>1, RemovedTurn
<1>3. Ok(u) BY <1>1, <1>2 DEF OrderInv
<1>4. uri' = uri BY <1>2, <1>3, OneURI
<1>5. uri \in ever /\ uri[1] = "memory" BY <1>2, <1>3 DEF GoneInv
<1>6. ASSUME NEW n \in running, ToolMemory \in Gives(graph[n]) PROVE FALSE
  <2>1. n \in DOMAIN graph /\ done[n] = "no" BY DEF OrderInv, CatalogTypeOK
  <2>2. n = f \/ n \in Before[f] BY <1>1, <1>6, <2>1, RemovedTurn
  <2> QED BY <1>1, <2>1, <2>2 DEF OrderInv, Begun, Ok
<1> QED BY <1>1, <1>4, <1>5, <1>6, StaysAway

LEMMA GoneStep ==
  ASSUME CatalogTypeOK, OrderInv, WorldInv, SessionInv, TurnInv, SeenInv, GoneInv, [CatalogNext]_vars
  PROVE  GoneInv'
<1>1. /\ graph' = graph /\ Nodes("Turn")' = Nodes("Turn") /\ Before' = Before /\ faults' = faults
  BY Static DEF Nodes
<1>2. ASSUME NEW u \in DOMAIN graph, Ok(u)', graph[u].op = "MemoryURI"
      PROVE  uri' \in ever' /\ uri'[1] = "memory"
  <2>1. CASE Ok(u) BY <1>2, <2>1, OneURI, Grows DEF GoneInv
  <2>2. CASE ~Ok(u)
    <3>1. u \in running /\ MemoryURIEnds(u) BY <1>2, <2>2, Ends, StepOf
    <3> DEFINE k == graph[u].of
    <3>2. k \in Before[u] /\ k \in DOMAIN graph /\ k \in Used /\ Own(graph[k]) /\ graph[k].what = "memory"
      BY <1>2, NamedUse
    <3>3. Ok(k) BY <3>1, <3>2 DEF OrderInv
    <3>4. uri' \in found[k] BY <3>1 DEF MemoryURIEnds
    <3>5. uri' \in ever /\ Fits(uri', "memory") BY <3>2, <3>3, <3>4 DEF SeenInv
    <3>6. uri'[1] = "memory" BY <3>5, IsMemory DEF WorldInv
    <3> QED BY <3>5, <3>6, Grows
  <2> QED BY <2>1, <2>2
<1>3. ASSUME NEW f \in Nodes("Turn"), Forgot(f)'
      PROVE  uri' \notin pending' /\ (faults \/ uri' \notin present')
  <2>1. CASE f \in running /\ TurnEnds(f)
    <3>1. PICK did \in Does(f), stray \in Strays(f), hooks \in MayFail :
           LET caught == IF hooks THEN Caught(f, did) ELSE {} IN
           /\ pending' = (pending \cup Added(f, did, stray)) \ Forgotten(did)
           /\ \E gone \in Gone(Forgotten(did)) :
                present' = (present \cup {<<"session", c>> : c \in caught}) \ gone
           /\ \E basis \in Bases(f, stray) : turn' = [turn EXCEPT ![f] = Ended(f, did, stray, basis)]
      BY <2>1 DEF TurnEnds
    <3>2. turn'[f].did = did BY <3>1 DEF CatalogTypeOK, Ended
    <3>3. Forgotten(did) = {uri} BY <1>3, <3>2 DEF Forgotten, Forgot
    <3>4. ~faults => Gone(Forgotten(did)) = {{uri}} BY <3>3 DEF Gone
    <3> QED BY <2>1, <3>1, <3>3, <3>4 DEF TurnEnds
  <2>2. CASE ~(f \in running /\ TurnEnds(f))
    <3>1. turn'[f].did = turn[f].did BY <2>2, TurnKept
    <3>2. Forgot(f) BY <1>3, <3>1 DEF Forgot
    <3> QED BY <3>2, ForgottenStays DEF GoneInv
  <2> QED BY <2>1, <2>2
<1>4. ASSUME NEW v \in DOMAIN graph, Ok(v)', graph[v].op = "URIAbsent",
             NEW f \in Before[v] \cap Nodes("Turn"), Forgot(f)'
      PROVE  uri' \notin present'
  <2>1. v \in running \/ Begun(v) BY <1>4, Ends DEF Ok, Begun
  <2>2. Begun(f) BY <2>1 DEF OrderInv, Ok, Begun
  <2>3. Forgot(f) BY <1>4, <2>2, TurnOver DEF Forgot
  <2>4. CASE Ok(v) BY <1>4, <2>3, <2>4, ForgottenStays DEF GoneInv
  <2>5. CASE ~Ok(v)
    <3>1. PollEnds(v) BY <1>4, <2>5, Ends, StepOf DEF Polls, Requests
    <3>2. Ready(v) BY <1>4, <3>1, PollOk
    <3>3. uri \notin present /\ uri' = uri /\ present' = present
      BY <1>4, <3>1, <3>2 DEF Ready, PollEnds, world
    <3> QED BY <3>3
  <2> QED BY <2>4, <2>5
<1>5. ASSUME ~faults, NEW r \in DOMAIN graph, Ok(r)', graph[r].op = "Remove", NEW t \in Cleared(graph, r)
      PROVE  t \in ever' /\ t \notin pending' \cup present'
  <2>1. CASE Ok(r)
    <3>1. t \in ever /\ t \notin pending \cup present BY <1>5, <2>1 DEF GoneInv
    <3>2. t # ToolMemory BY <1>5, Rules DEF Disciplined, RemovesItsOwn
    <3>3. t[1] # "session" BY <3>1 DEF WorldInv
    <3> QED BY <3>1, <3>2, <3>3, StaysAway, Grows
  <2>2. CASE ~Ok(r)
    <3>1. r \in running /\ RemoveEnds(r) BY <1>5, <2>2, Ends, StepOf
    <3> DEFINE all == IF graph[r].of = "none" THEN {<<"resource", graph[r].what>>} ELSE found[graph[r].of]
    <3>2. present' = present \ all BY <1>5, <3>1 DEF RemoveEnds, Gone
    <3>3. t \in ever /\ t \notin pending /\ all = {t} BY <1>5, <3>1, RemovesOne
    <3>4. pending' = pending /\ ever' = ever BY <3>1 DEF RemoveEnds
    <3> QED BY <3>2, <3>3, <3>4
  <2> QED BY <2>1, <2>2
<1>6. ASSUME NEW n \in DOMAIN graph, Ok(n)', NEW t \in Yields(graph), LooksBack(graph, Before, n, t)
      PROVE  t \in ever' /\ t \notin pending' \cup present'
  <2>1. PICK r \in Before[n] : graph[r].op = "Remove" /\ t \in Cleared(graph, r)
    BY <1>6 DEF LooksBack
  <2>2. n \in running \/ Begun(n) BY <1>6, Ends DEF Ok, Begun
  <2>3. r \in DOMAIN graph /\ Begun(r) BY <2>1, <2>2, NamedUse DEF OrderInv, Ok, Begun
  <2>4. t \in ever /\ t # ToolMemory /\ t[1] # "session" /\ t \notin pending
    BY <2>1, <2>3, RemovesOne
  <2>5. CASE Ok(n)
    <3>1. t \notin present BY <1>6, <2>5 DEF GoneInv
    <3> QED BY <2>4, <3>1, StaysAway, Grows
  <2>6. CASE ~Ok(n)
    <3>1. graph[n].op = "Find" /\ graph[n].gone /\ graph[n].named /\ Fits(t, graph[n].what)
      BY <1>6 DEF LooksBack
    <3>2. PollEnds(n) BY <1>6, <2>6, <3>1, Ends, StepOf DEF Polls, Requests
    <3>3. Matches(n) = {} BY <1>6, <3>1, <3>2, PollOk DEF Ready
    <3>4. t \notin present BY <3>1, <3>3, OwnMatches
    <3>5. present' = present /\ pending' = pending /\ ever' = ever BY <3>2 DEF PollEnds, world
    <3> QED BY <2>4, <3>4, <3>5
  <2> QED BY <2>5, <2>6
<1>7. /\ \A r : Cleared(graph, r)' = Cleared(graph, r)
      /\ Yields(graph)' = Yields(graph)
      /\ \A n, t : LooksBack(graph, Before, n, t)' <=> LooksBack(graph, Before, n, t)
  BY <1>1 DEF LooksBack, Cleared, Yields
<1> QED BY <1>1, <1>2, <1>3, <1>4, <1>5, <1>6, <1>7 DEF GoneInv
-----------------------------------------------------------------------------
(* What is claimed.                                                        *)
LEMMA ClaimsCases ==
  ASSUME NEW n
  PROVE  /\ graph[n].op = "SessionCommitted" =>
              Claims(graph, n) = {"session", "memory"} \X {graph[n].conv} /\ ClaimsOf(n) = Claims(graph, n)
         /\ graph[n].op = "SessionPresent" =>
              Claims(graph, n) = {<<"session", graph[n].conv>>} /\ ClaimsOf(n) = Claims(graph, n)
         /\ graph[n].op = "SessionNew" =>
              Claims(graph, n) = {<<"session", graph[n].conv>>} /\ ClaimsOf(n) = {}
         /\ graph[n].op = "SessionCommit" =>
              /\ ClaimsOf(n) = IF graph[n].claim THEN {<<"memory", graph[n].conv>>} ELSE {}
              /\ Claims(graph, n) \subseteq ClaimsOf(n)
         /\ graph[n].op = "Find" =>
              /\ ClaimsOf(n) = IF graph[n].claim THEN Matches(n) ELSE {}
              /\ Claims(graph, n) \subseteq
                   {t \in Yields(graph) : \A s \in Yields(graph) : Fits(s, graph[n].what) => s = t}
              /\ Claims(graph, n) # {} => graph[n].claim /\ ~graph[n].gone
         /\ graph[n].op \notin {"SessionCommitted", "SessionPresent", "SessionNew", "SessionCommit", "Find"} =>
              Claims(graph, n) = {} /\ ClaimsOf(n) = {}
BY DEF Claims, ClaimsOf

(* A node claims only what is there, from this run.                        *)
LEMMA NewClaims ==
  ASSUME CatalogTypeOK, OrderInv, WorldInv, SessionInv, [CatalogNext]_vars,
         NEW t \in claimed' \ claimed
  PROVE  /\ t \in Yields(graph) /\ result = "running"
         /\ \A c \in DOMAIN session : t = <<"memory", c>> =>
              session[c] = "extracted" /\ session'[c] = "extracted"
<1>1. PICK n \in running : NodeStep(n) BY StepCases, OtherKinds
<1>2. n \in DOMAIN graph /\ result = "running" BY <1>1 DEF OrderInv, CatalogTypeOK
<1>3. CASE PollEnds(n)
  <2>1. t \in ClaimsOf(n) /\ Ready(n) /\ (graph[n].claim => Unmarked(n) = {}) /\ session' = session
    BY <1>3 DEF PollEnds, world
  <2>2. CASE graph[n].op = "Find"
    <3>1. graph[n].claim /\ t \in Matches(n) BY <2>1, <2>2, ClaimsCases
    <3>2. graph[n].named BY <1>2, <3>1, Rules DEF Disciplined, Refers
    <3>3. t \in ever /\ Given(t) BY <1>2, <2>2, <3>1, <3>2, OwnMatches
    <3> QED BY <1>2, <2>1, <3>3, IsYield DEF SessionInv
  <2>3. CASE graph[n].op \in {"SessionCommitted", "SessionPresent", "SessionCommit"}
    <3> DEFINE c == graph[n].conv
    <3>1. c \in DOMAIN session
      BY <1>2, <2>3, NoTool, Rules DEF Disciplined, OneGiver
    <3>2. t \in {<<"session", c>>, <<"memory", c>>} BY <2>1, <2>3, ClaimsCases
    <3>3. t = <<"session", c>> => session[c] # "none" BY <2>1, <2>3 DEF Ready
    <3>4. t = <<"memory", c>> => session[c] = "extracted"
      <4>1. CASE graph[n].op = "SessionPresent"
        <5>1. t = <<"session", c>> BY <2>1, <4>1, ClaimsCases
        <5> QED BY <5>1
      <4>2. CASE graph[n].op \in {"SessionCommitted", "SessionCommit"}
        BY <2>1, <4>2 DEF Ready
      <4> QED BY <2>3, <4>1, <4>2
    <3>5. Given(t) BY <3>1, <3>2, <3>3, <3>4 DEF SessionInv
    <3>6. \A d \in DOMAIN session : t = <<"memory", d>> => session[d] = "extracted"
      BY <3>2, <3>4
    <3> QED BY <1>2, <2>1, <3>5, <3>6, IsYield
  <2> QED BY <2>1, <2>2, <2>3, ClaimsCases
<1>4. CASE SessionNewEnds(n)
  <2>1. t = <<"session", graph[n].conv>> /\ graph[n].op = "SessionNew" BY <1>4 DEF SessionNewEnds
  <2>2. t \in Gives(graph[n]) BY <2>1, GivesOf
  <2> QED BY <1>2, <2>1, <2>2 DEF Yields
<1> QED BY <1>1, <1>3, <1>4 DEF NodeStep, TurnStarts, TurnEnds, CheckEnds, RequestSent, CommandEnds,
          MemoryURIEnds, CompactEnds, AddMemoryEnds, RemoveEnds

LEMMA ClaimStep ==
  ASSUME CatalogTypeOK, OrderInv, WorldInv, SessionInv, ClaimInv, [CatalogNext]_vars
  PROVE  ClaimInv'
<1>1. graph' = graph /\ claimed \subseteq claimed' BY Static, Grows
<1>2. Yields(graph)' = Yields(graph) BY <1>1 DEF Yields
<1>3. claimed' \subseteq Yields(graph) BY NewClaims DEF ClaimInv
<1>4. DOMAIN session' = DOMAIN session BY TypeStep, Static DEF CatalogTypeOK
<1>5. ASSUME NEW c \in DOMAIN session, <<"memory", c>> \in claimed' PROVE session'[c] = "extracted"
  <2>1. CASE <<"memory", c>> \in claimed
    <3>1. session[c] = "extracted" BY <2>1 DEF ClaimInv
    <3> QED BY <3>1, SessionMoves
  <2> QED BY <1>5, <2>1, NewClaims
<1>6. ASSUME NEW n \in DOMAIN graph, Ok(n)' PROVE Claims(graph, n) \subseteq claimed'
  <2>1. CASE Ok(n) BY <1>1, <2>1 DEF ClaimInv
  <2>2. CASE ~Ok(n)
    <3>1. n \in running /\ NodeStep(n) BY <1>6, <2>2, Ends
    <3>2. CASE graph[n].op = "SessionNew"
      <4>1. PICK created \in MayFail, answered \in MayFail :
           /\ claimed' = claimed \cup IF created /\ answered THEN {<<"session", graph[n].conv>>} ELSE {}
           /\ Finish(n, created /\ answered)
        BY <3>1, <3>2, StepOf DEF SessionNewEnds
      <4>2. (created /\ answered) \in BOOLEAN OBVIOUS
      <4>3. created /\ answered BY <1>6, <4>1, <4>2, GoodEnd
      <4> QED BY <3>2, <4>1, <4>3, ClaimsCases
    <3>3. CASE graph[n].op \in {"SessionCommitted", "SessionPresent", "SessionCommit", "Find"}
      <4>1. PollEnds(n) \/ RequestSent(n) BY <3>1, <3>3, StepOf DEF Polls, Requests
      <4>2. ~RequestSent(n)
        BY <1>6, <2>2 DEF RequestSent, progress, Ok
      <4>3. Ready(n) /\ claimed' = claimed \cup ClaimsOf(n) BY <1>6, <4>1, <4>2, PollOk
      <4>4. CASE graph[n].op = "Find"
        <5>1. ASSUME NEW t \in Claims(graph, n) PROVE t \in claimed'
          <6>1. graph[n].claim /\ ~graph[n].gone BY <4>4, <5>1, ClaimsCases
          <6>2. graph[n].named BY <6>1, Rules DEF Disciplined, Refers
          <6>3. PICK w \in Matches(n) : TRUE BY <4>3, <4>4, <6>1 DEF Ready
          <6>4. Fits(w, graph[n].what) /\ w \in Yields(graph) BY <4>4, <6>2, <6>3, OwnMatches, IsYield
          <6>5. w = t BY <4>4, <6>4, <5>1, ClaimsCases
          <6> QED BY <4>3, <4>4, <6>1, <6>3, <6>5, ClaimsCases
        <5> QED BY <5>1
      <4> QED BY <3>3, <4>3, <4>4, ClaimsCases
    <3> QED BY <3>2, <3>3, ClaimsCases
  <2> QED BY <2>1, <2>2
<1>7. /\ handled' \subseteq claimed' /\ (handled' # {} => result' # "running")
      /\ \A t \in handled' \ stuck' : t \notin pending' \cup present'
  <2>0. /\ handled \subseteq claimed /\ (handled # {} => result # "running")
        /\ \A t \in handled \ stuck : t \notin pending \cup present
    BY DEF ClaimInv
  <2>1. ASSUME NEW n \in running, NodeStep(n) PROVE handled' = handled /\ result = "running"
    <3>1. result = "running" BY <2>1 DEF OrderInv
    <3> QED BY <3>1, <2>1 DEF NodeStep, TurnStarts, TurnEnds, CheckEnds, RequestSent, PollEnds,
          CommandEnds, MemoryURIEnds, SessionNewEnds, CompactEnds, AddMemoryEnds, RemoveEnds, cleanup
  <2>2. CASE \E n \in running : NodeStep(n) BY <2>0, <2>1, <2>2
  <2>3. CASE \E c \in DOMAIN session : Extract(c)
    <3>1. PICK c \in DOMAIN session : Extract(c) BY <2>3
    <3>2. /\ handled' = handled /\ stuck' = stuck /\ present' = present /\ result' = result
          /\ pending' \subseteq pending \cup {<<"memory", c>>} /\ session[c] = "committed"
      BY <3>1 DEF Extract, cleanup, progress
    <3>3. <<"memory", c>> \notin claimed BY <3>2 DEF ClaimInv
    <3> QED BY <1>1, <2>0, <3>2, <3>3
  <2>4. CASE \E t \in pending : Index(t) BY <1>1, <2>0, <2>4 DEF Index, cleanup, progress
  <2>5. CASE Deletes
    <3>1. PICK t \in claimed \ handled : Delete(t) BY <2>5 DEF Deletes
    <3>2. claimed' = claimed /\ result' = result /\ result # "running" /\ handled' = handled \cup {t}
      BY <3>1 DEF Delete, progress
    <3>3. PICK good :
       /\ present' = IF good THEN present \ {t} ELSE present
       /\ pending' = IF good THEN pending \ {t} ELSE pending
       /\ stuck' = IF good THEN stuck ELSE stuck \cup {t}
      BY <3>1 DEF Delete
    <3> QED BY <2>0, <3>1, <3>2, <3>3
  <2>6. CASE UNCHANGED vars BY <2>0, <2>6 DEF vars, cleanup, world, progress
  <2> QED BY <2>2, <2>3, <2>4, <2>5, <2>6, StepCases
<1>8. \A n \in DOMAIN graph : Claims(graph, n)' = Claims(graph, n) BY <1>1 DEF Claims, Yields, Fits
<1> QED BY <1>1, <1>2, <1>3, <1>4, <1>5, <1>6, <1>7, <1>8 DEF ClaimInv
-----------------------------------------------------------------------------
(* With an agent and a server that behave: no node fails.                  *)
GoodNow == ~faults /\ GoodInv /\ CatInv

LEMMA Parts ==
  ASSUME CatInv
  PROVE  /\ CatalogTypeOK /\ OrderInv /\ SentInv /\ WorldInv /\ SessionInv /\ TurnInv /\ SeenInv
         /\ GoneInv /\ ClaimInv /\ GoodInv
BY DEF CatInv

LEMMA Behaves ==
  ASSUME GoodNow
  PROVE  /\ CatalogTypeOK /\ OrderInv /\ SentInv /\ WorldInv /\ SessionInv /\ TurnInv /\ SeenInv
         /\ GoneInv /\ ClaimInv
         /\ ~faults /\ MayFail = {TRUE}
         /\ \A n \in DOMAIN graph : done[n] # "failed"
         /\ GoodTurns /\ GoodSessions
         /\ result = "running" => GoodThings
         /\ \A n \in running : n \in DOMAIN graph /\ done[n] = "no" /\ result = "running"
<1>1. CatalogTypeOK /\ OrderInv BY DEF GoodNow, CatInv
<1>2. \A n \in running : n \in DOMAIN graph /\ done[n] = "no" /\ result = "running"
  BY <1>1 DEF CatalogTypeOK, OrderInv
<1> QED BY <1>2 DEF GoodNow, CatInv, GoodInv, MayFail

(* What is due is there once the server has nothing left to do.            *)
LEMMA HereNow ==
  ASSUME GoodNow, NEW n \in running, NEW t, Here(t), Kept(graph, Before, n, t), pending = {}
  PROVE  t \in present
<1>1. ASSUME Removed(t) PROVE FALSE
  <2>1. PICK r \in DOMAIN graph : MayRemove(graph[r], t) /\ Begun(r) BY <1>1 DEF Removed
  <2>2. n \in Before[r] BY <2>1 DEF Kept
  <2> QED BY <2>1, <2>2, Behaves DEF OrderInv, Ok
<1> QED BY <1>1 DEF Here

LEMMA BeforeDone ==
  ASSUME GoodNow, NEW n \in running, NEW m \in Before[n]
  PROVE  m \in DOMAIN graph /\ Ok(m) /\ Begun(m)
BY Behaves, NamedUse DEF OrderInv, Ok, Begun

LEMMA QuietReady ==
  ASSUME GoodNow, NEW n \in running, graph[n].op \in Polls, graph[n].op \in Requests => n \in sent, Quiet
  PROVE  Ready(n)
<1>1. n \in DOMAIN graph /\ GoodThings BY Behaves
<1>2. Due(graph, Before) BY Behaves, Rules DEF Disciplined
<1>3. pending = {} /\ \A c \in DOMAIN session : session[c] # "committed" BY DEF Quiet
<1>4. CASE graph[n].op = "Find" /\ ~graph[n].gone
  <2>1. PICK p \in Before[n] : \E t \in Provides(graph[p]) :
          Fits(t, graph[n].what) /\ Kept(graph, Before, n, t)
    BY <1>1, <1>2, <1>4 DEF Due
  <2>2. PICK t \in Provides(graph[p]) : Fits(t, graph[n].what) /\ Kept(graph, Before, n, t) BY <2>1
  <2>3. Here(t) BY <1>1, <2>2, BeforeDone DEF GoodThings
  <2>4. t \in present BY <1>3, <2>2, <2>3, HereNow
  <2>5. Matches(n) # {} BY <2>2, <2>4 DEF Matches, Fits
  <2> QED BY <1>4, <2>5 DEF Ready
<1>5. CASE graph[n].op = "Find" /\ graph[n].gone
  <2>1. /\ graph[n].named
        /\ \A t \in Yields(graph) : Fits(t, graph[n].what) =>
             \E r \in Before[n] : graph[r].op = "Remove" /\ t \in Cleared(graph, r)
    BY <1>1, <1>2, <1>5 DEF Due
  <2>2. ASSUME NEW t \in Matches(n) PROVE FALSE
    <3>1. t \in present /\ Fits(t, graph[n].what) /\ t \in Yields(graph)
      BY <1>1, <1>5, <2>1, <2>2, Behaves, OwnMatches, IsYield
    <3>2. PICK r \in Before[n] : graph[r].op = "Remove" /\ t \in Cleared(graph, r) BY <2>1, <3>1
    <3> QED BY <3>1, <3>2, BeforeDone, Behaves DEF GoneInv
  <2> QED BY <1>5, <2>2 DEF Ready
<1>6. CASE graph[n].op = "SessionCommitted"
  <2> DEFINE c == graph[n].conv
  <2>1. Committed(graph, Before, n) BY <1>1, <1>2, <1>6 DEF Due
  <2>2. PICK m \in Before[n] :
    /\ graph[m].op = "Turn" /\ c \in graph[m].captures
    /\ \/ graph[m].commits = "end of turn"
       \/ graph[m].commits = "next startup" /\
            \E j \in Before[n] : graph[j].op = "Turn" /\ graph[j].dir = graph[m].dir /\ m \in Before[j]
       \/ graph[m].commits = "compaction" /\
            \E j \in Before[n] : graph[j].op = "Compact" /\ graph[j].of = m
    BY <2>1 DEF Committed
  <2>3. m \in Nodes("Turn") /\ Begun(m) BY <2>2, BeforeDone DEF Nodes
  <2>4. c \in DOMAIN session BY <2>2, <2>3, NoTool, Behaves
  <2>5. /\ session[c] # "none"
        /\ session[c] = "open" =>
            /\ graph[m].commits # "end of turn"
            /\ graph[m].commits = "next startup" =>
                 \A j \in sent \cap Nodes("Turn") : graph[j].dir = graph[m].dir => m \notin Before[j]
            /\ graph[m].commits = "compaction" =>
                 \A j \in Nodes("Compact") : graph[j].of = m => ~Begun(j)
    BY <2>2, <2>3, Behaves DEF GoodSessions
  <2>6. session[c] # "open"
    <3>1. \A j \in Before[n] : graph[j].op = "Turn" => j \in sent \cap Nodes("Turn")
      BY BeforeDone, Behaves DEF SentInv, Nodes
    <3>2. \A j \in Before[n] : graph[j].op = "Compact" => j \in Nodes("Compact") /\ Begun(j)
      BY BeforeDone DEF Nodes
    <3> QED BY <2>2, <2>5, <3>1, <3>2
  <2>7. session[c] \in {"none", "open", "committed", "extracted", "empty"} /\ session[c] # "empty"
    BY <2>4, Behaves DEF CatalogTypeOK, GoodSessions
  <2> QED BY <1>3, <1>6, <2>4, <2>5, <2>6, <2>7 DEF Ready
<1>7. CASE graph[n].op = "SessionCommit"
  <2>1. graph[n].conv \in DOMAIN session
    BY <1>1, <1>7, NoTool, Behaves, Rules DEF Disciplined, OneGiver
  <2>2. session[graph[n].conv] \in {"committed", "extracted"}
    BY <1>1, <1>7, Behaves DEF GoodSessions, Nodes, Requests
  <2> QED BY <1>3, <1>7, <2>1, <2>2 DEF Ready
<1>8. CASE graph[n].op = "SessionPresent"
  <2>1. PICK m \in Before[n] : graph[m].op = "Turn" /\ graph[n].conv \in graph[m].captures
    BY <1>1, <1>2, <1>8 DEF Due
  <2>2. m \in Nodes("Turn") /\ Begun(m) BY <2>1, BeforeDone DEF Nodes
  <2>3. session[graph[n].conv] # "none" BY <2>1, <2>2, Behaves DEF GoodSessions
  <2> QED BY <1>8, <2>3 DEF Ready
<1>9. CASE graph[n].op = "URIAbsent"
  <2>1. PICK f \in Before[n] : Forgets(graph[f]) BY <1>1, <1>2, <1>9 DEF Due
  <2>2. f \in Nodes("Turn") /\ Begun(f) BY <2>1, BeforeDone DEF Nodes, Forgets
  <2>3. turn[f].did = graph[f].jobs BY <2>2, Behaves DEF GoodTurns
  <2>4. uri \notin present BY <2>1, <2>2, <2>3, Behaves DEF GoneInv, Forgets, Forgot
  <2> QED BY <1>9, <2>4 DEF Ready
<1>10. CASE graph[n].op = "AddResource"
  <2>1. Kept(graph, Before, n, <<"resource", "local">>) BY <1>1, <1>2, <1>10 DEF Due
  <2>2. Here(<<"resource", "local">>) BY <1>1, <1>10 DEF GoodThings, Nodes, Requests
  <2>3. <<"resource", "local">> \in present BY <1>3, <2>1, <2>2, HereNow
  <2> QED BY <1>10, <2>3 DEF Ready
<1>11. CASE graph[n].op = "Wait" BY <1>11 DEF Ready
<1> QED BY <1>4, <1>5, <1>6, <1>7, <1>8, <1>9, <1>10, <1>11 DEF Polls

LEMMA GoodAccepts ==
  ASSUME GoodNow, NEW n \in running, graph[n].op \in {"Evidence", "Text", "Check"}
  PROVE  Accepts(n)
<1>1. n \in DOMAIN graph BY Behaves
<1>2. Due(graph, Before) BY Behaves, Rules DEF Disciplined
<1>3. CASE graph[n].op = "Evidence"
  <2>1. graph[n].of \in Nodes("Turn") /\ Begun(graph[n].of)
    BY <1>1, <1>3, NamedUse, BeforeDone, Behaves
  <2>2. turn[graph[n].of].did = graph[graph[n].of].jobs /\ turn[graph[n].of].stray = "none"
    BY <2>1, Behaves DEF GoodTurns
  <2>3. graph[n].expect \subseteq {j[1] : j \in graph[graph[n].of].jobs} BY <1>1, <1>2, <1>3 DEF Due
  <2>4. graph[n].expect \subseteq ToolsOf(graph[n].of) BY <2>2, <2>3 DEF ToolsOf
  <2> QED BY <1>3, <2>2, <2>4 DEF Accepts
<1>4. CASE graph[n].op = "Text"
  <2>1. graph[n].of \in Nodes("Turn") BY <1>1, <1>4, NamedUse, Behaves
  <2>2. Recalled(graph, Before, graph[n].of) BY <1>1, <1>2, <1>4 DEF Due
  <2>3. turn[graph[n].of].basis # "wrong" BY <2>1, <2>2, Behaves DEF GoodTurns
  <2> QED BY <1>4, <2>3 DEF Accepts
<1>5. CASE graph[n].op = "Check" BY <1>5 DEF Accepts
<1> QED BY <1>3, <1>4, <1>5

(* Nothing unmarked is found by a search that claims.                      *)
LEMMA NoneUnmarked ==
  ASSUME GoodNow, NEW n \in running, graph[n].claim
  PROVE  Unmarked(n) = {}
<1>1. n \in DOMAIN graph /\ graph[n].named BY Behaves, Rules DEF Disciplined, Refers
<1>2. ASSUME NEW t \in Unmarked(n) PROVE FALSE
  <2>1. Given(t) /\ t[1] = "leftover" BY <1>1, Behaves DEF Unmarked, Matches, WorldInv
  <2>2. PICK m \in DOMAIN graph : t \in Gives(graph[m]) BY <2>1 DEF Given
  <2> QED BY <2>1, <2>2, Kinds
<1> QED BY <1>2

LEMMA GoodEnds ==
  ASSUME GoodNow, NEW n \in running, NodeStep(n)
  PROVE  Finish(n, TRUE) \/ UNCHANGED progress
<1>1. n \in DOMAIN graph /\ MayFail = {TRUE} /\ ~faults BY Behaves
<1>2. CASE TurnStarts(n) BY <1>2 DEF TurnStarts
<1>3. CASE TurnEnds(n)
  <2>1. ~turn[n].clash BY <1>3, Behaves DEF TurnInv, TurnEnds
  <2> QED BY <1>1, <1>3, <2>1 DEF TurnEnds
<1>4. CASE CheckEnds(n)
  <2>1. Accepts(n) /\ Accepts(n) \in BOOLEAN BY <1>4, GoodAccepts DEF CheckEnds, Accepts
  <2>2. Accepts(n) = TRUE BY <2>1
  <2>3. Finish(n, Accepts(n)) BY <1>4 DEF CheckEnds
  <2> QED BY <2>2, <2>3
<1>5. CASE RequestSent(n) BY <1>5 DEF RequestSent
<1>6. CASE PollEnds(n)
  <2>1. ASSUME ~Ready(n) /\ Quiet PROVE FALSE BY <1>6, <2>1, QuietReady DEF PollEnds
  <2>2. graph[n].claim => Unmarked(n) = {} BY NoneUnmarked
  <2> QED BY <1>1, <1>6, <2>1, <2>2 DEF PollEnds
<1>7. CASE CommandEnds(n) 
  <2>1. Finish(n, TRUE \/ graph[n].op = "Search") BY <1>1, <1>7 DEF CommandEnds
  <2>2. (TRUE \/ graph[n].op = "Search") = TRUE OBVIOUS
  <2> QED BY <2>1, <2>2
<1>8. CASE MemoryURIEnds(n) BY <1>8 DEF MemoryURIEnds
<1>9. CASE SessionNewEnds(n)
  <2>1. Finish(n, TRUE /\ TRUE) BY <1>1, <1>9 DEF SessionNewEnds
  <2>2. (TRUE /\ TRUE) = TRUE OBVIOUS
  <2> QED BY <2>1, <2>2
<1>10. CASE CompactEnds(n) BY <1>1, <1>10 DEF CompactEnds
<1>11. CASE AddMemoryEnds(n) BY <1>1, <1>11 DEF AddMemoryEnds
<1>12. CASE RemoveEnds(n) BY <1>1, <1>12 DEF RemoveEnds
<1> QED BY <1>2, <1>3, <1>4, <1>5, <1>6, <1>7, <1>8, <1>9, <1>10, <1>11, <1>12 DEF NodeStep

LEMMA NoFailure ==
  ASSUME GoodNow, [CatalogNext]_vars
  PROVE  \A n \in DOMAIN graph : done'[n] # "failed"
<1>1. done \in [DOMAIN graph -> {"no", "ok", "failed"}] /\ \A n \in DOMAIN graph : done[n] # "failed"
  BY Behaves DEF CatalogTypeOK
<1>2. ASSUME NEW n \in running, Finish(n, TRUE) PROVE \A m \in DOMAIN graph : done'[m] # "failed"
  <2>1. done' = [done EXCEPT ![n] = IF TRUE THEN "ok" ELSE "failed"] BY <1>2, Behaves, FinishFacts
  <2> QED BY <1>1, <2>1
<1>3. CASE UNCHANGED progress BY <1>1, <1>3 DEF progress
<1> QED BY <1>2, <1>3, GoodEnds, StepCases, OtherKinds
-----------------------------------------------------------------------------
(* The turns of an agent that behaves.                                     *)
LEMMA RecalledPrimes ==
  ASSUME GoodNow, NEW n \in running \cap Nodes("Turn"), Recalled(graph, Before, n)
  PROVE  ~graph[n].recalls \/ graph[n].continues # {} \/ \E t \in present : t[1] = "memory"
<1> SUFFICES ASSUME graph[n].recalls, graph[n].continues = {} PROVE \E t \in present : t[1] = "memory"
  OBVIOUS
<1>1. PICK k \in Before[n] : Own(graph[k]) /\ graph[k].what = "memory" BY DEF Recalled
<1>2. Kept(graph, Before, n, ToolMemory) BY DEF Recalled
<1>3. PICK t \in ever : Fits(t, "memory") BY <1>1, BeforeDone, Behaves DEF SeenInv, Own
<1>4. t[1] = "memory" BY <1>3, IsMemory, Behaves DEF WorldInv
<1>5. ASSUME Removed(t) PROVE FALSE
  <2>1. PICK r \in DOMAIN graph : MayRemove(graph[r], t) /\ Begun(r) BY <1>5 DEF Removed
  <2>2. MayRemove(graph[r], ToolMemory)
    <3>1. t # <<"resource", graph[r].what>> BY <1>4
    <3> QED BY <2>1, <3>1 DEF MayRemove, ToolMemory
  <2>3. n \in Before[r] BY <1>2, <2>1, <2>2 DEF Kept
  <2> QED BY <2>1, <2>3, Behaves DEF OrderInv, Ok
<1>6. t \in present BY <1>5, Behaves DEF GoodThings
<1> QED BY <1>4, <1>6

LEMMA GoodTurnsStep ==
  ASSUME GoodNow, [CatalogNext]_vars
  PROVE  GoodTurns'
<1>1. graph' = graph /\ Before' = Before /\ Nodes("Turn")' = Nodes("Turn") BY Behaves, Static DEF Nodes
<1> DEFINE Primed(m) == ~graph[m].recalls \/ graph[m].continues # {} \/ turn[m].primed
<1> SUFFICES ASSUME NEW m \in Nodes("Turn")
    PROVE /\ Begun(m)' => turn'[m].did = graph[m].jobs
          /\ turn'[m].stray = "none"
          /\ m \in sent' /\ Recalled(graph, Before, m) => Primed(m)'
          /\ Recalled(graph, Before, m) => turn'[m].basis # "wrong"
  <2>1. \A m \in Nodes("Turn") : Recalled(graph, Before, m)' = Recalled(graph, Before, m)
    BY <1>1 DEF Recalled, Kept
  <2> QED BY <1>1, <2>1 DEF GoodTurns
<1>2. m \in DOMAIN graph /\ graph[m].op = "Turn" BY DEF Nodes
<1>3. /\ Begun(m) => turn[m].did = graph[m].jobs
      /\ turn[m].stray = "none"
      /\ m \in sent /\ Recalled(graph, Before, m) => Primed(m)
      /\ Recalled(graph, Before, m) => turn[m].basis # "wrong"
  BY Behaves DEF GoodTurns
<1>4. CASE m \in running /\ TurnEnds(m)
  <2>1. PICK did \in Does(m), stray \in Strays(m) : \E basis \in Bases(m, stray) :
           /\ turn'[m].did = did /\ turn'[m].stray = stray /\ turn'[m].basis = basis
           /\ turn'[m].primed = turn[m].primed
    BY <1>4, EndedTurn, Behaves
  <2>2. PICK basis \in Bases(m, stray) :
           /\ turn'[m].did = did /\ turn'[m].stray = stray /\ turn'[m].basis = basis
           /\ turn'[m].primed = turn[m].primed
    BY <2>1
  <2>3. did = graph[m].jobs /\ stray = "none" BY Behaves DEF Does, Strays
  <2>4. m \in sent /\ sent' = sent BY <1>4 DEF TurnEnds
  <2>5. Recalled(graph, Before, m) => basis # "wrong"
    <3>1. CASE ~graph[m].recalls BY <3>1 DEF Bases
    <3>2. CASE graph[m].recalls /\ Recalled(graph, Before, m)
      <4>1. turn[m].primed \/ graph[m].continues # {} BY <1>3, <2>4, <3>2
      <4>2. ~faults BY Behaves
      <4> QED BY <3>2, <4>1, <4>2 DEF Bases
    <3> QED BY <3>1, <3>2
  <2> QED BY <1>1, <1>3, <2>2, <2>3, <2>4, <2>5
<1>5. CASE m \in running /\ TurnStarts(m)
  <2>1. turn'[m].did = turn[m].did /\ turn'[m].stray = turn[m].stray /\ turn'[m].basis = turn[m].basis
    BY <1>5, TurnKept, Behaves DEF TurnStarts, TurnEnds
  <2>2. turn'[m].primed <=> \E t \in present : t[1] = "memory" BY <1>5, StartedTurn, Behaves
  <2>3. Begun(m)' => Begun(m) BY <1>5 DEF TurnStarts, progress, Begun
  <2> QED BY <1>1, <1>3, <1>5, <2>1, <2>2, <2>3, RecalledPrimes
<1>6. CASE ~(m \in running /\ (TurnEnds(m) \/ TurnStarts(m)))
  <2>1. turn'[m].did = turn[m].did /\ turn'[m].stray = turn[m].stray /\ turn'[m].basis = turn[m].basis
    BY <1>6, TurnKept, Behaves
  <2>2. turn'[m].primed = turn[m].primed
    <3>1. CASE \E n \in running : TurnStarts(n) BY <1>6, <3>1, StartedTurn, Behaves
    <3>2. CASE \E n \in running : TurnEnds(n) BY <1>6, <3>2, OtherTurn, Behaves
    <3>3. CASE turn' = turn BY <3>3
    <3> QED BY <3>1, <3>2, <3>3, TurnStill, Behaves
  <2>3. ASSUME Begun(m)', ~Begun(m) PROVE FALSE
    <3>1. m \in running /\ NodeStep(m) BY <1>2, <2>3, Ends, Behaves
    <3> QED BY <3>1, <1>2, <1>6, StepOf
  <2>4. m \in sent' => m \in sent
    <3>1. ASSUME m \in sent', m \notin sent PROVE FALSE
      <4>1. PICK n \in running : NodeStep(n) BY <3>1, StepCases, OtherKinds
      <4>2. n = m BY <3>1, <4>1, NodeKinds, Behaves
      <4> QED BY <4>1, <4>2, <1>2, <1>6, StepOf
    <3> QED BY <3>1
  <2> QED BY <1>1, <1>3, <2>1, <2>2, <2>3, <2>4
<1> QED BY <1>4, <1>5, <1>6
-----------------------------------------------------------------------------
(* The conversations of a plugin and a server that behave.                 *)
LEMMA GoodExtract ==
  ASSUME GoodNow, NEW c, Extract(c)
  PROVE  session' = [session EXCEPT ![c] = "extracted"] /\ pending' = pending \cup {<<"memory", c>>}
<1>1. PICK any \in MayFail :
       /\ session' = [session EXCEPT ![c] = IF any THEN "extracted" ELSE "empty"]
       /\ pending' = IF any THEN pending \cup {<<"memory", c>>} ELSE pending
  BY DEF Extract
<1>2. any = TRUE BY Behaves
<1> QED BY <1>1, <1>2

LEMMA GoodIndex ==
  ASSUME GoodNow, NEW t, Index(t)
  PROVE  /\ t \in pending /\ pending' = pending \ {t}
         /\ present' = present \cup {t} /\ ever' = ever \cup {t}
<1>1. PICK good \in MayFail :
       /\ present' = IF good THEN present \cup {t} ELSE present
       /\ ever' = IF good THEN ever \cup {t} ELSE ever
  BY DEF Index
<1>2. good = TRUE BY Behaves
<1> QED BY <1>1, <1>2 DEF Index

LEMMA GoodCatch ==
  ASSUME GoodNow, NEW m \in running, TurnEnds(m), NEW c \in graph[m].captures
  PROVE  session'[c] = IF graph[m].commits = "end of turn" THEN "committed" ELSE "open"
<1>1. m \in Nodes("Turn") BY DEF TurnEnds
<1>2. Does(m) = {graph[m].jobs} /\ MayFail = {TRUE} BY Behaves DEF Does
<1>3. Caught(m, graph[m].jobs) = graph[m].captures BY DEF Caught
<1>4. session' = [d \in DOMAIN session |->
            IF d \notin graph[m].captures THEN session[d]
            ELSE IF graph[m].commits = "end of turn" THEN "committed" ELSE "open"]
  <2>1. PICK did \in Does(m), hooks \in MayFail :
          LET caught == IF hooks THEN Caught(m, did) ELSE {} IN
          session' = [d \in DOMAIN session |->
            IF d \notin caught THEN session[d]
            ELSE IF graph[m].commits = "end of turn" THEN "committed" ELSE "open"]
    BY DEF TurnEnds
  <2>2. did = graph[m].jobs /\ hooks BY <1>2
  <2>3. (IF hooks THEN Caught(m, did) ELSE {}) = graph[m].captures BY <2>2, <1>3
  <2> QED BY <2>1, <2>3
<1>5. c \in DOMAIN session BY <1>1, NoTool, Behaves
<1> QED BY <1>4, <1>5

LEMMA GoodStart ==
  ASSUME GoodNow, NEW j \in running, TurnStarts(j), NEW m \in Nodes("Turn"), NEW c \in graph[m].captures,
         graph[m].commits = "next startup", graph[m].dir = graph[j].dir, session[c] = "open"
  PROVE  session'[c] = "committed"
<1> DEFINE opened == UNION {LeftOpen(k, j, "next startup") : k \in Nodes("Turn")}
<1>1. session' = [d \in DOMAIN session |-> IF d \in opened THEN "committed" ELSE session[d]]
  BY DEF TurnStarts
<1>2. c \in LeftOpen(m, j, "next startup") BY DEF LeftOpen
<1>3. c \in DOMAIN session BY NoTool, Behaves
<1> QED BY <1>1, <1>2, <1>3

LEMMA GoodCompact ==
  ASSUME GoodNow, NEW j \in running, CompactEnds(j), NEW c \in graph[graph[j].of].captures,
         graph[graph[j].of].commits = "compaction", session[c] = "open"
  PROVE  session'[c] = "committed"
<1>1. session' = [d \in DOMAIN session |->
            IF d \in graph[graph[j].of].captures /\ session[d] = "open"
              /\ graph[graph[j].of].commits = "compaction" THEN "committed" ELSE session[d]]
  <2>1. PICK good \in MayFail : session' = [d \in DOMAIN session |->
            IF good /\ d \in graph[graph[j].of].captures /\ session[d] = "open"
              /\ graph[graph[j].of].commits = "compaction" THEN "committed" ELSE session[d]]
    BY DEF CompactEnds
  <2>2. good = TRUE BY Behaves
  <2> QED BY <2>1, <2>2
<1>2. graph[j].of \in Nodes("Turn") BY NamedUse, Behaves DEF CompactEnds
<1>3. c \in DOMAIN session BY <1>2, NoTool, Behaves
<1> QED BY <1>1, <1>3

(* A conversation that is open after a turn: what has not happened yet.    *)
OpenAfter(m, c) ==
  session[c] = "open" =>
    /\ graph[m].commits # "end of turn"
    /\ graph[m].commits = "next startup" =>
         \A j \in sent \cap Nodes("Turn") : graph[j].dir = graph[m].dir => m \notin Before[j]
    /\ graph[m].commits = "compaction" =>
         \A j \in Nodes("Compact") : graph[j].of = m => ~Begun(j)

LEMMA OpenNow ==
  ASSUME GoodNow, [CatalogNext]_vars, NEW m \in Nodes("Turn"), m \in running, TurnEnds(m),
         NEW c \in graph[m].captures
  PROVE  OpenAfter(m, c)'
<1>1. graph' = graph /\ Before' = Before /\ Nodes("Turn")' = Nodes("Turn") /\ Nodes("Compact")' = Nodes("Compact")
  BY Behaves, Static DEF Nodes
<1>2. sent' = sent /\ done[m] = "no" BY Behaves DEF TurnEnds
<1>3. session'[c] = "open" => graph[m].commits # "end of turn" BY GoodCatch
<1>4. ASSUME NEW j \in sent \cap Nodes("Turn") PROVE m \notin Before[j]
  <2>1. j \in DOMAIN graph /\ (j \in running \/ Begun(j)) BY Behaves DEF OrderInv, Nodes
  <2> QED BY <1>2, <2>1, Behaves DEF OrderInv, Ok
<1>5. ASSUME NEW j \in Nodes("Compact"), graph[j].of = m, Begun(j)' PROVE FALSE
  <2>1. j \in DOMAIN graph /\ graph[j].op = "Compact" /\ m \in Before[j]
    BY <1>5, NamedUse, Behaves DEF Nodes
  <2>2. Begun(j) \/ j \in running BY <1>5, <2>1, Ends, Behaves
  <2> QED BY <1>2, <2>1, <2>2, Behaves DEF OrderInv, Ok
<1> QED BY <1>1, <1>2, <1>3, <1>4, <1>5 DEF OpenAfter, Begun

LEMMA OpenLater ==
  ASSUME GoodNow, [CatalogNext]_vars, NEW m \in Nodes("Turn"), Begun(m), NEW c \in graph[m].captures
  PROVE  OpenAfter(m, c)' /\ session'[c] # "none"
<1>1. graph' = graph /\ Before' = Before /\ Nodes("Turn")' = Nodes("Turn") /\ Nodes("Compact")' = Nodes("Compact")
  BY Behaves, Static DEF Nodes
<1>2. c \in DOMAIN session /\ m \in DOMAIN graph BY NoTool, Behaves DEF Nodes
<1>3. session[c] # "none" /\ OpenAfter(m, c) BY Behaves DEF GoodSessions, OpenAfter
<1>4. session'[c] # "none" /\ (session'[c] = "open" => session[c] = "open")
  <2>1. CASE session'[c] = session[c] BY <1>3, <2>1
  <2>2. CASE session'[c] # session[c]
    BY <1>2, <1>3, <2>2, SessionMoves, Behaves
  <2> QED BY <2>1, <2>2
<1>5. ASSUME session'[c] = "open", graph[m].commits = "next startup",
             NEW j \in sent' \cap Nodes("Turn"), graph[j].dir = graph[m].dir, m \in Before[j]
      PROVE  FALSE
  <2>1. session[c] = "open" BY <1>4, <1>5
  <2>2. j \notin sent BY <1>3, <1>5, <2>1 DEF OpenAfter
  <2>3. PICK n \in running : NodeStep(n) BY <1>5, <2>2, StepCases, OtherKinds
  <2>4. n = j BY <1>5, <2>2, <2>3, NodeKinds, Behaves
  <2>5. graph[j].op = "Turn" /\ j \in DOMAIN graph BY <1>5 DEF Nodes
  <2>6. TurnStarts(j) BY <2>2, <2>3, <2>4, <2>5, StepOf DEF TurnEnds
  <2>7. session'[c] = "committed" BY <1>5, <2>1, <2>3, <2>4, <2>6, GoodStart
  <2> QED BY <1>5, <2>7
<1>6. ASSUME session'[c] = "open", graph[m].commits = "compaction",
             NEW j \in Nodes("Compact"), graph[j].of = m, Begun(j)'
      PROVE  FALSE
  <2>1. session[c] = "open" BY <1>4, <1>6
  <2>2. ~Begun(j) BY <1>3, <1>6, <2>1 DEF OpenAfter
  <2>3. j \in DOMAIN graph /\ graph[j].op = "Compact" BY <1>6 DEF Nodes
  <2>4. j \in running /\ CompactEnds(j) BY <1>6, <2>2, <2>3, Ends, StepOf, Behaves
  <2>5. session'[c] = "committed" BY <1>6, <2>1, <2>4, GoodCompact
  <2> QED BY <1>6, <2>5
<1> QED BY <1>1, <1>3, <1>4, <1>5, <1>6 DEF OpenAfter, Begun

LEMMA GoodSessionsStep ==
  ASSUME GoodNow, [CatalogNext]_vars
  PROVE  GoodSessions'
<1>1. graph' = graph /\ \A op : Nodes(op)' = Nodes(op) BY Behaves, Static DEF Nodes
<1>2. DOMAIN session' = DOMAIN session BY TypeStep, Static, Behaves DEF CatalogTypeOK
<1>3. ASSUME NEW c \in DOMAIN session PROVE session'[c] # "empty"
  <2>1. session[c] # "empty" BY Behaves DEF GoodSessions
  <2>2. ASSUME NEW n \in running, NodeStep(n) PROVE session'[c] # "empty"
    BY <2>1, <2>2, NodeAdds, Behaves DEF Adds
  <2>3. ASSUME NEW d \in DOMAIN session, Extract(d) PROVE session'[c] # "empty"
    <3>1. session' = [session EXCEPT ![d] = "extracted"] BY <2>3, GoodExtract
    <3> QED BY <2>1, <3>1, Behaves DEF CatalogTypeOK
  <2>4. CASE session' = session BY <2>1, <2>4
  <2> QED BY <2>2, <2>3, <2>4, StepCases DEF Index, Deletes, Delete, vars, world
<1>4. ASSUME NEW m \in Nodes("Turn"), Begun(m)', NEW c \in graph[m].captures
      PROVE  session'[c] # "none" /\ OpenAfter(m, c)'
  <2>1. CASE Begun(m) BY <2>1, OpenLater
  <2>2. CASE ~Begun(m)
    <3>1. m \in DOMAIN graph /\ graph[m].op = "Turn" BY DEF Nodes
    <3>2. m \in running /\ NodeStep(m) /\ sent' = sent BY <1>4, <2>2, <3>1, Ends, Behaves
    <3>3. TurnEnds(m) BY <3>1, <3>2, StepOf DEF TurnStarts
    <3>4. session'[c] # "none" BY <3>2, <3>3, GoodCatch
    <3> QED BY <3>2, <3>3, <3>4, OpenNow
  <2> QED BY <2>1, <2>2
<1>5. ASSUME NEW n \in sent' \cap Nodes("SessionCommit")
      PROVE  session'[graph[n].conv] \in {"committed", "extracted"}
  <2> DEFINE c == graph[n].conv
  <2>0. n \in DOMAIN graph /\ graph[n].op = "SessionCommit" BY DEF Nodes
  <2>1. c \in DOMAIN session BY <2>0, NoTool, Behaves, Rules DEF Disciplined, OneGiver
  <2>2. CASE n \in sent
    <3>1. session[c] \in {"committed", "extracted"} BY <1>5, <2>2, Behaves DEF GoodSessions
    <3>2. session'[c] # "empty" BY <1>3, <2>1
    <3> QED BY <2>1, <3>1, <3>2, SessionMoves, Behaves
  <2>3. CASE n \notin sent
    <3>1. PICK k \in running : NodeStep(k) BY <1>5, <2>3, StepCases, OtherKinds
    <3>2. k = n BY <1>5, <2>3, <3>1, NodeKinds, Behaves
    <3>3. RequestSent(n) BY <2>0, <2>3, <3>1, <3>2, StepOf DEF PollEnds, Requests
    <3>4. session' = [session EXCEPT ![c] = "committed"] BY <2>0, <3>3 DEF RequestSent
    <3> QED BY <2>1, <3>4, Behaves DEF CatalogTypeOK
  <2> QED BY <2>2, <2>3
<1> QED BY <1>1, <1>2, <1>3, <1>4, <1>5 DEF GoodSessions, OpenAfter
-----------------------------------------------------------------------------
(* The memories and resources.                                             *)
LEMMA NodeRemoves ==
  ASSUME GoodNow, [CatalogNext]_vars, NEW n \in running, NodeStep(n),
         NEW t \in pending \cup present, t \notin pending' \cup present'
  PROVE  Removed(t)'
<1>1. n \in DOMAIN graph /\ graph' = graph BY Behaves, Static
<1>2. MayRemove(graph[n], t) /\ Ending(n)
  <2>1. CASE TurnEnds(n)
    <3>1. PICK did \in Does(n) : t \in Forgotten(did) BY <2>1, Behaves DEF TurnEnds, Gone
    <3>2. t = uri /\ Forgets(graph[n])
      <4>1. t = uri /\ \E j \in did : j[2] = "forget" BY <3>1 DEF Forgotten
      <4>2. did \subseteq graph[n].jobs /\ graph[n].op = "Turn" BY <2>1 DEF Does, TurnEnds, Nodes
      <4> QED BY <4>1, <4>2 DEF Forgets
    <3>3. PICK u \in Before[n] : u \in DOMAIN graph /\ graph[u].op = "MemoryURI"
      BY <1>1, <3>2, RemovedTurn, Behaves
    <3>4. uri[1] = "memory" BY <3>3, BeforeDone, Behaves DEF GoneInv
    <3> QED BY <2>1, <3>2, <3>4, MayFailBool DEF MayRemove, TurnEnds, Ending
  <2>2. CASE RemoveEnds(n)
    <3> DEFINE all == IF graph[n].of = "none" THEN {<<"resource", graph[n].what>>} ELSE found[graph[n].of]
    <3>1. graph[n].op = "Remove" /\ pending' = pending
          /\ present' = present \ all /\ Finish(n, TRUE)
      BY <2>2, Behaves DEF RemoveEnds, Gone
    <3>2. t \in all BY <3>1
    <3>3. PICK s \in ever : MayRemove(graph[n], s) /\ all = {s} BY <1>1, <3>1, RemovesOne, Behaves
    <3> QED BY <3>1, <3>2, <3>3 DEF Ending
  <2>3. CASE pending \subseteq pending' /\ present \subseteq present' BY <2>3
  <2> QED BY <2>1, <2>2, <2>3 DEF NodeStep, TurnStarts, CheckEnds, RequestSent, PollEnds, CommandEnds,
        MemoryURIEnds, SessionNewEnds, CompactEnds, AddMemoryEnds, world
<1>3. Begun(n)' BY <1>1, <1>2, FinishFacts, Behaves DEF Ending, Begun, CatalogTypeOK
<1> QED BY <1>1, <1>2, <1>3 DEF Removed

LEMMA StillRunning ==
  ASSUME CatalogTypeOK, OrderInv, [CatalogNext]_vars, result' = "running"
  PROVE  result = "running" /\ ~Deletes
<1>1. ASSUME NEW n \in running PROVE result = "running" BY DEF OrderInv
<1> QED BY <1>1, StepCases, OtherKinds DEF progress, Deletes

LEMMA HereStays ==
  ASSUME GoodNow, [CatalogNext]_vars, result' = "running", NEW t, Here(t)
  PROVE  Here(t)'
<1>1. CASE Removed(t) BY <1>1, Grows, Behaves DEF Here
<1>2. CASE t \in pending \cup present
  <2>1. ASSUME NEW n \in running, NodeStep(n) PROVE Here(t)' BY <1>2, <2>1, NodeRemoves DEF Here
  <2>2. CASE \E c \in DOMAIN session : Extract(c) BY <1>2, <2>2, GoodExtract DEF Extract, Here
  <2>3. CASE \E s \in pending : Index(s) BY <1>2, <2>3, GoodIndex DEF Here
  <2>4. CASE UNCHANGED vars BY <1>2, <2>4 DEF vars, world, Here
  <2> QED BY <2>1, <2>2, <2>3, <2>4, StepCases, StillRunning, Behaves
<1> QED BY <1>1, <1>2 DEF Here

LEMMA GoodThingsStep ==
  ASSUME GoodNow, [CatalogNext]_vars, result' = "running"
  PROVE  GoodThings'
<1>1. graph' = graph /\ Nodes("AddResource")' = Nodes("AddResource") BY Behaves, Static DEF Nodes
<1>2. GoodThings BY StillRunning, Behaves
<1>3. DOMAIN session' = DOMAIN session BY TypeStep, Static, Behaves DEF CatalogTypeOK
<1>4. ASSUME NEW t \in ever' PROVE t \in present' \/ Removed(t)'
  <2>1. CASE t \in ever
    <3>1. t \in present \/ Removed(t) BY <1>2, <2>1 DEF GoodThings
    <3>2. CASE Removed(t) BY <3>2, Grows, Behaves
    <3>3. CASE t \in present
      <4>1. ASSUME NEW n \in running, NodeStep(n) PROVE t \in present' \/ Removed(t)'
        <5>1. CASE t \notin pending' BY <3>3, <4>1, <5>1, NodeRemoves
        <5>2. CASE t \in pending' /\ t \notin present'
          <6>1. CASE TurnEnds(n)
            <7>1. PICK did \in Does(n), stray \in Strays(n), hooks \in MayFail :
                    LET caught == IF hooks THEN Caught(n, did) ELSE {} IN
                    /\ pending' = (pending \cup Added(n, did, stray)) \ Forgotten(did)
                    /\ \E gone \in Gone(Forgotten(did)) :
                         present' = (present \cup {<<"session", c>> : c \in caught}) \ gone
              BY <6>1 DEF TurnEnds
            <7>2. Gone(Forgotten(did)) = {Forgotten(did)} BY Behaves DEF Gone
            <7> QED BY <3>3, <5>2, <7>1, <7>2
          <6>2. CASE RemoveEnds(n)
            <7>1. pending' = pending BY <6>2 DEF RemoveEnds
            <7>2. graph[n].op = "Remove" BY <6>2 DEF RemoveEnds
            <7>3. PICK s \in ever : s \notin pending
                 /\ (IF graph[n].of = "none" THEN {<<"resource", graph[n].what>>} ELSE found[graph[n].of]) = {s}
              BY <7>2, RemovesOne, Behaves
            <7>4. present' = present \ {s} BY <6>2, <7>3, Behaves DEF RemoveEnds, Gone
            <7> QED BY <3>3, <5>2, <7>1, <7>3, <7>4
          <6>3. CASE present \subseteq present' BY <3>3, <5>2, <6>3
          <6> QED BY <4>1, <6>1, <6>2, <6>3 DEF NodeStep, TurnStarts, CheckEnds, RequestSent, PollEnds,
                CommandEnds, MemoryURIEnds, SessionNewEnds, CompactEnds, AddMemoryEnds, world
        <5> QED BY <5>1, <5>2
      <4>2. CASE \E c \in DOMAIN session : Extract(c) BY <3>3, <4>2 DEF Extract
      <4>3. CASE \E s \in pending : Index(s) BY <3>3, <4>3 DEF Index
      <4>4. CASE UNCHANGED vars BY <3>3, <4>4 DEF vars, world
      <4> QED BY <4>1, <4>2, <4>3, <4>4, StepCases, StillRunning, Behaves
    <3> QED BY <3>1, <3>2, <3>3
  <2>2. CASE t \notin ever
    <3>1. ASSUME NEW n \in running, NodeStep(n) PROVE FALSE BY <1>4, <2>2, <3>1, NodeAdds, Behaves DEF Adds
    <3>2. ASSUME NEW s \in pending, Index(s) PROVE t \in present'
      BY <1>4, <2>2, <3>2, GoodIndex
    <3> QED BY <1>4, <2>2, <3>1, <3>2, StepCases, StillRunning, Behaves DEF Extract, vars, world
  <2> QED BY <2>1, <2>2
<1>5. ASSUME NEW c \in DOMAIN session, session'[c] = "extracted" PROVE Here(<<"memory", c>>)'
  <2>1. CASE session[c] = "extracted" BY <1>2, <2>1, HereStays DEF GoodThings
  <2>2. CASE session[c] # "extracted"
    <3>1. ASSUME NEW n \in running, NodeStep(n) PROVE FALSE
      BY <1>5, <2>2, <3>1, NodeAdds, Behaves DEF Adds
    <3>2. ASSUME NEW d \in DOMAIN session, Extract(d) PROVE Here(<<"memory", c>>)'
      <4>1. session' = [session EXCEPT ![d] = "extracted"] /\ pending' = pending \cup {<<"memory", d>>}
        BY <3>2, GoodExtract
      <4>2. c = d BY <1>5, <2>2, <4>1, Behaves DEF CatalogTypeOK
      <4> QED BY <4>1, <4>2 DEF Here
    <3> QED BY <1>5, <2>2, <3>1, <3>2, StepCases, StillRunning, Behaves DEF Index, vars, world
  <2> QED BY <2>1, <2>2
<1>6. ASSUME NEW n \in sent' \cap Nodes("AddResource") PROVE Here(<<"resource", "local">>)'
  <2>0. n \in DOMAIN graph /\ graph[n].op = "AddResource" BY DEF Nodes
  <2>1. CASE n \in sent BY <1>2, <1>6, <2>1, HereStays DEF GoodThings
  <2>2. CASE n \notin sent
    <3>1. PICK k \in running : NodeStep(k) BY <1>6, <2>2, StepCases, OtherKinds
    <3>2. k = n BY <1>6, <2>2, <3>1, NodeKinds, Behaves
    <3>3. RequestSent(n) BY <2>0, <2>2, <3>1, <3>2, StepOf DEF PollEnds, Requests
    <3> QED BY <2>0, <3>3 DEF RequestSent, Here
  <2> QED BY <2>1, <2>2
<1>7. ASSUME NEW n \in DOMAIN graph, Ok(n)', NEW t \in Provides(graph[n]) PROVE Here(t)'
  <2>1. CASE Ok(n) BY <1>2, <1>7, <2>1, HereStays DEF GoodThings
  <2>2. CASE ~Ok(n)
    <3>1. n \in running /\ NodeStep(n) /\ sent' = sent BY <1>7, <2>2, Ends, Behaves
    <3>2. CASE graph[n].op = "Turn"
      <4>1. TurnEnds(n) BY <1>7, <3>1, <3>2, StepOf DEF TurnStarts
      <4>2. t \in JobThings(graph[n].jobs) BY <1>7, <3>2 DEF Provides
      <4>3. Does(n) = {graph[n].jobs} BY Behaves DEF Does
      <4>4. PICK stray \in Strays(n) : pending' = (pending \cup Added(n, graph[n].jobs, stray)) \ Forgotten(graph[n].jobs)
        BY <4>1, <4>3 DEF TurnEnds
      <4>5. t \in Added(n, graph[n].jobs, stray) BY <4>2 DEF Added, JobThings, ToolMemory
      <4>6. CASE t \notin Forgotten(graph[n].jobs) BY <4>4, <4>5, <4>6 DEF Here
      <4>7. CASE t \in Forgotten(graph[n].jobs)
        <5>1. t = uri /\ Forgets(graph[n]) BY <3>2, <4>7 DEF Forgotten, Forgets
        <5>2. PICK u \in Before[n] : u \in DOMAIN graph /\ graph[u].op = "MemoryURI"
          BY <5>1, RemovedTurn, Behaves
        <5>3. uri[1] = "memory" BY <3>1, <5>2, BeforeDone, Behaves DEF GoneInv
        <5>4. MayRemove(graph[n], t) /\ Begun(n)' BY <1>7, <5>1, <5>3 DEF MayRemove, Ok, Begun
        <5> QED BY <1>1, <5>4 DEF Here, Removed
      <4> QED BY <4>6, <4>7
    <3>3. CASE graph[n].op \in {"SessionCommitted", "SessionCommit"}
      <4>1. t = <<"memory", graph[n].conv>> BY <1>7, <3>3 DEF Provides
      <4>2. PollEnds(n) BY <3>1, <3>3, StepOf DEF Polls, Requests, RequestSent
      <4>3. session[graph[n].conv] = "extracted" /\ session' = session
        BY <1>7, <3>3, <4>2, PollOk, Behaves DEF Ready, PollEnds, world
      <4>4. graph[n].conv \in DOMAIN session
        BY <3>3, NoTool, Behaves, Rules DEF Disciplined, OneGiver
      <4> QED BY <1>5, <4>1, <4>3, <4>4
    <3>4. CASE graph[n].op = "AddMemory"
      <4>1. t = <<"memory", graph[n].conv>> BY <1>7, <3>4 DEF Provides
      <4>2. pending' = pending \cup {<<"memory", graph[n].conv>>}
        BY <3>1, <3>4, StepOf, Behaves DEF AddMemoryEnds
      <4> QED BY <4>1, <4>2 DEF Here
    <3>5. CASE graph[n].op = "AddResource"
      <4>1. t = <<"resource", "local">> BY <1>7, <3>5 DEF Provides
      <4>2. n \in sent
        <5>1. ~RequestSent(n) BY <3>1 DEF RequestSent
        <5> QED BY <5>1, <3>1, <3>5, StepOf DEF PollEnds, Requests
      <4> QED BY <1>6, <3>1, <3>5, <4>1, <4>2 DEF Nodes
    <3>6. CASE graph[n].op \notin {"Turn", "SessionCommitted", "SessionCommit", "AddMemory", "AddResource"}
      BY <1>7, <3>6 DEF Provides
    <3> QED BY <3>2, <3>3, <3>4, <3>5, <3>6
  <2> QED BY <2>1, <2>2
<1> QED BY <1>1, <1>3, <1>4, <1>5, <1>6, <1>7 DEF GoodThings
-----------------------------------------------------------------------------
LEMMA GoodStep ==
  ASSUME CatInv, [CatalogNext]_vars
  PROVE  GoodInv'
<1>1. graph' = graph /\ faults' = faults BY Parts, Static
<1>2. CASE faults BY <1>1, <1>2 DEF GoodInv
<1>3. CASE ~faults
  <2>1. GoodNow BY <1>3, Parts DEF GoodNow
  <2> QED BY <1>1, <2>1, NoFailure, GoodTurnsStep, GoodSessionsStep, GoodThingsStep DEF GoodInv
<1> QED BY <1>2, <1>3

LEMMA CatInvStep ==
  ASSUME CatInv, [CatalogNext]_vars
  PROVE  CatInv'
BY Parts, TypeStep, OrderStep, SentStep, WorldStep, SessionStep, TurnStep, SeenStep, GoneStep,
   ClaimStep, GoodStep DEF CatInv

LEMMA CatInvInit ==
  ASSUME CatalogInit
  PROVE  CatInv
<1> USE DEF CatalogInit
<1>1. CatalogTypeOK BY DEF CatalogTypeOK, TurnType, NotYet, StrayCalls
<1>2. \A n \in DOMAIN graph : ~Begun(n) /\ ~Ok(n) /\ done[n] = "no" BY DEF Begun, Ok
<1>3. OrderInv
  <2>1. Ordered(graph, Before) BY <1>1, Rules DEF Disciplined
  <2>2. \A n \in running : Before[n] = {} BY <2>1 DEF Ordered
  <2>3. \A n \in DOMAIN graph : (\A m \in graph[n].after : Ok(m)) => n \in running
    BY <1>2, <2>1 DEF Ordered
  <2> QED BY <1>2, <2>2, <2>3 DEF OrderInv
<1>4. SentInv BY <1>2 DEF SentInv
<1>5. WorldInv BY DEF WorldInv
<1>6. SessionInv BY DEF SessionInv
<1>7. TurnInv BY <1>2 DEF TurnInv, NotYet, Nodes
<1>8. SeenInv BY <1>2 DEF SeenInv
<1>9. GoneInv BY <1>2 DEF GoneInv, NotYet
<1>10. ClaimInv BY <1>2 DEF ClaimInv
<1>11. GoodTurns BY <1>2 DEF GoodTurns, NotYet, Nodes
<1>12. GoodSessions BY <1>2 DEF GoodSessions, Nodes
<1>13. GoodThings BY <1>2 DEF GoodThings
<1> QED BY <1>1, <1>2, <1>3, <1>4, <1>5, <1>6, <1>7, <1>8, <1>9, <1>10, <1>11, <1>12, <1>13
    DEF CatInv, GoodInv

(* Of every case that keeps the rules, with every agent and every server:  *)
(* the order the executor keeps, where each thing on the server came from, *)
(* what every check and search has seen, that what is gone does not come   *)
(* back, what is claimed, and what is due when nobody errs.                *)
THEOREM CatalogInvariant == CatalogSpec => []CatInv
<1>1. CatInv /\ [CatalogNext]_vars => CatInv' BY CatInvStep
<1> QED BY <1>1, CatInvInit, PTL DEF CatalogSpec
-----------------------------------------------------------------------------
(* What a passed case stands for.                                          *)
LEMMA NotStrayed ==
  ASSUME CatInv, \A n \in DOMAIN graph : Ok(n), NEW m \in Nodes("Turn")
  PROVE  /\ turn[m].stray \in StrayCalls
         /\ Forbidden(graph, m) => turn[m].stray # "openviking"
         /\ Banned(graph, m) => turn[m].stray = "none"
BY Parts DEF Forbidden, Banned, SeenInv, CatalogTypeOK, TurnType

LEMMA TheTurns ==
  ASSUME CatInv
  PROVE  Turns = Nodes("Turn") /\ \A m \in Nodes("Turn") : m \in DOMAIN graph /\ graph[m].op = "Turn"
BY Parts DEF Turns, CatalogTypeOK, Nodes

LEMMA NoToolWrote ==
  ASSUME CatInv, \A n \in DOMAIN graph : Ok(n), ToolFree(graph), ~WentAround
  PROVE  ToolMemory \notin pending \cup ever
<1> SUFFICES ASSUME ToolMemory \in pending \cup ever PROVE FALSE OBVIOUS
<1>1. PICK m \in Nodes("Turn") : /\ ToolMemory \in Gives(graph[m])
                                 /\ turn[m].stray # "none" \/ ToolMemory \in JobThings(graph[m].jobs)
  BY Parts DEF WorldInv
<1>2. Forbidden(graph, m) /\ ToolMemory \notin JobThings(graph[m].jobs)
  BY <1>1, TheTurns DEF ToolFree
<1>3. turn[m].stray = "other" BY <1>1, <1>2, NotStrayed DEF StrayCalls
<1> QED BY <1>3, TheTurns DEF WentAround

LEMMA Earned ==
  ASSUME CatInv
  PROVE  PassIsEarned
<1> DEFINE r == Reference[case]
           unseen == r.banned = "openviking" /\ WentAround
           seen == ever \cup {Leftover(what) : what \in leftovers}
           extra(it) == IF unseen THEN {it} ELSE {}
<1> SUFFICES ASSUME result = "passed"
    PROVE  /\ r.banned # "nothing" => \A n \in Turns : turn[n].stray # "openviking"
           /\ r.banned = "any" => ~WentAround
           /\ r.banned # "nothing" /\ ToolMemory \in ever => unseen
           /\ r.bases # {} =>
                \E n \in Turns : graph[n].recalls /\ turn[n].basis \in r.bases \cup extra("tool")
           /\ r.tools \subseteq Did
           /\ \A c \in r.extracted : session[c] = "extracted"
           /\ \A alternatives \in r.things : (alternatives \cup extra(ToolMemory)) \cap seen # {}
           /\ r.forgotten => uri[1] = "memory" /\ uri \notin present
           /\ r.removed \cap present = {}
  BY DEF PassIsEarned
<1>1. \A n \in DOMAIN graph : Ok(n) /\ Begun(n) BY Parts, AllPassed DEF Ok, Begun
<1>2. DemandMet(graph, Before, r) BY Parts, Rules
<1> HIDE DEF r
<1>3. ASSUME r.banned # "nothing"
      PROVE  /\ ToolFree(graph) /\ \A n \in Turns : turn[n].stray \in {"none", "other"}
             /\ WentAround => unseen
  <2>1. /\ ToolFree(graph) /\ \A m \in DOMAIN graph : graph[m].op = "Turn" => Forbidden(graph, m)
        /\ r.banned \in {"nothing", "openviking", "any"}
        /\ r.banned = "any" => \A m \in DOMAIN graph : graph[m].op = "Turn" => Banned(graph, m)
    BY <1>2, <1>3 DEF DemandMet
  <2>2. \A n \in Turns : turn[n].stray \in {"none", "other"}
    BY <1>1, <2>1, TheTurns, NotStrayed DEF StrayCalls
  <2>3. r.banned = "any" => ~WentAround BY <1>1, <2>1, TheTurns, NotStrayed DEF WentAround
  <2> QED BY <1>3, <2>1, <2>2, <2>3
<1>4. r.banned = "any" => ~WentAround BY <1>3
<1>5. ASSUME r.banned # "nothing", ToolMemory \in ever PROVE unseen
  <2>1. WentAround BY <1>1, <1>3, <1>5, NoToolWrote
  <2> QED BY <1>3, <1>5, <2>1
<1>6. ASSUME r.bases # {}
      PROVE  \E n \in Turns : graph[n].recalls /\ turn[n].basis \in r.bases \cup extra("tool")
  <2>1. PICK k \in DOMAIN graph :
         /\ graph[k].op = "Text" /\ graph[graph[k].of].recalls /\ r.banned # "nothing"
         /\ {"context"} \cup (IF graph[graph[k].of].continues = {} THEN {} ELSE {"history"}) \subseteq r.bases
    BY <1>2, <1>6 DEF DemandMet
  <2> DEFINE m == graph[k].of
  <2>2. m \in Nodes("Turn") BY <2>1, NamedUse, Parts
  <2>3. turn[m].basis # "wrong" BY <1>1, <2>1, Parts DEF SeenInv
  <2>4. turn[m].stray \in {"none", "other"} /\ (turn[m].stray # "none" => unseen)
    BY <1>3, <2>1, <2>2, TheTurns DEF WentAround
  <2>5. /\ turn[m].basis # "none" /\ (turn[m].basis = "tool" => turn[m].stray # "none")
        /\ turn[m].basis = "history" => graph[m].continues # {}
    BY <1>1, <2>1, <2>2, TheTurns, Parts DEF TurnInv
  <2>6. turn[m].basis \in {"none", "context", "history", "tool", "wrong"}
    BY <2>2, Parts DEF CatalogTypeOK, TurnType
  <2>7. turn[m].basis \in r.bases \cup extra("tool") BY <2>1, <2>3, <2>4, <2>5, <2>6
  <2> QED BY <2>1, <2>2, <2>7, TheTurns
<1>7. r.tools \subseteq Did
  <2>1. r.tools \subseteq UNION {graph[e].expect : e \in {n \in DOMAIN graph : graph[n].op = "Evidence"}}
    BY <1>2 DEF DemandMet
  <2>2. ASSUME NEW e \in DOMAIN graph, graph[e].op = "Evidence" PROVE graph[e].expect \subseteq Did
    <3>1. graph[e].expect \subseteq ToolsOf(graph[e].of) BY <1>1, <2>2, Parts DEF SeenInv
    <3>2. graph[e].of \in Turns BY <2>2, NamedUse, Parts, TheTurns
    <3> QED BY <3>1, <3>2 DEF Did
  <2> QED BY <2>1, <2>2
<1>8. ASSUME NEW c \in r.extracted PROVE session[c] = "extracted"
  <2>1. PICK n \in DOMAIN graph : graph[n].op \in {"SessionCommitted", "SessionCommit"} /\ graph[n].conv = c
    BY <1>2 DEF DemandMet
  <2> QED BY <1>1, <2>1, Parts DEF SeenInv
<1>9. ASSUME NEW alternatives \in r.things PROVE (alternatives \cup extra(ToolMemory)) \cap seen # {}
  <2>1. PICK k \in DOMAIN graph :
         /\ graph[k].op = "Find" /\ ~graph[k].gone
         /\ graph[k].named \/ <<"leftover", graph[k].what>> \in alternatives
         /\ \A m \in DOMAIN graph : k \in Before[m] \/
              \A t \in Gives(graph[m]) :
                Fits(t, graph[k].what) => t \in alternatives \/ (t = ToolMemory /\ r.banned # "nothing")
    BY <1>2 DEF DemandMet
  <2>2. \/ ~graph[k].named /\ graph[k].what \in leftovers
        \/ \E t \in ever : Fits(t, graph[k].what) /\
              \E m \in DOMAIN graph : t \in Gives(graph[m]) /\ k \notin Before[m]
    BY <1>1, <2>1, Parts DEF SeenInv
  <2>3. CASE ~graph[k].named /\ graph[k].what \in leftovers
    <3>1. Leftover(graph[k].what) \in seen /\ Leftover(graph[k].what) \in alternatives
      BY <2>1, <2>3 DEF Leftover
    <3> QED BY <3>1
  <2>4. ASSUME NEW t \in ever, Fits(t, graph[k].what),
               NEW m \in DOMAIN graph, t \in Gives(graph[m]), k \notin Before[m]
        PROVE  t \in (alternatives \cup extra(ToolMemory)) \cap seen
    <3>1. t \in alternatives \/ (t = ToolMemory /\ r.banned # "nothing") BY <2>1, <2>4
    <3> QED BY <2>4, <3>1, <1>5
  <2> QED BY <2>2, <2>3, <2>4
<1>10. ASSUME r.forgotten PROVE uri[1] = "memory" /\ uri \notin present
  <2>1. PICK f \in DOMAIN graph, e \in DOMAIN graph, v \in DOMAIN graph :
         /\ Forgets(graph[f]) /\ graph[e].op = "Evidence" /\ graph[e].of = f
         /\ \E tool \in graph[e].expect : \A j \in graph[f].jobs : j[1] = tool => j[2] = "forget"
         /\ graph[v].op = "URIAbsent" /\ f \in Before[v]
    BY <1>2, <1>10 DEF DemandMet
  <2>2. PICK tool \in graph[e].expect : \A j \in graph[f].jobs : j[1] = tool => j[2] = "forget"
    BY <2>1
  <2>3. f \in Nodes("Turn") BY <2>1 DEF Forgets, Nodes
  <2>4. tool \in ToolsOf(f) BY <1>1, <2>1, <2>2, Parts DEF SeenInv
  <2>5. PICK j \in turn[f].did : j[1] = tool BY <2>4 DEF ToolsOf
  <2>6. j[2] = "forget" BY <2>2, <2>3, <2>5, Parts DEF TurnInv
  <2>7. uri \notin present BY <1>1, <2>1, <2>3, <2>5, <2>6, Parts DEF GoneInv, Forgot
  <2>8. PICK u \in Before[f] : u \in DOMAIN graph /\ graph[u].op = "MemoryURI" BY <2>1, RemovedTurn, Parts
  <2>9. uri[1] = "memory" BY <1>1, <2>8, Parts DEF GoneInv
  <2> QED BY <2>7, <2>9
<1>11. ASSUME NEW t \in r.removed PROVE t \notin present
  <2>1. PICK n \in DOMAIN graph : LooksBack(graph, Before, n, t) BY <1>2 DEF DemandMet
  <2>2. PICK q \in Before[n] : graph[q].op = "Remove" /\ t \in Cleared(graph, q) BY <2>1 DEF LooksBack
  <2>3. q \in DOMAIN graph BY <2>2, NamedUse, Parts
  <2>4. t \in Yields(graph) BY <2>2, <2>3, Parts, Rules DEF Disciplined, RemovesItsOwn
  <2> QED BY <1>1, <2>1, <2>4, Parts DEF GoneInv
<1> QED BY <1>3, <1>4, <1>5, <1>6, <1>7, <1>8, <1>9, <1>10, <1>11

(* A case passes only if what its Reference asks for has happened: no pass *)
(* without the capture, the recall, the tool calls, the memories and       *)
(* resources, and the deletion the case is about.                          *)
THEOREM PassesAreEarned == CatalogSpec => []PassIsEarned
<1>1. CatInv => PassIsEarned BY Earned
<1> QED BY <1>1, CatalogInvariant, PTL

(* No case claims what another run left; a passed case of the release      *)
(* suites has claimed all it left, the known exceptions aside; and nothing *)
(* claimed outlives the cleanup but what could not be deleted.             *)
THEOREM ClaimsAreExact == CatalogSpec => []ClaimsExact
<1>1. CatInv => ClaimsExact
  <2> SUFFICES ASSUME CatInv PROVE ClaimsExact OBVIOUS
  <2>1. ASSUME NEW t \in claimed PROVE t[1] # "leftover"
    <3>1. PICK m \in DOMAIN graph : t \in Gives(graph[m]) BY <2>1, Parts DEF ClaimInv, Yields
    <3> QED BY <3>1, Kinds
  <2>2. ASSUME result = "passed", case \in Suite.openviking, NEW t \in present
        PROVE  t \in claimed \cup KnownLeft(case) \/ (WentAround /\ t = ToolMemory)
    <3>1. \A n \in DOMAIN graph : Ok(n) BY <2>2, Parts, AllPassed
    <3>2. t \in Yields(graph) BY <2>2, Parts, IsYield DEF WorldInv
    <3>3. AllClaimed(graph, KnownLeft(case)) BY <2>2, Parts, Rules
    <3>4. \/ t \in KnownLeft(case)
          \/ t = ToolMemory /\ ToolFree(graph)
          \/ \E n \in DOMAIN graph : t \in Claims(graph, n)
      BY <3>2, <3>3 DEF AllClaimed
    <3>5. ASSUME t = ToolMemory, ToolFree(graph), ~WentAround PROVE FALSE
      <4>1. ToolMemory \in ever BY <2>2, <3>5, Parts DEF WorldInv, ToolMemory
      <4> QED BY <4>1, <3>1, <3>5, NoToolWrote
    <3>6. ASSUME NEW n \in DOMAIN graph, t \in Claims(graph, n) PROVE t \in claimed
      BY <3>1, <3>6, Parts DEF ClaimInv
    <3> QED BY <3>4, <3>5, <3>6
  <2>3. Over => claimed \cap present \subseteq stuck BY Parts DEF Over, ClaimInv
  <2> QED BY <2>1, <2>2, <2>3 DEF ClaimsExact
<1> QED BY <1>1, CatalogInvariant, PTL

(* With an agent and a server that behave no case fails, at any pace.      *)
THEOREM GoodRunsPass == CatalogSpec => []GoodRunPasses
<1>1. CatInv => GoodRunPasses BY Parts DEF GoodInv, GoodRunPasses, OrderInv
<1> QED BY <1>1, CatalogInvariant, PTL
=============================================================================
