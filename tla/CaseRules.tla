------------------------------ MODULE CaseRules ------------------------------
(***************************************************************************)
(* What makes a case a good one, read off its graph alone.  The rules say  *)
(* which node has to come after which, which turn needs an evidence node,  *)
(* and what has to be claimed; CaseCatalogProofs proves that a case which  *)
(* keeps them has the properties of CaseCatalogProps, whatever agent and   *)
(* server do.  TLC evaluates them for the graphs of the repository.        *)
(***************************************************************************)
EXTENDS CaseCatalogProps

(* All that a node comes after, directly or not.                           *)
Past ==
  [c \in DOMAIN Workflow |->
    LET g == Workflow[c]
        past[n \in DOMAIN g] == g[n].after \cup UNION {past[m] : m \in g[n].after}
    IN past]

Ordered(g, past) ==
  /\ IsFiniteSet(DOMAIN g) /\ "none" \notin DOMAIN g
  /\ \A n \in DOMAIN g :
       /\ past[n] \subseteq DOMAIN g /\ n \notin past[n]
       /\ past[n] = g[n].after \cup UNION {past[m] : m \in g[n].after}
-----------------------------------------------------------------------------
(* What a node may bring to the server, and what it is sure to.            *)
MayStray(node) == node.op = "Turn" /\ (node.jobs = {} \/ node.captures # {})

JobThings(jobs) ==
  {ToolMemory : j \in {x \in jobs : x[2] = "memory"}}
    \cup {<<"resource", j[2]>> : j \in {x \in jobs : x[2] \in {"remote", "local"}}}

Gives(node) ==
  CASE node.op = "Turn" ->
         ({"session", "memory"} \X node.captures) \cup JobThings(node.jobs)
           \cup (IF MayStray(node) /\ ~node.recalls THEN {ToolMemory} ELSE {})
    [] node.op = "SessionNew" -> {<<"session", node.conv>>}
    [] node.op \in {"SessionCommit", "AddMemory"} -> {<<"memory", node.conv>>}
    [] node.op = "AddResource" -> {<<"resource", "local">>}
    [] OTHER -> {}

Provides(node) ==
  CASE node.op = "Turn" -> JobThings(node.jobs)
    [] node.op \in {"SessionCommitted", "SessionCommit", "AddMemory"} -> {<<"memory", node.conv>>}
    [] node.op = "AddResource" -> {<<"resource", "local">>}
    [] OTHER -> {}

Yields(g) == UNION {Gives(g[n]) : n \in DOMAIN g}
Fits(t, what) == t[1] = what \/ t = <<"resource", what>>

Forgets(node) == node.op = "Turn" /\ \E j \in node.jobs : j[2] = "forget"
MayRemove(node, t) ==
  \/ t[1] = "memory" /\ (Forgets(node) \/ (node.op = "Remove" /\ node.of # "none"))
  \/ node.op = "Remove" /\ node.of = "none" /\ t = <<"resource", node.what>>

(* What a search of this run can mean by itself.                           *)
Own(node) == node.op = "Find" /\ node.named /\ ~node.gone

(* The evidence of a turn forbids what was not asked for, the tools of     *)
(* OpenViking or every tool; and cases that no tool of OpenViking writes a *)
(* memory in without being seen.                                           *)
Forbidden(g, m) ==
  \E e \in DOMAIN g : g[e].op = "Evidence" /\ g[e].of = m /\ g[e].forbid \in {"openviking", "any"}
Banned(g, m) == \E e \in DOMAIN g : g[e].op = "Evidence" /\ g[e].of = m /\ g[e].forbid = "any"
ToolFree(g) ==
  \A m \in DOMAIN g : ToolMemory \in Gives(g[m]) => Forbidden(g, m) /\ ToolMemory \notin JobThings(g[m].jobs)
-----------------------------------------------------------------------------
(* Every conversation and every resource comes from one node; a            *)
(* conversation is no tool's.                                              *)
OneGiver(g) ==
  /\ \A n, m \in DOMAIN g : \A t \in Gives(g[n]) \cap Gives(g[m]) : t = ToolMemory \/ n = m
  /\ "tool" \notin Conversations(g)
  /\ \A n \in DOMAIN g :
       /\ g[n].op = "AddMemory" => g[n].conv \notin Conversations(g) \cup {"tool"}
       /\ g[n].op \in {"SessionCommit", "SessionCommitted", "SessionPresent"} =>
            g[n].conv \in Conversations(g)

(* Nodes that speak of another node come after it.                         *)
Refers(g, past) ==
  \A n \in DOMAIN g :
    /\ g[n].op \in {"Evidence", "Text", "Compact"} =>
         g[n].of \in past[n] /\ g[g[n].of].op = "Turn"
    /\ g[n].op = "MemoryURI" =>
         g[n].of \in past[n] /\ Own(g[g[n].of]) /\ g[g[n].of].what = "memory"
    /\ g[n].op = "SessionCommit" =>
         \E m \in past[n] : g[m].op = "SessionNew" /\ g[m].conv = g[n].conv
    /\ g[n].op = "Find" => g[n].what # "session"
    /\ g[n].claim => g[n].named

(* The turns of one directory come one after the other.                    *)
TurnsInTurn(g, past) ==
  \A n, m \in DOMAIN g :
    g[n].op = "Turn" /\ g[m].op = "Turn" /\ g[n].dir = g[m].dir =>
      n = m \/ n \in past[m] \/ m \in past[n]

(* A turn forgets the one memory whose URI was found before, and no later  *)
(* turn may write another one.                                             *)
ForgetsOnce(g, past) ==
  /\ \A u, v \in DOMAIN g : g[u].op = "MemoryURI" /\ g[v].op = "MemoryURI" => u = v
  /\ \A f \in DOMAIN g : Forgets(g[f]) =>
       /\ \E u \in past[f] : g[u].op = "MemoryURI"
       /\ \A m \in DOMAIN g : ToolMemory \in Gives(g[m]) => m = f \/ m \in past[f]

(* What is removed is one thing of this run, which was found before.       *)
Cleared(g, r) ==
  IF g[r].of = "none" THEN {<<"resource", g[r].what>>}
  ELSE {t \in Yields(g) : Fits(t, g[g[r].of].what)}

RemovesItsOwn(g, past) ==
  \A r \in DOMAIN g : g[r].op = "Remove" =>
    \E k \in past[r], t \in Yields(g) \ {ToolMemory} :
      /\ Own(g[k]) /\ {s \in Yields(g) : Fits(s, g[k].what)} = {t} /\ Cleared(g, r) = {t}
      /\ g[r].of # "none" => k = g[r].of /\ t[1] = "memory"
-----------------------------------------------------------------------------
(* A search that is to find what was removed no more.                      *)
LooksBack(g, past, n, t) ==
  /\ g[n].op = "Find" /\ g[n].gone /\ g[n].named /\ Fits(t, g[n].what)
  /\ \E r \in past[n] : g[r].op = "Remove" /\ t \in Cleared(g, r)

(* What every Reference asks for has a node that sees to it.               *)
DemandMet(g, past, r) ==
  /\ r.banned \in {"nothing", "openviking", "any"}
  /\ r.banned # "nothing" =>
       ToolFree(g) /\ \A m \in DOMAIN g : g[m].op = "Turn" => Forbidden(g, m)
  /\ r.banned = "any" => \A m \in DOMAIN g : g[m].op = "Turn" => Banned(g, m)
  /\ r.bases # {} =>
       \E k \in DOMAIN g :
         /\ g[k].op = "Text" /\ g[g[k].of].recalls /\ r.banned # "nothing"
         /\ {"context"} \cup (IF g[g[k].of].continues = {} THEN {} ELSE {"history"}) \subseteq r.bases
  /\ r.tools \subseteq UNION {g[e].expect : e \in {n \in DOMAIN g : g[n].op = "Evidence"}}
  /\ \A c \in r.extracted :
       \E n \in DOMAIN g : g[n].op \in {"SessionCommitted", "SessionCommit"} /\ g[n].conv = c
  /\ \A alternatives \in r.things :
       \E k \in DOMAIN g :
         /\ g[k].op = "Find" /\ ~g[k].gone
         /\ g[k].named \/ <<"leftover", g[k].what>> \in alternatives
         /\ \A m \in DOMAIN g : k \in past[m] \/
              \A t \in Gives(g[m]) :
                Fits(t, g[k].what) => t \in alternatives \/ (t = ToolMemory /\ r.banned # "nothing")
  /\ r.forgotten =>
       \E f, e, v \in DOMAIN g :
         /\ Forgets(g[f]) /\ g[e].op = "Evidence" /\ g[e].of = f
         /\ \E tool \in g[e].expect : \A j \in g[f].jobs : j[1] = tool => j[2] = "forget"
         /\ g[v].op = "URIAbsent" /\ f \in past[v]
  /\ \A t \in r.removed : \E n \in DOMAIN g : LooksBack(g, past, n, t)

(* Everything a case may leave is claimed by a node of it.                 *)
Claims(g, n) ==
  CASE g[n].op = "SessionCommitted" -> {"session", "memory"} \X {g[n].conv}
    [] g[n].op \in {"SessionPresent", "SessionNew"} -> {<<"session", g[n].conv>>}
    [] g[n].op = "SessionCommit" /\ g[n].claim -> {<<"memory", g[n].conv>>}
    [] g[n].op = "Find" /\ g[n].claim /\ ~g[n].gone ->
         {t \in Yields(g) : \A s \in Yields(g) : Fits(s, g[n].what) => s = t}
    [] OTHER -> {}

AllClaimed(g, known) ==
  \A t \in Yields(g) :
    t \in known \/ (t = ToolMemory /\ ToolFree(g)) \/ \E n \in DOMAIN g : t \in Claims(g, n)
-----------------------------------------------------------------------------
(* No node looks before what it looks for is due, or after it is gone.     *)
Kept(g, past, n, t) == \A r \in DOMAIN g : MayRemove(g[r], t) => n \in past[r]

Committed(g, past, n) ==
  \E m \in past[n] :
    /\ g[m].op = "Turn" /\ g[n].conv \in g[m].captures
    /\ \/ g[m].commits = "end of turn"
       \/ g[m].commits = "next startup" /\
            \E j \in past[n] : g[j].op = "Turn" /\ g[j].dir = g[m].dir /\ m \in past[j]
       \/ g[m].commits = "compaction" /\
            \E j \in past[n] : g[j].op = "Compact" /\ g[j].of = m

Recalled(g, past, m) ==
  \/ ~g[m].recalls \/ g[m].continues # {}
  \/ /\ \E k \in past[m] : Own(g[k]) /\ g[k].what = "memory"
     /\ Kept(g, past, m, ToolMemory)

Due(g, past) ==
  \A n \in DOMAIN g :
    CASE g[n].op = "Find" /\ ~g[n].gone ->
           \E p \in past[n] : \E t \in Provides(g[p]) : Fits(t, g[n].what) /\ Kept(g, past, n, t)
      [] g[n].op = "Find" /\ g[n].gone ->
           /\ g[n].named
           /\ \A t \in Yields(g) : Fits(t, g[n].what) =>
                \E r \in past[n] : g[r].op = "Remove" /\ t \in Cleared(g, r)
      [] g[n].op = "SessionCommitted" -> Committed(g, past, n)
      [] g[n].op = "SessionPresent" ->
           \E m \in past[n] : g[m].op = "Turn" /\ g[n].conv \in g[m].captures
      [] g[n].op = "URIAbsent" -> \E f \in past[n] : Forgets(g[f])
      [] g[n].op = "AddResource" -> Kept(g, past, n, <<"resource", "local">>)
      [] g[n].op = "Evidence" -> g[n].expect \subseteq {j[1] : j \in g[g[n].of].jobs}
      [] g[n].op = "Text" -> Recalled(g, past, g[n].of)
      [] OTHER -> TRUE
-----------------------------------------------------------------------------
Disciplined(g, past) ==
  /\ Ordered(g, past) /\ OneGiver(g) /\ Refers(g, past) /\ TurnsInTurn(g, past)
  /\ ForgetsOnce(g, past) /\ RemovesItsOwn(g, past) /\ Due(g, past)

ASSUME CasesAreDisciplined ==
  \A c \in Cases :
    /\ Disciplined(Workflow[c], Past[c])
    /\ DemandMet(Workflow[c], Past[c], Reference[c])
    /\ c \in Suite.openviking => AllClaimed(Workflow[c], KnownLeft(c))
=============================================================================
