------------------------------ MODULE Workflow ------------------------------
(***************************************************************************)
(* The static part of package dag: a built workflow (ir.go, builder.go)    *)
(* and the dependency graph an Executor derives from it                    *)
(* (executor.go, buildDependencies).                                       *)
(*                                                                         *)
(* A Ref names the producers it reads, in wiring order, and whether it     *)
(* collects every active value (Merge) or takes the last one (a plain      *)
(* handle, Select).  A condition is the conjunction the Builder makes of   *)
(* the enclosing If blocks; each of its literals asks whether a Ref        *)
(* resolves to a truthy value.  Field paths, input keys, default values    *)
(* and multiple outputs of one node are left out: they do not change which *)
(* node is read, or when.  An edge condition on a producer is also left    *)
(* out, because the Builder never sets one.                                *)
(***************************************************************************)
EXTENDS Integers, Sequences, FiniteSets

CONSTANTS
  Nodes,        \* the node names of the workflow
  Position,     \* insertion order: Position[n] is n's place in workflow.nodes
  Inputs,       \* Inputs[n]: the set of Refs wired into node n
  Conditions,   \* Conditions[n]: the literals of n's condition; {} = unconditional
  Values,       \* what an operator may put in its output, Nil included
  TruthyValues, \* those of Values that count as true in a condition
  Nil,          \* the output of a skipped node, and of a Ref with nothing active
  Absent        \* no entry in the results map

Refs == [producers : Seq(Nodes), collect : BOOLEAN]

Producers(ref) == {ref.producers[i] : i \in DOMAIN ref.producers}

(* Every node whose output is read to resolve n's inputs or its condition. *)
Reads(n) ==
  (UNION {Producers(r) : r \in Inputs[n]})
    \cup (UNION {Producers(lit.ref) : lit \in Conditions[n]})

(* Two slips of the dependency walk: conditions forgotten, and only the    *)
(* first producer of a fan-in counted.                                     *)
DependenciesOfInputsOnly ==
  [n \in Nodes |-> UNION {Producers(r) : r \in Inputs[n]}]

DependenciesOfFirstProducer ==
  [n \in Nodes |->
     {r.producers[1] : r \in Inputs[n] \cup {lit.ref : lit \in Conditions[n]}}]

Dependencies == [n \in Nodes |-> Reads(n) \ {n}]

Successors(n) == {m \in Nodes : n \in Dependencies[m]}

(* What detectCycle establishes for every Executor that exists: the nodes  *)
(* can be ranked so that each is above everything it depends on.           *)
Acyclic ==
  \E rank \in [Nodes -> 0 .. Cardinality(Nodes)] :
    \A n \in Nodes : \A d \in Dependencies[n] : rank[d] < rank[n]

ASSUME WorkflowAssumption ==
  /\ IsFiniteSet(Nodes)
  /\ Position \in [Nodes -> Nat]
  /\ \A m, n \in Nodes : Position[m] = Position[n] => m = n
  /\ \A n \in Nodes :
       /\ \A r \in Inputs[n] : r \in Refs
       /\ \A lit \in Conditions[n] : lit.ref \in Refs /\ lit.want \in BOOLEAN
       /\ n \notin Reads(n)
  /\ TruthyValues \subseteq Values
  /\ Nil \notin TruthyValues
  /\ Absent \notin Values \cup {Nil}
  /\ Acyclic

(***************************************************************************)
(* Resolving a Ref (resolveRef).  `seen` gives, for each producer of the   *)
(* Ref, its recorded output, or Absent when the producer was skipped or    *)
(* has no entry in the results.                                            *)
(***************************************************************************)
Resolve(ref, seen) ==
  LET active == SelectSeq(ref.producers, LAMBDA p : seen[p] # Absent)
      value(i) == seen[active[i]]
  IN IF ref.collect THEN [i \in DOMAIN active |-> value(i)]
     ELSE IF active = <<>> THEN Nil
     ELSE value(Len(active))

(* A collected list is true when it is not empty; Nil is false.            *)
Truthy(ref, seen) ==
  IF ref.collect THEN Resolve(ref, seen) # <<>>
  ELSE Resolve(ref, seen) \in TruthyValues

(* The elements of a set of nodes, listed in insertion order.              *)
InOrder(S) ==
  {q \in [1 .. Cardinality(S) -> S] :
     /\ \A n \in S : \E i \in DOMAIN q : q[i] = n
     /\ \A i, j \in DOMAIN q : i < j => Position[q[i]] < Position[q[j]]}
=============================================================================
