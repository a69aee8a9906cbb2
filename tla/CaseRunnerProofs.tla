--------------------------- MODULE CaseRunnerProofs ---------------------------
(***************************************************************************)
(* Proofs that the properties of DagExecutorProps hold for every workflow  *)
(* and every concurrency cap, and those of CaseRunnerProps for every gate  *)
(* policy too.                                                             *)
(*                                                                         *)
(* First the executor.  Its inductive invariant ties the scheduler's       *)
(* counters and its queue to what has been settled: a node is queued       *)
(* exactly when it is idle and everything it depends on is settled.        *)
(***************************************************************************)
EXTENDS CaseRunnerProps, SequenceTheorems, FiniteSetTheorems,
        WellFoundedInduction, TLAPS

Elements(s) == {s[i] : i \in 1 .. Len(s)}
Distinct(s) == \A i, j \in 1 .. Len(s) : s[i] = s[j] => i = j

Waiting(n) == proc[n] = "idle" /\ results[n] = Absent /\ Dependencies[n] \subseteq Settled

(* The queue holds each node that may be launched, and each only once.     *)
QueueInv ==
  /\ Distinct(ready)
  /\ Elements(ready) = {n \in Nodes : Waiting(n)}

(* The indegrees count what is still unsettled.                            *)
DegreeInv ==
  \A n \in Nodes : indegree[n] = Cardinality(Dependencies[n] \ Settled)

(* The life of one node.                                                   *)
NodeInv ==
  \A n \in Nodes :
    /\ proc[n] # "idle" => Dependencies[n] \subseteq Settled
    /\ n \in Settled => Dependencies[n] \subseteq Settled
    /\ n \in Settled => proc[n] \in {"idle", "gone"}
    /\ n \in Settled /\ proc[n] = "idle" => n \in skipped
    /\ n \in skipped => n \in Settled /\ proc[n] = "idle"
    /\ proc[n] = "gone" /\ n \notin Settled => firstErr # None
    /\ proc[n] \in {"sending", "gone"} <=> outcome[n] # Absent

(* The trace says what happened.                                           *)
TraceInv ==
  \A n \in Nodes :
    /\ trace[n] \in {"output", "error"} <=> proc[n] = "gone"
    /\ trace[n] = "skipped" <=> n \in skipped
    /\ trace[n] = "error" => firstErr # None

CountInv ==
  /\ inFlight = Cardinality(InFlightNodes)
  /\ inFlight <= Concurrency
  /\ completed = Cardinality(Settled)

ControlInv ==
  /\ pc = "wait" => inFlight # 0
  /\ pc \in {"exit", "returned"} => inFlight = 0
  /\ pc \in {"exit", "returned"} => ready = <<>> \/ firstErr # None \/ CtxDone
  /\ pc = "returned" <=> returned # "no"
  /\ cancelled => firstErr # None \/ pc = "returned"
  /\ firstErr # None => trace[firstErr] = "error"

IInv == TypeOK /\ QueueInv /\ DegreeInv /\ NodeInv /\ TraceInv /\ CountInv /\ ControlInv
-----------------------------------------------------------------------------
(* Facts about the constants.                                              *)
LEMMA DependenciesType ==
  /\ Dependencies \in [Nodes -> SUBSET Nodes]
  /\ \A n \in Nodes : Dependencies[n] = Reads(n)
  /\ \A n \in Nodes : n \notin Dependencies[n]
<1>1. ASSUME NEW r \in Refs PROVE Producers(r) \subseteq Nodes
  <2>1. r.producers \in Seq(Nodes)
    BY DEF Refs
  <2> QED BY <2>1, ElementOfSeq, LenProperties DEF Producers
<1>2. ASSUME NEW n \in Nodes PROVE Reads(n) \subseteq Nodes
  BY <1>1, WorkflowAssumption DEF Reads, WorkflowAssumption
<1>3. \A n \in Nodes : n \notin Reads(n)
  BY WorkflowAssumption DEF WorkflowAssumption
<1> QED BY <1>2, <1>3 DEF Dependencies

LEMMA FiniteNodes == \A S \in SUBSET Nodes : IsFiniteSet(S) /\ Cardinality(S) \in Nat
BY WorkflowAssumption, FS_Subset, FS_CardinalityType DEF WorkflowAssumption

(* An insertion-ordered listing is a sequence of exactly the set, without  *)
(* repetition.                                                             *)
LEMMA InOrderListing ==
  ASSUME NEW S \in SUBSET Nodes, NEW q \in InOrder(S)
  PROVE  q \in Seq(Nodes) /\ Elements(q) = S /\ Distinct(q)
<1>1. Cardinality(S) \in Nat
  BY FiniteNodes
<1>2. q \in [1 .. Cardinality(S) -> S] /\ DOMAIN q = 1 .. Cardinality(S)
  BY DEF InOrder
<1>3. q \in Seq(Nodes)
  <2>1. q \in [1 .. Cardinality(S) -> Nodes]
    BY <1>2
  <2> QED BY <1>1, <2>1, SeqDef
<1>4. Len(q) = Cardinality(S)
  BY <1>1, <1>2, <1>3, LenProperties
<1>5. Elements(q) = S
  BY <1>2, <1>4 DEF InOrder, Elements
<1>6. Distinct(q)
  <2> SUFFICES ASSUME NEW i \in 1 .. Len(q), NEW j \in 1 .. Len(q), q[i] = q[j], i # j
               PROVE  FALSE
    BY DEF Distinct
  <2>1. q[i] \in Nodes /\ Position[q[i]] \in Nat
    BY <1>2, <1>4, WorkflowAssumption DEF WorkflowAssumption
  <2>2. i < j \/ j < i
    BY <1>1, <1>4
  <2>3. Position[q[i]] < Position[q[j]] \/ Position[q[j]] < Position[q[i]]
    BY <2>2, <1>2, <1>4 DEF InOrder
  <2> QED BY <2>1, <2>3
<1> QED BY <1>3, <1>5, <1>6

LEMMA RootsType == Roots \in SUBSET Nodes
BY DEF Roots

LEMMA FreedType == \A n \in Nodes : Freed(n) \in SUBSET Nodes
BY DEF Freed, Successors
-----------------------------------------------------------------------------
(* Appending a listing to a queue it does not overlap.                     *)
LEMMA ConcatDistinct ==
  ASSUME NEW rest \in Seq(Nodes), NEW q \in Seq(Nodes), Distinct(rest), Distinct(q),
         Elements(rest) \cap Elements(q) = {}
  PROVE  /\ rest \o q \in Seq(Nodes)
         /\ Distinct(rest \o q)
         /\ Elements(rest \o q) = Elements(rest) \cup Elements(q)
<1> DEFINE all == rest \o q
<1>2. /\ all \in Seq(Nodes)
      /\ Len(all) = Len(rest) + Len(q)
      /\ \A i \in 1 .. Len(rest) + Len(q) :
           all[i] = IF i <= Len(rest) THEN rest[i] ELSE q[i - Len(rest)]
  BY ConcatProperties
<1>3. Len(rest) \in Nat /\ Len(q) \in Nat
  BY LenProperties
<1> HIDE DEF all
<1>4. Distinct(all)
  <2> SUFFICES ASSUME NEW i \in 1 .. Len(all), NEW j \in 1 .. Len(all), all[i] = all[j]
               PROVE  i = j
    BY DEF Distinct
  <2>1. CASE i <= Len(rest) /\ j <= Len(rest)
    BY <2>1, <1>2, <1>3 DEF Distinct
  <2>2. CASE i > Len(rest) /\ j > Len(rest)
    <3>1. i - Len(rest) \in 1 .. Len(q) /\ j - Len(rest) \in 1 .. Len(q)
      BY <2>2, <1>2, <1>3
    <3>2. q[i - Len(rest)] = q[j - Len(rest)]
      BY <2>2, <1>2, <1>3
    <3>3. i - Len(rest) = j - Len(rest)
      BY <3>1, <3>2 DEF Distinct
    <3> QED BY <3>3, <1>2, <1>3
  <2>3. CASE i <= Len(rest) /\ j > Len(rest)
    <3>1. i \in 1 .. Len(rest) /\ j - Len(rest) \in 1 .. Len(q)
      BY <2>3, <1>2, <1>3
    <3>2. rest[i] = q[j - Len(rest)]
      BY <2>3, <1>2, <1>3
    <3> QED BY <3>1, <3>2 DEF Elements
  <2>4. CASE i > Len(rest) /\ j <= Len(rest)
    <3>1. j \in 1 .. Len(rest) /\ i - Len(rest) \in 1 .. Len(q)
      BY <2>4, <1>2, <1>3
    <3>2. rest[j] = q[i - Len(rest)]
      BY <2>4, <1>2, <1>3
    <3> QED BY <3>1, <3>2 DEF Elements
  <2> QED BY <2>1, <2>2, <2>3, <2>4, <1>2, <1>3
<1>5. Elements(all) \subseteq Elements(rest) \cup Elements(q)
  <2> SUFFICES ASSUME NEW i \in 1 .. Len(all)
               PROVE  all[i] \in Elements(rest) \cup Elements(q)
    BY DEF Elements
  <2>1. CASE i <= Len(rest)
    BY <2>1, <1>2, <1>3 DEF Elements
  <2>2. CASE i > Len(rest)
    <3>1. i - Len(rest) \in 1 .. Len(q) /\ all[i] = q[i - Len(rest)]
      BY <2>2, <1>2, <1>3
    <3> QED BY <3>1 DEF Elements
  <2> QED BY <2>1, <2>2, <1>2, <1>3
<1>6. Elements(rest) \subseteq Elements(all)
  BY <1>2, <1>3 DEF Elements
<1>7. Elements(q) \subseteq Elements(all)
  <2> SUFFICES ASSUME NEW k \in 1 .. Len(q)
               PROVE  q[k] \in Elements(all)
    BY DEF Elements
  <2> DEFINE i == k + Len(rest)
  <2>1. i \in 1 .. Len(all) /\ ~(i <= Len(rest)) /\ i - Len(rest) = k
    BY <1>2, <1>3
  <2> HIDE DEF i
  <2>2. all[i] = q[k]
    BY <1>2, <2>1
  <2> QED BY <2>1, <2>2 DEF Elements
<1> QED BY <1>2, <1>4, <1>5, <1>6, <1>7 DEF all
-----------------------------------------------------------------------------
(* What settling a node does to the queue and to the indegrees.            *)
LEMMA SettleStep ==
  ASSUME TypeOK, DegreeInv, NodeInv,
         NEW n \in Nodes, results[n] = Absent, Dependencies[n] \subseteq Settled,
         NEW v, v # Absent, results' = [results EXCEPT ![n] = v],
         NEW rest \in Seq(Nodes),
         Distinct(rest), Elements(rest) = {m \in Nodes : Waiting(m)} \ {n},
         \A m \in Nodes \ {n} : proc'[m] = proc[m],
         AddSuccessors(n, rest)
  PROVE  /\ Settled' = Settled \cup {n}
         /\ ready' \in Seq(Nodes)
         /\ indegree' \in [Nodes -> Int]
         /\ DegreeInv'
         /\ QueueInv'
<1>0. /\ results \in [Nodes -> Values \cup {Nil, Absent}]
      /\ indegree \in [Nodes -> Int]
      /\ proc \in [Nodes -> {"idle", "started", "running", "sending", "gone"}]
  BY DEF TypeOK
<1>1. Settled' = Settled \cup {n} /\ n \notin Settled /\ Settled \in SUBSET Nodes
  <2>1. \A m \in Nodes : results'[m] # Absent <=> results[m] # Absent \/ m = n
    BY <1>0
  <2> QED BY <2>1 DEF Settled
<1>2. ASSUME NEW m \in Nodes
      PROVE  Dependencies[m] \ Settled' = (Dependencies[m] \ Settled) \ {n}
  BY <1>1
<1>3. ASSUME NEW m \in Nodes
      PROVE  /\ IsFiniteSet(Dependencies[m] \ Settled)
             /\ Cardinality(Dependencies[m] \ Settled) \in Nat
             /\ Cardinality(Dependencies[m] \ Settled')
                  = IF n \in Dependencies[m] THEN Cardinality(Dependencies[m] \ Settled) - 1
                    ELSE Cardinality(Dependencies[m] \ Settled)
  <2>1. Dependencies[m] \ Settled \in SUBSET Nodes
    BY DependenciesType
  <2>2. IsFiniteSet(Dependencies[m] \ Settled) /\ Cardinality(Dependencies[m] \ Settled) \in Nat
    BY <2>1, FiniteNodes
  <2>3. n \in Dependencies[m] <=> n \in Dependencies[m] \ Settled
    BY <1>1
  <2>4. Cardinality((Dependencies[m] \ Settled) \ {n})
          = IF n \in Dependencies[m] \ Settled THEN Cardinality(Dependencies[m] \ Settled) - 1
            ELSE Cardinality(Dependencies[m] \ Settled)
    BY <2>2, FS_RemoveElement
  <2> QED BY <2>2, <2>3, <2>4, <1>2
<1>4. \A m \in Nodes : m \in Successors(n) <=> n \in Dependencies[m]
  BY DEF Successors
<1>5. indegree' \in [Nodes -> Int] /\ DegreeInv'
  <2>1. indegree' = [s \in Nodes |-> IF s \in Successors(n) THEN indegree[s] - 1
                                     ELSE indegree[s]]
    BY DEF AddSuccessors
  <2>2. indegree' \in [Nodes -> Int]
    BY <2>1, <1>0
  <2>3. ASSUME NEW m \in Nodes
        PROVE  indegree'[m] = Cardinality(Dependencies[m] \ Settled')
    <3>1. indegree[m] = Cardinality(Dependencies[m] \ Settled)
      BY DEF DegreeInv
    <3>2. indegree'[m] = IF m \in Successors(n) THEN indegree[m] - 1 ELSE indegree[m]
      BY <2>1
    <3> QED BY <3>1, <3>2, <1>3, <1>4
  <2> QED BY <2>2, <2>3 DEF DegreeInv
<1>6. ASSUME NEW m \in Nodes
      PROVE  m \in Freed(n) <=> Dependencies[m] \subseteq Settled' /\ ~(Dependencies[m] \subseteq Settled)
  <2>1. indegree[m] = Cardinality(Dependencies[m] \ Settled)
    BY DEF DegreeInv
  <2>2. Cardinality(Dependencies[m] \ Settled) = 1
        <=> \E x : Dependencies[m] \ Settled = {x}
    BY <1>3, FS_Singleton
  <2>3. m \in Freed(n) <=> n \in Dependencies[m] /\ Cardinality(Dependencies[m] \ Settled) = 1
    BY <2>1, <1>4 DEF Freed, Successors
  <2>4. m \in Freed(n) => Dependencies[m] \ Settled = {n}
    BY <2>2, <2>3, <1>1
  <2>5. Dependencies[m] \ Settled = {n} => m \in Freed(n)
    BY <2>2, <2>3
  <2> QED BY <2>4, <2>5, <1>1
<1>7. ASSUME NEW m \in Nodes
      PROVE  Waiting(m)' <=> m \in Freed(n) \/ (Waiting(m) /\ m # n)
  <2>1. m # n => proc'[m] = proc[m] /\ results'[m] = results[m]
    BY <1>0
  <2>2. results'[n] # Absent
    BY <1>0
  <2>3. n \notin Freed(n)
    BY <1>6
  <2>4. m \in Freed(n) => proc[m] = "idle" /\ results[m] = Absent
    BY <1>6 DEF NodeInv, Settled
  <2>5. Dependencies[m] \subseteq Settled => Dependencies[m] \subseteq Settled'
    BY <1>1
  <2>6. Waiting(m)' <=> proc'[m] = "idle" /\ results'[m] = Absent /\ Dependencies[m] \subseteq Settled'
    BY DEF Waiting
  <2> QED BY <2>1, <2>2, <2>3, <2>4, <2>5, <2>6, <1>6 DEF Waiting
<1>8. PICK q \in InOrder(Freed(n)) : ready' = rest \o q
  BY DEF AddSuccessors
<1>9. Freed(n) \in SUBSET Nodes
  BY FreedType
<1>10. Elements(rest) \cap Freed(n) = {}
  BY <1>6 DEF Waiting
<1>11. q \in Seq(Nodes) /\ Elements(q) = Freed(n) /\ Distinct(q)
  BY <1>8, <1>9, InOrderListing
<1>12. ready' \in Seq(Nodes) /\ Distinct(ready') /\ Elements(ready') = Elements(rest) \cup Freed(n)
  BY <1>8, <1>10, <1>11, ConcatDistinct
<1>13. Elements(ready') = {m \in Nodes : Waiting(m)'}
  BY <1>7, <1>9, <1>12
<1> QED BY <1>1, <1>5, <1>12, <1>13 DEF QueueInv

(* Taking the head off the queue.                                          *)
LEMMA HeadTailElements ==
  ASSUME NEW s \in Seq(Nodes), s # <<>>, Distinct(s)
  PROVE  /\ Head(s) \in Elements(s)
         /\ Tail(s) \in Seq(Nodes)
         /\ Distinct(Tail(s))
         /\ Elements(Tail(s)) = Elements(s) \ {Head(s)}
<1>1. Len(s) \in Nat \ {0}
  BY EmptySeq
<1>2. /\ Tail(s) \in Seq(Nodes)
      /\ Len(Tail(s)) = Len(s) - 1
      /\ \A i \in 1 .. Len(Tail(s)) : Tail(s)[i] = s[i + 1]
  BY <1>1, HeadTailProperties
<1>3. Head(s) = s[1] /\ 1 \in 1 .. Len(s)
  BY <1>1
<1>4. Distinct(Tail(s))
  <2> SUFFICES ASSUME NEW i \in 1 .. Len(Tail(s)), NEW j \in 1 .. Len(Tail(s)),
                      Tail(s)[i] = Tail(s)[j]
               PROVE  i = j
    BY DEF Distinct
  <2>1. i + 1 \in 1 .. Len(s) /\ j + 1 \in 1 .. Len(s) /\ s[i + 1] = s[j + 1]
    BY <1>1, <1>2
  <2>2. i + 1 = j + 1
    BY <2>1 DEF Distinct
  <2> QED BY <2>2
<1>5. Elements(Tail(s)) \subseteq Elements(s) \ {Head(s)}
  <2> SUFFICES ASSUME NEW i \in 1 .. Len(Tail(s))
               PROVE  Tail(s)[i] \in Elements(s) \ {Head(s)}
    BY DEF Elements
  <2>1. i + 1 \in 1 .. Len(s) /\ Tail(s)[i] = s[i + 1] /\ i + 1 # 1
    BY <1>1, <1>2
  <2> QED BY <2>1, <1>3 DEF Elements, Distinct
<1>6. Elements(s) \ {Head(s)} \subseteq Elements(Tail(s))
  <2> SUFFICES ASSUME NEW k \in 1 .. Len(s), s[k] # Head(s)
               PROVE  s[k] \in Elements(Tail(s))
    BY DEF Elements
  <2>1. k - 1 \in 1 .. Len(Tail(s)) /\ Tail(s)[k - 1] = s[k]
    BY <1>1, <1>2, <1>3
  <2> QED BY <2>1 DEF Elements
<1> QED BY <1>2, <1>3, <1>4, <1>5, <1>6 DEF Elements

LEMMA HeadStep ==
  ASSUME TypeOK, QueueInv, ready # <<>>
  PROVE  /\ Head(ready) \in Nodes /\ Waiting(Head(ready))
         /\ Tail(ready) \in Seq(Nodes) /\ Distinct(Tail(ready))
         /\ Elements(Tail(ready)) = {m \in Nodes : Waiting(m)} \ {Head(ready)}
BY HeadTailElements DEF TypeOK, QueueInv
-----------------------------------------------------------------------------
LEMMA InitInv == Init => IInv
<1> SUFFICES ASSUME Init PROVE IInv
  OBVIOUS
<1> USE DEF Init
<1>1. Settled = {} /\ InFlightNodes = {}
  BY DEF Settled, InFlightNodes
<1>2. ready \in Seq(Nodes) /\ Elements(ready) = Roots /\ Distinct(ready)
  BY RootsType, InOrderListing
<1>3. TypeOK
  <2>1. \A n \in Nodes : Cardinality(Dependencies[n]) \in Int
    BY DependenciesType, FiniteNodes
  <2>2. pc \in {"launch", "wait", "exit", "returned"} OBVIOUS
  <2>3. indegree \in [Nodes -> Int] BY <2>1
  <2>4. results \in [Nodes -> Values \cup {Nil, Absent}] OBVIOUS
  <2>5. skipped \in SUBSET Nodes OBVIOUS
  <2>6. trace \in [Nodes -> {"none", "skipped", "output", "error"}] OBVIOUS
  <2>7. inFlight \in Int /\ completed \in Int OBVIOUS
  <2>8. firstErr \in Nodes \cup {None} OBVIOUS
  <2>9. callerDone \in BOOLEAN /\ cancelled \in BOOLEAN OBVIOUS
  <2>10. proc \in [Nodes -> {"idle", "started", "running", "sending", "gone"}] OBVIOUS
  <2>11. outcome \in [Nodes -> Outcomes \cup {Absent}] OBVIOUS
  <2>12. returned \in {"no", "ok", "node error", "context error", "deadlock"} OBVIOUS
  <2> QED BY <1>2, <2>2, <2>3, <2>4, <2>5, <2>6, <2>7, <2>8, <2>9, <2>10, <2>11, <2>12 DEF TypeOK
<1>4. QueueInv
  <2>1. Roots = {n \in Nodes : Waiting(n)}
    BY <1>1 DEF Roots, Waiting
  <2> QED BY <2>1, <1>2 DEF QueueInv
<1>5. DegreeInv
  <2>1. \A n \in Nodes : Dependencies[n] \ Settled = Dependencies[n]
    BY <1>1
  <2> QED BY <2>1 DEF DegreeInv
<1>6. NodeInv /\ TraceInv
  BY <1>1 DEF NodeInv, TraceInv
<1>7. CountInv
  BY <1>1, FS_EmptySet, ExecutorAssumption DEF CountInv, ExecutorAssumption
<1>8. ControlInv
  BY DEF ControlInv
<1> QED BY <1>3, <1>4, <1>5, <1>6, <1>7, <1>8 DEF IInv

LEMMA SkipHeadInv == IInv /\ SkipHead => IInv'
<1> SUFFICES ASSUME IInv, SkipHead PROVE IInv'
  OBVIOUS
<1> USE DEF IInv
<1> DEFINE n == Head(ready)
<1>1. /\ n \in Nodes /\ Waiting(n)
      /\ Tail(ready) \in Seq(Nodes) /\ Distinct(Tail(ready))
      /\ Elements(Tail(ready)) = {m \in Nodes : Waiting(m)} \ {n}
  BY HeadStep DEF SkipHead, MayLaunch
<1> HIDE DEF n
<1>2. /\ pc = "launch" /\ firstErr = None
      /\ results' = [results EXCEPT ![n] = Nil]
      /\ skipped' = skipped \cup {n}
      /\ trace' = [trace EXCEPT ![n] = "skipped"]
      /\ completed' = completed + 1
      /\ AddSuccessors(n, Tail(ready))
      /\ UNCHANGED <<pc, input, inFlight, firstErr, callerDone, cancelled, proc, outcome, returned>>
  BY DEF SkipHead, MayLaunch, n
<1>3. Nil # Absent
  BY WorkflowAssumption DEF WorkflowAssumption
<1>4. /\ Settled' = Settled \cup {n} /\ ready' \in Seq(Nodes)
      /\ indegree' \in [Nodes -> Int] /\ DegreeInv' /\ QueueInv'
  BY <1>1, <1>2, <1>3, SettleStep DEF Waiting
<1>5. TypeOK'
  <2>1. n \in Nodes /\ ready' \in Seq(Nodes) /\ indegree' \in [Nodes -> Int]
    BY <1>1, <1>4
  <2>2. results' \in [Nodes -> Values \cup {Nil, Absent}]
    BY <2>1, <1>2 DEF TypeOK
  <2>3. trace' \in [Nodes -> {"none", "skipped", "output", "error"}]
    BY <2>1, <1>2 DEF TypeOK
  <2>4. skipped \in SUBSET Nodes /\ completed \in Int
    BY DEF TypeOK
  <2>5. skipped' \in SUBSET Nodes /\ completed' \in Int
    BY <2>1, <2>4, <1>2
  <2> QED BY <2>1, <2>2, <2>3, <2>5, <1>2 DEF TypeOK
<1>6. NodeInv'
  BY <1>1, <1>2, <1>4 DEF NodeInv, Waiting
<1>7. TraceInv'
  BY <1>1, <1>2 DEF TraceInv, TypeOK, Waiting
<1>8. CountInv'
  <2>1. InFlightNodes' = InFlightNodes
    BY <1>2 DEF InFlightNodes
  <2>2. n \notin Settled /\ Settled \in SUBSET Nodes
    BY <1>1 DEF Waiting, Settled
  <2>3. Cardinality(Settled \cup {n}) = Cardinality(Settled) + 1
    BY <2>2, FiniteNodes, FS_AddElement
  <2> QED BY <1>2, <1>4, <2>1, <2>3 DEF CountInv
<1>9. ControlInv'
  BY <1>2 DEF ControlInv
<1> QED BY <1>4, <1>5, <1>6, <1>7, <1>8, <1>9

LEMMA LaunchHeadInv == IInv /\ LaunchHead => IInv'
<1> SUFFICES ASSUME IInv, LaunchHead PROVE IInv'
  OBVIOUS
<1> USE DEF IInv
<1> DEFINE n == Head(ready)
<1>1. /\ n \in Nodes /\ Waiting(n)
      /\ Tail(ready) \in Seq(Nodes) /\ Distinct(Tail(ready))
      /\ Elements(Tail(ready)) = {m \in Nodes : Waiting(m)} \ {n}
  BY HeadStep DEF LaunchHead, MayLaunch
<1> HIDE DEF n
<1>2. /\ pc = "launch" /\ firstErr = None /\ inFlight < Concurrency
      /\ ready' = Tail(ready)
      /\ inFlight' = inFlight + 1
      /\ proc' = [proc EXCEPT ![n] = "started"]
      /\ UNCHANGED <<pc, indegree, results, skipped, trace, completed, firstErr, callerDone,
                     cancelled, outcome, returned>>
  BY DEF LaunchHead, MayLaunch, SlotFree, n
<1>3. Settled' = Settled
  BY <1>2 DEF Settled
<1>4. TypeOK'
  <2>1. n \in Nodes /\ ready' \in Seq(Nodes)
    BY <1>1, <1>2
  <2>2. proc' \in [Nodes -> {"idle", "started", "running", "sending", "gone"}]
    BY <2>1, <1>2 DEF TypeOK
  <2>3. inFlight \in Int
    BY DEF TypeOK
  <2>4. inFlight' \in Int
    BY <2>3, <1>2
  <2> QED BY <2>1, <2>2, <2>4, <1>2 DEF TypeOK
<1>5. QueueInv'
  <2>1. \A m \in Nodes : Waiting(m)' <=> Waiting(m) /\ m # n
    BY <1>1, <1>2, <1>3 DEF Waiting, TypeOK
  <2> QED BY <2>1, <1>1, <1>2 DEF QueueInv
<1>6. DegreeInv'
  BY <1>2, <1>3 DEF DegreeInv
<1>7. NodeInv'
  BY <1>1, <1>2, <1>3 DEF NodeInv, Waiting, TypeOK, Settled
<1>8. TraceInv'
  BY <1>1, <1>2 DEF TraceInv, TypeOK, Waiting
<1>9. CountInv'
  <2>1. InFlightNodes' = InFlightNodes \cup {n} /\ n \notin InFlightNodes
    BY <1>1, <1>2 DEF InFlightNodes, Waiting, TypeOK
  <2>2. InFlightNodes \in SUBSET Nodes
    BY DEF InFlightNodes
  <2>3. Cardinality(InFlightNodes') = Cardinality(InFlightNodes) + 1
    BY <2>1, <2>2, FiniteNodes, FS_AddElement
  <2>4. Concurrency \in Nat /\ inFlight \in Int
    BY ExecutorAssumption DEF ExecutorAssumption, TypeOK
  <2> QED BY <1>2, <1>3, <2>3, <2>4 DEF CountInv
<1>10. ControlInv'
  BY <1>2 DEF ControlInv
<1> QED BY <1>4, <1>5, <1>6, <1>7, <1>8, <1>9, <1>10

LEMMA LeaveLaunchLoopInv == IInv /\ LeaveLaunchLoop => IInv'
<1> SUFFICES ASSUME IInv, LeaveLaunchLoop PROVE IInv'
  OBVIOUS
<1> USE DEF IInv
<1>1. /\ pc = "launch"
      /\ MayLaunch => inFlight >= Concurrency
      /\ pc' = AfterLaunchLoop
      /\ UNCHANGED <<ready, indegree, results, skipped, trace, input, inFlight, completed,
                     firstErr, callerDone, cancelled, proc, outcome, returned>>
  <2>1. inFlight \in Int
    BY DEF TypeOK
  <2>2. Concurrency \in Int
    BY ExecutorAssumption DEF ExecutorAssumption
  <2> QED BY <2>1, <2>2 DEF LeaveLaunchLoop, SlotFree
<1>2. Settled' = Settled /\ InFlightNodes' = InFlightNodes
  BY <1>1 DEF Settled, InFlightNodes
<1>3. TypeOK' /\ QueueInv' /\ DegreeInv' /\ NodeInv' /\ TraceInv' /\ CountInv'
  BY <1>1, <1>2 DEF AfterLaunchLoop, TypeOK, QueueInv, Waiting, DegreeInv, NodeInv, TraceInv, CountInv
<1>4. ControlInv'
  <2>1. inFlight = 0 => ~MayLaunch
    BY <1>1, ExecutorAssumption DEF ExecutorAssumption
  <2> QED BY <2>1, <1>1 DEF ControlInv, AfterLaunchLoop, MayLaunch, CtxDone
<1> QED BY <1>3, <1>4

(* Taking a message off the channel frees a slot.                          *)
LEMMA ReceiveCount ==
  ASSUME IInv, NEW n \in Nodes, Receive(n)
  PROVE  /\ inFlight' = Cardinality(InFlightNodes')
         /\ inFlight' \in Int /\ inFlight' <= Concurrency
<1>1. /\ proc[n] = "sending" /\ proc' = [proc EXCEPT ![n] = "gone"]
      /\ inFlight' = inFlight - 1
  BY DEF Receive
<1>2. proc \in [Nodes -> {"idle", "started", "running", "sending", "gone"}] /\ inFlight \in Int
  BY DEF IInv, TypeOK
<1>3. InFlightNodes' = InFlightNodes \ {n} /\ n \in InFlightNodes /\ InFlightNodes \in SUBSET Nodes
  BY <1>1, <1>2 DEF InFlightNodes
<1>4. Cardinality(InFlightNodes') = Cardinality(InFlightNodes) - 1
  BY <1>3, FiniteNodes, FS_RemoveElement
<1>5. Concurrency \in Nat
  BY ExecutorAssumption DEF ExecutorAssumption
<1> QED BY <1>1, <1>2, <1>4, <1>5 DEF IInv, CountInv

(* A message that settles nothing: an error, or an output during draining. *)
LEMMA ReceiveUnsettledInv ==
  ASSUME IInv, NEW n \in Nodes, Receive(n),
         UNCHANGED <<ready, indegree, results, completed>>,
         firstErr' # None, firstErr' \in {n, firstErr},
         \/ trace' = [trace EXCEPT ![n] = "error"]
         \/ trace' = [trace EXCEPT ![n] = "output"] /\ firstErr' = firstErr,
         cancelled' = TRUE \/ UNCHANGED cancelled
  PROVE  IInv'
<1> USE DEF IInv
<1>1. /\ pc = "wait" /\ proc[n] = "sending" /\ pc' = "launch"
      /\ proc' = [proc EXCEPT ![n] = "gone"]
      /\ UNCHANGED <<skipped, input, callerDone, outcome, returned>>
  BY DEF Receive
<1>2. /\ proc \in [Nodes -> {"idle", "started", "running", "sending", "gone"}]
      /\ trace \in [Nodes -> {"none", "skipped", "output", "error"}]
      /\ firstErr \in Nodes \cup {None} /\ cancelled \in BOOLEAN
  BY DEF TypeOK
<1>3. Settled' = Settled
  BY DEF Settled
<1>4. TypeOK'
  <2>1. proc' \in [Nodes -> {"idle", "started", "running", "sending", "gone"}]
    BY <1>1, <1>2
  <2>2. trace' \in [Nodes -> {"none", "skipped", "output", "error"}]
    BY <1>2
  <2>3. firstErr' \in Nodes \cup {None} /\ cancelled' \in BOOLEAN
    BY <1>2
  <2>4. inFlight' \in Int
    BY ReceiveCount
  <2> QED BY <2>1, <2>2, <2>3, <2>4, <1>1 DEF TypeOK
<1>5. QueueInv'
  <2>1. \A m \in Nodes : Waiting(m)' <=> Waiting(m)
    BY <1>1, <1>2, <1>3 DEF Waiting
  <2> QED BY <2>1 DEF QueueInv
<1>6. DegreeInv'
  BY <1>3 DEF DegreeInv
<1>7. NodeInv'
  BY <1>1, <1>2, <1>3 DEF NodeInv
<1>8. TraceInv'
  BY <1>1, <1>2 DEF TraceInv, NodeInv
<1>9. CountInv'
  BY <1>3, ReceiveCount DEF CountInv
<1>10. ControlInv'
  <2>1. firstErr # None => firstErr # n /\ firstErr \in Nodes
    BY <1>1, <1>2 DEF ControlInv, TraceInv
  <2>2. trace'[firstErr'] = "error"
    BY <2>1, <1>2 DEF ControlInv
  <2> QED BY <2>2, <1>1 DEF ControlInv
<1> QED BY <1>4, <1>5, <1>6, <1>7, <1>8, <1>9, <1>10

(* A message that settles its node.                                        *)
LEMMA ReceiveSettledInv ==
  ASSUME IInv, NEW n \in Nodes, Receive(n), firstErr = None,
         outcome[n] \in Values,
         results' = [results EXCEPT ![n] = outcome[n]],
         completed' = completed + 1,
         AddSuccessors(n, ready),
         trace' = [trace EXCEPT ![n] = "output"],
         UNCHANGED <<firstErr, cancelled>>
  PROVE  IInv'
<1> USE DEF IInv
<1>1. /\ pc = "wait" /\ proc[n] = "sending" /\ pc' = "launch"
      /\ proc' = [proc EXCEPT ![n] = "gone"]
      /\ UNCHANGED <<skipped, input, callerDone, outcome, returned>>
  BY DEF Receive
<1>2. /\ proc \in [Nodes -> {"idle", "started", "running", "sending", "gone"}]
      /\ trace \in [Nodes -> {"none", "skipped", "output", "error"}]
      /\ results \in [Nodes -> Values \cup {Nil, Absent}]
      /\ ready \in Seq(Nodes) /\ completed \in Int
  BY DEF TypeOK
<1>3. outcome[n] # Absent
  BY WorkflowAssumption DEF WorkflowAssumption
<1>4. results[n] = Absent /\ Dependencies[n] \subseteq Settled
  BY <1>1 DEF NodeInv, Settled
<1>5. Distinct(ready) /\ Elements(ready) = {m \in Nodes : Waiting(m)} \ {n}
  BY <1>1 DEF QueueInv, Waiting
<1>6. \A m \in Nodes \ {n} : proc'[m] = proc[m]
  BY <1>1, <1>2
<1>7. /\ Settled' = Settled \cup {n} /\ ready' \in Seq(Nodes)
      /\ indegree' \in [Nodes -> Int] /\ DegreeInv' /\ QueueInv'
  BY <1>2, <1>3, <1>4, <1>5, <1>6, SettleStep
<1>8. TypeOK'
  <2>1. proc' \in [Nodes -> {"idle", "started", "running", "sending", "gone"}]
    BY <1>1, <1>2
  <2>2. trace' \in [Nodes -> {"none", "skipped", "output", "error"}]
    BY <1>2
  <2>3. results' \in [Nodes -> Values \cup {Nil, Absent}]
    BY <1>2
  <2>4. inFlight' \in Int /\ completed' \in Int
    BY <1>2, ReceiveCount
  <2> QED BY <2>1, <2>2, <2>3, <2>4, <1>1, <1>7 DEF TypeOK
<1>9. NodeInv'
  BY <1>1, <1>2, <1>4, <1>7 DEF NodeInv
<1>10. TraceInv'
  BY <1>1, <1>2 DEF TraceInv, NodeInv
<1>11. CountInv'
  <2>1. n \notin Settled /\ Settled \in SUBSET Nodes
    BY <1>4 DEF Settled
  <2>2. Cardinality(Settled \cup {n}) = Cardinality(Settled) + 1
    BY <2>1, FiniteNodes, FS_AddElement
  <2> QED BY <1>7, <2>2, ReceiveCount DEF CountInv
<1>12. ControlInv'
  BY <1>1 DEF ControlInv
<1> QED BY <1>7, <1>8, <1>9, <1>10, <1>11, <1>12

LEMMA ReceiveInv == ASSUME IInv, NEW n \in Nodes, Receive(n) PROVE IInv'
<1>1. CASE ReceiveError(n)
  <2>1. firstErr' # None /\ firstErr' \in {n, firstErr}
    BY <1>1, ExecutorAssumption DEF ReceiveError, Blame, ExecutorAssumption
  <2> QED BY <2>1, <1>1, ReceiveUnsettledInv DEF ReceiveError
<1>2. CASE ReceiveOutput(n)
  <2>1. CASE firstErr # None /\ UNCHANGED <<ready, indegree, results, completed>>
    BY <2>1, <1>2, ReceiveUnsettledInv DEF ReceiveOutput
  <2>2. CASE /\ firstErr = None
             /\ results' = [results EXCEPT ![n] = outcome[n]]
             /\ completed' = completed + 1
             /\ AddSuccessors(n, ready)
    BY <2>2, <1>2, ReceiveSettledInv DEF ReceiveOutput, ValidOutput
  <2> QED BY <2>1, <2>2, <1>2 DEF ReceiveOutput
<1> QED BY <1>1, <1>2 DEF Receive

LEMMA ReturnInv == IInv /\ Return => IInv'
<1> SUFFICES ASSUME IInv, Return PROVE IInv'
  OBVIOUS
<1> USE DEF IInv
<1>1. /\ pc = "exit" /\ pc' = "returned" /\ cancelled' = TRUE
      /\ returned' \in {"ok", "node error", "context error", "deadlock"}
      /\ UNCHANGED <<ready, indegree, results, skipped, trace, input, inFlight, completed,
                     firstErr, callerDone, proc, outcome>>
  BY DEF Return, Verdict
<1>2. Settled' = Settled /\ InFlightNodes' = InFlightNodes
  BY <1>1 DEF Settled, InFlightNodes
<1>3. TypeOK'
  BY <1>1 DEF TypeOK
<1>4. QueueInv' /\ DegreeInv' /\ NodeInv' /\ TraceInv' /\ CountInv'
  BY <1>1, <1>2 DEF QueueInv, Waiting, DegreeInv, NodeInv, TraceInv, CountInv
<1>5. ControlInv'
  BY <1>1 DEF ControlInv, CtxDone
<1> QED BY <1>3, <1>4, <1>5

(* A step of one goroutine: it stays in flight, and only it moves.         *)
LEMMA GoroutineInv ==
  ASSUME IInv, NEW n \in Nodes, Enter(n) \/ Finish(n)
  PROVE  IInv'
<1> USE DEF IInv
<1>1. UNCHANGED schedulerVars /\ UNCHANGED callerDone
  BY DEF Enter, Finish
<1>2. UNCHANGED <<pc, ready, indegree, results, skipped, trace, input, inFlight, completed,
                  firstErr, cancelled, returned, callerDone>>
  BY <1>1 DEF schedulerVars
<1>3. /\ proc \in [Nodes -> {"idle", "started", "running", "sending", "gone"}]
      /\ outcome \in [Nodes -> Outcomes \cup {Absent}]
  BY DEF TypeOK
<1>4. PICK p \in {"running", "sending"} : proc' = [proc EXCEPT ![n] = p]
  BY DEF Enter, Finish
<1>5. proc[n] \in {"started", "running"}
  BY DEF Enter, Finish
<1>6. \/ p = "running" /\ outcome' = outcome
      \/ p = "sending" /\ \E o \in Outcomes : outcome' = [outcome EXCEPT ![n] = o]
  BY <1>3, <1>4 DEF Enter, Finish, Outcomes, ErrorOutcomes
<1>7. Absent \notin Outcomes
  BY WorkflowAssumption, ExecutorAssumption DEF WorkflowAssumption, ExecutorAssumption, Outcomes
<1>8. Settled' = Settled /\ InFlightNodes' = InFlightNodes
  BY <1>2, <1>3, <1>4, <1>5 DEF Settled, InFlightNodes
<1>9. TypeOK'
  <2>1. proc' \in [Nodes -> {"idle", "started", "running", "sending", "gone"}]
    BY <1>3, <1>4
  <2>2. outcome' \in [Nodes -> Outcomes \cup {Absent}]
    BY <1>3, <1>6
  <2> QED BY <2>1, <2>2, <1>2 DEF TypeOK
<1>10. QueueInv'
  <2>1. \A m \in Nodes : Waiting(m)' <=> Waiting(m)
    BY <1>2, <1>3, <1>4, <1>5, <1>8 DEF Waiting
  <2> QED BY <2>1, <1>2 DEF QueueInv
<1>11. DegreeInv' /\ CountInv'
  BY <1>2, <1>8 DEF DegreeInv, CountInv
<1>12. NodeInv'
  <2>1. \A m \in Nodes : proc'[m] \in {"sending", "gone"} <=> outcome'[m] # Absent
    BY <1>3, <1>4, <1>5, <1>6, <1>7 DEF NodeInv
  <2> QED BY <2>1, <1>2, <1>3, <1>4, <1>5, <1>8 DEF NodeInv
<1>13. TraceInv'
  BY <1>2, <1>3, <1>4, <1>5 DEF TraceInv
<1>14. ControlInv'
  BY <1>2 DEF ControlInv, CtxDone
<1> QED BY <1>9, <1>10, <1>11, <1>12, <1>13, <1>14

LEMMA CallerEndsInv == IInv /\ CallerEnds => IInv'
<1> SUFFICES ASSUME IInv, CallerEnds PROVE IInv'
  OBVIOUS
<1> USE DEF IInv
<1>1. /\ callerDone' = TRUE
      /\ UNCHANGED <<pc, ready, indegree, results, skipped, trace, input, inFlight, completed,
                     firstErr, cancelled, returned, proc, outcome>>
  BY DEF CallerEnds, schedulerVars
<1>2. Settled' = Settled /\ InFlightNodes' = InFlightNodes
  BY <1>1 DEF Settled, InFlightNodes
<1>3. TypeOK'
  BY <1>1 DEF TypeOK
<1>4. QueueInv' /\ DegreeInv' /\ NodeInv' /\ TraceInv' /\ CountInv'
  BY <1>1, <1>2 DEF QueueInv, Waiting, DegreeInv, NodeInv, TraceInv, CountInv
<1>5. ControlInv'
  BY <1>1 DEF ControlInv, CtxDone
<1> QED BY <1>3, <1>4, <1>5

LEMMA StutterInv == IInv /\ UNCHANGED vars => IInv'
<1> SUFFICES ASSUME IInv, UNCHANGED vars PROVE IInv'
  OBVIOUS
<1> USE DEF IInv, vars
<1>1. Settled' = Settled /\ InFlightNodes' = InFlightNodes
  BY DEF Settled, InFlightNodes
<1>2. TypeOK'
  BY DEF TypeOK
<1>3. QueueInv' /\ DegreeInv' /\ NodeInv' /\ TraceInv' /\ CountInv'
  BY <1>1 DEF QueueInv, Waiting, DegreeInv, NodeInv, TraceInv, CountInv
<1>4. ControlInv'
  BY DEF ControlInv, CtxDone
<1> QED BY <1>2, <1>3, <1>4

(* Every step keeps the invariant.                                         *)
LEMMA InvStep == IInv /\ [Next]_vars => IInv'
<1> SUFFICES ASSUME IInv, [Next]_vars PROVE IInv'
  OBVIOUS
<1>1. CASE SkipHead
  BY <1>1, SkipHeadInv
<1>2. CASE LaunchHead
  BY <1>2, LaunchHeadInv
<1>3. CASE LeaveLaunchLoop
  BY <1>3, LeaveLaunchLoopInv
<1>4. CASE Return
  BY <1>4, ReturnInv
<1>5. ASSUME NEW n \in Nodes, Receive(n) PROVE IInv'
  BY <1>5, ReceiveInv
<1>6. ASSUME NEW n \in Nodes, Enter(n) \/ Finish(n) PROVE IInv'
  BY <1>6, GoroutineInv
<1>7. CASE CallerEnds
  BY <1>7, CallerEndsInv
<1>8. CASE UNCHANGED vars
  BY <1>8, StutterInv
<1> QED
  BY <1>1, <1>2, <1>3, <1>4, <1>5, <1>6, <1>7, <1>8 DEF Next, Scheduler, Terminated

(* The scheduler's bookkeeping stays consistent in every reachable state:  *)
(* the queue of Executor.Run, its indegrees and its counters always say    *)
(* what the results say.                                                   *)
THEOREM Inductive == Spec => []IInv
BY InitInv, InvStep, PTL DEF Spec
-----------------------------------------------------------------------------
(* Every variable of the executor has its type in every reachable state.   *)
THEOREM TypeCorrect == Spec => []TypeOK
<1>1. IInv => TypeOK
  BY DEF IInv
<1> QED BY <1>1, Inductive, PTL

(* Executor.Run never has more operators in flight than its cap.           *)
THEOREM CapRespected == Spec => []ConcurrencyBound
<1>1. IInv => ConcurrencyBound
  BY DEF IInv, CountInv, ConcurrencyBound
<1> QED BY <1>1, Inductive, PTL

(* Once Run has returned, nothing of the executor moves any more.          *)
LEMMA ReturnedFrozen == IInv /\ returned # "no" /\ [Next]_vars => UNCHANGED vars
<1> SUFFICES ASSUME IInv, returned # "no", Next PROVE UNCHANGED vars
  OBVIOUS
<1>1. pc = "returned" /\ inFlight = 0
  BY DEF IInv, ControlInv
<1>2. InFlightNodes = {}
  <2>1. InFlightNodes \in SUBSET Nodes /\ Cardinality(InFlightNodes) = 0
    BY <1>1 DEF InFlightNodes, IInv, CountInv
  <2> QED BY <2>1, FiniteNodes, FS_EmptySet
<1>3. ~Scheduler
  BY <1>1 DEF Scheduler, SkipHead, LaunchHead, LeaveLaunchLoop, Return, Receive
<1>4. ASSUME NEW n \in Nodes, Enter(n) \/ Finish(n) PROVE FALSE
  BY <1>2, <1>4 DEF Enter, Finish, InFlightNodes
<1>5. ~CallerEnds
  BY DEF CallerEnds
<1> QED BY <1>3, <1>4, <1>5 DEF Next, Terminated

(* When Run returns, no goroutine is left on the channel and the trace is  *)
(* complete, results of drained nodes included.                            *)
THEOREM NoLeak == Spec => []NothingLeftBehind
<1>1. IInv => NothingLeftBehind
  <2> SUFFICES ASSUME IInv, returned # "no" PROVE NothingLeftBehind
    BY DEF NothingLeftBehind
  <2>1. InFlightNodes \in SUBSET Nodes /\ Cardinality(InFlightNodes) = 0
    BY DEF InFlightNodes, IInv, CountInv, ControlInv
  <2>2. InFlightNodes = {}
    BY <2>1, FiniteNodes, FS_EmptySet
  <2> QED BY <2>2 DEF IInv, TraceInv, NothingLeftBehind
<1> QED BY <1>1, Inductive, PTL
-----------------------------------------------------------------------------
(* With an empty queue, nothing in flight and no error, the acyclic graph  *)
(* leaves no node unsettled: take one of least rank.                       *)
LEMMA NothingStuck ==
  ASSUME IInv, ready = <<>>, firstErr = None, inFlight = 0
  PROVE  Settled = Nodes
<1> DEFINE Left == Nodes \ Settled
<1> SUFFICES ASSUME Left # {} PROVE FALSE
  BY DEF Settled
<1>1. PICK rank \in [Nodes -> 0 .. Cardinality(Nodes)] :
        \A n \in Nodes : \A d \in Dependencies[n] : rank[d] < rank[n]
  BY WorkflowAssumption DEF WorkflowAssumption, Acyclic
<1>2. \A n \in Nodes : rank[n] \in Nat
  <2>1. Cardinality(Nodes) \in Nat
    BY FiniteNodes
  <2> QED BY <1>1, <2>1
<1> DEFINE Ranks == {rank[n] : n \in Left}
<1>3. Ranks \subseteq Nat /\ Ranks # {}
  BY <1>2
<1>4. PICK x \in Ranks : \A y \in Ranks : ~(<<y, x>> \in OpToRel(<, Nat))
  BY <1>3, NatLessThanWellFounded, WFMin
<1>5. \A y \in Ranks : ~(y < x)
  BY <1>3, <1>4 DEF OpToRel
<1>6. PICK n \in Left : rank[n] = x
  OBVIOUS
<1>7. \A d \in Dependencies[n] : d \in Settled
  <2>1. ASSUME NEW d \in Dependencies[n], d \notin Settled PROVE FALSE
    <3>1. d \in Left
      BY <2>1, DependenciesType
    <3>2. rank[d] < x
      BY <1>1, <1>6
    <3> QED BY <3>1, <3>2, <1>5
  <2> QED BY <2>1
<1>8. InFlightNodes = {}
  <2>1. InFlightNodes \in SUBSET Nodes /\ Cardinality(InFlightNodes) = 0
    BY DEF InFlightNodes, IInv, CountInv
  <2> QED BY <2>1, FiniteNodes, FS_EmptySet
<1>9. proc[n] = "idle"
  BY <1>8 DEF IInv, TypeOK, NodeInv, InFlightNodes
<1>10. Waiting(n)
  BY <1>7, <1>9 DEF Waiting, Settled
<1>11. n \in Elements(ready)
  BY <1>10 DEF IInv, QueueInv
<1> QED BY <1>11 DEF Elements

LEMMA JustifiedStep == IInv /\ VerdictJustified /\ [Next]_vars => VerdictJustified'
<1> SUFFICES ASSUME IInv, VerdictJustified, [Next]_vars PROVE VerdictJustified'
  OBVIOUS
<1>1. CASE returned # "no"
  BY <1>1, ReturnedFrozen DEF vars, VerdictJustified, Settled
<1>2. CASE returned = "no" /\ ~Return
  <2>1. returned' = returned
    BY <1>2 DEF Next, Scheduler, SkipHead, LaunchHead, LeaveLaunchLoop, Receive,
                Enter, Finish, CallerEnds, Terminated, schedulerVars, vars
  <2> QED BY <2>1, <1>2 DEF VerdictJustified
<1>3. CASE Return
  <2>1. /\ pc = "exit" /\ returned' = Verdict
        /\ UNCHANGED <<results, trace, firstErr>>
    BY <1>3 DEF Return
  <2>2. Settled' = Settled
    BY <2>1 DEF Settled
  <2>3. inFlight = 0 /\ (ready = <<>> \/ firstErr # None \/ CtxDone)
    BY <2>1 DEF IInv, ControlInv
  <2>4. firstErr = None /\ ~CtxDone => Settled = Nodes
    BY <2>3, NothingStuck
  <2>5. completed = Cardinality(Settled) /\ Cardinality(Nodes) \in Nat
    BY FiniteNodes DEF IInv, CountInv
  <2>6. firstErr = None => \A n \in Nodes : trace[n] # "error"
    BY DEF IInv, TraceInv
  <2>7. Verdict # "deadlock"
    BY <2>4, <2>5 DEF Verdict
  <2>8. Verdict = "ok" => Settled = Nodes
    BY <2>4 DEF Verdict
  <2>9. Verdict \in {"ok", "context error"} => firstErr = None
    BY DEF Verdict
  <2>10. /\ returned' # "deadlock"
         /\ returned' = "ok" => Settled' = Nodes
         /\ returned' \in {"ok", "context error"} => \A n \in Nodes : trace'[n] # "error"
    BY <2>1, <2>2, <2>6, <2>7, <2>8, <2>9
  <2> QED BY <2>10 DEF VerdictJustified
<1> QED BY <1>1, <1>2, <1>3

(* The verdict of Run is justified: "ok" only when every node settled, no  *)
(* failed node behind "ok" or the context error, and no "deadlock".        *)
THEOREM Justified == Spec => []VerdictJustified
<1>1. Init => VerdictJustified
  BY DEF Init, VerdictJustified
<1> QED BY <1>1, JustifiedStep, Inductive, PTL DEF Spec

(* Fail fast: after an error or the end of the context nothing is launched *)
(* and nothing is skipped.                                                 *)
THEOREM FailsFast == Spec => FailFast
<1>1. IInv /\ [Next]_vars
        => [firstErr # None \/ CtxDone =>
              /\ skipped' = skipped
              /\ \A n \in Nodes : proc[n] = "idle" => proc'[n] = "idle"]_vars
  <2> SUFFICES ASSUME IInv, Next, firstErr # None \/ CtxDone
               PROVE  /\ skipped' = skipped
                      /\ \A n \in Nodes : proc[n] = "idle" => proc'[n] = "idle"
    OBVIOUS
  <2>1. ~SkipHead /\ ~LaunchHead
    BY DEF SkipHead, LaunchHead, MayLaunch
  <2>2. proc \in [Nodes -> {"idle", "started", "running", "sending", "gone"}]
    BY DEF IInv, TypeOK
  <2>3. CASE LeaveLaunchLoop \/ Return \/ CallerEnds \/ Terminated
    BY <2>3 DEF LeaveLaunchLoop, Return, CallerEnds, Terminated, schedulerVars, vars
  <2>4. ASSUME NEW n \in Nodes, Receive(n)
        PROVE  /\ skipped' = skipped
               /\ \A m \in Nodes : proc[m] = "idle" => proc'[m] = "idle"
    BY <2>2, <2>4 DEF Receive
  <2>5. ASSUME NEW n \in Nodes, Enter(n) \/ Finish(n)
        PROVE  /\ skipped' = skipped
               /\ \A m \in Nodes : proc[m] = "idle" => proc'[m] = "idle"
    BY <2>2, <2>5 DEF Enter, Finish, schedulerVars
  <2> QED BY <2>1, <2>3, <2>4, <2>5 DEF Next, Scheduler
<1> QED BY <1>1, Inductive, PTL DEF Spec, FailFast
-----------------------------------------------------------------------------
(* What has settled stays as it is: no result is rewritten, and no settled *)
(* node becomes skipped later.                                             *)
LEMMA SettledStable ==
  ASSUME IInv, [Next]_vars, NEW n \in Settled
  PROVE  results'[n] = results[n] /\ (n \in skipped' <=> n \in skipped)
<1>1. n \in Nodes /\ results[n] # Absent
  BY DEF Settled
<1>2. results \in [Nodes -> Values \cup {Nil, Absent}]
  BY DEF IInv, TypeOK
<1>3. CASE SkipHead
  <2>1. Head(ready) # n
    BY <1>3, HeadStep DEF SkipHead, MayLaunch, Waiting, Settled, IInv
  <2> QED BY <2>1, <1>1, <1>2, <1>3 DEF SkipHead
<1>4. ASSUME NEW m \in Nodes, Receive(m)
      PROVE  results'[n] = results[n] /\ (n \in skipped' <=> n \in skipped)
  <2>1. m # n
    BY <1>4 DEF IInv, NodeInv, Receive
  <2> QED BY <2>1, <1>1, <1>2, <1>4 DEF Receive, ReceiveError, ReceiveOutput
<1>5. CASE LaunchHead \/ LeaveLaunchLoop \/ Return \/ CallerEnds \/ UNCHANGED vars
  BY <1>5 DEF LaunchHead, LeaveLaunchLoop, Return, CallerEnds, schedulerVars, vars
<1>6. ASSUME NEW m \in Nodes, Enter(m) \/ Finish(m)
      PROVE  results'[n] = results[n] /\ (n \in skipped' <=> n \in skipped)
  BY <1>6 DEF Enter, Finish, schedulerVars
<1> QED BY <1>3, <1>4, <1>5, <1>6 DEF Next, Scheduler, Terminated

(* So what a node reads no longer changes once its dependencies settled.   *)
LEMMA ReadsFinal ==
  ASSUME IInv, [Next]_vars, NEW n \in Nodes, Dependencies[n] \subseteq Settled
  PROVE  /\ ResolveInputs(n)' = ResolveInputs(n)
         /\ ConditionHolds(n)' = ConditionHolds(n)
<1>1. ASSUME NEW r, Producers(r) \subseteq Reads(n) PROVE Seen(r)' = Seen(r)
  <2>1. Producers(r) \subseteq Settled
    BY <1>1, DependenciesType
  <2>2. \A p \in Producers(r) : results'[p] = results[p] /\ (p \in skipped' <=> p \in skipped)
    BY <2>1, SettledStable
  <2> QED BY <2>2 DEF Seen
<1>2. ASSUME NEW r \in Inputs[n] PROVE Seen(r)' = Seen(r)
  BY <1>1 DEF Reads
<1>3. ASSUME NEW lit \in Conditions[n] PROVE Seen(lit.ref)' = Seen(lit.ref)
  BY <1>1 DEF Reads
<1>4. ResolveInputs(n)' = ResolveInputs(n)
  BY <1>2 DEF ResolveInputs
<1>5. ConditionHolds(n)' = ConditionHolds(n)
  BY <1>3 DEF ConditionHolds
<1> QED BY <1>4, <1>5

FinalInv == DOMAIN input = Nodes /\ InputsFinal /\ DecisionsFinal

(* Timing never shows in the data: the input of a node and the decision to *)
(* run it are what the finished run would still give.                      *)
LEMMA FinalInvStep == IInv /\ FinalInv /\ [Next]_vars => FinalInv'
<1> SUFFICES ASSUME IInv, FinalInv, [Next]_vars PROVE FinalInv'
  OBVIOUS
<1>1. proc \in [Nodes -> {"idle", "started", "running", "sending", "gone"}]
      /\ skipped \in SUBSET Nodes
  BY DEF IInv, TypeOK
<1>2. ASSUME NEW n \in Nodes, proc[n] # "idle" \/ n \in skipped
      PROVE  /\ ResolveInputs(n)' = ResolveInputs(n)
             /\ ConditionHolds(n)' = ConditionHolds(n)
  BY <1>2, ReadsFinal DEF IInv, NodeInv
<1>3. ASSUME DOMAIN input' = Nodes,
             \A n \in Nodes : /\ proc'[n] # "idle" => proc[n] # "idle" /\ input'[n] = input[n]
                              /\ n \in skipped' => n \in skipped
      PROVE  FinalInv'
  BY <1>2, <1>3 DEF FinalInv, InputsFinal, DecisionsFinal
<1>4. CASE SkipHead
  <2>1. PICK h \in Nodes : h = Head(ready) /\ Waiting(h)
    BY <1>4, HeadStep DEF SkipHead, MayLaunch, IInv
  <2>2. ~ConditionHolds(h)'
    <3>1. ConditionHolds(h)' = ConditionHolds(h)
      BY <2>1, ReadsFinal DEF Waiting
    <3>2. ~ConditionHolds(h)
      BY <2>1, <1>4 DEF SkipHead
    <3> QED BY <3>1, <3>2
  <2>3. skipped' = skipped \cup {h} /\ UNCHANGED <<proc, input>>
    BY <2>1, <1>4 DEF SkipHead
  <2>4. InputsFinal'
    BY <2>3, <1>2 DEF FinalInv, InputsFinal
  <2>5. DecisionsFinal'
    BY <2>2, <2>3, <1>2 DEF FinalInv, DecisionsFinal
  <2> QED BY <2>3, <2>4, <2>5 DEF FinalInv
<1>5. CASE LaunchHead
  <2>1. PICK h \in Nodes : h = Head(ready) /\ Waiting(h)
    BY <1>5, HeadStep DEF LaunchHead, MayLaunch, IInv
  <2>2. ConditionHolds(h)' /\ ResolveInputs(h)' = ResolveInputs(h)
    <3>1. ConditionHolds(h)' = ConditionHolds(h) /\ ResolveInputs(h)' = ResolveInputs(h)
      BY <2>1, ReadsFinal DEF Waiting
    <3>2. ConditionHolds(h)
      BY <2>1, <1>5 DEF LaunchHead
    <3> QED BY <3>1, <3>2
  <2>3. /\ input' = [input EXCEPT ![h] = ResolveInputs(h)]
        /\ proc' = [proc EXCEPT ![h] = "started"]
        /\ skipped' = skipped
    BY <2>1, <1>5 DEF LaunchHead
  <2>4. h \notin skipped
    BY <2>1 DEF IInv, NodeInv, Waiting, Settled
  <2>5. DOMAIN input' = Nodes /\ input'[h] = ResolveInputs(h)
        /\ \A n \in Nodes \ {h} : input'[n] = input[n] /\ proc'[n] = proc[n]
    BY <2>1, <2>3, <1>1 DEF FinalInv
  <2>6. InputsFinal'
    BY <2>2, <2>5, <1>2 DEF FinalInv, InputsFinal
  <2>7. DecisionsFinal'
    BY <2>2, <2>3, <2>4, <2>5, <1>2 DEF FinalInv, DecisionsFinal
  <2> QED BY <2>5, <2>6, <2>7 DEF FinalInv
<1>6. ASSUME NEW m \in Nodes, Receive(m) \/ Enter(m) \/ Finish(m) PROVE FinalInv'
  <2>1. proc[m] # "idle" /\ UNCHANGED <<input, skipped>>
        /\ \A n \in Nodes \ {m} : proc'[n] = proc[n]
    BY <1>1, <1>6 DEF Receive, Enter, Finish, schedulerVars
  <2> QED BY <2>1, <1>3 DEF FinalInv
<1>7. CASE LeaveLaunchLoop \/ Return \/ CallerEnds \/ UNCHANGED vars
  <2>1. UNCHANGED <<input, skipped, proc>>
    BY <1>7 DEF LeaveLaunchLoop, Return, CallerEnds, schedulerVars, vars
  <2> QED BY <2>1, <1>3 DEF FinalInv
<1> QED BY <1>4, <1>5, <1>6, <1>7 DEF Next, Scheduler, Terminated

LEMMA AllFinal == Spec => []FinalInv
<1>1. Init => FinalInv
  BY DEF Init, FinalInv, InputsFinal, DecisionsFinal
<1> QED BY <1>1, FinalInvStep, Inductive, PTL DEF Spec

(* Every node was given what the results still hold for it.                *)
THEOREM InputsAreFinal == Spec => []InputsFinal
<1>1. FinalInv => InputsFinal
  BY DEF FinalInv
<1> QED BY <1>1, AllFinal, PTL

(* Every node was run or skipped as the results still say it should be.    *)
THEOREM DecisionsAreFinal == Spec => []DecisionsFinal
<1>1. FinalInv => DecisionsFinal
  BY DEF FinalInv
<1> QED BY <1>1, AllFinal, PTL
-----------------------------------------------------------------------------
(* As long as the caller waits, an operator can only be told to stop by    *)
(* the run itself, which has recorded its error by then.                   *)
CauseInv ==
  ~callerDone =>
    /\ \A n \in Nodes : outcome[n] = "aborted" => cancelled
    /\ RootCause

LEMMA CauseInvStep == IInv /\ CauseInv /\ [Next]_vars => CauseInv'
<1> SUFFICES ASSUME IInv, CauseInv, [Next]_vars, ~callerDone' PROVE CauseInv'
  BY DEF CauseInv
<1>1. ~callerDone
  BY DEF Next, Scheduler, SkipHead, LaunchHead, LeaveLaunchLoop, Return, Receive,
         Enter, Finish, CallerEnds, Terminated, schedulerVars, vars
<1>2. /\ outcome \in [Nodes -> Outcomes \cup {Absent}]
      /\ firstErr \in Nodes \cup {None}
      /\ \A n \in Nodes : proc[n] \in {"started", "running"} => outcome[n] = Absent
  BY DEF IInv, TypeOK, NodeInv
<1>3. firstErr # None => firstErr \in Nodes /\ outcome[firstErr] # "aborted"
                         /\ trace[firstErr] = "error"
  BY <1>1, <1>2 DEF CauseInv, RootCause, IInv, ControlInv
<1>4. CASE UNCHANGED <<outcome, firstErr>> /\ (cancelled => cancelled')
  BY <1>1, <1>4 DEF CauseInv, RootCause
<1>5. CASE SkipHead \/ LaunchHead \/ LeaveLaunchLoop \/ Return \/ UNCHANGED vars
  BY <1>4, <1>5 DEF SkipHead, LaunchHead, LeaveLaunchLoop, Return, vars
<1>6. ASSUME NEW m \in Nodes, Receive(m) PROVE CauseInv'
  <2>1. outcome' = outcome
    BY <1>6 DEF Receive
  <2>2. CASE ReceiveOutput(m)
    BY <2>1, <2>2, <1>4 DEF ReceiveOutput
  <2>3. CASE ReceiveError(m)
    <3>1. cancelled' /\ firstErr' = Blame(m)
      BY <2>3 DEF ReceiveError
    <3>2. CASE firstErr # None
      BY <3>1, <3>2, <2>1, <1>1, <1>3 DEF Blame, CauseInv, RootCause
    <3>3. CASE firstErr = None
      <4>1. ~cancelled
        BY <3>3, <1>6 DEF IInv, ControlInv, Receive
      <4>2. outcome[m] # "aborted"
        BY <4>1, <1>1 DEF CauseInv
      <4> QED BY <4>2, <3>1, <3>3, <2>1 DEF Blame, CauseInv, RootCause
    <3> QED BY <3>2, <3>3
  <2> QED BY <2>2, <2>3, <1>6 DEF Receive
<1>7. ASSUME NEW m \in Nodes, Enter(m) \/ Finish(m) PROVE CauseInv'
  <2>1. /\ UNCHANGED <<firstErr, trace, cancelled>>
        /\ \A n \in Nodes \ {m} : outcome'[n] = outcome[n]
        /\ outcome'[m] = "aborted" => outcome[m] = "aborted" \/ cancelled
    BY <1>1, <1>2, <1>7 DEF Enter, Finish, schedulerVars, CtxDone
  <2>2. firstErr # m
    <3>1. proc[m] # "gone"
      BY <1>7 DEF Enter, Finish
    <3>2. trace[m] # "error"
      BY <3>1 DEF IInv, TraceInv
    <3>3. None \notin Nodes
      BY ExecutorAssumption DEF ExecutorAssumption
    <3> QED BY <3>2, <3>3, <1>3
  <2> QED BY <2>1, <2>2, <1>1, <1>2 DEF CauseInv, RootCause
<1> QED BY <1>1, <1>5, <1>6, <1>7 DEF Next, Scheduler, CallerEnds, Terminated

(* An abort caused by the run's own cancel() is never blamed.              *)
THEOREM BlameIsRootCause == Spec => []RootCause
<1>1. Init => CauseInv
  BY ExecutorAssumption DEF Init, CauseInv, RootCause, ExecutorAssumption, ErrorOutcomes
<1>2. CauseInv => RootCause
  BY DEF CauseInv, RootCause
<1> QED BY <1>1, <1>2, CauseInvStep, Inductive, PTL DEF Spec
-----------------------------------------------------------------------------
(* The safety half of the refinement: each step of the executor is a step  *)
(* of the abstract run, or changes nothing that its caller can tell.       *)

(* The abstract run reads the same workflow and counts in the same way.    *)
LEMMA SameGraph == \A n \in Nodes : Abstract!Dependencies[n] = Dependencies[n]
BY DEF Abstract!Dependencies, Dependencies, Abstract!Reads, Reads, Abstract!Producers, Producers

LEMMA SameCardinality == \A S : Abstract!Cardinality(S) = Cardinality(S)
BY DEF Abstract!Cardinality, Cardinality

(* What the abstract status of a node means in the executor.               *)
LEMMA StatusMeaning ==
  ASSUME IInv, NEW n \in Nodes
  PROVE  /\ Status[n] = "running" <=> n \in InFlightNodes
         /\ Status[n] = "pending" <=> proc[n] = "idle" /\ n \notin skipped
         /\ Status[n] = "failed" <=> trace[n] = "error"
         /\ n \in Settled /\ trace[n] # "error" => Status[n] \in {"completed", "skipped"}
<1>1. /\ proc[n] \in {"idle", "started", "running", "sending", "gone"}
      /\ trace[n] \in {"none", "skipped", "output", "error"}
  BY DEF IInv, TypeOK
<1>2. /\ trace[n] \in {"output", "error"} <=> proc[n] = "gone"
      /\ trace[n] = "skipped" <=> n \in skipped
      /\ n \in Settled => proc[n] \in {"idle", "gone"}
      /\ n \in Settled /\ proc[n] = "idle" => n \in skipped
      /\ n \in skipped => proc[n] = "idle"
  BY DEF IInv, TraceInv, NodeInv
<1>3. n \in InFlightNodes <=> proc[n] \in {"started", "running", "sending"}
  BY DEF InFlightNodes
<1>4. Status[n] = IF n \in InFlightNodes THEN "running"
                  ELSE IF trace[n] = "skipped" THEN "skipped"
                  ELSE IF trace[n] = "output" THEN "completed"
                  ELSE IF trace[n] = "error" THEN "failed"
                  ELSE "pending"
  BY DEF Status
<1> QED BY <1>1, <1>2, <1>3, <1>4

LEMMA FailedMeaning == ASSUME IInv PROVE Abstract!Failed <=> firstErr # None
<1>1. \A n \in Nodes : Status[n] = "failed" <=> trace[n] = "error"
  BY StatusMeaning
<1>2. \A n \in Nodes : trace[n] = "error" => firstErr # None
  BY DEF IInv, TraceInv
<1>3. firstErr # None => firstErr \in Nodes /\ trace[firstErr] = "error"
  BY DEF IInv, TypeOK, ControlInv
<1> QED BY <1>1, <1>2, <1>3 DEF Abstract!Failed

LEMMA SettledIsDone ==
  ASSUME IInv, firstErr = None, NEW n \in Settled
  PROVE  Abstract!Done(n)
<1>1. n \in Nodes /\ trace[n] # "error"
  BY DEF Settled, IInv, TraceInv
<1> QED BY <1>1, StatusMeaning DEF Abstract!Done

LEMMA RunningMeaning == ASSUME IInv PROVE Abstract!Running = InFlightNodes
BY StatusMeaning DEF Abstract!Running, InFlightNodes

(* A status that only one node's goroutine or trace entry can have moved.  *)
LEMMA StatusMoves ==
  ASSUME NEW n \in Nodes, NEW s,
         \A m \in Nodes \ {n} : (m \in InFlightNodes' <=> m \in InFlightNodes)
                                /\ trace'[m] = trace[m],
         Status'[n] = s
  PROVE  Status' = [Status EXCEPT ![n] = s]
<1>1. ASSUME NEW m \in Nodes \ {n} PROVE Status'[m] = Status[m]
  BY <1>1 DEF Status
<1>2. /\ Status = [m \in Nodes |-> Status[m]]
      /\ Status' = [m \in Nodes |-> Status'[m]]
  BY DEF Status
<1> QED BY <1>1, <1>2

LEMMA HeadRunnable ==
  ASSUME IInv, pc = "launch", MayLaunch, NEW n \in Nodes, n = Head(ready), Waiting(n)
  PROVE  Abstract!Runnable(n)
<1>1. returned = "no" /\ firstErr = None /\ ~callerDone
  BY DEF IInv, ControlInv, MayLaunch, CtxDone
<1>2. Status[n] = "pending"
  BY StatusMeaning DEF IInv, NodeInv, Waiting, Settled
<1>3. ASSUME NEW d \in Dependencies[n] PROVE Abstract!Done(d)
  BY <1>1, SettledIsDone DEF Waiting
<1> QED BY <1>1, <1>2, <1>3, FailedMeaning, SameGraph DEF Abstract!Runnable

LEMMA LaunchRefines == IInv /\ IInv' /\ LaunchHead => Abstract!DNext
<1> SUFFICES ASSUME IInv, IInv', LaunchHead PROVE Abstract!DNext
  OBVIOUS
<1>1. PICK n \in Nodes : n = Head(ready) /\ Waiting(n)
  BY HeadStep DEF LaunchHead, MayLaunch, IInv
<1>2. Abstract!Runnable(n)
  BY <1>1, HeadRunnable DEF LaunchHead
<1>3. Abstract!Cardinality(Abstract!Running) < Concurrency
  BY RunningMeaning, SameCardinality DEF LaunchHead, SlotFree, IInv, CountInv
<1>4. /\ proc' = [proc EXCEPT ![n] = "started"]
      /\ UNCHANGED <<trace, callerDone, returned>>
      /\ proc \in [Nodes -> {"idle", "started", "running", "sending", "gone"}]
  BY <1>1 DEF LaunchHead, IInv, TypeOK
<1>5. Status'[n] = "running"
  BY <1>4 DEF Status, InFlightNodes
<1>6. Status' = [Status EXCEPT ![n] = "running"]
  BY <1>4, <1>5, StatusMoves DEF InFlightNodes
<1> QED BY <1>2, <1>3, <1>4, <1>6 DEF Abstract!DNext, Abstract!Start

LEMMA SkipRefines == IInv /\ IInv' /\ SkipHead => Abstract!DNext
<1> SUFFICES ASSUME IInv, IInv', SkipHead PROVE Abstract!DNext
  OBVIOUS
<1>1. PICK n \in Nodes : n = Head(ready) /\ Waiting(n)
  BY HeadStep DEF SkipHead, MayLaunch, IInv
<1>2. Abstract!Runnable(n)
  BY <1>1, HeadRunnable DEF SkipHead
<1>3. Conditions[n] # {}
  BY <1>1 DEF SkipHead, ConditionHolds
<1>4. /\ trace' = [trace EXCEPT ![n] = "skipped"]
      /\ UNCHANGED <<proc, callerDone, returned>>
      /\ trace \in [Nodes -> {"none", "skipped", "output", "error"}]
  BY <1>1 DEF SkipHead, IInv, TypeOK
<1>5. Status'[n] = "skipped"
  <2>1. trace'[n] = "skipped" /\ n \notin InFlightNodes'
    BY <1>1, <1>4 DEF Waiting, InFlightNodes
  <2> QED BY <2>1 DEF Status
<1>6. Status' = [Status EXCEPT ![n] = "skipped"]
  BY <1>4, <1>5, StatusMoves DEF InFlightNodes
<1> QED BY <1>2, <1>3, <1>4, <1>6 DEF Abstract!DNext, Abstract!Skip

LEMMA ReceiveRefines ==
  ASSUME IInv, IInv', NEW n \in Nodes, Receive(n)
  PROVE  Abstract!DNext
<1>1. returned = "no"
  BY DEF IInv, ControlInv, Receive
<1>2. /\ proc[n] = "sending"
      /\ proc' = [proc EXCEPT ![n] = "gone"]
      /\ proc \in [Nodes -> {"idle", "started", "running", "sending", "gone"}]
      /\ trace \in [Nodes -> {"none", "skipped", "output", "error"}]
      /\ UNCHANGED <<callerDone, returned>>
  BY DEF Receive, IInv, TypeOK
<1>3. PICK t \in {"output", "error"} : trace' = [trace EXCEPT ![n] = t]
  BY DEF Receive, ReceiveError, ReceiveOutput
<1>4. Status[n] = "running"
  BY <1>2, StatusMeaning DEF InFlightNodes
<1>5. \E ending \in {"completed", "failed"} : Status'[n] = ending
  <2>1. n \notin InFlightNodes' /\ trace'[n] = t
    BY <1>2, <1>3 DEF InFlightNodes
  <2> QED BY <2>1 DEF Status
<1>6. \A m \in Nodes \ {n} : (m \in InFlightNodes' <=> m \in InFlightNodes)
                             /\ trace'[m] = trace[m]
  BY <1>2, <1>3 DEF InFlightNodes
<1>7. \E ending \in {"completed", "failed"} : Status' = [Status EXCEPT ![n] = ending]
  BY <1>5, <1>6, StatusMoves
<1> QED BY <1>1, <1>2, <1>4, <1>7 DEF Abstract!DNext, Abstract!End

LEMMA ReturnRefines == IInv /\ Return => Abstract!DNext
<1> SUFFICES ASSUME IInv, Return PROVE Abstract!DNext
  OBVIOUS
<1>1. /\ returned = "no" /\ returned' = Verdict
      /\ inFlight = 0
      /\ ready = <<>> \/ firstErr # None \/ CtxDone
      /\ cancelled => firstErr # None
      /\ UNCHANGED <<proc, trace, callerDone>>
  BY DEF Return, IInv, ControlInv
<1>2. InFlightNodes' = InFlightNodes /\ Status' = Status
  <2>1. InFlightNodes' = InFlightNodes
    BY <1>1 DEF InFlightNodes
  <2> QED BY <2>1, <1>1 DEF Status
<1>3. Abstract!Running = {}
  <2>1. InFlightNodes \in SUBSET Nodes /\ Cardinality(InFlightNodes) = 0
    BY <1>1 DEF InFlightNodes, IInv, CountInv
  <2> QED BY <2>1, FiniteNodes, FS_EmptySet, RunningMeaning
<1>4. CASE firstErr # None
  <2>1. Abstract!Failed /\ Verdict = "node error"
    BY <1>4, FailedMeaning DEF Verdict
  <2> QED BY <2>1, <1>1, <1>2, <1>3 DEF Abstract!DNext, Abstract!Deliver
<1>5. CASE firstErr = None /\ CtxDone
  <2>1. ~Abstract!Failed /\ callerDone /\ Verdict = "context error"
    BY <1>1, <1>5, FailedMeaning DEF Verdict, CtxDone
  <2> QED BY <2>1, <1>1, <1>2, <1>3 DEF Abstract!DNext, Abstract!Deliver
<1>6. CASE firstErr = None /\ ~CtxDone
  <2>1. Settled = Nodes
    BY <1>1, <1>6, NothingStuck
  <2>2. \A n \in Nodes : Abstract!Done(n)
    BY <2>1, <1>6, SettledIsDone
  <2>3. completed = Cardinality(Nodes) /\ Cardinality(Nodes) \in Nat
    BY <2>1, FiniteNodes DEF IInv, CountInv
  <2>4. Verdict = "ok"
    BY <2>3, <1>6 DEF Verdict
  <2>5. ~Abstract!Failed /\ ~callerDone
    BY <1>6, FailedMeaning DEF CtxDone
  <2> QED BY <2>2, <2>4, <2>5, <1>1, <1>2, <1>3 DEF Abstract!DNext, Abstract!Deliver
<1> QED BY <1>4, <1>5, <1>6

(* The scheduler's bookkeeping and the goroutines' own steps are not       *)
(* visible to the caller.                                                  *)
LEMMA QuietSteps ==
  ASSUME IInv,
         \/ LeaveLaunchLoop
         \/ \E n \in Nodes : Enter(n) \/ Finish(n)
         \/ UNCHANGED vars
  PROVE  UNCHANGED Abstract!dvars
<1>1. UNCHANGED <<trace, callerDone, returned>>
  BY DEF LeaveLaunchLoop, Enter, Finish, schedulerVars, vars
<1>2. proc \in [Nodes -> {"idle", "started", "running", "sending", "gone"}]
  BY DEF IInv, TypeOK
<1>3. InFlightNodes' = InFlightNodes
  BY <1>2 DEF LeaveLaunchLoop, Enter, Finish, vars, InFlightNodes
<1>4. Status' = Status
  BY <1>1, <1>3 DEF Status
<1> QED BY <1>1, <1>4 DEF Abstract!dvars

LEMMA CallerEndsRefines == CallerEnds => Abstract!DNext
<1> SUFFICES ASSUME CallerEnds PROVE Abstract!DNext
  OBVIOUS
<1>1. /\ ~callerDone /\ returned = "no" /\ callerDone'
      /\ UNCHANGED <<proc, trace, returned>>
  BY DEF CallerEnds, schedulerVars
<1>2. Status' = Status
  <2>1. InFlightNodes' = InFlightNodes
    BY <1>1 DEF InFlightNodes
  <2> QED BY <2>1, <1>1 DEF Status
<1>3. callerDone' = TRUE
  BY DEF CallerEnds
<1> QED BY <1>1, <1>2, <1>3 DEF Abstract!DNext, Abstract!Expire

(* Executor.Run implements the abstract run: it starts in one of its       *)
(* initial states, and every step is one of its steps or leaves all that   *)
(* the caller can see alone.                                               *)
THEOREM RunRefinesSafely == Spec => Abstract!DInit /\ [][Abstract!DNext]_Abstract!dvars
<1>1. Init => Abstract!DInit
  <2> SUFFICES ASSUME Init PROVE Abstract!DInit
    OBVIOUS
  <2>1. Status = [n \in Nodes |-> "pending"]
    BY DEF Init, Status, InFlightNodes
  <2> QED BY <2>1 DEF Init, Abstract!DInit
<1>2. IInv /\ IInv' /\ [Next]_vars => [Abstract!DNext]_Abstract!dvars
  <2> SUFFICES ASSUME IInv, IInv', [Next]_vars
               PROVE  Abstract!DNext \/ UNCHANGED Abstract!dvars
    OBVIOUS
  <2>1. CASE SkipHead
    BY <2>1, SkipRefines
  <2>2. CASE LaunchHead
    BY <2>2, LaunchRefines
  <2>3. CASE Return
    BY <2>3, ReturnRefines
  <2>4. CASE CallerEnds
    BY <2>4, CallerEndsRefines
  <2>5. CASE \E n \in Nodes : Receive(n)
    BY <2>5, ReceiveRefines
  <2>6. CASE LeaveLaunchLoop \/ (\E n \in Nodes : Enter(n) \/ Finish(n)) \/ UNCHANGED vars
    BY <2>6, QuietSteps
  <2> QED BY <2>1, <2>2, <2>3, <2>4, <2>5, <2>6 DEF Next, Scheduler, Terminated
<1> QED BY <1>1, <1>2, Inductive, PTL DEF Spec
-----------------------------------------------------------------------------
(* The status of a case hides nothing.  The steps of a case are steps of   *)
(* its executor, so the executor's invariant carries over; HowInv ties the *)
(* cause of each operator's ending to what the executor was handed.        *)
HowInv ==
  /\ how \in [Nodes -> {"none", Plain} \cup Verdicts \cup Breakdowns]
  /\ \A n \in Nodes :
       /\ how[n] = "none" <=> proc[n] \in {"idle", "started", "running"}
       /\ how[n] # "none" => outcome[n] = HandedOver(n, how[n])
       /\ trace[n] = "output" <=> proc[n] = "gone" /\ outcome[n] \in Values

CaseInv == IInv /\ VerdictJustified /\ HowInv

(* A step of the case is a step of its executor, or leaves it alone.       *)
LEMMA CaseStepIsRunStep == [CaseNext]_caseVars => [Next]_vars
BY DEF CaseNext, caseVars, RunStep, OpStarts, OpReturns, ContextEnds, Classify, CaseDone, Next

LEMMA CaseInvInit == CaseInit => CaseInv
<1> SUFFICES ASSUME CaseInit PROVE CaseInv
  OBVIOUS
<1>1. Init
  BY DEF CaseInit
<1>2. IInv /\ VerdictJustified
  BY <1>1, InitInv DEF Init, VerdictJustified
<1>3. HowInv
  BY <1>1 DEF CaseInit, Init, HowInv
<1> QED BY <1>2, <1>3 DEF CaseInv

LEMMA HowInvRunStep == CaseInv /\ RunStep => HowInv'
<1> SUFFICES ASSUME CaseInv, RunStep PROVE HowInv'
  OBVIOUS
<1>1. /\ proc \in [Nodes -> {"idle", "started", "running", "sending", "gone"}]
      /\ trace \in [Nodes -> {"none", "skipped", "output", "error"}]
      /\ outcome \in [Nodes -> Outcomes \cup {Absent}]
  BY DEF CaseInv, IInv, TypeOK
<1>2. how' = how /\ outcome' = outcome
  BY DEF RunStep, Scheduler, SkipHead, LaunchHead, LeaveLaunchLoop, Return, Receive
<1>3. HowInv
  BY DEF CaseInv
<1>4. CASE LeaveLaunchLoop \/ Return
  <2>1. proc' = proc /\ trace' = trace
    BY <1>4 DEF LeaveLaunchLoop, Return
  <2> QED BY <2>1, <1>2, <1>3 DEF HowInv
<1>5. CASE LaunchHead
  <2>1. PICK h \in Nodes : h = Head(ready) /\ Waiting(h)
    BY <1>5, HeadStep DEF LaunchHead, MayLaunch, CaseInv, IInv
  <2>2. proc' = [proc EXCEPT ![h] = "started"] /\ trace' = trace
    BY <2>1, <1>5 DEF LaunchHead
  <2> QED BY <2>1, <2>2, <1>1, <1>2, <1>3 DEF HowInv, Waiting
<1>6. CASE SkipHead
  <2>1. PICK h \in Nodes : h = Head(ready) /\ Waiting(h)
    BY <1>6, HeadStep DEF SkipHead, MayLaunch, CaseInv, IInv
  <2>2. trace' = [trace EXCEPT ![h] = "skipped"] /\ proc' = proc
    BY <2>1, <1>6 DEF SkipHead
  <2> QED BY <2>1, <2>2, <1>1, <1>2, <1>3 DEF HowInv, Waiting
<1>7. ASSUME NEW m \in Nodes, Receive(m) PROVE HowInv'
  <2>1. proc[m] = "sending" /\ proc' = [proc EXCEPT ![m] = "gone"]
    BY <1>7 DEF Receive
  <2>2. trace' = [trace EXCEPT ![m] = IF outcome[m] \in Values THEN "output" ELSE "error"]
    BY <1>7 DEF Receive, ReceiveError, ReceiveOutput, ValidOutput
  <2> QED BY <2>1, <2>2, <1>1, <1>2, <1>3 DEF HowInv
<1> QED BY <1>4, <1>5, <1>6, <1>7 DEF RunStep, Scheduler

LEMMA HowInvOpStep ==
  ASSUME CaseInv, NEW m \in Nodes, OpStarts(m) \/ OpReturns(m)
  PROVE  HowInv'
<1>1. /\ proc \in [Nodes -> {"idle", "started", "running", "sending", "gone"}]
      /\ outcome \in [Nodes -> Outcomes \cup {Absent}]
  BY DEF CaseInv, IInv, TypeOK
<1>2. HowInv
  BY DEF CaseInv
<1>3. trace' = trace
  BY DEF OpStarts, OpReturns, Enter, Finish, schedulerVars
<1>4. CASE OpStarts(m)
  <2>1. proc[m] = "started"
    BY <1>4 DEF OpStarts, Enter
  <2>2. CASE proc' = [proc EXCEPT ![m] = "sending"] /\ outcome' = [outcome EXCEPT ![m] = "aborted"]
    <3>1. how' = [how EXCEPT ![m] = "aborted"]
      BY <1>4, <2>2, <1>1 DEF OpStarts
    <3>2. HandedOver(m, "aborted") = "aborted"
      BY DEF HandedOver, Breakdowns, ErrorOutcomes
    <3>3. "aborted" \in Breakdowns /\ "aborted" # "none"
      BY DEF Breakdowns
    <3> QED BY <2>1, <2>2, <3>1, <3>2, <3>3, <1>1, <1>2, <1>3 DEF HowInv
  <2>3. CASE proc' = [proc EXCEPT ![m] = "running"] /\ UNCHANGED outcome
    <3>1. how' = how
      BY <1>4, <2>3, <1>1 DEF OpStarts
    <3> QED BY <2>1, <2>3, <3>1, <1>1, <1>2, <1>3 DEF HowInv
  <2> QED BY <1>4, <2>2, <2>3 DEF OpStarts, Enter
<1>5. CASE OpReturns(m)
  <2>1. PICK h \in Endings(m) : /\ how' = [how EXCEPT ![m] = h]
                                /\ outcome' = [outcome EXCEPT ![m] = HandedOver(m, h)]
    BY <1>5 DEF OpReturns
  <2>2. proc[m] = "running" /\ proc' = [proc EXCEPT ![m] = "sending"]
    BY <1>5 DEF OpReturns, Finish
  <2>3. h \in {Plain} \cup Verdicts \cup Breakdowns /\ h # "none"
    BY CaseAssumption DEF CaseAssumption, Endings, Verdicts, Breakdowns
  <2> QED BY <2>1, <2>2, <2>3, <1>1, <1>2, <1>3 DEF HowInv
<1> QED BY <1>4, <1>5

LEMMA CaseInvStep == CaseInv /\ [CaseNext]_caseVars => CaseInv'
<1> SUFFICES ASSUME CaseInv, [CaseNext]_caseVars PROVE CaseInv'
  OBVIOUS
<1>1. [Next]_vars
  BY CaseStepIsRunStep
<1>2. IInv' /\ VerdictJustified'
  BY <1>1, InvStep, JustifiedStep DEF CaseInv
<1>3. ASSUME UNCHANGED <<how, proc, trace, outcome>> PROVE HowInv'
  BY <1>3 DEF CaseInv, HowInv
<1>4. ASSUME ContextEnds \/ Classify \/ UNCHANGED caseVars PROVE HowInv'
  BY <1>3, <1>4 DEF ContextEnds, CallerEnds, Classify, schedulerVars, caseVars, vars
<1>5. ASSUME RunStep PROVE HowInv'
  BY <1>5, HowInvRunStep
<1>6. ASSUME \E n \in Nodes : OpStarts(n) \/ OpReturns(n) PROVE HowInv'
  BY <1>6, HowInvOpStep
<1>7. HowInv'
  BY <1>4, <1>5, <1>6 DEF CaseNext, CaseDone
<1> QED BY <1>2, <1>7 DEF CaseInv

(* The executor's invariant holds in every state of every case.            *)
THEOREM CaseInvariant == CaseSpec => []CaseInv
BY CaseInvInit, CaseInvStep, PTL DEF CaseSpec
-----------------------------------------------------------------------------
(* In a run that returned "ok", each breakdown was a softened gate.        *)
LEMMA BreakdownsWereSoftened ==
  ASSUME CaseInv, returned = "ok", NEW n \in Nodes, how[n] \in Breakdowns
  PROVE  Wobble(n) /\ n \in SoftFailures
<1>1. Settled = Nodes /\ trace[n] # "error"
  BY DEF CaseInv, VerdictJustified
<1>2. how[n] # "none"
  BY DEF Breakdowns
<1>3. proc[n] \notin {"idle", "started", "running"}
  BY <1>2 DEF CaseInv, HowInv
<1>4. proc[n] = "gone"
  BY <1>1, <1>3 DEF CaseInv, IInv, NodeInv
<1>5. trace[n] = "output"
  BY <1>1, <1>4 DEF CaseInv, IInv, TraceInv
<1>6. outcome[n] = HandedOver(n, how[n]) /\ outcome[n] \in Values
  BY <1>2, <1>5 DEF CaseInv, HowInv
<1>7. Wobble(n)
  <2>1. ErrorOutcomes \cap Values = {}
    BY ExecutorAssumption DEF ExecutorAssumption
  <2>2. ~Wobble(n) => HandedOver(n, how[n]) \in ErrorOutcomes
    BY DEF Wobble, HandedOver, ErrorOutcomes
  <2> QED BY <2>1, <2>2, <1>6
<1>8. outcome[n] = Softened
  BY <1>6, <1>7 DEF Wobble, HandedOver
<1> QED BY <1>5, <1>7, <1>8 DEF SoftFailures, TraceOutput, OutputOf

LEMMA ClassifyHidesNothing == CaseInv /\ Classify => NothingHidden'
<1> SUFFICES ASSUME CaseInv, Classify,
                    status' \in {"pass", "soft_gate_failed", "semantic_failed"}
             PROVE  NothingHidden'
  BY DEF NothingHidden
<1>1. status' = CaseStatus /\ UNCHANGED <<vars, how>>
  BY DEF Classify
<1>2. returned = "ok" /\ CaseStatus = VerdictStatus
  BY <1>1 DEF CaseStatus, ErrorStatus
<1>3. CaseVerdict # Nil
  BY <1>1, <1>2 DEF VerdictStatus
<1>4. trace[Gate] = "output" /\ CaseVerdict = outcome[Gate] /\ CaseVerdict \in Verdicts
  BY <1>3, CaseAssumption DEF CaseAssumption, CaseVerdict, TraceOutput, OutputOf
<1>5. outcome[Gate] = IF status' = "semantic_failed" THEN Failing ELSE Passing
  BY <1>1, <1>2, <1>3, <1>4 DEF VerdictStatus, Verdicts
<1>6. Settled = Nodes
  BY <1>2 DEF CaseInv, VerdictJustified
<1>7. \A n \in Nodes : how[n] \in Breakdowns => Wobble(n) /\ status' # "pass"
  BY <1>1, <1>2, BreakdownsWereSoftened DEF VerdictStatus
<1>8. /\ Settled' = Settled /\ how' = how /\ outcome' = outcome
      /\ \A n \in Nodes : Wobble(n)' = Wobble(n)
  BY <1>1 DEF vars, Settled, Wobble, GateMode
<1> QED BY <1>5, <1>6, <1>7, <1>8 DEF NothingHidden

(* After the classification nothing moves that the result speaks of.       *)
LEMMA ClassifiedFrozen ==
  ASSUME CaseInv, status # "none", status # "none" => returned # "no", [CaseNext]_caseVars
  PROVE  UNCHANGED <<vars, how, status, evidence>>
<1>1. UNCHANGED vars
  BY CaseStepIsRunStep, ReturnedFrozen DEF CaseInv
<1>2. ~Scheduler /\ \A n \in Nodes : ~OpStarts(n) /\ ~OpReturns(n)
  <2>1. pc = "returned" /\ inFlight = 0
    BY DEF CaseInv, IInv, ControlInv
  <2>2. InFlightNodes \in SUBSET Nodes /\ Cardinality(InFlightNodes) = 0
    BY <2>1 DEF InFlightNodes, CaseInv, IInv, CountInv
  <2>3. InFlightNodes = {}
    BY <2>2, FiniteNodes, FS_EmptySet
  <2> QED BY <2>1, <2>3 DEF Scheduler, SkipHead, LaunchHead, LeaveLaunchLoop, Return,
             Receive, OpStarts, OpReturns, Enter, Finish, InFlightNodes
<1> QED BY <1>1, <1>2 DEF CaseNext, RunStep, ContextEnds, Classify, CaseDone, caseVars

StatusInv == NothingHidden /\ (status # "none" => returned # "no")

(* A case that reports a verdict hides no breakdown of any operator.       *)
THEOREM NothingIsHidden == CaseSpec => []NothingHidden
<1>1. CaseInit => StatusInv
  BY DEF CaseInit, StatusInv, NothingHidden
<1>2. CaseInv /\ StatusInv /\ [CaseNext]_caseVars => StatusInv'
  <2> SUFFICES ASSUME CaseInv, StatusInv, [CaseNext]_caseVars PROVE StatusInv'
    OBVIOUS
  <2>1. CASE status # "none"
    <3>1. UNCHANGED <<vars, how, status>>
      BY <2>1, ClassifiedFrozen DEF StatusInv
    <3>2. NothingHidden'
      BY <3>1 DEF StatusInv, NothingHidden, Settled, Wobble, GateMode, vars
    <3> QED BY <3>1, <3>2 DEF StatusInv, vars
  <2>2. CASE Classify
    <3>1. returned' # "no"
      BY <2>2 DEF Classify, vars
    <3> QED BY <3>1, <2>2, ClassifyHidesNothing DEF StatusInv
  <2>3. CASE status = "none" /\ ~Classify
    <3>1. status' = "none"
      BY <2>3 DEF CaseNext, RunStep, OpStarts, OpReturns, ContextEnds, CaseDone, caseVars
    <3> QED BY <3>1 DEF StatusInv, NothingHidden
  <2> QED BY <2>1, <2>2, <2>3
<1>3. StatusInv => NothingHidden
  BY DEF StatusInv
<1> QED BY <1>1, <1>2, <1>3, CaseInvariant, PTL DEF CaseSpec
-----------------------------------------------------------------------------
(* When Run has returned, what a finished operator did is in the trace.    *)
LEMMA TraceComplete ==
  ASSUME CaseInv, returned # "no", NEW n \in Nodes
  PROVE  /\ n \in Claimants => (how[n] = Plain <=> trace[n] = "output" /\ OutputOf(n) = Plain)
         /\ Wobble(n) <=> TraceOutput(n) /\ OutputOf(n) = Softened
<1>1. proc[n] \in {"idle", "gone"}
  <2>1. inFlight = 0
    BY DEF CaseInv, IInv, ControlInv
  <2>2. InFlightNodes \in SUBSET Nodes /\ Cardinality(InFlightNodes) = 0
    BY <2>1 DEF InFlightNodes, CaseInv, IInv, CountInv
  <2>3. InFlightNodes = {}
    BY <2>2, FiniteNodes, FS_EmptySet
  <2>4. proc \in [Nodes -> {"idle", "started", "running", "sending", "gone"}]
    BY Zenon DEF CaseInv, IInv, TypeOK
  <2> QED BY <2>3, <2>4 DEF InFlightNodes
<1>2. /\ how[n] \in {"none", Plain} \cup Verdicts \cup Breakdowns
      /\ how[n] = "none" <=> proc[n] = "idle"
      /\ how[n] # "none" => outcome[n] = HandedOver(n, how[n])
      /\ trace[n] = "output" <=> proc[n] = "gone" /\ outcome[n] \in Values
  BY <1>1 DEF CaseInv, HowInv
<1>3. ErrorOutcomes \cap Values = {} /\ "failed" \in ErrorOutcomes
  BY ExecutorAssumption DEF ExecutorAssumption, ErrorOutcomes
<1>4. /\ Plain \in Values /\ Softened \in Values
      /\ Plain \notin Breakdowns /\ Plain # "none" /\ Softened \notin Breakdowns
      /\ Softened # Plain /\ Softened \notin Verdicts /\ Softened # Nil
      /\ Plain # Nil /\ Plain \notin Verdicts
  BY CaseAssumption DEF CaseAssumption, Verdicts
<1>5. HandedOver(n, how[n]) = Plain <=> how[n] = Plain
  BY <1>2, <1>3, <1>4 DEF HandedOver, Breakdowns
<1>6. how[n] # "none" => (HandedOver(n, how[n]) = Softened <=> Wobble(n))
  BY <1>2, <1>3, <1>4 DEF HandedOver, Wobble, Breakdowns
<1>7. how[n] = Plain <=> trace[n] = "output" /\ OutputOf(n) = Plain
  BY <1>1, <1>2, <1>4, <1>5 DEF OutputOf
<1>8. Wobble(n) => how[n] = "gate"
  BY DEF Wobble
<1>9. Wobble(n) <=> TraceOutput(n) /\ OutputOf(n) = Softened
  BY <1>1, <1>2, <1>4, <1>6, <1>8 DEF OutputOf, TraceOutput
<1> QED BY <1>7, <1>9

EvidenceInv == EvidenceKept /\ (status # "none" => returned # "no")

(* No claim and no soft failure of a finished operator is lost.            *)
THEOREM EvidenceIsKept == CaseSpec => []EvidenceKept
<1>1. CaseInit => EvidenceInv
  BY DEF CaseInit, EvidenceInv, EvidenceKept
<1>2. CaseInv /\ EvidenceInv /\ [CaseNext]_caseVars => EvidenceInv'
  <2> SUFFICES ASSUME CaseInv, EvidenceInv, [CaseNext]_caseVars PROVE EvidenceInv'
    OBVIOUS
  <2>1. CASE status # "none"
    <3>1. UNCHANGED <<vars, how, status, evidence>>
      BY <2>1, ClassifiedFrozen DEF EvidenceInv
    <3> QED BY <3>1 DEF EvidenceInv, EvidenceKept, Wobble, GateMode, vars
  <2>2. CASE Classify
    <3>1. returned # "no" /\ UNCHANGED <<returned, how>> /\ evidence' = Evidence
      BY <2>2 DEF Classify, vars
    <3>2. Evidence.claims = {n \in Claimants : how[n] = Plain}
      BY <3>1, TraceComplete, CaseAssumption DEF Evidence, CaseAssumption
    <3>3. Evidence.soft = {n \in Nodes : Wobble(n)}
      BY <3>1, TraceComplete DEF Evidence, SoftFailures
    <3> QED BY <3>1, <3>2, <3>3 DEF EvidenceInv, EvidenceKept, Wobble, GateMode
  <2>3. CASE status = "none" /\ ~Classify
    <3>1. status' = "none"
      BY <2>3 DEF CaseNext, RunStep, OpStarts, OpReturns, ContextEnds, CaseDone, caseVars
    <3> QED BY <3>1 DEF EvidenceInv, EvidenceKept
  <2> QED BY <2>1, <2>2, <2>3
<1>3. EvidenceInv => EvidenceKept
  BY DEF EvidenceInv
<1> QED BY <1>1, <1>2, <1>3, CaseInvariant, PTL DEF CaseSpec
-----------------------------------------------------------------------------
(* Only the Gate gives verdicts, and a recorded result was a valid output. *)
JudgeInv ==
  \A n \in Nodes :
    /\ n # Gate => how[n] \notin Verdicts
    /\ results[n] # Absent /\ n \notin skipped => outcome[n] \in Values

LEMMA JudgeInvRunStep == ASSUME CaseInv, JudgeInv, RunStep PROVE JudgeInv'
<1>1. how' = how /\ outcome' = outcome
  BY DEF RunStep, Scheduler, SkipHead, LaunchHead, LeaveLaunchLoop, Return, Receive
<1>2. results \in [Nodes -> Values \cup {Nil, Absent}]
  BY Zenon DEF CaseInv, IInv, TypeOK
<1>3. CASE LeaveLaunchLoop \/ Return \/ LaunchHead
  BY <1>1, <1>3 DEF LeaveLaunchLoop, Return, LaunchHead, JudgeInv
<1>4. CASE SkipHead
  <2>1. results' = [results EXCEPT ![Head(ready)] = Nil] /\ skipped' = skipped \cup {Head(ready)}
    BY <1>4 DEF SkipHead
  <2> QED BY <1>1, <1>2, <2>1 DEF JudgeInv
<1>5. ASSUME NEW m \in Nodes, Receive(m) PROVE JudgeInv'
  <2>1. skipped' = skipped /\ (results' = results \/
          (outcome[m] \in Values /\ results' = [results EXCEPT ![m] = outcome[m]]))
    BY <1>5 DEF Receive, ReceiveError, ReceiveOutput, ValidOutput
  <2> QED BY <1>1, <1>2, <2>1 DEF JudgeInv
<1> QED BY <1>3, <1>4, <1>5 DEF RunStep, Scheduler

LEMMA JudgeInvOpStep ==
  ASSUME CaseInv, JudgeInv, NEW m \in Nodes, OpStarts(m) \/ OpReturns(m)
  PROVE  JudgeInv'
<1>1. results' = results /\ skipped' = skipped /\ proc[m] \in {"started", "running"}
  BY DEF OpStarts, OpReturns, Enter, Finish, schedulerVars
<1>2. results[m] = Absent
  BY <1>1 DEF CaseInv, IInv, NodeInv, Settled
<1>3. \A n \in Nodes \ {m} : how'[n] = how[n] /\ outcome'[n] = outcome[n]
  <2>1. how \in [Nodes -> {"none", Plain} \cup Verdicts \cup Breakdowns]
        /\ outcome \in [Nodes -> Outcomes \cup {Absent}]
    BY Zenon DEF CaseInv, IInv, TypeOK, HowInv
  <2>2. CASE OpStarts(m) BY <2>1, <2>2 DEF OpStarts, Enter
  <2>3. CASE OpReturns(m)
    <3>1. PICK h \in Endings(m) : /\ how' = [how EXCEPT ![m] = h]
                                  /\ outcome' = [outcome EXCEPT ![m] = HandedOver(m, h)]
      BY <2>3 DEF OpReturns
    <3> QED BY <2>1, <3>1
  <2> QED BY <2>2, <2>3
<1>4. m # Gate => how'[m] \notin Verdicts
  <2>1. /\ Verdicts \cap ({Plain} \cup Breakdowns) = {}
        /\ how \in [Nodes -> {"none", Plain} \cup Verdicts \cup Breakdowns]
    BY CaseAssumption DEF CaseAssumption, Verdicts, CaseInv, HowInv
  <2>2. how'[m] = how[m] \/ how'[m] = "aborted" \/ how'[m] \in Endings(m)
    BY <2>1 DEF OpStarts, OpReturns
  <2>3. "aborted" \in Breakdowns
    BY DEF Breakdowns
  <2> QED BY <2>1, <2>2, <2>3 DEF JudgeInv, Endings
<1> QED BY <1>1, <1>2, <1>3, <1>4 DEF JudgeInv

LEMMA JudgeRestsOnSuccess == ASSUME CaseInv, JudgeInv PROVE JudgeOnlyAfterSuccess
<1> SUFFICES ASSUME how[Gate] \in Verdicts, NEW n \in Dependencies[Gate], n \notin skipped
             PROVE  how[n] = Plain \/ Wobble(n)
  BY DEF JudgeOnlyAfterSuccess
<1>1. Gate \in Nodes /\ Successors(Gate) = {} /\ n \in Nodes
  BY CaseAssumption, DependenciesType DEF CaseAssumption
<1>2. n # Gate
  BY <1>1 DEF Successors
<1>3. n \in Settled
  <2>1. how[Gate] # "none"
    BY CaseAssumption DEF CaseAssumption, Verdicts
  <2>2. proc[Gate] # "idle"
    BY <1>1, <2>1 DEF CaseInv, HowInv
  <2> QED BY <1>1, <2>2 DEF CaseInv, IInv, NodeInv
<1>4. proc[n] = "gone" /\ outcome[n] \in Values
  BY <1>1, <1>3 DEF CaseInv, IInv, NodeInv, Settled, JudgeInv
<1>5. outcome[n] = HandedOver(n, how[n]) /\ how[n] \in {Plain} \cup Verdicts \cup Breakdowns
  BY <1>1, <1>4 DEF CaseInv, HowInv
<1>6. ErrorOutcomes \cap Values = {}
  BY ExecutorAssumption DEF ExecutorAssumption
<1>7. how[n] \in Breakdowns /\ ~Wobble(n) => HandedOver(n, how[n]) \in ErrorOutcomes
  BY DEF HandedOver, Wobble, ErrorOutcomes
<1> QED BY <1>1, <1>2, <1>4, <1>5, <1>6, <1>7 DEF JudgeInv

(* The terminal gate gives its verdict only on what did not break.         *)
THEOREM JudgesOnlySuccess == CaseSpec => []JudgeOnlyAfterSuccess
<1>1. CaseInit => JudgeInv
  BY CaseAssumption DEF CaseAssumption, CaseInit, Init, JudgeInv, Verdicts
<1>2. CaseInv /\ JudgeInv /\ [CaseNext]_caseVars => JudgeInv'
  <2> SUFFICES ASSUME CaseInv, JudgeInv, [CaseNext]_caseVars PROVE JudgeInv'
    OBVIOUS
  <2>1. ASSUME UNCHANGED <<how, results, skipped, outcome>> PROVE JudgeInv'
    BY <2>1 DEF JudgeInv
  <2>2. ASSUME ContextEnds \/ Classify \/ UNCHANGED caseVars PROVE JudgeInv'
    BY <2>1, <2>2 DEF ContextEnds, CallerEnds, Classify, schedulerVars, caseVars, vars
  <2> QED BY <2>2, JudgeInvRunStep, JudgeInvOpStep DEF CaseNext, CaseDone
<1>3. CaseInv /\ JudgeInv => JudgeOnlyAfterSuccess
  BY JudgeRestsOnSuccess
<1> QED BY <1>1, <1>2, <1>3, CaseInvariant, PTL DEF CaseSpec
=============================================================================
