-------------------------- MODULE DagExecutorProps --------------------------
(* What Executor.Run has to guarantee, stated over module DagExecutor.     *)
EXTENDS DagExecutor

(* Type invariant.                                                         *)
TypeOK ==
  /\ pc \in {"launch", "wait", "exit", "returned"}
  /\ ready \in Seq(Nodes)
  /\ indegree \in [Nodes -> Int]
  /\ results \in [Nodes -> Values \cup {Nil, Absent}]
  /\ skipped \in SUBSET Nodes
  /\ trace \in [Nodes -> {"none", "skipped", "output", "error"}]
  /\ inFlight \in Int
  /\ completed \in Int
  /\ firstErr \in Nodes \cup {None}
  /\ callerDone \in BOOLEAN
  /\ cancelled \in BOOLEAN
  /\ proc \in [Nodes -> {"idle", "started", "running", "sending", "gone"}]
  /\ outcome \in [Nodes -> Outcomes \cup {Absent}]
  /\ returned \in {"no", "ok", "node error", "context error", "deadlock"}

(* Timing never shows in the data: what a node was given, and whether it   *)
(* ran, is what the results recorded by now would still give it.  It fails *)
(* as soon as something a node reads is missing from its dependencies.     *)
InputsFinal ==
  \A n \in Nodes : proc[n] # "idle" => input[n] = ResolveInputs(n)

DecisionsFinal ==
  \A n \in Nodes :
    /\ n \in skipped => ~ConditionHolds(n)
    /\ proc[n] # "idle" => ConditionHolds(n)

(* Never more operators in flight than the cap, whatever is skipped or     *)
(* drained in between.                                                     *)
ConcurrencyBound == Cardinality(InFlightNodes) <= Concurrency

(* The blamed node failed by itself: an error that the run's own cancel()  *)
(* caused in another node never becomes the run's error.                   *)
RootCause ==
  firstErr # None /\ ~callerDone => outcome[firstErr] # "aborted"

(* After Run returns, no goroutine is left behind on the channel, and the  *)
(* trace has every node that ran or was skipped, and no other.             *)
NothingLeftBehind ==
  returned # "no" =>
    \A n \in Nodes :
      /\ n \notin InFlightNodes
      /\ (trace[n] \in {"output", "error"}) <=> (proc[n] = "gone")
      /\ (trace[n] = "skipped") <=> (n \in skipped)

(* The verdict is right: no error hides a failed node, the success of a    *)
(* run means every node settled, and the internal "deadlock" error is      *)
(* never seen on a graph that passed the cycle check.                      *)
VerdictJustified ==
  /\ returned # "deadlock"
  /\ returned = "ok" => Settled = Nodes
  /\ returned \in {"ok", "context error"} => \A n \in Nodes : trace[n] # "error"

(* Fail fast: once an error is recorded or the context has ended, no node  *)
(* is launched, skipped or settled by being skipped.                       *)
FailFast ==
  [][firstErr # None \/ CtxDone =>
       /\ skipped' = skipped
       /\ \A n \in Nodes : proc[n] = "idle" => proc'[n] = "idle"]_vars

(* Run always returns.                                                     *)
Termination == <>(returned # "no")

(* With no failing node and a caller that waits, every node settles.       *)
EveryNodeSettles ==
  <>(firstErr # None \/ callerDone \/ Settled = Nodes)

(* Run implements the abstract run.                                        *)
Status ==
  [n \in Nodes |->
     IF n \in InFlightNodes THEN "running"
     ELSE IF trace[n] = "skipped" THEN "skipped"
     ELSE IF trace[n] = "output" THEN "completed"
     ELSE IF trace[n] = "error" THEN "failed"
     ELSE "pending"]

Abstract == INSTANCE DagRun WITH status <- Status, ended <- callerDone, verdict <- returned

ImplementsDagRun == Abstract!DSpec
=============================================================================
