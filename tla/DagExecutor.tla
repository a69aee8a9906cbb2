----------------------------- MODULE DagExecutor -----------------------------
(***************************************************************************)
(* Executor.Run (dag/executor.go): one scheduler goroutine that launches   *)
(* ready nodes first-in first-out up to a concurrency cap, one goroutine   *)
(* per running node that hands its outcome back over an unbuffered         *)
(* channel, and a caller whose context may end at any moment.              *)
(*                                                                         *)
(* The scheduler is `pc`: "launch" is the inner launch loop, "wait" the    *)
(* receive on doneCh, "exit" the code after the outer loop.  `proc` is the *)
(* node goroutines: "started" before safeProcess has looked at the         *)
(* context, "running" inside the operator, "sending" blocked on doneCh.    *)
(***************************************************************************)
EXTENDS Workflow

CONSTANTS
  Concurrency,  \* WithConcurrency; 32 unless set
  None          \* no error recorded yet

(* How an operator call can end: an output map, one without a declared     *)
(* output, its own error or a recovered panic, or an error that only says  *)
(* that the context has ended.                                             *)
ErrorOutcomes == {"incomplete", "failed", "aborted"}
Outcomes == Values \cup ErrorOutcomes

ASSUME ExecutorAssumption ==
  /\ Concurrency \in Nat \ {0}
  /\ None \notin Nodes
  /\ ErrorOutcomes \cap (Values \cup {Absent}) = {}

VARIABLES
  pc,          \* where the scheduler is
  ready,       \* nodes whose dependencies are all settled, in arrival order
  indegree,    \* unsettled dependencies of each node
  results,     \* recorded outputs; Absent = no entry in the map
  skipped,     \* nodes whose condition was false
  trace,       \* what the returned trace says of each node
  input,       \* the input map each launched node was given
  inFlight,    \* launched and not yet received
  completed,   \* nodes counted as done
  firstErr,    \* the node firstErr names, or None
  callerDone,  \* the caller's context has ended
  cancelled,   \* Run called cancel() on its own child context
  proc,        \* state of each node's goroutine
  outcome,     \* what the goroutine hands over
  returned     \* what Run returned, "no" until then

vars == <<pc, ready, indegree, results, skipped, trace, input, inFlight, completed,
          firstErr, callerDone, cancelled, proc, outcome, returned>>

schedulerVars == <<pc, ready, indegree, results, skipped, trace, input, inFlight,
                   completed, firstErr, cancelled, returned>>

CtxDone == callerDone \/ cancelled

Settled == {n \in Nodes : results[n] # Absent}
InFlightNodes == {n \in Nodes : proc[n] \in {"started", "running", "sending"}}
-----------------------------------------------------------------------------
Seen(ref) ==
  [p \in Producers(ref) |-> IF p \in skipped THEN Absent ELSE results[p]]

ConditionHolds(n) ==
  \A lit \in Conditions[n] : Truthy(lit.ref, Seen(lit.ref)) = lit.want

ResolveInputs(n) == [r \in Inputs[n] |-> Resolve(r, Seen(r))]

Roots == {n \in Nodes : Dependencies[n] = {}}

Init ==
  /\ pc = "launch"
  /\ ready \in InOrder(Roots)
  /\ indegree = [n \in Nodes |-> Cardinality(Dependencies[n])]
  /\ results = [n \in Nodes |-> Absent]
  /\ skipped = {}
  /\ trace = [n \in Nodes |-> "none"]
  /\ input = [n \in Nodes |-> Absent]
  /\ inFlight = 0
  /\ completed = 0
  /\ firstErr = None
  /\ callerDone \in BOOLEAN
  /\ cancelled = FALSE
  /\ proc = [n \in Nodes |-> "idle"]
  /\ outcome = [n \in Nodes |-> Absent]
  /\ returned = "no"

(* The successors of n whose last unsettled dependency is n.  The slips    *)
(* release a successor with its first dependency, or forget to release     *)
(* anything when n is skipped.                                             *)
FreedEarly(n) == {s \in Successors(n) : indegree[s] >= 1}
FreedUnlessSkipped(n) ==
  {s \in Successors(n) : indegree[s] = 1 /\ n \notin skipped'}
Freed(n) == {s \in Successors(n) : indegree[s] = 1}

(* addSuccessors(n), when `rest` is what remains of the ready queue.       *)
AddSuccessors(n, rest) ==
  /\ indegree' = [s \in Nodes |-> IF s \in Successors(n) THEN indegree[s] - 1
                                  ELSE indegree[s]]
  /\ \E q \in InOrder(Freed(n)) : ready' = rest \o q

MayLaunch == ready # <<>> /\ firstErr = None /\ ~CtxDone

(* The slip is off by one.                                                 *)
SlotFreeInclusive == inFlight <= Concurrency
SlotFree == inFlight < Concurrency

(* The head of the queue is conditional and its condition is false: it     *)
(* settles without a goroutine, even when the cap is reached.              *)
SkipHead ==
  LET n == Head(ready) IN
  /\ pc = "launch" /\ MayLaunch
  /\ ~ConditionHolds(n)
  /\ results' = [results EXCEPT ![n] = Nil]
  /\ skipped' = skipped \cup {n}
  /\ trace' = [trace EXCEPT ![n] = "skipped"]
  /\ completed' = completed + 1
  /\ AddSuccessors(n, Tail(ready))
  /\ UNCHANGED <<pc, input, inFlight, firstErr, callerDone, cancelled, proc, outcome, returned>>

LaunchHead ==
  LET n == Head(ready) IN
  /\ pc = "launch" /\ MayLaunch
  /\ ConditionHolds(n)
  /\ SlotFree
  /\ ready' = Tail(ready)
  /\ input' = [input EXCEPT ![n] = ResolveInputs(n)]
  /\ inFlight' = inFlight + 1
  /\ proc' = [proc EXCEPT ![n] = "started"]
  /\ UNCHANGED <<pc, indegree, results, skipped, trace, completed, firstErr, callerDone,
                 cancelled, outcome, returned>>

(* With nothing in flight the outer loop ends.  The slip also ends it at   *)
(* the first error, with nodes still running.                              *)
AfterLaunchLoopNoDrain == IF inFlight = 0 \/ firstErr # None THEN "exit" ELSE "wait"
AfterLaunchLoop == IF inFlight = 0 THEN "exit" ELSE "wait"

(* The launch loop ends: nothing may start, or the head has to wait for a  *)
(* free slot.                                                              *)
LeaveLaunchLoop ==
  /\ pc = "launch"
  /\ MayLaunch => ConditionHolds(Head(ready)) /\ ~SlotFree
  /\ pc' = AfterLaunchLoop
  /\ UNCHANGED <<ready, indegree, results, skipped, trace, input, inFlight, completed,
                 firstErr, callerDone, cancelled, proc, outcome, returned>>

(* The operator gave no error and every declared output (validateOutputs). *)
ValidOutput(n) == outcome[n] \in Values

(* The first error received stays; the slip reports the last one.          *)
BlameLast(n) == n
Blame(n) == IF firstErr = None THEN n ELSE firstErr

(* The rendezvous on doneCh, and what the loop body does with the message. *)
ReceiveError(n) ==
  /\ ~ValidOutput(n)
  /\ firstErr' = Blame(n)
  /\ cancelled' = TRUE
  /\ trace' = [trace EXCEPT ![n] = "error"]
  /\ UNCHANGED <<ready, indegree, results, completed>>

ReceiveOutput(n) ==
  /\ ValidOutput(n)
  /\ trace' = [trace EXCEPT ![n] = "output"]
  /\ UNCHANGED <<firstErr, cancelled>>
  /\ \/ /\ firstErr # None
        /\ UNCHANGED <<ready, indegree, results, completed>>
     \/ /\ firstErr = None
        /\ results' = [results EXCEPT ![n] = outcome[n]]
        /\ completed' = completed + 1
        /\ AddSuccessors(n, ready)

Receive(n) ==
  /\ pc = "wait"
  /\ proc[n] = "sending"
  /\ proc' = [proc EXCEPT ![n] = "gone"]
  /\ inFlight' = inFlight - 1
  /\ pc' = "launch"
  /\ UNCHANGED <<skipped, input, callerDone, outcome, returned>>
  /\ ReceiveError(n) \/ ReceiveOutput(n)

(* What Run returns.  The slip looks at the context first.                 *)
VerdictContextFirst ==
  IF CtxDone THEN "context error"
  ELSE IF firstErr # None THEN "node error"
  ELSE IF completed < Cardinality(Nodes) THEN "deadlock"
  ELSE "ok"

Verdict ==
  IF firstErr # None THEN "node error"
  ELSE IF CtxDone THEN "context error"
  ELSE IF completed < Cardinality(Nodes) THEN "deadlock"
  ELSE "ok"

Return ==
  /\ pc = "exit"
  /\ pc' = "returned"
  /\ returned' = Verdict
  /\ cancelled' = TRUE
  /\ UNCHANGED <<ready, indegree, results, skipped, trace, input, inFlight, completed,
                 firstErr, callerDone, proc, outcome>>

Scheduler == SkipHead \/ LaunchHead \/ LeaveLaunchLoop \/ Return \/ \E n \in Nodes : Receive(n)
-----------------------------------------------------------------------------
(* safeProcess looks at the context once before it calls the operator.     *)
(* The slip gives up without telling the scheduler.                        *)
EnterOrVanish(n) ==
  /\ proc[n] = "started"
  /\ proc' = [proc EXCEPT ![n] = IF CtxDone THEN "gone" ELSE "running"]
  /\ UNCHANGED <<schedulerVars, callerDone, outcome>>

Enter(n) ==
  /\ proc[n] = "started"
  /\ \/ /\ CtxDone
        /\ outcome' = [outcome EXCEPT ![n] = "aborted"]
        /\ proc' = [proc EXCEPT ![n] = "sending"]
     \/ /\ ~CtxDone
        /\ proc' = [proc EXCEPT ![n] = "running"]
        /\ UNCHANGED outcome
  /\ UNCHANGED <<schedulerVars, callerDone>>

(* The operator returns.  Only an operator that watches the context can    *)
(* see that it has ended, and it may still return an output then.          *)
Finish(n) ==
  /\ proc[n] = "running"
  /\ \E o \in Outcomes :
       /\ o = "aborted" => CtxDone
       /\ outcome' = [outcome EXCEPT ![n] = o]
  /\ proc' = [proc EXCEPT ![n] = "sending"]
  /\ UNCHANGED <<schedulerVars, callerDone>>

(* The caller's deadline passes or the caller cancels.                     *)
CallerEnds ==
  /\ ~callerDone /\ returned = "no"
  /\ callerDone' = TRUE
  /\ UNCHANGED <<schedulerVars, proc, outcome>>

Terminated == returned # "no" /\ UNCHANGED vars

Next ==
  \/ Scheduler
  \/ \E n \in Nodes : Enter(n) \/ Finish(n)
  \/ CallerEnds
  \/ Terminated

(* The Go scheduler runs every goroutine that can run, and every operator  *)
(* of the library bounds its own work, so each call returns.               *)
Fairness ==
  /\ WF_vars(Scheduler)
  /\ \A n \in Nodes : WF_vars(Enter(n) \/ Finish(n))

Spec == Init /\ [][Next]_vars /\ Fairness
=============================================================================
