------------------------------ MODULE CaseRunner ------------------------------
(***************************************************************************)
(* One test case: RunCaseContext (runner/runner.go) around Executor.Run,   *)
(* and the gate policy every operator of the library goes through          *)
(* (ops/base.go, opCore.ProcessContext).                                   *)
(*                                                                         *)
(* The steps of the executor are those of DagExecutor.  Here an operator's *)
(* call has a cause (`how`): a plain output or a verdict, a tripped gate,  *)
(* a configuration error, a judge that could not judge, another error or   *)
(* panic, an output that lacks a declared key, or an error that only says  *)
(* that the context has ended.  The gate policy turns the cause into what  *)
(* the executor receives; the classification turns what the executor       *)
(* returned into a status.  A case whose workflow is rejected before it    *)
(* runs is left out: NewExecutor and checkTerminalJudge appear as the      *)
(* assumptions on the workflow.                                            *)
(***************************************************************************)
EXTENDS DagExecutor

CONSTANTS
  Gate,         \* the one terminal node: a judge or a terminal check
  Critical,     \* nodes whose gates can never be softened
  GateConfig,   \* GateConfig[n]: "hard", "soft", or "unset"
  Observe,      \* OVTEST_GATE_MODE=observe
  Claimants,    \* nodes whose plain output carries a cleanup claim
  Plain,        \* an ordinary output, from the Gate one without a verdict
  Softened,     \* {gate_failed: ...} with nil for every declared output
  Passing,      \* the Gate's verdict with pass true
  Failing       \* the Gate's verdict with pass false

Verdicts == {Passing, Failing}
Breakdowns == {"gate", "config", "judge", "broken", "incomplete", "aborted"}

ASSUME CaseAssumption ==
  /\ Gate \in Critical /\ Critical \subseteq Nodes
  /\ Successors(Gate) = {}
  /\ GateConfig \in [Nodes -> {"hard", "soft", "unset"}]
  /\ Observe \in BOOLEAN
  /\ Claimants \subseteq Nodes
  /\ {Plain, Softened, Passing, Failing} \subseteq Values
  /\ Softened \notin {Plain, Passing, Failing, Nil} /\ Passing # Failing
  /\ Plain \notin {Passing, Failing, Nil} /\ Nil \notin Verdicts
  /\ Values \cap ({"none"} \cup Breakdowns) = {}

VARIABLES
  how,        \* how each operator call ended, "none" before that
  ended,      \* why the case's context has ended: "no", "deadline", "canceled"
  status,     \* the status of the result, "none" until it is classified
  evidence    \* whose cleanup claims and soft failures the result carries

caseVars == <<vars, how, ended, status, evidence>>

CaseInit ==
  /\ Init
  /\ how = [n \in Nodes |-> "none"]
  /\ ended \in IF callerDone THEN {"deadline", "canceled"} ELSE {"no"}
  /\ status = "none"
  /\ evidence = [claims |-> {}, soft |-> {}]
-----------------------------------------------------------------------------
(* gateMode.                                                               *)
GateMode(n) ==
  IF n \in Critical THEN "hard"
  ELSE IF GateConfig[n] # "unset" THEN GateConfig[n]
  ELSE IF Observe THEN "soft" ELSE "hard"

(* What exec can return for node n.  A command that is killed because the  *)
(* context has ended is a gate failure; only poll returns the context's    *)
(* own error, and a terminal check never polls.                            *)
Endings(n) ==
  IF n = Gate THEN Verdicts \cup {Plain} \cup (Breakdowns \ {"aborted"})
  ELSE {Plain} \cup (Breakdowns \ {"judge"})

(* ProcessContext: only a gate failure that is not a configuration error   *)
(* is softened, and only in soft mode.                                     *)
HandedOver(n, h) ==
  IF h = "gate" /\ GateMode(n) = "soft" THEN Softened
  ELSE IF h \in Breakdowns \ ErrorOutcomes THEN "failed"
  ELSE h

OpReturns(n) ==
  /\ \E h \in Endings(n) :
       /\ how' = [how EXCEPT ![n] = h]
       /\ outcome' = [outcome EXCEPT ![n] = HandedOver(n, h)]
  /\ Finish(n)
  /\ UNCHANGED <<ended, status, evidence>>

OpStarts(n) ==
  /\ Enter(n)
  /\ how' = IF proc'[n] = "sending" THEN [how EXCEPT ![n] = "aborted"] ELSE how
  /\ UNCHANGED <<ended, status, evidence>>

RunStep ==
  /\ Scheduler
  /\ UNCHANGED <<how, ended, status, evidence>>

(* The case's deadline passes or its caller cancels, during Run or in the  *)
(* moment between its return and the classification.                       *)
ContextEnds ==
  /\ ended = "no" /\ status = "none"
  /\ ended' \in {"deadline", "canceled"}
  /\ CallerEnds \/ (returned # "no" /\ UNCHANGED vars)
  /\ UNCHANGED <<how, status, evidence>>
-----------------------------------------------------------------------------
(* What the classification reads from the trace.                           *)
TraceOutput(n) == trace[n] \in {"output", "skipped"}
OutputOf(n) == IF trace[n] = "skipped" THEN Nil ELSE outcome[n]

(* A skipped Gate, or one without a verdict, gives none.                   *)
CaseVerdict == IF TraceOutput(Gate) /\ OutputOf(Gate) \in Verdicts THEN OutputOf(Gate) ELSE Nil

SoftFailures == {n \in Nodes : TraceOutput(n) /\ OutputOf(n) = Softened}

(* cleanupClaims and softFailures look at every node of the trace.  The    *)
(* slip looks at the results, which a drained node never reaches.          *)
EvidenceOfResults ==
  [claims |-> {n \in Claimants : results[n] = Plain},
   soft |-> {n \in Nodes : results[n] = Softened}]

Evidence ==
  [claims |-> {n \in Claimants : trace[n] = "output" /\ OutputOf(n) = Plain},
   soft |-> SoftFailures]

ErrorStatus ==
  IF ended = "deadline" THEN "timed_out"
  ELSE IF returned = "node error" /\ how[firstErr] = "judge" THEN "judge_failed"
  ELSE IF returned = "node error" /\ how[firstErr] \in {"gate", "config"}
    THEN "deterministic_check_failed"
  ELSE "execution_failed"

VerdictStatus ==
  IF CaseVerdict = Nil THEN "judge_failed"
  ELSE IF CaseVerdict = Failing THEN "semantic_failed"
  ELSE IF SoftFailures # {} THEN "soft_gate_failed"
  ELSE "pass"

(* The slip forgets that a run can fail after the verdict is in.           *)
CaseStatusByVerdict == IF CaseVerdict # Nil THEN VerdictStatus ELSE ErrorStatus
CaseStatus == IF returned = "ok" THEN VerdictStatus ELSE ErrorStatus

Classify ==
  /\ returned # "no" /\ status = "none"
  /\ status' = CaseStatus
  /\ evidence' = Evidence
  /\ UNCHANGED <<vars, how, ended>>

CaseDone == status # "none" /\ UNCHANGED caseVars

CaseNext ==
  \/ RunStep
  \/ \E n \in Nodes : OpStarts(n) \/ OpReturns(n)
  \/ ContextEnds
  \/ Classify
  \/ CaseDone

(* As for the executor; the classification is straight-line code.          *)
CaseFairness ==
  /\ WF_caseVars(RunStep)
  /\ \A n \in Nodes : WF_caseVars(OpStarts(n) \/ OpReturns(n))
  /\ WF_caseVars(Classify)

CaseSpec == CaseInit /\ [][CaseNext]_caseVars /\ CaseFairness
=============================================================================
