--------------------------- MODULE CaseRunnerProps ---------------------------
(* What the status and the evidence of a case have to mean, stated over    *)
(* module CaseRunner.                                                      *)
EXTENDS CaseRunner, DagExecutorProps

Statuses == {"none", "pass", "soft_gate_failed", "semantic_failed", "judge_failed",
             "deterministic_check_failed", "execution_failed", "timed_out"}

(* A gate that the gate policy lets pass as recorded evidence.             *)
Wobble(n) == how[n] = "gate" /\ GateMode(n) = "soft"

(* A status that reports a verdict hides nothing: every node settled, each *)
(* breakdown of an operator was a gate that may be softened, never a       *)
(* configuration error or a critical gate, and "pass" had not even those.  *)
NothingHidden ==
  status \in {"pass", "soft_gate_failed", "semantic_failed"} =>
    /\ Settled = Nodes
    /\ outcome[Gate] = IF status = "semantic_failed" THEN Failing ELSE Passing
    /\ \A n \in Nodes : how[n] \in Breakdowns => Wobble(n) /\ status # "pass"

(* Whatever the status, no cleanup claim and no soft failure of a finished *)
(* operator is lost, those drained after the first error included.         *)
EvidenceKept ==
  status # "none" =>
    /\ evidence.claims = {n \in Claimants : how[n] = Plain}
    /\ evidence.soft = {n \in Nodes : Wobble(n)}

(* The terminal gate never gives a verdict on a run in which something it  *)
(* was wired to broke: each such node finished, was softened or skipped.   *)
JudgeOnlyAfterSuccess ==
  how[Gate] \in Verdicts =>
    \A n \in Dependencies[Gate] : n \in skipped \/ how[n] = Plain \/ Wobble(n)

=============================================================================
