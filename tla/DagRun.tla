------------------------------- MODULE DagRun -------------------------------
(***************************************************************************)
(* What running a workflow promises its caller, without queue, channel or  *)
(* goroutines: the doc comment of Executor.Run as a specification.  A node *)
(* is started or skipped only when everything it depends on is settled and *)
(* nothing has gone wrong, at most Concurrency nodes run at a time, and    *)
(* the run returns once, when nothing runs any more, with a verdict that   *)
(* what happened justifies.                                                *)
(***************************************************************************)
EXTENDS Workflow

CONSTANT Concurrency

VARIABLES
  status,   \* "pending", "running", "completed", "skipped" or "failed"
  ended,    \* the caller's context has ended
  verdict   \* what the caller got back, "no" until then

Failed == \E n \in Nodes : status[n] = "failed"
Running == {n \in Nodes : status[n] = "running"}
Done(n) == status[n] \in {"completed", "skipped"}

DInit ==
  /\ status = [n \in Nodes |-> "pending"]
  /\ ended \in BOOLEAN
  /\ verdict = "no"

(* A node leaves "pending" in one of two ways, both closed after a failure.*)
Runnable(n) ==
  /\ verdict = "no" /\ ~Failed /\ ~ended
  /\ status[n] = "pending"
  /\ \A d \in Dependencies[n] : Done(d)

Start(n) ==
  /\ Runnable(n)
  /\ Cardinality(Running) < Concurrency
  /\ status' = [status EXCEPT ![n] = "running"]
  /\ UNCHANGED <<ended, verdict>>

Skip(n) ==
  /\ Runnable(n)
  /\ Conditions[n] # {}
  /\ status' = [status EXCEPT ![n] = "skipped"]
  /\ UNCHANGED <<ended, verdict>>

(* A running node always gets its entry, after a failure too.              *)
End(n) ==
  /\ verdict = "no"
  /\ status[n] = "running"
  /\ \E how \in {"completed", "failed"} : status' = [status EXCEPT ![n] = how]
  /\ UNCHANGED <<ended, verdict>>

Expire ==
  /\ verdict = "no" /\ ~ended
  /\ ended' = TRUE
  /\ UNCHANGED <<status, verdict>>

Deliver ==
  /\ verdict = "no"
  /\ Running = {}
  /\ \/ Failed /\ verdict' = "node error"
     \/ ~Failed /\ ended /\ verdict' = "context error"
     \/ ~Failed /\ ~ended /\ (\A n \in Nodes : Done(n)) /\ verdict' = "ok"
  /\ UNCHANGED <<status, ended>>

DNext == (\E n \in Nodes : Start(n) \/ Skip(n) \/ End(n)) \/ Expire \/ Deliver

dvars == <<status, ended, verdict>>

DSpec == DInit /\ [][DNext]_dvars /\ WF_dvars(Deliver)
=============================================================================
