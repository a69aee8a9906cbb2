-------------------------- MODULE SessionCommitProps --------------------------
(* What a case that waits for a commit relies on, over SessionCommit.      *)
EXTENDS SessionCommit

(* What is accepted as committed is finished: the operator ends well only  *)
(* on enough memories of completed tasks of its own session, and it claims *)
(* exactly those.                                                          *)
Finished(tasks) == \A t \in tasks : t \in 1 .. listed /\ task[t] = "completed"

CommitAccounted ==
  at = "ok" =>
    IF op = "ready" THEN Extracted(1 .. listed) >= MinExtracted /\ counted >= MinCommits
    ELSE Finished(claims) /\ claims # {} /\ Extracted(claims) >= MinExtracted

(* No commit that the session counts when it is read goes unnoticed: its   *)
(* memories are among those that will be claimed, and those of no other.   *)
NoCommitMissed ==
  [][at = "get" /\ op = "plugin" /\ at' = "diff" => payloads = 1 .. counted]_scVars

(* Before its last attempt the operator gives up only for what time does   *)
(* not heal: an answer it cannot use, a failed task of its own session, or *)
(* too few memories when all that was committed is extracted.              *)
Hopeless ==
  \/ flaw'
  \/ \E t \in 1 .. listed : task[t] = "failed"
  \/ Finished(1 .. counted) /\ Extracted(1 .. counted) < MinExtracted

NoHastyRefusal ==
  [][at # "error" /\ at' = "error" /\ attempt < Retry => Hopeless]_scVars

(* The operator ends, and with a decision of its own: the last attempt     *)
(* never leaves the loop with nothing to return.                           *)
PollEnds == <>(at \in Ended \ {"exhausted"})
=============================================================================
