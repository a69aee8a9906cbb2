----------------------------- MODULE LocalRunProps -----------------------------
(***************************************************************************)
(* What the exit code of a local run stands for, what its preflight        *)
(* promises to the cases, and when the server's keys go.                   *)
(***************************************************************************)
EXTENDS LocalRun

(* Exit code 0 of a run is earned: every selected run passed; with --out   *)
(* each has a row that a report can read, but for a first one that joined  *)
(* what an earlier run had left unfinished, which the report counts as     *)
(* corrupt; and with the API cleanup each target is gone, however often it *)
(* conflicted, but for those of whose wait or delete the output said "not  *)
(* found" or "404", and not every one of them was passed over by its wait. *)
ExitEarned ==
  command = "run" /\ exit = "success" =>
    /\ ~request.unknown /\ passed = request.runs
    /\ request.record => \/ readable = passed
                         \/ oldTail # "line" /\ readable + 1 = passed /\ corrupt
    /\ request.cleanup # "off" /\ passed > 0 =>
         /\ request.cleanup = "targets"
         /\ present \subseteq skipped \cup misread /\ skipped # Targets

(* When a preflight lets the cases begin because the server accepted the   *)
(* key, or because it repaired it, ovcli.conf really is whole and has the  *)
(* key the server accepts; and a repair has left ovcli.conf.root, where    *)
(* there is one, with the same key and with the administrator's.           *)
PreflightRight ==
  pc = "cases" /\ preflight \in {"accepted", "repaired"} =>
    /\ conf["user"].kind = "whole" /\ conf["user"].key = key /\ key # 0
    /\ preflight = "repaired" =>
         conf["root"].kind = "absent" \/ conf["root"] = [kind |-> "whole", key |-> key, admin |-> TRUE]

(* The key that an account has is lost only for a reason: the developer    *)
(* asked for a new one; the server rejects the key that a run has, or its  *)
(* `ov status` failed with a text that reads like it; or a reset removes   *)
(* the workspace.  That reset has seen the server of a loopback endpoint   *)
(* stopped, which was started since, if at all; any other endpoint, or     *)
(* none, it never looked at.  (Both leave room for the removal of a        *)
(* workspace in use, which Reset's comment excludes.)                      *)
KeyLostForReason ==
  [][key # 0 /\ key' # key =>
       \/ command = "bootstrap"
       \/ command = "run" /\ (KeyRejected \/ preflight = "misread")
       \/ command = "reset" /\ (Probed => server = "down" \/ late)]_localVars
===============================================================================
