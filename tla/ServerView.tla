------------------------------ MODULE ServerView ------------------------------
(***************************************************************************)
(* The server of a release attempt as the gate knows it, a value:          *)
(* "none", "up", "crashed" (gone, and not yet reaped), "reaped", or        *)
(* "stray": of a start that failed, killed, not known to be gone, and      *)
(* held by nobody, because StartLocalOpenViking returned nil.              *)
(***************************************************************************)

(* It may be gone at any moment; and with the context ended an exit counts *)
(* as wanted, and is never noticed.                                        *)
GoesDown(s, t) == \/ s = "up" /\ t = "crashed"
                  \/ s = "stray" /\ t = "none"
IsNoticed(s, ctxDone, t) == s = "crashed" /\ ~ctxDone /\ t = "reaped"

(* UnexpectedExit.                                                         *)
Unexpected(s) == s = "reaped"

(* What a start that failed may leave.                                     *)
LeftBehind == {"none", "stray"}

(* Stop; with nothing to stop, or a server that is reaped, it cannot fail. *)
StopMayReturn(s, ok) == s \in LeftBehind \cup {"reaped"} => ok
AfterStopOf(s, ok) == IF ok /\ s # "stray" THEN "none" ELSE s
=============================================================================
