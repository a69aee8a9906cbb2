---------------------------- MODULE AttemptServer ----------------------------
(***************************************************************************)
(* What a release attempt sees of its local server: it comes up or it does *)
(* not, it may be gone at any moment, that is noticed once it is reaped    *)
(* while nobody wants its end, and Stop says whether it is certainly gone. *)
(* Module ManagedService is the detailed account; module ReleaseRun is     *)
(* written with the operators of module ServerView, as this one is.        *)
(***************************************************************************)
EXTENDS ServerView

VARIABLES
  phase,    \* "setup", "cases", "over", and "returned"
  view,     \* the server as ReleaseRun knows it
  ended,    \* the context of the run has ended
  alarm,    \* the last look found an unexpected exit
  stopErr   \* Stop returned an error

asVars == <<phase, view, ended, alarm, stopErr>>

AsInit ==
  /\ phase = "setup" /\ view = "none" /\ ended \in BOOLEAN
  /\ alarm = FALSE /\ stopErr = FALSE

ContextEnds ==
  /\ ~ended /\ ended' = TRUE
  /\ UNCHANGED <<phase, view, alarm, stopErr>>

ComesUp ==
  /\ phase = "setup" /\ ~ended
  /\ phase' = "cases" /\ view' = "up"
  /\ UNCHANGED <<ended, alarm, stopErr>>

StaysDown ==
  /\ phase = "setup"
  /\ phase' = "returned" /\ view' \in LeftBehind
  /\ UNCHANGED <<ended, alarm, stopErr>>

Goes == GoesDown(view, view') /\ UNCHANGED <<phase, ended, alarm, stopErr>>

IsReaped == IsNoticed(view, ended, view') /\ UNCHANGED <<phase, ended, alarm, stopErr>>

(* The look after a case: the alarm is raised exactly for an exit that is  *)
(* reaped, and ends the attempt.                                           *)
Look ==
  /\ phase = "cases"
  /\ alarm' = Unexpected(view)
  /\ phase' \in IF Unexpected(view) THEN {"over"} ELSE {"cases", "over"}
  /\ UNCHANGED <<view, ended, stopErr>>

Leaves ==
  /\ phase = "cases" /\ phase' = "over"
  /\ UNCHANGED <<view, ended, alarm, stopErr>>

Stops ==
  /\ phase = "over" /\ phase' = "returned"
  /\ \E ok \in BOOLEAN :
       StopMayReturn(view, ok) /\ view' = AfterStopOf(view, ok) /\ stopErr' = ~ok
  /\ UNCHANGED <<ended, alarm>>

AsNext ==
  ContextEnds \/ ComesUp \/ StaysDown \/ Goes \/ IsReaped \/ Look \/ Leaves \/ Stops

AsSpec == AsInit /\ [][AsNext]_asVars
=============================================================================
