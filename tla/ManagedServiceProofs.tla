------------------------- MODULE ManagedServiceProofs -------------------------
(* Safety of the managed service, for any number of starts and cases.      *)
EXTENDS ManagedServiceProps, TLAPS

InStop == ctl \in {"stop", "terminating", "waiting", "killed"}

(* Who may have signalled the process: Stop, which says so first, or the   *)
(* end of the context, which the goroutine of cmd.Wait looks for.          *)
SignalExplained ==
  /\ signal # "none" => stopping \/ ctxDone
  /\ done /\ signal # "none" => stopping
  /\ ctl \in {"waiting", "killed"} => stopping

(* The exit of the process counts as wanted only after a Stop, or when the *)
(* context has ended.                                                      *)
StoppingExplained ==
  stopping => ctxDone \/ ctl \in {"waiting", "killed", "pick", "start", "stopped", "failed"}

(* No case begins after an exit that was reaped while the run goes on.     *)
CaseInTime == ctl \in {"running", "checking"} /\ known => ctxDone

(* What is known of the process at each place of the attempt.              *)
ProcessKnown ==
  /\ ctl \notin {"pick", "start", "failed"} => server # "none"
  /\ done => Dead
  /\ collided => Dead
  /\ ctl \in {"pick", "start"} => ~Alive
  /\ ctl = "killed" => (Alive => signal = "kill")

AlarmFinal == alarm => signal = "none" /\ done /\ purpose = "end" /\ ctl \in {"stop", "stopped"}

(* The final Stop, and only it, ends with an attempt that is "stopped".     *)
EndKnown ==
  /\ purpose = "end" => InStop \/ ctl = "stopped"
  /\ ctl = "stopped" => purpose = "end"
  /\ stopErr => ctl = "stopped"

SvcInv ==
  /\ SvcTypeOK
  /\ InStop => purpose # "none"
  /\ SignalExplained
  /\ StoppingExplained
  /\ CaseInTime
  /\ ProcessKnown
  /\ AlarmFinal
  /\ EndKnown
  /\ OwnServer
  /\ NoOrphan

LEMMA SvcInitially == ASSUME SvcInit PROVE SvcInv
<1>1. starts \in 0 .. MaxStarts - 1 /\ left \in 0 .. CaseCount
  BY ServiceAssumption, SMT DEF SvcInit
<1>2. SvcTypeOK BY <1>1, Zenon DEF SvcInit, SvcTypeOK
<1>3. (InStop => purpose # "none") /\ SignalExplained /\ StoppingExplained /\ CaseInTime /\ ProcessKnown
  BY DEF SvcInit, InStop, SignalExplained, StoppingExplained, CaseInTime, ProcessKnown, Alive, Dead
<1>4. AlarmFinal /\ EndKnown /\ OwnServer /\ NoOrphan
  BY DEF SvcInit, InStop, AlarmFinal, EndKnown, OwnServer, NoOrphan
<1> QED BY <1>2, <1>3, <1>4 DEF SvcInv

(* What StopReturns does, whoever calls it.                                *)
LEMMA StopReturnsKeeps ==
  ASSUME SvcInv, InStop, NEW failed \in BOOLEAN, StopReturns(failed),
         Alive => signal = "kill", ~failed => done, alarm => ctl = "stop"
  PROVE  SvcInv'
<1> USE ServiceAssumption
<1>1. CASE Retries
  BY <1>1 DEF Retries, StopReturns, environment, case, SvcInv, SvcTypeOK, InStop, SignalExplained,
     StoppingExplained, CaseInTime, ProcessKnown, AlarmFinal, EndKnown, OwnServer, NoOrphan, Alive, Dead
<1>2. CASE ~Retries
  BY <1>2 DEF StopReturns, environment, case, SvcInv, SvcTypeOK, InStop, SignalExplained,
     StoppingExplained, CaseInTime, ProcessKnown, AlarmFinal, EndKnown, OwnServer, NoOrphan, Alive, Dead
<1> QED BY <1>1, <1>2

LEMMA SvcStep == ASSUME SvcInv, [SvcNext]_svcVars PROVE SvcInv'
<1> USE ServiceAssumption
    DEF SvcInv, SvcTypeOK, InStop, SignalExplained, StoppingExplained, CaseInTime, ProcessKnown, AlarmFinal,
        EndKnown, OwnServer, NoOrphan, Alive, Dead, environment, case
<1>1. CASE PickPort BY <1>1 DEF PickPort
<1>2. CASE Start BY <1>2 DEF Start
<1>3. CASE StartFails BY <1>3 DEF StartFails, Fail
<1>4. CASE Probe BY <1>4 DEF Probe
<1>5. CASE StartupGivesUp BY <1>5 DEF StartupGivesUp, GoStop
<1>6. CASE Bootstrap BY <1>6 DEF Bootstrap, AcceptsRootKey, CaseBegins
<1>7. CASE BootstrapFails BY <1>7 DEF BootstrapFails, GoStop
<1>8. CASE AfterCase BY <1>8 DEF AfterCase, GoStop
<1>9. CASE CheckExit
  <2>1. CASE ExitReported BY <1>9, <2>1 DEF CheckExit, ExitReported, GoStop
  <2>2. CASE ~ExitReported /\ ctl' = "stop"
    BY <1>9, <2>2 DEF CheckExit, ExitReported, GoStop
  <2>3. CASE ~ExitReported /\ ctl' # "stop"
    <3>1. /\ ctl = "checking" /\ ctl' = "running" /\ alarm' = FALSE /\ (done => stopping)
          /\ met' = {} /\ known' = done
          /\ UNCHANGED <<environment, purpose, starts, left, stopErr, ctxDone>>
      BY <1>9, <2>3, Zenon DEF CheckExit, ExitReported, GoStop, CaseBegins
    <3> QED BY <3>1
  <2> QED BY <2>1, <2>2, <2>3
<1>10. CASE LeaveEarly BY <1>10 DEF LeaveEarly, GoStop
<1>11. CASE StopSeesDone BY <1>11, StopReturnsKeeps DEF StopSeesDone
<1>12. CASE StopTerminates BY <1>12 DEF StopTerminates
<1>13. CASE Terminate BY <1>13 DEF Terminate
<1>14. CASE StopWaits BY <1>14, StopReturnsKeeps DEF StopWaits
<1>15. CASE StopTimesOut BY <1>15 DEF StopTimesOut, SignalAtTimeout
<1>16. CASE StopAfterKill BY <1>16, StopReturnsKeeps DEF StopAfterKill
<1>17. CASE Bind
  <2>1. CASE port = "free" BY <1>17, <2>1 DEF Bind
  <2>2. CASE port # "free"
    <3>1. /\ server = "booting" /\ server' = "crashed" /\ collided' = TRUE
          /\ UNCHANGED <<ctl, purpose, starts, left, port, signal, done, stopping, case, alarm,
                         stopErr, ctxDone>>
      BY <1>17, <2>2, Zenon DEF Bind
    <3> QED BY <3>1
  <2> QED BY <2>1, <2>2
<1>18. CASE Exit BY <1>18 DEF Exit, ReleasePort
<1>19. CASE TakePort BY <1>19 DEF TakePort
<1>20. CASE ContextEnds BY <1>20 DEF ContextEnds
<1>21. CASE CommandCancel BY <1>21 DEF CommandCancel
<1>22. CASE Reap BY <1>22 DEF Reap, StoppingAtExit
<1>23. CASE Request BY <1>23 DEF Request
<1>24. CASE UNCHANGED svcVars BY <1>24 DEF svcVars
<1> QED
  BY <1>1, <1>2, <1>3, <1>4, <1>5, <1>6, <1>7, <1>8, <1>9, <1>10, <1>11, <1>12, <1>13, <1>14,
     <1>15, <1>16, <1>17, <1>18, <1>19, <1>20, <1>21, <1>22, <1>23, <1>24
  DEF SvcNext, Attempt, Starting, Stopping, SvcTerminated

(* The inductive invariant of the managed service.                         *)
THEOREM ServiceInvariant == SvcSpec => []SvcInv
<1>1. SvcInit => SvcInv BY SvcInitially
<1>2. SvcInv /\ [SvcNext]_svcVars => SvcInv' BY SvcStep
<1> QED BY <1>1, <1>2, PTL DEF SvcSpec

(* While the attempt's own server lives, it is what cases find at their    *)
(* address; only a case during which it went, or before which it had gone  *)
(* without being reaped yet, can be answered by another program.           *)
THEOREM RunsOnOwnServer == SvcSpec => []OwnServer
<1>1. SvcInv => OwnServer BY DEF SvcInv
<1> QED BY <1>1, ServiceInvariant, PTL

(* An unexpected exit is reported only of a process nobody signalled.      *)
THEOREM AlarmsAreTrue == SvcSpec => []NoFalseAlarm
<1>1. SvcInv => NoFalseAlarm BY DEF SvcInv, AlarmFinal, NoFalseAlarm
<1> QED BY <1>1, ServiceInvariant, PTL

(* A step away from the look at the server raises the alarm when the       *)
(* server had been reaped and nobody had wanted its end: only CheckExit    *)
(* leaves that place.                                                      *)
LEMMA LeavingTheCheck ==
  ASSUME SvcInv, [SvcNext]_svcVars, ctl = "checking", ctl' # "checking" PROVE CheckExit
BY DEF SvcNext, svcVars, Attempt, Starting, Stopping, SvcTerminated, PickPort, Start, StartFails,
   Probe, StartupGivesUp, Bootstrap, BootstrapFails, AfterCase, LeaveEarly, StopSeesDone,
   StopTerminates, Terminate, StopWaits, StopTimesOut, StopAfterKill, Bind, Exit, TakePort,
   ContextEnds, CommandCancel, Reap, Request

(* A crash that was reaped before the look after a case ends the attempt   *)
(* with an error, whatever the exit code.                                  *)
THEOREM CrashesAreNoticed == SvcSpec => CrashNoticed
<1>1. SvcInv /\ [SvcNext]_svcVars
        => [ctl = "checking" /\ ctl' # "checking" /\ done /\ signal = "none" /\ ~ctxDone
              => alarm']_svcVars
  <2> SUFFICES ASSUME SvcInv, [SvcNext]_svcVars, ctl = "checking", ctl' # "checking", done, ~ctxDone
               PROVE  alarm'
    OBVIOUS
  <2>1. CheckExit BY LeavingTheCheck
  <2>2. ~stopping BY DEF SvcInv, StoppingExplained
  <2> QED BY <2>1, <2>2 DEF CheckExit, ExitReported
<1> QED BY <1>1, ServiceInvariant, PTL DEF SvcSpec, CrashNoticed

(* No server is left alive without having been killed.                     *)
THEOREM NoneLeftAlive == SvcSpec => []NoOrphan
<1>1. SvcInv => NoOrphan BY DEF SvcInv
<1> QED BY <1>1, ServiceInvariant, PTL
-----------------------------------------------------------------------------
(* What of this a release attempt sees: module AttemptServer.  The server  *)
(* is shown while cases may use it, and after a Stop or a start that       *)
(* failed as long as it may still run.                                     *)
Phase ==
  IF ctl \in {"failed", "stopped"} THEN "returned"
  ELSE IF ctl \in {"running", "checking"} THEN "cases"
  ELSE IF purpose = "end" THEN "over"
  ELSE "setup"

Held == Phase \in {"cases", "over"} \/ (ctl = "stopped" /\ stopErr)
SeenReaped == done /\ ~stopping /\ ctl \in {"running", "checking", "stop"}

View ==
  IF ctl = "failed" THEN IF Alive THEN "stray" ELSE "none"
  ELSE IF ~Held THEN "none"
  ELSE IF Alive THEN "up"
  ELSE IF SeenReaped THEN "reaped"
  ELSE "crashed"

Ab == INSTANCE AttemptServer WITH phase <- Phase, view <- View, ended <- ctxDone

(* What the attempt cannot see.                                            *)
LEMMA AbSame == ASSUME Phase' = Phase, View' = View, ctxDone' = ctxDone, alarm' = alarm,
                       stopErr' = stopErr
                PROVE  [Ab!AsNext]_Ab!asVars
BY DEF Ab!asVars

LEMMA AbInitially == ASSUME SvcInit PROVE Ab!AsInit
BY DEF SvcInit, Ab!AsInit, Phase, View, Held

LEMMA AbStep == ASSUME SvcInv, [SvcNext]_svcVars PROVE [Ab!AsNext]_Ab!asVars
<1> USE DEF SvcInv, SvcTypeOK, InStop, ProcessKnown, EndKnown, Alive, Dead, environment,
            Phase, View, Held, SeenReaped
<1>1. CASE PickPort BY <1>1, AbSame DEF PickPort
<1>2. CASE Start BY <1>2, AbSame DEF Start
<1>3. CASE StartFails
  <2>1. Ab!StaysDown BY <1>3 DEF StartFails, Fail, Ab!StaysDown, Ab!LeftBehind
  <2> QED BY <2>1 DEF Ab!AsNext
<1>4. CASE Probe BY <1>4, AbSame DEF Probe
<1>5. CASE StartupGivesUp BY <1>5, AbSame DEF StartupGivesUp, GoStop
<1>6. CASE Bootstrap
  <2>1. Ab!ComesUp BY <1>6 DEF Bootstrap, AcceptsRootKey, Ab!ComesUp
  <2> QED BY <2>1 DEF Ab!AsNext
<1>7. CASE BootstrapFails BY <1>7, AbSame DEF BootstrapFails, GoStop
<1>8. CASE AfterCase
  <2>1. CASE ctxDone /\ GoStop("end")
    <3>1. Ab!Leaves BY <1>8, <2>1 DEF AfterCase, GoStop, Ab!Leaves
    <3> QED BY <3>1 DEF Ab!AsNext
  <2>2. CASE ~ctxDone /\ ctl' = "checking" /\ UNCHANGED purpose
    BY <1>8, <2>2, AbSame DEF AfterCase
  <2> QED BY <1>8, <2>1, <2>2 DEF AfterCase
<1>9. CASE CheckExit
  <2>1. Ab!Look BY <1>9 DEF CheckExit, ExitReported, GoStop, Ab!Look, Ab!Unexpected
  <2> QED BY <2>1 DEF Ab!AsNext
<1>10. CASE LeaveEarly
  <2>1. Ab!Leaves BY <1>10 DEF LeaveEarly, GoStop, Ab!Leaves
  <2> QED BY <2>1 DEF Ab!AsNext
<1>11. ASSUME InStop, NEW failed \in BOOLEAN, StopReturns(failed),
              failed => ctl = "killed"
       PROVE  [Ab!AsNext]_Ab!asVars
  <2>1. CASE Retries BY <1>11, <2>1, AbSame DEF StopReturns, Retries
  <2>2. CASE ~Retries /\ purpose # "end"
    <3>1. Ab!StaysDown BY <1>11, <2>2 DEF StopReturns, Ab!StaysDown, Ab!LeftBehind
    <3> QED BY <3>1 DEF Ab!AsNext
  <2>3. CASE ~Retries /\ purpose = "end"
    <3>1. Phase = "over" /\ Phase' = "returned" /\ UNCHANGED <<ctxDone, alarm>>
      BY <1>11, <2>3 DEF StopReturns
    <3>2. stopErr' = ~~failed BY <1>11, <2>3 DEF StopReturns
    <3>3. Ab!StopMayReturn(View, ~failed)
      BY <1>11, <2>3 DEF Ab!StopMayReturn, Ab!LeftBehind
    <3>4. View' = Ab!AfterStopOf(View, ~failed)
      BY <1>11, <2>3 DEF StopReturns, Ab!AfterStopOf
    <3>5. Ab!Stops BY <3>1, <3>2, <3>3, <3>4 DEF Ab!Stops
    <3> QED BY <3>5 DEF Ab!AsNext
  <2> QED BY <2>1, <2>2, <2>3
<1>12. CASE StopSeesDone BY <1>11, <1>12 DEF StopSeesDone
<1>13. CASE StopTerminates BY <1>13, AbSame DEF StopTerminates
<1>14. CASE Terminate BY <1>14, AbSame DEF Terminate
<1>15. CASE StopWaits BY <1>11, <1>15 DEF StopWaits
<1>16. CASE StopTimesOut BY <1>16, AbSame DEF StopTimesOut
<1>17. CASE StopAfterKill BY <1>11, <1>17 DEF StopAfterKill
<1>18. CASE Bind
  <2>1. UNCHANGED <<ctl, purpose, done, stopping, alarm, stopErr, ctxDone>>
        /\ server = "booting" /\ server' \in {"serving", "crashed"}
    BY <1>18, Zenon DEF Bind
  <2>2. CASE View' = View BY <2>1, <2>2, AbSame
  <2>3. CASE View' # View
    <3>1. Ab!Goes BY <2>1, <2>3 DEF Ab!Goes, Ab!GoesDown
    <3> QED BY <3>1 DEF Ab!AsNext
  <2> QED BY <2>2, <2>3
<1>19. CASE Exit
  <2>1. UNCHANGED <<ctl, purpose, done, stopping, alarm, stopErr, ctxDone>>
        /\ Alive /\ server' \in {"exited", "crashed"}
    BY <1>19 DEF Exit
  <2>2. CASE View' = View BY <2>1, <2>2, AbSame
  <2>3. CASE View' # View
    <3>1. Ab!Goes BY <2>1, <2>3 DEF Ab!Goes, Ab!GoesDown
    <3> QED BY <3>1 DEF Ab!AsNext
  <2> QED BY <2>2, <2>3
<1>20. CASE TakePort BY <1>20, AbSame DEF TakePort
<1>21. CASE ContextEnds
  <2>1. Ab!ContextEnds BY <1>21 DEF ContextEnds, Ab!ContextEnds
  <2> QED BY <2>1 DEF Ab!AsNext
<1>22. CASE CommandCancel BY <1>22, AbSame DEF CommandCancel
<1>23. CASE Reap
  <2>1. UNCHANGED <<ctl, purpose, server, alarm, stopErr, ctxDone>>
        /\ Dead /\ ~done /\ done' /\ stopping' = (stopping \/ ctxDone)
    BY <1>23 DEF Reap, StoppingAtExit
  <2>2. CASE View' = View BY <2>1, <2>2, AbSame
  <2>3. CASE View' # View
    <3>1. Ab!IsReaped BY <2>1, <2>3 DEF Ab!IsReaped, Ab!IsNoticed
    <3> QED BY <3>1 DEF Ab!AsNext
  <2> QED BY <2>2, <2>3
<1>24. CASE Request BY <1>24, AbSame DEF Request
<1>25. CASE UNCHANGED svcVars BY <1>25, AbSame DEF svcVars
<1> QED
  BY <1>1, <1>2, <1>3, <1>4, <1>5, <1>6, <1>7, <1>8, <1>9, <1>10, <1>12, <1>13, <1>14, <1>15,
     <1>16, <1>17, <1>18, <1>19, <1>20, <1>21, <1>22, <1>23, <1>24, <1>25
  DEF SvcNext, Attempt, Starting, Stopping, SvcTerminated

(* The managed service is the server that module ReleaseRun is written     *)
(* against: every step of the detailed one is a step that the attempt may  *)
(* see, or none.                                                           *)
THEOREM ServiceIsTheAttemptsServer == SvcSpec => Ab!AsSpec
<1>1. SvcInit => Ab!AsInit BY AbInitially
<1>2. SvcInv /\ [SvcNext]_svcVars => [Ab!AsNext]_Ab!asVars BY AbStep
<1> QED BY <1>1, <1>2, ServiceInvariant, PTL DEF SvcSpec, Ab!AsSpec
=============================================================================
