---------------------------- MODULE ManagedService ----------------------------
(***************************************************************************)
(* The local OpenViking server of one release attempt                      *)
(* (internal/releasegate/target.go): StartLocalOpenViking picks a loopback *)
(* port, starts the server, probes it, creates the test user on it; the    *)
(* attempt runs its cases and looks for an unexpected exit after each; the *)
(* deferred Stop ends the server.                                          *)
(*                                                                         *)
(* Four things run side by side: the attempt (`ctl`), the server process   *)
(* in its own process group, the goroutine in cmd.Wait that closes `done`, *)
(* and os/exec, which kills the process when the run's context ends.  The  *)
(* port is free between the probe that found it and the server's bind, so  *)
(* another program can take it, and may answer the probes.  Every timer    *)
(* can fire at any moment.                                                 *)
(***************************************************************************)
EXTENDS Integers

CONSTANTS
  MaxStarts,   \* starts of the server before giving up; 3 in the code
  CaseCount    \* cases the attempt runs

ASSUME ServiceAssumption == MaxStarts \in Nat \ {0} /\ CaseCount \in Nat

VARIABLES
  ctl,       \* where the attempt is
  purpose,   \* why Stop was called: "startup", "bootstrap" or "end"
  starts,    \* the loop variable `attempt` of StartLocalOpenViking
  left,      \* cases still to run
  port,      \* who listens on the chosen port: "free", "own" or "foreign"
  server,    \* the process: "none", "booting", "serving", "exited" or "crashed"
  collided,  \* the log of this start says that the address is in use
  signal,    \* the strongest signal sent to the process group
  done,      \* s.done is closed
  stopping,  \* s.stopping
  met,       \* who has answered the case that runs: a subset of {"own", "foreign"}
  known,     \* s.done was closed when that case began
  alarm,     \* UnexpectedExit returned an error
  stopErr,   \* the final Stop returned an error
  ctxDone    \* the context of the run has ended

case == <<met, known>>
svcVars == <<ctl, purpose, starts, left, port, server, collided, signal, done, stopping,
             case, alarm, stopErr, ctxDone>>

Alive == server \in {"booting", "serving"}
Dead == server \in {"exited", "crashed"}

SvcInit ==
  /\ ctl = "pick" /\ purpose = "none" /\ starts = 0 /\ left = CaseCount
  /\ port = "free" /\ server = "none" /\ collided = FALSE /\ signal = "none"
  /\ done = FALSE /\ stopping = FALSE /\ met = {} /\ known = FALSE
  /\ alarm = FALSE /\ stopErr = FALSE
  /\ ctxDone \in BOOLEAN
-----------------------------------------------------------------------------
(* The server and what surrounds it.                                       *)

ReleasePort == IF port = "own" THEN "free" ELSE port

Bind ==
  /\ server = "booting"
  /\ \/ port = "free" /\ port' = "own" /\ server' = "serving" /\ UNCHANGED collided
     \/ port = "foreign" /\ server' = "crashed" /\ collided' = TRUE /\ UNCHANGED port
  /\ UNCHANGED <<ctl, purpose, starts, left, signal, done, stopping, case, alarm,
                 stopErr, ctxDone>>

(* The process exits by itself, or because it was told to.  It may ignore  *)
(* SIGTERM; Killed is the part it cannot ignore.                           *)
Exit ==
  /\ Alive
  /\ server' \in {"exited", "crashed"}
  /\ port' = ReleasePort
  /\ UNCHANGED <<ctl, purpose, starts, left, collided, signal, done, stopping, case,
                 alarm, stopErr, ctxDone>>

Killed == signal = "kill" /\ Exit

TakePort ==
  /\ port = "free"
  /\ port' = "foreign"
  /\ UNCHANGED <<ctl, purpose, starts, left, server, collided, signal, done, stopping,
                 case, alarm, stopErr, ctxDone>>

ContextEnds ==
  /\ ~ctxDone /\ ctxDone' = TRUE
  /\ UNCHANGED <<ctl, purpose, starts, left, port, server, collided, signal, done,
                 stopping, case, alarm, stopErr>>

(* exec.CommandContext: cmd.Cancel kills the group when the context ends.  *)
CommandCancel ==
  /\ ctxDone /\ Alive /\ signal # "kill"
  /\ signal' = "kill"
  /\ UNCHANGED <<ctl, purpose, starts, left, port, server, collided, done, stopping,
                 case, alarm, stopErr, ctxDone>>

(* The goroutine of cmd.Wait.  The slip forgets that the context may be    *)
(* what ended the process.                                                 *)
StoppingAtExitNoContext == stopping
StoppingAtExit == stopping \/ ctxDone

Reap ==
  /\ Dead /\ ~done
  /\ stopping' = StoppingAtExit
  /\ done' = TRUE
  /\ UNCHANGED <<ctl, purpose, starts, left, port, server, collided, signal, case,
                 alarm, stopErr, ctxDone>>
-----------------------------------------------------------------------------
(* StartLocalOpenViking and StartManagedService.                           *)

environment == <<port, server, collided, signal, done, stopping>>

Fail ==
  /\ ctl' = "failed"
  /\ UNCHANGED <<environment, purpose, starts, left, case, alarm, stopErr, ctxDone>>

PickPort ==
  /\ ctl = "pick"
  /\ ctl' = "start" /\ port' = "free"
  /\ UNCHANGED <<purpose, starts, left, server, collided, signal, done, stopping, case,
                 alarm, stopErr, ctxDone>>

(* cmd.Start refuses a context that has ended, and may fail otherwise.     *)
Start ==
  /\ ctl = "start" /\ ~ctxDone
  /\ ctl' = "health"
  /\ server' = "booting" /\ signal' = "none" /\ collided' = FALSE
  /\ done' = FALSE /\ stopping' = FALSE
  /\ UNCHANGED <<purpose, starts, left, port, case, alarm, stopErr, ctxDone>>

StartFails == ctl \in {"pick", "start"} /\ Fail

Answering == (port = "own" /\ server = "serving") \/ port = "foreign"

GoStop(why) == ctl' = "stop" /\ purpose' = why

(* waitForTarget: the health endpoint, then the readiness endpoint.  Each  *)
(* probe comes before the look at the context, the timeout and `done`.     *)
Probe ==
  /\ ctl \in {"health", "readiness"} /\ ~ctxDone
  /\ Answering
  /\ ctl' = IF ctl = "health" THEN "readiness" ELSE "bootstrap"
  /\ UNCHANGED <<environment, purpose, starts, left, case, alarm, stopErr, ctxDone>>

StartupGivesUp ==
  /\ ctl \in {"health", "readiness"}
  /\ GoStop("startup")
  /\ UNCHANGED <<environment, starts, left, case, alarm, stopErr, ctxDone>>

(* bootstrapLocalUser and the two identity checks.  Only a server started  *)
(* with this run's random root key accepts that key.  The slip takes any   *)
(* answer for a success.                                                   *)
AcceptsAnyKey == Answering
AcceptsRootKey == port = "own" /\ server = "serving"

CaseBegins == met' = {} /\ known' = done

Bootstrap ==
  /\ ctl = "bootstrap" /\ ~ctxDone
  /\ AcceptsRootKey
  /\ ctl' = "running" /\ CaseBegins
  /\ UNCHANGED <<environment, purpose, starts, left, alarm, stopErr, ctxDone>>

(* Stop comes before the error is returned; the slip just returns.         *)
BootstrapFailsAndLeaves ==
  /\ ctl = "bootstrap"
  /\ Fail
BootstrapFails ==
  /\ ctl = "bootstrap"
  /\ GoStop("bootstrap")
  /\ UNCHANGED <<environment, starts, left, case, alarm, stopErr, ctxDone>>
-----------------------------------------------------------------------------
(* The attempt after each case (executeReleaseAttempt) and UnexpectedExit. *)
(* The slip reports an exit only when the process failed.                  *)
ExitReportedIfFailed == done /\ ~stopping /\ server = "crashed"
ExitReported == done /\ ~stopping

(* A case, or a preflight before the first one, talks to the address it    *)
(* was given, whoever listens there.                                       *)
Request ==
  /\ ctl = "running" /\ port # "free"
  /\ met' = met \cup {port}
  /\ UNCHANGED <<environment, ctl, purpose, starts, left, known, alarm, stopErr, ctxDone>>

AfterCase ==
  /\ ctl = "running" /\ left > 0
  /\ left' = left - 1
  /\ \/ ctxDone /\ GoStop("end")
     \/ ~ctxDone /\ ctl' = "checking" /\ UNCHANGED purpose
  /\ UNCHANGED <<environment, starts, case, alarm, stopErr, ctxDone>>

(* The context can end between the look at it and this one.                *)
CheckExit ==
  /\ ctl = "checking"
  /\ alarm' = ExitReported
  /\ \/ (ExitReported \/ left = 0) /\ GoStop("end")
        /\ UNCHANGED case
     \/ ~ExitReported /\ left > 0 /\ ctl' = "running" /\ CaseBegins /\ UNCHANGED purpose
  /\ UNCHANGED <<environment, starts, left, stopErr, ctxDone>>

(* The attempt ends before a case has run: a preflight failed, say.        *)
LeaveEarly ==
  /\ ctl = "running" /\ left \in {0, CaseCount}
  /\ GoStop("end")
  /\ UNCHANGED <<environment, starts, left, case, alarm, stopErr, ctxDone>>
-----------------------------------------------------------------------------
(* Stop.                                                                   *)

(* What follows Stop.  The next start happens only when this one failed    *)
(* because the address was in use.                                         *)
Retries == purpose = "startup" /\ collided /\ starts < MaxStarts - 1

StopReturns(failed) ==
  /\ ctl' = IF Retries THEN "pick" ELSE IF purpose = "end" THEN "stopped" ELSE "failed"
  /\ starts' = IF Retries THEN starts + 1 ELSE starts
  /\ stopErr' = (failed /\ purpose = "end")
  /\ UNCHANGED <<environment, purpose, left, case, alarm, ctxDone>>

StopSeesDone == ctl = "stop" /\ done /\ StopReturns(FALSE)
StopTerminates ==
  /\ ctl = "stop" /\ ~done
  /\ ctl' = "terminating"
  /\ UNCHANGED <<environment, purpose, starts, left, case, alarm, stopErr, ctxDone>>

(* Between the look at `done` and this step the process may have gone.     *)
Terminate ==
  /\ ctl = "terminating"
  /\ ctl' = "waiting"
  /\ stopping' = TRUE
  /\ signal' = IF Alive /\ signal = "none" THEN "term" ELSE signal
  /\ UNCHANGED <<purpose, starts, left, port, server, collided, done, case, alarm,
                 stopErr, ctxDone>>

StopWaits == ctl = "waiting" /\ done /\ StopReturns(FALSE)

(* The timeout, or the end of Stop's own context.  The slip skips the kill.*)
SignalAtTimeoutKept == signal
SignalAtTimeout == IF Alive THEN "kill" ELSE signal
StopTimesOut ==
  /\ ctl = "waiting"
  /\ ctl' = "killed"
  /\ signal' = SignalAtTimeout
  /\ UNCHANGED <<purpose, starts, left, port, server, collided, done, stopping, case,
                 alarm, stopErr, ctxDone>>

(* waitAfterKill returns an error whether or not the process has gone.     *)
StopAfterKill == ctl = "killed" /\ StopReturns(TRUE)
-----------------------------------------------------------------------------
Starting == PickPort \/ Start \/ StartFails \/ Probe \/ StartupGivesUp \/ Bootstrap \/ BootstrapFails
Stopping == StopSeesDone \/ StopTerminates \/ Terminate \/ StopWaits \/ StopTimesOut \/ StopAfterKill
Attempt == Starting \/ AfterCase \/ CheckExit \/ LeaveEarly \/ Stopping

SvcTerminated == ctl \in {"failed", "stopped"} /\ UNCHANGED svcVars

SvcNext ==
  Attempt \/ Request \/ Bind \/ Exit \/ TakePort \/ ContextEnds \/ CommandCancel \/ Reap \/ SvcTerminated

(* Every wait of the attempt has a timer; a killed process dies and the    *)
(* Go runtime runs both goroutines.                                        *)
SvcFairness ==
  WF_svcVars(Attempt) /\ WF_svcVars(Killed) /\ WF_svcVars(CommandCancel) /\ WF_svcVars(Reap)

SvcSpec == SvcInit /\ [][SvcNext]_svcVars /\ SvcFairness
=============================================================================
