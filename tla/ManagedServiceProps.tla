------------------------- MODULE ManagedServiceProps -------------------------
(* What the release attempt relies on, stated over module ManagedService.  *)
EXTENDS ManagedService

(* Type invariant.                                                         *)
SvcTypeOK ==
  /\ ctl \in {"pick", "start", "health", "readiness", "bootstrap", "running", "checking", "stop",
              "terminating", "waiting", "killed", "stopped", "failed"}
  /\ purpose \in {"none", "startup", "bootstrap", "end"}
  /\ starts \in 0 .. MaxStarts - 1
  /\ left \in 0 .. CaseCount
  /\ port \in {"free", "own", "foreign"}
  /\ server \in {"none", "booting", "serving", "exited", "crashed"}
  /\ signal \in {"none", "term", "kill"}
  /\ met \subseteq {"own", "foreign"} /\ known \in BOOLEAN
  /\ collided \in BOOLEAN /\ done \in BOOLEAN /\ stopping \in BOOLEAN
  /\ alarm \in BOOLEAN /\ stopErr \in BOOLEAN /\ ctxDone \in BOOLEAN

(* Cases run against the server this attempt started, although another     *)
(* program may have taken the port and answered every probe.  As long as   *)
(* that server lives it alone is found at the address, serving.  A case    *)
(* that another program has answered is one during which, or just before   *)
(* which, the server went: it had not been reaped when the case began,     *)
(* unless the context of the run has ended.                                *)
OwnServer ==
  ctl \in {"running", "checking"} =>
    /\ Alive => server = "serving" /\ port = "own"
    /\ "foreign" \in met => Dead /\ (known => ctxDone)

(* UnexpectedExit accuses the server only of an exit nobody asked for:     *)
(* neither Stop nor the end of the run's context had signalled it.         *)
NoFalseAlarm == alarm => signal = "none"

(* An exit nobody asked for, reaped before the look after a case, ends the *)
(* attempt with an error, whatever the exit code.                          *)
CrashNoticed ==
  [][ctl = "checking" /\ ctl' # "checking" /\ done /\ signal = "none" /\ ~ctxDone
       => alarm']_svcVars

(* No way out of the attempt leaves a server that was not at least killed, *)
(* and a Stop that reports success means that the process is gone.         *)
NoOrphan ==
  ctl \in {"failed", "stopped"} =>
    /\ Alive => signal = "kill"
    /\ ctl = "stopped" /\ ~stopErr => done

(* The attempt always ends, and the server does not outlive it.            *)
ServiceGone == <>[](ctl \in {"failed", "stopped"} /\ ~Alive)
=============================================================================
