----------------------------- MODULE ReleaseRun -----------------------------
(***************************************************************************)
(* The release gate (cmd/ovtest/release.go): executeRelease qualifies a    *)
(* frozen candidate with a number of fresh attempts; after a failure of    *)
(* cases it runs the failed cases on the frozen base and, those that only  *)
(* the candidate failed, once more on the candidate, and classifies what   *)
(* it saw.  executeReleaseAttempt starts a server or validates an external *)
(* one, runs a preflight, runs the cases one after the other, deletes what *)
(* they claimed, and tears everything down in deferred functions.          *)
(*                                                                         *)
(* An error value is a BOOLEAN, because what is decided depends on whether *)
(* it is nil.  The server is module ManagedService as module AttemptServer *)
(* shows it: it may crash at any moment, and UnexpectedExit sees it only   *)
(* once it is reaped.                                                      *)
(* The cases of an attempt are run one after the other, here in any order: *)
(* nothing that is decided depends on the one they are given in.           *)
(* A run that cannot create its own directories is left out: it returns    *)
(* before there is anything to tear down or to summarise.                  *)
(***************************************************************************)
EXTENDS Integers, ServerView

CONSTANTS
  Selected,             \* opts.CaseIDs
  Runs,                 \* opts.QualificationRuns
  External,             \* --target external
  HasBaseline,          \* a frozen base was prepared
  KeepSuccessEvidence   \* --keep-success-evidence

ASSUME ReleaseAssumption ==
  /\ Selected # {}
  /\ Runs \in 1 .. 20
  /\ {External, HasBaseline, KeepSuccessEvidence} \subseteq BOOLEAN

Roles == {"candidate", "base", "retry"}
SensitiveStatuses == {"semantic_failed", "deterministic_check_failed", "soft_gate_failed"}
EnvironmentStatuses == {"judge_failed", "execution_failed", "timed_out"}
Statuses == {"pass"} \cup SensitiveStatuses \cup EnvironmentStatuses

VARIABLES
  stage,           \* "prepare", "attempt", "compare", "finish" or "done"
  role,            \* what the current attempt is for
  number,          \* the loop variable `attempt`
  at,              \* where the attempt is
  todo,            \* its cases that have not run yet
  res,             \* its releaseAttemptResult
  initial,         \* the result of the candidate's attempt that failed
  base,            \* the result of the base comparison
  outcome,         \* the Outcome executeRelease will return
  classification,  \* the classification it writes
  disk,            \* which of the run's directories exist
  server,          \* the attempt's server, a value of module ServerView
  ctxDone,         \* SIGINT or SIGTERM
  seen,            \* history: what happened in the last attempt of each role
  leaked,          \* history: cases whose claimed resources were not deleted
  clean            \* history: the numbers of the attempts that nothing went wrong in

relVars == <<stage, role, number, at, todo, res, initial, base, outcome, classification,
             disk, server, ctxDone, seen, leaked, clean>>

attemptVars == <<role, number, initial, base>>
runVars == <<outcome, classification, disk>>

NoResult == [primary |-> FALSE, cleanup |-> FALSE, class |-> "none", failed |-> {}]
Err(r) == r.primary \/ r.cleanup

Unseen == [failed |-> {}, passed |-> {}, trouble |-> FALSE]

RelInit ==
  /\ stage = "prepare" /\ role = "candidate" /\ number = 1 /\ at = "setup"
  /\ todo = {} /\ res = NoResult /\ initial = NoResult /\ base = NoResult
  /\ outcome = [primary |-> FALSE, cleanup |-> FALSE]
  /\ classification = "none"
  /\ disk = {"secrets", "runtime", "evidence"}
  /\ server = "none" /\ ctxDone = FALSE
  /\ seen = [r \in Roles |-> Unseen] /\ leaked = {} /\ clean = {}
-----------------------------------------------------------------------------
Interrupt ==
  /\ ~ctxDone /\ stage # "done" /\ ctxDone' = TRUE
  /\ UNCHANGED <<stage, at, todo, res, server, attemptVars, runVars, seen, leaked, clean>>

ServerCrashes ==
  /\ GoesDown(server, server')
  /\ UNCHANGED <<stage, at, todo, res, ctxDone, attemptVars, runVars, seen, leaked, clean>>

ServerReaped ==
  /\ IsNoticed(server, ctxDone, server')
  /\ UNCHANGED <<stage, at, todo, res, ctxDone, attemptVars, runVars, seen, leaked, clean>>

Begin(r, n, cases) ==
  /\ stage' = "attempt" /\ role' = r /\ number' = n /\ at' = "setup"
  /\ todo' = cases
  /\ res' = NoResult
  /\ seen' = [seen EXCEPT ![r] = Unseen]

(* Everything before the first attempt: prune, sources, build, harnesses,  *)
(* credentials, the environment manifest.                                  *)
Prepare ==
  /\ stage = "prepare"
  /\ \/ ~ctxDone /\ Begin("candidate", 1, Selected) /\ UNCHANGED outcome
     \/ /\ stage' = "finish" /\ outcome' = [outcome EXCEPT !.primary = TRUE]
        /\ UNCHANGED <<role, number, at, todo, res, seen>>
  /\ UNCHANGED <<initial, base, classification, disk, server, ctxDone, leaked, clean>>
-----------------------------------------------------------------------------
(* executeReleaseAttempt.                                                  *)

Trouble == [seen EXCEPT ![role].trouble = TRUE]
EnvironmentError(r) == [r EXCEPT !.primary = TRUE, !.class = "environment"]

Setup ==
  /\ stage = "attempt" /\ at = "setup"
  /\ \/ /\ ~ctxDone
        /\ at' = "preflight"
        /\ server' = IF External THEN "none" ELSE "up"
        /\ UNCHANGED <<res, seen>>
     \/ /\ at' = "teardown" /\ res' = EnvironmentError(res) /\ seen' = Trouble
        /\ \/ server' \in IF External THEN {"none"} ELSE LeftBehind
           \/ ~External /\ ~ctxDone /\ server' = "up"
  /\ UNCHANGED <<stage, todo, ctxDone, attemptVars, runVars, leaked, clean>>

Preflight ==
  /\ stage = "attempt" /\ at = "preflight"
  /\ \/ at' = "case" /\ UNCHANGED <<res, seen>>
     \/ at' = "teardown" /\ res' = EnvironmentError(res) /\ seen' = Trouble
  /\ UNCHANGED <<stage, todo, server, ctxDone, attemptVars, runVars, leaked, clean>>

(* releaseCaseFailureClass; the slip forgets the timeouts.                 *)
ReleaseCaseFailureClassNoTimeout(status) ==
  IF status \in {"judge_failed", "execution_failed"} THEN "environment" ELSE "case"
ReleaseCaseFailureClass(status) ==
  IF status \in EnvironmentStatuses THEN "environment" ELSE "case"

(* The three things that can go wrong with one case, in the order of the   *)
(* code: its claims, its evidence and record, its status.                  *)
WithClaims(r, ok) == IF ok THEN r ELSE [r EXCEPT !.cleanup = TRUE, !.class = "environment"]
WithRecord(r, ok) == IF ok THEN r ELSE EnvironmentError(r)
WithStatus(r, c, status) ==
  IF status = "pass" THEN r
  ELSE IF ReleaseCaseFailureClass(status) = "environment" THEN EnvironmentError(r)
  ELSE [r EXCEPT !.primary = TRUE, !.failed = @ \cup {c},
                 !.class = IF @ = "none" THEN "case" ELSE @]

RunCase ==
  /\ stage = "attempt" /\ at = "case"
  /\ \E c \in todo, status \in Statuses, claimsOk, recordOk \in BOOLEAN :
       /\ todo' = todo \ {c}
       /\ ctxDone \/ server \in {"crashed", "reaped"} => status # "pass"
       /\ res' = WithStatus(WithRecord(WithClaims(res, claimsOk), recordOk), c, status)
       /\ leaked' = IF claimsOk THEN leaked ELSE leaked \cup {c}
       /\ seen' = [seen EXCEPT
            ![role].failed = IF status \in SensitiveStatuses THEN @ \cup {c} ELSE @,
            ![role].passed = IF status = "pass" THEN @ \cup {c} ELSE @,
            ![role].trouble = @ \/ status \in EnvironmentStatuses \/ ~claimsOk \/ ~recordOk]
  /\ at' = "after"
  /\ UNCHANGED <<stage, server, ctxDone, attemptVars, runVars, clean>>

AfterCase ==
  /\ stage = "attempt" /\ at = "after"
  /\ \/ /\ ctxDone \/ Unexpected(server)
        /\ res' = EnvironmentError(res) /\ at' = "teardown" /\ seen' = Trouble
     \/ /\ ~ctxDone /\ ~Unexpected(server)
        /\ at' = IF todo = {} THEN "teardown" ELSE "case"
        /\ UNCHANGED <<res, seen>>
  /\ UNCHANGED <<stage, todo, server, ctxDone, attemptVars, runVars, leaked, clean>>

(* The deferred functions, last registered first.  For an external target  *)
(* the outcome is replaced by that of a registry no case was entered in.   *)
(* The slip does the same for a local target.                              *)
AfterRemoteCleanupAnywhere(r) == [r EXCEPT !.cleanup = FALSE]
AfterRemoteCleanup(r) == IF External THEN [r EXCEPT !.cleanup = FALSE] ELSE r
AfterStop(r, ok) == IF ok THEN r ELSE [r EXCEPT !.cleanup = TRUE]
(* The slip leaves the class alone when the cleanup failed.                *)
ClassUnchanged(r) == r
ClassAfterCleanup(r) == IF r.cleanup THEN [r EXCEPT !.class = "environment"] ELSE r
AfterRedaction(r, ok) ==
  IF ok THEN r ELSE [r EXCEPT !.cleanup = TRUE, !.class = "environment"]

Teardown ==
  /\ stage = "attempt" /\ at = "teardown"
  /\ \E stopOk, redactOk \in BOOLEAN :
       /\ StopMayReturn(server, stopOk)
       /\ res' = AfterRedaction(ClassAfterCleanup(AfterStop(AfterRemoteCleanup(res), stopOk)),
                                redactOk)
       /\ server' = AfterStopOf(server, stopOk)
       /\ seen' = IF stopOk /\ redactOk THEN seen ELSE Trouble
  /\ stage' = "compare" /\ at' = "returned"
  /\ UNCHANGED <<todo, ctxDone, attemptVars, runVars, leaked, clean>>
-----------------------------------------------------------------------------
(* executeRelease, after each attempt.                                     *)

(* failedCaseDifference.                                                   *)
FailedCaseDifference(candidate, baseline) == candidate \ baseline

ClassificationWithoutComparison(r) ==
  IF r.class = "case" THEN "uncompared-case-failure" ELSE "environment-failure"

(* classifyCandidateComparison; the primary error is never nil here.  The  *)
(* slip does not look at why the retry failed.                             *)
ClassifyRetryByError(b, r) ==
  IF Err(r) THEN "probable-openviking-regression" ELSE "flaky-inconclusive"
ClassifyRetry(b, r) ==
  IF ~Err(r) THEN "flaky-inconclusive"
  ELSE IF r.class = "case" THEN "probable-openviking-regression"
  ELSE "environment-failure"

ClassifyCandidateComparison(i, b, r) ==
  IF Err(b) /\ b.class # "case" THEN "environment-failure"
  ELSE IF Err(b) /\ FailedCaseDifference(i.failed, b.failed) = {} THEN "baseline-incompatible"
  ELSE ClassifyRetry(b, r)

Conclude(o, c) ==
  /\ stage' = "finish" /\ outcome' = o /\ classification' = c
  /\ UNCHANGED <<role, number, at, todo, res, seen>>

OutcomeOf(r) == [primary |-> r.primary, cleanup |-> r.cleanup]
ComparedOutcome(i, b, r) ==
  [primary |-> TRUE, cleanup |-> i.cleanup \/ b.cleanup \/ r.cleanup]

(* The next attempt of the loop; the slip forgets to count.                *)
NumberKept(n) == n
NextNumber(n) == n + 1

(* The loop condition.                                                     *)
MoreAttempts == number < Runs

CandidatePassed ==
  /\ stage = "compare" /\ role = "candidate" /\ ~Err(res)
  /\ clean' = IF seen[role].passed = Selected /\ ~seen[role].trouble
              THEN clean \cup {number} ELSE clean
  /\ \/ /\ MoreAttempts /\ Begin("candidate", NextNumber(number), Selected)
        /\ UNCHANGED <<outcome, classification>>
     \/ ~MoreAttempts /\ Conclude(outcome, "none")
  /\ UNCHANGED <<initial, base, disk, server, ctxDone, leaked>>

(* Only failed cases are compared; without a base nothing is.  The base is *)
(* built first, which may fail.                                            *)
Comparable(r) == r.class = "case" /\ HasBaseline /\ r.failed # {}

CandidateFailed ==
  /\ stage = "compare" /\ role = "candidate" /\ Err(res)
  /\ initial' = res
  /\ \/ ~Comparable(res) /\ Conclude(OutcomeOf(res), ClassificationWithoutComparison(res))
     \/ Comparable(res) /\ Conclude([OutcomeOf(res) EXCEPT !.primary = TRUE], "none")
     \/ /\ Comparable(res) /\ ~ctxDone
        /\ Begin("base", number, res.failed)
        /\ outcome' = OutcomeOf(res) /\ UNCHANGED classification
  /\ UNCHANGED <<base, disk, server, ctxDone, leaked, clean>>

CandidateOnly == FailedCaseDifference(initial.failed, res.failed)

BaseReturned ==
  /\ stage = "compare" /\ role = "base"
  /\ base' = res
  /\ \/ /\ (Err(res) /\ res.class # "case") \/ CandidateOnly = {}
        /\ Conclude(ComparedOutcome(initial, res, NoResult),
                    ClassifyCandidateComparison(initial, res, NoResult))
     \/ /\ ~(Err(res) /\ res.class # "case") /\ CandidateOnly # {}
        /\ Begin("retry", number, CandidateOnly)
        /\ UNCHANGED <<outcome, classification>>
  /\ UNCHANGED <<initial, disk, server, ctxDone, leaked, clean>>

RetryReturned ==
  /\ stage = "compare" /\ role = "retry"
  /\ Conclude(ComparedOutcome(initial, base, res),
              ClassifyCandidateComparison(initial, base, res))
  /\ UNCHANGED <<initial, base, disk, server, ctxDone, leaked, clean>>
-----------------------------------------------------------------------------
(* The end of executeRelease: worktrees, redaction, Finalize, summary.     *)

(* The slip trusts the classification, which is still "none" after a       *)
(* failure that has no class.                                              *)
SuccessByClassification(o) == classification = "none" /\ ~o.cleanup
Success(o) == ~Err(o)

(* Finalize removes the secrets always, the rest after a success.          *)
Doomed(success) ==
  {"secrets"} \cup (IF success THEN {"runtime"} ELSE {})
    \cup (IF success /\ ~KeepSuccessEvidence THEN {"evidence"} ELSE {})

(* The slip writes the classification as it is.                            *)
ClassificationKept(o) == classification
FinalClassification(o) ==
  IF o.cleanup \/ (o.primary /\ classification = "none") THEN "environment-failure"
  ELSE classification

Finish ==
  /\ stage = "finish"
  /\ \E closed, redacted, written \in BOOLEAN :
       LET o1 == [outcome EXCEPT !.cleanup = @ \/ ~closed]
           o2 == [o1 EXCEPT !.cleanup = @ \/ ~redacted]
           doomed == Doomed(Success(o1) /\ redacted)
       IN \E stuck \in SUBSET doomed :
            LET o3 == [o2 EXCEPT !.cleanup = @ \/ stuck # {}] IN
            /\ disk' = disk \ (doomed \ stuck)
            /\ classification' = FinalClassification(o3)
            /\ outcome' = [o3 EXCEPT !.cleanup = @ \/ ~written]
  /\ stage' = "done"
  /\ UNCHANGED <<at, todo, res, server, ctxDone, attemptVars, seen, leaked, clean>>

Attempt == Setup \/ Preflight \/ RunCase \/ AfterCase \/ Teardown
Compare == CandidatePassed \/ CandidateFailed \/ BaseReturned \/ RetryReturned
Release == Prepare \/ Attempt \/ Compare \/ Finish

RelTerminated == stage = "done" /\ UNCHANGED relVars

RelNext == Release \/ Interrupt \/ ServerCrashes \/ ServerReaped \/ RelTerminated

(* Cases, probes, deletions and the removal of worktrees run under         *)
(* timeouts.  The git commands, builds and installations of the            *)
(* preparation, and the build of the base, do not: only the end of the     *)
(* context kills one that hangs.                                           *)
Building ==
  \/ stage = "prepare"
  \/ stage = "compare" /\ role = "candidate" /\ Err(res) /\ Comparable(res)

RelFairness == WF_relVars((Building => ctxDone) /\ Release)

RelSpec == RelInit /\ [][RelNext]_relVars /\ RelFairness
=============================================================================
