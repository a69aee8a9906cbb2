---------------------------- MODULE SessionCommit ----------------------------
(***************************************************************************)
(* How a case waits for a session to be committed and its memories to be   *)
(* extracted (ops/ops.go): sessionCommitOp commits by itself and polls its *)
(* task, sessionCommittedOp polls the session, and with poll_commit_task   *)
(* pollPluginSessionCommit finds the commit tasks of the agent's plugin.   *)
(* All three run in the readiness loop base.poll; memories they find added *)
(* are claimed for cleanup, as every case with poll_commit_task asks.      *)
(*                                                                         *)
(* Each request is one step, because the plugin commits, and tasks finish, *)
(* between any two of them.  The server is external: it commits in two     *)
(* phases, first the archive, which the session counts, then a task that   *)
(* extracts memories.  A session's commits do not overlap, and its tasks   *)
(* are numbered 1, 2, ...; task 0 belongs to another session of the user.  *)
(***************************************************************************)
EXTENDS Integers, FiniteSets, FiniteSetsExt

CONSTANTS
  Ops,           \* the operators to look at: "commit", "ready", "plugin"
  Retry,         \* config "retry": attempts after the first
  MinCommits,    \* config "min_commits"
  MinExtracted,  \* config "min_extracted"
  MaxCommits,    \* bound: commits of the session
  MaxYield       \* bound: memories one commit extracts

ASSUME SessionAssumption ==
  /\ Ops \subseteq {"commit", "ready", "plugin"}
  /\ {Retry, MinCommits, MinExtracted} \subseteq Nat
  /\ MaxCommits \in Nat \ {0} /\ MaxYield \in Nat

Own == 1 .. MaxCommits
Foreign == 0
NoTask == -1

VARIABLES
  op,        \* which operator this is
  at,        \* the request it makes next, or how it ended
  attempt,   \* the loop variable of poll
  taskID,    \* the task it follows
  toRead,    \* listed tasks whose status is still to be asked
  payloads,  \* the tasks whose result it has
  claims,    \* the tasks whose added memories it claims
  counted,   \* server: commits the session reports
  listed,    \* server: tasks of the session that exist
  task,      \* server: "running", "completed" or "failed"
  yield,     \* server: memories a task has extracted
  ctxDone,   \* the context of the case has ended
  flaw       \* history: some answer was an error or malformed

pollVars == <<op, at, attempt, taskID, toRead, payloads, claims, flaw>>
serverVars == <<counted, listed, task, yield>>
scVars == <<pollVars, serverVars, ctxDone>>

Ended == {"ok", "error", "aborted", "exhausted"}

ScInit ==
  /\ op \in Ops
  /\ at = IF op = "commit" THEN "commit" ELSE "attempt"
  /\ attempt = 0 /\ taskID = NoTask /\ toRead = {} /\ payloads = {} /\ claims = {}
  /\ counted = 0 /\ listed = 0
  /\ task = [t \in Own \cup {Foreign} |-> "running"]
  /\ yield = [t \in Own \cup {Foreign} |-> 0]
  /\ ctxDone \in BOOLEAN /\ flaw = FALSE

Extracted(tasks) == MapThenSumSet(LAMBDA t : yield[t], tasks)

(* The slip only asks whether there is anything.                           *)
NothingExtracted(tasks) == Extracted(tasks) = 0
TooFew(tasks) == Extracted(tasks) < MinExtracted
-----------------------------------------------------------------------------
(* The server and the plugin.                                              *)

Archive ==
  /\ op # "commit" /\ counted = listed /\ counted < MaxCommits
  /\ counted' = counted + 1
  /\ UNCHANGED <<pollVars, listed, task, yield, ctxDone>>

StartTask ==
  /\ listed < counted
  /\ listed' = listed + 1
  /\ UNCHANGED <<pollVars, counted, task, yield, ctxDone>>

FinishTask ==
  /\ \E t \in (1 .. listed) \cup {Foreign} :
       /\ task[t] = "running"
       /\ \/ /\ task' = [task EXCEPT ![t] = "completed"]
             /\ \E y \in 0 .. MaxYield : yield' = [yield EXCEPT ![t] = y]
          \/ task' = [task EXCEPT ![t] = "failed"] /\ UNCHANGED yield
  /\ UNCHANGED <<pollVars, counted, listed, ctxDone>>

ContextEnds ==
  /\ ~ctxDone /\ ctxDone' = TRUE
  /\ UNCHANGED <<pollVars, serverVars>>
-----------------------------------------------------------------------------
(* poll: the context is looked at before each attempt, and an attempt that *)
(* decides nothing is followed by the next.                                *)

Last == attempt = Retry

NextAttemptUncounted == attempt
NextAttempt == attempt + 1

BeginAttempt ==
  /\ at = "attempt"
  /\ at' = IF ctxDone THEN "aborted"
           ELSE IF op = "ready" THEN "get"
           ELSE IF taskID = NoTask THEN "discover"
           ELSE "status"
  /\ UNCHANGED <<op, attempt, taskID, toRead, payloads, claims, flaw, serverVars, ctxDone>>

GiveUp == at' = "error" /\ UNCHANGED <<attempt, taskID, toRead, payloads, claims>>

TryAgain ==
  /\ IF Last THEN at' = "exhausted" /\ UNCHANGED attempt
     ELSE at' = "attempt" /\ attempt' = NextAttempt
  /\ UNCHANGED <<taskID, toRead, payloads, claims>>

(* `if last { return an error }; return nil, nil`.                         *)
NotYet == IF Last THEN GiveUp ELSE TryAgain

GoOn(next) == at' = next /\ UNCHANGED <<attempt, taskID>>

(* A request: it has no usable answer, always so after the context has     *)
(* ended, or `answer` is what the operator makes of the one it gets.       *)
Request(name, unusable, answer) ==
  /\ at = name
  /\ UNCHANGED <<op, ctxDone>>
  /\ \/ unusable /\ flaw' = TRUE
     \/ ~ctxDone /\ answer /\ UNCHANGED flaw

EitherWay == NotYet \/ GiveUp
-----------------------------------------------------------------------------
(* sessionCommitOp: the one commit, which is never repeated.               *)
Commit ==
  /\ Request("commit", GiveUp,
             at' = "attempt" /\ taskID' = 1
               /\ UNCHANGED <<attempt, toRead, payloads, claims>>)
  /\ \/ counted' = 1 /\ listed' = 1
     \/ flaw' /\ UNCHANGED <<counted, listed>>
  /\ UNCHANGED <<task, yield>>

(* exactSessionCommitTasks.                                                *)
ExactTasks(tasks) == tasks \ {Foreign}

Listing == ExactTasks((1 .. listed) \cup {Foreign})

(* latestSessionCommitTask: the server lists the newest first.             *)
Discover ==
  /\ Request("discover", NotYet,
             \/ Listing = {} /\ NotYet
             \/ Listing # {} /\ taskID' = Max(Listing) /\ at' = "status"
                  /\ UNCHANGED <<attempt, toRead, payloads, claims>>)
  /\ UNCHANGED serverVars

(* The status of the task that is followed.                                *)
Follow ==
  \/ task[taskID] = "running" /\ NotYet
  \/ task[taskID] = "failed" /\ GiveUp
  \/ /\ task[taskID] = "completed" /\ op = "plugin"
     /\ GoOn("list") /\ UNCHANGED <<toRead, payloads, claims>>
  \/ /\ task[taskID] = "completed" /\ op = "commit"
     /\ IF TooFew({taskID}) THEN GiveUp
        ELSE GoOn("diff") /\ payloads' = {taskID} /\ UNCHANGED <<toRead, claims>>

(* In sessionCommitOp a completed task with a malformed result is final.   *)
Status ==
  /\ Request("status", IF op = "commit" THEN EitherWay ELSE NotYet, Follow)
  /\ UNCHANGED serverVars

(* completedSessionCommitPayloads.                                         *)
List ==
  /\ Request("list", NotYet,
             \/ Listing = {} /\ NotYet
             \/ Listing # {} /\ GoOn("each") /\ toRead' = Listing /\ payloads' = {}
                  /\ UNCHANGED claims)
  /\ UNCHANGED serverVars

Payload(t) ==
  \/ task[t] = "running" /\ NotYet
  \/ task[t] = "failed" /\ GiveUp
  \/ /\ task[t] = "completed"
     /\ payloads' = payloads \cup {t} /\ toRead' = toRead \ {t}
     /\ GoOn(IF toRead = {t} THEN "get" ELSE "each") /\ UNCHANGED claims

Each ==
  /\ Request("each", EitherWay, Payload(Max(toRead)))
  /\ UNCHANGED serverVars

(* The session, when all listed tasks are completed.  The slip believes    *)
(* the list without counting.                                              *)
CoversBelieved == TRUE
Covers == Cardinality(payloads) >= counted

(* The slip is impatient.                                                  *)
UncoveredFatal == GiveUp
Uncovered == NotYet

Judge ==
  \/ counted < MinCommits /\ GiveUp
  \/ counted >= MinCommits /\ ~Covers /\ Uncovered
  \/ /\ counted >= MinCommits /\ Covers
     /\ IF TooFew(payloads) THEN GiveUp
        ELSE GoOn("diff") /\ UNCHANGED <<toRead, payloads, claims>>

(* sessionCommittedReady.                                                  *)
Ready ==
  IF counted >= MinCommits /\ ~TooFew(1 .. listed)
  THEN GoOn("ok") /\ UNCHANGED <<toRead, payloads, claims>>
  ELSE NotYet

Get ==
  /\ Request("get", IF op = "plugin" THEN GiveUp ELSE EitherWay,
             IF op = "plugin" THEN Judge ELSE Ready)
  /\ UNCHANGED serverVars

(* commitAddedMemoryClaims for every result; the diffs no longer change.   *)
Diff ==
  /\ Request("diff", GiveUp,
             GoOn("ok") /\ claims' = payloads /\ UNCHANGED <<toRead, payloads>>)
  /\ UNCHANGED serverVars

Poll == BeginAttempt \/ Commit \/ Discover \/ Status \/ List \/ Each \/ Get \/ Diff

ScTerminated == at \in Ended /\ UNCHANGED scVars

ScNext == Poll \/ Archive \/ StartTask \/ FinishTask \/ ContextEnds \/ ScTerminated

(* Every request has a timeout.  Nothing is assumed of the server.         *)
ScSpec == ScInit /\ [][ScNext]_scVars /\ WF_scVars(Poll)
=============================================================================
