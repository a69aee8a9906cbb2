----------------------------- MODULE SourceCache -----------------------------
(***************************************************************************)
(* The source cache that release runs share (releasegate/source.go,        *)
(* lock_unix.go, PruneExpiredRuns in artifacts.go): a bare mirror of       *)
(* OpenViking, a protected ref for each run, a detached worktree, and the  *)
(* run's manifest, which a later run may replay.                           *)
(*                                                                         *)
(* Each process is one release: it prunes expired runs, prepares its own   *)
(* sources, uses them and closes them.  Every git command and file         *)
(* operation is a step, after which the process may crash; the lock is a   *)
(* flock, which the system releases then.  Git is external: the mirror's   *)
(* branch follows upstream when it fetches, and gc may drop at any time    *)
(* what nothing refers to.  Upstream may rewrite its branch, so an older   *)
(* commit is reachable only through a ref of its own.                      *)
(***************************************************************************)
EXTENDS Integers, FiniteSets

CONSTANTS
  Procs,     \* the processes; the run of a process has its name
  None,      \* no commit, no process
  MaxPush    \* bound: pushes to the upstream branch

Commits == 0 .. MaxPush

ASSUME CacheAssumption ==
  /\ None \notin Procs \cup Commits
  /\ MaxPush \in Nat

VARIABLES
  pc,        \* where each process is
  replays,   \* the run whose manifest it replays; None = --source latest
  commit,    \* source.Commit in memory
  todo,      \* expired runs the prune has still to look at
  victim,    \* the run whose ref it has deleted
  ctxDone,   \* the context of the process has ended
  lock,      \* who holds the flock of the cache
  head,      \* upstream: the commit of the branch
  mirror,    \* "absent", "partial" (a killed clone) or "whole"
  fetchSpec, \* remote.origin.fetch of the mirror: "all" or "heads"
  branch,    \* the mirror's branch
  objects,   \* the commits in the mirror
  ref,       \* refs/ovtest/runs/<run>/OpenViking
  runDir,    \* the runs whose directory exists
  manifest,  \* the commit in the run's source-manifest.json
  worktree,  \* "none", "partial" or "whole"
  expired    \* runs whose directory is older than the retention

procVars == <<pc, replays, commit, todo, victim, ctxDone>>
gitVars == <<mirror, fetchSpec, branch, objects, ref>>
fileVars == <<runDir, manifest, worktree>>
cacheVars == <<procVars, lock, head, gitVars, fileVars, expired>>

Ended == {"failed", "ended", "crashed"}

CacheInit ==
  /\ pc = [p \in Procs |-> "start"]
  /\ replays \in {r \in [Procs -> Procs \cup {None}] : \A p \in Procs : r[p] # p}
  /\ commit = [p \in Procs |-> None]
  /\ todo = [p \in Procs |-> {}] /\ victim = [p \in Procs |-> None]
  /\ ctxDone = [p \in Procs |-> FALSE]
  /\ lock = None /\ head = 0
  /\ mirror = "absent" /\ fetchSpec = "all" /\ branch = None /\ objects = {}
  /\ ref = [p \in Procs |-> None]
  /\ runDir = {} /\ manifest = [p \in Procs |-> None]
  /\ worktree = [p \in Procs |-> "none"] /\ expired = {}

Goto(p, place) == pc' = [pc EXCEPT ![p] = place]
At(p, place) == pc[p] = place
-----------------------------------------------------------------------------
(* The world around the processes.                                         *)
Push ==
  /\ head < MaxPush /\ head' = head + 1
  /\ UNCHANGED <<procVars, lock, gitVars, fileVars, expired>>

Reachable ==
  {branch} \cup {ref[p] : p \in Procs} \cup {commit[p] : p \in {q \in Procs : worktree[q] = "whole"}}

Gc ==
  /\ objects \ Reachable # {} /\ objects' = objects \cap Reachable
  /\ UNCHANGED <<procVars, lock, head, mirror, fetchSpec, branch, ref, fileVars, expired>>

(* The retention is counted in days; a release does not last that long.    *)
Expire ==
  /\ \E p \in runDir : p \notin expired /\ pc[p] \in Ended /\ expired' = expired \cup {p}
  /\ UNCHANGED <<procVars, lock, head, gitVars, fileVars>>

ContextEnds(p) ==
  /\ ~ctxDone[p] /\ pc[p] \notin Ended /\ ctxDone' = [ctxDone EXCEPT ![p] = TRUE]
  /\ UNCHANGED <<pc, replays, commit, todo, victim, lock, head, gitVars, fileVars, expired>>

(* A process dies, and with it the git command it runs.                    *)
Crash(p) ==
  /\ pc[p] \notin Ended
  /\ Goto(p, "crashed")
  /\ lock' = IF lock = p THEN None ELSE lock
  /\ mirror' = IF At(p, "mirror") /\ mirror = "absent" THEN "partial" ELSE mirror
  /\ worktree' = IF At(p, "worktree") THEN [worktree EXCEPT ![p] = "partial"] ELSE worktree
  /\ UNCHANGED <<replays, commit, todo, victim, ctxDone, head, fetchSpec, branch,
                 objects, ref, runDir, manifest, expired>>
-----------------------------------------------------------------------------
(* lockSourceCache: it tries until it succeeds or the context ends; errors *)
(* of the lock file itself, which end the release alike, are left out.     *)
Acquire(p) == lock = None /\ lock' = p

LockGivesUp(p) ==
  /\ \/ pc[p] \in {"start", "prepare"} /\ ctxDone[p] /\ Goto(p, "failed")
     \/ At(p, "close") /\ lock # None /\ Goto(p, "ended")
  /\ UNCHANGED <<replays, commit, todo, victim, ctxDone, lock, head, gitVars, fileVars,
                 expired>>

(* PruneExpiredRuns.                                                       *)
PruneOpens(p) ==
  /\ At(p, "start") /\ Acquire(p)
  /\ Goto(p, "prune")
  /\ todo' = [todo EXCEPT ![p] = runDir \cap expired]
  /\ UNCHANGED <<replays, commit, victim, ctxDone, head, gitVars, fileVars, expired>>

(* With a manifest the refs of its sources, without one every ref of the   *)
(* run (pruneIncompleteRun).  The slip believes that a run without a       *)
(* manifest has none.                                                      *)
RefAfterPruneOfComplete(q) == IF manifest[q] = None THEN ref[q] ELSE None
RefAfterPrune(q) == None

PruneRef(p) ==
  /\ At(p, "prune") /\ (~ctxDone[p] \/ mirror = "absent")
  /\ \E q \in todo[p] :
       /\ ref' = [ref EXCEPT ![q] = RefAfterPrune(q)]
       /\ victim' = [victim EXCEPT ![p] = q]
  /\ Goto(p, "remove")
  /\ UNCHANGED <<replays, commit, todo, ctxDone, lock, head, mirror, fetchSpec, branch,
                 objects, fileVars, expired>>

(* os.RemoveAll: file by file, the directory last.                         *)
RemoveFiles(p) ==
  /\ At(p, "remove") /\ manifest[victim[p]] # None
  /\ manifest' = [manifest EXCEPT ![victim[p]] = None]
  /\ UNCHANGED <<procVars, lock, head, gitVars, runDir, worktree, expired>>

RemoveDir(p) ==
  /\ At(p, "remove")
  /\ runDir' = runDir \ {victim[p]}
  /\ manifest' = [manifest EXCEPT ![victim[p]] = None]
  /\ worktree' = [worktree EXCEPT ![victim[p]] = "none"]
  /\ todo' = [todo EXCEPT ![p] = @ \ {victim[p]}]
  /\ Goto(p, "prune")
  /\ UNCHANGED <<replays, commit, victim, ctxDone, lock, head, gitVars, expired>>

(* The slip forgets the deferred unlock.                                   *)
LockKept(p) == p
Unlocked(p) == None

PruneEnds(p) ==
  /\ At(p, "prune") /\ todo[p] = {}
  /\ lock' = Unlocked(p)
  /\ Goto(p, "artifacts")
  /\ UNCHANGED <<replays, commit, todo, victim, ctxDone, head, gitVars, fileVars, expired>>

(* A read, a git command or a deletion fails: the error ends the release,  *)
(* after the other runs have been looked at, which changes nothing here.   *)
PruneFails(p) ==
  /\ pc[p] \in {"prune", "remove"}
  /\ lock' = None
  /\ Goto(p, "failed")
  /\ UNCHANGED <<replays, commit, todo, victim, ctxDone, head, gitVars, fileVars, expired>>
-----------------------------------------------------------------------------
(* PrepareSources.                                                         *)

(* The run's directory comes before its sources and outside the lock.      *)
NewRunArtifacts(p) ==
  /\ At(p, "artifacts")
  /\ runDir' = runDir \cup {p}
  /\ Goto(p, "prepare")
  /\ UNCHANGED <<replays, commit, todo, victim, ctxDone, lock, head, gitVars, manifest,
                 worktree, expired>>

(* A replay has read the manifest before it waits for the lock.  It reads  *)
(* the copy in the environment manifest, which appears later in a run than *)
(* the manifest itself, so it may be missing still.                        *)
ReadReplay(p) ==
  /\ At(p, "prepare") /\ replays[p] # None /\ commit[p] = None
  /\ \/ Goto(p, "failed") /\ UNCHANGED commit
     \/ /\ manifest[replays[p]] # None
        /\ commit' = [commit EXCEPT ![p] = manifest[replays[p]]] /\ UNCHANGED pc
  /\ UNCHANGED <<replays, todo, victim, ctxDone, lock, head, gitVars, fileVars, expired>>

PrepareOpens(p) ==
  /\ At(p, "prepare") /\ (replays[p] = None \/ commit[p] # None)
  /\ ~ctxDone[p] /\ Acquire(p)
  /\ Goto(p, "mirror")
  /\ UNCHANGED <<replays, commit, todo, victim, ctxDone, head, gitVars, fileVars, expired>>

(* ensureMirror: clone, then set the fetch configuration, then fetch.      *)
EnsureMirror(p) ==
  /\ At(p, "mirror") /\ ~ctxDone[p]
  /\ Goto(p, "configure")
  /\ \/ mirror # "absent" /\ UNCHANGED <<mirror, fetchSpec, branch, objects>>
     \/ /\ mirror = "absent" /\ mirror' = "whole" /\ fetchSpec' = "all"
        /\ branch' = head /\ objects' = {head}
  /\ UNCHANGED <<replays, commit, todo, victim, ctxDone, lock, head, ref, fileVars, expired>>

(* The slip leaves the configuration of a mirror clone in place.           *)
SpecAsCloned == fetchSpec
SpecConfigured == "heads"

Configure(p) ==
  /\ At(p, "configure") /\ ~ctxDone[p]
  /\ fetchSpec' = SpecConfigured
  /\ Goto(p, IF replays[p] = None THEN "fetch" ELSE "resolve")
  /\ UNCHANGED <<replays, commit, todo, victim, ctxDone, lock, head, mirror, branch,
                 objects, ref, fileVars, expired>>

(* fetch --prune deletes what its refspec covers and upstream has not.     *)
BranchFetched == head

Fetch(p) ==
  /\ At(p, "fetch") /\ ~ctxDone[p]
  /\ mirror' = "whole"
  /\ branch' = BranchFetched
  /\ objects' = objects \cup {BranchFetched}
  /\ ref' = IF fetchSpec = "all" THEN [q \in Procs |-> None] ELSE ref
  /\ Goto(p, "resolve")
  /\ UNCHANGED <<replays, commit, todo, victim, ctxDone, lock, head, fetchSpec, fileVars,
                 expired>>

(* rev-parse of the branch, or cat-file of the replayed commit.            *)
Resolve(p) ==
  /\ At(p, "resolve") /\ ~ctxDone[p]
  /\ \/ replays[p] = None /\ branch # None /\ commit' = [commit EXCEPT ![p] = branch]
     \/ replays[p] # None /\ commit[p] \in objects /\ UNCHANGED commit
  /\ Goto(p, "protect")
  /\ UNCHANGED <<replays, todo, victim, ctxDone, lock, head, gitVars, fileVars, expired>>

Protect(p) ==
  /\ At(p, "protect") /\ ~ctxDone[p]
  /\ commit[p] \in objects
  /\ ref' = [ref EXCEPT ![p] = commit[p]]
  /\ Goto(p, "worktree")
  /\ UNCHANGED <<replays, commit, todo, victim, ctxDone, lock, head, mirror, fetchSpec,
                 branch, objects, fileVars, expired>>

AddWorktree(p) ==
  /\ At(p, "worktree") /\ ~ctxDone[p]
  /\ worktree' = [worktree EXCEPT ![p] = "whole"]
  /\ Goto(p, "manifest")
  /\ UNCHANGED <<replays, commit, todo, victim, ctxDone, lock, head, gitVars, runDir,
                 manifest, expired>>

(* The manifest is linked into place, whole or not at all.                 *)
WriteManifest(p) ==
  /\ At(p, "manifest")
  /\ manifest' = [manifest EXCEPT ![p] = commit[p]]
  /\ lock' = None
  /\ Goto(p, "using")
  /\ UNCHANGED <<replays, commit, todo, victim, ctxDone, head, gitVars, runDir, worktree,
                 expired>>

Preparing == {"mirror", "configure", "fetch", "resolve", "protect", "worktree", "manifest"}

(* A step fails.  A git command that runs when the context ends is killed  *)
(* with what it has done.  The deferred closeUnlocked, still under the     *)
(* lock, removes a worktree that was recorded, which one is once it is     *)
(* whole: only when the manifest cannot be written is there something to   *)
(* undo.                                                                   *)
PrepareFails(p) ==
  /\ pc[p] \in Preparing
  /\ mirror' \in IF At(p, "mirror") /\ mirror = "absent" /\ ctxDone[p] THEN {"absent", "partial"}
                 ELSE {mirror}
  /\ worktree' \in IF At(p, "worktree") /\ ctxDone[p]
                   THEN {worktree, [worktree EXCEPT ![p] = "partial"]}
                   ELSE {worktree}
  /\ IF At(p, "manifest") THEN Goto(p, "undo") /\ UNCHANGED lock
     ELSE Goto(p, "failed") /\ lock' = None
  /\ UNCHANGED <<replays, commit, todo, victim, ctxDone, head, fetchSpec, branch, objects,
                 ref, runDir, manifest, expired>>

Undo(p) ==
  /\ At(p, "undo")
  /\ worktree' = [worktree EXCEPT ![p] = "none"]
  /\ lock' = None
  /\ Goto(p, "failed")
  /\ UNCHANGED <<replays, commit, todo, victim, ctxDone, head, gitVars, runDir, manifest,
                 expired>>
-----------------------------------------------------------------------------
(* The release builds and tests, then Close, whose context is a fresh one. *)
Used(p) ==
  /\ At(p, "using") /\ Goto(p, "close")
  /\ UNCHANGED <<replays, commit, todo, victim, ctxDone, lock, head, gitVars, fileVars,
                 expired>>

Close(p) ==
  /\ At(p, "close") /\ Acquire(p)
  /\ Goto(p, "closing")
  /\ UNCHANGED <<replays, commit, todo, victim, ctxDone, head, gitVars, fileVars, expired>>

Closed(p) ==
  /\ At(p, "closing")
  /\ worktree' \in {[worktree EXCEPT ![p] = "none"], worktree}
  /\ lock' = None
  /\ Goto(p, "ended")
  /\ UNCHANGED <<replays, commit, todo, victim, ctxDone, head, gitVars, runDir, manifest,
                 expired>>

Prune(p) == PruneOpens(p) \/ PruneRef(p) \/ RemoveFiles(p) \/ RemoveDir(p) \/ PruneEnds(p) \/ PruneFails(p)
Prepare(p) ==
  \/ NewRunArtifacts(p) \/ ReadReplay(p) \/ PrepareOpens(p) \/ EnsureMirror(p) \/ Configure(p)
  \/ Fetch(p) \/ Resolve(p) \/ Protect(p) \/ AddWorktree(p) \/ WriteManifest(p) \/ PrepareFails(p)
  \/ Undo(p)
Step(p) == LockGivesUp(p) \/ Prune(p) \/ Prepare(p) \/ Used(p) \/ Close(p) \/ Closed(p)

CacheTerminated == (\A p \in Procs : pc[p] \in Ended) /\ UNCHANGED cacheVars

CacheNext ==
  \/ \E p \in Procs : Step(p) \/ ContextEnds(p) \/ Crash(p)
  \/ Push \/ Gc \/ Expire \/ CacheTerminated

(* Commands without a time limit.  Git gets no timeout, and neither do the *)
(* builds that use the sources: only the end of the context kills them,    *)
(* and the undo of a failed preparation runs under a context that never    *)
(* ends.  Close has five minutes, whatever the context of the release is.  *)
Unlimited(p) ==
  \/ At(p, "prune") /\ todo[p] # {} /\ mirror # "absent"
  \/ pc[p] \in (Preparing \ {"manifest"}) \cup {"using", "undo"}

MayHang(p) == Unlimited(p) /\ (ctxDone[p] => At(p, "undo"))

(* Everything else goes on: files are read and written, a command whose    *)
(* context has ended is killed, and the lock is tried every 50 ms until it *)
(* is free or the context ends.                                            *)
CacheFairness == \A p \in Procs : WF_cacheVars(~MayHang(p) /\ Step(p))

CacheSpec == CacheInit /\ [][CacheNext]_cacheVars /\ CacheFairness
=============================================================================
