--------------------------- MODULE SourceCacheProps ---------------------------
(* What a replay relies on, stated over module SourceCache.                *)
EXTENDS SourceCache

(* A manifest that has not expired can be replayed: its commit is in the   *)
(* mirror, under the run's own ref, whatever other runs fetch, prune or    *)
(* leave behind when they die, and whatever upstream does to its branch.   *)
Replayable ==
  \A p \in Procs :
    manifest[p] # None /\ p \notin expired => ref[p] = manifest[p] /\ manifest[p] \in objects

(* A protected ref belongs to a run that a later prune will find: none is  *)
(* left for ever when a process dies between two steps.                    *)
NoOrphanRef == \A p \in Procs : ref[p] # None => p \in runDir

(* No release waits for ever for the cache, whoever fails or dies: it ends *)
(* unless a command without a time limit hangs, its own or that of the     *)
(* release that holds the lock; and a release whose context ends does not  *)
(* wait for another's either.                                              *)
EveryReleaseEnds ==
  \A p \in Procs :
    \/ <>(pc[p] \in Ended)
    \/ <>[]MayHang(p)
    \/ [](~ctxDone[p]) /\ \E q \in Procs \ {p} : <>[](MayHang(q) /\ lock = q)

(* A release that could not prepare its sources leaves no worktree.        *)
FailureLeavesNoWorktree == \A p \in Procs : pc[p] = "failed" => worktree[p] = "none"
=============================================================================
