-------------------------- MODULE SourceCacheProofs --------------------------
(***************************************************************************)
(* Safety of the source cache, for any number of releases and of pushes.   *)
(* Each part of the invariant is kept by the five groups of steps below.   *)
(***************************************************************************)
EXTENDS SourceCacheProps, TLAPS

Early == {"start", "prune", "remove", "artifacts", "prepare"}
Holding == {"prune", "remove", "closing", "undo"} \cup Preparing
Places == Early \cup Preparing \cup {"using", "close", "closing", "undo"} \cup Ended

CacheTypeOK ==
  /\ pc \in [Procs -> Places]
  /\ replays \in [Procs -> Procs \cup {None}] /\ commit \in [Procs -> Commits \cup {None}]
  /\ todo \in [Procs -> SUBSET Procs] /\ victim \in [Procs -> Procs \cup {None}]
  /\ ctxDone \in [Procs -> BOOLEAN] /\ lock \in Procs \cup {None}
  /\ head \in Commits /\ branch \in Commits \cup {None} /\ objects \subseteq Commits
  /\ ref \in [Procs -> Commits \cup {None}] /\ manifest \in [Procs -> Commits \cup {None}]
  /\ worktree \in [Procs -> {"none", "partial", "whole"}]
  /\ runDir \subseteq Procs /\ expired \subseteq Procs

(* Who works on the cache holds its lock.                                  *)
LockInv == \A p \in Procs : pc[p] \in Holding <=> lock = p

(* What a prune looks at has expired, which only releases that ended have; *)
(* a directory is removed after its ref is.                                *)
PruneInv ==
  /\ \A p \in expired : pc[p] \in Ended
  /\ \A p \in Procs : pc[p] \in {"prune", "remove"} => todo[p] \subseteq expired
  /\ \A p \in Procs : pc[p] = "remove" => victim[p] \in todo[p] /\ ref[victim[p]] = None

(* A run has its directory before its ref, and its ref before its manifest.*)
RunInv ==
  \A p \in Procs :
    /\ pc[p] \in {"prepare"} \cup Preparing => p \in runDir
    /\ pc[p] \in Early \cup Preparing => manifest[p] = None
    /\ pc[p] \in {"worktree", "manifest"} => ref[p] = commit[p] /\ commit[p] \in objects

(* A fetch follows the configuration, and a clone that replaces the mirror *)
(* replaces nothing.                                                       *)
MirrorInv ==
  /\ \A p \in Procs : pc[p] = "fetch" => fetchSpec = "heads"
  /\ mirror = "absent" => objects = {}

(* The mirror has upstream's commits only.                                 *)
HeadInv == objects \subseteq 0 .. head

(* What a replay has read is what the run it replays still says.           *)
ReadInv ==
  \A p \in Procs :
    commit[p] # None /\ replays[p] # None =>
      manifest[replays[p]] = commit[p] \/ replays[p] \in expired

CacheInv ==
  /\ CacheTypeOK /\ LockInv /\ PruneInv /\ RunInv /\ MirrorInv /\ HeadInv /\ ReadInv
  /\ Replayable /\ NoOrphanRef

LEMMA CacheInitially == ASSUME CacheInit PROVE CacheInv
<1>1. CacheTypeOK
  BY CacheAssumption DEF CacheAssumption, CacheInit, CacheTypeOK, Places, Early, Commits
<1>2. /\ LockInv /\ PruneInv /\ RunInv /\ MirrorInv /\ HeadInv /\ ReadInv
      /\ Replayable /\ NoOrphanRef
  BY CacheAssumption DEF CacheAssumption, CacheInit, LockInv, PruneInv, RunInv, MirrorInv,
     HeadInv, ReadInv, Replayable, NoOrphanRef, Holding, Preparing
<1> QED BY <1>1, <1>2 DEF CacheInv

(* The steps of a release, in four parts, and those of everything else.    *)
Readies(p) ==
  NewRunArtifacts(p) \/ ReadReplay(p) \/ PrepareOpens(p) \/ EnsureMirror(p) \/ Configure(p)
    \/ Fetch(p)
Freezes(p) ==
  Resolve(p) \/ Protect(p) \/ AddWorktree(p) \/ WriteManifest(p) \/ PrepareFails(p) \/ Undo(p)
Leaves(p) == LockGivesUp(p) \/ Used(p) \/ Close(p) \/ Closed(p)
Stops(p) == ContextEnds(p) \/ Crash(p)
World == Push \/ Gc \/ Expire

OneStep ==
  World \/ \E p \in Procs : Stops(p) \/ Prune(p) \/ Readies(p) \/ Freezes(p) \/ Leaves(p)

(* The types.                                                              *)
LEMMA TypeHolds == ASSUME CacheInv, OneStep PROVE CacheTypeOK'
<1> USE CacheAssumption DEF CacheAssumption, CacheInv, CacheTypeOK, Places, Early,
     Preparing, Ended, Commits, Goto, At, procVars, gitVars, fileVars
<1>1. ASSUME World PROVE CacheTypeOK'
  <2>1. CASE Push
    BY <2>1 DEF Push
  <2>2. CASE Gc
    BY <2>2 DEF Gc
  <2>3. CASE Expire
    BY <2>3 DEF Expire
  <2> QED BY <1>1, <2>1, <2>2, <2>3 DEF World
<1>2. ASSUME NEW p \in Procs, Stops(p) PROVE CacheTypeOK'
  <2>1. CASE ContextEnds(p)
    BY <2>1 DEF ContextEnds
  <2>2. CASE Crash(p)
    BY <2>2 DEF Crash
  <2> QED BY <1>2, <2>1, <2>2 DEF Stops
<1>3. ASSUME NEW p \in Procs, Prune(p) PROVE CacheTypeOK'
  <2>1. CASE PruneOpens(p)
    BY <2>1 DEF PruneOpens, Acquire
  <2>2. CASE PruneRef(p)
    BY <2>2 DEF PruneRef, RefAfterPrune
  <2>3. CASE RemoveFiles(p)
    BY <2>3 DEF RemoveFiles
  <2>4. CASE RemoveDir(p)
    BY <2>4 DEF RemoveDir, PruneInv
  <2>5. CASE PruneEnds(p)
    BY <2>5 DEF PruneEnds, Unlocked
  <2>6. CASE PruneFails(p)
    BY <2>6 DEF PruneFails
  <2> QED BY <1>3, <2>1, <2>2, <2>3, <2>4, <2>5, <2>6 DEF Prune
<1>4. ASSUME NEW p \in Procs, Readies(p) PROVE CacheTypeOK'
  <2>1. CASE NewRunArtifacts(p)
    BY <2>1 DEF NewRunArtifacts
  <2>2. CASE ReadReplay(p)
    BY <2>2 DEF ReadReplay
  <2>3. CASE PrepareOpens(p)
    BY <2>3 DEF PrepareOpens, Acquire
  <2>4. CASE EnsureMirror(p)
    BY <2>4 DEF EnsureMirror
  <2>5. CASE Configure(p)
    BY <2>5 DEF Configure, SpecConfigured
  <2>6. CASE Fetch(p)
    BY <2>6 DEF Fetch, BranchFetched
  <2> QED BY <1>4, <2>1, <2>2, <2>3, <2>4, <2>5, <2>6 DEF Readies
<1>5. ASSUME NEW p \in Procs, Freezes(p) PROVE CacheTypeOK'
  <2>1. CASE Resolve(p)
    BY <2>1 DEF Resolve
  <2>2. CASE Protect(p)
    BY <2>2 DEF Protect
  <2>3. CASE AddWorktree(p)
    BY <2>3 DEF AddWorktree
  <2>4. CASE WriteManifest(p)
    BY <2>4 DEF WriteManifest
  <2>5. CASE PrepareFails(p)
    BY <2>5 DEF PrepareFails
  <2>6. CASE Undo(p)
    BY <2>6 DEF Undo
  <2> QED BY <1>5, <2>1, <2>2, <2>3, <2>4, <2>5, <2>6 DEF Freezes
<1>6. ASSUME NEW p \in Procs, Leaves(p) PROVE CacheTypeOK'
  <2>1. CASE LockGivesUp(p)
    BY <2>1 DEF LockGivesUp
  <2>2. CASE Used(p)
    BY <2>2 DEF Used
  <2>3. CASE Close(p)
    BY <2>3 DEF Close, Acquire
  <2>4. CASE Closed(p)
    BY <2>4 DEF Closed
  <2> QED BY <1>6, <2>1, <2>2, <2>3, <2>4 DEF Leaves
<1> QED BY <1>1, <1>2, <1>3, <1>4, <1>5, <1>6 DEF OneStep

(* The lock is taken when it is free, and let go on every way out.         *)
LEMMA LockHolds == ASSUME CacheInv, OneStep PROVE LockInv'
<1> USE CacheAssumption DEF CacheAssumption, CacheInv, CacheTypeOK, LockInv,
     Holding, Preparing, Ended, Goto, At, Acquire, procVars, gitVars, fileVars
<1>1. ASSUME World PROVE LockInv'
  BY <1>1 DEF World, Push, Gc, Reachable, Expire
<1>2. ASSUME NEW p \in Procs, Stops(p) PROVE LockInv'
  BY <1>2 DEF Stops, ContextEnds, Crash
<1>3. ASSUME NEW p \in Procs, Prune(p) PROVE LockInv'
  BY <1>3 DEF Prune, PruneOpens, PruneRef, RefAfterPrune, RemoveFiles, RemoveDir,
     PruneEnds, Unlocked, PruneFails
<1>4. ASSUME NEW p \in Procs, Readies(p) PROVE LockInv'
  BY <1>4 DEF Readies, NewRunArtifacts, ReadReplay, PrepareOpens, EnsureMirror,
     Configure, SpecConfigured, Fetch, BranchFetched
<1>5. ASSUME NEW p \in Procs, Freezes(p) PROVE LockInv'
  BY <1>5 DEF Freezes, Resolve, Protect, AddWorktree, WriteManifest, PrepareFails, Undo
<1>6. ASSUME NEW p \in Procs, Leaves(p) PROVE LockInv'
  BY <1>6 DEF Leaves, LockGivesUp, Used, Close, Closed
<1> QED BY <1>1, <1>2, <1>3, <1>4, <1>5, <1>6 DEF OneStep

(* An ended release takes no step, and no other prune has the lock.        *)
LEMMA PruneHolds == ASSUME CacheInv, OneStep PROVE PruneInv'
<1> USE CacheAssumption DEF CacheAssumption, CacheInv, CacheTypeOK, LockInv,
     PruneInv, Holding, Preparing, Ended, Goto, At, Acquire, procVars, gitVars,
     fileVars
<1>1. ASSUME World PROVE PruneInv'
  BY <1>1 DEF World, Push, Gc, Reachable, Expire
<1>2. ASSUME NEW p \in Procs, Stops(p) PROVE PruneInv'
  BY <1>2 DEF Stops, ContextEnds, Crash
<1>3. ASSUME NEW p \in Procs, Prune(p) PROVE PruneInv'
  BY <1>3 DEF Prune, PruneOpens, PruneRef, RefAfterPrune, RemoveFiles, RemoveDir,
     PruneEnds, Unlocked, PruneFails
<1>4. ASSUME NEW p \in Procs, Readies(p) PROVE PruneInv'
  BY <1>4 DEF Readies, NewRunArtifacts, ReadReplay, PrepareOpens, EnsureMirror,
     Configure, SpecConfigured, Fetch, BranchFetched
<1>5. ASSUME NEW p \in Procs, Freezes(p) PROVE PruneInv'
  BY <1>5 DEF Freezes, Resolve, Protect, AddWorktree, WriteManifest, PrepareFails, Undo
<1>6. ASSUME NEW p \in Procs, Leaves(p) PROVE PruneInv'
  BY <1>6 DEF Leaves, LockGivesUp, Used, Close, Closed
<1> QED BY <1>1, <1>2, <1>3, <1>4, <1>5, <1>6 DEF OneStep

(* A prune removes runs of ended releases only, a fetch no ref.            *)
LEMMA RunHolds == ASSUME CacheInv, OneStep PROVE RunInv'
<1> USE CacheAssumption DEF CacheAssumption, CacheInv, CacheTypeOK, LockInv,
     PruneInv, RunInv, Holding, Preparing, Early, Ended, Goto, At, Acquire,
     procVars, gitVars, fileVars
<1>1. ASSUME World PROVE RunInv'
  BY <1>1 DEF World, Push, Gc, Reachable, Expire
<1>2. ASSUME NEW p \in Procs, Stops(p) PROVE RunInv'
  BY <1>2 DEF Stops, ContextEnds, Crash
<1>3. ASSUME NEW p \in Procs, Prune(p) PROVE RunInv'
  BY <1>3 DEF Prune, PruneOpens, PruneRef, RefAfterPrune, RemoveFiles, RemoveDir,
     PruneEnds, Unlocked, PruneFails
<1>4. ASSUME NEW p \in Procs, Readies(p) PROVE RunInv'
  BY <1>4 DEF Readies, NewRunArtifacts, ReadReplay, PrepareOpens, EnsureMirror,
     Configure, SpecConfigured, Fetch, BranchFetched
<1>5. ASSUME NEW p \in Procs, Freezes(p) PROVE RunInv'
  BY <1>5 DEF Freezes, Resolve, Protect, AddWorktree, WriteManifest, PrepareFails, Undo
<1>6. ASSUME NEW p \in Procs, Leaves(p) PROVE RunInv'
  BY <1>6 DEF Leaves, LockGivesUp, Used, Close, Closed
<1> QED BY <1>1, <1>2, <1>3, <1>4, <1>5, <1>6 DEF OneStep

(* The configuration changes under the lock only.                          *)
LEMMA MirrorHolds == ASSUME CacheInv, OneStep PROVE MirrorInv'
<1> USE CacheAssumption DEF CacheAssumption, CacheInv, CacheTypeOK, LockInv,
     MirrorInv, Holding, Preparing, Goto, At, Acquire, procVars, gitVars,
     fileVars
<1>1. ASSUME World PROVE MirrorInv'
  BY <1>1 DEF World, Push, Gc, Reachable, Expire
<1>2. ASSUME NEW p \in Procs, Stops(p) PROVE MirrorInv'
  BY <1>2 DEF Stops, ContextEnds, Crash
<1>3. ASSUME NEW p \in Procs, Prune(p) PROVE MirrorInv'
  BY <1>3 DEF Prune, PruneOpens, PruneRef, RefAfterPrune, RemoveFiles, RemoveDir,
     PruneEnds, Unlocked, PruneFails
<1>4. ASSUME NEW p \in Procs, Readies(p) PROVE MirrorInv'
  BY <1>4 DEF Readies, NewRunArtifacts, ReadReplay, PrepareOpens, EnsureMirror,
     Configure, SpecConfigured, Fetch, BranchFetched
<1>5. ASSUME NEW p \in Procs, Freezes(p) PROVE MirrorInv'
  BY <1>5 DEF Freezes, Resolve, Protect, AddWorktree, WriteManifest, PrepareFails, Undo
<1>6. ASSUME NEW p \in Procs, Leaves(p) PROVE MirrorInv'
  BY <1>6 DEF Leaves, LockGivesUp, Used, Close, Closed
<1> QED BY <1>1, <1>2, <1>3, <1>4, <1>5, <1>6 DEF OneStep

(* A clone or a fetch brings what upstream has.                            *)
LEMMA HeadHolds == ASSUME CacheInv, OneStep PROVE HeadInv'
<1>1. head \in Nat /\ objects \subseteq 0 .. head
  BY CacheAssumption DEF CacheAssumption, CacheInv, CacheTypeOK, HeadInv, Commits
<1>2. \/ head' = head + 1 /\ objects' = objects
      \/ head' = head /\ objects' \subseteq objects \cup {head}
  BY DEF OneStep, World, Push, Gc, Expire, Stops, ContextEnds, Crash, Prune, PruneOpens, PruneRef,
     RemoveFiles, RemoveDir, PruneEnds, PruneFails, Readies, NewRunArtifacts, ReadReplay,
     PrepareOpens, EnsureMirror, Configure, Fetch, BranchFetched, Freezes, Resolve, Protect,
     AddWorktree, WriteManifest, PrepareFails, Undo, Leaves, LockGivesUp, Used, Close, Closed,
     procVars, gitVars, fileVars
<1>3. head' \in Nat /\ head <= head' BY <1>1, <1>2
<1>4. ASSUME NEW c \in objects' PROVE c \in 0 .. head'
  <2>1. c \in objects \/ c = head BY <1>2
  <2>2. c \in 0 .. head
    <3>1. CASE c \in objects BY <1>1, <3>1
    <3>2. CASE c = head BY <1>1, <3>2
    <3> QED BY <2>1, <3>1, <3>2
  <2> QED BY <1>1, <1>3, <2>2
<1> QED BY <1>4 DEF HeadInv

(* A manifest is written once, and only a prune takes it away.             *)
LEMMA ReadHolds == ASSUME CacheInv, OneStep PROVE ReadInv'
<1> USE CacheAssumption DEF CacheAssumption, CacheInv, CacheTypeOK, PruneInv, RunInv, ReadInv,
     Preparing, Early, Goto, At, procVars, gitVars, fileVars
<1>1. ASSUME World PROVE ReadInv'
  BY <1>1 DEF World, Push, Gc, Reachable, Expire
<1>2. ASSUME NEW p \in Procs, Stops(p) PROVE ReadInv'
  BY <1>2 DEF Stops, ContextEnds, Crash
<1>3. ASSUME NEW p \in Procs, Prune(p) PROVE ReadInv'
  BY <1>3 DEF Prune, PruneOpens, PruneRef, RefAfterPrune, RemoveFiles, RemoveDir,
     PruneEnds, Unlocked, PruneFails
<1>4. ASSUME NEW p \in Procs, Readies(p) PROVE ReadInv'
  BY <1>4 DEF Readies, NewRunArtifacts, ReadReplay, PrepareOpens, EnsureMirror,
     Configure, SpecConfigured, Fetch, BranchFetched
<1>5. ASSUME NEW p \in Procs, Freezes(p) PROVE ReadInv'
  BY <1>5 DEF Freezes, Resolve, Protect, AddWorktree, WriteManifest, PrepareFails, Undo
<1>6. ASSUME NEW p \in Procs, Leaves(p) PROVE ReadInv'
  BY <1>6 DEF Leaves, LockGivesUp, Used, Close, Closed
<1> QED BY <1>1, <1>2, <1>3, <1>4, <1>5, <1>6 DEF OneStep

(* Gc keeps what a ref names, and only a prune takes a ref away.           *)
LEMMA ReplayHolds == ASSUME CacheInv, OneStep PROVE Replayable'
<1> USE CacheAssumption DEF CacheAssumption, CacheInv, CacheTypeOK, LockInv,
     PruneInv, RunInv, MirrorInv, Replayable, Holding, Preparing, Early, Goto,
     At, Acquire, procVars, gitVars, fileVars
<1>1. ASSUME World PROVE Replayable'
  BY <1>1 DEF World, Push, Gc, Reachable, Expire
<1>2. ASSUME NEW p \in Procs, Stops(p) PROVE Replayable'
  BY <1>2 DEF Stops, ContextEnds, Crash
<1>3. ASSUME NEW p \in Procs, Prune(p) PROVE Replayable'
  BY <1>3 DEF Prune, PruneOpens, PruneRef, RefAfterPrune, RemoveFiles, RemoveDir,
     PruneEnds, Unlocked, PruneFails
<1>4. ASSUME NEW p \in Procs, Readies(p) PROVE Replayable'
  BY <1>4 DEF Readies, NewRunArtifacts, ReadReplay, PrepareOpens, EnsureMirror,
     Configure, SpecConfigured, Fetch, BranchFetched
<1>5. ASSUME NEW p \in Procs, Freezes(p) PROVE Replayable'
  BY <1>5 DEF Freezes, Resolve, Protect, AddWorktree, WriteManifest, PrepareFails, Undo
<1>6. ASSUME NEW p \in Procs, Leaves(p) PROVE Replayable'
  BY <1>6 DEF Leaves, LockGivesUp, Used, Close, Closed
<1> QED BY <1>1, <1>2, <1>3, <1>4, <1>5, <1>6 DEF OneStep

(* A directory goes after its ref, and a ref comes after its directory.    *)
LEMMA RefHolds == ASSUME CacheInv, OneStep PROVE NoOrphanRef'
<1> USE CacheAssumption DEF CacheAssumption, CacheInv, CacheTypeOK, LockInv,
     PruneInv, RunInv, NoOrphanRef, Holding, Preparing, Ended, Goto, At,
     Acquire, procVars, gitVars, fileVars
<1>1. ASSUME World PROVE NoOrphanRef'
  BY <1>1 DEF World, Push, Gc, Reachable, Expire
<1>2. ASSUME NEW p \in Procs, Stops(p) PROVE NoOrphanRef'
  BY <1>2 DEF Stops, ContextEnds, Crash
<1>3. ASSUME NEW p \in Procs, Prune(p) PROVE NoOrphanRef'
  BY <1>3 DEF Prune, PruneOpens, PruneRef, RefAfterPrune, RemoveFiles, RemoveDir,
     PruneEnds, Unlocked, PruneFails
<1>4. ASSUME NEW p \in Procs, Readies(p) PROVE NoOrphanRef'
  BY <1>4 DEF Readies, NewRunArtifacts, ReadReplay, PrepareOpens, EnsureMirror,
     Configure, SpecConfigured, Fetch, BranchFetched
<1>5. ASSUME NEW p \in Procs, Freezes(p) PROVE NoOrphanRef'
  BY <1>5 DEF Freezes, Resolve, Protect, AddWorktree, WriteManifest, PrepareFails, Undo
<1>6. ASSUME NEW p \in Procs, Leaves(p) PROVE NoOrphanRef'
  BY <1>6 DEF Leaves, LockGivesUp, Used, Close, Closed
<1> QED BY <1>1, <1>2, <1>3, <1>4, <1>5, <1>6 DEF OneStep

(* Every reachable state satisfies the inductive invariant.                *)
THEOREM CacheInvariant == CacheSpec => []CacheInv
<1>1. ASSUME CacheInv, CacheNext PROVE CacheInv'
  <2>1. OneStep \/ UNCHANGED cacheVars
    BY <1>1 DEF CacheNext, CacheTerminated, OneStep, World, Stops, Step, Prepare, Readies,
       Freezes, Leaves
  <2>2. CASE OneStep
    <3>1. CacheTypeOK' /\ LockInv' /\ PruneInv' /\ RunInv'
      BY <1>1, <2>2, TypeHolds, LockHolds, PruneHolds, RunHolds
    <3>2. MirrorInv' /\ HeadInv' /\ ReadInv' /\ Replayable' /\ NoOrphanRef'
      BY <1>1, <2>2, MirrorHolds, HeadHolds, ReadHolds, ReplayHolds, RefHolds
    <3> QED BY <3>1, <3>2 DEF CacheInv
  <2>3. CASE UNCHANGED cacheVars
    BY <1>1, <2>3 DEF CacheInv, CacheTypeOK, LockInv, PruneInv, RunInv, MirrorInv, HeadInv, ReadInv,
       Replayable, NoOrphanRef, cacheVars, procVars, gitVars, fileVars
  <2> QED BY <2>1, <2>2, <2>3
<1>2. ASSUME CacheInv, UNCHANGED cacheVars PROVE CacheInv'
  BY <1>2 DEF CacheInv, CacheTypeOK, LockInv, PruneInv, RunInv, MirrorInv, HeadInv, ReadInv,
     Replayable, NoOrphanRef, cacheVars, procVars, gitVars, fileVars
<1> QED BY <1>1, <1>2, CacheInitially, PTL DEF CacheSpec

(* A manifest that has not expired can be replayed, whatever any number of *)
(* other releases fetch, prune or leave behind when they die.              *)
THEOREM ManifestsReplay == CacheSpec => []Replayable
<1>1. CacheInv => Replayable
  BY DEF CacheInv
<1> QED BY <1>1, CacheInvariant, PTL

(* A protected ref always belongs to a run that a later prune finds.       *)
THEOREM NoRefIsOrphaned == CacheSpec => []NoOrphanRef
<1>1. CacheInv => NoOrphanRef
  BY DEF CacheInv
<1> QED BY <1>1, CacheInvariant, PTL
-----------------------------------------------------------------------------
(* What releases rely on: module FrozenSources, where a run has frozen     *)
(* what its manifest says.                                                 *)
Fs == INSTANCE FrozenSources
  WITH Runs <- Procs, upstream <- head, available <- objects, frozen <- manifest

LEMMA FsSame ==
  ASSUME UNCHANGED <<replays, head, objects, manifest, expired>> PROVE [Fs!FsNext]_Fs!fsVars
BY DEF Fs!fsVars

(* A mirror that keeps what an unexpired manifest names has kept what it   *)
(* promised.                                                               *)
LEMMA FsRestocks ==
  ASSUME CacheInv', head' \in Commits, UNCHANGED <<replays, head, manifest, expired>>
  PROVE  Fs!Restock
<1>1. objects' \subseteq 0 .. head BY DEF CacheInv, HeadInv
<1>2. Fs!Promised \subseteq objects'
  BY DEF CacheInv, Replayable, Fs!Promised
<1> QED BY <1>1, <1>2 DEF Fs!Restock

(* A manifest that is removed is one of an expired run.                    *)
LEMMA FsForgets ==
  ASSUME CacheInv, NEW p \in Procs, pc[p] = "remove",
         manifest' = [manifest EXCEPT ![victim[p]] = None],
         UNCHANGED <<replays, head, objects, expired>>
  PROVE  Fs!FsNext
<1>1. victim[p] \in expired /\ victim[p] \in Procs
  BY DEF CacheInv, CacheTypeOK, PruneInv
<1>2. Fs!Forget(victim[p]) BY <1>1 DEF Fs!Forget
<1> QED BY <1>1, <1>2 DEF Fs!FsNext

(* A manifest that is written names a commit the mirror has, and for a     *)
(* replay the one that was read.                                           *)
LEMMA FsFreezes ==
  ASSUME CacheInv, NEW p \in Procs, WriteManifest(p) PROVE Fs!FsNext
<1>1. pc[p] = "manifest" /\ manifest' = [manifest EXCEPT ![p] = commit[p]]
      /\ UNCHANGED <<replays, head, objects, expired>>
  BY DEF WriteManifest, At, gitVars
<1>2. manifest[p] = None /\ commit[p] \in objects
  BY <1>1 DEF CacheInv, RunInv, Preparing
<1>3. p \notin expired BY <1>1 DEF CacheInv, PruneInv, Ended
<1>4. commit[p] # None
  BY <1>2, CacheAssumption DEF CacheAssumption, CacheInv, CacheTypeOK
<1>5. Fs!Replays(p, commit[p]) BY <1>4 DEF CacheInv, ReadInv, Fs!Replays
<1>6. Fs!Freeze(p) BY <1>1, <1>2, <1>3, <1>5 DEF Fs!Freeze
<1> QED BY <1>6 DEF Fs!FsNext

LEMMA FsStep == ASSUME CacheInv, CacheInv', [CacheNext]_cacheVars PROVE [Fs!FsNext]_Fs!fsVars
<1>0. head \in Commits /\ head' \in Commits BY DEF CacheInv, CacheTypeOK
<1>1. CASE Push
  <2>1. Fs!Advance BY <1>1 DEF Push, Fs!Advance, procVars, gitVars, fileVars
  <2> QED BY <2>1 DEF Fs!FsNext
<1>2. CASE Gc
  <2>1. Fs!Restock BY <1>0, <1>2, FsRestocks DEF Gc, procVars, fileVars
  <2> QED BY <2>1 DEF Fs!FsNext
<1>3. CASE Expire
  <2>1. PICK p \in runDir : p \notin expired /\ expired' = expired \cup {p}
    BY <1>3 DEF Expire
  <2>2. p \in Procs BY DEF CacheInv, CacheTypeOK
  <2>3. Fs!Expires(p) BY <1>3, <2>1 DEF Expire, Fs!Expires, procVars, gitVars, fileVars
  <2> QED BY <2>2, <2>3 DEF Fs!FsNext
<1>4. ASSUME NEW p \in Procs, Stops(p) \/ Leaves(p) PROVE [Fs!FsNext]_Fs!fsVars
  BY <1>4, FsSame DEF Stops, Leaves, ContextEnds, Crash, LockGivesUp, Used, Close, Closed,
     procVars, gitVars, fileVars
<1>5. ASSUME NEW p \in Procs, Prune(p) PROVE [Fs!FsNext]_Fs!fsVars
  <2>1. CASE RemoveFiles(p) \/ RemoveDir(p)
    BY <2>1, FsForgets DEF RemoveFiles, RemoveDir, At, procVars, gitVars
  <2>2. CASE PruneOpens(p) \/ PruneRef(p) \/ PruneEnds(p) \/ PruneFails(p)
    BY <2>2, FsSame DEF PruneOpens, PruneRef, PruneEnds, PruneFails, gitVars, fileVars
  <2> QED BY <1>5, <2>1, <2>2 DEF Prune
<1>6. ASSUME NEW p \in Procs, Readies(p) PROVE [Fs!FsNext]_Fs!fsVars
  <2>1. CASE EnsureMirror(p) \/ Fetch(p)
    <3>1. Fs!Restock BY <1>0, <2>1, FsRestocks DEF EnsureMirror, Fetch, fileVars
    <3> QED BY <3>1 DEF Fs!FsNext
  <2>2. CASE NewRunArtifacts(p) \/ ReadReplay(p) \/ PrepareOpens(p) \/ Configure(p)
    BY <2>2, FsSame DEF NewRunArtifacts, ReadReplay, PrepareOpens, Configure, gitVars, fileVars
  <2> QED BY <1>6, <2>1, <2>2 DEF Readies
<1>7. ASSUME NEW p \in Procs, Freezes(p) PROVE [Fs!FsNext]_Fs!fsVars
  <2>1. CASE WriteManifest(p) BY <2>1, FsFreezes
  <2>2. CASE Resolve(p) \/ Protect(p) \/ AddWorktree(p) \/ PrepareFails(p) \/ Undo(p)
    BY <2>2, FsSame DEF Resolve, Protect, AddWorktree, PrepareFails, Undo, gitVars, fileVars
  <2> QED BY <1>7, <2>1, <2>2 DEF Freezes
<1>8. CASE UNCHANGED cacheVars
  BY <1>8, FsSame DEF cacheVars, procVars, gitVars, fileVars
<1> QED
  BY <1>1, <1>2, <1>3, <1>4, <1>5, <1>6, <1>7, <1>8
  DEF CacheNext, CacheTerminated, Stops, Step, Prepare, Readies, Freezes, Leaves

(* The cache keeps what it promises to the releases: a run freezes one     *)
(* commit, which stays available until the run expires, and a replay       *)
(* freezes the commit of the run it replays.                               *)
THEOREM SourcesStayFrozen == CacheSpec => Fs!FsSpec
<1>1. CacheInit => Fs!FsInit
  BY DEF CacheInit, Fs!FsInit
<1>2. CacheInv /\ CacheInv' /\ [CacheNext]_cacheVars => [Fs!FsNext]_Fs!fsVars
  BY FsStep
<1> QED BY <1>1, <1>2, CacheInvariant, PTL DEF CacheSpec, Fs!FsSpec
=============================================================================
