---------------------------- MODULE FrozenSources ----------------------------
(***************************************************************************)
(* What releases rely on when they share a source cache, without a mirror, *)
(* a ref, a lock or a process: a release freezes one commit, once; the     *)
(* commit stays available until the run expires; nothing takes it away but *)
(* the expiry; and a replay freezes the commit of the run it replays.      *)
(* Module SourceCache is the detailed account.                             *)
(***************************************************************************)
EXTENDS Integers

CONSTANTS Runs, None

VARIABLES
  replays,    \* the run whose commit is to be frozen again; None = the latest
  upstream,   \* the newest commit of the branch
  available,  \* the commits that can be checked out from the cache
  frozen,     \* the commit of each run
  expired     \* the runs that may be forgotten

fsVars == <<replays, upstream, available, frozen, expired>>

FsInit ==
  /\ replays \in [Runs -> Runs \cup {None}]
  /\ upstream = 0 /\ available = {}
  /\ frozen = [r \in Runs |-> None] /\ expired = {}

Advance ==
  /\ upstream' = upstream + 1
  /\ UNCHANGED <<replays, available, frozen, expired>>

(* Whatever the cache fetches or drops, it keeps what it has promised.     *)
Promised == {frozen[r] : r \in {q \in Runs \ expired : frozen[q] # None}}

Restock ==
  /\ available' \in SUBSET (0 .. upstream)
  /\ Promised \subseteq available'
  /\ UNCHANGED <<replays, upstream, frozen, expired>>

(* The run that is replayed may have been forgotten meanwhile.             *)
Replays(r, c) == replays[r] # None => frozen[replays[r]] = c \/ replays[r] \in expired

Freeze(r) ==
  /\ frozen[r] = None /\ r \notin expired
  /\ \E c \in available : Replays(r, c) /\ frozen' = [frozen EXCEPT ![r] = c]
  /\ UNCHANGED <<replays, upstream, available, expired>>

Expires(r) ==
  /\ r \notin expired /\ expired' = expired \cup {r}
  /\ UNCHANGED <<replays, upstream, available, frozen>>

Forget(r) ==
  /\ r \in expired /\ frozen' = [frozen EXCEPT ![r] = None]
  /\ UNCHANGED <<replays, upstream, available, expired>>

FsNext == Advance \/ Restock \/ \E r \in Runs : Freeze(r) \/ Expires(r) \/ Forget(r)

FsSpec == FsInit /\ [][FsNext]_fsVars
=============================================================================
