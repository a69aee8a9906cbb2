------------------------- MODULE SessionCommitProofs -------------------------
(***************************************************************************)
(* What the operators that wait for a commit do not depend on bounds for:  *)
(* the plugin's operator misses no commit that the session counts, and no  *)
(* operator gives up early on what time heals, and what is accepted as     *)
(* committed is.  The last needs to know how the sum over a set of tasks   *)
(* behaves when the set and the summands grow.                             *)
(***************************************************************************)
EXTENDS SessionCommitProps, FiniteSetTheorems, WellFoundedInduction, TLAPS

ScTypeOK ==
  /\ op \in {"commit", "ready", "plugin"} /\ attempt \in Nat /\ taskID \in Int
  /\ counted \in Nat /\ listed \in Nat
  /\ task \in [Own \cup {Foreign} -> {"running", "completed", "failed"}]

(* The server counts a commit before it lists its task, and an operator    *)
(* that commits by itself is alone and commits once.                       *)
CountInv ==
  /\ listed <= counted /\ counted <= MaxCommits
  /\ at = "commit" => op = "commit" /\ ~flaw
  /\ op = "commit" =>
       /\ counted = listed /\ listed <= 1
       /\ at \in {"commit"} \cup Ended \/ (at \in {"attempt", "status", "diff"} /\ taskID = 1)

(* What the operator holds belongs to the session: the task it follows,    *)
(* those it has still to read, and those it has read, which are completed. *)
HeldInv ==
  /\ taskID # NoTask => taskID \in 1 .. listed
  /\ at = "status" => taskID # NoTask
  /\ toRead \subseteq 1 .. listed /\ (at = "each" => toRead # {})
  /\ payloads \subseteq {t \in 1 .. listed : task[t] = "completed"}
  /\ at = "get" /\ op = "plugin" => payloads # {}

ScInv == ScTypeOK /\ CountInv /\ HeldInv

LEMMA Constants == /\ Retry \in Nat /\ MinCommits \in Nat /\ MaxCommits \in Nat /\ MaxCommits > 0
                   /\ Ops \subseteq {"commit", "ready", "plugin"} /\ NoTask \notin Nat
BY SessionAssumption DEF SessionAssumption, NoTask

(* The newest of the listed tasks is one of them.                          *)
LEMMA MaxOf ==
  ASSUME NEW n \in Nat, NEW S \in SUBSET (1 .. n), S # {}
  PROVE  Max(S) \in S
<1> DEFINE T == {m \in Nat : n - m \in S}
<1>1. T \subseteq Nat /\ T # {}
  <2>1. PICK x \in S : TRUE
    OBVIOUS
  <2>2. x \in 1 .. n /\ n - x \in Nat /\ n - (n - x) = x
    OBVIOUS
  <2> QED BY <2>1, <2>2
<1>2. PICK m \in T : \A k \in T : ~(<<k, m>> \in OpToRel(<, Nat))
  BY <1>1, NatLessThanWellFounded, WFMin
<1>3. \A k \in T : ~(k < m)
  BY <1>1, <1>2 DEF OpToRel
<1>4. m \in Nat /\ n - m \in S
  OBVIOUS
<1>5. \A y \in S : n - m >= y
  <2> SUFFICES ASSUME NEW y \in S PROVE n - m >= y
    OBVIOUS
  <2>1. y \in 1 .. n /\ n - y \in Nat /\ n - (n - y) = y
    OBVIOUS
  <2>2. n - y \in T
    BY <2>1
  <2>3. ~(n - y < m)
    BY <1>3, <2>2
  <2> HIDE DEF T
  <2> QED BY <1>4, <2>1, <2>3
<1> QED BY <1>4, <1>5 DEF Max

LEMMA ScInitially == ASSUME ScInit PROVE ScInv
<1>1. op \in {"commit", "ready", "plugin"} /\ at = IF op = "commit" THEN "commit" ELSE "attempt"
  BY Constants DEF ScInit
<1>2. ScTypeOK
  BY <1>1 DEF ScInit, ScTypeOK, NoTask
<1>3. CountInv
  BY <1>1, Constants DEF ScInit, CountInv
<1>4. HeldInv
  BY <1>1 DEF ScInit, HeldInv
<1> QED BY <1>2, <1>3, <1>4 DEF ScInv

(* What the operator does between two requests, and with one that is not   *)
(* answered, leaves what it holds alone, or follows the next way around.   *)
Decides == NotYet \/ GiveUp

LEMMA DecidingKeeps ==
  ASSUME ScInv, at \notin {"commit"} \cup Ended, Decides, UNCHANGED <<op, serverVars>>
  PROVE  ScInv'
<1>1. at' \in {"attempt", "error", "exhausted"} /\ UNCHANGED <<taskID, toRead, payloads>>
  BY DEF Decides, NotYet, GiveUp, TryAgain
<1>2. attempt' \in Nat
  BY DEF Decides, NotYet, GiveUp, TryAgain, NextAttempt, ScInv, ScTypeOK
<1>3. ScTypeOK'
  BY <1>1, <1>2 DEF ScInv, ScTypeOK, serverVars
<1>4. CountInv'
  BY <1>1 DEF ScInv, CountInv, serverVars, Ended
<1>5. HeldInv'
  BY <1>1 DEF ScInv, HeldInv, serverVars
<1> QED BY <1>3, <1>4, <1>5 DEF ScInv

LEMMA ServerKeeps ==
  ASSUME ScInv, Archive \/ StartTask \/ FinishTask \/ ContextEnds \/ UNCHANGED scVars
  PROVE  ScInv'
<1>1. UNCHANGED pollVars /\ op \in {"commit", "ready", "plugin"}
  BY DEF Archive, StartTask, FinishTask, ContextEnds, scVars, ScInv, ScTypeOK
<1>2. CASE Archive
  BY <1>1, <1>2, Constants DEF ScInv, ScTypeOK, CountInv, HeldInv, Archive, pollVars
<1>3. CASE StartTask
  BY <1>1, <1>3, Constants DEF ScInv, ScTypeOK, CountInv, HeldInv, StartTask, pollVars
<1>4. CASE FinishTask
  <2>1. PICK t \in (1 .. listed) \cup {Foreign} :
          /\ task[t] = "running"
          /\ task' = [task EXCEPT ![t] = "completed"] \/ task' = [task EXCEPT ![t] = "failed"]
    BY <1>4 DEF FinishTask
  <2>2. counted' = counted /\ listed' = listed
    BY <1>4 DEF FinishTask
  <2>3. /\ task' \in [Own \cup {Foreign} -> {"running", "completed", "failed"}]
        /\ \A x \in Own \cup {Foreign} : task[x] = "completed" => task'[x] = "completed"
    BY <2>1 DEF ScInv, ScTypeOK
  <2>4. 1 .. listed \subseteq Own
    BY Constants DEF ScInv, ScTypeOK, CountInv, Own
  <2> QED BY <1>1, <2>2, <2>3, <2>4 DEF ScInv, ScTypeOK, CountInv, HeldInv, pollVars
<1>5. CASE ContextEnds \/ UNCHANGED scVars
  BY <1>1, <1>5 DEF ScInv, ScTypeOK, CountInv, HeldInv, ContextEnds, scVars, serverVars, pollVars
<1> QED BY <1>2, <1>3, <1>4, <1>5

LEMMA AttemptStep == ASSUME ScInv, BeginAttempt PROVE ScInv'
<1>1. at = "attempt"
      /\ UNCHANGED <<op, attempt, taskID, toRead, payloads, claims, flaw, serverVars>>
  BY DEF BeginAttempt
<1>2. at' \in {"aborted", "get", "discover", "status"} /\ (at' = "status" => taskID # NoTask)
      /\ (at' = "get" => op = "ready")
  BY DEF BeginAttempt
<1>3. op = "commit" => at' \in {"aborted", "status"}
  <2> SUFFICES ASSUME op = "commit" PROVE at' \in {"aborted", "status"}
    OBVIOUS
  <2>1. taskID = 1
    BY <1>1 DEF ScInv, CountInv, Ended
  <2> QED BY <2>1 DEF BeginAttempt, NoTask
<1> QED BY <1>1, <1>2, <1>3 DEF ScInv, ScTypeOK, CountInv, HeldInv, serverVars, Ended

LEMMA CommitStep == ASSUME ScInv, Commit PROVE ScInv'
<1>1. at = "commit" /\ op = "commit" /\ op' = op /\ ~flaw /\ UNCHANGED <<task, yield>>
  BY DEF Commit, Request, ScInv, CountInv
<1>2. CASE /\ at' = "attempt" /\ taskID' = 1
           /\ UNCHANGED <<attempt, toRead, payloads, claims, flaw>>
  <2>1. counted' = 1 /\ listed' = 1
    BY <1>1, <1>2 DEF Commit
  <2>2. listed <= 1 /\ listed \in Nat
    BY <1>1 DEF ScInv, CountInv, ScTypeOK
  <2> QED BY <1>1, <1>2, <2>1, <2>2, Constants
          DEF ScInv, ScTypeOK, CountInv, HeldInv, serverVars, Ended
<1>3. CASE GiveUp
  <2>1. counted' \in {1, counted} /\ listed' \in {1, listed}
        /\ (counted' = counted <=> listed' = listed)
    BY <1>1 DEF Commit, ScInv, CountInv
  <2>2. listed <= 1 /\ listed \in Nat /\ counted = listed
    BY <1>1 DEF ScInv, CountInv, ScTypeOK
  <2> QED BY <1>1, <1>3, <2>1, <2>2, Constants
          DEF GiveUp, ScInv, ScTypeOK, CountInv, HeldInv, serverVars, Ended
<1> QED BY <1>2, <1>3 DEF Commit, Request

(* An answer that no operator decides on is kept.                          *)
LEMMA GoingOnKeeps ==
  ASSUME ScInv, at \notin {"commit"} \cup Ended, UNCHANGED <<op, attempt, serverVars>>,
         at' \notin {"commit", "attempt"},
         op = "commit" => at' = "diff" \/ at' = "ok",
         taskID' \in {taskID} \cup 1 .. listed, at' = "status" => taskID' \in 1 .. listed,
         op = "commit" => taskID' = taskID,
         toRead' \subseteq 1 .. listed, at' = "each" => toRead' # {},
         payloads' \subseteq {t \in 1 .. listed : task[t] = "completed"},
         at' = "get" => payloads' # {}
  PROVE  ScInv'
<1>1. listed \in Nat /\ taskID' \in Int
  BY DEF ScInv, ScTypeOK
<1>2. ScTypeOK'
  BY <1>1 DEF ScInv, ScTypeOK, serverVars
<1>3. CountInv'
  BY DEF ScInv, CountInv, serverVars, Ended
<1>4. HeldInv'
  BY <1>1 DEF ScInv, HeldInv, serverVars, NoTask
<1> QED BY <1>2, <1>3, <1>4 DEF ScInv

LEMMA Listed ==
  ASSUME ScInv, Listing # {}
  PROVE  Listing = 1 .. listed /\ Max(Listing) \in 1 .. listed
<1>1. listed \in Nat /\ Listing = 1 .. listed
  BY DEF ScInv, ScTypeOK, Listing, ExactTasks, Foreign
<1> QED BY <1>1, MaxOf

LEMMA DiscoverStep == ASSUME ScInv, Discover PROVE ScInv'
<1>1. at = "discover" /\ UNCHANGED <<op, serverVars>> /\ op # "commit"
  BY DEF Discover, Request, ScInv, CountInv, Ended
<1>2. CASE NotYet
  BY <1>1, <1>2, DecidingKeeps DEF Decides, Ended
<1>3. CASE /\ Listing # {} /\ taskID' = Max(Listing) /\ at' = "status"
           /\ UNCHANGED <<attempt, toRead, payloads, claims>>
  <2>1. taskID' \in 1 .. listed
    BY <1>3, Listed
  <2> QED BY <1>1, <1>3, <2>1, GoingOnKeeps DEF ScInv, HeldInv, Ended
<1> QED BY <1>2, <1>3 DEF Discover, Request

LEMMA StatusStep == ASSUME ScInv, Status PROVE ScInv'
<1>1. at = "status" /\ UNCHANGED <<op, serverVars>>
  BY DEF Status, Request
<1>2. CASE NotYet \/ GiveUp
  BY <1>1, <1>2, DecidingKeeps DEF Decides, Ended
<1>3. CASE /\ task[taskID] = "completed" /\ op = "plugin"
           /\ GoOn("list") /\ UNCHANGED <<toRead, payloads, claims>>
  BY <1>1, <1>3, GoingOnKeeps DEF ScInv, HeldInv, Ended, GoOn
<1>4. CASE /\ task[taskID] = "completed" /\ op = "commit"
           /\ GoOn("diff") /\ payloads' = {taskID} /\ UNCHANGED <<toRead, claims>>
  <2>1. taskID \in 1 .. listed
    BY <1>1 DEF ScInv, HeldInv
  <2> QED BY <1>1, <1>4, <2>1, GoingOnKeeps DEF ScInv, HeldInv, Ended, GoOn
<1> QED BY <1>2, <1>3, <1>4 DEF Status, Request, Follow, EitherWay

LEMMA ListStep == ASSUME ScInv, List PROVE ScInv'
<1>1. at = "list" /\ UNCHANGED <<op, serverVars>> /\ op # "commit"
  BY DEF List, Request, ScInv, CountInv, Ended
<1>2. CASE NotYet
  BY <1>1, <1>2, DecidingKeeps DEF Decides, Ended
<1>3. CASE Listing # {} /\ GoOn("each") /\ toRead' = Listing /\ payloads' = {} /\ UNCHANGED claims
  BY <1>1, <1>3, Listed, GoingOnKeeps DEF ScInv, HeldInv, Ended, GoOn
<1> QED BY <1>2, <1>3 DEF List, Request

LEMMA EachStep == ASSUME ScInv, Each PROVE ScInv'
<1>1. at = "each" /\ UNCHANGED <<op, serverVars>> /\ op # "commit"
  BY DEF Each, Request, ScInv, CountInv, Ended
<1>2. CASE NotYet \/ GiveUp
  BY <1>1, <1>2, DecidingKeeps DEF Decides, Ended
<1> DEFINE t == Max(toRead)
<1>3. t \in toRead /\ toRead \subseteq 1 .. listed
  BY <1>1, MaxOf DEF ScInv, HeldInv, ScTypeOK
<1>4. CASE /\ task[t] = "completed"
           /\ payloads' = payloads \cup {t} /\ toRead' = toRead \ {t}
           /\ GoOn(IF toRead = {t} THEN "get" ELSE "each") /\ UNCHANGED claims
  <2> HIDE DEF t
  <2>1. at' \in {"get", "each"} /\ (at' = "each" => toRead' # {}) /\ UNCHANGED <<attempt, taskID>>
    BY <1>3, <1>4 DEF GoOn
  <2>2. payloads' \subseteq {x \in 1 .. listed : task[x] = "completed"} /\ payloads' # {}
    BY <1>3, <1>4 DEF ScInv, HeldInv
  <2> QED BY <1>1, <1>3, <1>4, <2>1, <2>2, GoingOnKeeps DEF Ended
<1> QED BY <1>2, <1>4 DEF Each, Request, Payload, EitherWay

LEMMA GetStep == ASSUME ScInv, Get PROVE ScInv'
<1>1. at = "get" /\ UNCHANGED <<op, serverVars>> /\ op # "commit"
  BY DEF Get, Request, ScInv, CountInv, Ended
<1>2. CASE NotYet \/ GiveUp
  BY <1>1, <1>2, DecidingKeeps DEF Decides, Ended
<1>3. CASE (GoOn("diff") \/ GoOn("ok")) /\ UNCHANGED <<toRead, payloads, claims>>
  BY <1>1, <1>3, GoingOnKeeps DEF ScInv, HeldInv, Ended, GoOn
<1> QED BY <1>2, <1>3 DEF Get, Request, Judge, Ready, Uncovered, EitherWay

LEMMA DiffStep == ASSUME ScInv, Diff PROVE ScInv'
<1>1. at = "diff" /\ UNCHANGED <<op, serverVars>>
  BY DEF Diff, Request
<1>2. CASE GiveUp
  BY <1>1, <1>2, DecidingKeeps DEF Decides, Ended
<1>3. CASE GoOn("ok") /\ claims' = payloads /\ UNCHANGED <<toRead, payloads>>
  BY <1>1, <1>3, GoingOnKeeps DEF ScInv, HeldInv, Ended, GoOn
<1> QED BY <1>2, <1>3 DEF Diff, Request

(* Every reachable state satisfies the inductive invariant.                *)
THEOREM SessionInvariant == ScSpec => []ScInv
<1>1. ASSUME ScInv, [ScNext]_scVars PROVE ScInv'
  BY <1>1, ServerKeeps, AttemptStep, CommitStep, DiscoverStep, StatusStep, ListStep, EachStep,
     GetStep, DiffStep DEF ScNext, Poll, ScTerminated
<1> QED BY <1>1, ScInitially, PTL DEF ScSpec

(* Tasks that are all completed, and cover what the session counts, are    *)
(* all of the session's.                                                   *)
LEMMA CoveringIsAll == ASSUME ScInv, Covers PROVE payloads = 1 .. counted
<1>1. counted \in Nat /\ listed \in Nat /\ listed <= counted /\ payloads \subseteq 1 .. listed
  BY DEF ScInv, ScTypeOK, CountInv, HeldInv
<1>2. IsFiniteSet(1 .. counted) /\ Cardinality(1 .. counted) = counted
  BY <1>1, FS_Interval
<1>3. payloads \in SUBSET (1 .. counted)
  BY <1>1
<1>4. IsFiniteSet(payloads) /\ Cardinality(payloads) <= counted
  BY <1>2, <1>3, FS_Subset
<1>5. Cardinality(payloads) = counted
  BY <1>1, <1>4, FS_CardinalityType DEF Covers
<1> QED BY <1>2, <1>3, <1>5, FS_Subset

(* Whatever the plugin commits while its operator polls, the operator does *)
(* not go on to the claims before it has the result of every commit that   *)
(* the session counts.                                                     *)
THEOREM NoneIsMissed == ScSpec => NoCommitMissed
<1>1. ASSUME ScInv, [ScNext]_scVars, at = "get", op = "plugin", at' = "diff"
      PROVE  payloads = 1 .. counted
  <2>1. Get
    BY <1>1 DEF ScNext, Poll, BeginAttempt, Commit, Discover, Status, List, Each, Diff, Request,
       Archive, StartTask, FinishTask, ContextEnds, ScTerminated, scVars, pollVars
  <2>2. Covers
    BY <1>1, <2>1 DEF Get, Request, GiveUp, Judge, NotYet, Uncovered, TryAgain
  <2> QED BY <1>1, <2>2, CoveringIsAll
<1>2. ScInv /\ [ScNext]_scVars
        => [at = "get" /\ op = "plugin" /\ at' = "diff" => payloads = 1 .. counted]_scVars
  BY <1>1
<1> QED BY <1>2, SessionInvariant, PTL DEF ScSpec, NoCommitMissed

(* An operator that gives up before its last attempt has a reason that     *)
(* waiting would not take away.  A plugin's operator that asks for more    *)
(* than one commit gives up as soon as those it sees are extracted, so     *)
(* this is proved, as every case has it, for at most one.                  *)
THEOREM NoRefusalIsHasty == ASSUME MinCommits <= 1 PROVE ScSpec => NoHastyRefusal
<1>1. ASSUME ScInv, [ScNext]_scVars, at # "error", at' = "error", attempt < Retry
      PROVE  Hopeless
  <2>1. attempt \in Nat /\ counted \in Nat /\ listed \in Nat /\ Retry \in Nat
    BY <1>1, Constants DEF ScInv, ScTypeOK
  <2>2. ~NotYet
    BY <1>1, <2>1 DEF NotYet, Last, TryAgain
  <2> SUFFICES ASSUME ~flaw' PROVE Hopeless
    BY DEF Hopeless
  <2>3. Status \/ Each \/ Get
    BY <1>1, <2>2 DEF ScNext, Poll, BeginAttempt, Commit, Discover, List, Diff, Request, GoOn,
       Archive, StartTask, FinishTask, ContextEnds, ScTerminated, scVars, pollVars
  <2>4. CASE Status
    <3>1. at = "status" /\ Follow
      BY <2>4 DEF Status, Request
    <3>2. taskID \in 1 .. listed
      BY <1>1, <3>1 DEF ScInv, HeldInv
    <3>3. CASE task[taskID] = "failed"
      BY <3>2, <3>3 DEF Hopeless
    <3>4. CASE task[taskID] = "completed" /\ op = "commit" /\ TooFew({taskID})
      <4>1. counted = listed /\ listed <= 1
        BY <1>1, <3>4 DEF ScInv, CountInv
      <4>2. 1 .. counted = {taskID} /\ 1 .. listed = {taskID}
        BY <2>1, <3>2, <4>1
      <4> QED BY <3>4, <4>2 DEF Hopeless, Finished, TooFew
    <3> QED BY <1>1, <2>2, <3>1, <3>3, <3>4 DEF Follow, GoOn
  <2>5. CASE Each
    <3>1. at = "each" /\ Payload(Max(toRead))
      BY <2>5 DEF Each, Request
    <3>2. Max(toRead) \in 1 .. listed
      BY <1>1, <2>1, <3>1, MaxOf DEF ScInv, HeldInv
    <3>3. task[Max(toRead)] = "failed"
      BY <1>1, <2>2, <3>1 DEF Payload, GoOn
    <3> QED BY <3>2, <3>3 DEF Hopeless
  <2>6. CASE Get
    <3>1. at = "get" /\ op = "plugin" /\ Judge
      BY <1>1, <2>2, <2>6 DEF Get, Request, Ready, GoOn
    <3>2. payloads # {} /\ payloads \subseteq {t \in 1 .. listed : task[t] = "completed"}
      BY <1>1, <3>1 DEF ScInv, HeldInv
    <3>3. counted >= 1
      <4>1. PICK t \in payloads : TRUE
        BY <3>2
      <4>2. t \in 1 .. listed /\ listed <= counted
        BY <1>1, <3>2, <4>1 DEF ScInv, CountInv
      <4> QED BY <2>1, <4>2
    <3>4. Covers /\ TooFew(payloads)
      BY <1>1, <2>1, <2>2, <3>1, <3>3, Constants DEF Judge, Uncovered, GoOn
    <3>5. payloads = 1 .. counted
      BY <1>1, <3>4, CoveringIsAll
    <3> QED BY <3>2, <3>4, <3>5 DEF Hopeless, Finished, TooFew
  <2> QED BY <2>3, <2>4, <2>5, <2>6
<1>2. ScInv /\ [ScNext]_scVars
        => [at # "error" /\ at' = "error" /\ attempt < Retry => Hopeless]_scVars
  BY <1>1
<1> QED BY <1>2, SessionInvariant, PTL DEF ScSpec, NoHastyRefusal
-----------------------------------------------------------------------------
(* How many memories a set of tasks has extracted is a sum over the set,   *)
(* which the library defines by a recursive function.  Step is one step of *)
(* it; that the function exists, is unique, and what it computes is proved *)
(* by looking at a smallest set for which it would be wrong.               *)
Sum(y, S) == MapThenSumSet(LAMBDA t : y[t], S)
First(s) == CHOOSE x \in s : TRUE
Step(y, g, s) == IF s = {} THEN 0 ELSE y[First(s)] + g[s \ {First(s)}]
Recurs(y, D, g) == \A s \in D : g[s] = Step(y, g, s)
SumsUpTo(y, D, g) == g \in [D -> Nat] /\ Recurs(y, D, g)

(* A set of naturals has a least one.                                      *)
LEMMA Least ==
  ASSUME NEW T \in SUBSET Nat, T # {}
  PROVE  \E m \in T : \A k \in T : m <= k
<1>1. PICK m \in T : \A k \in T : ~(<<k, m>> \in OpToRel(<, Nat))
  BY NatLessThanWellFounded, WFMin
<1>2. \A k \in T : ~(k < m)
  BY <1>1 DEF OpToRel
<1>3. \A k \in T : m <= k
  BY <1>2
<1> QED BY <1>3

LEMMA Removed ==
  ASSUME NEW S, IsFiniteSet(S), S # {}, NEW x \in S
  PROVE  /\ First(S) \in S /\ IsFiniteSet(S \ {x}) /\ Cardinality(S) \in Nat
         /\ Cardinality(S \ {x}) = Cardinality(S) - 1 /\ Cardinality(S \ {x}) \in Nat
BY FS_RemoveElement, FS_CardinalityType DEF First

(* There is a function with the recurrence, by the size of its arguments.  *)
LEMMA SmallSums ==
  ASSUME NEW S, IsFiniteSet(S), NEW y, \A x \in S : y[x] \in Nat, NEW n \in Nat
  PROVE  \E g : SumsUpTo(y, {s \in SUBSET S : Cardinality(s) <= n}, g)
<1> DEFINE D(k) == {s \in SUBSET S : Cardinality(s) <= k}
           T == {k \in Nat : ~\E g : SumsUpTo(y, D(k), g)}
<1> SUFFICES ASSUME T # {} PROVE FALSE
  OBVIOUS
<1>1. PICK m \in T : \A k \in T : m <= k
  BY Least
<1>f. \A s \in SUBSET S :
        IsFiniteSet(s) /\ Cardinality(s) \in Nat /\ (Cardinality(s) = 0 <=> s = {})
  BY FS_Subset, FS_CardinalityType, FS_EmptySet
<1>2. CASE m = 0
  <2> DEFINE g == [s \in D(0) |-> 0]
  <2>1. \A s \in D(0) : s = {}
    BY <1>f
  <2>2. SumsUpTo(y, D(0), g)
    BY <2>1 DEF Recurs, SumsUpTo, Step
  <2> QED BY <1>1, <1>2, <2>2
<1>3. CASE m # 0
  <2>1. m - 1 \in Nat /\ m - 1 \notin T
    <3>1. m - 1 \in Nat /\ ~(m <= m - 1)
      BY <1>3
    <3> HIDE DEF T
    <3> QED BY <1>1, <3>1
  <2>2. PICK g : SumsUpTo(y, D(m - 1), g)
    BY <2>1
  <2> DEFINE h == [s \in D(m) |-> Step(y, g, s)]
  <2>3. ASSUME NEW s \in D(m), s # {}
        PROVE  s \ {First(s)} \in D(m - 1) /\ s \ {First(s)} \in D(m) /\ First(s) \in S
    <3>1. IsFiniteSet(s) /\ First(s) \in s /\ Cardinality(s) <= m
      BY <1>f, <2>3 DEF First
    <3>2. Cardinality(s \ {First(s)}) = Cardinality(s) - 1 /\ Cardinality(s) \in Nat
      BY <2>3, <3>1, Removed
    <3> QED BY <1>1, <2>1, <3>1, <3>2
  <2>4. \A s \in D(m) : h[s] \in Nat
    <3> SUFFICES ASSUME NEW s \in D(m) PROVE Step(y, g, s) \in Nat
      OBVIOUS
    <3> QED BY <2>2, <2>3 DEF Step, SumsUpTo, Recurs
  <2>5. \A s \in D(m - 1) : s \in D(m) /\ h[s] = g[s]
    <3>1. D(m - 1) \subseteq D(m)
      BY <1>f, <1>1
    <3> QED BY <2>2, <3>1 DEF Recurs, SumsUpTo
  <2>6. \A s \in D(m) : h[s] = Step(y, h, s)
    <3> SUFFICES ASSUME NEW s \in D(m) PROVE Step(y, g, s) = Step(y, h, s)
      OBVIOUS
    <3> HIDE DEF h
    <3> QED BY <2>3, <2>5 DEF Step
  <2>7. SumsUpTo(y, D(m), h)
    BY <2>4, <2>6 DEF Recurs, SumsUpTo
  <2> QED BY <1>1, <2>7
<1> QED BY <1>2, <1>3

(* There is only one.                                                      *)
LEMMA SumsAgree ==
  ASSUME NEW S, IsFiniteSet(S), NEW U \in SUBSET S, NEW y,
         NEW g, NEW h, Recurs(y, SUBSET S, g), Recurs(y, SUBSET U, h), NEW w \in SUBSET U
  PROVE  g[w] = h[w]
<1> DEFINE T == {Cardinality(s) : s \in {u \in SUBSET U : g[u] # h[u]}}
<1>f. \A s \in SUBSET U : IsFiniteSet(s) /\ Cardinality(s) \in Nat /\ s \in SUBSET S
  BY FS_Subset, FS_CardinalityType
<1>1. SUFFICES ASSUME T # {} PROVE FALSE
  <2> SUFFICES ASSUME g[w] # h[w] PROVE Cardinality(w) \in T
    OBVIOUS
  <2> QED OBVIOUS
<1>2. PICK m \in T : \A k \in T : m <= k
  <2>1. T \in SUBSET Nat
    BY <1>f
  <2> HIDE DEF T
  <2> QED BY <2>1, <1>1, Least
<1>3. PICK s \in SUBSET U : g[s] # h[s] /\ Cardinality(s) = m
  BY <1>2
<1>4. g[s] = Step(y, g, s) /\ h[s] = Step(y, h, s)
  BY <1>f DEF Recurs, SumsUpTo
<1>5. s # {}
  BY <1>3, <1>4 DEF Step
<1>6. First(s) \in s /\ Cardinality(s \ {First(s)}) = Cardinality(s) - 1
  <2>1. First(s) \in s
    BY <1>5 DEF First
  <2> QED BY <1>5, <1>f, <2>1, Removed
<1>7. Cardinality(s \ {First(s)}) \notin T
  <2>1. ~(m <= Cardinality(s \ {First(s)}))
    BY <1>3, <1>6, <1>f
  <2> HIDE DEF T
  <2> QED BY <2>1, <1>2
<1>8. g[s \ {First(s)}] = h[s \ {First(s)}]
  BY <1>7
<1> QED BY <1>3, <1>4, <1>5, <1>6, <1>8 DEF Step

(* So the sum is what such a function says of the whole set.               *)
LEMMA SumIsOne ==
  ASSUME NEW S, IsFiniteSet(S), NEW y, \A x \in S : y[x] \in Nat
  PROVE  \E g : SumsUpTo(y, SUBSET S, g) /\ Sum(y, S) = g[S]
<1> DEFINE iter ==
      CHOOSE g : g = [s \in SUBSET S |->
                        IF s = {} THEN 0
                        ELSE y[CHOOSE x \in s : TRUE] + g[s \ {CHOOSE x \in s : TRUE}]]
<1>1. PICK n \in Nat : n = Cardinality(S)
  BY FS_CardinalityType
<1>2. SUBSET S = {s \in SUBSET S : Cardinality(s) <= n}
  BY <1>1, FS_Subset
<1>3. PICK g : SumsUpTo(y, SUBSET S, g)
  <2>1. \E g : SumsUpTo(y, {s \in SUBSET S : Cardinality(s) <= n}, g)
    BY SmallSums
  <2> QED BY <1>2, <2>1
<1>4. g = [s \in SUBSET S |-> IF s = {} THEN 0
                 ELSE y[CHOOSE x \in s : TRUE] + g[s \ {CHOOSE x \in s : TRUE}]]
  BY <1>3 DEF Recurs, SumsUpTo, Step, First
<1>5. iter = [s \in SUBSET S |-> IF s = {} THEN 0
                 ELSE y[CHOOSE x \in s : TRUE] + iter[s \ {CHOOSE x \in s : TRUE}]]
  BY <1>4
<1>6. Sum(y, S) = iter[S]
  BY DEF Sum, MapThenSumSet, MapThenFoldSet
<1>7. Recurs(y, SUBSET S, iter)
  <2> HIDE DEF iter
  <2> QED BY <1>5 DEF Recurs, Step, First
<1>8. \A s \in SUBSET S : iter[s] = g[s]
  <2> HIDE DEF iter
  <2>1. Recurs(y, SUBSET S, g) /\ S \in SUBSET S
    BY <1>3 DEF SumsUpTo
  <2> QED BY <2>1, <1>7, SumsAgree
<1>9. S \in SUBSET S
  OBVIOUS
<1> HIDE DEF iter
<1> QED BY <1>3, <1>6, <1>8, <1>9

(* The sum over a set, an element taken out of it.                         *)
LEMMA SumOfFirst ==
  ASSUME NEW S, IsFiniteSet(S), NEW y, \A x \in S : y[x] \in Nat
  PROVE  /\ Sum(y, S) \in Nat
         /\ S = {} => Sum(y, S) = 0
         /\ S # {} => Sum(y, S) = y[First(S)] + Sum(y, S \ {First(S)})
<1>1. PICK g : SumsUpTo(y, SUBSET S, g) /\ Sum(y, S) = g[S]
  BY SumIsOne
<1>2. Sum(y, S) \in Nat /\ g[S] = Step(y, g, S) /\ Recurs(y, SUBSET S, g)
  <2>1. S \in SUBSET S
    OBVIOUS
  <2> QED BY <1>1, <2>1 DEF SumsUpTo, Recurs
<1>3. ASSUME S # {} PROVE g[S \ {First(S)}] = Sum(y, S \ {First(S)})
  <2> DEFINE U == S \ {First(S)}
  <2>1. IsFiniteSet(U) /\ (\A x \in U : y[x] \in Nat) /\ U \in SUBSET S
    BY FS_Subset
  <2>2. PICK h : SumsUpTo(y, SUBSET U, h) /\ Sum(y, U) = h[U]
    BY <2>1, SumIsOne
  <2>3. Recurs(y, SUBSET U, h) /\ U \in SUBSET U
    BY <2>2 DEF SumsUpTo
  <2> HIDE DEF U
  <2>4. g[U] = h[U]
    <3>1. U \in SUBSET U
      OBVIOUS
    <3>2. IsFiniteSet(S) /\ U \in SUBSET S /\ Recurs(y, SUBSET S, g) /\ Recurs(y, SUBSET U, h)
      BY <1>2, <2>1, <2>3
    <3> QED BY <3>1, <3>2, SumsAgree
  <2> QED BY <2>2, <2>4 DEF U
<1> QED BY <1>1, <1>2, <1>3 DEF Step

(* It does not matter which element is taken out first.                    *)
LEMMA SumOfAny ==
  ASSUME NEW S, IsFiniteSet(S), NEW y, \A x \in S : y[x] \in Nat, NEW e \in S
  PROVE  Sum(y, S) = y[e] + Sum(y, S \ {e})
<1> DEFINE Bad(u, x) == Sum(y, u) # y[x] + Sum(y, u \ {x})
           T == {Cardinality(u) : u \in {v \in SUBSET S : \E x \in v : Bad(v, x)}}
<1>f. ASSUME NEW u \in SUBSET S
      PROVE  /\ IsFiniteSet(u) /\ Cardinality(u) \in Nat
             /\ Sum(y, u) \in Nat /\ \A x \in u : y[x] \in Nat
  <2>1. IsFiniteSet(u) /\ \A x \in u : y[x] \in Nat
    BY FS_Subset
  <2> QED BY <2>1, FS_CardinalityType, SumOfFirst
<1> SUFFICES ASSUME T # {} PROVE FALSE
  <2> S \in SUBSET S
    OBVIOUS
  <2> QED OBVIOUS
<1>1. PICK m \in T : \A k \in T : m <= k
  <2>1. T \in SUBSET Nat
    BY <1>f
  <2> HIDE DEF T
  <2> QED BY <2>1, Least
<1>a. PICK u \in SUBSET S : (\E x \in u : Bad(u, x)) /\ Cardinality(u) = m
  BY <1>1
<1>2. PICK x \in u : Bad(u, x) /\ Cardinality(u) = m
  BY <1>a
<1> DEFINE c == First(u)
<1>3. c \in u /\ u # {} /\ Sum(y, u) = y[c] + Sum(y, u \ {c})
  <2>1. u # {}
    BY <1>2
  <2> QED BY <2>1, <1>f, SumOfFirst DEF First
<1>4. ASSUME NEW v \in SUBSET S, NEW w \in v, Cardinality(v) = m - 1
      PROVE  Sum(y, v) = y[w] + Sum(y, v \ {w})
  <2>1. ~(m <= Cardinality(v))
    BY <1>4, <1>2, <1>f
  <2>2. Cardinality(v) \notin T
    <3> HIDE DEF T
    <3> QED BY <2>1, <1>1
  <2> QED BY <2>2
<1>5. x # c
  BY <1>2, <1>3
<1>6. Cardinality(u \ {c}) = m - 1 /\ Cardinality(u \ {x}) = m - 1
  BY <1>2, <1>3, <1>f, Removed
<1>7. Sum(y, u \ {c}) = y[x] + Sum(y, (u \ {c}) \ {x})
  BY <1>4, <1>5, <1>6
<1>8. Sum(y, u \ {x}) = y[c] + Sum(y, (u \ {x}) \ {c})
  BY <1>3, <1>4, <1>5, <1>6
<1>9. (u \ {c}) \ {x} = (u \ {x}) \ {c}
  OBVIOUS
<1>10. /\ y[x] \in Nat /\ y[c] \in Nat /\ Sum(y, u) \in Nat /\ Sum(y, u \ {c}) \in Nat
       /\ Sum(y, u \ {x}) \in Nat /\ Sum(y, (u \ {x}) \ {c}) \in Nat
  BY <1>f, <1>3
<1>11. Sum(y, u) = y[x] + Sum(y, u \ {x})
  <2> HIDE DEF c
  <2> QED BY <1>3, <1>7, <1>8, <1>9, <1>10
<1> QED BY <1>2, <1>11

(* More elements, and more of each, make no smaller sum.                   *)
LEMMA SumGrows ==
  ASSUME NEW S, IsFiniteSet(S), NEW y, NEW z,
         \A x \in S : z[x] \in Nat,
         NEW U \in SUBSET S, \A x \in U : y[x] \in Nat /\ y[x] <= z[x]
  PROVE  Sum(y, U) <= Sum(z, S)
<1> DEFINE Bad(u, s) == ~(Sum(y, u) <= Sum(z, s))
           T == {Cardinality(u) : u \in {v \in SUBSET U :
                                            \E s \in SUBSET S : v \subseteq s /\ Bad(v, s)}}
<1>f. \A u \in SUBSET U : IsFiniteSet(u) /\ Cardinality(u) \in Nat /\ Sum(y, u) \in Nat
  <2> SUFFICES ASSUME NEW u \in SUBSET U
               PROVE  IsFiniteSet(u) /\ Cardinality(u) \in Nat /\ Sum(y, u) \in Nat
    OBVIOUS
  <2>1. IsFiniteSet(u) /\ \A x \in u : y[x] \in Nat
    BY FS_Subset
  <2> QED BY <2>1, FS_CardinalityType, SumOfFirst
<1>g. \A s \in SUBSET S : IsFiniteSet(s) /\ Sum(z, s) \in Nat
  <2> SUFFICES ASSUME NEW s \in SUBSET S PROVE IsFiniteSet(s) /\ Sum(z, s) \in Nat
    OBVIOUS
  <2>1. IsFiniteSet(s) /\ \A x \in s : z[x] \in Nat
    BY FS_Subset
  <2> QED BY <2>1, SumOfFirst
<1> SUFFICES ASSUME T # {} PROVE FALSE
  <2> U \in SUBSET U /\ S \in SUBSET S
    OBVIOUS
  <2> QED OBVIOUS
<1>1. PICK m \in T : \A k \in T : m <= k
  <2>1. T \in SUBSET Nat
    BY <1>f
  <2> HIDE DEF T
  <2> QED BY <2>1, Least
<1>2. PICK u \in SUBSET U, s \in SUBSET S : u \subseteq s /\ Bad(u, s) /\ Cardinality(u) = m
  BY <1>1
<1>3. u # {}
  <2>1. ASSUME u = {} PROVE Sum(y, u) = 0
    BY <2>1, <1>f, SumOfFirst
  <2> QED BY <2>1, <1>2, <1>g
<1>4. PICK x \in u : TRUE
  BY <1>3
<1>5. Cardinality(u \ {x}) = Cardinality(u) - 1
  BY <1>3, <1>f, Removed
<1>6. Cardinality(u \ {x}) \notin T
  <2>1. ~(m <= Cardinality(u \ {x}))
    BY <1>2, <1>5, <1>f
  <2> HIDE DEF T
  <2> QED BY <2>1, <1>1
<1>7. Sum(y, u \ {x}) <= Sum(z, s \ {x})
  BY <1>2, <1>6
<1>8. Sum(y, u) = y[x] + Sum(y, u \ {x})
  BY <1>f, SumOfAny
<1>9. Sum(z, s) = z[x] + Sum(z, s \ {x})
  BY <1>2, <1>g, SumOfAny
<1>10. /\ y[x] \in Nat /\ z[x] \in Nat /\ y[x] <= z[x]
       /\ Sum(y, u \ {x}) \in Nat /\ Sum(z, s \ {x}) \in Nat
  BY <1>f, <1>g
<1> QED BY <1>2, <1>7, <1>8, <1>9, <1>10
-----------------------------------------------------------------------------
(* What an operator accepts has been extracted: a task has no memories     *)
(* before it is completed, and those of what is judged are enough.         *)
Accepted ==
  /\ yield \in [Own \cup {Foreign} -> Nat]
  /\ \A t \in Own : task[t] = "running" => yield[t] = 0
  /\ at = "diff" => op # "ready"
  /\ at = "ok" /\ op = "ready" => Extracted(1 .. listed) >= MinExtracted /\ counted >= MinCommits
  /\ at \in {"diff", "ok"} /\ op # "ready" => payloads # {} /\ Extracted(payloads) >= MinExtracted
  /\ at = "ok" /\ op # "ready" => claims = payloads

LEMMA TasksOfSession ==
  ASSUME ScInv
  PROVE  /\ 1 .. listed \in SUBSET Own /\ IsFiniteSet(1 .. listed)
         /\ payloads \in SUBSET (1 .. listed) /\ IsFiniteSet(payloads)
<1>1. listed \in Nat /\ MaxCommits \in Nat /\ listed <= MaxCommits /\ payloads \subseteq 1 .. listed
  BY Constants DEF ScInv, ScTypeOK, CountInv, HeldInv
<1>2. IsFiniteSet(1 .. listed)
  BY <1>1, FS_Interval
<1>3. 1 .. listed \in SUBSET Own
  BY <1>1 DEF Own
<1>4. payloads \in SUBSET (1 .. listed)
  BY <1>1
<1> QED BY <1>2, <1>3, <1>4, FS_Subset

(* Memories are never taken back.                                          *)
LEMMA ExtractedGrows ==
  ASSUME ScInv, ScInv', Accepted, yield' \in [Own \cup {Foreign} -> Nat],
         \A t \in Own : yield[t] <= yield'[t], listed <= listed',
         NEW U \in SUBSET (1 .. listed), NEW V \in SUBSET (1 .. listed'), U \subseteq V
  PROVE  Sum(yield, U) <= Sum(yield', V) /\ Sum(yield, U) \in Nat /\ Sum(yield', V) \in Nat
<1>1. V \in SUBSET Own /\ IsFiniteSet(V) /\ U \in SUBSET V /\ U \in SUBSET Own /\ IsFiniteSet(U)
  <2>1. 1 .. listed' \in SUBSET Own /\ IsFiniteSet(1 .. listed')
    <3>1. listed' \in Nat /\ MaxCommits \in Nat /\ listed' <= MaxCommits
      BY Constants DEF ScInv, ScTypeOK, CountInv
    <3> QED BY <3>1, FS_Interval DEF Own
  <2>2. IsFiniteSet(V)
    BY <2>1, FS_Subset
  <2> QED BY <2>1, <2>2, FS_Subset
<1>2. (\A x \in V : yield'[x] \in Nat) /\ \A x \in U : yield[x] \in Nat /\ yield[x] <= yield'[x]
  BY <1>1 DEF Accepted
<1>3. Sum(yield, U) <= Sum(yield', V)
  BY <1>1, <1>2, SumGrows
<1>4. Sum(yield, U) \in Nat /\ Sum(yield', V) \in Nat
  BY <1>1, <1>2, SumOfFirst
<1> QED BY <1>3, <1>4

LEMMA ExtractedIsSum ==
  /\ \A S : Extracted(S) = Sum(yield, S)
  /\ Extracted(1 .. listed)' = Sum(yield', 1 .. listed')
  /\ Extracted(payloads)' = Sum(yield', payloads')
BY DEF Extracted, Sum, MapThenSumSet, MapThenFoldSet

(* No step takes away from what has been accepted.                         *)
LEMMA AcceptedKept ==
  ASSUME ScInv, ScInv', Accepted, yield' \in [Own \cup {Foreign} -> Nat],
         \A t \in Own : yield[t] <= yield'[t], listed <= listed', counted <= counted',
         \A t \in Own : task'[t] = "running" => yield'[t] = 0,
         UNCHANGED <<at, op, payloads, claims>>
  PROVE  Accepted'
<1>1. /\ 1 .. listed \in SUBSET (1 .. listed) /\ 1 .. listed \in SUBSET (1 .. listed')
      /\ payloads \in SUBSET (1 .. listed) /\ payloads \in SUBSET (1 .. listed')
      /\ MinExtracted \in Nat /\ counted \in Nat /\ counted' \in Nat
  <2>1. listed \in Nat /\ listed' \in Nat
    BY DEF ScInv, ScTypeOK
  <2> QED BY <2>1, SessionAssumption DEF ScInv, ScTypeOK, HeldInv, SessionAssumption
<1>2. /\ Extracted(1 .. listed) \in Nat /\ Extracted(1 .. listed)' \in Nat
      /\ Extracted(1 .. listed) <= Extracted(1 .. listed)'
  BY <1>1, ExtractedGrows, ExtractedIsSum
<1>3. /\ Extracted(payloads) \in Nat /\ Extracted(payloads)' \in Nat
      /\ Extracted(payloads) <= Extracted(payloads)'
  BY <1>1, ExtractedGrows, ExtractedIsSum
<1> QED BY <1>1, <1>2, <1>3, Constants DEF Accepted

LEMMA Enough == MinExtracted \in Nat /\ \A n \in Nat : ~(n < MinExtracted) => n >= MinExtracted
BY SessionAssumption DEF SessionAssumption

(* Only enough memories of completed tasks lead to "diff" and to "ok".     *)
LEMMA AcceptedStep == ASSUME ScInv, ScInv', Accepted, [ScNext]_scVars PROVE Accepted'
<1>1. CASE Archive \/ StartTask \/ FinishTask \/ ContextEnds
  <2>1. UNCHANGED <<at, op, payloads, claims>>
    BY <1>1 DEF Archive, StartTask, FinishTask, ContextEnds, pollVars
  <2>2. listed \in Nat /\ counted \in Nat /\ listed <= listed' /\ counted <= counted'
    BY <1>1 DEF Archive, StartTask, FinishTask, ContextEnds, pollVars, serverVars, ScInv, ScTypeOK
  <2>3. /\ yield' \in [Own \cup {Foreign} -> Nat]
        /\ \A t \in Own : yield[t] <= yield'[t] /\ (task'[t] = "running" => yield'[t] = 0)
    <3>1. CASE FinishTask
      <4>1. PICK t \in (1 .. listed) \cup {Foreign} :
              /\ task[t] = "running"
              /\ \/ /\ task' = [task EXCEPT ![t] = "completed"]
                    /\ \E y \in 0 .. MaxYield : yield' = [yield EXCEPT ![t] = y]
                 \/ task' = [task EXCEPT ![t] = "failed"] /\ UNCHANGED yield
        BY <3>1 DEF FinishTask
      <4>2. /\ task \in [Own \cup {Foreign} -> {"running", "completed", "failed"}]
            /\ yield \in [Own \cup {Foreign} -> Nat]
            /\ \A u \in Own : task[u] = "running" => yield[u] = 0
        BY DEF ScInv, ScTypeOK, Accepted
      <4>3. CASE task' = [task EXCEPT ![t] = "completed"]
                 /\ \E y \in 0 .. MaxYield : yield' = [yield EXCEPT ![t] = y]
        <5>1. PICK y \in 0 .. MaxYield : yield' = [yield EXCEPT ![t] = y]
          BY <4>3
        <5>2. y \in Nat
          BY SessionAssumption DEF SessionAssumption
        <5>3. ASSUME NEW u \in Own
              PROVE  yield[u] <= yield'[u] /\ (task'[u] = "running" => yield'[u] = 0)
          <6>1. u \in Own \cup {Foreign} /\ yield[u] \in Nat
            BY <4>2
          <6>2. CASE u = t
            BY <4>1, <4>2, <4>3, <5>1, <5>2, <6>1, <6>2
          <6>3. CASE u # t
            BY <4>2, <4>3, <5>1, <6>1, <6>3
          <6> QED BY <6>2, <6>3
        <5> QED BY <4>2, <5>1, <5>2, <5>3
      <4>4. CASE task' = [task EXCEPT ![t] = "failed"] /\ UNCHANGED yield
        BY <4>2, <4>4
      <4> QED BY <4>1, <4>3, <4>4
    <3>2. CASE UNCHANGED <<task, yield>>
      BY <3>2 DEF Accepted
    <3> QED BY <1>1, <3>1, <3>2 DEF Archive, StartTask, ContextEnds, serverVars
  <2> QED BY <2>1, <2>2, <2>3, AcceptedKept
<1>2. CASE BeginAttempt \/ Commit \/ Discover \/ Status \/ List \/ Each \/ Get \/ Diff
  <2>1. UNCHANGED <<op, task, yield>>
    BY <1>2 DEF BeginAttempt, Commit, Discover, Status, List, Each, Get, Diff, Request, serverVars
  <2>2. /\ yield' \in [Own \cup {Foreign} -> Nat]
        /\ \A t \in Own : task'[t] = "running" => yield'[t] = 0
    BY <2>1 DEF Accepted
  <2>3. CASE at' \notin {"diff", "ok"}
    BY <2>2, <2>3 DEF Accepted
  <2>4. CASE at' = "diff"
    <3>1. UNCHANGED <<listed, counted>>
      BY <1>2, <2>4 DEF BeginAttempt, Commit, Discover, Status, List, Each, Get, Diff, Request,
         GiveUp, serverVars
    <3>2. op # "ready" /\ payloads' # {} /\ ~TooFew(payloads')
      <4>1. CASE Status
        <5>1. at = "status" /\ Follow
          BY <2>4, <4>1 DEF Status, Request, GiveUp, EitherWay, NotYet, TryAgain
        <5>2. op = "commit" /\ ~TooFew({taskID}) /\ payloads' = {taskID}
          BY <2>4, <5>1 DEF Follow, NotYet, TryAgain, GiveUp, GoOn
        <5> QED BY <5>2
      <4>2. CASE Get
        <5>1. at = "get" /\ op = "plugin" /\ Judge
          BY <2>4, <4>2 DEF Get, Request, GiveUp, EitherWay, NotYet, TryAgain, Ready, GoOn
        <5>2. payloads # {}
          BY <5>1 DEF ScInv, HeldInv
        <5>3. ~TooFew(payloads) /\ payloads' = payloads
          BY <2>4, <5>1 DEF Judge, NotYet, TryAgain, GiveUp, GoOn, Uncovered
        <5> QED BY <5>1, <5>2, <5>3
      <4> QED BY <1>2, <2>4, <4>1, <4>2 DEF BeginAttempt, Commit, Discover, List, Each, Diff,
         Request, GiveUp, NotYet, TryAgain, EitherWay, Payload, GoOn
    <3>3. Extracted(payloads)' >= MinExtracted
      <4>1. /\ payloads' \in SUBSET (1 .. listed) /\ payloads' \in SUBSET (1 .. listed')
            /\ listed <= listed'
        BY <3>1 DEF ScInv, ScTypeOK, HeldInv
      <4>2. \A t \in Own : yield[t] <= yield'[t]
        BY <2>1 DEF Accepted
      <4>3. Sum(yield, payloads') \in Nat
        BY <2>2, <4>1, <4>2, ExtractedGrows
      <4> QED BY <2>1, <3>2, <4>3, ExtractedIsSum, Enough DEF TooFew
    <3> QED BY <2>1, <2>2, <2>4, <3>2, <3>3 DEF Accepted
  <2>5. CASE at' = "ok"
    <3>1. CASE Get
      <4>1. /\ op = "ready" /\ counted >= MinCommits /\ ~TooFew(1 .. listed)
            /\ UNCHANGED <<listed, counted>>
        <5>1. UNCHANGED <<listed, counted>>
          BY <3>1 DEF Get, serverVars
        <5>2. op # "plugin" /\ Ready
          BY <2>5, <3>1 DEF Get, Request, GiveUp, EitherWay, NotYet, TryAgain, GoOn, Judge,
             Uncovered
        <5>3. counted >= MinCommits /\ ~TooFew(1 .. listed)
          BY <2>5, <5>2 DEF Ready, GiveUp, NotYet, TryAgain
        <5>4. op = "ready"
          BY <3>1, <5>2 DEF Get, Request, ScInv, ScTypeOK, CountInv, Ended
        <5> QED BY <5>1, <5>2, <5>3, <5>4
      <4>2. Extracted(1 .. listed)' >= MinExtracted
        <5>1. /\ 1 .. listed \in SUBSET (1 .. listed) /\ 1 .. listed \in SUBSET (1 .. listed')
              /\ listed <= listed'
          BY <4>1 DEF ScInv, ScTypeOK
        <5>2. \A t \in Own : yield[t] <= yield'[t]
          BY <2>1 DEF Accepted
        <5>3. Sum(yield, 1 .. listed) \in Nat
          BY <2>2, <5>1, <5>2, ExtractedGrows
        <5> QED BY <2>1, <4>1, <5>3, ExtractedIsSum, Enough DEF TooFew
      <4> QED BY <2>1, <2>2, <2>5, <4>1, <4>2 DEF Accepted
    <3>2. CASE Diff
      <4>1. /\ at = "diff" /\ claims' = payloads /\ UNCHANGED <<payloads, listed, counted>>
        BY <2>5, <3>2 DEF Diff, Request, GiveUp, GoOn, serverVars
      <4>2. Extracted(payloads)' = Extracted(payloads)
        BY <2>1, <4>1, ExtractedIsSum
      <4> QED BY <2>1, <2>2, <2>5, <4>1, <4>2 DEF Accepted
    <3> QED BY <1>2, <2>5, <3>1, <3>2 DEF BeginAttempt, Commit, Discover, Status, List, Each,
       Follow, Request,
       GiveUp, NotYet, TryAgain, EitherWay, Payload, GoOn
  <2> QED BY <2>3, <2>4, <2>5
<1>3. CASE UNCHANGED scVars
  BY <1>3, AcceptedKept DEF scVars, pollVars, serverVars, Accepted, ScInv, ScTypeOK
<1> QED BY <1>1, <1>2, <1>3 DEF ScNext, Poll, ScTerminated

(* What a case takes for committed is committed: enough commits and enough *)
(* memories, of completed tasks of its own session alone, and exactly      *)
(* their memories are claimed; nothing the server does later changes that. *)
THEOREM AcceptedIsCommitted == ScSpec => []CommitAccounted
<1>1. ScInit => Accepted
  BY Constants DEF ScInit, Accepted, Own, Foreign, NoTask
<1>2. ScInv /\ ScInv' /\ Accepted /\ [ScNext]_scVars => Accepted'
  BY AcceptedStep
<1>3. ScInv /\ Accepted => CommitAccounted
  BY DEF ScInv, HeldInv, Accepted, CommitAccounted, Finished
<1> QED BY <1>1, <1>2, <1>3, SessionInvariant, PTL DEF ScSpec
=============================================================================
