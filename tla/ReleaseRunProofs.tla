--------------------------- MODULE ReleaseRunProofs ---------------------------
(***************************************************************************)
(* Safety of the release gate, for any selection of cases and number of    *)
(* qualification attempts.  What is said of a release that accuses or      *)
(* passes holds for a local target: for an external one the outcome of an  *)
(* attempt loses its cleanup failures (AfterRemoteCleanup).                *)
(***************************************************************************)
EXTENDS ReleaseRunProps, TLAPS

Results == [primary : BOOLEAN, cleanup : BOOLEAN, class : {"none", "case", "environment"},
            failed : SUBSET Selected]
Histories == [failed : SUBSET Selected, passed : SUBSET Selected, trouble : BOOLEAN]

RelTypeOK ==
  /\ stage \in {"prepare", "attempt", "compare", "finish", "done"}
  /\ role \in Roles /\ number \in 1 .. Runs
  /\ at \in {"setup", "preflight", "case", "after", "teardown", "returned"}
  /\ todo \in SUBSET Selected /\ leaked \in SUBSET Selected
  /\ res \in Results /\ initial \in Results /\ base \in Results
  /\ outcome \in [primary : BOOLEAN, cleanup : BOOLEAN]
  /\ server \in {"none", "up", "crashed", "reaped", "stray"} /\ ctxDone \in BOOLEAN
  /\ seen \in [Roles -> Histories]

Running == stage \in {"attempt", "compare"}

(* The cases that an attempt was given.                                    *)
Given ==
  CASE role = "candidate" -> Selected
    [] role = "base" -> initial.failed
    [] role = "retry" -> initial.failed \ base.failed

(* What the result of the current attempt says of what happened in it: its *)
(* class is "environment" exactly when the cases are not all there was.    *)
ResInv ==
  Running =>
    /\ res.failed = seen[role].failed
    /\ res.class = "none" => ~Err(res) /\ res.failed = {}
    /\ res.class = "case" => res.primary /\ res.failed # {}
    /\ res.class = "environment" /\ ~External => Err(res)
    /\ res.class # "environment" =>
         /\ ~seen[role].trouble /\ ~res.cleanup
         /\ seen[role].passed \cup seen[role].failed \cup todo = Given
         /\ at \in {"teardown", "returned"} => todo = {}
    /\ role = "candidate" /\ leaked # {} /\ ~External => res.class = "environment"

(* What is known of the attempts before the current one.                   *)
PastInv ==
  /\ stage = "prepare" => leaked = {} /\ clean = {} /\ number = 1 /\ role = "candidate"
  /\ stage = "prepare" \/ Running => classification = "none"
  /\ stage = "prepare" \/ (Running /\ role = "candidate") => ~Err(outcome)
  /\ Running /\ role = "candidate" /\ ~External => clean = 1 .. number - 1
  /\ Running /\ role # "candidate" =>
       /\ initial.class = "case" /\ initial.failed # {} /\ ~seen["candidate"].trouble
       /\ initial.failed = seen["candidate"].failed
  /\ Running /\ role = "retry" /\ ~External =>
       /\ base.class # "environment" /\ ~seen["base"].trouble
       /\ base.class = "none" => ~Err(base)
       /\ base.failed = seen["base"].failed /\ initial.failed \ base.failed # {}
       /\ seen["base"].passed \cup base.failed = initial.failed

ServerInv ==
  /\ External \/ stage = "prepare" => server = "none"
  /\ stage = "attempt" /\ at = "setup" => server = "none"
  /\ stage = "compare" /\ res.class # "environment" => server = "none"
  /\ stage = "attempt" /\ server = "stray" => res.class = "environment"

Accusation ==
  CASE classification = "probable-openviking-regression" -> RegressionJustified
    [] classification = "baseline-incompatible" -> BaselineJustified
    [] classification = "flaky-inconclusive" -> FlakyJustified
    [] OTHER -> TRUE

EndInv ==
  /\ stage # "done" => disk = {"secrets", "runtime", "evidence"}
  /\ stage \in {"finish", "done"} /\ ~Err(outcome) =>
       /\ classification = "none"
       /\ ~External => clean = 1 .. Runs /\ leaked = {}
  /\ stage \in {"finish", "done"} /\ ~External => Accusation

PlaceInv == /\ stage = "attempt" => at # "returned"
            /\ stage = "compare" => at = "returned"

RelInv ==
  /\ RelTypeOK /\ PlaceInv /\ ResInv /\ PastInv /\ ServerInv /\ EndInv
  /\ SummaryHonest /\ DiskMatchesOutcome

LEMMA RelInitially == ASSUME RelInit PROVE RelInv
<1>1. NoResult \in Results /\ Unseen \in Histories
  BY DEF NoResult, Results, Unseen, Histories
<1>2. 1 \in 1 .. Runs
  BY ReleaseAssumption DEF ReleaseAssumption
<1>3. RelTypeOK
  BY <1>1, <1>2 DEF RelInit, RelTypeOK, Roles
<1> QED BY <1>3 DEF RelInit, RelInv, PlaceInv, ResInv, PastInv, ServerInv, EndInv,
           SummaryHonest, DiskMatchesOutcome, Running, Err

(* A step inside of an attempt leaves the others, and the end, alone.      *)
LEMMA AttemptKeeps ==
  ASSUME RelInv, Running, Running', UNCHANGED <<attemptVars, runVars, clean>>,
         \A r \in Roles \ {role} : seen'[r] = seen[r]
  PROVE  PastInv' /\ EndInv' /\ SummaryHonest' /\ DiskMatchesOutcome'
<1>1. PastInv'
  BY DEF RelInv, PastInv, Running, attemptVars, runVars, Err, Roles
<1>2. EndInv' /\ SummaryHonest' /\ DiskMatchesOutcome'
  BY DEF RelInv, EndInv, SummaryHonest, DiskMatchesOutcome, Running, runVars
<1> QED BY <1>1, <1>2

(* What happens to the attempt from outside.                               *)
LEMMA OutsideStep ==
  ASSUME RelInv, Interrupt \/ ServerCrashes \/ ServerReaped \/ UNCHANGED relVars
  PROVE  RelInv'
<1>1. UNCHANGED <<stage, at, todo, res, attemptVars, runVars, seen, leaked, clean>>
  BY DEF Interrupt, ServerCrashes, ServerReaped, relVars, attemptVars, runVars
<1>2. RelTypeOK'
  <2>1. ctxDone' \in BOOLEAN
    BY DEF RelInv, RelTypeOK, Interrupt, ServerCrashes, ServerReaped, relVars
  <2>2. server' = server \/ server' \in {"crashed", "none", "reaped"}
    BY DEF Interrupt, ServerCrashes, ServerReaped, GoesDown, IsNoticed, relVars
  <2> QED BY <1>1, <2>1, <2>2 DEF RelInv, RelTypeOK, attemptVars, runVars
<1>3. ResInv' /\ PlaceInv'
  BY <1>1 DEF RelInv, ResInv, PlaceInv, Running, Given, Err, attemptVars
<1>4. PastInv'
  BY <1>1 DEF RelInv, PastInv, Running, Err, attemptVars, runVars
<1>5. ServerInv'
  BY <1>1 DEF RelInv, ServerInv, Interrupt, ServerCrashes, ServerReaped, GoesDown, IsNoticed,
     relVars, attemptVars, runVars
<1>6. EndInv'
  BY <1>1 DEF RelInv, EndInv, Accusation, RegressionJustified, BaselineJustified, FlakyJustified,
     Untroubled, Err, runVars
<1>7. SummaryHonest' /\ DiskMatchesOutcome'
  BY <1>1 DEF RelInv, SummaryHonest, DiskMatchesOutcome, Err, runVars
<1> QED BY <1>2, <1>3, <1>4, <1>5, <1>6, <1>7 DEF RelInv

(* The trouble of an attempt, in its result and in what happened.          *)
LEMMA TroubleKeeps ==
  ASSUME RelInv, res' = EnvironmentError(res), seen' = Trouble, UNCHANGED role
  PROVE  /\ res' \in Results /\ seen' \in [Roles -> Histories]
         /\ res'.class = "environment" /\ Err(res') /\ res'.failed = res.failed
         /\ seen'[role].failed = seen[role].failed
         /\ \A r \in Roles \ {role} : seen'[r] = seen[r]
<1>1. res \in Results /\ seen \in [Roles -> Histories] /\ role \in Roles
  BY DEF RelInv, RelTypeOK
<1>2. seen[role] \in Histories
  BY <1>1
<1> QED BY <1>1, <1>2 DEF EnvironmentError, Trouble, Err, Results, Histories

LEMMA SetupStep == ASSUME RelInv, Setup PROVE RelInv'
<1>1. stage = "attempt" /\ at = "setup"
      /\ UNCHANGED <<stage, todo, ctxDone, attemptVars, runVars, leaked, clean>>
  BY DEF Setup
<1>2. CASE at' = "preflight"
  <2>1. UNCHANGED <<res, seen>> /\ server' = IF External THEN "none" ELSE "up"
    BY <1>2 DEF Setup
  <2>2. RelTypeOK' /\ PlaceInv' /\ ServerInv'
    BY <1>1, <1>2, <2>1 DEF RelInv, RelTypeOK, PlaceInv, ServerInv, attemptVars, runVars
  <2>3. ResInv'
    BY <1>1, <1>2, <2>1 DEF RelInv, ResInv, Running, Given, Err, attemptVars
  <2> QED BY <1>1, <2>1, <2>2, <2>3, AttemptKeeps DEF RelInv, Running
<1>3. CASE at' = "teardown"
  <2>1. /\ res' = EnvironmentError(res) /\ seen' = Trouble
        /\ server' = "none" \/ (~External /\ server' \in {"up", "stray"})
    BY <1>3 DEF Setup, LeftBehind
  <2>2. RelTypeOK' /\ PlaceInv' /\ ServerInv'
    BY <1>1, <1>3, <2>1, TroubleKeeps
    DEF RelInv, RelTypeOK, PlaceInv, ServerInv, attemptVars, runVars
  <2>3. ResInv'
    BY <1>1, <1>3, <2>1, TroubleKeeps DEF RelInv, ResInv, Running, Err, attemptVars
  <2> QED BY <1>1, <2>1, <2>2, <2>3, TroubleKeeps, AttemptKeeps DEF RelInv, Running, attemptVars
<1> QED BY <1>2, <1>3 DEF Setup

LEMMA PreflightStep == ASSUME RelInv, Preflight PROVE RelInv'
<1>1. stage = "attempt" /\ at = "preflight"
      /\ UNCHANGED <<stage, todo, server, ctxDone, attemptVars, runVars, leaked, clean>>
  BY DEF Preflight
<1>2. CASE at' = "case" /\ UNCHANGED <<res, seen>>
  <2>1. RelTypeOK' /\ PlaceInv' /\ ServerInv'
    BY <1>1, <1>2 DEF RelInv, RelTypeOK, PlaceInv, ServerInv, attemptVars, runVars
  <2>2. ResInv'
    BY <1>1, <1>2 DEF RelInv, ResInv, Running, Given, Err, attemptVars
  <2> QED BY <1>1, <1>2, <2>1, <2>2, AttemptKeeps DEF RelInv, Running
<1>3. CASE at' = "teardown" /\ res' = EnvironmentError(res) /\ seen' = Trouble
  <2>1. RelTypeOK' /\ PlaceInv' /\ ServerInv'
    BY <1>1, <1>3, TroubleKeeps DEF RelInv, RelTypeOK, PlaceInv, ServerInv, attemptVars, runVars
  <2>2. ResInv'
    BY <1>1, <1>3, TroubleKeeps DEF RelInv, ResInv, Running, Err, attemptVars
  <2> QED BY <1>1, <1>3, <2>1, <2>2, TroubleKeeps, AttemptKeeps DEF RelInv, Running, attemptVars
<1> QED BY <1>2, <1>3 DEF Preflight

LEMMA AfterCaseStep == ASSUME RelInv, AfterCase PROVE RelInv'
<1>1. stage = "attempt" /\ at = "after"
      /\ UNCHANGED <<stage, todo, server, ctxDone, attemptVars, runVars, leaked, clean>>
  BY DEF AfterCase
<1>2. CASE at' = (IF todo = {} THEN "teardown" ELSE "case") /\ UNCHANGED <<res, seen>>
  <2>1. RelTypeOK' /\ PlaceInv' /\ ServerInv'
    BY <1>1, <1>2 DEF RelInv, RelTypeOK, PlaceInv, ServerInv, attemptVars, runVars
  <2>2. ResInv'
    BY <1>1, <1>2 DEF RelInv, ResInv, Running, Given, Err, attemptVars
  <2> QED BY <1>1, <1>2, <2>1, <2>2, AttemptKeeps DEF RelInv, Running
<1>3. CASE at' = "teardown" /\ res' = EnvironmentError(res) /\ seen' = Trouble
  <2>1. RelTypeOK' /\ PlaceInv' /\ ServerInv'
    BY <1>1, <1>3, TroubleKeeps DEF RelInv, RelTypeOK, PlaceInv, ServerInv, attemptVars, runVars
  <2>2. ResInv'
    BY <1>1, <1>3, TroubleKeeps DEF RelInv, ResInv, Running, Err, attemptVars
  <2> QED BY <1>1, <1>3, <2>1, <2>2, TroubleKeeps, AttemptKeeps DEF RelInv, Running, attemptVars
<1> QED BY <1>2, <1>3 DEF AfterCase

(* What one case adds to the result.                                       *)
LEMMA CaseResult ==
  ASSUME NEW r \in Results, NEW c \in Selected, NEW status \in Statuses,
         NEW claimsOk \in BOOLEAN, NEW recordOk \in BOOLEAN,
         NEW q, q = WithStatus(WithRecord(WithClaims(r, claimsOk), recordOk), c, status)
  PROVE  /\ q \in Results
         /\ q.failed = IF status \in SensitiveStatuses THEN r.failed \cup {c} ELSE r.failed
         /\ status \in EnvironmentStatuses \/ ~claimsOk \/ ~recordOk
              => q.class = "environment" /\ Err(q)
         /\ r.class = "environment" => q.class = "environment" /\ (Err(r) => Err(q))
         /\ status \notin EnvironmentStatuses /\ claimsOk /\ recordOk =>
              IF status = "pass" THEN q = r
              ELSE /\ q.primary /\ q.cleanup = r.cleanup
                   /\ q.class = IF r.class = "none" THEN "case" ELSE r.class
<1> DEFINE r1 == WithClaims(r, claimsOk)
           r2 == WithRecord(r1, recordOk)
<1>1. /\ r1 \in Results /\ r1.failed = r.failed /\ (Err(r) => Err(r1))
      /\ ~claimsOk => r1.class = "environment" /\ Err(r1)
      /\ r.class = "environment" => r1.class = "environment"
      /\ claimsOk => r1 = r
  BY DEF WithClaims, Results, Err
<1>2. /\ r2 \in Results /\ r2.failed = r1.failed /\ (Err(r1) => Err(r2))
      /\ ~recordOk => r2.class = "environment" /\ Err(r2)
      /\ r1.class = "environment" => r2.class = "environment"
      /\ recordOk => r2 = r1
  BY <1>1 DEF WithRecord, EnvironmentError, Results, Err
<1>3. q = WithStatus(r2, c, status)
  OBVIOUS
<1> HIDE DEF r1, r2
<1>4. /\ status \in SensitiveStatuses => ReleaseCaseFailureClass(status) # "environment"
      /\ status \in EnvironmentStatuses => ReleaseCaseFailureClass(status) = "environment"
      /\ status \in EnvironmentStatuses \/ status \in SensitiveStatuses \/ status = "pass"
      /\ "pass" \notin SensitiveStatuses /\ "pass" \notin EnvironmentStatuses
      /\ SensitiveStatuses \cap EnvironmentStatuses = {}
  BY DEF ReleaseCaseFailureClass, SensitiveStatuses, EnvironmentStatuses, Statuses
<1>5. CASE status = "pass"
  BY <1>1, <1>2, <1>3, <1>4, <1>5 DEF WithStatus
<1>6. CASE status \in EnvironmentStatuses
  <2>1. q = EnvironmentError(r2)
    BY <1>3, <1>4, <1>6 DEF WithStatus
  <2>2. q \in Results /\ q.failed = r2.failed /\ q.class = "environment" /\ Err(q)
    BY <1>2, <2>1 DEF EnvironmentError, Results, Err
  <2> QED BY <1>1, <1>2, <1>4, <1>6, <2>2
<1>7. CASE status \in SensitiveStatuses
  <2>1. q = [r2 EXCEPT !.primary = TRUE, !.failed = @ \cup {c},
                       !.class = IF @ = "none" THEN "case" ELSE @]
    BY <1>3, <1>4, <1>7 DEF WithStatus
  <2>2. /\ q \in Results /\ q.failed = r2.failed \cup {c} /\ q.primary
        /\ q.cleanup = r2.cleanup /\ Err(q)
        /\ q.class = IF r2.class = "none" THEN "case" ELSE r2.class
    <3>1. r2.failed \cup {c} \in SUBSET Selected /\ r2.class \in {"none", "case", "environment"}
      BY <1>2 DEF Results
    <3>2. q = [primary |-> TRUE, cleanup |-> r2.cleanup, failed |-> r2.failed \cup {c},
               class |-> IF r2.class = "none" THEN "case" ELSE r2.class]
      BY <1>2, <2>1 DEF Results
    <3> QED BY <1>2, <3>1, <3>2 DEF Results, Err
  <2> QED BY <1>1, <1>2, <1>4, <1>7, <2>2
<1> QED BY <1>4, <1>5, <1>6, <1>7

LEMMA RunCaseStep == ASSUME RelInv, RunCase PROVE RelInv'
<1>1. /\ stage = "attempt" /\ at = "case" /\ at' = "after"
      /\ UNCHANGED <<stage, server, ctxDone, attemptVars, runVars, clean>>
  BY DEF RunCase
<1>2. PICK c \in todo, status \in Statuses, claimsOk \in BOOLEAN, recordOk \in BOOLEAN :
         /\ todo' = todo \ {c}
         /\ ctxDone \/ server \in {"crashed", "reaped"} => status # "pass"
         /\ res' = WithStatus(WithRecord(WithClaims(res, claimsOk), recordOk), c, status)
         /\ leaked' = IF claimsOk THEN leaked ELSE leaked \cup {c}
         /\ seen' = [seen EXCEPT
              ![role].failed = IF status \in SensitiveStatuses THEN @ \cup {c} ELSE @,
              ![role].passed = IF status = "pass" THEN @ \cup {c} ELSE @,
              ![role].trouble =
                @ \/ status \in EnvironmentStatuses \/ ~claimsOk \/ ~recordOk]
  BY Zenon DEF RunCase
<1>3. res \in Results /\ seen \in [Roles -> Histories] /\ role \in Roles /\ c \in Selected
  BY DEF RelInv, RelTypeOK
<1>4. seen[role] \in Histories
  BY <1>3
<1>5. /\ res' \in Results
      /\ res'.failed = IF status \in SensitiveStatuses THEN res.failed \cup {c} ELSE res.failed
      /\ status \in EnvironmentStatuses \/ ~claimsOk \/ ~recordOk
           => res'.class = "environment" /\ Err(res')
      /\ res.class = "environment" => res'.class = "environment" /\ (Err(res) => Err(res'))
      /\ status \notin EnvironmentStatuses /\ claimsOk /\ recordOk =>
           IF status = "pass" THEN res' = res
           ELSE /\ res'.primary /\ res'.cleanup = res.cleanup
                /\ res'.class = IF res.class = "none" THEN "case" ELSE res.class
  <2>1. res' = WithStatus(WithRecord(WithClaims(res, claimsOk), recordOk), c, status)
    BY <1>2
  <2> QED BY <1>3, <2>1, CaseResult
<1>6. /\ seen' \in [Roles -> Histories]
      /\ \A r \in Roles \ {role} : seen'[r] = seen[r]
      /\ seen'[role].failed =
           IF status \in SensitiveStatuses THEN seen[role].failed \cup {c} ELSE seen[role].failed
      /\ seen'[role].passed =
           IF status = "pass" THEN seen[role].passed \cup {c} ELSE seen[role].passed
      /\ status \notin EnvironmentStatuses /\ claimsOk /\ recordOk
           => seen'[role].trouble = seen[role].trouble
  <2> DEFINE f == IF status \in SensitiveStatuses THEN seen[role].failed \cup {c}
                  ELSE seen[role].failed
             p == IF status = "pass" THEN seen[role].passed \cup {c} ELSE seen[role].passed
             t == seen[role].trouble \/ status \in EnvironmentStatuses
                    \/ ~claimsOk \/ ~recordOk
             e == [seen[role] EXCEPT !.failed = f, !.passed = p, !.trouble = t]
  <2>2. f \in SUBSET Selected /\ p \in SUBSET Selected /\ t \in BOOLEAN
    BY <1>3, <1>4 DEF Histories
  <2>3. seen' = [seen EXCEPT ![role] = e]
    BY <1>2, <1>3
  <2>4. status \notin EnvironmentStatuses /\ claimsOk /\ recordOk => t = seen[role].trouble
    BY <1>4 DEF Histories
  <2> HIDE DEF f, p, t
  <2>e. e = [seen[role] EXCEPT !.failed = f, !.passed = p, !.trouble = t]
    OBVIOUS
  <2> HIDE DEF e
  <2>5. e \in Histories /\ e.failed = f /\ e.passed = p /\ e.trouble = t
    <3>1. PICK e1 : e1 = [seen[role] EXCEPT !.failed = f]
      OBVIOUS
    <3>2. PICK e2 : e2 = [e1 EXCEPT !.passed = p]
      OBVIOUS
    <3>3. e1 \in Histories /\ e1.failed = f
      BY <1>4, <2>2, <3>1 DEF Histories
    <3>4. e2 \in Histories /\ e2.failed = f /\ e2.passed = p
      BY <2>2, <3>2, <3>3 DEF Histories
    <3>5. e = [e2 EXCEPT !.trouble = t]
      BY <2>e, <3>1, <3>2
    <3> QED BY <2>2, <3>4, <3>5 DEF Histories
  <2>6. seen' \in [Roles -> Histories] /\ seen'[role] = e
        /\ \A r \in Roles \ {role} : seen'[r] = seen[r]
    BY <1>3, <2>3, <2>5
  <2> QED BY <2>4, <2>5, <2>6 DEF f, p
<1>7. RelTypeOK' /\ PlaceInv' /\ ServerInv'
  <2>1. RelTypeOK'
    BY <1>1, <1>2, <1>3, <1>5, <1>6 DEF RelInv, RelTypeOK, attemptVars, runVars
  <2> QED BY <1>1, <1>5, <2>1 DEF RelInv, PlaceInv, ServerInv
<1>8. Given' = Given /\ Running /\ Running'
  BY <1>1 DEF Given, Running, attemptVars
<1>9. ResInv'
  <2>1. res'.failed = seen'[role].failed
    BY <1>5, <1>6, <1>8 DEF RelInv, ResInv
  <2>2. CASE status \in EnvironmentStatuses \/ ~claimsOk \/ ~recordOk
    BY <1>1, <1>5, <2>1, <2>2 DEF ResInv, attemptVars
  <2>3. CASE status \notin EnvironmentStatuses /\ claimsOk /\ recordOk
    <3>1. CASE res.class = "environment"
      BY <1>1, <1>5, <1>8, <2>1, <3>1 DEF RelInv, ResInv, attemptVars
    <3>2. CASE res.class # "environment"
      <4>1. leaked' = leaked /\ seen'[role].trouble = seen[role].trouble
        BY <1>2, <1>6, <2>3
      <4>2. status = "pass" \/ status \in SensitiveStatuses
        BY <2>3 DEF Statuses
      <4>3. /\ ~seen[role].trouble /\ ~res.cleanup
            /\ seen[role].passed \cup seen[role].failed \cup todo = Given
        BY <1>8, <3>2 DEF RelInv, ResInv
      <4>4. seen'[role].passed \cup seen'[role].failed \cup todo' = Given
        BY <1>2, <1>6, <4>2, <4>3 DEF SensitiveStatuses
      <4>5. ~seen'[role].trouble /\ ~res'.cleanup
        BY <1>5, <2>3, <4>1, <4>3
      <4>6. CASE status = "pass"
        <5>1. res' = res
          BY <1>5, <2>3, <4>6
        <5> QED BY <1>1, <1>8, <2>1, <4>1, <4>4, <4>5, <5>1 DEF RelInv, ResInv, attemptVars
      <4>7. CASE status \in SensitiveStatuses
        <5>1. res'.primary /\ res'.failed = res.failed \cup {c}
              /\ res'.class = IF res.class = "none" THEN "case" ELSE res.class
          BY <1>5, <2>3, <4>7 DEF SensitiveStatuses
        <5>2. res'.class = "case"
          BY <1>3, <3>2, <5>1 DEF Results
        <5>3. role = "candidate" /\ leaked' # {} => External
          BY <1>8, <3>2, <4>1 DEF RelInv, ResInv
        <5> QED BY <1>1, <1>8, <2>1, <4>4, <4>5, <5>1, <5>2, <5>3 DEF ResInv, attemptVars
      <4> QED BY <4>2, <4>6, <4>7
    <3> QED BY <3>1, <3>2
  <2> QED BY <2>2, <2>3
<1> QED BY <1>1, <1>6, <1>7, <1>8, <1>9, AttemptKeeps DEF RelInv, attemptVars

(* What tearing down makes of the result.                                  *)
LEMMA TeardownResult ==
  ASSUME NEW r \in Results, NEW stopOk \in BOOLEAN, NEW redactOk \in BOOLEAN,
         NEW q, q = AfterRedaction(ClassAfterCleanup(AfterStop(AfterRemoteCleanup(r), stopOk)),
                                   redactOk)
  PROVE  /\ q \in Results /\ q.failed = r.failed /\ q.primary = r.primary
         /\ r.class = "environment" => q.class = "environment" /\ (~External /\ Err(r) => Err(q))
         /\ q.class # "environment" =>
              stopOk /\ redactOk /\ q.class = r.class /\ ~q.cleanup
<1> DEFINE r1 == AfterRemoteCleanup(r)
           r2 == AfterStop(r1, stopOk)
           r3 == ClassAfterCleanup(r2)
<1>1. /\ r1 \in Results /\ r1.failed = r.failed /\ r1.primary = r.primary
      /\ r1.class = r.class /\ (~External => r1 = r)
  BY DEF AfterRemoteCleanup, Results
<1>2. /\ r2 \in Results /\ r2.failed = r1.failed /\ r2.primary = r1.primary
      /\ r2.class = r1.class /\ (r1.cleanup => r2.cleanup) /\ (~stopOk => r2.cleanup)
  BY <1>1 DEF AfterStop, Results
<1>3. /\ r3 \in Results /\ r3.failed = r2.failed /\ r3.primary = r2.primary
      /\ r3.cleanup = r2.cleanup
      /\ r3.class = IF r2.cleanup THEN "environment" ELSE r2.class
  BY <1>2 DEF ClassAfterCleanup, Results
<1>4. q = AfterRedaction(r3, redactOk)
  OBVIOUS
<1> HIDE DEF r1, r2, r3
<1>5. /\ q \in Results /\ q.failed = r3.failed /\ q.primary = r3.primary
      /\ redactOk => q = r3
      /\ ~redactOk => q.class = "environment" /\ q.cleanup
  BY <1>3, <1>4 DEF AfterRedaction, Results
<1> QED BY <1>1, <1>2, <1>3, <1>5 DEF Err

LEMMA TeardownStep == ASSUME RelInv, Teardown PROVE RelInv'
<1>1. /\ stage = "attempt" /\ at = "teardown" /\ stage' = "compare" /\ at' = "returned"
      /\ UNCHANGED <<todo, ctxDone, attemptVars, runVars, leaked, clean>>
  BY DEF Teardown
<1>2. PICK stopOk \in BOOLEAN, redactOk \in BOOLEAN :
        /\ StopMayReturn(server, stopOk)
        /\ res' = AfterRedaction(ClassAfterCleanup(AfterStop(AfterRemoteCleanup(res), stopOk)),
                                 redactOk)
        /\ server' = AfterStopOf(server, stopOk)
        /\ seen' = IF stopOk /\ redactOk THEN seen ELSE Trouble
  BY Zenon DEF Teardown
<1>3. res \in Results /\ seen \in [Roles -> Histories] /\ role \in Roles
  BY DEF RelInv, RelTypeOK
<1>4. /\ res' \in Results /\ res'.failed = res.failed /\ res'.primary = res.primary
      /\ res.class = "environment"
           => res'.class = "environment" /\ (~External /\ Err(res) => Err(res'))
      /\ res'.class # "environment"
           => stopOk /\ redactOk /\ res'.class = res.class /\ ~res'.cleanup
  <2>1. res' = AfterRedaction(ClassAfterCleanup(AfterStop(AfterRemoteCleanup(res), stopOk)),
                              redactOk)
    BY <1>2
  <2> QED BY <1>3, <2>1, TeardownResult
<1>5. /\ seen' \in [Roles -> Histories] /\ seen'[role].failed = seen[role].failed
      /\ \A r \in Roles \ {role} : seen'[r] = seen[r]
  <2>1. seen[role] \in Histories
    BY <1>3
  <2> QED BY <1>2, <1>3, <2>1 DEF Trouble, Histories
<1>6. RelTypeOK' /\ PlaceInv' /\ ServerInv'
  <2>1. server' = server \/ server' = "none"
    BY <1>2 DEF AfterStopOf
  <2>2. RelTypeOK'
    BY <1>1, <1>4, <1>5, <2>1 DEF RelInv, RelTypeOK, attemptVars, runVars
  <2>3. PlaceInv'
    BY <1>1 DEF PlaceInv
  <2>4. res'.class # "environment" => server # "stray"
    BY <1>1, <1>4 DEF RelInv, ServerInv
  <2>5. ServerInv'
    BY <1>1, <1>2, <1>4, <2>1, <2>4 DEF RelInv, ServerInv, AfterStopOf
  <2> QED BY <2>2, <2>3, <2>5
<1>7. Given' = Given /\ Running /\ Running'
  BY <1>1 DEF Given, Running, attemptVars
<1>8. res.class = "environment" /\ ~External => Err(res)
  BY <1>7 DEF RelInv, ResInv
<1>9. ResInv'
  <2>1. res'.failed = seen'[role].failed
    BY <1>4, <1>5, <1>7 DEF RelInv, ResInv
  <2>2. CASE res'.class # "environment"
    <3>1. /\ res'.class = res.class /\ ~res'.cleanup /\ res'.primary = res.primary
          /\ seen' = seen /\ res'.failed = res.failed
      BY <1>2, <1>4, <2>2
    <3>2. res.class # "environment" /\ role' = role /\ todo' = todo /\ leaked' = leaked
      BY <1>1, <2>2, <3>1 DEF attemptVars
    <3>3. /\ ~seen[role].trouble /\ todo = {}
          /\ seen[role].passed \cup seen[role].failed \cup todo = Given
          /\ res.class = "none" => ~Err(res) /\ res.failed = {}
          /\ res.class = "case" => res.primary /\ res.failed # {}
          /\ role = "candidate" /\ leaked # {} => External
      BY <1>1, <1>7, <3>2 DEF RelInv, ResInv
    <3> QED BY <1>7, <2>1, <2>2, <3>1, <3>2, <3>3 DEF ResInv, Err
  <2>3. CASE res'.class = "environment"
    <3>1. ~External => Err(res')
      <4>1. CASE res.class = "environment"
        BY <1>4, <1>8, <4>1
      <4>2. CASE res.class # "environment"
        <5>1. ~External => res'.cleanup \/ res'.class = res.class
          BY <1>2, <1>3 DEF AfterRedaction, ClassAfterCleanup, AfterStop, AfterRemoteCleanup,
             Results
        <5> QED BY <2>3, <4>2, <5>1 DEF Err
      <4> QED BY <4>1, <4>2
    <3> QED BY <1>1, <2>1, <2>3, <3>1 DEF ResInv, Err, attemptVars
  <2> QED BY <2>2, <2>3
<1> QED BY <1>1, <1>5, <1>6, <1>7, <1>9, AttemptKeeps DEF RelInv, attemptVars

(* What every new attempt begins with.                                     *)
LEMMA BeginKeeps ==
  ASSUME RelInv, NEW r \in Roles, NEW n \in 1 .. Runs, NEW cases \in SUBSET Selected,
         Begin(r, n, cases), cases = Given', server = "none", stage # "done",
         UNCHANGED <<disk, server, ctxDone, leaked>>,
         initial' \in Results, base' \in Results,
         outcome' \in [primary : BOOLEAN, cleanup : BOOLEAN],
         r = "candidate" /\ ~External => leaked = {}
  PROVE  /\ RelTypeOK' /\ PlaceInv' /\ ResInv' /\ ServerInv'
         /\ EndInv' /\ SummaryHonest' /\ DiskMatchesOutcome'
         /\ \A x \in Roles \ {r} : seen'[x] = seen[x]
<1>1. /\ stage' = "attempt" /\ role' = r /\ number' = n /\ at' = "setup" /\ todo' = cases
      /\ res' = NoResult /\ seen' = [seen EXCEPT ![r] = Unseen]
  BY DEF Begin
<1>2. seen \in [Roles -> Histories] /\ Unseen \in Histories /\ NoResult \in Results
  BY DEF RelInv, RelTypeOK, Unseen, NoResult, Histories, Results
<1>3. /\ seen' \in [Roles -> Histories] /\ seen'[r] = Unseen
      /\ \A x \in Roles \ {r} : seen'[x] = seen[x]
  BY <1>1, <1>2
<1>4. RelTypeOK' /\ PlaceInv' /\ ServerInv'
  BY <1>1, <1>2, <1>3 DEF RelInv, RelTypeOK, PlaceInv, ServerInv
<1>5. ResInv'
  BY <1>1, <1>3 DEF ResInv, Running, NoResult, Unseen, Err
<1>6. EndInv' /\ SummaryHonest' /\ DiskMatchesOutcome'
  BY <1>1 DEF RelInv, EndInv, SummaryHonest, DiskMatchesOutcome
<1> QED BY <1>3, <1>4, <1>5, <1>6

(* What every end begins with.                                             *)
LEMMA ConcludeKeeps ==
  ASSUME RelInv, stage # "done", NEW o \in [primary : BOOLEAN, cleanup : BOOLEAN], NEW c,
         stage' = "finish", outcome' = o, classification' = c,
         UNCHANGED <<role, number, at, todo, res, seen, disk, server, ctxDone, leaked>>,
         initial' \in Results, base' \in Results,
         Err(o) \/ (c = "none" /\ (~External => clean' = 1 .. Runs /\ leaked = {})),
         ~External => Accusation'
  PROVE  RelInv'
<1>1. RelTypeOK'
  BY DEF RelInv, RelTypeOK
<1>2. PlaceInv' /\ ResInv' /\ PastInv' /\ ServerInv'
  BY DEF RelInv, PlaceInv, ResInv, PastInv, ServerInv, Running
<1>3. EndInv' /\ SummaryHonest' /\ DiskMatchesOutcome'
  BY DEF RelInv, EndInv, SummaryHonest, DiskMatchesOutcome, Err
<1> QED BY <1>1, <1>2, <1>3 DEF RelInv

LEMMA PrepareStep == ASSUME RelInv, Prepare PROVE RelInv'
<1>1. stage = "prepare"
      /\ UNCHANGED <<initial, base, classification, disk, server, ctxDone, leaked, clean>>
  BY DEF Prepare
<1>2. /\ initial \in Results /\ base \in Results
      /\ outcome \in [primary : BOOLEAN, cleanup : BOOLEAN]
      /\ leaked = {} /\ clean = {} /\ server = "none" /\ classification = "none" /\ ~Err(outcome)
  BY <1>1 DEF RelInv, RelTypeOK, PastInv, ServerInv
<1>3. CASE Begin("candidate", 1, Selected) /\ UNCHANGED outcome
  <2>1. 1 \in 1 .. Runs /\ "candidate" \in Roles
    BY ReleaseAssumption DEF ReleaseAssumption, Roles
  <2>2. Selected = Given'
    BY <1>3 DEF Begin, Given
  <2>3. PastInv'
    BY <1>1, <1>2, <1>3 DEF PastInv, Begin, Running, Err
  <2> QED BY <1>1, <1>2, <1>3, <2>1, <2>2, <2>3, BeginKeeps DEF RelInv
<1>4. CASE /\ stage' = "finish" /\ outcome' = [outcome EXCEPT !.primary = TRUE]
           /\ UNCHANGED <<role, number, at, todo, res, seen>>
  <2>1. outcome' \in [primary : BOOLEAN, cleanup : BOOLEAN] /\ Err(outcome')
    BY <1>2, <1>4 DEF Err
  <2>2. Accusation'
    BY <1>1, <1>2 DEF Accusation
  <2> QED BY <1>1, <1>2, <1>4, <2>1, <2>2, ConcludeKeeps
<1> QED BY <1>3, <1>4 DEF Prepare

(* The result of an attempt that returned without an error, and of one     *)
(* whose cases failed.                                                     *)
LEMMA Returned ==
  ASSUME RelInv, stage = "compare"
  PROVE  /\ res \in Results /\ role \in Roles /\ number \in 1 .. Runs
         /\ res.failed = seen[role].failed
         /\ ~Err(res) /\ ~External =>
              /\ res.class = "none" /\ res.failed = {} /\ ~seen[role].trouble
              /\ seen[role].passed = Given
         /\ res.class = "none" => ~Err(res) /\ res.failed = {}
         /\ res.class # "environment" =>
              /\ ~seen[role].trouble /\ server = "none"
              /\ seen[role].passed \cup res.failed = Given
         /\ res.class = "case" => Err(res) /\ res.failed # {}
         /\ External \/ ~Err(res) => server = "none"
<1>1. Running /\ at = "returned"
  BY DEF Running, RelInv, PlaceInv
<1>2. res \in Results /\ role \in Roles /\ number \in 1 .. Runs
  BY DEF RelInv, RelTypeOK
<1>3. /\ res.failed = seen[role].failed
      /\ res.class = "none" => ~Err(res) /\ res.failed = {}
      /\ res.class = "case" => res.primary /\ res.failed # {}
      /\ res.class = "environment" /\ ~External => Err(res)
      /\ res.class # "environment" =>
           /\ ~seen[role].trouble /\ todo = {}
           /\ seen[role].passed \cup seen[role].failed \cup todo = Given
  BY <1>1 DEF RelInv, ResInv
<1>4. res.class \in {"none", "case", "environment"}
  BY <1>2 DEF Results
<1>5. /\ External => server = "none"
      /\ res.class # "environment" => server = "none"
  BY DEF RelInv, ServerInv
<1> QED BY <1>2, <1>3, <1>4, <1>5 DEF Err

LEMMA CandidatePassedStep == ASSUME RelInv, CandidatePassed PROVE RelInv'
<1>1. /\ stage = "compare" /\ role = "candidate" /\ ~Err(res)
      /\ clean' = IF seen[role].passed = Selected /\ ~seen[role].trouble
                  THEN clean \cup {number} ELSE clean
      /\ UNCHANGED <<initial, base, disk, server, ctxDone, leaked>>
  BY DEF CandidatePassed
<1>2. number \in 1 .. Runs /\ server = "none" /\ Runs \in Nat
  BY <1>1, Returned, ReleaseAssumption DEF ReleaseAssumption
<1>3. Running /\ ~Err(outcome) /\ classification = "none"
  BY <1>1 DEF RelInv, PastInv, Running
<1>4. /\ initial \in Results /\ base \in Results
      /\ outcome \in [primary : BOOLEAN, cleanup : BOOLEAN]
  BY DEF RelInv, RelTypeOK
<1>5. ASSUME ~External PROVE clean' = 1 .. number /\ leaked = {}
  <2>1. res.class = "none" /\ seen[role].passed = Selected /\ ~seen[role].trouble
    BY <1>1, <1>5, Returned DEF Given
  <2>2. leaked = {}
    BY <1>1, <1>3, <1>5, <2>1 DEF RelInv, ResInv
  <2>3. clean = 1 .. number - 1
    BY <1>1, <1>3, <1>5 DEF RelInv, PastInv
  <2>4. clean' = clean \cup {number}
    BY <1>1, <2>1
  <2> QED BY <1>2, <2>2, <2>3, <2>4
<1>6. CASE /\ MoreAttempts /\ Begin("candidate", NextNumber(number), Selected)
           /\ UNCHANGED <<outcome, classification>>
  <2>1. NextNumber(number) = number + 1 /\ number + 1 \in 1 .. Runs /\ "candidate" \in Roles
    BY <1>2, <1>6 DEF NextNumber, MoreAttempts, Roles
  <2>2. stage' = "attempt" /\ role' = "candidate" /\ number' = number + 1
    BY <1>6, <2>1 DEF Begin
  <2>3. Selected = Given'
    BY <2>2 DEF Given
  <2>4. ~External => clean' = 1 .. number' - 1
    BY <1>2, <1>5, <2>2
  <2>5. PastInv'
    BY <1>3, <1>6, <2>2, <2>4 DEF PastInv, Running, Err
  <2> QED BY <1>1, <1>2, <1>4, <1>5, <1>6, <2>1, <2>3, <2>5, BeginKeeps DEF RelInv
<1>7. CASE ~MoreAttempts /\ Conclude(outcome, "none")
  <2>1. number = Runs
    BY <1>2, <1>7 DEF MoreAttempts
  <2>2. Accusation'
    BY <1>7 DEF Accusation, Conclude
  <2> QED BY <1>1, <1>2, <1>4, <1>5, <1>7, <2>1, <2>2, ConcludeKeeps DEF Conclude
<1> QED BY <1>6, <1>7 DEF CandidatePassed

LEMMA CandidateFailedStep == ASSUME RelInv, CandidateFailed PROVE RelInv'
<1>1. /\ stage = "compare" /\ role = "candidate" /\ Err(res) /\ initial' = res
      /\ UNCHANGED <<base, disk, server, ctxDone, leaked, clean>>
  BY DEF CandidateFailed
<1>2. res \in Results /\ base \in Results
  BY DEF RelInv, RelTypeOK
<1>3. OutcomeOf(res) \in [primary : BOOLEAN, cleanup : BOOLEAN] /\ Err(OutcomeOf(res))
  BY <1>1, <1>2 DEF OutcomeOf, Results, Err
<1>4. CASE ~Comparable(res) /\ Conclude(OutcomeOf(res), ClassificationWithoutComparison(res))
  <2>1. Accusation'
    BY <1>4 DEF Accusation, Conclude, ClassificationWithoutComparison
  <2> QED BY <1>1, <1>2, <1>3, <1>4, <2>1, ConcludeKeeps DEF Conclude
<1>5. CASE Comparable(res) /\ Conclude([OutcomeOf(res) EXCEPT !.primary = TRUE], "none")
  <2> DEFINE o == [OutcomeOf(res) EXCEPT !.primary = TRUE]
  <2>1. Accusation'
    BY <1>5 DEF Accusation, Conclude
  <2>2. o \in [primary : BOOLEAN, cleanup : BOOLEAN] /\ Err(o)
    BY <1>3 DEF Err
  <2>3. Conclude(o, "none")
    BY <1>5
  <2> HIDE DEF o
  <2> QED BY <1>1, <1>2, <2>1, <2>2, <2>3, ConcludeKeeps DEF Conclude
<1>6. CASE /\ Comparable(res) /\ Begin("base", number, res.failed)
           /\ outcome' = OutcomeOf(res) /\ UNCHANGED classification
  <2>1. res.class = "case" /\ res.failed # {} /\ res.failed \in SUBSET Selected
    BY <1>2, <1>6 DEF Comparable, Results
  <2>2. /\ number \in 1 .. Runs /\ server = "none" /\ "base" \in Roles
        /\ res.failed = seen["candidate"].failed /\ ~seen["candidate"].trouble
    BY <1>1, <2>1, Returned DEF Roles
  <2>3. res.failed = Given'
    BY <1>1, <1>6 DEF Begin, Given
  <2>4. /\ RelTypeOK' /\ PlaceInv' /\ ResInv' /\ ServerInv'
        /\ EndInv' /\ SummaryHonest' /\ DiskMatchesOutcome'
        /\ \A x \in Roles \ {"base"} : seen'[x] = seen[x]
    BY <1>1, <1>2, <1>3, <1>6, <2>1, <2>2, <2>3, BeginKeeps
  <2>5. PastInv'
    <3>1. seen'["candidate"] = seen["candidate"] /\ stage' = "attempt" /\ role' = "base"
      BY <1>6, <2>4 DEF Roles, Begin
    <3>2. classification = "none"
      BY <1>1 DEF RelInv, PastInv, Running
    <3> QED BY <1>1, <1>6, <2>1, <2>2, <3>1, <3>2 DEF PastInv, Running
  <2> QED BY <2>4, <2>5 DEF RelInv
<1> QED BY <1>4, <1>5, <1>6 DEF CandidateFailed

(* What a comparison ends with is a failure of the release.                *)
LEMMA Compared ==
  ASSUME NEW i \in Results, NEW b \in Results, NEW r \in Results
  PROVE  /\ ComparedOutcome(i, b, r) \in [primary : BOOLEAN, cleanup : BOOLEAN]
         /\ Err(ComparedOutcome(i, b, r))
BY DEF ComparedOutcome, Results, Err

LEMMA BaseReturnedStep == ASSUME RelInv, BaseReturned PROVE RelInv'
<1>1. /\ stage = "compare" /\ role = "base" /\ base' = res
      /\ UNCHANGED <<initial, disk, server, ctxDone, leaked, clean>>
  BY DEF BaseReturned
<1>2. initial \in Results /\ NoResult \in Results
  BY DEF RelInv, RelTypeOK, NoResult, Results
<1>3. /\ initial.class = "case" /\ initial.failed # {} /\ ~seen["candidate"].trouble
      /\ initial.failed = seen["candidate"].failed /\ classification = "none"
  BY <1>1 DEF RelInv, PastInv, Running
<1>4. res \in Results /\ res.failed = seen["base"].failed /\ number \in 1 .. Runs
  BY <1>1, Returned
<1>5. CASE /\ (Err(res) /\ res.class # "case") \/ CandidateOnly = {}
           /\ Conclude(ComparedOutcome(initial, res, NoResult),
                       ClassifyCandidateComparison(initial, res, NoResult))
  <2>1. ASSUME ~External PROVE Accusation'
    <3>1. CASE Err(res) /\ res.class # "case"
      BY <1>5, <3>1 DEF Accusation, Conclude, ClassifyCandidateComparison
    <3>2. CASE ~(Err(res) /\ res.class # "case") /\ CandidateOnly = {}
      <4>1. initial.failed \subseteq res.failed
        BY <3>2 DEF CandidateOnly, FailedCaseDifference
      <4>2. Err(res)
        BY <1>1, <1>3, <2>1, <4>1, Returned
      <4>3. classification' = "baseline-incompatible" /\ seen' = seen
        BY <1>5, <3>2, <4>2 DEF Conclude, ClassifyCandidateComparison, CandidateOnly
      <4>4. ~seen["base"].trouble
        BY <1>1, <3>2, <4>2, Returned
      <4>5. BaselineJustified'
        BY <1>3, <1>4, <4>1, <4>3, <4>4 DEF BaselineJustified, Untroubled
      <4> QED BY <4>3, <4>5 DEF Accusation
    <3> QED BY <1>5, <3>1, <3>2
  <2> QED BY <1>1, <1>2, <1>4, <1>5, <2>1, Compared, ConcludeKeeps DEF Conclude
<1>6. CASE /\ ~(Err(res) /\ res.class # "case") /\ CandidateOnly # {}
           /\ Begin("retry", number, CandidateOnly) /\ UNCHANGED <<outcome, classification>>
  <2>1. CandidateOnly \in SUBSET Selected /\ "retry" \in Roles
        /\ outcome \in [primary : BOOLEAN, cleanup : BOOLEAN]
    BY <1>2 DEF CandidateOnly, FailedCaseDifference, Results, RelInv, RelTypeOK, Roles
  <2>2. server = "none"
    BY <1>1, <1>6, Returned
  <2>3. CandidateOnly = Given'
    BY <1>1, <1>6 DEF Begin, Given, CandidateOnly, FailedCaseDifference
  <2>4. /\ RelTypeOK' /\ PlaceInv' /\ ResInv' /\ ServerInv'
        /\ EndInv' /\ SummaryHonest' /\ DiskMatchesOutcome'
        /\ \A x \in Roles \ {"retry"} : seen'[x] = seen[x]
    BY <1>1, <1>2, <1>4, <1>6, <2>1, <2>2, <2>3, BeginKeeps
  <2>5. PastInv'
    <3>1. /\ seen'["candidate"] = seen["candidate"] /\ seen'["base"] = seen["base"]
          /\ stage' = "attempt" /\ role' = "retry"
      BY <1>6, <2>4 DEF Roles, Begin
    <3>2. ~External =>
            /\ res.class # "environment" /\ ~seen["base"].trouble
            /\ res.class = "none" => ~Err(res)
            /\ seen["base"].passed \cup res.failed = initial.failed
      BY <1>1, <1>6, Returned DEF Given
    <3> QED BY <1>1, <1>3, <1>4, <1>6, <3>1, <3>2
            DEF PastInv, Running, CandidateOnly, FailedCaseDifference, Err
  <2> QED BY <2>4, <2>5 DEF RelInv
<1> QED BY <1>5, <1>6 DEF BaseReturned

LEMMA RetryReturnedStep == ASSUME RelInv, RetryReturned PROVE RelInv'
<1>1. /\ stage = "compare" /\ role = "retry"
      /\ Conclude(ComparedOutcome(initial, base, res),
                  ClassifyCandidateComparison(initial, base, res))
      /\ UNCHANGED <<initial, base, disk, server, ctxDone, leaked, clean>>
  BY DEF RetryReturned
<1>2. initial \in Results /\ base \in Results /\ res \in Results
  BY DEF RelInv, RelTypeOK
<1>3. ASSUME ~External PROVE Accusation'
  <2>1. /\ ~seen["candidate"].trouble /\ initial.failed = seen["candidate"].failed
        /\ base.class # "environment" /\ ~seen["base"].trouble
        /\ base.class = "none" => ~Err(base)
        /\ base.failed = seen["base"].failed /\ initial.failed \ base.failed # {}
        /\ seen["base"].passed \cup base.failed = initial.failed
    BY <1>1, <1>3 DEF RelInv, PastInv, Running
  <2>2. ~(Err(base) /\ base.class # "case")
    BY <1>2, <2>1 DEF Results
  <2>3. classification' = ClassifyRetry(base, res) /\ seen' = seen
    BY <1>1, <2>1, <2>2 DEF Conclude, ClassifyCandidateComparison, FailedCaseDifference
  <2>4. Given = seen["candidate"].failed \ seen["base"].failed
    BY <1>1, <2>1 DEF Given
  <2>5. CASE ~Err(res)
    <3>1. ~seen["retry"].trouble /\ seen["retry"].passed = Given
      BY <1>1, <1>3, <2>5, Returned
    <3>2. FlakyJustified'
      BY <2>1, <2>3, <2>4, <3>1 DEF FlakyJustified, Untroubled, Roles
    <3> QED BY <2>3, <2>5, <3>2 DEF Accusation, ClassifyRetry
  <2>6. CASE Err(res) /\ res.class = "case"
    <3>1. /\ ~seen["retry"].trouble /\ res.failed = seen["retry"].failed /\ res.failed # {}
          /\ res.failed \subseteq Given
      BY <1>1, <2>6, Returned
    <3>2. PICK c \in res.failed : TRUE
      BY <3>1
    <3>3. c \in seen["candidate"].failed /\ c \in seen["base"].passed /\ c \in seen["retry"].failed
      BY <2>1, <2>4, <3>1, <3>2
    <3>4. RegressionJustified'
      BY <2>1, <2>3, <3>1, <3>3 DEF RegressionJustified, Untroubled, Roles
    <3> QED BY <2>3, <2>6, <3>4 DEF Accusation, ClassifyRetry
  <2>7. CASE Err(res) /\ res.class # "case"
    BY <2>3, <2>7 DEF Accusation, ClassifyRetry
  <2> QED BY <2>5, <2>6, <2>7
<1> QED BY <1>1, <1>2, <1>3, Compared, ConcludeKeeps DEF Conclude

LEMMA FinishStep == ASSUME RelInv, Finish PROVE RelInv'
<1>1. /\ stage = "finish" /\ stage' = "done"
      /\ UNCHANGED <<at, todo, res, server, ctxDone, attemptVars, seen, leaked, clean>>
  BY DEF Finish
<1>2. PICK closed \in BOOLEAN, redacted \in BOOLEAN, written \in BOOLEAN :
        LET o1 == [outcome EXCEPT !.cleanup = @ \/ ~closed]
            o2 == [o1 EXCEPT !.cleanup = @ \/ ~redacted]
            doomed == Doomed(Success(o1) /\ redacted)
        IN \E stuck \in SUBSET doomed :
             LET o3 == [o2 EXCEPT !.cleanup = @ \/ stuck # {}] IN
             /\ disk' = disk \ (doomed \ stuck)
             /\ classification' = FinalClassification(o3)
             /\ outcome' = [o3 EXCEPT !.cleanup = @ \/ ~written]
  BY <1>1, Zenon DEF Finish
<1> DEFINE o1 == [outcome EXCEPT !.cleanup = @ \/ ~closed]
           o2 == [o1 EXCEPT !.cleanup = @ \/ ~redacted]
           doomed == Doomed(Success(o1) /\ redacted)
<1>3. PICK stuck \in SUBSET doomed :
        LET o3 == [o2 EXCEPT !.cleanup = @ \/ stuck # {}] IN
        /\ disk' = disk \ (doomed \ stuck)
        /\ classification' = FinalClassification(o3)
        /\ outcome' = [o3 EXCEPT !.cleanup = @ \/ ~written]
  BY <1>2
<1> DEFINE o3 == [o2 EXCEPT !.cleanup = @ \/ stuck # {}]
<1>4. outcome \in [primary : BOOLEAN, cleanup : BOOLEAN]
  BY DEF RelInv, RelTypeOK
<1>5. /\ o1 \in [primary : BOOLEAN, cleanup : BOOLEAN] /\ o1.primary = outcome.primary
      /\ o1.cleanup = (outcome.cleanup \/ ~closed)
  BY <1>4
<1>6. /\ o2 \in [primary : BOOLEAN, cleanup : BOOLEAN] /\ o2.primary = outcome.primary
      /\ o2.cleanup = (o1.cleanup \/ ~redacted)
  <2> HIDE DEF o1
  <2> QED BY <1>5
<1>7. /\ o3 \in [primary : BOOLEAN, cleanup : BOOLEAN] /\ o3.primary = outcome.primary
      /\ o3.cleanup = (o2.cleanup \/ stuck # {})
  <2> HIDE DEF o2
  <2> QED BY <1>6
<1>8. /\ outcome' \in [primary : BOOLEAN, cleanup : BOOLEAN] /\ outcome'.primary = outcome.primary
      /\ outcome'.cleanup = (o3.cleanup \/ ~written)
      /\ classification' = FinalClassification(o3) /\ disk' = disk \ (doomed \ stuck)
  <2>1. /\ outcome' = [o3 EXCEPT !.cleanup = @ \/ ~written]
        /\ classification' = FinalClassification(o3) /\ disk' = disk \ (doomed \ stuck)
    BY <1>3
  <2> HIDE DEF o3, doomed
  <2> QED BY <1>7, <2>1
<1>9. doomed = Doomed(Success(o1) /\ redacted)
  OBVIOUS
<1> HIDE DEF o1, o2, o3, doomed
<1>10. disk = {"secrets", "runtime", "evidence"}
  BY <1>1 DEF RelInv, EndInv
<1>11. RelTypeOK' /\ PlaceInv' /\ ResInv' /\ PastInv'
  <2>1. RelTypeOK'
    BY <1>1, <1>8 DEF RelInv, RelTypeOK, attemptVars
  <2> QED BY <1>1, <2>1 DEF PlaceInv, ResInv, PastInv, Running
<1>12. ServerInv'
  BY <1>1 DEF RelInv, ServerInv
<1>13. ASSUME ~Err(outcome')
       PROVE  /\ ~Err(outcome) /\ ~Err(o1) /\ ~Err(o3) /\ redacted /\ stuck = {}
  BY <1>5, <1>6, <1>7, <1>8, <1>13 DEF Err
<1>14. classification' \in {classification, "environment-failure"}
  BY <1>8 DEF FinalClassification
<1>15. ~Err(outcome') => classification' = "none"
  <2> SUFFICES ASSUME ~Err(outcome') PROVE classification' = "none"
    OBVIOUS
  <2>1. classification = "none"
    BY <1>1, <1>13 DEF RelInv, EndInv
  <2> QED BY <1>8, <1>13, <2>1 DEF FinalClassification, Err
<1>16. EndInv'
  <2>1. ~Err(outcome') /\ ~External => clean' = 1 .. Runs /\ leaked' = {}
    BY <1>1, <1>13 DEF RelInv, EndInv
  <2>2. ~External => Accusation'
    BY <1>1, <1>14 DEF RelInv, EndInv, Accusation, RegressionJustified, BaselineJustified,
       FlakyJustified, Untroubled
  <2> QED BY <1>1, <1>15, <2>1, <2>2 DEF EndInv, Err
<1>17. SummaryHonest'
  <2>1. classification' = "none" => ~outcome'.primary
    BY <1>7, <1>8 DEF FinalClassification
  <2> QED BY <1>15, <2>1 DEF SummaryHonest, Err
<1>18. DiskMatchesOutcome'
  <2>1. outcome.primary => {"runtime", "evidence"} \subseteq disk'
    <3> SUFFICES ASSUME outcome.primary PROVE {"runtime", "evidence"} \subseteq disk'
      OBVIOUS
    <3>1. doomed = {"secrets"}
      BY <1>5, <1>9 DEF Doomed, Success, Err
    <3> QED BY <1>8, <1>10, <3>1
  <2>2. ~Err(outcome') => disk' \cap {"secrets", "runtime"} = {}
    <3> SUFFICES ASSUME ~Err(outcome') PROVE disk' \cap {"secrets", "runtime"} = {}
      OBVIOUS
    <3>1. {"secrets", "runtime"} \subseteq doomed /\ stuck = {}
      BY <1>9, <1>13 DEF Doomed, Success
    <3> QED BY <1>8, <3>1
  <2> QED BY <1>8, <2>1, <2>2 DEF DiskMatchesOutcome, Err
<1> QED BY <1>11, <1>12, <1>16, <1>17, <1>18 DEF RelInv

(* Every reachable state satisfies the inductive invariant.                *)
THEOREM ReleaseInvariant == RelSpec => []RelInv
<1>1. ASSUME RelInv, [RelNext]_relVars PROVE RelInv'
  BY <1>1, OutsideStep, PrepareStep, SetupStep, PreflightStep, RunCaseStep, AfterCaseStep,
     TeardownStep, CandidatePassedStep, CandidateFailedStep, BaseReturnedStep,
     RetryReturnedStep, FinishStep
  DEF RelNext, Release, Attempt, Compare, RelTerminated
<1> QED BY <1>1, RelInitially, PTL DEF RelSpec

(* No attempt of the gate begins while a server of an earlier one may run. *)
THEOREM ServersAreFresh == RelSpec => []FreshServer
<1>1. RelInv => FreshServer
  BY DEF RelInv, ServerInv, FreshServer
<1> QED BY <1>1, ReleaseInvariant, PTL

(* The summary names a class of failure when the work failed, none when    *)
(* the release passed.                                                     *)
THEOREM SummariesAreHonest == RelSpec => []SummaryHonest
<1>1. RelInv => SummaryHonest
  BY DEF RelInv
<1> QED BY <1>1, ReleaseInvariant, PTL

(* What Finalize leaves on the disk follows from how the release ended.    *)
THEOREM DiskIsRight == RelSpec => []DiskMatchesOutcome
<1>1. RelInv => DiskMatchesOutcome
  BY DEF RelInv
<1> QED BY <1>1, ReleaseInvariant, PTL

(* On a local target, a release that passes passed every selected case in  *)
(* each of its attempts and deleted everything they created.               *)
THEOREM PassesAreClean == ASSUME ~External PROVE RelSpec => []QualifiedMeansClean
<1>1. RelInv => QualifiedMeansClean
  BY DEF RelInv, EndInv, QualifiedMeansClean
<1> QED BY <1>1, ReleaseInvariant, PTL

(* On a local target, a classification that accuses the candidate, the     *)
(* base or a flake is justified by what the attempts did.                  *)
THEOREM AccusationsAreJustified == ASSUME ~External PROVE RelSpec => []ClassificationJustified
<1>1. RelInv => ClassificationJustified
  BY DEF RelInv, EndInv, Accusation, ClassificationJustified
<1> QED BY <1>1, ReleaseInvariant, PTL
===============================================================================
