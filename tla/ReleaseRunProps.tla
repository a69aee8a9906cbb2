--------------------------- MODULE ReleaseRunProps ---------------------------
(* What the release gate has to guarantee, stated over module ReleaseRun.  *)
EXTENDS ReleaseRun

(* A classification that accuses somebody is justified by what happened:   *)
(* no attempt it rests on had any environment trouble, a regression failed *)
(* twice on the candidate and passed on the base, a base accused of        *)
(* incompatibility failed every case the candidate failed, and a flake     *)
(* passed the second time.                                                 *)
Untroubled(roles) == \A r \in roles : ~seen[r].trouble

RegressionJustified ==
  /\ Untroubled(Roles)
  /\ \E c \in seen["candidate"].failed : c \in seen["base"].passed /\ c \in seen["retry"].failed

BaselineJustified ==
  /\ Untroubled({"candidate", "base"})
  /\ seen["candidate"].failed \subseteq seen["base"].failed

FlakyJustified ==
  /\ Untroubled(Roles)
  /\ seen["candidate"].failed \ seen["base"].failed = seen["retry"].passed

ClassificationJustified ==
  stage = "done" =>
    CASE classification = "probable-openviking-regression" -> RegressionJustified
      [] classification = "baseline-incompatible" -> BaselineJustified
      [] classification = "flaky-inconclusive" -> FlakyJustified
      [] OTHER -> TRUE

(* A release that passes passed every selected case in every qualification *)
(* attempt, and nothing its cases created was left behind.                 *)
QualifiedMeansClean ==
  stage = "done" /\ ~Err(outcome) => clean = 1 .. Runs /\ leaked = {}

(* The summary of a release whose work failed names a class of failure,    *)
(* and that of a release which passed names none.                          *)
SummaryHonest ==
  stage = "done" =>
    /\ classification = "none" => ~outcome.primary
    /\ ~Err(outcome) => classification = "none"

(* A release whose work failed keeps the runtime and the evidence needed   *)
(* to diagnose it; one that passed leaves no secrets and no runtime behind.*)
DiskMatchesOutcome ==
  stage = "done" =>
    /\ outcome.primary => {"runtime", "evidence"} \subseteq disk
    /\ ~Err(outcome) => disk \cap {"secrets", "runtime"} = {}

(* No attempt begins while the server of an earlier one may still run.     *)
FreshServer == stage = "attempt" /\ at = "setup" => server = "none"

(* A release ends, interrupted or not, through every failure of its parts. *)
(* Nothing but a command that hangs while sources or builds are prepared,  *)
(* and that nobody interrupts, can hold it up for ever.                    *)
RunEnds == <>(stage = "done") \/ <>[](Building /\ ~ctxDone)

(* Resources a case claimed and that could not be deleted are a cleanup    *)
(* failure of the release.                                                 *)
CleanupReported == stage = "done" /\ leaked # {} => outcome.cleanup
=============================================================================
