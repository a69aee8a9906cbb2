----------------------------- MODULE MCReleaseRun -----------------------------
(* Two cases, so that the base can fail a part of what the candidate       *)
(* failed, and two qualification attempts.                                 *)
EXTENDS ReleaseRunProps

MCSelected == {"baseline", "memory"}
=============================================================================
