------------------------------ MODULE MCLocalRun ------------------------------
(* Two commands: the second one meets what the first left behind.  Two     *)
(* runs of each, two URIs to clean up; three attempts are a first, a       *)
(* middle and a last one (the code has five).                              *)
EXTENDS LocalRunProps

CONSTANTS t1, t2
MCTargets == {t1, t2}
===============================================================================
