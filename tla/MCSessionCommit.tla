---------------------------- MODULE MCSessionCommit ----------------------------
(* Three attempts: one finds the task, one finds a commit that was missed, *)
(* one is the last.  Two commits of up to two memories, with two required, *)
(* so that one commit alone may be enough or not.                          *)
EXTENDS SessionCommitProps
=============================================================================
