--------------------------- MODULE MCManagedService ---------------------------
(* The three starts of the code, so that the last one cannot be retried,   *)
(* and two cases, so that a crash can fall before, between or after them.  *)
EXTENDS ManagedServiceProps
=============================================================================
