---------------------------- MODULE MCSourceCache ----------------------------
(* Two releases, each of the latest source or a replay of the other, and   *)
(* one push, so that the other's commit is no longer upstream.             *)
EXTENDS SourceCacheProps
=============================================================================
