----------------------------- MODULE MCFolderSem -----------------------------
(* Three workers: one downloads into folder b, one downloads into b and      *)
(* renames a, where it may throw, and one renames either.  Two addresses of  *)
(* maps: a third worker that has found no map waits until one is given up.   *)
EXTENDS FolderSem, TLC

CONSTANTS w1, w2, w3, a, b, m1, m2

MCUsers == {w1, w2, w3}
MCFolders == {a, b}
MCReads == (w1 :> {b}) @@ (w2 :> {b}) @@ (w3 :> {})
MCWrites == (w1 :> {}) @@ (w2 :> {a}) @@ (w3 :> {a, b})
MCThrowing == {w2}
MCMaps == {m1, m2}
=============================================================================
