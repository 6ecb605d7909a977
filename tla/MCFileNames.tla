---------------------------- MODULE MCFileNames ----------------------------
(* Files are moved and made on the laptop, and the desktop follows. *)
EXTENDS FileNames, TLC
CONSTANTS laptop, desktop, root, docs, a, b, c, w1, w2

OneKnown == 1 :> <<root, a>>
Threads == Permutations({w1, w2})
=============================================================================
