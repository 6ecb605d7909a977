--------------------------- MODULE MCFolderCreation ---------------------------
(* Two creators, one of a nested folder and one of its parent, and a walker. *)
EXTENDS FolderCreation, TLC

CONSTANTS c1, c2, w1, x, y

MCCreators == {c1, c2}
MCWalkers == {w1}

\* Folders of two names.
MCNames == {x, y}
MCPathsOf == (c1 :> { <<x, y>> }) @@ (c2 :> { <<x>> })
=============================================================================
