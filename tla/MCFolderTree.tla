---- MODULE MCFolderTree ----
(* Device 1 makes, moves and removes folders, device 2 knows none of them, makes  *)
(* some and follows.                                                            *)
EXTENDS FolderTree, TLC

CONSTANTS a, b

\* One folder, whose id lies between those to come.
MCOld == 3 :> [name |-> a, parent |-> 1]
====
