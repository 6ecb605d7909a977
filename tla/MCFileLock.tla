------------------------------ MODULE MCFileLock ------------------------------
(* Three workers, two files, the paths of each.                             *)
EXTENDS FileLock, TLC

CONSTANTS w1, w2, w3, f, g, fAbs, fAlias, gAbs, gAlias

MCWorkers == {w1, w2, w3}
MCFiles == {f, g}
MCPaths == {fAbs, fAlias, gAbs, gAlias}
MCCanonical == (f :> fAbs) @@ (g :> gAbs)
MCAliased == (f :> fAlias) @@ (g :> gAlias)
=============================================================================
