------------------------------ MODULE MCAccount ------------------------------
(* Two devices with three operations between them; one request may fail. *)
EXTENDS Account, TLC

Symmetry == Permutations(Phrases) \cup Permutations(Devices)
=============================================================================
