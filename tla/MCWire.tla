------------------------------- MODULE MCWire -------------------------------
(* A task that asks once through a PostHandler, and one that may ask again. *)
EXTENDS Wire
CONSTANTS pull, again
=============================================================================
