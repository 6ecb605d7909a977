---- MODULE MCTransfer ----
(* Two devices; a file of one group, its chunks turned round, and one of two. *)
EXTENDS Transfer
MCContents == {<<2, 1>>, <<1, 3, 2>>}
====
