---------------------------- MODULE EventChannel ----------------------------
(***************************************************************************)
(* What the event system promises to whoever listens, while one thread at  *)
(* a time processes events: an event that was raised is told of once, in   *)
(* the order of raising, one event at a time; only a shutdown loses what   *)
(* waits.                                                                  *)
(***************************************************************************)
EXTENDS Sequences

CONSTANTS Types, None

VARIABLES
  pending,   \* events raised and not told of yet, oldest first
  now        \* the event the listeners are being told of, or None

Init == pending = <<>> /\ now = None

Raise == \E t \in Types : pending' = Append(pending, t) /\ UNCHANGED now

Tell ==
  /\ now = None /\ pending # <<>>
  /\ now' = Head(pending)
  /\ pending' = Tail(pending)

Told == now # None /\ now' = None /\ UNCHANGED pending

Next == Raise \/ Tell \/ Told
=============================================================================
