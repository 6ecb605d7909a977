---------------------------- MODULE MCLifecycle ----------------------------
(* Two workers and a request; three starts, any of which may fail, and two    *)
(* stops: threads of two pools may linger beside a third.                     *)
EXTENDS Lifecycle
=============================================================================
