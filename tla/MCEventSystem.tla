---------------------------- MODULE MCEventSystem ----------------------------
(* The ServiceTask and the application both process events; a callback of the
   error notification raises another error. *)
EXTENDS EventSystem, TLC

CONSTANTS svc, app, err, push, c1

MCEcho == [c \in {c1} |-> err]
=============================================================================
