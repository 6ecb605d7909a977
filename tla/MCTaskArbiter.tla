---------------------------- MODULE MCTaskArbiter ----------------------------
(* A pool with one worker of each kind ExtendPool makes: dedicated to the   *)
(* service, dedicated to uploads, and generic.                              *)
EXTENDS ArbiterCoalesces, TLC

CONSTANTS service, push, generic, f1, f2

MCWorkers == {service, push, generic}
MCPref == (service :> {"SERVICE"}) @@ (push :> {"PUSH"}) @@ (generic :> {})
MCStrict == (service :> TRUE) @@ (push :> TRUE) @@ (generic :> FALSE)
MCKeys == {f1, f2}

Request(t, k) == [type |-> t, key |-> k]

\* Uploads of two files, whose type a worker is dedicated to and the generic
\* worker takes too, and a request the factory has no case for.
MCRequests == { Request("PUSH", f1), Request("PUSH", f2), Request("QUERYMANIFEST", f1) }
=============================================================================
