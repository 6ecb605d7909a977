-------------------------- MODULE ArbiterCoalesces --------------------------
(***************************************************************************)
(* TaskArbiter implements Coalescer: the filter merges requests without    *)
(* losing one, whatever the threads do between its critical sections.      *)
(***************************************************************************)
EXTENDS TaskArbiter

\* How often c occurs in the sequence s.
Count(c, s) == Cardinality({ i \in 1..Len(s) : s[i] = c })

\* The copies of c in what the workers have yet to filter, and the workers that
\* popped one but have made no task for it; and those that have.
Batched(c) == UNION { {w} \X { i \in 1..Len(batch[w]) : batch[w][i] = c } : w \in Workers }
Popped(c) == { w \in Workers : task[w] = c /\ pc[w] \in {"check", "erase", "make"} }
Serving(c) == { w \in Workers : task[w] = c /\ pc[w] \in {"start", "running", "finished"} }

\* The copies of c no worker has begun: in TaskManager's queue, in the
\* service's batch, in the pool, or popped without a task made for it.
WaitingFor == [ c \in Requests |->
    Count(c, hold) + Cardinality(Batched(c)) + Count(c, pool[c.type]) + Cardinality(Popped(c)) ]

BegunFor == [ c \in Requests |-> Cardinality(Serving(c)) ]

\* ExtendPool dedicates a worker to a type by making it strict and giving it
\* that one preference.
Dedicated(t) == \E w \in Workers : Strict[w] /\ Pref[w] = {t}

Abstract == INSTANCE Coalescer WITH
    Mergeable <- { c \in Requests : c.type \in FilteredTypes },
    Servable <- { c \in Requests : c.type \in ConstructibleTypes },
    Prompt <- { c \in Requests : c.type \in ConstructibleTypes /\ Dedicated(c.type) },
    waiting <- WaitingFor,
    begun <- BegunFor

\* Every step of the dispatch is a step of the abstract coalescer or leaves it
\* alone: a context FilterTask drops has a twin that still waits, so a change
\* made to the file before the request is seen by a task that starts after it.
Coalesces == Abstract!ASpec

\* A request with a dedicated worker is begun at last, although new requests may
\* keep coming and the generic workers may prefer others (ThreadManager::ExtendPool,
\* RetrieveTask's preferences).
BegunAtLast == Abstract!AFair
=============================================================================
