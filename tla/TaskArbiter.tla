----------------------------- MODULE TaskArbiter -----------------------------
(***************************************************************************)
(* The dispatch of task requests: TaskManager's context queue, the         *)
(* TaskArbiter with its duplicate filter and TaskPool, and the ThreadWorkers *)
(* that ask the arbiter for work.  One of the workers runs the ServiceTask, *)
(* which moves requests from the context queue through the filter into the *)
(* pool.  Every critical section of the code (cxt_mtx, filter_mtx_, the     *)
(* pool's own mutex) is one action; between two of them any other thread    *)
(* may run, as in the code.                                                *)
(***************************************************************************)
EXTENDS Tasks, FiniteSetsExt

CONSTANTS
    Workers,      \* the ThreadWorkers of the ThreadPool
    Pref,         \* Pref[w]: the active entries of task_preference_
    Strict,       \* Strict[w]: strict_
    Keys,         \* the values that tell requests of one type apart
    Requests,     \* the contexts that API calls and events submit
    NoTask,       \* current_task_ == NULL
    MaxWaiting    \* bound on the contexts that wait for a worker at a time

Contexts == [type : Types, key : Keys]

ASSUME WorkersAssumption == IsFiniteSet(Workers)
ASSUME PrefAssumption == Pref \in [Workers -> SUBSET Types]
ASSUME StrictAssumption == Strict \in [Workers -> BOOLEAN]
\* TaskManager makes the SERVICE context with CreateServiceContext only, and
\* that one does not enter the context queue.
ASSUME RequestsAssumption ==
    Requests \subseteq { c \in Contexts : c.type # "SERVICE" }
ASSUME NoTaskAssumption == NoTask \notin Contexts
ASSUME KeysAssumption == Keys # {}

VARIABLES
    hold,     \* TaskManager::context_queue_
    filter,   \* TaskArbiter::task_filter_, as the set of filtered contexts
    pool,     \* TaskPool::context_map_
    pc,       \* where each worker is in ThreadWorker::Run
    ask,      \* the preferences RetrieveTask has not asked for yet
    task,     \* tc in RetrieveTask, then current_task_
    batch     \* cq of RetrieveTasks, its handled prefix removed

vars == <<hold, filter, pool, pc, ask, task, batch>>

ServiceContext == [type |-> "SERVICE", key |-> CHOOSE k \in Keys : TRUE]

\* How many contexts wait for a worker; bounded by MaxWaiting.
Waiting == Len(hold)
           + MapThenSumSet(LAMBDA w : Len(batch[w]), Workers)
           + MapThenSumSet(LAMBDA t : Len(pool[t]), Types)

\* ServiceManager::Initialize has pushed the service context (past the
\* filter) before ThreadManager::Initialize starts the workers.
Init ==
    /\ hold = << >>
    /\ filter = {}
    /\ pool = [t \in Types |-> IF t = "SERVICE" THEN <<ServiceContext>> ELSE << >>]
    /\ pc = [w \in Workers |-> "ask"]
    /\ ask = Pref
    /\ task = [w \in Workers |-> NoTask]
    /\ batch = [w \in Workers |-> << >>]

-----------------------------------------------------------------------------
\* TaskManager

\* Any of the request methods, called by the API or by OnEventRaised.
PushContextBack(c) ==
    /\ Waiting < MaxWaiting
    /\ hold' = Append(hold, c)
    /\ UNCHANGED <<filter, pool, pc, ask, task, batch>>

-----------------------------------------------------------------------------
\* A worker looking for work: ThreadWorker::RetrieveTask

\* TaskPool::RequestTaskContext: the oldest context of type t.
Take(w, t) ==
    /\ pool[t] # << >>
    /\ pool' = [pool EXCEPT ![t] = Tail(@)]
    /\ task' = [task EXCEPT ![w] = Head(pool[t])]
    /\ pc' = [pc EXCEPT ![w] = IF t \in FilteredTypes THEN "check" ELSE "make"]
    /\ ask' = [ask EXCEPT ![w] = Pref[w]]
    /\ UNCHANGED <<hold, filter, batch>>

TakePreferred(w) ==
    /\ pc[w] = "ask"
    /\ \E t \in ask[w] : IsFirst(t, ask[w]) /\ Take(w, t)

SkipPreferred(w) ==
    /\ pc[w] = "ask"
    /\ \E t \in ask[w] :
          /\ IsFirst(t, ask[w])
          /\ pool[t] = << >>
          /\ ask' = [ask EXCEPT ![w] = @ \ {t}]
    /\ UNCHANGED <<hold, filter, pool, pc, task, batch>>

\* TaskPool::RequestNextAvailableTaskContext, for workers that are not strict.
TakeAny(w) ==
    /\ pc[w] = "ask"
    /\ ask[w] = {}
    /\ ~Strict[w]
    /\ \E t \in Types : IsFirst(t, { u \in Types : pool[u] # << >> }) /\ Take(w, t)

\* Wrong variant: what was asked for once is not asked for again.
FindNothing_KeepsAsked(w) ==
    /\ pc[w] = "ask"
    /\ ask[w] = {}
    /\ Strict[w] \/ \A t \in Types : pool[t] = << >>
    /\ UNCHANGED vars

\* Nothing to do: sleep a second, then ask for everything again.
FindNothing(w) ==
    /\ pc[w] = "ask"
    /\ ask[w] = {}
    /\ Strict[w] \/ \A t \in Types : pool[t] = << >>
    /\ ask' = [ask EXCEPT ![w] = Pref[w]]
    /\ UNCHANGED <<hold, filter, pool, pc, task, batch>>

\* Wrong variant: the filter entry is never removed.
CheckFilter_NeverErases(w) ==
    /\ pc[w] = "check"
    /\ pc' = [pc EXCEPT ![w] = "make"]
    /\ UNCHANGED <<hold, filter, pool, ask, task, batch>>

\* RemoveFromFilter asks the filter under one lock, ...
CheckFilter(w) ==
    /\ pc[w] = "check"
    /\ pc' = [pc EXCEPT ![w] = IF task[w] \in filter THEN "erase" ELSE "make"]
    /\ UNCHANGED <<hold, filter, pool, ask, task, batch>>

\* ... and erases under another.
EraseFilter(w) ==
    /\ pc[w] = "erase"
    /\ filter' = filter \ {task[w]}
    /\ pc' = [pc EXCEPT ![w] = "make"]
    /\ UNCHANGED <<hold, pool, ask, task, batch>>

-----------------------------------------------------------------------------
\* A worker with a context: GetTentTask, then PollTask until it is FINISHED

MakeTask(w) ==
    /\ pc[w] = "make"
    /\ task[w].type \in ConstructibleTypes
    /\ pc' = [pc EXCEPT ![w] = "start"]
    /\ UNCHANGED <<hold, filter, pool, ask, task, batch>>

\* GetTentTask returns NULL: the context is gone and the worker idles again.
DropUnconstructible(w) ==
    /\ pc[w] = "make"
    /\ task[w].type \notin ConstructibleTypes
    /\ pc' = [pc EXCEPT ![w] = "ask"]
    /\ task' = [task EXCEPT ![w] = NoTask]
    /\ UNCHANGED <<hold, filter, pool, ask, batch>>

StartTask(w) ==
    /\ pc[w] = "start"
    /\ pc' = [pc EXCEPT ![w] = "running"]
    /\ UNCHANGED <<hold, filter, pool, ask, task, batch>>

\* RunTask of every task but the ServiceTask ends in SetFinishedState.
RunTask(w) ==
    /\ pc[w] = "running"
    /\ task[w].type # "SERVICE"
    /\ pc' = [pc EXCEPT ![w] = "finished"]
    /\ UNCHANGED <<hold, filter, pool, ask, task, batch>>

FinishTask(w) ==
    /\ pc[w] = "finished"
    /\ pc' = [pc EXCEPT ![w] = "ask"]
    /\ task' = [task EXCEPT ![w] = NoTask]
    /\ UNCHANGED <<hold, filter, pool, ask, batch>>

-----------------------------------------------------------------------------
\* The worker that runs the ServiceTask: TaskArbiter::RetrieveTasks

RetrieveContextQueue(w) ==
    /\ pc[w] = "running"
    /\ task[w].type = "SERVICE"
    /\ hold # << >>
    /\ batch' = [batch EXCEPT ![w] = hold]
    /\ hold' = << >>
    /\ pc' = [pc EXCEPT ![w] = "filter"]
    /\ UNCHANGED <<filter, pool, ask, task>>

\* FilterTask: types other than PUSH and PULL pass, ...
PassUnfiltered(w) ==
    /\ pc[w] = "filter"
    /\ batch[w] # << >>
    /\ Head(batch[w]).type \notin FilteredTypes
    /\ pc' = [pc EXCEPT ![w] = "push"]
    /\ UNCHANGED <<hold, filter, pool, ask, task, batch>>

\* ... a duplicate is dropped, ...
DropDuplicate(w) ==
    /\ pc[w] = "filter"
    /\ batch[w] # << >>
    /\ Head(batch[w]).type \in FilteredTypes
    /\ Head(batch[w]) \in filter
    /\ batch' = [batch EXCEPT ![w] = Tail(@)]
    /\ UNCHANGED <<hold, filter, pool, pc, ask, task>>

\* ... and a new one is entered, under a second lock, ...
AdmitNew(w) ==
    /\ pc[w] = "filter"
    /\ batch[w] # << >>
    /\ Head(batch[w]).type \in FilteredTypes
    /\ Head(batch[w]) \notin filter
    /\ pc' = [pc EXCEPT ![w] = "insert"]
    /\ UNCHANGED <<hold, filter, pool, ask, task, batch>>

InsertFilter(w) ==
    /\ pc[w] = "insert"
    /\ filter' = filter \cup {Head(batch[w])}
    /\ pc' = [pc EXCEPT ![w] = "push"]
    /\ UNCHANGED <<hold, pool, ask, task, batch>>

\* ... before it goes to the pool under a third.
PushBack(w) ==
    /\ pc[w] = "push"
    /\ pool' = [pool EXCEPT ![Head(batch[w]).type] = Append(@, Head(batch[w]))]
    /\ batch' = [batch EXCEPT ![w] = Tail(@)]
    /\ pc' = [pc EXCEPT ![w] = "filter"]
    /\ UNCHANGED <<hold, filter, ask, task>>

EndOfBatch(w) ==
    /\ pc[w] = "filter"
    /\ batch[w] = << >>
    /\ pc' = [pc EXCEPT ![w] = "running"]
    /\ UNCHANGED <<hold, filter, pool, ask, task, batch>>

-----------------------------------------------------------------------------
Retrieve(w) ==
    \/ TakePreferred(w) \/ SkipPreferred(w) \/ TakeAny(w) \/ FindNothing(w)
    \/ CheckFilter(w) \/ EraseFilter(w)

Poll(w) ==
    \/ MakeTask(w) \/ DropUnconstructible(w)
    \/ StartTask(w) \/ RunTask(w) \/ FinishTask(w)

Service(w) ==
    \/ RetrieveContextQueue(w)
    \/ PassUnfiltered(w) \/ DropDuplicate(w) \/ AdmitNew(w)
    \/ InsertFilter(w) \/ PushBack(w) \/ EndOfBatch(w)

Run(w) == Retrieve(w) \/ Poll(w) \/ Service(w)

Next ==
    \/ \E c \in Requests : PushContextBack(c)
    \/ \E w \in Workers : Run(w)

\* A started thread is scheduled again and again; callers need not call.
Fairness == \A w \in Workers : WF_vars(Run(w))

Spec == Init /\ [][Next]_vars /\ Fairness

-----------------------------------------------------------------------------
Pcs == {"ask", "check", "erase", "make", "start", "running", "finished",
        "filter", "insert", "push"}

\* The type invariant: also, a worker has a context exactly when it is past
\* RequestTaskContext.
TypeOK ==
    /\ hold \in Seq(Requests)
    /\ filter \subseteq { c \in Requests : c.type \in FilteredTypes }
    /\ pool \in [Types -> Seq(Contexts)]
    /\ pc \in [Workers -> Pcs]
    /\ ask \in [Workers -> SUBSET Types]
    /\ task \in [Workers -> Contexts \cup {NoTask}]
    /\ batch \in [Workers -> Seq(Requests)]
    /\ \A w \in Workers : task[w] = NoTask <=> pc[w] = "ask"
    /\ \A t \in Types : \A i \in 1..Len(pool[t]) : pool[t][i].type = t

-----------------------------------------------------------------------------
\* A worker has popped its context but not yet cleared the filter for it.
Clearing(w) == pc[w] \in {"check", "erase"} /\ task[w].type \in FilteredTypes

\* The service has entered the head of its batch in the filter but not yet
\* pushed it.
Admitting(w) == pc[w] = "push" /\ Head(batch[w]).type \in FilteredTypes

\* The filter has an entry for c exactly as long as c sits in the pool, is
\* on its way there, or was popped by a worker that is still clearing it.  An
\* entry without a context would make every later upload or download of the
\* file be dropped as a duplicate, for ever; the filter is set and cleared in
\* critical sections other than the pool's (taskarbiter.cpp, FilterTask and
\* RemoveFromFilter).
NoStrandedFilter ==
    /\ \A c \in filter :
          \/ \E i \in 1..Len(pool[c.type]) : pool[c.type][i] = c
          \/ \E w \in Workers : Clearing(w) /\ task[w] = c
          \/ \E w \in Workers : Admitting(w) /\ Head(batch[w]) = c
    /\ \A t \in FilteredTypes : \A i \in 1..Len(pool[t]) : pool[t][i] \in filter
    /\ \A w \in Workers : Clearing(w) => task[w] \in filter
    /\ \A w \in Workers : Admitting(w) => Head(batch[w]) \in filter

\* The pool never holds the same upload or download twice, not even while the
\* service is between looking a context up in the filter and pushing it, and
\* never one that a worker has popped and not yet cleared (the de-duplication
\* of taskarbiter.h, task_filter_).
NoDuplicateQueued ==
    /\ \A t \in FilteredTypes : \A i, j \in 1..Len(pool[t]) :
          pool[t][i] = pool[t][j] => i = j
    /\ \A w \in Workers : Clearing(w) =>
          /\ \A i \in 1..Len(pool[task[w].type]) : pool[task[w].type][i] # task[w]
          /\ \A v \in Workers : Clearing(v) /\ task[v] = task[w] => v = w
          /\ \A v \in Workers : Admitting(v) => Head(batch[v]) # task[w]
    /\ \A w \in Workers : Admitting(w) =>
          \A i \in 1..Len(pool[Head(batch[w]).type]) :
             pool[Head(batch[w]).type][i] # Head(batch[w])

\* There is one ServiceTask in the system, waiting in the pool or held by one
\* worker, so that nobody else fills the filter or the pool between two
\* critical sections of RetrieveTasks; and only that worker has a batch.
\* Which worker it is, the code leaves to a race: a generic worker may take
\* the SERVICE context before the worker that is dedicated to it.
SingleService ==
    /\ Len(pool["SERVICE"]) <= 1
    /\ \A w \in Workers : pc[w] # "ask" /\ task[w].type = "SERVICE" =>
          /\ pool["SERVICE"] = << >>
          /\ \A v \in Workers : pc[v] # "ask" /\ task[v].type = "SERVICE" => v = w
    /\ \A w \in Workers :
          batch[w] # << >> => pc[w] \in {"filter", "insert", "push"}

=============================================================================
