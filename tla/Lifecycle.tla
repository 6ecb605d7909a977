----------------------------- MODULE Lifecycle -----------------------------
(***************************************************************************)
(* The life of the service behind the C interface: InitLibAttic builds     *)
(* eight managers in order and leaves at the first that fails, keeping     *)
(* what it built; ShutdownLibAttic takes them down in another order while  *)
(* the worker threads run on (StopThread interrupts a thread and does not  *)
(* join it); the requests in between are refused or become the context of  *)
(* a task, and a delegate waits in the CallbackHandler for the answer.     *)
(*                                                                         *)
(* One thread of the application makes the calls.  A worker is a step of   *)
(* ThreadWorker::Run; the filters and the preferences of the dispatch are  *)
(* TaskArbiter's, what the tasks do to files and posts is the subject of   *)
(* the other modules: here a task answers its delegate or does not.        *)
(***************************************************************************)
EXTENDS Naturals, Sequences, FiniteSets

CONSTANTS Workers, Requests,
          MaxStarts, MaxStops   \* bounds on the calls of the application

\* A worker that runs a request is told from one at another of its steps.
ASSUME LifecycleAssumption ==
  /\ Requests \cap {"off", "sleep", "retrieve", "service"} = {}
  /\ MaxStarts \in Nat /\ MaxStops \in Nat

VARIABLES mgr,         \* the manager pointers of AtticService
          running,     \* running_
          app,         \* the call the application thread is in
          configured,  \* the directories are set (ConfigManager)
          key,         \* CredentialsManager has a master key
          req,         \* the requests: kind and where their context is
          delegates,   \* delegate_map_ of the CallbackHandler
          answers,     \* how often a request's callback was called
          services,    \* SERVICE contexts in the pool
          worker,      \* what a worker of the present pool does
          ghost,       \* what an interrupted thread of the pool of each stop still does
          starts, stops, crashed,
          failed       \* history: a start has failed since the last stop

vars == <<mgr, running, app, configured, key, req, delegates, answers, services,
          worker, ghost, starts, stops, crashed, failed>>
tasks == <<req, delegates, answers, services, worker, ghost>>

StartOrder == <<"connection", "file", "credentials", "client",
                "task", "service", "arbiter", "thread">>
StopOrder == <<"thread", "arbiter", "task", "service",
               "client", "credentials", "file", "connection">>
Managers == {StartOrder[i] : i \in DOMAIN StartOrder}

\* An empty entity URL, a manifest that does not open, a missing token or app
\* file, an entity that is not found; the other Initialize methods cannot fail.
MayFail == {"connection", "file", "credentials", "client"}

(* What the task of a kind of request does with its delegate.               *)
Kinds == {"save", "history", "delete", "list", "newhead", "plain"}
HasDelegate == Kinds \ {"plain"}   \* uploads, downloads, renames, folders

\* A wrong variant: a version that could not be saved is not reported.
Answers_OnSuccess(k) == IF k \in {"save", "history"} THEN BOOLEAN ELSE {FALSE}

\* SaveVersion and RequestEntityPublicKey always answer; a history is told
\* if the file is known, a link if the path exists; DELETE, NEW_HEAD and SHARE
\* have no answer; a QUERYMANIFEST has no task.
Answers(k) == CASE k = "save"    -> {TRUE}
                [] k = "history" -> BOOLEAN
                [] OTHER         -> {FALSE}

Init ==
  /\ mgr = [m \in Managers |-> "null"] /\ running = FALSE
  /\ app = [op |-> "idle", at |-> 0]
  /\ configured \in BOOLEAN /\ key = FALSE
  /\ req = [r \in Requests |-> [kind |-> "plain", at |-> "none"]]
  /\ delegates = {} /\ answers = [r \in Requests |-> 0] /\ services = 0
  /\ worker = [w \in Workers |-> "off"]
  /\ ghost = [s \in 1 .. MaxStops |-> [w \in Workers |-> "off"]]
  /\ starts = 0 /\ stops = 0 /\ crashed = FALSE /\ failed = FALSE

Idle == app.op = "idle" /\ ~crashed
Return == app' = [op |-> "idle", at |-> 0]

-----------------------------------------------------------------------------
(* Start.                                                                   *)

SetConfigValue ==
  /\ Idle /\ ~configured /\ configured' = TRUE
  /\ UNCHANGED <<mgr, running, app, key, tasks, starts, stops, crashed, failed>>

\* Without directories nothing is built, the time offset is asked for all the
\* same, through a CredentialsManager there may be none of, and running_ is set.
ValidateDirectories ==
  /\ Idle /\ starts < MaxStarts /\ starts' = starts + 1
  /\ \/ configured /\ app' = [op |-> "start", at |-> 1] /\ UNCHANGED <<running, crashed>>
     \/ /\ ~configured
        /\ IF mgr["credentials"] = "null"
           THEN crashed' = TRUE /\ UNCHANGED running
           ELSE running' = TRUE /\ UNCHANGED crashed
        /\ UNCHANGED app
  /\ UNCHANGED <<mgr, configured, key, tasks, stops, failed>>

\* ValidateTimeOffset comes last: two HEAD requests, whatever they answer.
NextManager ==
  IF app.at < Len(StartOrder)
  THEN app' = [app EXCEPT !.at = @ + 1] /\ UNCHANGED running
  ELSE Return /\ running' = TRUE

\* A wrong variant: a second InitLibAttic starts the service anew.
Present_ButService(m) == m # "client" /\ m # "service" /\ mgr[m] # "null"

\* A pointer that is set is taken for a manager that is initialised; the client
\* is made anew each time.
Present(m) == m # "client" /\ mgr[m] # "null"

InitializeManager ==
  LET m == StartOrder[app.at] IN
  /\ app.op = "start"
  /\ \/ Present(m) /\ NextManager /\ UNCHANGED <<mgr, services, worker, failed>>
     \/ /\ ~Present(m)
        /\ mgr' = [mgr EXCEPT ![m] = "ready"]
        /\ services' = IF m = "service" THEN services + 1 ELSE services
        /\ worker' = IF m = "thread" THEN [w \in Workers |-> "sleep"] ELSE worker
        /\ NextManager /\ UNCHANGED failed
     \/ /\ ~Present(m) /\ m \in MayFail
        /\ mgr' = [mgr EXCEPT ![m] = "raw"]
        /\ Return /\ failed' = TRUE /\ UNCHANGED <<running, services, worker>>
  /\ UNCHANGED <<configured, key, req, delegates, answers, ghost, starts, stops, crashed>>

-----------------------------------------------------------------------------
(* Stop.                                                                    *)

BeginStop ==
  /\ Idle /\ stops < MaxStops /\ stops' = stops + 1
  /\ app' = [op |-> "stop", at |-> 1] /\ failed' = FALSE
  /\ UNCHANGED <<mgr, running, configured, key, tasks, starts, crashed>>

\* A wrong variant: the thread manager is deleted and its pointer kept.
AfterShutdown_Kept(m) == IF m \in {"connection", "thread"} THEN "dangling" ELSE "null"

\* The ConnectionManager deletes itself and its pointer is not reset.
AfterShutdown(m) == IF m = "connection" THEN "dangling" ELSE "null"

Lost(places) ==
  [r \in Requests |-> IF req[r].at \in places THEN [req[r] EXCEPT !.at = "lost"] ELSE req[r]]

\* The workers are deleted with their tasks; a thread that sleeps is interrupted
\* there, another goes on to its next sleep.
ShutdownThreads ==
  /\ worker' = [w \in Workers |-> "off"]
  /\ ghost' = [ghost EXCEPT ![stops] =
                 [w \in Workers |-> IF worker[w] = "sleep" THEN "off" ELSE worker[w]]]

ShutdownManager ==
  LET m == StopOrder[app.at] IN
  /\ app.op = "stop"
  /\ mgr' = [mgr EXCEPT ![m] = IF @ = "null" THEN @ ELSE AfterShutdown(m)]
  /\ IF m = "thread" /\ mgr[m] # "null" THEN ShutdownThreads ELSE UNCHANGED <<worker, ghost>>
  /\ services' = IF m = "arbiter" /\ mgr[m] # "null" THEN 0 ELSE services
  /\ req' = CASE m = "arbiter" /\ mgr[m] # "null" -> Lost({"pool"})
              [] m = "task"                       -> Lost({"queued"})
              [] OTHER                            -> req
  /\ key' = (key /\ m # "credentials")
  /\ IF app.at < Len(StopOrder)
     THEN app' = [app EXCEPT !.at = @ + 1] /\ UNCHANGED running
     ELSE Return /\ running' = FALSE
  /\ UNCHANGED <<configured, delegates, answers, starts, stops, crashed, failed>>

-----------------------------------------------------------------------------
(* Requests.                                                                *)

EnterPassphrase ==
  /\ Idle /\ running /\ ~key /\ key' = TRUE
  /\ UNCHANGED <<mgr, running, app, configured, tasks, starts, stops, crashed, failed>>

RegisterRequestCallback(r, k) ==
  delegates' = IF k \in HasDelegate THEN delegates \cup {r} ELSE delegates

\* A request that is refused leaves its delegate in the map; so does
\* MakePostVersionNewHead, which registers one and submits nothing.
Refuse(r, k) ==
  /\ ~running \/ ~key \/ k = "newhead"
  /\ req' = [req EXCEPT ![r] = [kind |-> k, at |-> "refused"]]

PushContextBack(r, k) ==
  /\ running /\ key /\ k # "newhead"
  /\ req' = [req EXCEPT ![r] = [kind |-> k, at |-> "queued"]]

Request(r, k) ==
  /\ Idle /\ req[r].at = "none"
  /\ RegisterRequestCallback(r, k)
  /\ Refuse(r, k) \/ PushContextBack(r, k)
  /\ UNCHANGED <<mgr, running, app, configured, key, answers, services, worker, ghost,
                 starts, stops, crashed, failed>>

-----------------------------------------------------------------------------
(* The worker threads, of the present pool and of those before it.          *)

\* RetrieveTasks: the queue of the TaskManager goes to the pool.
Retrieved ==
  [r \in Requests |-> IF req[r].at = "queued" THEN [req[r] EXCEPT !.at = "pool"] ELSE req[r]]

Wake(w) ==
  /\ worker[w] = "sleep" /\ worker' = [worker EXCEPT ![w] = "retrieve"]
  /\ UNCHANGED <<req, delegates, answers, services, ghost>>

RetrieveTask(w) ==
  /\ worker[w] = "retrieve"
  /\ \/ /\ services > 0 /\ services' = services - 1
        /\ worker' = [worker EXCEPT ![w] = "service"] /\ UNCHANGED req
     \/ \E r \in Requests :
          /\ req[r].at = "pool" /\ UNCHANGED services
          /\ IF req[r].kind = "list"
             THEN req' = [req EXCEPT ![r].at = "lost"] /\ worker' = [worker EXCEPT ![w] = "sleep"]
             ELSE req' = [req EXCEPT ![r].at = "task"] /\ worker' = [worker EXCEPT ![w] = r]
     \/ /\ services = 0 /\ \A r \in Requests : req[r].at # "pool"
        /\ worker' = [worker EXCEPT ![w] = "sleep"] /\ UNCHANGED <<req, services>>
  /\ UNCHANGED <<delegates, answers, ghost>>

RunService(w) ==
  /\ worker[w] = "service" /\ mgr["arbiter"] = "ready" /\ req' = Retrieved
  /\ UNCHANGED <<delegates, answers, services, worker, ghost>>

\* A wrong variant: the task also makes the general call at its end.
Callback_Twice(r) ==
  /\ answers' = [answers EXCEPT ![r] = @ + 2] /\ delegates' = delegates \ {r}

\* The delegate calls the application and removes itself.
Callback(r) ==
  /\ answers' = [answers EXCEPT ![r] = @ + 1] /\ delegates' = delegates \ {r}

Finish(r) ==
  /\ \E answer \in Answers(req[r].kind) :
       IF answer THEN Callback(r) ELSE UNCHANGED <<answers, delegates>>
  /\ req' = [req EXCEPT ![r].at = "done"]

RunTask(w) ==
  /\ worker[w] \in Requests /\ req[worker[w]].at = "task" /\ Finish(worker[w])
  /\ UNCHANGED <<services, worker, ghost>>

ReclaimTask(w) ==
  /\ worker[w] \in Requests /\ req[worker[w]].at = "done"
  /\ worker' = [worker EXCEPT ![w] = "sleep"]
  /\ UNCHANGED <<req, delegates, answers, services, ghost>>

\* A thread whose worker was deleted does the step it was in, and ends at the
\* sleep that follows.  In RetrieveTask it takes from the pool there is now, and
\* drops the task; a task in RunTask was deleted under it, and its answer is
\* made or not.
EndOfThread(s, w) ==
  LET was == ghost[s][w] IN
  /\ was # "off" /\ ghost' = [ghost EXCEPT ![s][w] = "off"]
  /\ \/ /\ was = "service" /\ UNCHANGED <<delegates, answers, services>>
        /\ req' = IF mgr["arbiter"] = "ready" THEN Retrieved ELSE req
     \/ /\ was = "retrieve" /\ UNCHANGED <<delegates, answers>>
        /\ \/ services > 0 /\ services' = services - 1 /\ UNCHANGED req
           \/ \E r \in Requests : /\ req[r].at = "pool" /\ UNCHANGED services
                                  /\ req' = [req EXCEPT ![r].at = "lost"]
           \/ UNCHANGED <<services, req>>
     \/ /\ was \in Requests /\ UNCHANGED services
        /\ \/ req[was].at = "task" /\ Finish(was)
           \/ /\ UNCHANGED <<delegates, answers>>
              /\ req' = [req EXCEPT ![was].at = IF @ = "done" THEN @ ELSE "lost"]
  /\ UNCHANGED worker

Work(w) ==
  /\ Wake(w) \/ RetrieveTask(w) \/ RunService(w) \/ RunTask(w) \/ ReclaimTask(w)
  /\ UNCHANGED <<mgr, running, app, configured, key, starts, stops, crashed, failed>>

Linger(w) ==
  /\ \E s \in 1 .. MaxStops : EndOfThread(s, w)
  /\ UNCHANGED <<mgr, running, app, configured, key, starts, stops, crashed, failed>>

Call == \/ SetConfigValue \/ ValidateDirectories \/ BeginStop \/ EnterPassphrase
        \/ \E r \in Requests, k \in Kinds : Request(r, k)

Next == ~crashed /\ (\/ Call \/ InitializeManager \/ ShutdownManager
                     \/ \E w \in Workers : Work(w) \/ Linger(w))

\* A call returns and the system schedules every thread.  Which of the contexts
\* in the pool is taken next is not promised: there are finitely many requests.
Fairness ==
  /\ WF_vars(~crashed /\ (InitializeManager \/ ShutdownManager))
  /\ \A w \in Workers : WF_vars(~crashed /\ Work(w)) /\ WF_vars(~crashed /\ Linger(w))

Spec == Init /\ [][Next]_vars /\ Fairness

-----------------------------------------------------------------------------
(* Properties.                                                              *)

\* Every variable keeps its kind of value.
TypeOK ==
  /\ mgr \in [Managers -> {"null", "raw", "ready", "dangling"}]
  /\ running \in BOOLEAN /\ configured \in BOOLEAN /\ key \in BOOLEAN /\ crashed \in BOOLEAN
  /\ app \in [op : {"idle", "start", "stop"}, at : 0 .. Len(StartOrder)]
  /\ req \in [Requests -> [kind : Kinds,
       at : {"none", "refused", "queued", "pool", "task", "done", "lost"}]]
  /\ delegates \subseteq Requests /\ answers \in [Requests -> 0 .. 1]
  /\ services \in 0 .. 1
  /\ worker \in [Workers -> {"off", "sleep", "retrieve", "service"} \cup Requests]
  /\ ghost \in [1 .. MaxStops -> [Workers -> {"off", "retrieve", "service"} \cup Requests]]
  /\ starts \in 0 .. MaxStarts /\ stops \in 0 .. MaxStops /\ failed \in BOOLEAN

\* Between the calls of the application a service that says it runs has the
\* managers its methods use without a test.  Those no start can fail at are
\* ready, and never a pointer to what a stop deleted.  The client, credentials
\* and file managers are there, and initialised unless a start has failed since
\* the last stop: a later one takes what it finds for ready.  The connection
\* manager is initialised too until the first stop, which leaves its pointer.
RunningReady ==
  app.op = "idle" /\ running =>
    /\ \A m \in {"task", "service", "arbiter", "thread"} : mgr[m] = "ready"
    /\ \A m \in {"client", "credentials", "file"} :
         mgr[m] = "ready" \/ (failed /\ mgr[m] = "raw")
    /\ mgr["connection"] = "ready" \/ (failed /\ mgr["connection"] = "raw")
       \/ (stops > 0 /\ mgr["connection"] = "dangling")

Serving(threads) == {w \in Workers : threads[w] = "service"}

\* A pool has one service task, over a second InitLibAttic: its queues have one
\* consumer as long as no stop has left a thread.  Each stop may leave one, for
\* nobody waits for it: it takes from the queues once more beside the service of
\* the next start (Linger), and never are there two from one stop.
OneService ==
  /\ services + Cardinality(Serving(worker)) <= 1
  /\ \A s \in 1 .. MaxStops :
       Cardinality(Serving(ghost[s])) <= IF s <= stops THEN 1 ELSE 0

\* The delegate of a request whose context waits or runs is in the map, and a
\* delegate that called back is gone from it: no task calls one that was deleted.
DelegatesHeld ==
  \A r \in Requests :
    /\ req[r].at \in {"queued", "pool", "task"} /\ req[r].kind \in HasDelegate => r \in delegates
    /\ answers[r] + (IF r \in delegates THEN 1 ELSE 0) <= 1

\* A request of a kind that always answers is answered, until the service is
\* stopped for the first time.
Answered ==
  \A r \in Requests :
    (req[r].at = "queued" /\ req[r].kind = "save") ~> (answers[r] = 1 \/ stops > 0)
=============================================================================
