---------------------------- MODULE EventSystem ----------------------------
(***************************************************************************)
(* The event system (event.cpp), the application's callback lists          *)
(* (callbackhandler.cpp) and the TaskManager as a listener.  Events are    *)
(* appended to one queue by any thread; a processor takes them out in      *)
(* strides and tells the listeners of each with listen_mtx_ held.          *)
(*                                                                         *)
(* Processors are the ServiceTask and the application thread inside        *)
(* RequestUserAuthorizationDetails.  An event is its type: its text is not *)
(* looked at.  Stopping the service ends in EventSystem::Shutdown when a   *)
(* ServiceTask exists, on the application's thread, while the worker that  *)
(* processes events has only been interrupted; the freed object is kept    *)
(* apart here: the worker finishes its batch and nobody listens.           *)
(***************************************************************************)
EXTENDS Naturals, Sequences, FiniteSets

CONSTANTS
  Processors,        \* threads that may call ProcessEvents
  Service,           \* the one among them that runs the ServiceTask
  Registrars,        \* application threads that register callbacks
  AppTypes,          \* event types the application listens to
  TaskTypes,         \* event types the TaskManager listens to
  Callbacks,         \* the application's callbacks
  Echo,              \* the event a callback raises in turn, or None
  Stride,            \* events copied out of the queue at a time (100)
  MaxQueue,          \* bound: events waiting
  MaxRegistrations,  \* bound: registrations per type
  MaxEarly,          \* bound: stops before a ServiceTask ran
  None

Types == AppTypes \cup TaskTypes

ASSUME ConstantsAssumption ==
  /\ Service \in Processors
  /\ Stride \in Nat \ {0} /\ MaxQueue \in Nat /\ MaxRegistrations \in Nat /\ MaxEarly \in Nat
  /\ Echo \in [Callbacks -> AppTypes \cup {None}]
  /\ IsFiniteSet(Registrars)
  /\ None \notin Processors \cup Types \cup (Callbacks \X AppTypes)

VARIABLES
  queue,      \* event_queue_
  listeners,  \* listener_map_: a listener is listed once per registration
  callbacks,  \* CallbackHandler::callback_map_
  holder,     \* who holds listen_mtx_, or None
  pc,         \* where each processor is in ProcessEvents
  left,       \* events of the first count not yet covered by a stride
  batch,      \* tempQueue
  index,      \* the listener to be told next
  told,       \* how many callbacks CallbackHandler::Notify has called, under cbm_mtx_
  half,       \* registrars between the two appends of RegisterCallback
  service,    \* "none", "running" (a ServiceTask exists), or a step of Shutdown
  manager,    \* the TaskManager exists
  cleared,    \* history: the listeners have been cleared by a shutdown
  early       \* history: deleted TaskManagers since then, no ServiceTask having run

procVars == <<pc, left, batch, index, told>>
appVars == <<callbacks, half>>
lifeVars == <<service, manager, cleared, early>>
eventVars == <<queue, listeners, holder, procVars, appVars, lifeVars>>

CountOf(l, t) == Cardinality({i \in DOMAIN listeners[t] : listeners[t][i] = l})

EventTypeOK ==
  /\ queue \in Seq(Types)
  /\ listeners \in [Types -> Seq({"app", "tasks"})]
  /\ callbacks \in [Types -> Seq(Callbacks)]
  /\ holder \in Processors \cup {None}
  /\ pc \in [Processors -> {"idle", "round", "notify", "call"}]
  /\ left \in [Processors -> Nat]
  /\ batch \in [Processors -> Seq(Types)]
  /\ index \in [Processors -> Nat] /\ told \in [Processors -> Nat]
  /\ half \in [Registrars -> (Callbacks \X AppTypes) \cup {None}]
  /\ service \in {"none", "running", "clearQueue", "delete"}
  /\ manager \in BOOLEAN /\ cleared \in BOOLEAN /\ early \in Nat

EventInit ==
  /\ queue = <<>>
  /\ listeners = [t \in Types |-> <<>>]
  /\ callbacks = [t \in Types |-> <<>>]
  /\ holder = None
  /\ pc = [p \in Processors |-> "idle"]
  /\ left = [p \in Processors |-> 0]
  /\ batch = [p \in Processors |-> <<>>]
  /\ index = [p \in Processors |-> 1] /\ told = [p \in Processors |-> 0]
  /\ half = [r \in Registrars |-> None]
  /\ service = "none" /\ manager = FALSE /\ cleared = FALSE /\ early = 0

(***************************************************************************)
(* Raising                                                                 *)
(***************************************************************************)
RaiseEvent(t) ==
  /\ Len(queue) < MaxQueue
  /\ queue' = Append(queue, t)
  /\ UNCHANGED <<listeners, holder, procVars, appVars, lifeVars>>

(***************************************************************************)
(* ProcessEvents                                                           *)
(***************************************************************************)
\* The ServiceTask processes events while it exists, the application any time.
CountEvents(p) ==
  /\ pc[p] = "idle" /\ queue # <<>>
  /\ p = Service => service = "running"
  /\ left' = [left EXCEPT ![p] = Len(queue)]
  /\ pc' = [pc EXCEPT ![p] = "round"]
  /\ UNCHANGED <<queue, listeners, holder, batch, index, told, appVars, lifeVars>>

\* A wrong variant: the size of the queue is asked again before every stride.
CopyStride_Recount(p) ==
  LET n == IF Stride < Len(queue) THEN Stride ELSE Len(queue) IN
  /\ pc[p] = "round"
  /\ IF n = 0
     THEN pc' = [pc EXCEPT ![p] = "idle"] /\ UNCHANGED <<queue, left, batch>>
     ELSE /\ batch' = [batch EXCEPT ![p] = SubSeq(queue, 1, n)]
          /\ queue' = SubSeq(queue, n + 1, Len(queue))
          /\ left' = [left EXCEPT ![p] = Stride + 1]
          /\ pc' = [pc EXCEPT ![p] = "notify"]
  /\ UNCHANGED <<listeners, holder, index, told, appVars, lifeVars>>

\* A wrong variant: the stride is taken from the end of the queue.
CopyStride_Newest(p) ==
  LET n == IF Stride < Len(queue) THEN Stride ELSE Len(queue) IN
  /\ pc[p] = "round" /\ left[p] > 0
  /\ batch' = [batch EXCEPT ![p] = SubSeq(queue, Len(queue) - n + 1, Len(queue))]
  /\ queue' = SubSeq(queue, 1, Len(queue) - n)
  /\ left' = [left EXCEPT ![p] = IF @ > Stride THEN @ - Stride ELSE 0]
  /\ pc' = [pc EXCEPT ![p] = "notify"]
  /\ UNCHANGED <<listeners, holder, index, told, appVars, lifeVars>>

\* One stride is moved to tempQueue under queue_mtx_; another processor may
\* have left fewer events than were counted.
CopyStride(p) ==
  LET n == IF Stride < Len(queue) THEN Stride ELSE Len(queue) IN
  /\ pc[p] = "round" /\ left[p] > 0
  /\ batch' = [batch EXCEPT ![p] = SubSeq(queue, 1, n)]
  /\ queue' = SubSeq(queue, n + 1, Len(queue))
  /\ left' = [left EXCEPT ![p] = IF @ > Stride THEN @ - Stride ELSE 0]
  /\ pc' = [pc EXCEPT ![p] = "notify"]
  /\ UNCHANGED <<listeners, holder, index, told, appVars, lifeVars>>

LockListeners(p) ==
  /\ pc[p] = "notify" /\ batch[p] # <<>> /\ holder = None
  /\ holder' = p
  /\ pc' = [pc EXCEPT ![p] = "call"]
  /\ UNCHANGED <<queue, listeners, left, batch, index, told, appVars, lifeVars>>

\* The application's callbacks are called in turn, once for each time they are
\* listed, and may raise events; where MaxQueue wait, one is left out.
CallBack(p, t) ==
  LET e == Echo[callbacks[t][told[p] + 1]] IN
  /\ told' = [told EXCEPT ![p] = @ + 1]
  /\ queue' = IF e # None /\ Len(queue) < MaxQueue THEN Append(queue, e) ELSE queue
  /\ UNCHANGED index

NextListener(p) ==
  /\ index' = [index EXCEPT ![p] = @ + 1]
  /\ told' = [told EXCEPT ![p] = 0]
  /\ UNCHANGED queue

\* The TaskManager makes a task of a request, which is one step.
CallListener(p) ==
  LET t == Head(batch[p]) IN
  /\ pc[p] = "call" /\ index[p] <= Len(listeners[t])
  /\ IF listeners[t][index[p]] = "app" /\ told[p] < Len(callbacks[t])
     THEN CallBack(p, t)
     ELSE NextListener(p)
  /\ UNCHANGED <<listeners, holder, pc, left, batch, appVars, lifeVars>>

\* A wrong variant: listen_mtx_ is kept when nobody listens to the type.
UnlockListeners_Kept(p) ==
  LET t == Head(batch[p]) IN
  /\ pc[p] = "call" /\ index[p] > Len(listeners[t])
  /\ holder' = IF listeners[t] = <<>> THEN holder ELSE None
  /\ batch' = [batch EXCEPT ![p] = Tail(@)]
  /\ pc' = [pc EXCEPT ![p] = "notify"]
  /\ UNCHANGED <<queue, listeners, left, index, told, appVars, lifeVars>>

UnlockListeners(p) ==
  /\ pc[p] = "call" /\ index[p] > Len(listeners[Head(batch[p])])
  /\ holder' = None
  /\ batch' = [batch EXCEPT ![p] = Tail(@)]
  /\ index' = [index EXCEPT ![p] = 1]
  /\ pc' = [pc EXCEPT ![p] = "notify"]
  /\ UNCHANGED <<queue, listeners, left, told, appVars, lifeVars>>

EndOfStride(p) ==
  /\ pc[p] = "notify" /\ batch[p] = <<>>
  /\ pc' = [pc EXCEPT ![p] = IF left[p] > 0 THEN "round" ELSE "idle"]
  /\ UNCHANGED <<queue, listeners, holder, left, batch, index, told, appVars, lifeVars>>

(***************************************************************************)
(* Registration: two appends under two mutexes                             *)
(***************************************************************************)
\* A wrong variant: a registration gives up when the mutex is held.
RegisterForEvent_Tries(r, c, t) ==
  /\ half[r] = None
  /\ CountOf("app", t) < MaxRegistrations /\ Len(callbacks[t]) < MaxRegistrations
  /\ listeners' = IF holder = None THEN [listeners EXCEPT ![t] = Append(@, "app")] ELSE listeners
  /\ half' = [half EXCEPT ![r] = <<c, t>>]
  /\ UNCHANGED <<queue, holder, procVars, callbacks, lifeVars>>

RegisterForEvent(r, c, t) ==
  /\ half[r] = None /\ holder = None
  /\ CountOf("app", t) < MaxRegistrations /\ Len(callbacks[t]) < MaxRegistrations
  /\ listeners' = [listeners EXCEPT ![t] = Append(@, "app")]
  /\ half' = [half EXCEPT ![r] = <<c, t>>]
  /\ UNCHANGED <<queue, holder, procVars, callbacks, lifeVars>>

\* CallbackHandler::Notify has cbm_mtx_ over all the callbacks of an event.
RegisterCallback(r) ==
  /\ half[r] # None /\ \A p \in Processors : told[p] = 0
  /\ callbacks' = [callbacks EXCEPT ![half[r][2]] = Append(@, half[r][1])]
  /\ half' = [half EXCEPT ![r] = None]
  /\ UNCHANGED <<queue, listeners, holder, procVars, lifeVars>>

(***************************************************************************)
(* The service around it                                                   *)
(***************************************************************************)
\* TaskManager::Initialize; the four registrations are one step, for nothing
\* that waits in the queue can be a request while no service processes it.
StartManager ==
  /\ ~manager /\ service = "none" /\ holder = None
  /\ manager' = TRUE
  /\ listeners' = [t \in Types |-> IF t \in TaskTypes THEN Append(listeners[t], "tasks")
                                                     ELSE listeners[t]]
  /\ UNCHANGED <<queue, holder, procVars, appVars, service, cleared, early>>

\* A worker has made the ServiceTask.
StartService ==
  /\ manager /\ service = "none"
  /\ service' = "running"
  /\ UNCHANGED <<queue, listeners, holder, procVars, appVars, manager, cleared, early>>

\* ServiceTask::OnFinished -> EventSystem::Shutdown: three steps, between which
\* other threads raise and register.
ClearListeners ==
  /\ service = "running" /\ holder = None
  /\ listeners' = [t \in Types |-> <<>>]
  /\ service' = "clearQueue" /\ cleared' = TRUE /\ early' = 0
  /\ UNCHANGED <<queue, holder, procVars, appVars, manager>>

ClearQueue ==
  /\ service = "clearQueue"
  /\ queue' = <<>>
  /\ service' = "delete"
  /\ UNCHANGED <<listeners, holder, procVars, appVars, manager, cleared, early>>

\* The next caller of instance() makes an empty system: what was raised or
\* registered since the clearing is gone too.
DeleteInstance ==
  /\ service = "delete" /\ holder = None
  /\ queue' = <<>>
  /\ listeners' = [t \in Types |-> <<>>]
  /\ service' = "none" /\ manager' = FALSE
  /\ UNCHANGED <<holder, procVars, appVars, cleared, early>>

\* stop() before any worker has taken the service context: no ServiceTask ends,
\* and the deleted TaskManager stays listed.
StopEarly ==
  /\ manager /\ service = "none"
  /\ early < MaxEarly
  /\ manager' = FALSE /\ early' = early + 1
  /\ UNCHANGED <<queue, listeners, holder, procVars, appVars, service, cleared>>

Process(p) ==
  \/ CountEvents(p) \/ CopyStride(p) \/ LockListeners(p) \/ CallListener(p)
  \/ UnlockListeners(p) \/ EndOfStride(p)

Register(r) ==
  \/ \E c \in Callbacks, t \in AppTypes : RegisterForEvent(r, c, t)
  \/ RegisterCallback(r)

Shutdown == ClearListeners \/ ClearQueue \/ DeleteInstance

EventNext ==
  \/ \E t \in Types : RaiseEvent(t)
  \/ \E p \in Processors : Process(p)
  \/ \E r \in Registrars : Register(r)
  \/ StartManager \/ StartService \/ StopEarly \/ Shutdown

\* A thread inside ProcessEvents runs on, and the service worker calls it again
\* and again.  The mutexes sleep and retry, hence strong fairness for the lock.
\* Nothing forces an event, a registration or the end of one, or a stop.
EventSpec ==
  /\ EventInit /\ [][EventNext]_eventVars
  /\ \A p \in Processors : WF_eventVars(Process(p)) /\ SF_eventVars(LockListeners(p))
  /\ WF_eventVars(ClearQueue) /\ SF_eventVars(DeleteInstance)


(***************************************************************************)
(* Properties                                                              *)
(***************************************************************************)
\* The listeners, and with them the application's callbacks, are never called
\* by two threads at once (event.cpp:64, listen_mtx_ around the calls).
OneNotifier ==
  /\ \A p \in Processors : pc[p] = "call" <=> holder = p
  /\ \A p \in Processors : pc[p] = "call" => batch[p] # <<>>

\* Until a shutdown every finished registration listens: the handler is listed
\* as often as it has callbacks and registrations halfway (callbackhandler.cpp:18).
RegisteredListens ==
  ~cleared => \A t \in AppTypes :
     CountOf("app", t) = Len(callbacks[t])
                         + Cardinality({r \in Registrars : half[r] # None /\ half[r][2] = t})

\* A request becomes one task, plus one for every TaskManager that was deleted
\* before any ServiceTask ran: a TaskManager never leaves the lists itself
\* (taskmanager.cpp:40), the end of a ServiceTask empties them (event.cpp:13).
TasksListed ==
  \A t \in TaskTypes :
    CountOf("tasks", t) =
      early + (IF manager /\ service \in {"none", "running"} THEN 1 ELSE 0)

Working(p) == pc[p] # "idle"

\* The abstract channel under the state in which one processor works: what is
\* out of the queue goes before what is in it.
Active(p) == \A q \in Processors \ {p} : ~Working(q)
Pending(p) == (IF pc[p] = "call" THEN Tail(batch[p]) ELSE batch[p]) \o queue
Now(p) == IF pc[p] = "call" THEN Head(batch[p]) ELSE None

Channel(p) == INSTANCE EventChannel WITH pending <- Pending(p), now <- Now(p)

\* A step of the channel of the one processor at work, or none of its steps.
ToldInOrder ==
  \A p \in Processors :
    Active(p) /\ Active(p)' /\ service \notin {"clearQueue", "delete"} =>
      Channel(p)!Next \/ UNCHANGED <<Pending(p), Now(p)>>

\* While one thread processes events, the listeners are told of every event
\* once and in the order of raising: each step is one of the channel's, a
\* stutter, or part of a shutdown (event.cpp:32, the copy by strides).
KeepsOrder == [][ToldInOrder]_eventVars

\* ProcessEvents returns, whatever the callbacks raise while they are called
\* (event.cpp:41, the count is taken once).
ProcessEnds == \A p \in Processors : []<>~Working(p)

\* An event of the queue is told of, or the service never comes to it because
\* it is stopped or was never started (event.cpp:78, servicetask.cpp:38).
EventsFlow ==
  \A t \in Types :
    (\E i \in DOMAIN queue : queue[i] = t) ~>
      (\/ \E p \in Processors : pc[p] = "call" /\ Head(batch[p]) = t
       \/ service # "running")
=============================================================================
