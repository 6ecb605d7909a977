----------------------------- MODULE ServiceProofs -----------------------------
(***************************************************************************)
(* Theorems about the service and the events it tells its listeners.       *)
(*                                                                         *)
(* Lifecycle, for every set of workers and of requests: the four managers  *)
(* no start can fail at stand or are missing together between two calls; a *)
(* start makes them in order and a stop deletes the pool of workers before *)
(* the service that puts its context there.                                *)
(*                                                                         *)
(* EventSystem, for every set of processors, registrars, types and         *)
(* callbacks, and every stride: the lists of listeners are told by how     *)
(* often a listener is in them.  An append adds one, a shutdown takes all, *)
(* and between its steps no TaskManager and no early stop is.              *)
(***************************************************************************)
EXTENDS Lifecycle, EventSystem, FiniteSetTheorems, SequenceTheorems, TLAPS

(***************************************************************************)
(* The life cycle                                                          *)
(***************************************************************************)
Four == {"task", "service", "arbiter", "thread"}
Used == {"client", "credentials", "file"}

\* Only the connection manager leaves a pointer to what was deleted.
MgrKinds ==
  /\ \A m \in Four : mgr[m] \in {"null", "ready"}
  /\ \A m \in Used : mgr[m] \in {"null", "raw", "ready"}

\* A start needs the directories: without them nothing was ever built.
NothingBuilt == ~configured => app.op # "start" /\ \A m \in Managers : mgr[m] = "null"

\* Where a start or a stop is, and what a start has passed.
InCall ==
  /\ app.op # "idle" => app.at # 0
  /\ app.op = "start" =>
       /\ app.at > 1 => mgr["connection"] # "null"
       /\ app.at > 2 => mgr["file"] # "null"
       /\ app.at > 3 => mgr["credentials"] # "null"
       /\ app.at > 4 => mgr["client"] # "null"

AllNull == \A m \in Four : mgr[m] = "null"
AllReady == \A m \in Four : mgr[m] = "ready"

\* The four managers that cannot fail stand together between two calls; a start
\* made the first of them, a stop deleted the last.
Together ==
  /\ app.op = "idle" => AllNull \/ AllReady
  /\ app.op = "start" =>
       \/ AllReady
       \/ /\ mgr["task"] = (IF app.at > 5 THEN "ready" ELSE "null")
          /\ mgr["service"] = (IF app.at > 6 THEN "ready" ELSE "null")
          /\ mgr["arbiter"] = (IF app.at > 7 THEN "ready" ELSE "null")
          /\ mgr["thread"] = "null"
  /\ app.op = "stop" =>
       \/ AllNull
       \/ /\ mgr["thread"] = (IF app.at > 1 THEN "null" ELSE "ready")
          /\ mgr["arbiter"] = (IF app.at > 2 THEN "null" ELSE "ready")
          /\ mgr["task"] = (IF app.at > 3 THEN "null" ELSE "ready")
          /\ mgr["service"] = (IF app.at > 4 THEN "null" ELSE "ready")

\* Without a pool nobody works; without a service, or once a stop is past the
\* pool, no service context is left; and one worker at most has it.
ServiceHeld ==
  /\ mgr["thread"] = "null" => \A w \in Workers : worker[w] = "off"
  /\ mgr["service"] = "null" \/ (app.op = "stop" /\ app.at > 2) => services = 0
  /\ services = 0 \/ \A w \in Workers : worker[w] # "service"
  /\ \A v, w \in Workers : worker[v] = "service" /\ worker[w] = "service" => v = w

\* A stop leaves the thread that had the service context, and a stop to come
\* has left none.
Leftover ==
  \A s \in 1 .. MaxStops :
    /\ s > stops => \A w \in Workers : ghost[s][w] # "service"
    /\ \A v, w \in Workers : ghost[s][v] = "service" /\ ghost[s][w] = "service" => v = w

\* A request that was answered is done and has no delegate.
Delegation ==
  \A r \in Requests :
    /\ answers[r] = 0 \/ (req[r].at = "done" /\ r \notin delegates)
    /\ req[r].at \in {"queued", "pool", "task"} /\ req[r].kind \in HasDelegate => r \in delegates

\* What runs is whole, also while a second start looks it over.
Whole == app.op # "stop" /\ running =>
           AllReady /\ mgr["connection"] # "null" /\ \A m \in Used : mgr[m] # "null"

\* A manager that is not initialised comes from a start that failed, and a stop
\* clears it away; a pointer to a deleted one comes from a stop.
Intact ==
  /\ mgr["connection"] = "dangling" \/ app.op = "stop" => stops > 0
  /\ app.op = "stop" =>
       /\ app.at > 5 => mgr["client"] = "null"
       /\ app.at > 6 => mgr["credentials"] = "null"
       /\ app.at > 7 => mgr["file"] = "null"
  /\ app.op # "stop" /\ ~failed =>
       \A m \in {"client", "credentials", "file", "connection"} : mgr[m] # "raw"

IInv == /\ TypeOK /\ MgrKinds /\ NothingBuilt /\ InCall /\ Together
        /\ ServiceHeld /\ Delegation /\ Whole /\ Intact /\ Leftover

\* What is said of the managers, and of the service context and the requests.
Managed == MgrKinds /\ NothingBuilt /\ InCall /\ Together /\ Whole /\ Intact

-----------------------------------------------------------------------------
(* The orders of the managers.                                              *)

\* The managers by their place in InitLibAttic.
LEMMA StartPlaces ==
    /\ StartOrder[1] = "connection" /\ StartOrder[2] = "file"
    /\ StartOrder[3] = "credentials" /\ StartOrder[4] = "client"
    /\ StartOrder[5] = "task" /\ StartOrder[6] = "service"
    /\ StartOrder[7] = "arbiter" /\ StartOrder[8] = "thread"
    /\ Len(StartOrder) = 8
  BY DEF StartOrder

\* The managers by their place in ShutdownLibAttic.
LEMMA StopPlaces ==
    /\ StopOrder[1] = "thread" /\ StopOrder[2] = "arbiter"
    /\ StopOrder[3] = "task" /\ StopOrder[4] = "service"
    /\ StopOrder[5] = "client" /\ StopOrder[6] = "credentials"
    /\ StopOrder[7] = "file" /\ StopOrder[8] = "connection"
    /\ Len(StopOrder) = 8
  BY DEF StopOrder

\* The eight managers.
LEMMA ManagerNames ==
    Managers = {"connection", "file", "credentials", "client",
                "task", "service", "arbiter", "thread"}
  <1>1. DOMAIN StartOrder = 1 .. 8
    BY DEF StartOrder
  <1>2. \A i \in 1 .. 8 : i = 1 \/ i = 2 \/ i = 3 \/ i = 4 \/ i = 5 \/ i = 6 \/ i = 7 \/ i = 8
    OBVIOUS
  <1>3. 1 \in 1 .. 8 /\ 2 \in 1 .. 8 /\ 3 \in 1 .. 8 /\ 4 \in 1 .. 8 /\ 5 \in 1 .. 8
        /\ 6 \in 1 .. 8 /\ 7 \in 1 .. 8 /\ 8 \in 1 .. 8
    OBVIOUS
  <1> QED BY <1>1, <1>2, <1>3, StartPlaces DEF Managers

\* The states of a start and of a stop.
LEMMA Places == ASSUME TypeOK, InCall, app.op # "idle"
                PROVE  app.at \in 1 .. 8
  BY StartPlaces DEF TypeOK, InCall

-----------------------------------------------------------------------------
(* The initial state.                                                       *)

LEMMA InitIInv == Init => IInv
  <1> SUFFICES ASSUME Init PROVE IInv
    OBVIOUS
  <1> USE LifecycleAssumption
  <1>1. TypeOK
    <2>1. app \in [op : {"idle", "start", "stop"}, at : 0 .. Len(StartOrder)]
      BY StartPlaces DEF Init
    <2>2. req \in [Requests -> [kind : Kinds,
            at : {"none", "refused", "queued", "pool", "task", "done", "lost"}]]
      BY DEF Init, Kinds
    <2>3. /\ mgr \in [Managers -> {"null", "raw", "ready", "dangling"}]
          /\ answers \in [Requests -> 0 .. 1]
          /\ worker \in [Workers -> {"off", "sleep", "retrieve", "service"} \cup Requests]
          /\ ghost \in [1 .. MaxStops -> [Workers -> {"off", "retrieve", "service"} \cup Requests]]
      BY DEF Init
    <2>4. /\ running \in BOOLEAN /\ configured \in BOOLEAN
          /\ key \in BOOLEAN /\ crashed \in BOOLEAN /\ failed \in BOOLEAN
      BY DEF Init
    <2>5. delegates \subseteq Requests /\ services \in 0 .. 1
      BY DEF Init
    <2>6. starts \in 0 .. MaxStarts /\ stops \in 0 .. MaxStops
      BY DEF Init
    <2> QED BY <2>1, <2>2, <2>3, <2>4, <2>5, <2>6 DEF TypeOK
  <1>2. MgrKinds /\ NothingBuilt /\ InCall /\ Together /\ Whole /\ Intact
    BY ManagerNames DEF Init, MgrKinds, NothingBuilt, InCall, Together, Whole, Intact,
                        AllNull, AllReady, Four, Used
  <1>3. ServiceHeld /\ Delegation /\ Leftover
    BY DEF Init, ServiceHeld, Delegation, Leftover
  <1> QED BY <1>1, <1>2, <1>3 DEF IInv

-----------------------------------------------------------------------------
(* The steps of a start and of a stop.                                      *)

\* One manager is built, taken as it is, or fails.
LEMMA InitializeManagerManaged ==
    ASSUME TypeOK, Managed, InitializeManager
    PROVE  Managed'
  <1>1. app.op = "start" /\ app.at \in 1 .. 8
    BY Places DEF Managed, InitializeManager
  <1>2. app.at = 1 \/ app.at = 2 \/ app.at = 3 \/ app.at = 4
        \/ app.at = 5 \/ app.at = 6 \/ app.at = 7 \/ app.at = 8
    BY <1>1
  <1>3. /\ mgr \in [Managers -> {"null", "raw", "ready", "dangling"}]
        /\ app \in [op : {"idle", "start", "stop"}, at : 0 .. 8]
        /\ failed \in BOOLEAN /\ stops \in Nat
    BY StartPlaces, LifecycleAssumption DEF TypeOK
  <1> USE <1>1, <1>3, ManagerNames, StartPlaces
         DEF MgrKinds, NothingBuilt, InCall, Together, Whole, Intact, AllNull, AllReady, Four, Used, Managed,
             InitializeManager, Present, NextManager, Return, MayFail
  <1>4. CASE app.at = 1
    BY <1>4
  <1>5. CASE app.at = 2
    BY <1>5
  <1>6. CASE app.at = 3
    BY <1>6
  <1>7. CASE app.at = 4
    BY <1>7
  <1>8. CASE app.at = 5
    BY <1>8
  <1>9. CASE app.at = 6
    BY <1>9
  <1>10. CASE app.at = 7
    BY <1>10
  <1>11. CASE app.at = 8
    BY <1>11
  <1> HIDE DEF MgrKinds, NothingBuilt, InCall, Together, Whole, Intact, AllNull, AllReady, Four, Used, Managed,
             InitializeManager, Present, NextManager, Return, MayFail
  <1> QED BY <1>2, <1>4, <1>5, <1>6, <1>7, <1>8, <1>9, <1>10, <1>11

\* One manager is taken down.
LEMMA ShutdownManagerManaged ==
    ASSUME TypeOK, Managed, ShutdownManager
    PROVE  Managed'
  <1>1. app.op = "stop" /\ app.at \in 1 .. 8
    BY Places DEF Managed, ShutdownManager
  <1>2. app.at = 1 \/ app.at = 2 \/ app.at = 3 \/ app.at = 4
        \/ app.at = 5 \/ app.at = 6 \/ app.at = 7 \/ app.at = 8
    BY <1>1
  <1>3. /\ mgr \in [Managers -> {"null", "raw", "ready", "dangling"}]
        /\ app \in [op : {"idle", "start", "stop"}, at : 0 .. 8]
        /\ failed \in BOOLEAN /\ stops \in Nat
    BY StartPlaces, LifecycleAssumption DEF TypeOK
  <1> USE <1>1, <1>3, ManagerNames, StopPlaces
         DEF MgrKinds, NothingBuilt, InCall, Together, Whole, Intact, AllNull, AllReady, Four, Used, Managed,
             ShutdownManager, AfterShutdown, Return
  <1>4. CASE app.at = 1
    BY <1>4
  <1>5. CASE app.at = 2
    BY <1>5
  <1>6. CASE app.at = 3
    BY <1>6
  <1>7. CASE app.at = 4
    BY <1>7
  <1>8. CASE app.at = 5
    BY <1>8
  <1>9. CASE app.at = 6
    BY <1>9
  <1>10. CASE app.at = 7
    BY <1>10
  <1>11. CASE app.at = 8
    BY <1>11
  <1> HIDE DEF MgrKinds, NothingBuilt, InCall, Together, Whole, Intact, AllNull, AllReady, Four, Used, Managed,
             ShutdownManager, AfterShutdown, Return
  <1> QED BY <1>2, <1>4, <1>5, <1>6, <1>7, <1>8, <1>9, <1>10, <1>11

\* The type of the state after a step of a start.
LEMMA InitializeManagerTyped ==
    ASSUME IInv, InitializeManager
    PROVE  TypeOK'
  <1>1. app.op = "start" /\ app.at \in 1 .. 8
    BY Places DEF IInv, InitializeManager
  <1>2. app' \in [op : {"idle", "start", "stop"}, at : 0 .. Len(StartOrder)]
    BY <1>1, StartPlaces DEF IInv, TypeOK, InitializeManager, NextManager, Return
  <1>3. mgr' \in [Managers -> {"null", "raw", "ready", "dangling"}]
    BY DEF IInv, TypeOK, InitializeManager
  <1>4. services' \in 0 .. 1
    BY <1>1 DEF IInv, TypeOK, InitializeManager, ServiceHeld, Present,
                MgrKinds, Four, Together, AllNull, AllReady
  <1>5. worker' \in [Workers -> {"off", "sleep", "retrieve", "service"} \cup Requests]
    BY DEF IInv, TypeOK, InitializeManager
  <1>6. running' \in BOOLEAN /\ failed' \in BOOLEAN
    BY DEF IInv, TypeOK, InitializeManager, NextManager
  <1> QED BY <1>2, <1>3, <1>4, <1>5, <1>6 DEF IInv, TypeOK, InitializeManager

\* A service is made where none is, and the pool of workers comes after it.
LEMMA InitializeManagerHeld ==
    ASSUME IInv, InitializeManager
    PROVE  ServiceHeld'
  <1>1. app.op = "start" /\ app.at \in 1 .. 8
    BY Places DEF IInv, InitializeManager
  <1>2. app' \in [op : {"idle", "start", "stop"}, at : 0 .. 8] /\ app'.op # "stop"
    BY <1>1, StartPlaces DEF IInv, TypeOK, InitializeManager, NextManager, Return
  <1>3. CASE StartOrder[app.at] = "service" /\ mgr["service"] = "null"
    <2>1. app.at = 6
      BY <1>1, <1>3, StartPlaces
    <2>2. mgr["thread"] = "null"
      BY <1>1, <1>3, <2>1 DEF IInv, Together, AllReady, Four
    <2>3. /\ services = 0 /\ \A w \in Workers : worker[w] = "off"
          /\ worker' = worker
      BY <1>3, <2>2 DEF IInv, ServiceHeld, InitializeManager
    <2>4. mgr'["service"] # "null"
      BY <1>3, ManagerNames DEF IInv, TypeOK, InitializeManager, Present, MayFail
    <2> QED BY <1>2, <2>3, <2>4 DEF ServiceHeld
  <1>4. CASE StartOrder[app.at] = "thread" /\ mgr["thread"] = "null"
    <2>1. services' = services /\ \A w \in Workers : worker'[w] = "sleep"
      BY <1>4 DEF InitializeManager, Present, MayFail
    <2>2. mgr'["thread"] # "null" /\ mgr'["service"] = mgr["service"]
      BY <1>4, ManagerNames DEF IInv, TypeOK, InitializeManager, Present, MayFail
    <2> QED BY <1>2, <2>1, <2>2 DEF IInv, ServiceHeld
  <1>5. CASE StartOrder[app.at] \notin {"service", "thread"}
    <2>1. UNCHANGED <<services, worker>>
      BY <1>5 DEF InitializeManager
    <2>2. mgr'["thread"] = mgr["thread"] /\ mgr'["service"] = mgr["service"]
      BY <1>5, ManagerNames DEF IInv, TypeOK, InitializeManager
    <2> QED BY <1>1, <1>2, <2>1, <2>2 DEF IInv, ServiceHeld
  <1>6. CASE StartOrder[app.at] \in {"service", "thread"} /\ mgr[StartOrder[app.at]] # "null"
    <2>1. UNCHANGED <<services, worker, mgr>>
      BY <1>6 DEF InitializeManager, Present, MayFail
    <2> QED BY <1>1, <1>2, <2>1 DEF IInv, ServiceHeld
  <1> QED BY <1>3, <1>4, <1>5, <1>6

\* The type of the state after a step of a stop.
LEMMA ShutdownManagerTyped ==
    ASSUME IInv, ShutdownManager
    PROVE  TypeOK'
  <1>1. app.op = "stop" /\ app.at \in 1 .. 8
    BY Places DEF IInv, ShutdownManager
  <1>2. app' \in [op : {"idle", "start", "stop"}, at : 0 .. Len(StartOrder)]
    BY <1>1, StartPlaces, StopPlaces DEF IInv, TypeOK, ShutdownManager, Return
  <1>3. mgr' \in [Managers -> {"null", "raw", "ready", "dangling"}]
    BY DEF IInv, TypeOK, ShutdownManager, AfterShutdown
  <1>4. services' \in 0 .. 1
    BY DEF IInv, TypeOK, ShutdownManager
  <1>5. /\ worker' \in [Workers -> {"off", "sleep", "retrieve", "service"} \cup Requests]
        /\ ghost' \in [1 .. MaxStops -> [Workers -> {"off", "retrieve", "service"} \cup Requests]]
    BY DEF IInv, TypeOK, ShutdownManager, ShutdownThreads
  <1>6. req' \in [Requests -> [kind : Kinds,
          at : {"none", "refused", "queued", "pool", "task", "done", "lost"}]]
    BY DEF IInv, TypeOK, ShutdownManager, Lost
  <1>7. running' \in BOOLEAN /\ key' \in BOOLEAN
    BY DEF IInv, TypeOK, ShutdownManager
  <1> QED BY <1>2, <1>3, <1>4, <1>5, <1>6, <1>7 DEF IInv, TypeOK, ShutdownManager

\* The pool goes first, then the contexts, then the service.
LEMMA ShutdownManagerHeld ==
    ASSUME IInv, ShutdownManager
    PROVE  ServiceHeld'
  <1>1. app.op = "stop" /\ app.at \in 1 .. 8
    BY Places DEF IInv, ShutdownManager
  <1>2. PICK m \in Managers : m = StopOrder[app.at]
    BY <1>1, StopPlaces, ManagerNames
  <1>3. /\ mgr' = [mgr EXCEPT ![m] = IF @ = "null" THEN @ ELSE AfterShutdown(m)]
        /\ IF m = "thread" /\ mgr[m] # "null" THEN ShutdownThreads ELSE UNCHANGED <<worker, ghost>>
        /\ services' = IF m = "arbiter" /\ mgr[m] # "null" THEN 0 ELSE services
    BY <1>2 DEF ShutdownManager
  <1>4. /\ mgr \in [Managers -> {"null", "raw", "ready", "dangling"}]
        /\ services \in 0 .. 1
    BY DEF IInv, TypeOK
  <1>5. mgr'["thread"] = "null" => \A w \in Workers : worker'[w] = "off"
    <2>1. CASE m = "thread" /\ mgr[m] # "null"
      BY <1>3, <2>1 DEF ShutdownThreads
    <2>2. CASE m = "thread" /\ mgr[m] = "null"
      BY <1>3, <2>2 DEF IInv, ServiceHeld
    <2>3. CASE m # "thread"
      BY <1>3, <1>4, <2>3, ManagerNames DEF IInv, ServiceHeld
    <2> QED BY <2>1, <2>2, <2>3
  <1>6. mgr'["service"] = "null" \/ (app'.op = "stop" /\ app'.at > 2) => services' = 0
    <2>1. CASE app.at > 2
      BY <1>1, <1>3, <2>1 DEF IInv, ServiceHeld
    <2>2. CASE app.at = 1
      <3>1. app'.at = 2
        BY <2>2, StopPlaces DEF IInv, TypeOK, ShutdownManager
      <3>2. m = "thread" /\ services' = services /\ mgr'["service"] = mgr["service"]
        BY <1>2, <1>3, <1>4, <2>2, StopPlaces, ManagerNames
      <3> QED BY <3>1, <3>2 DEF IInv, ServiceHeld
    <2>3. CASE app.at = 2
      <3>1. m = "arbiter"
        BY <1>2, <2>3, StopPlaces
      <3>2. CASE mgr["arbiter"] = "null"
        BY <1>1, <1>3, <2>3, <3>1, <3>2 DEF IInv, ServiceHeld, Together, AllNull, Four
      <3>3. CASE mgr["arbiter"] # "null"
        BY <1>3, <3>1, <3>3
      <3> QED BY <3>2, <3>3
    <2> QED BY <1>1, <2>1, <2>2, <2>3
  <1>7. services' = 0 \/ \A w \in Workers : worker'[w] # "service"
    BY <1>3 DEF IInv, ServiceHeld, ShutdownThreads
  <1>8. \A v, w \in Workers : worker'[v] = "service" /\ worker'[w] = "service" => v = w
    BY <1>3 DEF IInv, ServiceHeld, ShutdownThreads
  <1> QED BY <1>5, <1>6, <1>7, <1>8 DEF ServiceHeld

\* The threads of the pool become those of the stop under way.
LEMMA ShutdownManagerLeftover ==
    ASSUME IInv, ShutdownManager
    PROVE  Leftover'
  <1>1. ghost \in [1 .. MaxStops -> [Workers -> {"off", "retrieve", "service"} \cup Requests]]
    BY DEF IInv, TypeOK
  <1>2. stops' = stops /\ stops \in 0 .. MaxStops
    BY DEF IInv, TypeOK, ShutdownManager
  <1>3. CASE ghost' = ghost
    BY <1>2, <1>3 DEF IInv, Leftover
  <1>4. CASE ShutdownThreads
    <2> DEFINE lingering == [w \in Workers |-> IF worker[w] = "sleep" THEN "off" ELSE worker[w]]
    <2>1. \A v, w \in Workers : lingering[v] = "service" /\ lingering[w] = "service" => v = w
      BY DEF IInv, ServiceHeld
    <2>2. ghost' = [ghost EXCEPT ![stops] = lingering]
      BY <1>4 DEF ShutdownThreads
    <2> HIDE DEF lingering
    <2>3. \A s \in 1 .. MaxStops : ghost'[s] = IF s = stops THEN lingering ELSE ghost[s]
      BY <1>1, <2>2
    <2> SUFFICES ASSUME NEW s \in 1 .. MaxStops
                 PROVE  /\ s > stops => \A w \in Workers : ghost'[s][w] # "service"
                        /\ \A v, w \in Workers :
                             ghost'[s][v] = "service" /\ ghost'[s][w] = "service" => v = w
      BY <1>2 DEF Leftover
    <2>4. CASE s = stops
      BY <1>2, <2>1, <2>3, <2>4
    <2>5. CASE s # stops
      BY <2>3, <2>5 DEF IInv, Leftover
    <2> QED BY <2>4, <2>5
  <1> QED BY <1>3, <1>4 DEF ShutdownManager

\* A stop drops requests and answers none.
LEMMA ShutdownManagerDelegation ==
    ASSUME IInv, ShutdownManager
    PROVE  Delegation'
  <1>1. req' = req \/ \E places \in {{"pool"}, {"queued"}} : req' = Lost(places)
    BY DEF ShutdownManager
  <1>2. ASSUME NEW places \in {{"pool"}, {"queued"}}, req' = Lost(places)
        PROVE  Delegation'
    BY <1>2 DEF IInv, TypeOK, Delegation, Lost, ShutdownManager
  <1>3. CASE req' = req
    BY <1>3 DEF IInv, Delegation, ShutdownManager
  <1> QED BY <1>1, <1>2, <1>3

-----------------------------------------------------------------------------
(* The other calls of the application.                                      *)

\* The calls that leave the requests and the workers alone.
LEMMA QuietCall ==
    ASSUME IInv, SetConfigValue \/ ValidateDirectories \/ BeginStop \/ EnterPassphrase
    PROVE  IInv'
  <1> USE LifecycleAssumption
  <1>1. UNCHANGED <<mgr, tasks>> /\ app.op = "idle"
    BY DEF SetConfigValue, ValidateDirectories, BeginStop, EnterPassphrase, Idle, tasks
  <1>2. TypeOK'
    <2>1. CASE SetConfigValue
      BY <2>1, <1>1 DEF IInv, TypeOK, SetConfigValue, tasks
    <2>2. CASE ValidateDirectories
      <3>1. starts' \in 0 .. MaxStarts
        BY <2>2 DEF IInv, TypeOK, ValidateDirectories
      <3>2. app' \in [op : {"idle", "start", "stop"}, at : 0 .. Len(StartOrder)]
        BY <2>2, StartPlaces DEF IInv, TypeOK, ValidateDirectories
      <3>3. running' \in BOOLEAN /\ crashed' \in BOOLEAN
        BY <2>2 DEF IInv, TypeOK, ValidateDirectories
      <3> QED BY <2>2, <1>1, <3>1, <3>2, <3>3 DEF IInv, TypeOK, ValidateDirectories, tasks
    <2>3. CASE BeginStop
      <3>1. stops' \in 0 .. MaxStops /\ failed' \in BOOLEAN
        <4>1. stops \in 0 .. MaxStops /\ stops < MaxStops /\ stops' = stops + 1
          BY <2>3 DEF IInv, TypeOK, BeginStop
        <4>2. failed' \in BOOLEAN
          BY <2>3 DEF BeginStop
        <4> QED BY <4>1, <4>2
      <3>2. app' \in [op : {"idle", "start", "stop"}, at : 0 .. Len(StartOrder)]
        BY <2>3, StartPlaces DEF BeginStop
      <3> QED BY <2>3, <1>1, <3>1, <3>2 DEF IInv, TypeOK, BeginStop, tasks
    <2>4. CASE EnterPassphrase
      BY <2>4, <1>1 DEF IInv, TypeOK, EnterPassphrase, tasks
    <2> QED BY <2>1, <2>2, <2>3, <2>4
  <1>3. Delegation'
    BY <1>1 DEF IInv, Delegation, tasks
  <1>4. ServiceHeld'
    <2>1. app' = app \/ app'.at = 1
      BY DEF SetConfigValue, ValidateDirectories, BeginStop, EnterPassphrase
    <2> QED BY <1>1, <2>1 DEF IInv, ServiceHeld, tasks
  <1>6. Leftover'
    <2>1. stops' \in {stops, stops + 1} /\ stops \in Nat /\ ghost' = ghost
      BY <1>1 DEF IInv, TypeOK, tasks,
                  SetConfigValue, ValidateDirectories, BeginStop, EnterPassphrase
    <2> QED BY <2>1 DEF IInv, Leftover
  <1>5. Managed'
    <2>0. stops \in Nat
      BY DEF IInv, TypeOK
    <2> USE <1>1, <2>0 DEF IInv, Managed, MgrKinds, NothingBuilt, InCall, Together, Whole,
                     Intact, AllNull, AllReady, Four, Used
    <2>1. CASE SetConfigValue
      BY <2>1 DEF SetConfigValue
    <2>2. CASE ValidateDirectories
      BY <2>2, ManagerNames DEF ValidateDirectories
    <2>3. CASE BeginStop
      BY <2>3, ManagerNames DEF BeginStop
    <2>4. CASE EnterPassphrase
      BY <2>4 DEF EnterPassphrase
    <2> QED BY <2>1, <2>2, <2>3, <2>4
  <1> QED BY <1>2, <1>3, <1>4, <1>5, <1>6 DEF IInv, Managed

\* What is said of the managers and the service lasts over a step that leaves
\* them alone.
LEMMA Untouched ==
    ASSUME IInv, UNCHANGED <<mgr, running, app, configured, stops, failed>>
    PROVE  Managed'
  BY DEF IInv, Managed, MgrKinds, NothingBuilt, InCall, Together, Whole, Intact,
         AllNull, AllReady

\* So does what is said of the threads that linger.
LEMMA NoneLeft ==
    ASSUME IInv, UNCHANGED <<ghost, stops>>
    PROVE  Leftover'
  BY DEF IInv, Leftover

\* A request is refused or queued, with its delegate in the map.
LEMMA RequestStep ==
    ASSUME IInv, NEW r \in Requests, NEW k \in Kinds, Request(r, k)
    PROVE  IInv'
  <1>1. TypeOK'
    BY DEF IInv, TypeOK, Request, RegisterRequestCallback, Refuse, PushContextBack
  <1>2. Managed'
    BY Untouched DEF Request
  <1>3. ServiceHeld'
    BY DEF IInv, ServiceHeld, Request
  <1>4. Delegation'
    BY DEF IInv, TypeOK, Delegation, Request, RegisterRequestCallback, Refuse, PushContextBack
  <1>5. Leftover'
    BY NoneLeft DEF Request
  <1> QED BY <1>1, <1>2, <1>3, <1>4, <1>5 DEF IInv, Managed

-----------------------------------------------------------------------------
(* The workers and the threads of earlier pools.                            *)

\* The contexts of the queue go to the pool with their delegates.
LEMMA RetrievedStep ==
    ASSUME IInv, req' = Retrieved, UNCHANGED <<delegates, answers>>
    PROVE  Delegation'
  BY DEF IInv, TypeOK, Delegation, Retrieved

\* A task ends, and its delegate calls back and goes, or not.
LEMMA FinishStep ==
    ASSUME IInv, NEW r \in Requests, req[r].at = "task", Finish(r)
    PROVE  /\ Delegation'
           /\ answers' \in [Requests -> 0 .. 1] /\ delegates' \subseteq Requests
           /\ req' \in [Requests -> [kind : Kinds,
                at : {"none", "refused", "queued", "pool", "task", "done", "lost"}]]
  <1>1. answers[r] = 0
    BY DEF IInv, Delegation
  <1>2. CASE Callback(r)
    BY <1>1, <1>2 DEF IInv, TypeOK, Delegation, Finish, Callback
  <1>3. CASE UNCHANGED <<answers, delegates>>
    BY <1>1, <1>3 DEF IInv, TypeOK, Delegation, Finish
  <1> QED BY <1>2, <1>3 DEF Finish

\* A worker takes the service context, the context of a request, or nothing.
LEMMA RetrieveTaskStep ==
    ASSUME IInv, NEW w \in Workers, RetrieveTask(w),
           UNCHANGED <<mgr, running, app, configured, key, starts, stops, crashed, failed>>
    PROVE  IInv'
  <1> USE LifecycleAssumption
  <1>1. TypeOK'
    <2>1. services' \in 0 .. 1
      BY DEF IInv, TypeOK, RetrieveTask
    <2>3. worker' \in [Workers -> {"off", "sleep", "retrieve", "service"} \cup Requests]
      BY DEF IInv, TypeOK, RetrieveTask
    <2>4. req' \in [Requests -> [kind : Kinds,
            at : {"none", "refused", "queued", "pool", "task", "done", "lost"}]]
      BY DEF IInv, TypeOK, RetrieveTask
    <2>2. UNCHANGED <<delegates, answers, ghost>>
      BY DEF RetrieveTask
    <2> QED BY <2>1, <2>2, <2>3, <2>4 DEF IInv, TypeOK
  <1>2. Managed'
    BY Untouched
  <1>3. ServiceHeld'
    BY DEF IInv, TypeOK, ServiceHeld, RetrieveTask
  <1>4. Delegation'
    BY DEF IInv, TypeOK, Delegation, RetrieveTask
  <1>5. Leftover'
    BY NoneLeft DEF RetrieveTask
  <1> QED BY <1>1, <1>2, <1>3, <1>4, <1>5 DEF IInv, Managed

\* The other steps of a worker.
LEMMA WorkStep ==
    ASSUME IInv, NEW w \in Workers, Work(w)
    PROVE  IInv'
  <1> USE LifecycleAssumption
  <1>1. CASE RetrieveTask(w)
    BY <1>1, RetrieveTaskStep DEF Work
  <1>2. Managed' /\ Leftover'
    BY Untouched, NoneLeft
    DEF Work, Wake, RetrieveTask, RunService, RunTask, ReclaimTask
  <1>3. CASE Wake(w) \/ ReclaimTask(w)
    <2>1. TypeOK'
      BY <1>3 DEF IInv, TypeOK, Work, Wake, ReclaimTask
    <2>2. ServiceHeld'
      BY <1>3 DEF IInv, TypeOK, ServiceHeld, Work, Wake, ReclaimTask
    <2>3. Delegation'
      BY <1>3 DEF IInv, Delegation, Wake, ReclaimTask
    <2> QED BY <1>2, <2>1, <2>2, <2>3 DEF IInv, Managed
  <1>4. CASE RunService(w)
    <2>1. TypeOK'
      BY <1>4 DEF IInv, TypeOK, Work, RunService, Retrieved
    <2>2. ServiceHeld'
      BY <1>4 DEF IInv, ServiceHeld, Work, RunService
    <2>3. Delegation'
      BY <1>4, RetrievedStep DEF RunService
    <2> QED BY <1>2, <2>1, <2>2, <2>3 DEF IInv, Managed
  <1>5. CASE RunTask(w)
    <2>1. ServiceHeld'
      BY <1>5 DEF IInv, ServiceHeld, Work, RunTask
    <2>2. Delegation' /\ TypeOK'
      BY <1>5, FinishStep DEF IInv, TypeOK, Work, RunTask
    <2> QED BY <1>2, <2>1, <2>2 DEF IInv, Managed
  <1> QED BY <1>1, <1>3, <1>4, <1>5 DEF Work

\* A thread whose worker was deleted takes from the pool, or ends its task.
LEMMA LingerStep ==
    ASSUME IInv, NEW w \in Workers, Linger(w)
    PROVE  IInv'
  <1>1. Managed'
    BY Untouched DEF Linger
  <1>0. PICK s \in 1 .. MaxStops : EndOfThread(s, w)
    BY DEF Linger
  <1>2. ServiceHeld'
    BY <1>0 DEF IInv, TypeOK, ServiceHeld, Linger, EndOfThread
  <1>3. ghost' = [ghost EXCEPT ![s][w] = "off"] /\ services' \in 0 .. 1
    BY <1>0 DEF IInv, TypeOK, EndOfThread
  <1>11. Leftover'
    BY <1>3 DEF IInv, TypeOK, Leftover, Linger
  <1> DEFINE Kept ==
        /\ Delegation'
        /\ answers' \in [Requests -> 0 .. 1] /\ delegates' \subseteq Requests
        /\ req' \in [Requests -> [kind : Kinds,
              at : {"none", "refused", "queued", "pool", "task", "done", "lost"}]]
  <1>4. ASSUME UNCHANGED <<delegates, answers, req>>
        PROVE  Kept
    BY <1>4 DEF IInv, TypeOK, Delegation
  <1>5. ASSUME req' = Retrieved, UNCHANGED <<delegates, answers>>
        PROVE  Kept
    BY <1>5, RetrievedStep DEF IInv, TypeOK, Retrieved
  <1>6. ASSUME NEW r \in Requests, req' = [req EXCEPT ![r].at = "lost"],
               req[r].at # "done", UNCHANGED <<delegates, answers>>
        PROVE  Kept
    BY <1>6 DEF IInv, TypeOK, Delegation
  <1>7. ASSUME NEW r \in Requests, req[r].at = "task", Finish(r)
        PROVE  Kept
    BY <1>7, FinishStep
  <1>8. ASSUME NEW r \in Requests, req[r].at = "done", UNCHANGED <<delegates, answers>>,
               req' = [req EXCEPT ![r].at = "done"]
        PROVE  Kept
    BY <1>8 DEF IInv, TypeOK, Delegation
  <1>9. \/ UNCHANGED <<delegates, answers, req>>
        \/ req' = Retrieved /\ UNCHANGED <<delegates, answers>>
        \/ \E r \in Requests : /\ req' = [req EXCEPT ![r].at = "lost"] /\ req[r].at # "done"
                              /\ UNCHANGED <<delegates, answers>>
        \/ \E r \in Requests : req[r].at = "task" /\ Finish(r)
        \/ \E r \in Requests : /\ req[r].at = "done" /\ req' = [req EXCEPT ![r].at = "done"]
                              /\ UNCHANGED <<delegates, answers>>
    <2>1. PICK was : was = ghost[s][w]
      OBVIOUS
    <2> QED BY <1>0, <2>1 DEF EndOfThread
  <1>10. Kept
    <2> HIDE DEF Kept
    <2> QED BY <1>4, <1>5, <1>6, <1>7, <1>8, <1>9
  <1>12. TypeOK'
    <2>1. UNCHANGED <<mgr, running, app, configured, key, worker, starts, stops, crashed, failed>>
      BY <1>0 DEF Linger, EndOfThread
    <2>2. ghost' \in [1 .. MaxStops -> [Workers -> {"off", "retrieve", "service"} \cup Requests]]
      BY <1>3 DEF IInv, TypeOK
    <2> QED BY <1>3, <1>10, <2>1, <2>2 DEF IInv, TypeOK
  <1> QED BY <1>1, <1>2, <1>10, <1>11, <1>12 DEF IInv, Managed

-----------------------------------------------------------------------------
(* The theorems.                                                            *)

\* The invariant is inductive.
LEMMA StepIInv == IInv /\ [Next]_vars => IInv'
  <1> SUFFICES ASSUME IInv, [Next]_vars PROVE IInv'
    OBVIOUS
  <1>1. CASE UNCHANGED vars
    <2>1. Managed'
      BY <1>1, Untouched DEF vars
    <2>2. TypeOK' /\ ServiceHeld' /\ Delegation' /\ Leftover'
      BY <1>1 DEF IInv, TypeOK, ServiceHeld, Delegation, Leftover, vars
    <2> QED BY <2>1, <2>2 DEF IInv, Managed
  <1>2. CASE Call
    BY <1>2, QuietCall, RequestStep DEF Call
  <1>3. CASE InitializeManager
    <2>1. Managed'
      BY <1>3, InitializeManagerManaged DEF IInv, Managed
    <2>2. Delegation' /\ Leftover'
      BY <1>3, NoneLeft DEF IInv, Delegation, InitializeManager
    <2> QED BY <1>3, <2>1, <2>2, InitializeManagerTyped, InitializeManagerHeld
            DEF IInv, Managed
  <1>4. CASE ShutdownManager
    <2>1. Managed'
      BY <1>4, ShutdownManagerManaged DEF IInv, Managed
    <2> QED BY <1>4, <2>1, ShutdownManagerTyped, ShutdownManagerHeld,
               ShutdownManagerDelegation, ShutdownManagerLeftover DEF IInv, Managed
  <1>5. ASSUME NEW w \in Workers, Work(w) \/ Linger(w)
        PROVE  IInv'
    BY <1>5, WorkStep, LingerStep
  <1> QED BY <1>1, <1>2, <1>3, <1>4, <1>5 DEF Next

\* The invariant holds throughout.
LEMMA Invariance == Spec => []IInv
  BY InitIInv, StepIInv, PTL DEF Spec

\* Every variable keeps its kind of value, the pointers, the calls and the
\* requests in what state the start or the stop may be.
THEOREM TypeCorrect == Spec => []TypeOK
  <1>1. IInv => TypeOK
    BY DEF IInv
  <1> QED BY Invariance, <1>1, PTL

\* A service that says it runs has the managers its methods use, initialised
\* unless a start has failed since the last stop; of those that cannot fail none
\* is missing, and only the connection manager may be a pointer a stop left.
THEOREM RunsWhole == Spec => []RunningReady
  <1>1. IInv => RunningReady
    <2> SUFFICES ASSUME IInv, app.op = "idle", running
                 PROVE  /\ \A m \in Four : mgr[m] = "ready"
                        /\ \A m \in Used : mgr[m] = "ready" \/ (failed /\ mgr[m] = "raw")
                        /\ mgr["connection"] = "ready" \/ (failed /\ mgr["connection"] = "raw")
                           \/ (stops > 0 /\ mgr["connection"] = "dangling")
      BY DEF RunningReady, Four, Used
    <2>1. /\ AllReady /\ mgr["connection"] # "null"
          /\ \A m \in Used : mgr[m] \in {"raw", "ready"}
      BY DEF IInv, Whole, MgrKinds
    <2>2. /\ ~failed => \A m \in Used \cup {"connection"} : mgr[m] # "raw"
          /\ mgr["connection"] = "dangling" => stops > 0
      BY DEF IInv, Intact, Used
    <2>3. mgr["connection"] \in {"null", "raw", "ready", "dangling"}
      BY ManagerNames DEF IInv, TypeOK
    <2> QED BY <2>1, <2>2, <2>3 DEF AllReady
  <1> QED BY Invariance, <1>1, PTL

\* The delegate of a request that waits or runs is in the map, and one that
\* called back is gone, over every stop and with threads of an earlier pool.
THEOREM DelegatesKept == Spec => []DelegatesHeld
  <1>1. IInv => DelegatesHeld
    BY DEF IInv, TypeOK, Delegation, DelegatesHeld
  <1> QED BY Invariance, <1>1, PTL

\* A pool has one service task, and a stop leaves one thread of it at most, for
\* any number of workers and of restarts.
THEOREM ServedAlone == Spec => []OneService
  <1>1. ASSUME NEW threads, \A v, w \in Serving(threads) : v = w
        PROVE  \/ Serving(threads) = {} /\ Cardinality(Serving(threads)) = 0
               \/ Cardinality(Serving(threads)) = 1
    <2>1. CASE Serving(threads) = {}
      BY <2>1, FS_EmptySet
    <2>2. CASE Serving(threads) # {}
      <3>1. PICK w : Serving(threads) = {w}
        BY <1>1, <2>2
      <3> QED BY <3>1, FS_Singleton
    <2> QED BY <2>1, <2>2
  <1>2. IInv => OneService
    <2> SUFFICES ASSUME IInv PROVE OneService
      OBVIOUS
    <2>1. services + Cardinality(Serving(worker)) <= 1
      <3>1. \A v, w \in Serving(worker) : v = w
        BY DEF IInv, ServiceHeld, Serving
      <3>2. services \in 0 .. 1 /\ (services = 0 \/ Serving(worker) = {})
        BY DEF IInv, TypeOK, ServiceHeld, Serving
      <3>3. \/ Serving(worker) = {} /\ Cardinality(Serving(worker)) = 0
            \/ Cardinality(Serving(worker)) = 1
        BY <1>1, <3>1
      <3>4. CASE Serving(worker) = {}
        BY <3>2, <3>4, FS_EmptySet
      <3>5. CASE Serving(worker) # {}
        BY <3>2, <3>3, <3>5
      <3> QED BY <3>4, <3>5
    <2>2. ASSUME NEW s \in 1 .. MaxStops
          PROVE  Cardinality(Serving(ghost[s])) <= IF s <= stops THEN 1 ELSE 0
      <3>1. \A v, w \in Serving(ghost[s]) : v = w
        BY DEF IInv, Leftover, Serving
      <3>2. \/ Cardinality(Serving(ghost[s])) = 0
            \/ Cardinality(Serving(ghost[s])) = 1
        BY <1>1, <3>1
      <3>3. CASE s <= stops
        BY <3>2, <3>3
      <3>4. CASE ~(s <= stops)
        <4>1. s > stops
          BY <3>4, LifecycleAssumption DEF IInv, TypeOK
        <4>2. Serving(ghost[s]) = {}
          BY <4>1 DEF IInv, Leftover, Serving
        <4> QED BY <3>4, <4>2, FS_EmptySet
      <3> QED BY <3>3, <3>4
    <2> QED BY <2>1, <2>2 DEF OneService
  <1> QED BY Invariance, <1>2, PTL

(***************************************************************************)
(* The event system                                                        *)
(***************************************************************************)
\* A shutdown under way has cleared the listeners, and nothing was deleted since.
Clearing == service \in {"clearQueue", "delete"} => cleared /\ early = 0

EventInv == EventTypeOK /\ OneNotifier /\ TasksListed /\ RegisteredListens /\ Clearing

-----------------------------------------------------------------------------
(* How often a value is in a sequence.                                      *)

Occurrences(s, x) == {i \in DOMAIN s : s[i] = x}

\* The places of a value are finitely many.
LEMMA PlacesFinite ==
    ASSUME NEW S, NEW s \in Seq(S), NEW x
    PROVE  IsFiniteSet(Occurrences(s, x)) /\ Cardinality(Occurrences(s, x)) \in Nat
  <1>1. DOMAIN s = 1 .. Len(s) /\ Len(s) \in Nat
    OBVIOUS
  <1>2. IsFiniteSet(1 .. Len(s))
    BY <1>1, FS_Interval
  <1>3. Occurrences(s, x) \subseteq 1 .. Len(s)
    BY <1>1 DEF Occurrences
  <1> QED BY <1>2, <1>3, FS_Subset, FS_CardinalityType

\* An empty sequence has none.
LEMMA PlacesEmpty ==
    ASSUME NEW x
    PROVE  Cardinality(Occurrences(<<>>, x)) = 0
  BY FS_EmptySet DEF Occurrences

\* Appending a value adds a place of it, and of no other.
LEMMA PlacesAppend ==
    ASSUME NEW S, NEW s \in Seq(S), NEW y \in S, NEW x
    PROVE  Cardinality(Occurrences(Append(s, y), x))
             = Cardinality(Occurrences(s, x)) + (IF y = x THEN 1 ELSE 0)
  <1>1. Len(s) \in Nat /\ DOMAIN s = 1 .. Len(s)
    OBVIOUS
  <1>2. /\ DOMAIN Append(s, y) = 1 .. Len(s) + 1
        /\ \A i \in 1 .. Len(s) : Append(s, y)[i] = s[i]
        /\ Append(s, y)[Len(s) + 1] = y
    OBVIOUS
  <1>3. CASE y = x
    <2>1. Occurrences(Append(s, y), x) = Occurrences(s, x) \cup {Len(s) + 1}
      BY <1>1, <1>2, <1>3 DEF Occurrences
    <2>2. Len(s) + 1 \notin Occurrences(s, x)
      BY <1>1 DEF Occurrences
    <2> QED BY <1>3, <2>1, <2>2, PlacesFinite, FS_AddElement
  <1>4. CASE y # x
    <2>1. Occurrences(Append(s, y), x) = Occurrences(s, x)
      BY <1>1, <1>2, <1>4 DEF Occurrences
    <2> QED BY <1>4, <2>1, PlacesFinite
  <1> QED BY <1>3, <1>4

\* The count of a listener is that of its places.
LEMMA CountIsPlaces ==
    ASSUME NEW l, NEW t
    PROVE  CountOf(l, t) = Cardinality(Occurrences(listeners[t], l))
  BY DEF CountOf, Occurrences

\* The same of the next state.
LEMMA CountIsPlacesNext ==
    ASSUME NEW l, NEW t
    PROVE  CountOf(l, t)' = Cardinality(Occurrences(listeners'[t], l))
  BY DEF CountOf, Occurrences

\* The registrars halfway into type t.
Halfway(h, t) == {r \in Registrars : h[r] # None /\ h[r][2] = t}

LEMMA HalfwayFinite ==
    ASSUME NEW h, NEW t
    PROVE  IsFiniteSet(Halfway(h, t)) /\ Cardinality(Halfway(h, t)) \in Nat
  <1>1. Halfway(h, t) \subseteq Registrars
    BY DEF Halfway
  <1> QED BY <1>1, ConstantsAssumption, FS_Subset, FS_CardinalityType

\* What RegisteredListens says, by places and by the registrars halfway.
LEMMA ListensAs ==
    RegisteredListens <=>
      (~cleared => \A t \in AppTypes :
         Cardinality(Occurrences(listeners[t], "app"))
           = Len(callbacks[t]) + Cardinality(Halfway(half, t)))
  BY CountIsPlaces DEF RegisteredListens, Halfway

LEMMA ListensAsNext ==
    RegisteredListens' <=>
      (~cleared' => \A t \in AppTypes :
         Cardinality(Occurrences(listeners'[t], "app"))
           = Len(callbacks'[t]) + Cardinality(Halfway(half', t)))
  BY CountIsPlacesNext DEF RegisteredListens, Halfway

-----------------------------------------------------------------------------
(* The initial state.                                                       *)

LEMMA InitEventInv == EventInit => EventInv
  <1> SUFFICES ASSUME EventInit PROVE EventInv
    OBVIOUS
  <1> USE ConstantsAssumption
  <1>1. EventTypeOK
    <2>1. /\ listeners \in [Types -> Seq({"app", "tasks"})]
          /\ callbacks \in [Types -> Seq(Callbacks)] /\ queue \in Seq(Types)
          /\ batch \in [Processors -> Seq(Types)]
      BY DEF EventInit
    <2>2. /\ pc \in [Processors -> {"idle", "round", "notify", "call"}]
          /\ left \in [Processors -> Nat] /\ index \in [Processors -> Nat]
          /\ told \in [Processors -> Nat]
          /\ half \in [Registrars -> (Callbacks \X AppTypes) \cup {None}]
      BY DEF EventInit
    <2> QED BY <2>1, <2>2 DEF EventInit, EventTypeOK
  <1>2. OneNotifier
    BY DEF EventInit, OneNotifier
  <1>3. ASSUME NEW l, NEW t \in Types PROVE CountOf(l, t) = 0
    BY CountIsPlaces, PlacesEmpty DEF EventInit
  <1>4. TasksListed
    BY <1>3 DEF EventInit, TasksListed, Types
  <1>5. RegisteredListens
    <2>1. ASSUME NEW t PROVE Halfway(half, t) = {}
      BY DEF EventInit, Halfway
    <2>2. ASSUME NEW t \in AppTypes
          PROVE  Cardinality(Occurrences(listeners[t], "app")) = 0 /\ callbacks[t] = <<>>
      BY PlacesEmpty DEF EventInit, Types
    <2>3. ASSUME NEW t \in AppTypes
          PROVE  Cardinality(Occurrences(listeners[t], "app"))
                   = Len(callbacks[t]) + Cardinality(Halfway(half, t))
      <3>1. Cardinality(Halfway(half, t)) = 0
        BY <2>1, FS_EmptySet
      <3>2. Len(callbacks[t]) = 0
        BY <2>2
      <3> QED BY <2>2, <3>1, <3>2
    <2> QED BY <2>3, ListensAs
  <1>6. Clearing
    BY DEF EventInit, Clearing
  <1> QED BY <1>1, <1>2, <1>4, <1>5, <1>6 DEF EventInv

-----------------------------------------------------------------------------
(* The steps that leave the lists alone.                                    *)

\* Where neither the lists nor what they are measured by change.
LEMMA ListsKept ==
    ASSUME EventInv, UNCHANGED <<listeners, appVars, lifeVars>>
    PROVE  TasksListed' /\ RegisteredListens' /\ Clearing'
  BY DEF EventInv, TasksListed, RegisteredListens, Clearing, CountOf, appVars, lifeVars

\* An event waits.
LEMMA RaiseEventStep ==
    ASSUME EventInv, NEW t \in Types, RaiseEvent(t)
    PROVE  EventInv'
  <1>1. EventTypeOK'
    BY DEF EventInv, EventTypeOK, RaiseEvent, procVars, appVars, lifeVars
  <1>2. OneNotifier'
    BY DEF EventInv, OneNotifier, RaiseEvent, procVars
  <1> QED BY <1>1, <1>2, ListsKept DEF EventInv, RaiseEvent

\* A processor counts, copies a stride, or is through with one.
LEMMA StrideStep ==
    ASSUME EventInv, NEW p \in Processors, CountEvents(p) \/ CopyStride(p) \/ EndOfStride(p)
    PROVE  EventInv'
  <1> USE ConstantsAssumption
  <1>1. EventTypeOK'
    <2>1. CASE CountEvents(p)
      <3>1. Len(queue) \in Nat
        BY DEF EventInv, EventTypeOK
      <3> QED BY <2>1, <3>1 DEF EventInv, EventTypeOK, CountEvents, appVars, lifeVars
    <2>2. CASE CopyStride(p)
      <3> DEFINE n == IF Stride < Len(queue) THEN Stride ELSE Len(queue)
      <3>1. queue \in Seq(Types) /\ n \in 0 .. Len(queue)
        BY DEF EventInv, EventTypeOK
      <3>2. SubSeq(queue, 1, n) \in Seq(Types) /\ SubSeq(queue, n + 1, Len(queue)) \in Seq(Types)
        BY <3>1
      <3>3. (IF left[p] > Stride THEN left[p] - Stride ELSE 0) \in Nat
        BY DEF EventInv, EventTypeOK
      <3>4. queue' \in Seq(Types) /\ batch' \in [Processors -> Seq(Types)]
        BY <2>2, <3>2 DEF EventInv, EventTypeOK, CopyStride
      <3>5. left' \in [Processors -> Nat]
        BY <2>2, <3>3 DEF EventInv, EventTypeOK, CopyStride
      <3> QED BY <2>2, <3>4, <3>5 DEF EventInv, EventTypeOK, CopyStride, appVars, lifeVars
    <2>3. CASE EndOfStride(p)
      BY <2>3 DEF EventInv, EventTypeOK, EndOfStride, appVars, lifeVars
    <2> QED BY <2>1, <2>2, <2>3
  <1>2. OneNotifier'
    <2>1. pc[p] # "call" /\ pc' = [pc EXCEPT ![p] = pc'[p]] /\ pc'[p] # "call"
      BY DEF EventInv, EventTypeOK, CountEvents, CopyStride, EndOfStride
    <2>2. holder' = holder /\ \A q \in Processors \ {p} : batch'[q] = batch[q]
      BY DEF EventInv, EventTypeOK, CountEvents, CopyStride, EndOfStride
    <2> QED BY <2>1, <2>2 DEF EventInv, EventTypeOK, OneNotifier
  <1>3. UNCHANGED <<listeners, appVars, lifeVars>>
    BY DEF CountEvents, CopyStride, EndOfStride
  <1> QED BY <1>1, <1>2, <1>3, ListsKept DEF EventInv

\* A processor takes listen_mtx_, tells a listener, or lets the mutex go.
LEMMA NotifyStep ==
    ASSUME EventInv, NEW p \in Processors,
           LockListeners(p) \/ CallListener(p) \/ UnlockListeners(p)
    PROVE  EventInv'
  <1> USE ConstantsAssumption
  <1>1. CASE LockListeners(p)
    <2>1. EventTypeOK'
      BY <1>1 DEF EventInv, EventTypeOK, LockListeners, appVars, lifeVars
    <2>2. OneNotifier'
      BY <1>1 DEF EventInv, EventTypeOK, OneNotifier, LockListeners
    <2> QED BY <1>1, <2>1, <2>2, ListsKept DEF EventInv, LockListeners
  <1>2. CASE CallListener(p)
    <2>1. batch[p] # <<>> /\ batch[p] \in Seq(Types)
      BY <1>2 DEF EventInv, EventTypeOK, OneNotifier, CallListener
    <2>2. PICK t \in Types : t = Head(batch[p])
      BY <2>1
    <2>3. queue' \in Seq(Types) /\ index' \in [Processors -> Nat] /\ told' \in [Processors -> Nat]
      <3>1. CASE CallBack(p, t) /\ told[p] < Len(callbacks[t])
        <4>1. CASE queue' = queue
          BY <3>1, <4>1 DEF EventInv, EventTypeOK, CallBack
        <4>2. CASE queue' # queue
          <5>1. PICK e \in Types : queue' = Append(queue, e)
            <6>1. told[p] + 1 \in 1 .. Len(callbacks[t])
              BY <3>1 DEF EventInv, EventTypeOK
            <6>2. callbacks[t][told[p] + 1] \in Callbacks
              BY <6>1 DEF EventInv, EventTypeOK
            <6> QED BY <3>1, <4>2, <6>2 DEF CallBack, Types
          <5> QED BY <3>1, <5>1 DEF EventInv, EventTypeOK, CallBack
        <4> QED BY <4>1, <4>2
      <3>2. CASE NextListener(p)
        BY <3>2 DEF EventInv, EventTypeOK, NextListener
      <3> QED BY <1>2, <2>2, <3>1, <3>2 DEF CallListener
    <2>4. EventTypeOK'
      BY <1>2, <2>3 DEF EventInv, EventTypeOK, CallListener, appVars, lifeVars
    <2>5. OneNotifier'
      BY <1>2 DEF EventInv, OneNotifier, CallListener
    <2> QED BY <1>2, <2>4, <2>5, ListsKept DEF EventInv, CallListener
  <1>3. CASE UnlockListeners(p)
    <2>1. batch[p] # <<>> /\ batch[p] \in Seq(Types)
      BY <1>3 DEF EventInv, EventTypeOK, OneNotifier, UnlockListeners
    <2>2. Tail(batch[p]) \in Seq(Types)
      BY <2>1
    <2>3. EventTypeOK'
      BY <1>3, <2>2 DEF EventInv, EventTypeOK, UnlockListeners, appVars, lifeVars
    <2>4. OneNotifier'
      BY <1>3 DEF EventInv, EventTypeOK, OneNotifier, UnlockListeners
    <2> QED BY <1>3, <2>3, <2>4, ListsKept DEF EventInv, UnlockListeners
  <1> QED BY <1>1, <1>2, <1>3

-----------------------------------------------------------------------------
(* Registrations.                                                           *)

\* The handler is listed once more, and one registrar more is halfway.
LEMMA RegisterForEventStep ==
    ASSUME EventInv, NEW r \in Registrars, NEW c \in Callbacks, NEW t \in AppTypes,
           RegisterForEvent(r, c, t)
    PROVE  EventInv'
  <1> USE ConstantsAssumption
  <1>1. t \in Types /\ <<c, t>> # None /\ listeners[t] \in Seq({"app", "tasks"})
    BY DEF Types, EventInv, EventTypeOK
  <1>2. EventTypeOK'
    <2>1. listeners' \in [Types -> Seq({"app", "tasks"})]
      BY <1>1 DEF EventInv, EventTypeOK, RegisterForEvent
    <2>2. half' \in [Registrars -> (Callbacks \X AppTypes) \cup {None}]
      BY DEF EventInv, EventTypeOK, RegisterForEvent
    <2> QED BY <2>1, <2>2 DEF EventInv, EventTypeOK, RegisterForEvent, procVars, lifeVars
  <1>3. OneNotifier'
    BY DEF EventInv, OneNotifier, RegisterForEvent, procVars
  <1>4. ASSUME NEW l, NEW u \in Types
        PROVE  Cardinality(Occurrences(listeners'[u], l))
                 = Cardinality(Occurrences(listeners[u], l)) + (IF u = t /\ l = "app" THEN 1 ELSE 0)
    <2>1. CASE u = t
      <3>1. listeners'[u] = Append(listeners[u], "app")
        BY <2>1 DEF EventInv, EventTypeOK, RegisterForEvent
      <3>2. "app" \in {"app", "tasks"}
        OBVIOUS
      <3> QED BY <1>1, <2>1, <3>1, <3>2, PlacesAppend
    <2>2. CASE u # t
      <3>1. listeners'[u] = listeners[u] /\ listeners[u] \in Seq({"app", "tasks"})
        BY <2>2 DEF EventInv, EventTypeOK, RegisterForEvent
      <3> QED BY <2>2, <3>1, PlacesFinite
    <2> QED BY <2>1, <2>2
  <1>5. TasksListed'
    <2>1. ASSUME NEW u \in TaskTypes
          PROVE  CountOf("tasks", u)' = CountOf("tasks", u)
      <3>1. u \in Types /\ listeners[u] \in Seq({"app", "tasks"})
        BY DEF Types, EventInv, EventTypeOK
      <3>2. /\ Cardinality(Occurrences(listeners'[u], "tasks"))
                 = Cardinality(Occurrences(listeners[u], "tasks")) + 0
            /\ Cardinality(Occurrences(listeners[u], "tasks")) \in Nat
        BY <1>4, <3>1, PlacesFinite
      <3> QED BY <3>2, CountIsPlaces, CountIsPlacesNext
    <2> QED BY <2>1 DEF EventInv, TasksListed, RegisterForEvent, lifeVars
  <1>6. RegisteredListens'
    <2>1. ASSUME NEW u \in AppTypes
          PROVE  Cardinality(Halfway(half', u))
                   = Cardinality(Halfway(half, u)) + (IF u = t THEN 1 ELSE 0)
      <3>1. half[r] = None /\ half' = [half EXCEPT ![r] = <<c, t>>]
        BY DEF RegisterForEvent
      <3>2. CASE u = t
        <4>1. Halfway(half', u) = Halfway(half, u) \cup {r} /\ r \notin Halfway(half, u)
          BY <1>1, <3>1, <3>2 DEF Halfway, EventInv, EventTypeOK
        <4> QED BY <3>2, <4>1, HalfwayFinite, FS_AddElement
      <3>3. CASE u # t
        <4>1. Halfway(half', u) = Halfway(half, u)
          BY <1>1, <3>1, <3>3 DEF Halfway, EventInv, EventTypeOK
        <4> QED BY <3>3, <4>1, HalfwayFinite
      <3> QED BY <3>2, <3>3
    <2>2. SUFFICES ASSUME ~cleared', NEW u \in AppTypes
                   PROVE  Cardinality(Occurrences(listeners'[u], "app"))
                            = Len(callbacks'[u]) + Cardinality(Halfway(half', u))
      BY ListensAsNext
    <2>3. /\ Cardinality(Occurrences(listeners[u], "app"))
               = Len(callbacks[u]) + Cardinality(Halfway(half, u))
          /\ callbacks' = callbacks
      BY <2>2, ListensAs DEF EventInv, RegisterForEvent, lifeVars
    <2>4. /\ u \in Types /\ Len(callbacks[u]) \in Nat
          /\ listeners[u] \in Seq({"app", "tasks"})
      BY DEF Types, EventInv, EventTypeOK
    <2>5. Cardinality(Occurrences(listeners[u], "app")) \in Nat /\ Cardinality(Halfway(half, u)) \in Nat
      BY <2>4, PlacesFinite, HalfwayFinite
    <2>6. Cardinality(Occurrences(listeners'[u], "app"))
            = Cardinality(Occurrences(listeners[u], "app")) + (IF u = t THEN 1 ELSE 0)
      BY <1>4, <2>4
    <2> QED BY <2>1, <2>3, <2>4, <2>5, <2>6
  <1>7. Clearing'
    BY DEF EventInv, Clearing, RegisterForEvent, lifeVars
  <1> QED BY <1>2, <1>3, <1>5, <1>6, <1>7 DEF EventInv

\* The callback is listed, and the registrar is through.
LEMMA RegisterCallbackStep ==
    ASSUME EventInv, NEW r \in Registrars, RegisterCallback(r)
    PROVE  EventInv'
  <1> USE ConstantsAssumption
  <1>1. half[r] # None /\ half[r] \in Callbacks \X AppTypes
    BY DEF EventInv, EventTypeOK, RegisterCallback
  <1>2. PICK c \in Callbacks, t \in AppTypes : half[r] = <<c, t>>
    BY <1>1
  <1>3. /\ callbacks' = [callbacks EXCEPT ![t] = Append(@, c)]
        /\ half' = [half EXCEPT ![r] = None] /\ t \in Types
    BY <1>2 DEF RegisterCallback, Types
  <1>4. EventTypeOK'
    <2>1. callbacks' \in [Types -> Seq(Callbacks)]
      BY <1>3 DEF EventInv, EventTypeOK
    <2>2. half' \in [Registrars -> (Callbacks \X AppTypes) \cup {None}]
      BY <1>3 DEF EventInv, EventTypeOK
    <2> QED BY <2>1, <2>2 DEF EventInv, EventTypeOK, RegisterCallback, procVars, lifeVars
  <1>5. OneNotifier'
    BY DEF EventInv, OneNotifier, RegisterCallback, procVars
  <1>6. TasksListed' /\ Clearing'
    BY DEF EventInv, TasksListed, CountOf, Clearing, RegisterCallback, lifeVars
  <1>7. RegisteredListens'
    <2>1. SUFFICES ASSUME ~cleared', NEW u \in AppTypes
                   PROVE  Cardinality(Occurrences(listeners'[u], "app"))
                            = Len(callbacks'[u]) + Cardinality(Halfway(half', u))
      BY ListensAsNext
    <2>2. /\ Cardinality(Occurrences(listeners[u], "app"))
               = Len(callbacks[u]) + Cardinality(Halfway(half, u))
          /\ listeners' = listeners
      BY <2>1, ListensAs DEF EventInv, RegisterCallback, lifeVars
    <2>3. u \in Types /\ callbacks[u] \in Seq(Callbacks) /\ Len(callbacks[u]) \in Nat
      BY DEF Types, EventInv, EventTypeOK
    <2>4. IsFiniteSet(Halfway(half, u)) /\ Cardinality(Halfway(half, u)) \in Nat
      BY HalfwayFinite
    <2>5. CASE u = t
      <3>1. r \in Halfway(half, u)
        BY <1>1, <1>2, <2>5 DEF Halfway
      <3>2. Halfway(half', u) = Halfway(half, u) \ {r}
        <4>1. half'[r] = None /\ \A q \in Registrars \ {r} : half'[q] = half[q]
          BY <1>3 DEF EventInv, EventTypeOK
        <4> QED BY <4>1 DEF Halfway
      <3>4. Cardinality(Halfway(half', u)) = Cardinality(Halfway(half, u)) - 1
        <4> DEFINE H == Halfway(half, u)
        <4>1. Cardinality(H \ {r}) = Cardinality(H) - 1
          BY <2>4, <3>1, FS_RemoveElement
        <4> QED BY <3>2, <4>1
      <3>3. Len(callbacks'[u]) = Len(callbacks[u]) + 1
        BY <1>3, <2>3, <2>5 DEF EventInv, EventTypeOK
      <3> QED BY <2>2, <2>3, <2>4, <3>3, <3>4
    <2>6. CASE u # t
      <3>1. Halfway(half', u) = Halfway(half, u)
        BY <1>2, <1>3, <2>6 DEF Halfway, EventInv, EventTypeOK
      <3>2. callbacks'[u] = callbacks[u]
        BY <1>3, <2>3, <2>6 DEF EventInv, EventTypeOK
      <3> QED BY <2>2, <3>1, <3>2
    <2> QED BY <2>5, <2>6
  <1> QED BY <1>4, <1>5, <1>6, <1>7 DEF EventInv

-----------------------------------------------------------------------------
(* The service.                                                             *)

\* A TaskManager lists itself for its types.
LEMMA StartManagerStep ==
    ASSUME EventInv, StartManager
    PROVE  EventInv'
  <1> USE ConstantsAssumption
  <1>1. EventTypeOK'
    <2>1. listeners' \in [Types -> Seq({"app", "tasks"})]
      BY DEF EventInv, EventTypeOK, StartManager
    <2> QED BY <2>1 DEF EventInv, EventTypeOK, StartManager, procVars, appVars
  <1>2. OneNotifier'
    BY DEF EventInv, OneNotifier, StartManager, procVars
  <1>3. ASSUME NEW l, NEW t \in Types
        PROVE  Cardinality(Occurrences(listeners'[t], l))
                 = Cardinality(Occurrences(listeners[t], l))
                   + (IF t \in TaskTypes /\ l = "tasks" THEN 1 ELSE 0)
    <2>1. listeners[t] \in Seq({"app", "tasks"}) /\ "tasks" \in {"app", "tasks"}
      BY DEF EventInv, EventTypeOK
    <2>2. CASE t \in TaskTypes
      <3>1. listeners'[t] = Append(listeners[t], "tasks")
        BY <2>2 DEF StartManager
      <3> QED BY <2>1, <2>2, <3>1, PlacesAppend
    <2>3. CASE t \notin TaskTypes
      <3>1. listeners'[t] = listeners[t]
        BY <2>3 DEF StartManager
      <3> QED BY <2>1, <2>3, <3>1, PlacesFinite
    <2> QED BY <2>2, <2>3
  <1>4. TasksListed'
    <2>1. SUFFICES ASSUME NEW t \in TaskTypes
                   PROVE  CountOf("tasks", t)' = early' + 1
      BY DEF TasksListed, StartManager
    <2>2. CountOf("tasks", t) = early + 0 /\ early' = early /\ early \in Nat
      BY DEF EventInv, EventTypeOK, TasksListed, StartManager
    <2> QED BY <1>3, <2>2, CountIsPlaces, CountIsPlacesNext DEF Types
  <1>5. RegisteredListens'
    <2>1. SUFFICES ASSUME ~cleared', NEW u \in AppTypes
                   PROVE  Cardinality(Occurrences(listeners'[u], "app"))
                            = Len(callbacks'[u]) + Cardinality(Halfway(half', u))
      BY ListensAsNext
    <2>2. /\ Cardinality(Occurrences(listeners[u], "app"))
               = Len(callbacks[u]) + Cardinality(Halfway(half, u))
          /\ callbacks' = callbacks /\ half' = half
      BY <2>1, ListensAs DEF EventInv, StartManager, appVars
    <2>3. u \in Types /\ listeners[u] \in Seq({"app", "tasks"})
      BY DEF Types, EventInv, EventTypeOK
    <2>4. Cardinality(Occurrences(listeners[u], "app")) \in Nat
      BY <2>3, PlacesFinite
    <2>5. Cardinality(Occurrences(listeners'[u], "app")) = Cardinality(Occurrences(listeners[u], "app")) + 0
      BY <1>3, <2>3
    <2> QED BY <2>2, <2>4, <2>5
  <1>6. Clearing'
    BY DEF EventInv, Clearing, StartManager
  <1> QED BY <1>1, <1>2, <1>4, <1>5, <1>6 DEF EventInv

\* The end of a ServiceTask empties the lists, in three steps.
LEMMA ShutdownStep ==
    ASSUME EventInv, Shutdown
    PROVE  EventInv'
  <1>1. CASE ClearQueue
    <2>1. EventTypeOK'
      BY <1>1 DEF EventInv, EventTypeOK, ClearQueue, procVars, appVars
    <2>2. TasksListed' /\ RegisteredListens' /\ Clearing'
      BY <1>1 DEF EventInv, TasksListed, RegisteredListens, CountOf, Clearing, ClearQueue, appVars
    <2> QED BY <1>1, <2>1, <2>2 DEF EventInv, OneNotifier, ClearQueue, procVars
  <1>2. CASE ClearListeners \/ DeleteInstance
    <2>1. EventTypeOK'
      <3>1. listeners' \in [Types -> Seq({"app", "tasks"})] /\ queue' \in Seq(Types)
        <4>1. listeners' = [t \in Types |-> <<>>] /\ (queue' = queue \/ queue' = <<>>)
          BY <1>2 DEF ClearListeners, DeleteInstance
        <4>2. <<>> \in Seq(Types) /\ <<>> \in Seq({"app", "tasks"})
          OBVIOUS
        <4>3. queue \in Seq(Types)
          BY DEF EventInv, EventTypeOK
        <4> QED BY <4>1, <4>2, <4>3
      <3>2. /\ service' \in {"none", "running", "clearQueue", "delete"}
            /\ early' \in Nat
        BY <1>2 DEF EventInv, EventTypeOK, ClearListeners, DeleteInstance
      <3>3. manager' \in BOOLEAN /\ cleared' \in BOOLEAN
        BY <1>2 DEF EventInv, EventTypeOK, ClearListeners, DeleteInstance
      <3>4. UNCHANGED <<holder, pc, left, batch, index, told, callbacks, half>>
        BY <1>2 DEF ClearListeners, DeleteInstance, procVars, appVars
      <3> QED BY <3>1, <3>2, <3>3, <3>4 DEF EventInv, EventTypeOK
    <2>2. OneNotifier'
      BY <1>2 DEF EventInv, OneNotifier, ClearListeners, DeleteInstance, procVars
    <2>3. cleared' /\ early' = 0
      BY <1>2 DEF EventInv, Clearing, ClearListeners, DeleteInstance
    <2>4. TasksListed'
      <3>1. ASSUME NEW t \in TaskTypes PROVE CountOf("tasks", t)' = 0
        <4>1. listeners'[t] = <<>>
          BY <1>2 DEF ClearListeners, DeleteInstance, Types
        <4> QED BY <4>1, CountIsPlacesNext, PlacesEmpty
      <3>2. service' = "clearQueue" \/ ~manager'
        BY <1>2 DEF ClearListeners, DeleteInstance
      <3> QED BY <2>3, <3>1, <3>2 DEF TasksListed
    <2>5. RegisteredListens' /\ Clearing'
      BY <2>3 DEF RegisteredListens, Clearing
    <2> QED BY <2>1, <2>2, <2>4, <2>5 DEF EventInv
  <1> QED BY <1>1, <1>2 DEF Shutdown

\* A ServiceTask begins, or the service is stopped before one has.
LEMMA ServiceStep ==
    ASSUME EventInv, StartService \/ StopEarly
    PROVE  EventInv'
  <1>1. EventTypeOK'
    <2>1. service' \in {"none", "running", "clearQueue", "delete"} /\ early' \in Nat
      BY DEF EventInv, EventTypeOK, StartService, StopEarly
    <2>2. manager' \in BOOLEAN /\ cleared' \in BOOLEAN
      BY DEF EventInv, EventTypeOK, StartService, StopEarly
    <2>3. UNCHANGED <<queue, listeners, holder, pc, left, batch, index, told, callbacks, half>>
      BY DEF StartService, StopEarly, procVars, appVars
    <2> QED BY <2>1, <2>2, <2>3 DEF EventInv, EventTypeOK
  <1>2. OneNotifier'
    BY DEF EventInv, OneNotifier, StartService, StopEarly, procVars
  <1>3. RegisteredListens' /\ Clearing'
    BY DEF EventInv, RegisteredListens, CountOf, Clearing, StartService, StopEarly, appVars
  <1>4. TasksListed'
    <2>1. ASSUME NEW t PROVE CountOf("tasks", t)' = CountOf("tasks", t)
      BY DEF CountOf, StartService, StopEarly
    <2> QED BY <2>1 DEF EventInv, EventTypeOK, TasksListed, StartService, StopEarly
  <1> QED BY <1>1, <1>2, <1>3, <1>4 DEF EventInv

-----------------------------------------------------------------------------
(* The theorems.                                                            *)

\* The invariant is inductive.
LEMMA StepEventInv == EventInv /\ [EventNext]_eventVars => EventInv'
  <1> SUFFICES ASSUME EventInv, [EventNext]_eventVars PROVE EventInv'
    OBVIOUS
  <1>1. CASE UNCHANGED eventVars
    <2>1. EventTypeOK' /\ OneNotifier'
      BY <1>1 DEF EventInv, EventTypeOK, OneNotifier, eventVars, procVars, appVars, lifeVars
    <2> QED BY <1>1, <2>1, ListsKept DEF EventInv, eventVars
  <1>2. ASSUME NEW p \in Processors, Process(p) PROVE EventInv'
    BY <1>2, StrideStep, NotifyStep DEF Process
  <1>3. ASSUME NEW r \in Registrars, Register(r) PROVE EventInv'
    BY <1>3, RegisterForEventStep, RegisterCallbackStep DEF Register
  <1> QED BY <1>1, <1>2, <1>3, RaiseEventStep, StartManagerStep, ServiceStep, ShutdownStep
          DEF EventNext

\* The invariant holds throughout.
LEMMA EventInvariance == EventSpec => []EventInv
  BY InitEventInv, StepEventInv, PTL DEF EventSpec

\* Every variable keeps its kind of value: the queue and the batches hold
\* events of known types, whatever callbacks raise while they are called.
THEOREM EventsTyped == EventSpec => []EventTypeOK
  <1>1. EventInv => EventTypeOK
    BY DEF EventInv
  <1> QED BY EventInvariance, <1>1, PTL

\* One thread at a time tells the listeners, and it has an event to tell.
THEOREM NotifiesAlone == EventSpec => []OneNotifier
  <1>1. EventInv => OneNotifier
    BY DEF EventInv
  <1> QED BY EventInvariance, <1>1, PTL

\* The TaskManager is listed once, and once more for every TaskManager deleted
\* before a ServiceTask ran.
THEOREM TasksListedOnce == EventSpec => []TasksListed
  <1>1. EventInv => TasksListed
    BY DEF EventInv
  <1> QED BY EventInvariance, <1>1, PTL

\* Until a shutdown, every callback that was registered listens.
THEOREM ListensOnceRegistered == EventSpec => []RegisteredListens
  <1>1. EventInv => RegisteredListens
    BY DEF EventInv
  <1> QED BY EventInvariance, <1>1, PTL

-----------------------------------------------------------------------------
(* The order of the events.                                                 *)

\* A processor has no stride out of the queue before it copies one.
Emptied == \A p \in Processors : pc[p] \in {"idle", "round"} => batch[p] = <<>>

\* It does not begin another before it is through with the last.
LEMMA StepEmptied == EventInv /\ Emptied /\ [EventNext]_eventVars => Emptied'
  <1> SUFFICES ASSUME EventInv, Emptied, [EventNext]_eventVars PROVE Emptied'
    OBVIOUS
  <1>1. ASSUME NEW p \in Processors, Process(p) PROVE Emptied'
    <2>1. CASE CountEvents(p) \/ EndOfStride(p)
      BY <2>1 DEF EventInv, EventTypeOK, Emptied, CountEvents, EndOfStride
    <2>2. CASE CopyStride(p)
      BY <2>2 DEF EventInv, EventTypeOK, Emptied, CopyStride
    <2>3. CASE LockListeners(p) \/ CallListener(p)
      BY <2>3 DEF EventInv, EventTypeOK, Emptied, LockListeners, CallListener
    <2>4. CASE UnlockListeners(p)
      BY <2>4 DEF EventInv, EventTypeOK, Emptied, UnlockListeners
    <2> QED BY <1>1, <2>1, <2>2, <2>3, <2>4 DEF Process
  <1>2. CASE UNCHANGED <<pc, batch>>
    BY <1>2 DEF Emptied
  <1>3. (\E p \in Processors : Process(p)) \/ UNCHANGED <<pc, batch>>
    BY DEF EventNext, RaiseEvent, Register, RegisterForEvent, RegisterCallback, StartManager,
           StartService, StopEarly, Shutdown, ClearListeners, ClearQueue, DeleteInstance,
           eventVars, procVars
  <1> QED BY <1>1, <1>2, <1>3

\* What is appended to the queue is pending last.
LEMMA PendingAppend ==
    ASSUME NEW s \in Seq(Types), NEW t \in Seq(Types), NEW x \in Types
    PROVE  s \o Append(t, x) = Append(s \o t, x)
  OBVIOUS

\* A stride and the rest of the queue are the queue.
LEMMA StrideAndRest ==
    ASSUME NEW S, NEW s \in Seq(S), NEW n \in 0 .. Len(s)
    PROVE  SubSeq(s, 1, n) \o SubSeq(s, n + 1, Len(s)) = s
  <1>1. /\ 1 \in 1 .. Len(s) + 1 /\ n \in (1 - 1) .. Len(s)
        /\ Len(s) \in n .. Len(s)
    OBVIOUS
  <1> QED BY <1>1, ConcatAdjacentSubSeq, SubSeqFull

\* What is told next is the first that is pending.
LEMMA FirstPending ==
    ASSUME NEW s \in Seq(Types), NEW t \in Seq(Types), s # <<>>
    PROVE  /\ s \o t # <<>> /\ Head(s \o t) = Head(s)
           /\ Tail(s \o t) = Tail(s) \o t
  <1>1. /\ s \o t \in Seq(Types) /\ Len(s \o t) = Len(s) + Len(t)
        /\ Len(s) \in Nat \ {0} /\ Len(t) \in Nat
    OBVIOUS
  <1>2. s \o t # <<>> /\ Head(s \o t) = Head(s)
    BY <1>1
  <1>3. /\ Tail(s) \in Seq(Types) /\ Len(Tail(s)) = Len(s) - 1
        /\ \A i \in 1 .. Len(s) - 1 : Tail(s)[i] = s[i + 1]
    BY HeadTailProperties
  <1>4. /\ Tail(s \o t) \in Seq(Types) /\ Len(Tail(s \o t)) = Len(s) + Len(t) - 1
        /\ \A i \in 1 .. Len(s) + Len(t) - 1 : Tail(s \o t)[i] = (s \o t)[i + 1]
    BY <1>1, <1>2, HeadTailProperties
  <1>5. Tail(s) \o t \in Seq(Types) /\ Len(Tail(s) \o t) = Len(s) + Len(t) - 1
    BY <1>1, <1>3
  <1>6. ASSUME NEW i \in 1 .. Len(s) + Len(t) - 1
        PROVE  Tail(s \o t)[i] = (Tail(s) \o t)[i]
    <2>1. CASE i <= Len(s) - 1
      BY <1>1, <1>3, <1>4, <2>1
    <2>2. CASE i > Len(s) - 1
      <3>1. (s \o t)[i + 1] = t[i + 1 - Len(s)]
        BY <1>1, <2>2
      <3>2. (Tail(s) \o t)[i] = t[i - (Len(s) - 1)]
        BY <1>1, <1>3, <2>2
      <3>3. i + 1 - Len(s) = i - (Len(s) - 1)
        BY <1>1
      <3> QED BY <1>4, <3>1, <3>2, <3>3
    <2> QED BY <1>1, <2>1, <2>2
  <1>7. Tail(s \o t) = Tail(s) \o t
    BY <1>4, <1>5, <1>6, SeqEqual
  <1> QED BY <1>2, <1>7

\* Each step of the one thread that processes events is one of the channel's,
\* or leaves it alone.
LEMMA ProcessorStep ==
    ASSUME EventInv, Emptied, NEW p \in Processors, Process(p)
    PROVE  Channel(p)!Next \/ UNCHANGED <<Pending(p), Now(p)>>
  <1> USE ConstantsAssumption
  <1>1. queue \in Seq(Types) /\ batch[p] \in Seq(Types) /\ Len(queue) \in Nat
    BY DEF EventInv, EventTypeOK
  <1>2. CASE CountEvents(p)
    BY <1>2 DEF EventInv, EventTypeOK, CountEvents, Pending, Now
  <1>3. CASE CopyStride(p)
    <2> DEFINE n == IF Stride < Len(queue) THEN Stride ELSE Len(queue)
    <2>1. n \in 0 .. Len(queue)
      BY <1>1
    <2>2. /\ batch[p] = <<>> /\ batch'[p] = SubSeq(queue, 1, n)
          /\ queue' = SubSeq(queue, n + 1, Len(queue))
          /\ pc[p] = "round" /\ pc'[p] = "notify"
      BY <1>3 DEF EventInv, EventTypeOK, Emptied, CopyStride
    <2>3. Pending(p)' = queue /\ Pending(p) = queue
      <3>1. SubSeq(queue, 1, n) \o SubSeq(queue, n + 1, Len(queue)) = queue
        BY <1>1, <2>1, StrideAndRest
      <3>2. Pending(p)' = batch'[p] \o queue' /\ Pending(p) = batch[p] \o queue
        BY <2>2 DEF Pending
      <3> QED BY <1>1, <2>2, <3>1, <3>2, ConcatEmptySeq
    <2> QED BY <2>2, <2>3 DEF Now
  <1>4. CASE LockListeners(p)
    <2>1. /\ batch[p] # <<>> /\ UNCHANGED <<batch, queue>>
          /\ pc[p] # "call" /\ pc'[p] = "call"
      BY <1>4 DEF EventInv, EventTypeOK, LockListeners
    <2>2. /\ Now(p) = None /\ Now(p)' = Head(batch[p])
          /\ Pending(p) = batch[p] \o queue /\ Pending(p)' = Tail(batch[p]) \o queue
      BY <2>1 DEF Now, Pending
    <2>3. /\ Pending(p) # <<>> /\ Head(Pending(p)) = Head(batch[p])
          /\ Tail(Pending(p)) = Tail(batch[p]) \o queue
      BY <1>1, <2>1, <2>2, FirstPending
    <2>4. Channel(p)!Tell
      BY <2>2, <2>3 DEF Channel!Tell
    <2> QED BY <2>4 DEF Channel!Next
  <1>5. CASE CallListener(p)
    <2>1. /\ UNCHANGED <<batch, pc>> /\ pc[p] = "call" /\ batch[p] # <<>>
      BY <1>5 DEF EventInv, OneNotifier, CallListener
    <2>2. Now(p)' = Now(p)
      BY <2>1 DEF Now
    <2>3. CASE queue' = queue
      BY <2>1, <2>2, <2>3 DEF Pending
    <2>4. CASE queue' # queue
      <3>1. PICK t \in Types : t = Head(batch[p])
        BY <1>1, <2>1
      <3>2. CallBack(p, t) /\ told[p] < Len(callbacks[t])
        BY <1>5, <2>4, <3>1 DEF CallListener, NextListener
      <3>3. callbacks[t][told[p] + 1] \in Callbacks
        BY <3>2 DEF EventInv, EventTypeOK
      <3>4. PICK e \in Types : queue' = Append(queue, e)
        BY <2>4, <3>2, <3>3 DEF CallBack, Types
      <3>5. Pending(p)' = Append(Pending(p), e)
        <4>1. Tail(batch[p]) \in Seq(Types)
          BY <1>1, <2>1
        <4>2. Tail(batch[p]) \o Append(queue, e) = Append(Tail(batch[p]) \o queue, e)
          BY <1>1, <4>1, PendingAppend
        <4> QED BY <2>1, <3>4, <4>2 DEF Pending
      <3>6. Channel(p)!Raise
        BY <2>2, <3>5 DEF Channel!Raise
      <3> QED BY <3>6 DEF Channel!Next
    <2> QED BY <2>3, <2>4
  <1>6. CASE UnlockListeners(p)
    <2>1. /\ pc[p] = "call" /\ batch[p] # <<>> /\ pc'[p] = "notify"
          /\ batch'[p] = Tail(batch[p]) /\ queue' = queue
      BY <1>6 DEF EventInv, EventTypeOK, OneNotifier, UnlockListeners
    <2>2. Now(p) \in Types /\ Now(p)' = None
      BY <1>1, <2>1 DEF Now
    <2>3. UNCHANGED Pending(p)
      BY <2>1 DEF Pending
    <2>4. Channel(p)!Told
      BY <2>2, <2>3 DEF Channel!Told
    <2> QED BY <2>4 DEF Channel!Next
  <1>7. CASE EndOfStride(p)
    BY <1>7 DEF EventInv, EventTypeOK, EndOfStride, Pending, Now
  <1> QED BY <1>2, <1>3, <1>4, <1>5, <1>6, <1>7 DEF Process

\* An event that is raised is pending last.
LEMMA RaisedStep ==
    ASSUME EventInv, NEW p \in Processors, NEW t \in Types, RaiseEvent(t)
    PROVE  Channel(p)!Next
  <1>1. queue \in Seq(Types) /\ batch[p] \in Seq(Types)
    BY DEF EventInv, EventTypeOK
  <1>2. UNCHANGED <<batch, pc>> /\ queue' = Append(queue, t)
    BY DEF RaiseEvent, procVars
  <1>3. pc[p] = "call" => Tail(batch[p]) \in Seq(Types)
    BY <1>1 DEF EventInv, OneNotifier
  <1>4. Pending(p)' = Append(Pending(p), t)
    <2>1. batch[p] \o Append(queue, t) = Append(batch[p] \o queue, t)
      BY <1>1, PendingAppend
    <2>2. pc[p] = "call" =>
            Tail(batch[p]) \o Append(queue, t) = Append(Tail(batch[p]) \o queue, t)
      BY <1>1, <1>3, PendingAppend
    <2> QED BY <1>2, <2>1, <2>2 DEF Pending
  <1>5. Channel(p)!Raise
    BY <1>2, <1>4 DEF Channel!Raise, Now
  <1> QED BY <1>5 DEF Channel!Next

\* As long as one thread processes events, its listeners are told of every
\* event that was raised, in order: the event system implements EventChannel
\* between two shutdowns, for every stride and whatever the callbacks raise.
THEOREM TellsInOrder == EventSpec => KeepsOrder
  <1>1. EventInv /\ Emptied /\ [EventNext]_eventVars =>
          [ToldInOrder]_eventVars
    <2> SUFFICES ASSUME EventInv, Emptied, EventNext, NEW p \in Processors,
                        Active(p), Active(p)', service \notin {"clearQueue", "delete"}
                 PROVE  Channel(p)!Next \/ UNCHANGED <<Pending(p), Now(p)>>
      BY DEF ToldInOrder
    <2>1. ASSUME NEW q \in Processors, Process(q)
          PROVE  Channel(p)!Next \/ UNCHANGED <<Pending(p), Now(p)>>
      <3>1. CASE q = p
        BY <2>1, <3>1, ProcessorStep
      <3>2. CASE q # p
        <4>1. pc[q] = "idle" /\ pc'[q] = "idle"
          BY <3>2 DEF Active, Working
        <4> QED BY <2>1, <4>1 DEF EventInv, EventTypeOK, Process, CountEvents, CopyStride,
                  LockListeners, CallListener, UnlockListeners, EndOfStride
      <3> QED BY <3>1, <3>2
    <2>2. CASE UNCHANGED <<queue, batch, pc>>
      BY <2>2 DEF Pending, Now
    <2>3. \/ \E q \in Processors : Process(q)
          \/ \E t \in Types : RaiseEvent(t)
          \/ UNCHANGED <<queue, batch, pc>>
      BY DEF EventNext, Register, RegisterForEvent, RegisterCallback, StartManager,
             StartService, StopEarly, Shutdown, ClearListeners, ClearQueue, DeleteInstance,
             procVars
    <2> QED BY <2>1, <2>2, <2>3, RaisedStep
  <1>2. EventInit => Emptied
    BY DEF EventInit, Emptied
  <1> QED BY <1>1, <1>2, InitEventInv, StepEventInv, StepEmptied, PTL DEF EventSpec, KeepsOrder
================================================================================
