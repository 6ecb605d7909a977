CONSTANTS
  svc = svc
  app = app
  err = err
  push = push
  c1 = c1
  None = None
  Processors = {svc, app}
  Service = svc
  Registrars = {r1}
  AppTypes = {err}
  TaskTypes = {push}
  Callbacks = {c1}
  Echo <- MCEcho
  Stride = 1
  MaxQueue = 2
  MaxRegistrations = 2
  MaxEarly = 1
SPECIFICATION EventSpec
INVARIANTS
  RegisteredListens
PROPERTIES
  KeepsOrder
  ProcessEnds
  EventsFlow
CHECK_DEADLOCK FALSE
