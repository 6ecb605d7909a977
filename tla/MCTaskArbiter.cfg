SPECIFICATION Spec
CONSTANTS
    service = service
    push = push
    generic = generic
    f1 = f1
    f2 = f2
    NoTask = NoTask
    Workers <- MCWorkers
    Pref <- MCPref
    Strict <- MCStrict
    Keys <- MCKeys
    Requests <- MCRequests
    MaxWaiting = 3
INVARIANTS
    NoStrandedFilter
PROPERTIES
    Coalesces
    BegunAtLast
