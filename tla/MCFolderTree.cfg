SPECIFICATION Spec
CONSTANTS
    Devices = {1, 2}
    MaxId = 4
    a = a
    b = b
    Names = {a, b}
    Old <- MCOld
    Fresh = {2}
    Followers = {2}
    Makers = {1, 2}
    Movers = {1}
    Removers = {1}
    NoName = NoName
    MaxDepth = 2
    MaxChanges = 3
    MaxFailures = 1
INVARIANTS TypeOK RowsAgree
PROPERTIES GivesUpEarly
CHECK_DEADLOCK FALSE
