SPECIFICATION SemSpec
CONSTANTS
    w1 = w1
    w2 = w2
    w3 = w3
    a = a
    b = b
    m1 = m1
    m2 = m2
    NoUse = NoUse
    NoMap = NoMap
    Users <- MCUsers
    Folders <- MCFolders
    Reads <- MCReads
    Writes <- MCWrites
    Throwing <- MCThrowing
    Maps <- MCMaps
INVARIANTS
    ReadersCounted
    SingleWriter
PROPERTIES
    WriterGetsIn
