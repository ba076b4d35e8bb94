\* Two threads, two Context objects, clients of two kinds.
CONSTANTS
    th1 = th1  th2 = th2  o1 = o1  o2 = o2
    NULL = NULL
    Threads <- TwoThreads
    ContextObjects <- TwoContexts
    Clients <- SomeClients
    MaxInits = 3
SYMMETRY Symmetry
SPECIFICATION Spec
INVARIANTS
    TypeOK
    CountersAgree
    CheckedCallsHaveContext
    HoldersAccepted
    ContextPointersExact
    UsedContextsLive
    HeldContextExists
