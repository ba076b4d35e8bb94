\* Balanced clients without a lock: how far the counter can go astray.  The bound
\* on inits can leave nothing to do: deadlock is not checked.
CONSTANTS
    th1 = th1  th2 = th2  o1 = o1  o2 = o2
    NULL = NULL
    Threads <- TwoThreads
    ContextObjects <- NoContexts
    Clients <- BalancedClient
    MaxInits = 2
SPECIFICATION Spec
PROPERTY
    ValidatedCounterPositive
CHECK_DEADLOCK FALSE
