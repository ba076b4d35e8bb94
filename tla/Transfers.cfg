\* Two transfers, one application thread, the event thread, two listeners: safety,
\* the life cycle and progress in one state space; no symmetry.
CONSTANTS
    t1 = t1  t2 = t2  app1 = app1  loop = loop  l1 = l1  l2 = l2
    NULL = NULL
    Transfers <- TwoTransfers
    AppThreads <- OneThread
    EventThread = loop
    Listeners <- TwoListeners
    FlagValues = {TRUE, FALSE}
    RebindInFreeCallback = FALSE
    MaxRefs = 4
SPECIFICATION FairSpec
INVARIANTS
    TypeOK
    PointerNamesLive
    FieldRefsLive
    LiveRefsOwned
    Deliverable
    NoUseAfterFree
    SavedRefStillLive
PROPERTIES
    ImplementsLifecycle
    FreeTransferCompletes
    AutoFreeCompletes
CHECK_DEADLOCK FALSE
