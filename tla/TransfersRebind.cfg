\* A callback body that may rebind an auto-freed transfer.
CONSTANTS
    t1 = t1  app1 = app1  loop = loop  l1 = l1
    NULL = NULL
    Transfers <- OneTransfer
    AppThreads <- OneThread
    EventThread = loop
    Listeners <- OneListener
    FlagValues = {TRUE, FALSE}
    RebindInFreeCallback = TRUE
    MaxRefs = 6
SPECIFICATION Spec
INVARIANT
    SavedRefStillLive
CHECK_DEADLOCK FALSE
