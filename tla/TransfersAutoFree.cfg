\* Automatic frees, no rebinding.
CONSTANTS
    t1 = t1  app1 = app1  loop = loop  l1 = l1
    NULL = NULL
    Transfers <- OneTransfer
    AppThreads <- OneThread
    EventThread = loop
    Listeners <- OneListener
    FlagValues = {TRUE, FALSE}
    RebindInFreeCallback = FALSE
    MaxRefs = 6
SPECIFICATION Spec
INVARIANT
    FreedTransferIsCleanedUp
CHECK_DEADLOCK FALSE
