\* One Java thread, and an object that a callback may use again while it is being
\* registered.
CONSTANTS
    main = main  loop = loop
    o1 = o1  o2 = o2  r1 = r1  r2 = r2
    NULL = NULL
    JavaThreads <- OneJavaThread
    NativeThreads <- NoThreads
    HandleObjects <- OneObject
    Registrations <- TwoRegistrations
    ShareHandles = TRUE
    MaxDepth = 3
SPECIFICATION Spec
PROPERTY
    HandleObjectsFresh
