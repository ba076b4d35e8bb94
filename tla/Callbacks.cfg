\* A Java thread and one of libusb's, nested three deep; each object is in one
\* call at a time.  Registrations are never used up for good: no deadlock.
CONSTANTS
    main = main  loop = loop
    o1 = o1  o2 = o2  r1 = r1  r2 = r2
    NULL = NULL
    JavaThreads <- OneJavaThread
    NativeThreads <- OneNativeThread
    HandleObjects <- TwoObjects
    Registrations <- TwoRegistrations
    ShareHandles = FALSE
    MaxDepth = 3
SYMMETRY Symmetry
SPECIFICATION Spec
INVARIANTS
    TypeOK
    AttachmentExact
    HandlesNameRegistrations
PROPERTY
    RegistrationsOwned
