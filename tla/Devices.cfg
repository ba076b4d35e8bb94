\* A device in a hub, two lists and a handle at a time, three Device objects.
CONSTANTS
    hub = hub  stick = stick  w1 = w1  w2 = w2  w3 = w3
    lo1 = lo1  lo2 = lo2  ho1 = ho1
    la = la  lb = lb  ha = ha  hb = hb
    NULL = NULL
    Devices <- TwoDevices
    Parent <- StickInHub
    DeviceObjects <- ThreeObjects
    ListObjects <- TwoListObjects
    HandleObjects <- OneHandleObject
    Lists <- TwoLists
    Handles <- TwoHandles
SYMMETRY Symmetry
SPECIFICATION Spec
INVARIANTS
    TypeOK
    RefcountExact
    TrustedObjectsLive
PROPERTIES
    ListsOwned
    HandlesOwned
