----------------------------- MODULE DevicesProof -----------------------------
(***************************************************************************)
(* Proofs about Devices, for any number of devices and Java objects: every *)
(* variable keeps its type, every list and handle of libusb has exactly one*)
(* Java object, which implements Ownership, libusb's count of every device *)
(* is exactly the references somebody has, and a device is destroyed once. *)
(***************************************************************************)
EXTENDS Devices, FiniteSetTheorems, TLAPS

\* Every pointer stored names a live resource, and every live one is named, once.
Named(pointer, live) ==
    /\ \A o \in DOMAIN pointer : pointer[o] # NULL => pointer[o] \in live
    /\ \A p \in live : \E o \in DOMAIN pointer : pointer[o] = p
    /\ \A o1, o2 \in DOMAIN pointer : pointer[o1] = pointer[o2] /\ pointer[o1] # NULL => o1 = o2

\* Lists and handles have exactly one Java object each: none is lost by storing
\* another pointer over it, none is freed with its pointer left, none is shared.
OneObjectEach ==
    Named(deviceListPointer, liveLists) /\ Named(deviceHandlePointer, liveHandles)

-----------------------------------------------------------------------------
(***************************************************************************)
(* Operators of the model.                                                 *)
(***************************************************************************)
LEMMA CountsTyped ==
  ASSUME NEW S, refcnt \in [Devices -> Nat], Ref(S) \/ Unref(S)
  PROVE  refcnt' \in [Devices -> Nat]
BY DEF Ref, Unref

LEMMA LetGoTyped ==
  ASSUME NEW source, NEW kept, basis \in [DeviceObjects -> Bases], LetGo(source, kept)
  PROVE  basis' \in [DeviceObjects -> Bases]
BY DEF LetGo, Bases

LEMMA WrapTyped ==
  ASSUME NEW w \in DeviceObjects, NEW d \in Devices, NEW why \in Bases,
         devicePointer \in [DeviceObjects -> Devices \cup {NULL}],
         basis \in [DeviceObjects -> Bases],
         WrapDevice(w, d, why)
  PROVE  /\ devicePointer' \in [DeviceObjects -> Devices \cup {NULL}]
         /\ basis' \in [DeviceObjects -> Bases]
BY DEF WrapDevice

\* Storing a newly allocated address in a pointer field that was not set.
LEMMA NamedSet ==
  ASSUME NEW Objects, NEW Addresses, NULL \notin Addresses,
         NEW pointer \in [Objects -> Addresses \cup {NULL}], NEW live \in SUBSET Addresses,
         Named(pointer, live),
         NEW o \in Objects, pointer[o] = NULL, NEW a \in Addresses, a \notin live
  PROVE  Named([pointer EXCEPT ![o] = a], live \cup {a})
<1> DEFINE new == [pointer EXCEPT ![o] = a]
<1>1. DOMAIN new = Objects /\ new[o] = a /\ \A q \in Objects : q # o => new[q] = pointer[q]
  OBVIOUS
<1>2. \A q \in Objects : pointer[q] # a
  BY DEF Named
<1> HIDE DEF new
<1> QED
  BY <1>1, <1>2 DEF Named, new

\* Releasing an address and resetting the pointer field that named it.
LEMMA NamedReset ==
  ASSUME NEW Objects, NEW Addresses, NULL \notin Addresses,
         NEW pointer \in [Objects -> Addresses \cup {NULL}], NEW live \in SUBSET Addresses,
         Named(pointer, live),
         NEW o \in Objects, pointer[o] # NULL
  PROVE  Named([pointer EXCEPT ![o] = NULL], live \ {pointer[o]})
<1> DEFINE new == [pointer EXCEPT ![o] = NULL]
<1>1. DOMAIN new = Objects /\ new[o] = NULL /\ \A q \in Objects : q # o => new[q] = pointer[q]
  OBVIOUS
<1> HIDE DEF new
<1> QED
  BY <1>1 DEF Named, new

-----------------------------------------------------------------------------
(***************************************************************************)
(* The inductive invariant.                                                *)
(***************************************************************************)
HandlesHaveDevices == \A h \in liveHandles : opened[h] \in Devices

PointersInv == TypeOK /\ OneObjectEach /\ HandlesHaveDevices

LEMMA InitPointersInv == Init => PointersInv
<1> SUFFICES ASSUME Init PROVE PointersInv
  OBVIOUS
<1>1. TypeOK
  BY DEF Init, TypeOK, Bases, Presences
<1>2. Named(deviceListPointer, liveLists) /\ Named(deviceHandlePointer, liveHandles)
  BY DEF Init, Named
<1> QED
  BY <1>1, <1>2 DEF Init, PointersInv, OneObjectEach, HandlesHaveDevices

ObjectsTyped ==
    /\ devicePointer \in [DeviceObjects -> Devices \cup {NULL}]
    /\ basis \in [DeviceObjects -> Bases]

LEMMA HandleHasDevice ==
  ASSUME PointersInv, NEW ho \in HandleObjects, deviceHandlePointer[ho] # NULL
  PROVE  opened[deviceHandlePointer[ho]] \in Devices
<1>1. DOMAIN deviceHandlePointer = HandleObjects
  BY DEF PointersInv, TypeOK
<1>2. Named(deviceHandlePointer, liveHandles)
  BY DEF PointersInv, OneObjectEach
<1>3. deviceHandlePointer[ho] \in liveHandles
  BY <1>1, <1>2 DEF Named
<1> QED
  BY <1>3 DEF PointersInv, HandlesHaveDevices

\* Steps that touch neither lists nor handles.
LEMMA BusAndObjectSteps ==
  ASSUME PointersInv,
         \/ \E d \in Devices : Attach(d) \/ Detach(d) \/ Leave(d)
         \/ \E w \in DeviceObjects :
               \/ UnrefDevice(w) \/ Forget(w) \/ HotplugReturns(w)
               \/ \E d \in Devices : HotplugCallback(d, w)
               \/ \E new \in DeviceObjects : RefDevice(w, new) \/ GetParent(w, new)
         \/ \E lo \in ListObjects, d \in Devices, w \in DeviceObjects : Get(lo, d, w)
         \/ \E ho \in HandleObjects, w \in DeviceObjects : GetDevice(ho, w)
  PROVE  PointersInv'
<1> USE DevicesAssumption DEF PointersInv
<1>1. /\ UNCHANGED <<listVars, handleVars>>
      /\ refcnt' \in [Devices -> Nat]
      /\ presence' \in [Devices -> Presences]
  <2>1. CASE \E d \in Devices : Attach(d) \/ Detach(d) \/ Leave(d)
    BY <2>1, CountsTyped DEF TypeOK, Presences, Attach, Detach, Leave
  <2>2. CASE \E w \in DeviceObjects : UnrefDevice(w) \/ Forget(w) \/ HotplugReturns(w)
    BY <2>2, CountsTyped DEF TypeOK, UnrefDevice, Forget, HotplugReturns
  <2>6. CASE \E w \in DeviceObjects, d \in Devices : HotplugCallback(d, w)
    BY <2>6 DEF TypeOK, HotplugCallback
  <2>3. CASE \E w, new \in DeviceObjects : RefDevice(w, new) \/ GetParent(w, new)
    BY <2>3, CountsTyped DEF TypeOK, RefDevice, GetParent
  <2>4. CASE \E lo \in ListObjects, d \in Devices, w \in DeviceObjects : Get(lo, d, w)
    BY <2>4 DEF TypeOK, Get
  <2>5. CASE \E ho \in HandleObjects, w \in DeviceObjects : GetDevice(ho, w)
    BY <2>5 DEF TypeOK, GetDevice
  <2> QED
    BY <2>1, <2>2, <2>3, <2>4, <2>5, <2>6
<1>2. ObjectsTyped'
  <2>1. CASE \E d \in Devices : Attach(d) \/ Detach(d) \/ Leave(d)
    BY <2>1 DEF TypeOK, ObjectsTyped, Attach, Detach, Leave, objectVars
  <2>2. CASE \E w \in DeviceObjects : UnrefDevice(w) \/ Forget(w) \/ HotplugReturns(w)
    BY <2>2 DEF TypeOK, ObjectsTyped, UnrefDevice, Forget, HotplugReturns, Bases
  <2>7. ASSUME NEW d \in Devices, NEW w \in DeviceObjects, HotplugCallback(d, w)
        PROVE  ObjectsTyped'
    BY <2>7, WrapTyped DEF TypeOK, ObjectsTyped, HotplugCallback, Bases
  <2>3. ASSUME NEW w \in DeviceObjects, NEW new \in DeviceObjects, RefDevice(w, new)
        PROVE  ObjectsTyped'
    <3>1. devicePointer[w] \in Devices /\ "reference" \in Bases
      BY <2>3 DEF TypeOK, ObjectsTyped, RefDevice, MayUse, Bases
    <3> QED
      BY <2>3, <3>1, WrapTyped DEF TypeOK, ObjectsTyped, RefDevice
  <2>4. ASSUME NEW w \in DeviceObjects, NEW new \in DeviceObjects, GetParent(w, new)
        PROVE  ObjectsTyped'
    <3>1. Parent[devicePointer[w]] \in Devices /\ basis[w] \in Bases
      BY <2>4 DEF TypeOK, ObjectsTyped, GetParent, MayUse
    <3> QED
      BY <2>4, <3>1, WrapTyped DEF TypeOK, ObjectsTyped, GetParent
  <2>5. ASSUME NEW lo \in ListObjects, NEW d \in Devices, NEW w \in DeviceObjects, Get(lo, d, w)
        PROVE  ObjectsTyped'
    BY <2>5, WrapTyped DEF TypeOK, ObjectsTyped, Get, Bases
  <2>6. ASSUME NEW ho \in HandleObjects, NEW w \in DeviceObjects, GetDevice(ho, w)
        PROVE  ObjectsTyped'
    <3>1. deviceHandlePointer[ho] # NULL
      BY <2>6 DEF GetDevice
    <3>2. opened[deviceHandlePointer[ho]] \in Devices
      BY <3>1, HandleHasDevice
    <3> QED
      BY <2>6, <3>2, WrapTyped DEF TypeOK, ObjectsTyped, GetDevice, Bases
  <2> QED
    BY <2>1, <2>2, <2>3, <2>4, <2>5, <2>6, <2>7
<1> QED
  BY <1>1, <1>2 DEF TypeOK, ObjectsTyped, OneObjectEach, HandlesHaveDevices, listVars, handleVars

LEMMA GetListStep ==
  ASSUME PointersInv, NEW lo \in ListObjects, NEW l \in Lists, GetDeviceList(lo, l)
  PROVE  PointersInv'
<1> USE DevicesAssumption DEF PointersInv
<1>1. TypeOK'
  BY CountsTyped DEF TypeOK, GetDeviceList, handleVars, objectVars
<1>2. Named(deviceListPointer, liveLists)'
  BY NamedSet DEF TypeOK, OneObjectEach, GetDeviceList
<1> QED
  BY <1>1, <1>2 DEF OneObjectEach, HandlesHaveDevices, GetDeviceList, handleVars

LEMMA FreeListStep ==
  ASSUME PointersInv, NEW lo \in ListObjects, NEW unrefDevices \in BOOLEAN,
         NEW kept \in SUBSET DeviceObjects, FreeDeviceList(lo, unrefDevices, kept)
  PROVE  PointersInv'
<1> USE DevicesAssumption DEF PointersInv
<1>1. refcnt' \in [Devices -> Nat] /\ basis' \in [DeviceObjects -> Bases]
  BY CountsTyped, LetGoTyped DEF TypeOK, FreeDeviceList, LibusbFreeDeviceList
<1>2. TypeOK'
  BY <1>1 DEF TypeOK, FreeDeviceList, LibusbFreeDeviceList, handleVars
<1>3. Named(deviceListPointer, liveLists)'
  BY NamedReset DEF TypeOK, OneObjectEach, FreeDeviceList, LibusbFreeDeviceList
<1> QED
  BY <1>2, <1>3 DEF OneObjectEach, HandlesHaveDevices, FreeDeviceList, handleVars

\* What open and openDeviceWithVidPid have in common.
LEMMA OpenStep ==
  ASSUME PointersInv, NEW d \in Devices, NEW ho \in HandleObjects, NEW h \in Handles,
         deviceHandlePointer[ho] = NULL, LibusbOpen(d, h),
         deviceHandlePointer' = [deviceHandlePointer EXCEPT ![ho] = h],
         UNCHANGED <<presence, listVars, objectVars>>
  PROVE  PointersInv'
<1> USE DevicesAssumption DEF PointersInv
<1>1. refcnt' \in [Devices -> Nat]
  BY CountsTyped DEF TypeOK, LibusbOpen
<1>2. TypeOK'
  BY <1>1 DEF TypeOK, LibusbOpen, listVars, objectVars
<1>3. Named(deviceHandlePointer, liveHandles)'
  BY NamedSet DEF TypeOK, OneObjectEach, LibusbOpen
<1>4. HandlesHaveDevices'
  <2>1. opened'[h] = d /\ \A other \in Handles : other # h => opened'[other] = opened[other]
    BY DEF TypeOK, LibusbOpen
  <2>2. liveHandles' = liveHandles \cup {h} /\ liveHandles \subseteq Handles
    BY DEF TypeOK, LibusbOpen
  <2> QED
    BY <2>1, <2>2 DEF HandlesHaveDevices
<1> QED
  BY <1>2, <1>3, <1>4 DEF OneObjectEach, listVars

LEMMA CloseStep ==
  ASSUME PointersInv, NEW ho \in HandleObjects, Close(ho)
  PROVE  PointersInv'
<1> USE DevicesAssumption DEF PointersInv
<1>1. refcnt' \in [Devices -> Nat] /\ basis' \in [DeviceObjects -> Bases]
  BY CountsTyped, LetGoTyped DEF TypeOK, Close
<1>2. TypeOK'
  BY <1>1 DEF TypeOK, Close, listVars
<1>3. Named(deviceHandlePointer, liveHandles)'
  BY NamedReset DEF TypeOK, OneObjectEach, Close
<1> QED
  BY <1>2, <1>3 DEF OneObjectEach, HandlesHaveDevices, Close, listVars

LEMMA PointersInvStep == PointersInv /\ [Next]_vars => PointersInv'
<1> SUFFICES ASSUME PointersInv, [Next]_vars PROVE PointersInv'
  OBVIOUS
<1>1. ASSUME NEW w \in DeviceObjects, NEW ho \in HandleObjects, NEW h \in Handles, Open(w, ho, h)
      PROVE  PointersInv'
  <2>1. devicePointer[w] \in Devices
    BY <1>1 DEF PointersInv, TypeOK, Open, MayUse
  <2> QED
    BY <1>1, <2>1, OpenStep DEF Open
<1>2. ASSUME NEW d \in Devices, NEW ho \in HandleObjects, NEW h \in Handles,
             OpenDeviceWithVidPid(d, ho, h)
      PROVE  PointersInv'
  BY <1>2, OpenStep DEF OpenDeviceWithVidPid
<1>3. CASE UNCHANGED vars
  BY <1>3 DEF vars, PointersInv, TypeOK, OneObjectEach, HandlesHaveDevices
<1> QED
  BY <1>1, <1>2, <1>3, BusAndObjectSteps, GetListStep, FreeListStep, CloseStep
  DEF Next, DeviceSteps, ListSteps, HandleSteps

\* Every variable keeps its type, whatever is plugged, listed, opened and closed.
THEOREM DevicesTyped == Spec => []TypeOK
<1>1. PointersInv => TypeOK
  BY DEF PointersInv
<1> QED
  BY InitPointersInv, PointersInvStep, <1>1, PTL DEF Spec

\* No list and no handle is lost, freed with its pointer left, or shared.
THEOREM NothingLost == Spec => []OneObjectEach
<1>1. PointersInv => OneObjectEach
  BY DEF PointersInv
<1> QED
  BY InitPointersInv, PointersInvStep, <1>1, PTL DEF Spec

-----------------------------------------------------------------------------
(***************************************************************************)
(* Ownership of lists and handles.                                         *)
(***************************************************************************)
LEMMA ListsStep == PointersInv /\ [Next]_vars => DeviceList!Next \/ UNCHANGED <<deviceListPointer, liveLists>>
<1> SUFFICES ASSUME PointersInv, [Next]_vars
             PROVE  DeviceList!Next \/ UNCHANGED <<deviceListPointer, liveLists>>
  OBVIOUS
<1>1. ASSUME NEW lo \in ListObjects, NEW l \in Lists, GetDeviceList(lo, l)
      PROVE  DeviceList!Next
  BY <1>1 DEF GetDeviceList, DeviceList!Next, DeviceList!Acquire
<1>2. ASSUME NEW lo \in ListObjects, NEW unrefDevices \in BOOLEAN,
             NEW kept \in SUBSET DeviceObjects, FreeDeviceList(lo, unrefDevices, kept)
      PROVE  DeviceList!Next
  BY <1>2 DEF FreeDeviceList, LibusbFreeDeviceList, DeviceList!Next, DeviceList!Release
<1>3. ASSUME NEW d \in Devices, Attach(d) \/ Detach(d) \/ Leave(d)
      PROVE  UNCHANGED <<deviceListPointer, liveLists>>
  BY <1>3 DEF Attach, Detach, Leave, listVars
<1>4. ASSUME NEW w \in DeviceObjects, DeviceSteps(w)
      PROVE  UNCHANGED <<deviceListPointer, liveLists>>
  BY <1>4 DEF DeviceSteps, UnrefDevice, Forget, HotplugReturns, HotplugCallback, RefDevice,
              GetParent, Open, listVars
<1>5. ASSUME NEW ho \in HandleObjects, HandleSteps(ho)
      PROVE  UNCHANGED <<deviceListPointer, liveLists>>
  BY <1>5 DEF HandleSteps, OpenDeviceWithVidPid, GetDevice, Close, listVars
<1>6. ASSUME NEW lo \in ListObjects, NEW d \in Devices, NEW w \in DeviceObjects, Get(lo, d, w)
      PROVE  UNCHANGED <<deviceListPointer, liveLists>>
  BY <1>6 DEF Get, listVars
<1>7. CASE UNCHANGED vars
  BY <1>7 DEF vars
<1> QED
  BY <1>1, <1>2, <1>3, <1>4, <1>5, <1>6, <1>7 DEF Next, ListSteps

LEMMA HandlesStep ==
  PointersInv /\ [Next]_vars => DeviceHandle!Next \/ UNCHANGED <<deviceHandlePointer, liveHandles>>
<1> SUFFICES ASSUME PointersInv, [Next]_vars
             PROVE  DeviceHandle!Next \/ UNCHANGED <<deviceHandlePointer, liveHandles>>
  OBVIOUS
<1>1. ASSUME NEW w \in DeviceObjects, NEW ho \in HandleObjects, NEW h \in Handles, Open(w, ho, h)
      PROVE  DeviceHandle!Next
  BY <1>1 DEF Open, LibusbOpen, DeviceHandle!Next, DeviceHandle!Acquire
<1>2. ASSUME NEW d \in Devices, NEW ho \in HandleObjects, NEW h \in Handles,
             OpenDeviceWithVidPid(d, ho, h)
      PROVE  DeviceHandle!Next
  BY <1>2 DEF OpenDeviceWithVidPid, LibusbOpen, DeviceHandle!Next, DeviceHandle!Acquire
<1>3. ASSUME NEW ho \in HandleObjects, Close(ho)
      PROVE  DeviceHandle!Next
  BY <1>3 DEF Close, DeviceHandle!Next, DeviceHandle!Release
<1>4. ASSUME NEW d \in Devices, Attach(d) \/ Detach(d) \/ Leave(d)
      PROVE  UNCHANGED <<deviceHandlePointer, liveHandles>>
  BY <1>4 DEF Attach, Detach, Leave, handleVars
<1>5. ASSUME NEW w \in DeviceObjects,
             \/ UnrefDevice(w) \/ Forget(w) \/ HotplugReturns(w)
             \/ \E d \in Devices : HotplugCallback(d, w)
             \/ \E new \in DeviceObjects : RefDevice(w, new) \/ GetParent(w, new)
      PROVE  UNCHANGED <<deviceHandlePointer, liveHandles>>
  BY <1>5 DEF UnrefDevice, Forget, HotplugReturns, HotplugCallback, RefDevice, GetParent, handleVars
<1>6. ASSUME NEW lo \in ListObjects, ListSteps(lo)
      PROVE  UNCHANGED <<deviceHandlePointer, liveHandles>>
  BY <1>6 DEF ListSteps, GetDeviceList, Get, FreeDeviceList, handleVars
<1>7. ASSUME NEW ho \in HandleObjects, NEW w \in DeviceObjects, GetDevice(ho, w)
      PROVE  UNCHANGED <<deviceHandlePointer, liveHandles>>
  BY <1>7 DEF GetDevice, handleVars
<1>8. CASE UNCHANGED vars
  BY <1>8 DEF vars
<1> QED
  BY <1>1, <1>2, <1>3, <1>4, <1>5, <1>6, <1>7, <1>8 DEF Next, DeviceSteps, HandleSteps

\* Device lists implement Ownership: getDeviceList acquires, freeDeviceList
\* releases, and no other call touches an object's list.
THEOREM ListsImplementOwnership == Spec => ListsOwned
<1>1. Init => DeviceList!Init
  BY DEF Init, DeviceList!Init
<1> QED
  BY <1>1, InitPointersInv, PointersInvStep, ListsStep, PTL DEF Spec, ListsOwned, DeviceList!Spec

\* Device handles do: open and openDeviceWithVidPid acquire, close releases.
THEOREM HandlesImplementOwnership == Spec => HandlesOwned
<1>1. Init => DeviceHandle!Init
  BY DEF Init, DeviceHandle!Init
<1> QED
  BY <1>1, InitPointersInv, PointersInvStep, HandlesStep, PTL
  DEF Spec, HandlesOwned, DeviceHandle!Spec

-----------------------------------------------------------------------------
(***************************************************************************)
(* Reference counts.                                                       *)
(***************************************************************************)
LEMMA CardinalityGrows ==
  ASSUME NEW S, IsFiniteSet(S), NEW x, x \notin S
  PROVE  Cardinality(S \cup {x}) = Cardinality(S) + 1
BY FS_AddElement

LEMMA CardinalityShrinks ==
  ASSUME NEW S, IsFiniteSet(S), NEW x \in S
  PROVE  Cardinality(S \ {x}) = Cardinality(S) - 1
BY FS_RemoveElement

LEMMA RefsFinite ==
  ASSUME NEW d
  PROVE  /\ IsFiniteSet(ListRefs(d)) /\ Cardinality(ListRefs(d)) \in Nat
         /\ IsFiniteSet(HandleRefs(d)) /\ Cardinality(HandleRefs(d)) \in Nat
         /\ IsFiniteSet(ObjectRefs(d)) /\ Cardinality(ObjectRefs(d)) \in Nat
<1>1. /\ ListRefs(d) \in SUBSET ListObjects
      /\ HandleRefs(d) \in SUBSET HandleObjects
      /\ ObjectRefs(d) \in SUBSET DeviceObjects
  BY DEF ListRefs, HandleRefs, ObjectRefs
<1> QED
  BY <1>1, DevicesAssumption, FS_Subset, FS_CardinalityType

LEMMA RefsCounted ==
  ASSUME NEW d
  PROVE  /\ ListRefs(d) # {} => Cardinality(ListRefs(d)) > 0
         /\ HandleRefs(d) # {} => Cardinality(HandleRefs(d)) > 0
         /\ ObjectRefs(d) # {} => Cardinality(ObjectRefs(d)) > 0
BY RefsFinite, FS_EmptySet

\* Why an object may be trusted is still the case.
BasesHold ==
    \A w \in DeviceObjects : MayUse(w) =>
        /\ basis[w] = "callback" => OnBus(devicePointer[w])
        /\ basis[w] \in ListObjects =>
              /\ deviceListPointer[basis[w]] # NULL
              /\ devicePointer[w] \in members[deviceListPointer[basis[w]]]
        /\ basis[w] \in HandleObjects =>
              /\ deviceHandlePointer[basis[w]] # NULL
              /\ opened[deviceHandlePointer[basis[w]]] = devicePointer[w]

CountInv == PointersInv /\ RefcountExact /\ BasesHold

LEMMA InitCountInv == Init => CountInv
<1> SUFFICES ASSUME Init PROVE CountInv
  OBVIOUS
<1>1. PointersInv
  BY InitPointersInv
<1>2. BasesHold
  BY DEF Init, BasesHold, MayUse
<1>3. ASSUME NEW d \in Devices
      PROVE  ~OnBus(d) /\ refcnt[d] = 0 /\ ListRefs(d) = {} /\ HandleRefs(d) = {} /\ ObjectRefs(d) = {}
  BY <1>3 DEF Init, OnBus, ListRefs, HandleRefs, ObjectRefs
<1>4. RefcountExact
  BY <1>3, FS_EmptySet DEF RefcountExact
<1> QED
  BY <1>1, <1>2, <1>4 DEF CountInv

\* Some holder is counted, so there is a reference to drop.
LEMMA HolderCounted ==
  ASSUME CountInv, NEW d \in Devices,
         OnBus(d) \/ ListRefs(d) # {} \/ HandleRefs(d) # {} \/ ObjectRefs(d) # {}
  PROVE  refcnt[d] > 0
<1>1. refcnt[d] = (IF OnBus(d) THEN 1 ELSE 0) + Cardinality(ListRefs(d))
                    + Cardinality(HandleRefs(d)) + Cardinality(ObjectRefs(d))
  BY DEF CountInv, RefcountExact
<1> DEFINE l == Cardinality(ListRefs(d))
           h == Cardinality(HandleRefs(d))
           o == Cardinality(ObjectRefs(d))
<1>2. l \in Nat /\ h \in Nat /\ o \in Nat
  BY RefsFinite
<1>3. OnBus(d) \/ l > 0 \/ h > 0 \/ o > 0
  BY RefsCounted
<1> HIDE DEF l, h, o
<1>4. refcnt[d] = (IF OnBus(d) THEN 1 ELSE 0) + l + h + o
  BY <1>1 DEF l, h, o
<1> QED
  BY <1>2, <1>3, <1>4

LEMMA TrustIsCounted ==
  ASSUME CountInv, NEW w \in DeviceObjects, MayUse(w)
  PROVE  devicePointer[w] \in Devices /\ refcnt[devicePointer[w]] > 0
<1> DEFINE d == devicePointer[w]
<1>1. d \in Devices /\ basis[w] \in Bases \ {"nothing"}
  BY DEF CountInv, PointersInv, TypeOK, MayUse
<1>2. CASE basis[w] = "reference"
  <2>1. w \in ObjectRefs(d)
    BY <1>2 DEF ObjectRefs
  <2> QED
    BY <1>1, <2>1, HolderCounted
<1>3. CASE basis[w] = "callback"
  BY <1>1, <1>3, HolderCounted DEF CountInv, BasesHold
<1>4. CASE basis[w] \in ListObjects
  <2>1. basis[w] \in ListRefs(d)
    BY <1>4 DEF CountInv, BasesHold, ListRefs
  <2> QED
    BY <1>1, <2>1, HolderCounted
<1>5. CASE basis[w] \in HandleObjects
  <2>1. basis[w] \in HandleRefs(d)
    BY <1>5 DEF CountInv, BasesHold, HandleRefs
  <2> QED
    BY <1>1, <2>1, HolderCounted
<1> QED
  BY <1>1, <1>2, <1>3, <1>4, <1>5 DEF Bases

\* A step moves each count and what is counted by the same amount.
LEMMA ExactKept ==
  ASSUME CountInv, NEW d \in Devices, NEW bus \in Int, NEW lists \in Int, NEW handles \in Int,
         NEW objects \in Int,
         (IF OnBus(d) THEN 1 ELSE 0)' = (IF OnBus(d) THEN 1 ELSE 0) + bus,
         Cardinality(ListRefs(d))' = Cardinality(ListRefs(d)) + lists,
         Cardinality(HandleRefs(d))' = Cardinality(HandleRefs(d)) + handles,
         Cardinality(ObjectRefs(d))' = Cardinality(ObjectRefs(d)) + objects,
         refcnt'[d] = refcnt[d] + (bus + lists + handles + objects)
  PROVE  refcnt'[d] = (IF OnBus(d) THEN 1 ELSE 0)' + Cardinality(ListRefs(d))'
                        + Cardinality(HandleRefs(d))' + Cardinality(ObjectRefs(d))'
<1> DEFINE b == IF OnBus(d) THEN 1 ELSE 0
           l == Cardinality(ListRefs(d))
           h == Cardinality(HandleRefs(d))
           o == Cardinality(ObjectRefs(d))
<1>1. b \in Int /\ l \in Int /\ h \in Int /\ o \in Int
  BY RefsFinite
<1>2. refcnt[d] = b + l + h + o
  BY DEF CountInv, RefcountExact
<1> HIDE DEF b, l, h, o
<1>3. refcnt'[d] = (b + bus) + (l + lists) + (h + handles) + (o + objects)
  BY <1>1, <1>2
<1> QED
  BY <1>3 DEF b, l, h, o

LEMMA RefAdds ==
  ASSUME NEW S, refcnt \in [Devices -> Nat], Ref(S), NEW d \in Devices
  PROVE  refcnt'[d] = refcnt[d] + (IF d \in S THEN 1 ELSE 0)
BY DEF Ref

LEMMA UnrefTakes ==
  ASSUME NEW S, refcnt \in [Devices -> Nat], Unref(S), NEW d \in Devices,
         d \in S => refcnt[d] > 0
  PROVE  refcnt'[d] = refcnt[d] + (IF d \in S THEN -1 ELSE 0)
BY DEF Unref

LEMMA SameRefs ==
  ASSUME NEW d
  PROVE  /\ UNCHANGED presence => OnBus(d)' = OnBus(d)
         /\ UNCHANGED listVars => Cardinality(ListRefs(d))' = Cardinality(ListRefs(d)) + 0
         /\ UNCHANGED handleVars => Cardinality(HandleRefs(d))' = Cardinality(HandleRefs(d)) + 0
         /\ UNCHANGED objectVars => Cardinality(ObjectRefs(d))' = Cardinality(ObjectRefs(d)) + 0
<1>1. /\ UNCHANGED listVars => ListRefs(d)' = ListRefs(d)
      /\ UNCHANGED handleVars => HandleRefs(d)' = HandleRefs(d)
      /\ UNCHANGED objectVars => ObjectRefs(d)' = ObjectRefs(d)
  BY DEF ListRefs, HandleRefs, ObjectRefs, listVars, handleVars, objectVars
<1>2. /\ UNCHANGED listVars => Cardinality(ListRefs(d))' = Cardinality(ListRefs(d))
      /\ UNCHANGED handleVars => Cardinality(HandleRefs(d))' = Cardinality(HandleRefs(d))
      /\ UNCHANGED objectVars => Cardinality(ObjectRefs(d))' = Cardinality(ObjectRefs(d))
  BY <1>1
<1> QED
  BY <1>2, RefsFinite DEF OnBus

-----------------------------------------------------------------------------
\* The bus.
LEMMA BusCount ==
  ASSUME CountInv, NEW d \in Devices, Attach(d) \/ Detach(d) \/ Leave(d)
  PROVE  RefcountExact' /\ BasesHold'
<1> USE DEF CountInv, PointersInv
<1>1. refcnt \in [Devices -> Nat] /\ presence \in [Devices -> Presences]
  BY DEF TypeOK
<1>2. UNCHANGED <<listVars, handleVars, objectVars>>
  BY DEF Attach, Detach, Leave
<1>3. ASSUME NEW e \in Devices
      PROVE  refcnt'[e] = (IF OnBus(e) THEN 1 ELSE 0)' + Cardinality(ListRefs(e))'
                            + Cardinality(HandleRefs(e))' + Cardinality(ObjectRefs(e))'
  <2>1. /\ Cardinality(ListRefs(e))' = Cardinality(ListRefs(e)) + 0
        /\ Cardinality(HandleRefs(e))' = Cardinality(HandleRefs(e)) + 0
        /\ Cardinality(ObjectRefs(e))' = Cardinality(ObjectRefs(e)) + 0
    BY <1>2, SameRefs
  <2>2. CASE Attach(d)
    <3> DEFINE n == IF e = d THEN 1 ELSE 0
    <3>1. ~OnBus(d) /\ (OnBus(e)' <=> OnBus(e) \/ e = d)
      BY <1>1, <2>2 DEF Attach, OnBus
    <3>2. (IF OnBus(e) THEN 1 ELSE 0)' = (IF OnBus(e) THEN 1 ELSE 0) + n
      BY <3>1
    <3>3. refcnt'[e] = refcnt[e] + (IF e \in {d} THEN 1 ELSE 0)
      BY <1>1, <2>2, RefAdds DEF Attach
    <3>4. refcnt'[e] = refcnt[e] + (n + 0 + 0 + 0)
      BY <3>3
    <3> QED
      BY <2>1, <3>2, <3>4, ExactKept
  <2>3. CASE Detach(d)
    <3>1. (IF OnBus(e) THEN 1 ELSE 0)' = (IF OnBus(e) THEN 1 ELSE 0) + 0
      BY <1>1, <2>3 DEF Detach, OnBus
    <3>2. refcnt'[e] = refcnt[e] + (0 + 0 + 0 + 0)
      BY <1>1, <2>3 DEF Detach
    <3> QED
      BY <2>1, <3>1, <3>2, ExactKept
  <2>4. CASE Leave(d)
    <3> DEFINE n == IF e = d THEN -1 ELSE 0
    <3>1. (IF OnBus(e) THEN 1 ELSE 0)' = (IF OnBus(e) THEN 1 ELSE 0) + n
      BY <1>1, <2>4 DEF Leave, OnBus
    <3>2. refcnt[d] > 0
      BY <2>4, HolderCounted DEF Leave, OnBus
    <3>3. refcnt'[e] = refcnt[e] + (n + 0 + 0 + 0)
      BY <1>1, <2>4, <3>2, UnrefTakes DEF Leave
    <3> QED
      BY <2>1, <3>1, <3>3, ExactKept
  <2> QED
    BY <2>2, <2>3, <2>4
<1>4. ASSUME NEW w \in DeviceObjects, MayUse(w), basis[w] = "callback"
      PROVE  OnBus(devicePointer[w])'
  <2>1. OnBus(devicePointer[w])
    BY <1>4 DEF BasesHold
  <2>2. devicePointer' = devicePointer
    BY <1>2 DEF objectVars
  <2> QED
    <3> DEFINE e == devicePointer[w]
    <3>1. e \in Devices /\ presence[e] \in {"attached", "leaving"}
      BY <1>4, <2>1 DEF OnBus, TypeOK, MayUse
    <3>2. CASE Leave(d)
      <4>1. e # d
        BY <1>4, <3>2 DEF Leave
      <4> QED
        BY <1>1, <2>2, <3>1, <3>2, <4>1 DEF Leave, OnBus
    <3>3. CASE Attach(d) \/ Detach(d)
      BY <1>1, <2>2, <3>1, <3>3 DEF Attach, Detach, OnBus
    <3> QED
      BY <3>2, <3>3
<1>5. BasesHold'
  BY <1>2, <1>4 DEF BasesHold, MayUse, listVars, handleVars, objectVars
<1> QED
  BY <1>3, <1>5 DEF RefcountExact

\* Wrapping a device in an object whose place was free.
LEMMA WrapCount ==
  ASSUME CountInv, NEW d \in Devices, NEW w \in DeviceObjects, NEW why \in Bases,
         WrapDevice(w, d, why),
         UNCHANGED <<presence, listVars, handleVars>>,
         why = "callback" => OnBus(d),
         why \in ListObjects => /\ deviceListPointer[why] # NULL
                                /\ d \in members[deviceListPointer[why]],
         why \in HandleObjects => /\ deviceHandlePointer[why] # NULL
                                  /\ opened[deviceHandlePointer[why]] = d,
         IF why = "reference" THEN Ref({d}) ELSE UNCHANGED refcnt
  PROVE  RefcountExact' /\ BasesHold'
<1> USE DEF CountInv, PointersInv
<1>1. refcnt \in [Devices -> Nat] /\ ObjectsTyped
  BY DEF TypeOK, ObjectsTyped
<1>2. /\ basis[w] = "nothing"
      /\ devicePointer' = [devicePointer EXCEPT ![w] = d]
      /\ basis' = [basis EXCEPT ![w] = why]
  BY DEF WrapDevice, Unused
<1>3. ASSUME NEW e \in Devices
      PROVE  refcnt'[e] = (IF OnBus(e) THEN 1 ELSE 0)' + Cardinality(ListRefs(e))'
                            + Cardinality(HandleRefs(e))' + Cardinality(ObjectRefs(e))'
  <2> DEFINE n == IF why = "reference" /\ e = d THEN 1 ELSE 0
  <2>1. /\ (IF OnBus(e) THEN 1 ELSE 0)' = (IF OnBus(e) THEN 1 ELSE 0) + 0
        /\ Cardinality(ListRefs(e))' = Cardinality(ListRefs(e)) + 0
        /\ Cardinality(HandleRefs(e))' = Cardinality(HandleRefs(e)) + 0
    BY SameRefs
  <2>2. w \notin ObjectRefs(e)
    BY <1>2 DEF ObjectRefs
  <2>3. ObjectRefs(e)' = IF why = "reference" /\ e = d THEN ObjectRefs(e) \cup {w} ELSE ObjectRefs(e)
    BY <1>1, <1>2 DEF ObjectRefs, ObjectsTyped
  <2>4. Cardinality(ObjectRefs(e))' = Cardinality(ObjectRefs(e)) + n
    BY <2>2, <2>3, RefsFinite, CardinalityGrows
  <2>5. refcnt'[e] = refcnt[e] + (0 + 0 + 0 + n)
    BY <1>1, RefAdds
  <2> QED
    BY <2>1, <2>4, <2>5, ExactKept
<1>4. ASSUME NEW v \in DeviceObjects, MayUse(v)'
      PROVE  /\ basis'[v] = "callback" => OnBus(devicePointer'[v])
             /\ basis'[v] \in ListObjects =>
                   /\ deviceListPointer[basis'[v]] # NULL
                   /\ devicePointer'[v] \in members[deviceListPointer[basis'[v]]]
             /\ basis'[v] \in HandleObjects =>
                   /\ deviceHandlePointer[basis'[v]] # NULL
                   /\ opened[deviceHandlePointer[basis'[v]]] = devicePointer'[v]
  <2>1. CASE v = w
    BY <1>1, <1>2, <2>1 DEF ObjectsTyped
  <2>2. CASE v # w
    <3>1. basis'[v] = basis[v] /\ devicePointer'[v] = devicePointer[v]
      BY <1>1, <1>2, <2>2 DEF ObjectsTyped
    <3> QED
      BY <1>4, <3>1 DEF BasesHold, MayUse
  <2> QED
    BY <2>1, <2>2
<1>5. BasesHold'
  BY <1>4 DEF BasesHold, OnBus, listVars, handleVars
<1> QED
  BY <1>3, <1>5 DEF RefcountExact

LEMMA WrapSteps ==
  ASSUME CountInv,
         \/ \E w, new \in DeviceObjects : RefDevice(w, new) \/ GetParent(w, new)
         \/ \E d \in Devices, w \in DeviceObjects : HotplugCallback(d, w)
         \/ \E lo \in ListObjects, d \in Devices, w \in DeviceObjects : Get(lo, d, w)
         \/ \E ho \in HandleObjects, w \in DeviceObjects : GetDevice(ho, w)
  PROVE  RefcountExact' /\ BasesHold'
<1>0. /\ "reference" \notin ListObjects \cup HandleObjects
      /\ "callback" \notin ListObjects \cup HandleObjects
      /\ \A o \in ListObjects : o \notin HandleObjects /\ o # "reference" /\ o # "callback" /\ o \in Bases
      /\ \A o \in HandleObjects : o \notin ListObjects /\ o # "reference" /\ o # "callback" /\ o \in Bases
      /\ "reference" \in Bases /\ "callback" \in Bases
  BY DevicesAssumption DEF Bases
<1>1. ASSUME NEW w \in DeviceObjects, NEW new \in DeviceObjects, RefDevice(w, new)
      PROVE  RefcountExact' /\ BasesHold'
  <2>1. devicePointer[w] \in Devices
    BY <1>1, TrustIsCounted DEF RefDevice
  <2> QED
    BY <1>0, <1>1, <2>1, WrapCount DEF RefDevice
<1>2. ASSUME NEW w \in DeviceObjects, NEW new \in DeviceObjects, GetParent(w, new)
      PROVE  RefcountExact' /\ BasesHold'
  <2>1. Parent[devicePointer[w]] \in Devices
    BY <1>2, TrustIsCounted, DevicesAssumption DEF GetParent
  <2>2. basis[w] \in ListObjects /\ deviceListPointer[basis[w]] # NULL
    BY <1>2 DEF CountInv, BasesHold, GetParent
  <2> QED
    BY <1>0, <1>2, <2>1, <2>2, WrapCount DEF GetParent
<1>3. ASSUME NEW d \in Devices, NEW w \in DeviceObjects, HotplugCallback(d, w)
      PROVE  RefcountExact' /\ BasesHold'
  BY <1>0, <1>3, WrapCount DEF HotplugCallback
<1>4. ASSUME NEW lo \in ListObjects, NEW d \in Devices, NEW w \in DeviceObjects, Get(lo, d, w)
      PROVE  RefcountExact' /\ BasesHold'
  BY <1>0, <1>4, WrapCount DEF Get
<1>5. ASSUME NEW ho \in HandleObjects, NEW w \in DeviceObjects, GetDevice(ho, w)
      PROVE  RefcountExact' /\ BasesHold'
  <2>1. deviceHandlePointer[ho] # NULL
    BY <1>5 DEF GetDevice
  <2>2. opened[deviceHandlePointer[ho]] \in Devices
    BY <2>1, HandleHasDevice DEF CountInv
  <2> QED
    BY <1>0, <1>5, <2>1, <2>2, WrapCount DEF GetDevice
<1> QED
  BY <1>1, <1>2, <1>3, <1>4, <1>5

\* An object given up, or no longer to be trusted, held no reference.
LEMMA LoseCount ==
  ASSUME CountInv, NEW w \in DeviceObjects, Forget(w) \/ HotplugReturns(w)
  PROVE  RefcountExact' /\ BasesHold'
<1> USE DEF CountInv, PointersInv
<1>1. ObjectsTyped /\ UNCHANGED <<presence, refcnt, listVars, handleVars>>
  BY DEF TypeOK, ObjectsTyped, Forget, HotplugReturns
<1>2. /\ basis' = [basis EXCEPT ![w] = "nothing"]
      /\ basis[w] = "reference" => devicePointer[w] = NULL
      /\ \A v \in DeviceObjects : v # w => devicePointer'[v] = devicePointer[v]
  BY <1>1 DEF Forget, HotplugReturns, ObjectsTyped
<1>3. ASSUME NEW e \in Devices
      PROVE  refcnt'[e] = (IF OnBus(e) THEN 1 ELSE 0)' + Cardinality(ListRefs(e))'
                            + Cardinality(HandleRefs(e))' + Cardinality(ObjectRefs(e))'
  <2>1. /\ (IF OnBus(e) THEN 1 ELSE 0)' = (IF OnBus(e) THEN 1 ELSE 0) + 0
        /\ Cardinality(ListRefs(e))' = Cardinality(ListRefs(e)) + 0
        /\ Cardinality(HandleRefs(e))' = Cardinality(HandleRefs(e)) + 0
    BY <1>1, SameRefs
  <2>2. ObjectRefs(e)' = ObjectRefs(e)
    BY <1>1, <1>2, DevicesAssumption DEF ObjectRefs, ObjectsTyped
  <2>3. Cardinality(ObjectRefs(e))' = Cardinality(ObjectRefs(e)) + 0
    BY <2>2, RefsFinite
  <2>4. refcnt'[e] = refcnt[e] + (0 + 0 + 0 + 0)
    BY <1>1 DEF TypeOK
  <2> QED
    BY <2>1, <2>3, <2>4, ExactKept
<1>4. ASSUME NEW v \in DeviceObjects, MayUse(v)'
      PROVE  MayUse(v) /\ basis'[v] = basis[v] /\ devicePointer'[v] = devicePointer[v]
  BY <1>1, <1>2, <1>4 DEF MayUse, ObjectsTyped
<1>5. BasesHold'
  BY <1>1, <1>4 DEF BasesHold, OnBus, listVars, handleVars
<1> QED
  BY <1>3, <1>5 DEF RefcountExact

LEMMA UnrefCount ==
  ASSUME CountInv, NEW w \in DeviceObjects, UnrefDevice(w)
  PROVE  RefcountExact' /\ BasesHold'
<1> USE DEF CountInv, PointersInv
<1> DEFINE d == devicePointer[w]
<1>1. /\ ObjectsTyped /\ refcnt \in [Devices -> Nat]
      /\ UNCHANGED <<presence, listVars, handleVars>>
      /\ basis' = basis /\ basis[w] = "reference" /\ d \in Devices
      /\ devicePointer' = [devicePointer EXCEPT ![w] = NULL]
      /\ Unref({d})
  BY DEF TypeOK, ObjectsTyped, UnrefDevice
<1>2. w \in ObjectRefs(d)
  BY <1>1 DEF ObjectRefs
<1>3. refcnt[d] > 0
  BY <1>1, <1>2, HolderCounted
<1> HIDE DEF d
<1>4. ASSUME NEW e \in Devices
      PROVE  refcnt'[e] = (IF OnBus(e) THEN 1 ELSE 0)' + Cardinality(ListRefs(e))'
                            + Cardinality(HandleRefs(e))' + Cardinality(ObjectRefs(e))'
  <2> DEFINE n == IF e = d THEN -1 ELSE 0
  <2>1. /\ (IF OnBus(e) THEN 1 ELSE 0)' = (IF OnBus(e) THEN 1 ELSE 0) + 0
        /\ Cardinality(ListRefs(e))' = Cardinality(ListRefs(e)) + 0
        /\ Cardinality(HandleRefs(e))' = Cardinality(HandleRefs(e)) + 0
    BY <1>1, SameRefs
  <2>2. ObjectRefs(e)' = IF e = d THEN ObjectRefs(e) \ {w} ELSE ObjectRefs(e)
    BY <1>1, DevicesAssumption DEF ObjectRefs, ObjectsTyped, d
  <2>3. Cardinality(ObjectRefs(e))' = Cardinality(ObjectRefs(e)) + n
    BY <1>2, <2>2, RefsFinite, CardinalityShrinks
  <2>4. refcnt'[e] = refcnt[e] + (IF e \in {d} THEN -1 ELSE 0)
    BY <1>1, <1>3, UnrefTakes
  <2>5. refcnt'[e] = refcnt[e] + (0 + 0 + 0 + n)
    BY <1>1, <2>4
  <2> QED
    BY <2>1, <2>3, <2>5, ExactKept
<1>5. ASSUME NEW v \in DeviceObjects, MayUse(v)'
      PROVE  MayUse(v) /\ basis'[v] = basis[v] /\ devicePointer'[v] = devicePointer[v]
  BY <1>1, <1>5 DEF MayUse, ObjectsTyped
<1>6. BasesHold'
  BY <1>1, <1>5 DEF BasesHold, OnBus, listVars, handleVars
<1> QED
  BY <1>4, <1>6 DEF RefcountExact

\* A list takes a reference to each of its members.
LEMMA GetListCount ==
  ASSUME CountInv, NEW lo \in ListObjects, NEW l \in Lists, GetDeviceList(lo, l)
  PROVE  RefcountExact' /\ BasesHold'
<1> USE DEF CountInv, PointersInv
<1> DEFINE found == {d \in Devices : presence[d] = "attached"}
<1>1. /\ members \in [Lists -> SUBSET Devices] /\ refcnt \in [Devices -> Nat]
      /\ deviceListPointer \in [ListObjects -> Lists \cup {NULL}]
      /\ UNCHANGED <<presence, handleVars, objectVars>>
      /\ Ref(found) /\ members' = [members EXCEPT ![l] = found]
      /\ deviceListPointer[lo] = NULL
      /\ deviceListPointer' = [deviceListPointer EXCEPT ![lo] = l]
  BY DEF TypeOK, GetDeviceList
<1>2. \A o \in ListObjects : deviceListPointer[o] # NULL => o # lo /\ deviceListPointer[o] # l
  BY <1>1 DEF OneObjectEach, Named, GetDeviceList
<1>3. /\ deviceListPointer'[lo] = l /\ l # NULL /\ members'[l] = found
      /\ \A o \in ListObjects : deviceListPointer[o] # NULL =>
            /\ deviceListPointer'[o] = deviceListPointer[o]
            /\ members'[deviceListPointer[o]] = members[deviceListPointer[o]]
      /\ \A o \in ListObjects : o # lo => deviceListPointer'[o] = deviceListPointer[o]
  BY <1>1, <1>2, DevicesAssumption
<1> HIDE DEF found
<1>4. ASSUME NEW e \in Devices
      PROVE  refcnt'[e] = (IF OnBus(e) THEN 1 ELSE 0)' + Cardinality(ListRefs(e))'
                            + Cardinality(HandleRefs(e))' + Cardinality(ObjectRefs(e))'
  <2> DEFINE n == IF e \in found THEN 1 ELSE 0
  <2>1. /\ (IF OnBus(e) THEN 1 ELSE 0)' = (IF OnBus(e) THEN 1 ELSE 0) + 0
        /\ Cardinality(ObjectRefs(e))' = Cardinality(ObjectRefs(e)) + 0
        /\ Cardinality(HandleRefs(e))' = Cardinality(HandleRefs(e)) + 0
    BY <1>1, SameRefs
  <2>2. lo \notin ListRefs(e)
    BY <1>1 DEF ListRefs
  <2>3. ListRefs(e)' = IF e \in found THEN ListRefs(e) \cup {lo} ELSE ListRefs(e)
    BY <1>1, <1>3 DEF ListRefs
  <2>4. Cardinality(ListRefs(e))' = Cardinality(ListRefs(e)) + n
    BY <2>2, <2>3, RefsFinite, CardinalityGrows
  <2>5. refcnt'[e] = refcnt[e] + (0 + n + 0 + 0)
    BY <1>1, RefAdds
  <2> QED
    BY <2>1, <2>4, <2>5, ExactKept
<1>5. BasesHold'
  BY <1>1, <1>3 DEF BasesHold, MayUse, OnBus, handleVars, objectVars
<1> QED
  BY <1>4, <1>5 DEF RefcountExact

\* freeDeviceList: each member loses the reference of the list, and it is dropped
\* or goes to the one object kept for it.
LEMMA FreeListCount ==
  ASSUME CountInv, NEW lo \in ListObjects, NEW unrefDevices \in BOOLEAN,
         NEW kept \in SUBSET DeviceObjects, FreeDeviceList(lo, unrefDevices, kept)
  PROVE  RefcountExact' /\ BasesHold'
<1> USE DEF CountInv, PointersInv
<1> DEFINE l == deviceListPointer[lo]
           dropped == IF unrefDevices THEN members[l] ELSE {}
           keptFor(e) == {w \in kept : devicePointer[w] = e}
<1>1. /\ refcnt \in [Devices -> Nat] /\ members \in [Lists -> SUBSET Devices]
      /\ deviceListPointer \in [ListObjects -> Lists \cup {NULL}]
      /\ basis \in [DeviceObjects -> Bases]
      /\ UNCHANGED <<presence, members, handleVars, devicePointer>>
      /\ l # NULL /\ l \in Lists
      /\ deviceListPointer' = [deviceListPointer EXCEPT ![lo] = NULL]
      /\ Unref(dropped)
      /\ \A w \in kept : basis[w] = lo
      /\ basis' = [w \in DeviceObjects |->
                     IF w \in kept THEN "reference"
                     ELSE IF basis[w] = lo THEN "nothing" ELSE basis[w]]
      /\ unrefDevices => kept = {}
      /\ ~unrefDevices => \A d \in members[l] : Cardinality(keptFor(d)) = 1
  BY DEF TypeOK, FreeDeviceList, LibusbFreeDeviceList, LetGo
<1>2. lo # "reference" /\ lo # "nothing" /\ lo # "callback" /\ lo \notin HandleObjects
  BY DevicesAssumption
<1>3. ASSUME NEW e \in Devices
      PROVE  refcnt'[e] = (IF OnBus(e) THEN 1 ELSE 0)' + Cardinality(ListRefs(e))'
                            + Cardinality(HandleRefs(e))' + Cardinality(ObjectRefs(e))'
  <2> DEFINE lost == IF e \in members[l] THEN -1 ELSE 0
             gained == IF e \in members[l] /\ ~unrefDevices THEN 1 ELSE 0
  <2>1. /\ (IF OnBus(e) THEN 1 ELSE 0)' = (IF OnBus(e) THEN 1 ELSE 0) + 0
        /\ Cardinality(HandleRefs(e))' = Cardinality(HandleRefs(e)) + 0
    BY <1>1, SameRefs
  <2>2. e \in members[l] => lo \in ListRefs(e)
    BY <1>1 DEF ListRefs
  <2>3. ListRefs(e)' = IF e \in members[l] THEN ListRefs(e) \ {lo} ELSE ListRefs(e)
    BY <1>1 DEF ListRefs
  <2>4. Cardinality(ListRefs(e))' = Cardinality(ListRefs(e)) + lost
    BY <2>2, <2>3, RefsFinite, CardinalityShrinks
  <2>5. ObjectRefs(e)' = ObjectRefs(e) \cup keptFor(e)
    BY <1>1, <1>2 DEF ObjectRefs
  <2>6. ASSUME keptFor(e) # {}
        PROVE  e \in members[l]
    <3>1. PICK w \in kept : devicePointer[w] = e
      BY <2>6
    <3>2. MayUse(w) /\ basis[w] = lo
      BY <1>1, <1>2, <3>1, DevicesAssumption DEF MayUse
    <3> QED
      BY <3>1, <3>2 DEF BasesHold
  <2>7. keptFor(e) = {} \/ \E w \in kept : keptFor(e) = {w}
    <3>1. keptFor(e) \in SUBSET DeviceObjects
      OBVIOUS
    <3>2. IsFiniteSet(keptFor(e))
      BY <3>1, DevicesAssumption, FS_Subset
    <3>3. CASE unrefDevices
      BY <1>1, <3>3
    <3>4. CASE ~unrefDevices /\ keptFor(e) # {}
      <4>1. Cardinality(keptFor(e)) = 1
        BY <1>1, <2>6, <3>4
      <4>2. PICK w : keptFor(e) = {w}
        BY <3>2, <4>1, FS_Singleton
      <4> QED
        BY <4>2
    <3> QED
      BY <3>3, <3>4
  <2>8. Cardinality(ObjectRefs(e))' = Cardinality(ObjectRefs(e)) + gained
    <3>1. CASE e \in members[l] /\ ~unrefDevices
      <4>1. Cardinality(keptFor(e)) = 1
        BY <1>1, <3>1
      <4>2. keptFor(e) # {}
        BY <4>1, FS_EmptySet
      <4>3. PICK w \in kept : keptFor(e) = {w}
        BY <2>7, <4>2
      <4>4. w \notin ObjectRefs(e)
        BY <1>1, <1>2 DEF ObjectRefs
      <4>5. ObjectRefs(e)' = ObjectRefs(e) \cup {w}
        BY <2>5, <4>3
      <4>6. Cardinality(ObjectRefs(e)') = Cardinality(ObjectRefs(e)) + 1
        BY <4>4, <4>5, RefsFinite, CardinalityGrows
      <4> QED
        BY <3>1, <4>6
    <3>2. CASE ~(e \in members[l] /\ ~unrefDevices)
      <4>1. keptFor(e) = {}
        BY <1>1, <2>6, <3>2
      <4>2. ObjectRefs(e)' = ObjectRefs(e)
        BY <2>5, <4>1
      <4> QED
        BY <3>2, <4>2, RefsFinite
    <3> QED
      BY <3>1, <3>2
  <2>9. e \in dropped => refcnt[e] > 0
    <3>1. ASSUME e \in dropped
          PROVE  ListRefs(e) # {}
      BY <2>2, <3>1
    <3> QED
      BY <3>1, HolderCounted
  <2>10. refcnt'[e] = refcnt[e] + (IF e \in dropped THEN -1 ELSE 0)
    BY <1>1, <2>9, UnrefTakes
  <2>11. refcnt'[e] = refcnt[e] + (0 + lost + 0 + gained)
    <3>1. (IF e \in dropped THEN -1 ELSE 0) = 0 + lost + 0 + gained
      OBVIOUS
    <3> QED
      BY <2>10, <3>1
  <2>12. lost \in Int /\ gained \in Int
    OBVIOUS
  <2> HIDE DEF lost, gained
  <2> QED
    BY <2>1, <2>4, <2>8, <2>11, <2>12, ExactKept
<1>4. ASSUME NEW v \in DeviceObjects, MayUse(v)', basis'[v] # "reference"
      PROVE  MayUse(v) /\ basis'[v] = basis[v] /\ basis[v] # lo
  BY <1>1, <1>2, <1>4 DEF MayUse
<1>5. \A o \in ListObjects : o # lo => deviceListPointer'[o] = deviceListPointer[o]
  BY <1>1
<1>6. BasesHold'
  BY <1>1, <1>4, <1>5, DevicesAssumption DEF BasesHold, OnBus, handleVars
<1> QED
  BY <1>3, <1>6 DEF RefcountExact

\* A handle takes a reference to its device.
LEMMA OpenCount ==
  ASSUME CountInv, NEW d \in Devices, NEW ho \in HandleObjects, NEW h \in Handles,
         deviceHandlePointer[ho] = NULL, LibusbOpen(d, h),
         deviceHandlePointer' = [deviceHandlePointer EXCEPT ![ho] = h],
         UNCHANGED <<presence, listVars, objectVars>>
  PROVE  RefcountExact' /\ BasesHold'
<1> USE DEF CountInv, PointersInv
<1>1. /\ opened \in [Handles -> Devices \cup {NULL}] /\ refcnt \in [Devices -> Nat]
      /\ deviceHandlePointer \in [HandleObjects -> Handles \cup {NULL}]
      /\ Ref({d}) /\ opened' = [opened EXCEPT ![h] = d]
  BY DEF TypeOK, LibusbOpen
<1>2. \A o \in HandleObjects :
        deviceHandlePointer[o] # NULL => o # ho /\ deviceHandlePointer[o] # h
  BY <1>1 DEF OneObjectEach, Named, LibusbOpen
<1>3. /\ deviceHandlePointer'[ho] = h /\ h # NULL /\ opened'[h] = d
      /\ \A o \in HandleObjects : deviceHandlePointer[o] # NULL =>
            /\ deviceHandlePointer'[o] = deviceHandlePointer[o]
            /\ opened'[deviceHandlePointer[o]] = opened[deviceHandlePointer[o]]
      /\ \A o \in HandleObjects : o # ho => deviceHandlePointer'[o] = deviceHandlePointer[o]
  BY <1>1, <1>2, DevicesAssumption
<1>4. ASSUME NEW e \in Devices
      PROVE  refcnt'[e] = (IF OnBus(e) THEN 1 ELSE 0)' + Cardinality(ListRefs(e))'
                            + Cardinality(HandleRefs(e))' + Cardinality(ObjectRefs(e))'
  <2> DEFINE n == IF e = d THEN 1 ELSE 0
  <2>1. /\ (IF OnBus(e) THEN 1 ELSE 0)' = (IF OnBus(e) THEN 1 ELSE 0) + 0
        /\ Cardinality(ObjectRefs(e))' = Cardinality(ObjectRefs(e)) + 0
        /\ Cardinality(ListRefs(e))' = Cardinality(ListRefs(e)) + 0
    BY SameRefs
  <2>2. ho \notin HandleRefs(e)
    BY DEF HandleRefs
  <2>3. HandleRefs(e)' = IF e = d THEN HandleRefs(e) \cup {ho} ELSE HandleRefs(e)
    BY <1>3 DEF HandleRefs
  <2>4. Cardinality(HandleRefs(e))' = Cardinality(HandleRefs(e)) + n
    BY <2>2, <2>3, RefsFinite, CardinalityGrows
  <2>5. refcnt'[e] = refcnt[e] + (IF e \in {d} THEN 1 ELSE 0)
    BY <1>1, RefAdds
  <2>6. refcnt'[e] = refcnt[e] + (0 + 0 + n + 0)
    BY <2>5
  <2> QED
    BY <2>1, <2>4, <2>6, ExactKept
<1>5. BasesHold'
  BY <1>3 DEF BasesHold, MayUse, OnBus, listVars, objectVars
<1> QED
  BY <1>4, <1>5 DEF RefcountExact

LEMMA CloseCount ==
  ASSUME CountInv, NEW ho \in HandleObjects, Close(ho)
  PROVE  RefcountExact' /\ BasesHold'
<1> USE DEF CountInv, PointersInv
<1> DEFINE d == opened[deviceHandlePointer[ho]]
<1>1. /\ refcnt \in [Devices -> Nat]
      /\ deviceHandlePointer \in [HandleObjects -> Handles \cup {NULL}]
      /\ basis \in [DeviceObjects -> Bases]
      /\ deviceHandlePointer[ho] # NULL
      /\ UNCHANGED <<presence, listVars, opened, devicePointer>>
      /\ deviceHandlePointer' = [deviceHandlePointer EXCEPT ![ho] = NULL]
      /\ Unref({d})
      /\ basis' = [w \in DeviceObjects |->
                     IF w \in {} THEN "reference"
                     ELSE IF basis[w] = ho THEN "nothing" ELSE basis[w]]
  BY DEF TypeOK, Close, LetGo
<1>2. d \in Devices
  BY <1>1, HandleHasDevice
<1>3. ho # "reference" /\ ho # "nothing" /\ ho # "callback" /\ ho \notin ListObjects
  BY DevicesAssumption
<1>4. ho \in HandleRefs(d)
  BY <1>1 DEF HandleRefs
<1>5. refcnt[d] > 0
  BY <1>2, <1>4, HolderCounted
<1>6. ASSUME NEW e \in Devices
      PROVE  refcnt'[e] = (IF OnBus(e) THEN 1 ELSE 0)' + Cardinality(ListRefs(e))'
                            + Cardinality(HandleRefs(e))' + Cardinality(ObjectRefs(e))'
  <2> DEFINE n == IF e = d THEN -1 ELSE 0
  <2>1. /\ (IF OnBus(e) THEN 1 ELSE 0)' = (IF OnBus(e) THEN 1 ELSE 0) + 0
        /\ Cardinality(ListRefs(e))' = Cardinality(ListRefs(e)) + 0
    BY <1>1, SameRefs
  <2>2. ObjectRefs(e)' = ObjectRefs(e)
    BY <1>1, <1>3 DEF ObjectRefs
  <2>3. Cardinality(ObjectRefs(e))' = Cardinality(ObjectRefs(e)) + 0
    BY <2>2, RefsFinite
  <2>4. HandleRefs(e)' = IF e = d THEN HandleRefs(e) \ {ho} ELSE HandleRefs(e)
    BY <1>1 DEF HandleRefs
  <2>5. Cardinality(HandleRefs(e))' = Cardinality(HandleRefs(e)) + n
    BY <1>4, <2>4, RefsFinite, CardinalityShrinks
  <2>6. refcnt'[e] = refcnt[e] + (IF e \in {d} THEN -1 ELSE 0)
    BY <1>1, <1>5, UnrefTakes
  <2>7. refcnt'[e] = refcnt[e] + (0 + 0 + n + 0)
    BY <2>6
  <2> QED
    BY <2>1, <2>3, <2>5, <2>7, ExactKept
<1>7. ASSUME NEW v \in DeviceObjects, MayUse(v)'
      PROVE  MayUse(v) /\ basis'[v] = basis[v] /\ basis[v] # ho
  BY <1>1, <1>3, <1>7 DEF MayUse
<1>8. \A o \in HandleObjects : o # ho => deviceHandlePointer'[o] = deviceHandlePointer[o]
  BY <1>1
<1>9. BasesHold'
  BY <1>1, <1>7, <1>8 DEF BasesHold, OnBus, listVars
<1> QED
  BY <1>6, <1>9 DEF RefcountExact

LEMMA CountInvStep == CountInv /\ [Next]_vars => CountInv'
<1> SUFFICES ASSUME CountInv, [Next]_vars PROVE CountInv'
  OBVIOUS
<1>1. PointersInv'
  BY PointersInvStep DEF CountInv
<1>2. ASSUME NEW w \in DeviceObjects, NEW ho \in HandleObjects, NEW h \in Handles, Open(w, ho, h)
      PROVE  RefcountExact' /\ BasesHold'
  <2>1. devicePointer[w] \in Devices
    BY <1>2, TrustIsCounted DEF Open
  <2> QED
    BY <1>2, <2>1, OpenCount DEF Open
<1>3. ASSUME NEW d \in Devices, NEW ho \in HandleObjects, NEW h \in Handles,
             OpenDeviceWithVidPid(d, ho, h)
      PROVE  RefcountExact' /\ BasesHold'
  BY <1>3, OpenCount DEF OpenDeviceWithVidPid
<1>4. ASSUME UNCHANGED vars
      PROVE  RefcountExact' /\ BasesHold'
  <2>1. /\ UNCHANGED <<presence, refcnt, deviceListPointer, members>>
        /\ UNCHANGED <<deviceHandlePointer, opened, devicePointer, basis>>
    BY <1>4 DEF vars
  <2>2. \A d \in Devices :
          /\ OnBus(d)' = OnBus(d) /\ ListRefs(d)' = ListRefs(d)
          /\ HandleRefs(d)' = HandleRefs(d) /\ ObjectRefs(d)' = ObjectRefs(d)
    BY <2>1 DEF OnBus, ListRefs, HandleRefs, ObjectRefs
  <2>3. RefcountExact'
    BY <2>1, <2>2 DEF CountInv, RefcountExact
  <2>4. BasesHold'
    BY <2>1 DEF CountInv, BasesHold, MayUse, OnBus
  <2> QED
    BY <2>3, <2>4
<1>5. ASSUME NEW w \in DeviceObjects, DeviceSteps(w)
      PROVE  RefcountExact' /\ BasesHold'
  BY <1>2, <1>5, WrapSteps, LoseCount, UnrefCount DEF DeviceSteps
<1>6. ASSUME NEW lo \in ListObjects, ListSteps(lo)
      PROVE  RefcountExact' /\ BasesHold'
  BY <1>6, WrapSteps, GetListCount, FreeListCount DEF ListSteps
<1>7. ASSUME NEW ho \in HandleObjects, HandleSteps(ho)
      PROVE  RefcountExact' /\ BasesHold'
  BY <1>3, <1>7, WrapSteps, CloseCount DEF HandleSteps
<1>8. RefcountExact' /\ BasesHold'
  BY <1>4, <1>5, <1>6, <1>7, BusCount DEF Next
<1> QED
  BY <1>1, <1>8 DEF CountInv

\* libusb's count of a device is exactly the references the bus, the lists, the
\* handles and the client's objects have, whatever is plugged, listed and closed.
THEOREM CountsExact == Spec => []RefcountExact
<1>1. CountInv => RefcountExact
  BY DEF CountInv
<1> QED
  BY InitCountInv, CountInvStep, <1>1, PTL DEF Spec

\* A Device object the client has reason to trust names a device not destroyed.
THEOREM TrustJustified == Spec => []TrustedObjectsLive
<1>1. CountInv => TrustedObjectsLive
  BY TrustIsCounted DEF TrustedObjectsLive
<1> QED
  BY InitCountInv, CountInvStep, <1>1, PTL DEF Spec

LEMMA CountInvariance == Spec => []CountInv
BY InitCountInv, CountInvStep, PTL DEF Spec

\* Whoever is about to give back a reference has one libusb counts.
UnrefsCounted ==
    /\ \A d \in Devices : OnBus(d) => refcnt[d] > 0
    /\ \A lo \in ListObjects : deviceListPointer[lo] # NULL =>
          \A d \in members[deviceListPointer[lo]] : refcnt[d] > 0
    /\ \A ho \in HandleObjects : deviceHandlePointer[ho] # NULL =>
          refcnt[opened[deviceHandlePointer[ho]]] > 0
    /\ \A w \in DeviceObjects : basis[w] = "reference" /\ devicePointer[w] # NULL =>
          refcnt[devicePointer[w]] > 0

\* freeDeviceList, close, unrefDevice and libusb's own handling of a detached device
\* never drop a reference that is not there: what Unref takes for undefined behaviour
\* is not reached by any sequence of legal calls.
THEOREM ReferencesDroppedOnce == Spec => []UnrefsCounted
<1>1. CountInv => UnrefsCounted
  <2> SUFFICES ASSUME CountInv PROVE UnrefsCounted
    OBVIOUS
  <2>1. TypeOK
    BY DEF CountInv, PointersInv
  <2>2. ASSUME NEW d \in Devices, OnBus(d) PROVE refcnt[d] > 0
    BY <2>2, HolderCounted
  <2>3. ASSUME NEW lo \in ListObjects, deviceListPointer[lo] # NULL,
               NEW d \in members[deviceListPointer[lo]]
        PROVE  refcnt[d] > 0
    <3>1. d \in Devices /\ lo \in ListRefs(d)
      BY <2>1, <2>3 DEF TypeOK, ListRefs
    <3> QED
      BY <3>1, HolderCounted
  <2>4. ASSUME NEW ho \in HandleObjects, deviceHandlePointer[ho] # NULL
        PROVE  refcnt[opened[deviceHandlePointer[ho]]] > 0
    <3>1. opened[deviceHandlePointer[ho]] \in Devices
      BY <2>4, HandleHasDevice DEF CountInv
    <3>2. ho \in HandleRefs(opened[deviceHandlePointer[ho]])
      BY <2>4 DEF HandleRefs
    <3> QED
      BY <3>1, <3>2, HolderCounted
  <2>5. ASSUME NEW w \in DeviceObjects, basis[w] = "reference", devicePointer[w] # NULL
        PROVE  refcnt[devicePointer[w]] > 0
    BY <2>5, TrustIsCounted DEF MayUse
  <2> QED
    BY <2>2, <2>3, <2>4, <2>5 DEF UnrefsCounted
<1> QED
  BY <1>1, CountInvariance, PTL

Destroyed(d) == presence[d] = "detached" /\ refcnt[d] = 0

LEMMA DestroyedStays ==
  ASSUME CountInv, [Next]_vars, NEW d \in Devices, Destroyed(d)
  PROVE  Destroyed(d)'
<1> USE DEF listVars, handleVars, objectVars
<1>1. TypeOK
  BY DEF CountInv, PointersInv
<1>2. refcnt[d] = 0 /\ presence[d] = "detached"
  BY DEF Destroyed
\* References are added to devices that are attached, being attached, or in use.
<1>3. ASSUME NEW S, d \notin S, Ref(S), presence' = presence
      PROVE  Destroyed(d)'
  BY <1>2, <1>3 DEF Ref, Destroyed
<1>4. ASSUME NEW S, Unref(S), presence' = presence PROVE Destroyed(d)'
  BY <1>2, <1>4 DEF Unref, Destroyed
<1>5. ASSUME UNCHANGED <<refcnt, presence>> PROVE Destroyed(d)'
  BY <1>2, <1>5 DEF Destroyed
<1>6. \A w \in DeviceObjects : MayUse(w) => d # devicePointer[w]
  BY <1>2, TrustIsCounted
<1>7. ASSUME NEW x \in Devices, Attach(x) \/ Detach(x) \/ Leave(x)
      PROVE  Destroyed(d)'
  <2>1. CASE Attach(x)
    BY <1>1, <1>2, <2>1 DEF Attach, Ref, Destroyed, TypeOK
  <2>2. CASE Detach(x) \/ Leave(x)
    BY <1>1, <1>2, <2>2 DEF Detach, Leave, Unref, Destroyed, TypeOK
  <2> QED
    BY <1>7, <2>1, <2>2
<1>8. ASSUME NEW w \in DeviceObjects, DeviceSteps(w) PROVE Destroyed(d)'
  <2>1. ASSUME NEW new \in DeviceObjects, RefDevice(w, new) PROVE Destroyed(d)'
    BY <1>3, <1>6, <2>1 DEF RefDevice
  <2>2. ASSUME NEW ho \in HandleObjects, NEW h \in Handles, Open(w, ho, h)
        PROVE  Destroyed(d)'
    BY <1>3, <1>6, <2>2 DEF Open, LibusbOpen
  <2>3. CASE UnrefDevice(w)
    BY <1>4, <2>3 DEF UnrefDevice
  <2> QED
    BY <1>5, <1>8, <2>1, <2>2, <2>3
       DEF DeviceSteps, Forget, HotplugReturns, HotplugCallback, GetParent
<1>9. ASSUME NEW lo \in ListObjects, ListSteps(lo) PROVE Destroyed(d)'
  <2>1. ASSUME NEW l \in Lists, GetDeviceList(lo, l) PROVE Destroyed(d)'
    BY <1>2, <1>3, <2>1 DEF GetDeviceList
  <2>2. ASSUME NEW unrefDevices \in BOOLEAN, NEW kept \in SUBSET DeviceObjects,
               FreeDeviceList(lo, unrefDevices, kept)
        PROVE  Destroyed(d)'
    BY <1>4, <2>2 DEF FreeDeviceList, LibusbFreeDeviceList
  <2> QED
    BY <1>5, <1>9, <2>1, <2>2 DEF ListSteps, Get
<1>10. ASSUME NEW ho \in HandleObjects, HandleSteps(ho) PROVE Destroyed(d)'
  <2>1. ASSUME NEW x \in Devices, NEW h \in Handles, OpenDeviceWithVidPid(x, ho, h)
        PROVE  Destroyed(d)'
    <3>1. x # d
      BY <1>2, <2>1 DEF OpenDeviceWithVidPid
    <3> QED
      BY <1>3, <2>1, <3>1 DEF OpenDeviceWithVidPid, LibusbOpen
  <2>2. CASE Close(ho)
    BY <1>4, <2>2 DEF Close
  <2> QED
    BY <1>5, <1>10, <2>1, <2>2 DEF HandleSteps, GetDevice
<1>11. CASE UNCHANGED vars
  BY <1>5, <1>11 DEF vars
<1> QED
  BY <1>7, <1>8, <1>9, <1>10, <1>11 DEF Next

\* A device destroyed is never referenced again: no refDevice, open or list comes by it
\* through an object that outlived it, as one a hotplug callback left behind.
THEOREM DestroyedForGood == Spec => [][\A d \in Devices : Destroyed(d) => Destroyed(d)']_vars
<1>1. CountInv /\ [Next]_vars => [\A d \in Devices : Destroyed(d) => Destroyed(d)']_vars
  BY DestroyedStays
<1> QED
  BY <1>1, CountInvariance, PTL DEF Spec
=============================================================================
