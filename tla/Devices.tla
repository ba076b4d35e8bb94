------------------------------- MODULE Devices -------------------------------
(***************************************************************************)
(* Devices, device lists and device handles: the Java objects of the       *)
(* client, the libusb objects their pointer fields name, and the reference *)
(* count by which libusb keeps a device (src/src/LibUsb.c, Device.c,       *)
(* DeviceList.c, DeviceHandle.c).                                          *)
(*                                                                         *)
(* A client hands each list and each handle to one call at a time, and each*)
(* Device object to one unrefDevice, so a call is one step here; devices   *)
(* are shared by all of them, and come and go as the user plugs them.  The *)
(* callback of a hotplug event runs beside all this, on a device for which *)
(* it has no reference.                                                    *)
(***************************************************************************)
EXTENDS Naturals, FiniteSets

CONSTANTS
    Devices,       \* libusb_device structures, one for each time one is plugged in
    Parent,        \* the hub a device is plugged into, or NULL
    DeviceObjects, ListObjects, HandleObjects,   \* Java objects
    Lists, Handles,                              \* addresses libusb allocates at
    NULL

ASSUME DevicesAssumption ==
    /\ IsFiniteSet(DeviceObjects) /\ IsFiniteSet(ListObjects) /\ IsFiniteSet(HandleObjects)
    /\ NULL \notin Devices \cup Lists \cup Handles
    /\ Parent \in [Devices -> Devices \cup {NULL}]
    /\ (ListObjects \cup HandleObjects) \cap {"nothing", "reference", "callback"} = {}
    /\ ListObjects \cap HandleObjects = {}

VARIABLES
    presence,             \* of a device on the bus
    refcnt,               \* references libusb counts for a device
    liveLists, members,   \* the device lists allocated, and what is in them
    liveHandles, opened,  \* the handles open, and the device of each
    deviceListPointer, deviceHandlePointer, devicePointer,   \* Java: NULL if not set
    basis                 \* why the client trusts a Device object

vars == <<presence, refcnt, liveLists, members, liveHandles, opened,
          deviceListPointer, deviceHandlePointer, devicePointer, basis>>
listVars == <<liveLists, members, deviceListPointer>>
handleVars == <<liveHandles, opened, deviceHandlePointer>>
objectVars == <<devicePointer, basis>>

\* A leaving device is unplugged, and its last hotplug event not yet handled.
Presences == {"not yet", "attached", "leaving", "detached"}
OnBus(d) == presence[d] \in {"attached", "leaving"}

\* A Device object is good for as long as the client has a reference of its own,
\* or the list or the handle it got the object from, or as the hotplug callback
\* runs that it is an argument of.
Bases == {"nothing", "reference", "callback"} \cup ListObjects \cup HandleObjects

TypeOK ==
    /\ presence \in [Devices -> Presences]
    /\ refcnt \in [Devices -> Nat]
    /\ liveLists \subseteq Lists
    /\ members \in [Lists -> SUBSET Devices]
    /\ liveHandles \subseteq Handles
    /\ opened \in [Handles -> Devices \cup {NULL}]
    /\ deviceListPointer \in [ListObjects -> Lists \cup {NULL}]
    /\ deviceHandlePointer \in [HandleObjects -> Handles \cup {NULL}]
    /\ devicePointer \in [DeviceObjects -> Devices \cup {NULL}]
    /\ basis \in [DeviceObjects -> Bases]

Init ==
    /\ presence = [d \in Devices |-> "not yet"]
    /\ refcnt = [d \in Devices |-> 0]
    /\ liveLists = {}
    /\ members = [l \in Lists |-> {}]
    /\ liveHandles = {}
    /\ opened = [h \in Handles |-> NULL]
    /\ deviceListPointer = [lo \in ListObjects |-> NULL]
    /\ deviceHandlePointer = [ho \in HandleObjects |-> NULL]
    /\ devicePointer = [w \in DeviceObjects |-> NULL]
    /\ basis = [w \in DeviceObjects |-> "nothing"]

-----------------------------------------------------------------------------
(***************************************************************************)
(* libusb's part.  It holds a reference to every device on the bus, until  *)
(* the callbacks for its leaving have returned; a device whose count comes *)
(* back to zero is destroyed.                                              *)
(***************************************************************************)
Ref(S) == refcnt' = [d \in Devices |-> IF d \in S THEN refcnt[d] + 1 ELSE refcnt[d]]

\* Dropping a reference that is not there is undefined behaviour: a count of 0 stays.
Unref(S) ==
    refcnt' = [d \in Devices |-> IF d \in S /\ refcnt[d] > 0 THEN refcnt[d] - 1 ELSE refcnt[d]]

Attach(d) ==
    /\ presence[d] = "not yet"
    /\ Parent[d] # NULL => presence[Parent[d]] = "attached"
    /\ presence' = [presence EXCEPT ![d] = "attached"]
    /\ Ref({d})
    /\ UNCHANGED <<listVars, handleVars, objectVars>>

Detach(d) ==
    /\ presence[d] = "attached"
    /\ \A child \in Devices : Parent[child] = d => presence[child] # "attached"
    /\ presence' = [presence EXCEPT ![d] = "leaving"]
    /\ UNCHANGED <<refcnt, listVars, handleVars, objectVars>>

Leave(d) ==
    /\ presence[d] = "leaving"
    /\ ~\E w \in DeviceObjects : basis[w] = "callback" /\ devicePointer[w] = d
    /\ presence' = [presence EXCEPT ![d] = "detached"]
    /\ Unref({d})
    /\ UNCHANGED <<listVars, handleVars, objectVars>>

-----------------------------------------------------------------------------
(***************************************************************************)
(* Java Device objects.  wrapDevice makes a new one at every call.         *)
(***************************************************************************)
Unused(w) == devicePointer[w] = NULL /\ basis[w] = "nothing"

WrapDevice(w, d, why) ==
    /\ Unused(w)
    /\ devicePointer' = [devicePointer EXCEPT ![w] = d]
    /\ basis' = [basis EXCEPT ![w] = why]

\* The client gives up an object that holds no reference: its place is free again.
Forget(w) ==
    /\ ~Unused(w)
    /\ basis[w] # "callback"
    /\ basis[w] = "reference" => devicePointer[w] = NULL
    /\ devicePointer' = [devicePointer EXCEPT ![w] = NULL]
    /\ basis' = [basis EXCEPT ![w] = "nothing"]
    /\ UNCHANGED <<presence, refcnt, listVars, handleVars>>

\* unwrapDevice succeeds, on an object the client has reason to trust.
MayUse(w) == basis[w] # "nothing" /\ devicePointer[w] # NULL

\* Mutant: a second Device object without libusb_ref_device.
RefDeviceUncounted(w, new) ==
    /\ MayUse(w)
    /\ WrapDevice(new, devicePointer[w], "reference")
    /\ UNCHANGED <<presence, refcnt, listVars, handleVars>>

RefDevice(w, new) ==
    /\ MayUse(w)
    /\ Ref({devicePointer[w]})
    /\ WrapDevice(new, devicePointer[w], "reference")
    /\ UNCHANGED <<presence, listVars, handleVars>>

\* Mutant: unrefDevice without resetDevice.
UnrefDeviceUnreset(w) ==
    /\ basis[w] = "reference"
    /\ devicePointer[w] # NULL
    /\ Unref({devicePointer[w]})
    /\ UNCHANGED <<presence, listVars, handleVars, objectVars>>

\* The client may call it again: the object is reset, and the call throws.
UnrefDevice(w) ==
    /\ basis[w] = "reference"
    /\ devicePointer[w] # NULL
    /\ Unref({devicePointer[w]})
    /\ devicePointer' = [devicePointer EXCEPT ![w] = NULL]
    /\ UNCHANGED <<presence, listVars, handleVars, basis>>

\* libusb lends the parent only to those who hold a list with both.
GetParent(w, new) ==
    /\ MayUse(w)
    /\ Parent[devicePointer[w]] # NULL
    /\ basis[w] \in ListObjects
    /\ Parent[devicePointer[w]] \in members[deviceListPointer[basis[w]]]
    /\ WrapDevice(new, Parent[devicePointer[w]], basis[w])
    /\ UNCHANGED <<presence, refcnt, listVars, handleVars>>

\* hotplugCallback wraps the device libusb lends it, without libusb_ref_device.
HotplugCallback(d, w) ==
    /\ OnBus(d)
    /\ WrapDevice(w, d, "callback")
    /\ UNCHANGED <<presence, refcnt, listVars, handleVars>>

\* The object goes on naming the device: nothing resets it.
HotplugReturns(w) ==
    /\ basis[w] = "callback"
    /\ basis' = [basis EXCEPT ![w] = "nothing"]
    /\ UNCHANGED <<presence, refcnt, listVars, handleVars, devicePointer>>

-----------------------------------------------------------------------------
(***************************************************************************)
(* Device lists.                                                           *)
(***************************************************************************)
\* Mutant: getDeviceList without VALIDATE_POINTER_NOT_SET.
GetDeviceListUnchecked(lo, l) ==
    /\ l \notin liveLists
    /\ LET found == {d \in Devices : presence[d] = "attached"} IN
         /\ members' = [members EXCEPT ![l] = found]
         /\ Ref(found)
    /\ liveLists' = liveLists \cup {l}
    /\ deviceListPointer' = [deviceListPointer EXCEPT ![lo] = l]
    /\ UNCHANGED <<presence, handleVars, objectVars>>

GetDeviceList(lo, l) ==
    /\ deviceListPointer[lo] = NULL
    /\ l \notin liveLists
    /\ LET found == {d \in Devices : presence[d] = "attached"} IN
         /\ members' = [members EXCEPT ![l] = found]
         /\ Ref(found)
    /\ liveLists' = liveLists \cup {l}
    /\ deviceListPointer' = [deviceListPointer EXCEPT ![lo] = l]
    /\ UNCHANGED <<presence, handleVars, objectVars>>

\* DeviceList.get(index)
Get(lo, d, w) ==
    /\ deviceListPointer[lo] # NULL
    /\ d \in members[deviceListPointer[lo]]
    /\ WrapDevice(w, d, lo)
    /\ UNCHANGED <<presence, refcnt, listVars, handleVars>>

\* The libusb_free_device_list(list, unrefDevices) of freeDeviceList.
LibusbFreeDeviceList(l, unrefDevices) ==
    /\ liveLists' = liveLists \ {l}
    /\ Unref(IF unrefDevices THEN members[l] ELSE {})

\* Objects got from lo go out of use, except those to keep.
LetGo(source, kept) ==
    basis' = [w \in DeviceObjects |->
                IF w \in kept THEN "reference"
                ELSE IF basis[w] = source THEN "nothing" ELSE basis[w]]

\* With unrefDevices false the references of the list pass to the client, which
\* keeps one Device object for each.
FreeDeviceList(lo, unrefDevices, kept) ==
    /\ deviceListPointer[lo] # NULL
    /\ \A w \in kept : basis[w] = lo
    /\ unrefDevices => kept = {}
    /\ ~unrefDevices =>
         \A d \in members[deviceListPointer[lo]] :
             Cardinality({w \in kept : devicePointer[w] = d}) = 1
    /\ LibusbFreeDeviceList(deviceListPointer[lo], unrefDevices)
    /\ LetGo(lo, kept)
    /\ deviceListPointer' = [deviceListPointer EXCEPT ![lo] = NULL]
    /\ UNCHANGED <<presence, members, handleVars, devicePointer>>

-----------------------------------------------------------------------------
(***************************************************************************)
(* Device handles.                                                         *)
(***************************************************************************)

\* libusb_open gives a handle, with a reference to the device.
LibusbOpen(d, h) ==
    /\ h \notin liveHandles
    /\ liveHandles' = liveHandles \cup {h}
    /\ opened' = [opened EXCEPT ![h] = d]
    /\ Ref({d})

\* Mutant: open without VALIDATE_POINTER_NOT_SET.
OpenUnchecked(w, ho, h) ==
    /\ MayUse(w)
    /\ LibusbOpen(devicePointer[w], h)
    /\ deviceHandlePointer' = [deviceHandlePointer EXCEPT ![ho] = h]
    /\ UNCHANGED <<presence, listVars, objectVars>>

\* When libusb_open fails its result is returned: no step.
Open(w, ho, h) ==
    /\ MayUse(w)
    /\ deviceHandlePointer[ho] = NULL
    /\ LibusbOpen(devicePointer[w], h)
    /\ deviceHandlePointer' = [deviceHandlePointer EXCEPT ![ho] = h]
    /\ UNCHANGED <<presence, listVars, objectVars>>

\* wrapDeviceHandle makes the object, so it is one not in use.
OpenDeviceWithVidPid(d, ho, h) ==
    /\ presence[d] = "attached"
    /\ deviceHandlePointer[ho] = NULL
    /\ LibusbOpen(d, h)
    /\ deviceHandlePointer' = [deviceHandlePointer EXCEPT ![ho] = h]
    /\ UNCHANGED <<presence, listVars, objectVars>>

\* Mutant: close without resetDeviceHandle.
CloseUnreset(ho) ==
    /\ deviceHandlePointer[ho] # NULL
    /\ liveHandles' = liveHandles \ {deviceHandlePointer[ho]}
    /\ Unref({opened[deviceHandlePointer[ho]]})
    /\ LetGo(ho, {})
    /\ UNCHANGED <<presence, listVars, opened, deviceHandlePointer, devicePointer>>

Close(ho) ==
    /\ deviceHandlePointer[ho] # NULL
    /\ liveHandles' = liveHandles \ {deviceHandlePointer[ho]}
    /\ Unref({opened[deviceHandlePointer[ho]]})
    /\ LetGo(ho, {})
    /\ deviceHandlePointer' = [deviceHandlePointer EXCEPT ![ho] = NULL]
    /\ UNCHANGED <<presence, listVars, opened, devicePointer>>

\* Mutant: the handle is wrapped in place of its device.
GetDeviceOfHandle(ho, w) ==
    /\ deviceHandlePointer[ho] # NULL
    /\ WrapDevice(w, deviceHandlePointer[ho], ho)
    /\ UNCHANGED <<presence, refcnt, listVars, handleVars>>

GetDevice(ho, w) ==
    /\ deviceHandlePointer[ho] # NULL
    /\ WrapDevice(w, opened[deviceHandlePointer[ho]], ho)
    /\ UNCHANGED <<presence, refcnt, listVars, handleVars>>

-----------------------------------------------------------------------------
DeviceSteps(w) ==
    \/ UnrefDevice(w) \/ Forget(w) \/ HotplugReturns(w)
    \/ \E d \in Devices : HotplugCallback(d, w)
    \/ \E new \in DeviceObjects : RefDevice(w, new) \/ GetParent(w, new)
    \/ \E ho \in HandleObjects, h \in Handles : Open(w, ho, h)

ListSteps(lo) ==
    \/ \E l \in Lists : GetDeviceList(lo, l)
    \/ \E d \in Devices, w \in DeviceObjects : Get(lo, d, w)
    \/ \E unrefDevices \in BOOLEAN, kept \in SUBSET DeviceObjects :
          FreeDeviceList(lo, unrefDevices, kept)

HandleSteps(ho) ==
    \/ \E d \in Devices, h \in Handles : OpenDeviceWithVidPid(d, ho, h)
    \/ \E w \in DeviceObjects : GetDevice(ho, w)
    \/ Close(ho)

Next ==
    \/ \E d \in Devices : Attach(d) \/ Detach(d) \/ Leave(d)
    \/ \E w \in DeviceObjects : DeviceSteps(w)
    \/ \E lo \in ListObjects : ListSteps(lo)
    \/ \E ho \in HandleObjects : HandleSteps(ho)

Spec == Init /\ [][Next]_vars

-----------------------------------------------------------------------------
ListRefs(d) ==
    {lo \in ListObjects : deviceListPointer[lo] # NULL /\ d \in members[deviceListPointer[lo]]}
HandleRefs(d) ==
    {ho \in HandleObjects : deviceHandlePointer[ho] # NULL /\ opened[deviceHandlePointer[ho]] = d}
ObjectRefs(d) == {w \in DeviceObjects : basis[w] = "reference" /\ devicePointer[w] = d}

\* libusb counts for a device exactly those who may use it: the bus, the lists
\* and handles a Java object still names, and the references the client got from
\* refDevice or from a list freed without unrefDevices.  A call that took or gave
\* back one too many would leak the device or destroy it in use.
RefcountExact ==
    \A d \in Devices :
        refcnt[d] = (IF OnBus(d) THEN 1 ELSE 0) + Cardinality(ListRefs(d))
                      + Cardinality(HandleRefs(d)) + Cardinality(ObjectRefs(d))

\* A Device object the client trusts names a device not yet destroyed, wherever
\* it came from and whatever has been unplugged, freed or closed since: the one
\* lent to a hotplug callback, and what the callback made of it, too.
TrustedObjectsLive == \A w \in DeviceObjects : MayUse(w) => refcnt[devicePointer[w]] > 0

DeviceList == INSTANCE Ownership
    WITH Objects <- ListObjects, Resources <- Lists,
         pointer <- deviceListPointer, live <- liveLists
DeviceHandle == INSTANCE Ownership
    WITH Objects <- HandleObjects, Resources <- Handles,
         pointer <- deviceHandlePointer, live <- liveHandles

\* Lists and handles implement Ownership: no step but a get or an open gives an
\* object its list or handle, only its own free or close takes it away, and at no
\* step does one change hands.
ListsOwned == DeviceList!Spec
HandlesOwned == DeviceHandle!Spec
==============================================================================
