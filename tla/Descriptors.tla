----------------------------- MODULE Descriptors -----------------------------
(***************************************************************************)
(* Descriptors: what the Java objects for them read, from which memory, and*)
(* for how long (src/src/LibUsb.c and the *Descriptor.c files).            *)
(*                                                                         *)
(* A DeviceDescriptor brings its own memory, which every getDeviceDescriptor*)
(* overwrites.  ConfigDescriptor, BosDescriptor,                           *)
(* SsEndpointCompanionDescriptor and the descriptors of capabilities are   *)
(* roots: they own a block libusb has allocated.  Interface,               *)
(* InterfaceDescriptor, EndpointDescriptor, BosDevCapabilityDescriptor and *)
(* the read-only buffers are views: they point into the block of the root  *)
(* they were reached from.  A block holds what one device said, and stands *)
(* for all the bytes the accessors return.                                 *)
(*                                                                         *)
(* The field a capability's wrapper is stored in is a parameter, because   *)
(* the name in the code hides all that is got from a capability: what is   *)
(* checked and proved holds with that name and with the one intended.      *)
(*                                                                         *)
(* A client hands a descriptor object to one call at a time, so a call is  *)
(* one step.                                                               *)
(***************************************************************************)
CONSTANTS
    Devices,            \* what descriptors tell of
    DeviceDescriptors,  \* Java objects
    Roots, RootClass,   \* Java objects, and the class of each
    Views,              \* Java objects
    Blocks,             \* addresses libusb allocates descriptors at
    BosDevCapabilityWrapFields,     \* names wrapBosDevCapabilityDescriptor may give its field
    NULL

CapabilityClasses == {"Usb20ExtensionDescriptor", "SsUsbDeviceCapabilityDescriptor",
                      "ContainerIdDescriptor"}
RootClasses == {"ConfigDescriptor", "BosDescriptor", "SsEndpointCompanionDescriptor"}
                  \cup CapabilityClasses
ViewClasses == {"Interface", "InterfaceDescriptor", "EndpointDescriptor",
                "BosDevCapabilityDescriptor", "ByteBuffer"}

ASSUME DescriptorsAssumption ==
    /\ RootClass \in [Roots -> RootClasses]
    /\ DeviceDescriptors \cap Roots = {}
    /\ NULL \notin Devices \cup Blocks \cup Roots \cup ViewClasses
                     \cup {"scrambled", "freed", "throws"}
    /\ Devices \cap {"scrambled", "freed", "throws"} = {}

VARIABLES
    deviceDescriptorPointer, buffer,    \* Java: is the field set?  The memory it leads to
    descriptorPointer,                  \* Java, of roots: their ...Pointer field
    viewClass, viewPointer,             \* Java, of views: their class and pointer field
    liveBlocks, content,                \* the blocks allocated, and what is in them
    asked,                              \* whose descriptor the client last asked for, per object
    origin,                             \* the root a view was reached from, while in use
    bosDevCapabilityWrapField           \* the name this build gives the field; never changes

vars == <<deviceDescriptorPointer, buffer, descriptorPointer, viewClass, viewPointer,
          liveBlocks, content, asked, origin, bosDevCapabilityWrapField>>
deviceVars == <<deviceDescriptorPointer, buffer>>
blockVars == <<descriptorPointer, liveBlocks, content>>
viewVars == <<viewClass, viewPointer, origin>>

TypeOK ==
    /\ deviceDescriptorPointer \in [DeviceDescriptors -> BOOLEAN]
    /\ buffer \in [DeviceDescriptors -> Devices \cup {"scrambled"}]
    /\ descriptorPointer \in [Roots -> Blocks \cup {NULL}]
    /\ viewClass \in [Views -> ViewClasses \cup {NULL}]
    /\ viewPointer \in [Views -> Blocks \cup {NULL}]
    /\ liveBlocks \subseteq Blocks
    /\ content \in [Blocks -> Devices \cup {NULL}]
    /\ asked \in [DeviceDescriptors \cup Roots -> Devices \cup {NULL}]
    /\ origin \in [Views -> Roots \cup {NULL}]
    /\ bosDevCapabilityWrapField \in BosDevCapabilityWrapFields

Init ==
    /\ deviceDescriptorPointer = [dd \in DeviceDescriptors |-> FALSE]
    /\ buffer = [dd \in DeviceDescriptors |-> "scrambled"]
    /\ descriptorPointer = [r \in Roots |-> NULL]
    /\ viewClass = [v \in Views |-> NULL]
    /\ viewPointer = [v \in Views |-> NULL]
    /\ liveBlocks = {}
    /\ content = [b \in Blocks |-> NULL]
    /\ asked = [o \in DeviceDescriptors \cup Roots |-> NULL]
    /\ origin = [v \in Views |-> NULL]
    /\ bosDevCapabilityWrapField \in BosDevCapabilityWrapFields

-----------------------------------------------------------------------------
(***************************************************************************)
(* Accessors.  unwrapPointer throws when the field is not set; a buffer has*)
(* no field to be checked.                                                 *)
(***************************************************************************)
Read(block) ==
    IF block = NULL THEN "throws" ELSE IF block \in liveBlocks THEN content[block] ELSE "freed"

DeviceDescriptorRead(dd) == IF deviceDescriptorPointer[dd] THEN buffer[dd] ELSE "throws"
RootRead(r) == Read(descriptorPointer[r])
ViewRead(v) == Read(viewPointer[v])

-----------------------------------------------------------------------------
(***************************************************************************)
(* The device descriptor.                                                  *)
(***************************************************************************)
GetDeviceDescriptor(dd, d) ==
    /\ buffer' = [buffer EXCEPT ![dd] = d]
    /\ deviceDescriptorPointer' = [deviceDescriptorPointer EXCEPT ![dd] = TRUE]
    /\ asked' = [asked EXCEPT ![dd] = d]
    /\ UNCHANGED <<blockVars, viewVars>>

\* Mutant: a failure is only reported.
GetDeviceDescriptorUnreset(dd, d) ==
    /\ \/ buffer' = [buffer EXCEPT ![dd] = "scrambled"]
       \/ UNCHANGED buffer
    /\ asked' = [asked EXCEPT ![dd] = d]
    /\ UNCHANGED <<deviceDescriptorPointer, blockVars, viewVars>>

\* libusb_get_device_descriptor fails, having written to the buffer or not.
GetDeviceDescriptorFails(dd, d) ==
    /\ \/ buffer' = [buffer EXCEPT ![dd] = "scrambled"]
       \/ UNCHANGED buffer
    /\ deviceDescriptorPointer' = [deviceDescriptorPointer EXCEPT ![dd] = FALSE]
    /\ asked' = [asked EXCEPT ![dd] = d]
    /\ UNCHANGED <<blockVars, viewVars>>

-----------------------------------------------------------------------------
(***************************************************************************)
(* Roots.  A failed libusb call leaves everything as it was: no step.      *)
(***************************************************************************)
\* Mutant: no VALIDATE_POINTER_NOT_SET.
SetRootUnchecked(r, d, b) ==
    /\ b \notin liveBlocks
    /\ liveBlocks' = liveBlocks \cup {b}
    /\ content' = [content EXCEPT ![b] = d]
    /\ descriptorPointer' = [descriptorPointer EXCEPT ![r] = b]
    /\ asked' = [asked EXCEPT ![r] = d]
    /\ UNCHANGED <<deviceVars, viewVars>>

SetRoot(r, d, b) ==
    /\ descriptorPointer[r] = NULL
    /\ b \notin liveBlocks
    /\ liveBlocks' = liveBlocks \cup {b}
    /\ content' = [content EXCEPT ![b] = d]
    /\ descriptorPointer' = [descriptorPointer EXCEPT ![r] = b]
    /\ asked' = [asked EXCEPT ![r] = d]
    /\ UNCHANGED <<deviceVars, viewVars>>

\* getActiveConfigDescriptor, getConfigDescriptor, getConfigDescriptorByValue
GetConfigDescriptor(r, d, b) == RootClass[r] = "ConfigDescriptor" /\ SetRoot(r, d, b)

GetBosDescriptor(r, d, b) == RootClass[r] = "BosDescriptor" /\ SetRoot(r, d, b)

\* libusb parses the extra bytes of the endpoint into a block of its own.
GetSsEndpointCompanionDescriptor(v, r, b) ==
    /\ RootClass[r] = "SsEndpointCompanionDescriptor"
    /\ viewClass[v] = "EndpointDescriptor"
    /\ ViewRead(v) \in Devices
    /\ SetRoot(r, ViewRead(v), b)

\* getUsb20ExtensionDescriptor, getSsUsbDeviceCapabilityDescriptor, getContainerIdDescriptor:
\* libusb copies what the capability says into a block of its own.
GetCapabilityDescriptor(v, r, b) ==
    /\ RootClass[r] \in CapabilityClasses
    /\ viewClass[v] = "BosDevCapabilityDescriptor"
    /\ ViewRead(v) \in Devices
    /\ SetRoot(r, ViewRead(v), b)

\* The client gives up the views of r, and the collector takes them.
GiveUpViews(r) ==
    /\ viewClass' = [v \in Views |-> IF origin[v] = r THEN NULL ELSE viewClass[v]]
    /\ viewPointer' = [v \in Views |-> IF origin[v] = r THEN NULL ELSE viewPointer[v]]
    /\ origin' = [v \in Views |-> IF origin[v] = r THEN NULL ELSE origin[v]]

\* Mutants: the pointer is not reset; the block is not freed.
FreeRootUnreset(r) ==
    /\ descriptorPointer[r] # NULL
    /\ liveBlocks' = liveBlocks \ {descriptorPointer[r]}
    /\ asked' = [asked EXCEPT ![r] = NULL]
    /\ GiveUpViews(r)
    /\ UNCHANGED <<deviceVars, descriptorPointer, content>>

FreeRootUnfreed(r) ==
    /\ descriptorPointer[r] # NULL
    /\ descriptorPointer' = [descriptorPointer EXCEPT ![r] = NULL]
    /\ asked' = [asked EXCEPT ![r] = NULL]
    /\ GiveUpViews(r)
    /\ UNCHANGED <<deviceVars, liveBlocks, content>>

\* What all the functions that free a root do.
FreeRoot(r) ==
    /\ descriptorPointer[r] # NULL
    /\ liveBlocks' = liveBlocks \ {descriptorPointer[r]}
    /\ descriptorPointer' = [descriptorPointer EXCEPT ![r] = NULL]
    /\ asked' = [asked EXCEPT ![r] = NULL]
    /\ GiveUpViews(r)
    /\ UNCHANGED <<deviceVars, content>>

FreeConfigDescriptor(r) == RootClass[r] = "ConfigDescriptor" /\ FreeRoot(r)
FreeSsEndpointCompanionDescriptor(r) ==
    RootClass[r] = "SsEndpointCompanionDescriptor" /\ FreeRoot(r)
FreeBosDescriptor(r) == RootClass[r] = "BosDescriptor" /\ FreeRoot(r)
FreeCapabilityDescriptor(r) == RootClass[r] \in CapabilityClasses /\ FreeRoot(r)

-----------------------------------------------------------------------------
(***************************************************************************)
(* Views.  wrapPointer makes a new object and stores the pointer in a field*)
(* of it; unwrapPointer will look for the pointer in a field of its class. *)
(***************************************************************************)
WrapField == [Interface |-> "interfacePointer",
              InterfaceDescriptor |-> "interfaceDescriptorPointer",
              EndpointDescriptor |-> "endpointDescriptorPointer",
              BosDevCapabilityDescriptor |-> bosDevCapabilityWrapField]

UnwrapField == [Interface |-> "interfacePointer",
                InterfaceDescriptor |-> "interfaceDescriptorPointer",
                EndpointDescriptor |-> "endpointDescriptorPointer",
                BosDevCapabilityDescriptor |-> "bosDevCapabilityDescriptorPointer"]

NewView(v, class, pointer, root) ==
    /\ viewClass[v] = NULL
    /\ viewClass' = [viewClass EXCEPT ![v] = class]
    /\ viewPointer' = [viewPointer EXCEPT ![v] = pointer]
    /\ origin' = [origin EXCEPT ![v] = root]
    /\ UNCHANGED <<deviceVars, blockVars, asked>>

\* GetFieldID finds no field of another name, and the pointer goes nowhere.
WrapPointer(v, class, pointer, root) ==
    NewView(v, class, IF WrapField[class] = UnwrapField[class] THEN pointer ELSE NULL, root)

\* Mutant: the address of the wrong thing is handed out.
NewBufferOfObject(v, pointer, root) == NewView(v, "ByteBuffer", root, root)

NewDirectReadOnlyByteBuffer(v, pointer, root) == NewView(v, "ByteBuffer", pointer, root)

\* ConfigDescriptor.iface, BosDescriptor.devCapability, one element each
Iface(r, v) ==
    /\ RootClass[r] = "ConfigDescriptor" /\ descriptorPointer[r] # NULL
    /\ WrapPointer(v, "Interface", descriptorPointer[r], r)

DevCapability(r, v) ==
    /\ RootClass[r] = "BosDescriptor" /\ descriptorPointer[r] # NULL
    /\ WrapPointer(v, "BosDevCapabilityDescriptor", descriptorPointer[r], r)

\* Interface.altsetting, InterfaceDescriptor.endpoint, one element each
Altsetting(u, v) ==
    /\ viewClass[u] = "Interface" /\ viewPointer[u] # NULL
    /\ WrapPointer(v, "InterfaceDescriptor", viewPointer[u], origin[u])

Endpoint(u, v) ==
    /\ viewClass[u] = "InterfaceDescriptor" /\ viewPointer[u] # NULL
    /\ WrapPointer(v, "EndpointDescriptor", viewPointer[u], origin[u])

\* ConfigDescriptor.extra, ContainerIdDescriptor.containerId
BufferOfRoot(r, v) ==
    /\ RootClass[r] \in {"ConfigDescriptor", "ContainerIdDescriptor"}
    /\ descriptorPointer[r] # NULL
    /\ NewDirectReadOnlyByteBuffer(v, descriptorPointer[r], r)

\* InterfaceDescriptor.extra, EndpointDescriptor.extra,
\* BosDevCapabilityDescriptor.devCapabilityData
BufferOfView(u, v) ==
    /\ viewClass[u] \in {"InterfaceDescriptor", "EndpointDescriptor",
                         "BosDevCapabilityDescriptor"}
    /\ viewPointer[u] # NULL
    /\ NewDirectReadOnlyByteBuffer(v, viewPointer[u], origin[u])

\* The client gives up one view, perhaps one that others were reached through.
GiveUp(v) ==
    /\ viewClass[v] # NULL
    /\ viewClass' = [viewClass EXCEPT ![v] = NULL]
    /\ viewPointer' = [viewPointer EXCEPT ![v] = NULL]
    /\ origin' = [origin EXCEPT ![v] = NULL]
    /\ UNCHANGED <<deviceVars, blockVars, asked>>

-----------------------------------------------------------------------------
GetSteps(r) ==
    \/ \E d \in Devices, b \in Blocks : GetConfigDescriptor(r, d, b) \/ GetBosDescriptor(r, d, b)
    \/ \E v \in Views, b \in Blocks :
          GetSsEndpointCompanionDescriptor(v, r, b) \/ GetCapabilityDescriptor(v, r, b)

FreeSteps(r) ==
    \/ FreeConfigDescriptor(r) \/ FreeSsEndpointCompanionDescriptor(r)
    \/ FreeBosDescriptor(r) \/ FreeCapabilityDescriptor(r)

ViewSteps(u, v) == Altsetting(u, v) \/ Endpoint(u, v) \/ BufferOfView(u, v)

Next ==
    /\ \/ \E dd \in DeviceDescriptors, d \in Devices :
             GetDeviceDescriptor(dd, d) \/ GetDeviceDescriptorFails(dd, d)
       \/ \E r \in Roots : GetSteps(r) \/ FreeSteps(r)
       \/ \E r \in Roots, v \in Views : Iface(r, v) \/ DevCapability(r, v) \/ BufferOfRoot(r, v)
       \/ \E u, v \in Views : ViewSteps(u, v)
       \/ \E v \in Views : GiveUp(v)
    /\ UNCHANGED bosDevCapabilityWrapField

Spec == Init /\ [][Next]_vars

-----------------------------------------------------------------------------
\* "Reset pointer on error, to ensure subsequent accesses will throw exceptions"
\* (LibUsb.c:847): a DeviceDescriptor never tells of another device than the one
\* last asked for, and never shows a buffer written half.
DeviceDescriptorTellsTruth ==
    \A dd \in DeviceDescriptors : DeviceDescriptorRead(dd) \in {"throws", asked[dd]}

\* An accessor of a root throws or reads the block filled for that object, never
\* one freed or filled for another, although addresses are used again.
RootsTellTruth == \A r \in Roots : RootRead(r) \in {"throws", asked[r]}

\* The same of a view, at any depth, as long as the client uses it.
ViewsTellTruth ==
    \A v \in Views : viewClass[v] # NULL => ViewRead(v) \in {"throws", asked[origin[v]]}

\* Every block is owned by exactly one root object: none is lost by a second get,
\* none is freed twice, none is shared by two objects.
OneRootEach ==
    /\ \A b \in liveBlocks : \E r \in Roots : descriptorPointer[r] = b
    /\ \A r1, r2 \in Roots :
          descriptorPointer[r1] = descriptorPointer[r2] /\ descriptorPointer[r1] # NULL => r1 = r2

RootOwner == INSTANCE Ownership
    WITH Objects <- Roots, Resources <- Blocks, pointer <- descriptorPointer, live <- liveBlocks

\* Root objects own their blocks as Ownership says: each step gives an empty object a
\* block no other has, or frees the block of one object and empties it, whatever views
\* there are and whichever function is called.
RootsOwned == RootOwner!Spec

\* "Wrap a C pointer with a wrapper Java class" (usb4java.c:100): what wrapPointer
\* returns can be unwrapped again.
WrappersHoldPointers == \A v \in Views : viewClass[v] # NULL => viewPointer[v] # NULL
==============================================================================
