--------------------------- MODULE DescriptorsProof ---------------------------
(***************************************************************************)
(* Proofs about Descriptors: for any number of objects and blocks, what an *)
(* accessor returns is what the client asked for; and what the name of one *)
(* field decides.                                                          *)
(***************************************************************************)
EXTENDS Descriptors, TLAPS

(***************************************************************************)
(* The inductive invariant: a root that is set owns a live block with what *)
(* was asked of it, and a view the client may use points into that block.  *)
(***************************************************************************)
RootsFilled ==
    \A r \in Roots : descriptorPointer[r] # NULL =>
        descriptorPointer[r] \in liveBlocks /\ content[descriptorPointer[r]] = asked[r]

ViewsInside ==
    \A v \in Views : viewClass[v] # NULL =>
        /\ origin[v] # NULL
        /\ descriptorPointer[origin[v]] # NULL
        /\ viewPointer[v] \in {NULL, descriptorPointer[origin[v]]}

DescriptorsInv ==
    TypeOK /\ DeviceDescriptorTellsTruth /\ RootsFilled /\ ViewsInside /\ OneRootEach

LEMMA InitDescriptorsInv == Init => DescriptorsInv
<1> SUFFICES ASSUME Init PROVE DescriptorsInv
  OBVIOUS
<1>1. TypeOK
  BY DEF Init, TypeOK
<1> QED
  BY <1>1 DEF Init, DescriptorsInv, DeviceDescriptorTellsTruth, DeviceDescriptorRead, RootsFilled,
     ViewsInside, OneRootEach

\* getDeviceDescriptor, successful or not.
LEMMA DeviceStep ==
  ASSUME DescriptorsInv, NEW dd \in DeviceDescriptors, NEW d \in Devices,
         GetDeviceDescriptor(dd, d) \/ GetDeviceDescriptorFails(dd, d), UNCHANGED bosDevCapabilityWrapField
  PROVE  DescriptorsInv'
<1> USE DescriptorsAssumption DEF DescriptorsInv
<1>1. TypeOK' /\ DeviceDescriptorTellsTruth'
  <2>1. CASE GetDeviceDescriptor(dd, d)
    BY <2>1 DEF GetDeviceDescriptor, TypeOK, DeviceDescriptorTellsTruth, DeviceDescriptorRead,
       blockVars, viewVars
  <2>2. CASE GetDeviceDescriptorFails(dd, d)
    BY <2>2 DEF GetDeviceDescriptorFails, TypeOK, DeviceDescriptorTellsTruth,
       DeviceDescriptorRead, blockVars, viewVars
  <2> QED
    BY <2>1, <2>2
<1>2. /\ UNCHANGED <<blockVars, viewVars>>
      /\ \A r \in Roots : asked'[r] = asked[r]
  BY DEF GetDeviceDescriptor, GetDeviceDescriptorFails, TypeOK
<1> QED
  BY <1>1, <1>2 DEF RootsFilled, ViewsInside, OneRootEach, blockVars, viewVars

LEMMA SetRootStep ==
  ASSUME DescriptorsInv, NEW r \in Roots, NEW d \in Devices, NEW b \in Blocks,
         SetRoot(r, d, b), UNCHANGED bosDevCapabilityWrapField
  PROVE  DescriptorsInv'
<1> USE DescriptorsAssumption DEF DescriptorsInv, SetRoot, deviceVars, viewVars
<1>1. TypeOK'
  BY DEF TypeOK
<1>2. DeviceDescriptorTellsTruth'
  BY DEF TypeOK, DeviceDescriptorTellsTruth, DeviceDescriptorRead
<1>3. RootsFilled'
  BY DEF TypeOK, RootsFilled
<1>4. ViewsInside'
  BY DEF TypeOK, ViewsInside
<1>5. OneRootEach'
  BY DEF TypeOK, RootsFilled, OneRootEach
<1> QED
  BY <1>1, <1>2, <1>3, <1>4, <1>5

LEMMA FreeRootStep ==
  ASSUME DescriptorsInv, NEW r \in Roots, FreeRoot(r), UNCHANGED bosDevCapabilityWrapField
  PROVE  DescriptorsInv'
<1> USE DescriptorsAssumption DEF DescriptorsInv, FreeRoot, GiveUpViews, deviceVars
<1>1. TypeOK'
  BY DEF TypeOK
<1>2. DeviceDescriptorTellsTruth'
  BY DEF TypeOK, DeviceDescriptorTellsTruth, DeviceDescriptorRead
<1>3. RootsFilled'
  BY DEF TypeOK, RootsFilled, OneRootEach
<1>4. ViewsInside'
  BY DEF TypeOK, ViewsInside
<1>5. OneRootEach'
  BY DEF TypeOK, OneRootEach
<1> QED
  BY <1>1, <1>2, <1>3, <1>4, <1>5

\* A new view of a root that is set, or of another view of that root.
LEMMA NewViewStep ==
  ASSUME DescriptorsInv, NEW v \in Views, NEW class \in ViewClasses, NEW r \in Roots,
         NEW pointer \in {NULL, descriptorPointer[r]}, descriptorPointer[r] # NULL,
         NewView(v, class, pointer, r), UNCHANGED bosDevCapabilityWrapField
  PROVE  DescriptorsInv'
<1> USE DescriptorsAssumption DEF DescriptorsInv, NewView, deviceVars, blockVars
<1>1. TypeOK'
  BY DEF TypeOK
<1>2. ViewsInside'
  BY DEF TypeOK, ViewsInside
<1> QED
  BY <1>1, <1>2 DEF DeviceDescriptorTellsTruth, DeviceDescriptorRead, RootsFilled, OneRootEach

LEMMA WrapPointerStep ==
  ASSUME DescriptorsInv, NEW v \in Views, NEW class \in ViewClasses, NEW r \in Roots,
         NEW pointer \in {NULL, descriptorPointer[r]}, descriptorPointer[r] # NULL,
         WrapPointer(v, class, pointer, r), UNCHANGED bosDevCapabilityWrapField
  PROVE  DescriptorsInv'
<1> DEFINE stored == IF WrapField[class] = UnwrapField[class] THEN pointer ELSE NULL
<1>1. stored \in {NULL, descriptorPointer[r]} /\ NewView(v, class, stored, r)
  BY DEF WrapPointer
<1> HIDE DEF stored
<1> QED
  BY <1>1, NewViewStep

\* The root of a view in use, as the views reached from it need it.
LEMMA OriginFacts ==
  ASSUME DescriptorsInv, NEW u \in Views, viewClass[u] # NULL
  PROVE  /\ origin[u] \in Roots
         /\ descriptorPointer[origin[u]] # NULL
         /\ viewPointer[u] \in {NULL, descriptorPointer[origin[u]]}
BY DEF DescriptorsInv, TypeOK, ViewsInside

LEMMA ViewStep ==
  ASSUME DescriptorsInv, NEW u \in Views, NEW v \in Views, ViewSteps(u, v),
         UNCHANGED bosDevCapabilityWrapField
  PROVE  DescriptorsInv'
<1>1. viewClass[u] # NULL
  BY DescriptorsAssumption DEF ViewSteps, Altsetting, Endpoint, BufferOfView, ViewClasses
<1>2. CASE Altsetting(u, v)
  BY <1>1, <1>2, OriginFacts, WrapPointerStep DEF Altsetting, ViewClasses
<1>3. CASE Endpoint(u, v)
  BY <1>1, <1>3, OriginFacts, WrapPointerStep DEF Endpoint, ViewClasses
<1>4. CASE BufferOfView(u, v)
  BY <1>1, <1>4, OriginFacts, NewViewStep
  DEF BufferOfView, NewDirectReadOnlyByteBuffer, ViewClasses
<1> QED
  BY <1>2, <1>3, <1>4 DEF ViewSteps

LEMMA GetStep ==
  ASSUME DescriptorsInv, NEW r \in Roots, GetSteps(r), UNCHANGED bosDevCapabilityWrapField
  PROVE  DescriptorsInv'
<1>1. ASSUME NEW d \in Devices, NEW b \in Blocks,
             GetConfigDescriptor(r, d, b) \/ GetBosDescriptor(r, d, b)
      PROVE  DescriptorsInv'
  BY <1>1, SetRootStep DEF GetConfigDescriptor, GetBosDescriptor
<1>2. ASSUME NEW v \in Views, NEW b \in Blocks,
             GetSsEndpointCompanionDescriptor(v, r, b) \/ GetCapabilityDescriptor(v, r, b)
      PROVE  DescriptorsInv'
  BY <1>2, SetRootStep DEF GetSsEndpointCompanionDescriptor, GetCapabilityDescriptor
<1> QED
  BY <1>1, <1>2 DEF GetSteps

LEMMA FreeStep ==
  ASSUME DescriptorsInv, NEW r \in Roots, FreeSteps(r), UNCHANGED bosDevCapabilityWrapField
  PROVE  DescriptorsInv'
BY FreeRootStep DEF FreeSteps, FreeConfigDescriptor, FreeSsEndpointCompanionDescriptor,
   FreeBosDescriptor, FreeCapabilityDescriptor

LEMMA RootViewStep ==
  ASSUME DescriptorsInv, NEW r \in Roots, NEW v \in Views,
         Iface(r, v) \/ DevCapability(r, v) \/ BufferOfRoot(r, v),
         UNCHANGED bosDevCapabilityWrapField
  PROVE  DescriptorsInv'
<1>1. CASE Iface(r, v)
  BY <1>1, WrapPointerStep DEF Iface, ViewClasses
<1>2. CASE DevCapability(r, v)
  BY <1>2, WrapPointerStep DEF DevCapability, ViewClasses
<1>3. CASE BufferOfRoot(r, v)
  BY <1>3, NewViewStep DEF BufferOfRoot, NewDirectReadOnlyByteBuffer, ViewClasses
<1> QED
  BY <1>1, <1>2, <1>3

LEMMA GiveUpStep ==
  ASSUME DescriptorsInv, NEW v \in Views, GiveUp(v), UNCHANGED bosDevCapabilityWrapField
  PROVE  DescriptorsInv'
<1> USE DEF DescriptorsInv, GiveUp, deviceVars, blockVars
<1>1. TypeOK'
  BY DEF TypeOK
<1>2. ViewsInside'
  BY DEF TypeOK, ViewsInside
<1> QED
  BY <1>1, <1>2 DEF DeviceDescriptorTellsTruth, DeviceDescriptorRead, RootsFilled, OneRootEach

LEMMA DescriptorsInvStep == DescriptorsInv /\ [Next]_vars => DescriptorsInv'
<1> SUFFICES ASSUME DescriptorsInv, [Next]_vars PROVE DescriptorsInv'
  OBVIOUS
<1>1. CASE UNCHANGED vars
  BY <1>1 DEF vars, DescriptorsInv, TypeOK, DeviceDescriptorTellsTruth, DeviceDescriptorRead,
     RootsFilled, ViewsInside, OneRootEach
<1> QED
  BY <1>1, DeviceStep, GetStep, FreeStep, RootViewStep, ViewStep, GiveUpStep DEF Next

LEMMA DescriptorsInvariance == Spec => []DescriptorsInv
BY InitDescriptorsInv, DescriptorsInvStep, PTL DEF Spec

-----------------------------------------------------------------------------
\* Every variable keeps its type.
THEOREM DescriptorsTyped == Spec => []TypeOK
<1>1. DescriptorsInv => TypeOK
  BY DEF DescriptorsInv
<1> QED
  BY <1>1, DescriptorsInvariance, PTL

\* A DeviceDescriptor throws or tells of the device last asked for, also after a
\* getDeviceDescriptor that failed.
THEOREM DeviceDescriptorHonest == Spec => []DeviceDescriptorTellsTruth
<1>1. DescriptorsInv => DeviceDescriptorTellsTruth
  BY DEF DescriptorsInv
<1> QED
  BY <1>1, DescriptorsInvariance, PTL

\* No accessor of a root reads a block that was freed or filled for another root.
THEOREM RootsHonest == Spec => []RootsTellTruth
<1>1. DescriptorsInv => RootsTellTruth
  BY DEF DescriptorsInv, RootsFilled, RootsTellTruth, RootRead, Read
<1> QED
  BY <1>1, DescriptorsInvariance, PTL

\* Nor does one of a view, at any depth, before its root is freed.
THEOREM ViewsHonest == Spec => []ViewsTellTruth
<1>1. ASSUME DescriptorsInv, NEW v \in Views, viewClass[v] # NULL
      PROVE  ViewRead(v) \in {"throws", asked[origin[v]]}
  BY <1>1, OriginFacts DEF DescriptorsInv, RootsFilled, ViewRead, Read
<1>2. DescriptorsInv => ViewsTellTruth
  BY <1>1 DEF ViewsTellTruth
<1> QED
  BY <1>2, DescriptorsInvariance, PTL

\* No block is lost, freed twice or shared.
THEOREM BlocksOwned == Spec => []OneRootEach
<1>1. DescriptorsInv => OneRootEach
  BY DEF DescriptorsInv
<1> QED
  BY <1>1, DescriptorsInvariance, PTL

-----------------------------------------------------------------------------
LEMMA RootInitOwns == Init => RootOwner!Init
BY DEF Init, RootOwner!Init

\* Only SetRoot and FreeRoot touch the pointers and the blocks.
LEMMA RootStepOwns ==
  ASSUME DescriptorsInv, [Next]_vars
  PROVE  [RootOwner!Next]_<<descriptorPointer, liveBlocks>>
<1> DEFINE Owned == [RootOwner!Next]_<<descriptorPointer, liveBlocks>>
<1>1. ASSUME NEW r \in Roots, NEW d \in Devices, NEW b \in Blocks, SetRoot(r, d, b)
      PROVE  Owned
  <2>1. RootOwner!Acquire(r, b)
    BY <1>1 DEF SetRoot, RootOwner!Acquire
  <2> QED
    BY <2>1 DEF RootOwner!Next
<1>2. ASSUME NEW r \in Roots, FreeRoot(r)
      PROVE  Owned
  <2>1. RootOwner!Release(r)
    BY <1>2 DEF FreeRoot, RootOwner!Release
  <2> QED
    BY <2>1 DEF RootOwner!Next
<1>3. ASSUME UNCHANGED <<descriptorPointer, liveBlocks>>
      PROVE  Owned
  BY <1>3
<1>4. ASSUME NEW r \in Roots, GetSteps(r)
      PROVE  Owned
  BY <1>1, <1>4 DEF GetSteps, GetConfigDescriptor, GetBosDescriptor,
     GetSsEndpointCompanionDescriptor, GetCapabilityDescriptor
<1>5. ASSUME NEW r \in Roots, FreeSteps(r)
      PROVE  Owned
  BY <1>2, <1>5 DEF FreeSteps, FreeConfigDescriptor, FreeSsEndpointCompanionDescriptor,
     FreeBosDescriptor, FreeCapabilityDescriptor
<1>6. ASSUME NEW dd \in DeviceDescriptors, NEW d \in Devices,
             GetDeviceDescriptor(dd, d) \/ GetDeviceDescriptorFails(dd, d)
      PROVE  Owned
  BY <1>3, <1>6 DEF GetDeviceDescriptor, GetDeviceDescriptorFails, blockVars
<1>7. ASSUME NEW v \in Views, NEW class, NEW pointer, NEW r, NewView(v, class, pointer, r)
      PROVE  Owned
  BY <1>3, <1>7 DEF NewView, blockVars
<1>8. ASSUME NEW r \in Roots, NEW v \in Views,
             Iface(r, v) \/ DevCapability(r, v) \/ BufferOfRoot(r, v)
      PROVE  Owned
  BY <1>7, <1>8 DEF Iface, DevCapability, BufferOfRoot, WrapPointer, NewDirectReadOnlyByteBuffer
<1>9. ASSUME NEW u \in Views, NEW v \in Views, ViewSteps(u, v)
      PROVE  Owned
  BY <1>7, <1>9 DEF ViewSteps, Altsetting, Endpoint, BufferOfView, WrapPointer,
     NewDirectReadOnlyByteBuffer
<1>10. ASSUME NEW v \in Views, GiveUp(v)
       PROVE  Owned
  BY <1>3, <1>10 DEF GiveUp, blockVars
<1>11. CASE UNCHANGED vars
  BY <1>3, <1>11 DEF vars
<1>12. CASE Next
  <2>1. CASE \E r \in Roots : GetSteps(r) \/ FreeSteps(r)
    BY <1>4, <1>5, <2>1
  <2>2. CASE \E dd \in DeviceDescriptors, d \in Devices :
               GetDeviceDescriptor(dd, d) \/ GetDeviceDescriptorFails(dd, d)
    BY <1>6, <2>2
  <2>3. CASE \E r \in Roots, v \in Views :
               Iface(r, v) \/ DevCapability(r, v) \/ BufferOfRoot(r, v)
    BY <1>8, <2>3
  <2>4. CASE \E u, v \in Views : ViewSteps(u, v)
    BY <1>9, <2>4
  <2>5. CASE \E v \in Views : GiveUp(v)
    BY <1>10, <2>5
  <2> QED
    BY <1>12, <2>1, <2>2, <2>3, <2>4, <2>5 DEF Next
<1> QED
  BY <1>11, <1>12

\* Every step of the descriptors is, for the objects that own blocks, a step of
\* Ownership or none.
THEOREM RootsImplementOwnership == Spec => RootsOwned
<1>1. DescriptorsInv /\ [Next]_vars => [RootOwner!Next]_<<descriptorPointer, liveBlocks>>
  BY RootStepOwns
<1> QED
  BY <1>1, RootInitOwns, DescriptorsInvariance, PTL DEF Spec, RootsOwned, RootOwner!Spec

-----------------------------------------------------------------------------
(***************************************************************************)
(* What the name of one field decides.                                     *)
(***************************************************************************)
NameIntended == bosDevCapabilityWrapField = UnwrapField["BosDevCapabilityDescriptor"]

\* The wrappers without their pointer are those of capabilities, if their name is
\* not the intended one, and no others; and without wrappers nothing is got from a
\* capability.
WrappersExact ==
    \A v \in Views : viewClass[v] # NULL =>
        (viewPointer[v] = NULL
            <=> viewClass[v] = "BosDevCapabilityDescriptor" /\ ~NameIntended)

CapabilitiesEmpty ==
    ~NameIntended =>
        \A r \in Roots : RootClass[r] \in CapabilityClasses => descriptorPointer[r] = NULL

LEMMA FieldsMatch ==
  ASSUME NEW class \in {"Interface", "InterfaceDescriptor", "EndpointDescriptor"}
  PROVE  /\ WrapField[class] = UnwrapField[class]
         /\ WrapField["BosDevCapabilityDescriptor"] = UnwrapField["BosDevCapabilityDescriptor"]
              <=> NameIntended
BY DEF WrapField, UnwrapField, NameIntended

\* A step that makes views of one class only, or none.
LEMMA NewViewExact ==
  ASSUME TypeOK, WrappersExact, NEW v \in Views, NEW class \in ViewClasses, NEW pointer, NEW r,
         NewView(v, class, pointer, r), UNCHANGED bosDevCapabilityWrapField,
         pointer = NULL <=> class = "BosDevCapabilityDescriptor" /\ ~NameIntended
  PROVE  WrappersExact'
<1>1. /\ viewClass'[v] = class /\ viewPointer'[v] = pointer
      /\ \A u \in Views : u # v => viewClass'[u] = viewClass[u] /\ viewPointer'[u] = viewPointer[u]
  BY DEF NewView, TypeOK
<1>2. NameIntended' <=> NameIntended
  BY DEF NameIntended, UnwrapField
<1> QED
  BY <1>1, <1>2 DEF WrappersExact

LEMMA WrappersExactStep ==
  ASSUME DescriptorsInv, WrappersExact, [Next]_vars
  PROVE  WrappersExact'
<1> USE DescriptorsAssumption
<1>t. TypeOK
  BY DEF DescriptorsInv
<1>c. UNCHANGED bosDevCapabilityWrapField
  BY DEF Next, vars
<1>n. NameIntended' <=> NameIntended
  BY <1>c DEF NameIntended, UnwrapField
<1>1. ASSUME UNCHANGED <<viewClass, viewPointer>>
      PROVE  WrappersExact'
  BY <1>n, <1>1 DEF WrappersExact
<1>2. ASSUME NEW r \in Roots, GetSteps(r)
      PROVE  WrappersExact'
  BY <1>1, <1>2 DEF GetSteps, GetConfigDescriptor, GetBosDescriptor,
     GetSsEndpointCompanionDescriptor, GetCapabilityDescriptor, SetRoot, viewVars
<1>3. ASSUME NEW r \in Roots, FreeSteps(r)
      PROVE  WrappersExact'
  <2>1. \A v \in Views :
          \/ viewClass'[v] = NULL
          \/ viewClass'[v] = viewClass[v] /\ viewPointer'[v] = viewPointer[v]
    BY <1>3 DEF FreeSteps, FreeConfigDescriptor, FreeSsEndpointCompanionDescriptor,
       FreeBosDescriptor, FreeCapabilityDescriptor, FreeRoot, GiveUpViews
  <2> QED
    BY <1>n, <2>1 DEF WrappersExact
<1>4. ASSUME NEW r \in Roots, NEW v \in Views, Iface(r, v) \/ DevCapability(r, v)
      PROVE  WrappersExact'
  BY <1>t, <1>c, <1>4, FieldsMatch, NewViewExact DEF Iface, DevCapability, WrapPointer, ViewClasses
<1>5. ASSUME NEW r \in Roots, NEW v \in Views, BufferOfRoot(r, v)
      PROVE  WrappersExact'
  BY <1>t, <1>c, <1>5, NewViewExact DEF BufferOfRoot, NewDirectReadOnlyByteBuffer, ViewClasses
<1>6. ASSUME NEW u \in Views, NEW v \in Views, Altsetting(u, v) \/ Endpoint(u, v)
      PROVE  WrappersExact'
  BY <1>t, <1>c, <1>6, FieldsMatch, NewViewExact DEF Altsetting, Endpoint, WrapPointer, ViewClasses
<1>7. ASSUME NEW u \in Views, NEW v \in Views, BufferOfView(u, v)
      PROVE  WrappersExact'
  BY <1>t, <1>c, <1>7, NewViewExact DEF BufferOfView, NewDirectReadOnlyByteBuffer, ViewClasses
<1>8. ASSUME NEW v \in Views, GiveUp(v)
      PROVE  WrappersExact'
  <2>1. \A u \in Views :
          \/ viewClass'[u] = NULL
          \/ viewClass'[u] = viewClass[u] /\ viewPointer'[u] = viewPointer[u]
    BY <1>t, <1>8 DEF GiveUp, TypeOK
  <2> QED
    BY <1>n, <2>1 DEF WrappersExact
<1>9. ASSUME NEW dd \in DeviceDescriptors, NEW d \in Devices,
             GetDeviceDescriptor(dd, d) \/ GetDeviceDescriptorFails(dd, d)
      PROVE  WrappersExact'
  BY <1>1, <1>9 DEF GetDeviceDescriptor, GetDeviceDescriptorFails, viewVars
<1>10. CASE UNCHANGED vars
  BY <1>1, <1>10 DEF vars
<1> QED
  BY <1>2, <1>3, <1>4, <1>5, <1>6, <1>7, <1>8, <1>9, <1>10 DEF Next, ViewSteps

LEMMA CapabilitiesEmptyStep ==
  ASSUME DescriptorsInv, WrappersExact, CapabilitiesEmpty, [Next]_vars
  PROVE  CapabilitiesEmpty'
<1> USE DescriptorsAssumption
<1>1. NameIntended' <=> NameIntended
  BY DEF Next, vars, NameIntended, UnwrapField
<1> SUFFICES ASSUME ~NameIntended, NEW r \in Roots, RootClass[r] \in CapabilityClasses
             PROVE  descriptorPointer'[r] = NULL
  BY <1>1 DEF CapabilitiesEmpty
<1>2. descriptorPointer[r] = NULL /\ TypeOK
  BY DEF CapabilitiesEmpty, DescriptorsInv
<1>3. ASSUME NEW q \in Roots, GetSteps(q)
      PROVE  descriptorPointer'[r] = NULL
  <2>1. CASE q = r
    <3>1. PICK v \in Views, b \in Blocks : GetCapabilityDescriptor(v, r, b)
      BY <1>3, <2>1 DEF GetSteps, GetConfigDescriptor, GetBosDescriptor,
         GetSsEndpointCompanionDescriptor, CapabilityClasses
    <3>2. viewClass[v] = "BosDevCapabilityDescriptor" /\ viewPointer[v] = NULL
      BY <3>1 DEF GetCapabilityDescriptor, WrappersExact, ViewClasses
    <3> QED
      BY <3>1, <3>2 DEF GetCapabilityDescriptor, ViewRead, Read
  <2>2. CASE q # r
    BY <1>2, <1>3, <2>2 DEF GetSteps, GetConfigDescriptor, GetBosDescriptor,
       GetSsEndpointCompanionDescriptor, GetCapabilityDescriptor, SetRoot, TypeOK
  <2> QED
    BY <2>1, <2>2
<1>4. ASSUME NEW q \in Roots, FreeSteps(q)
      PROVE  descriptorPointer'[r] = NULL
  BY <1>2, <1>4 DEF FreeSteps, FreeConfigDescriptor, FreeSsEndpointCompanionDescriptor,
     FreeBosDescriptor, FreeCapabilityDescriptor, FreeRoot, TypeOK
<1>5. (\A q \in Roots : ~GetSteps(q) /\ ~FreeSteps(q)) => UNCHANGED descriptorPointer
  BY DEF Next, vars, GetDeviceDescriptor, GetDeviceDescriptorFails, Iface, DevCapability,
     BufferOfRoot, ViewSteps, Altsetting, Endpoint, BufferOfView, GiveUp, WrapPointer,
     NewDirectReadOnlyByteBuffer, NewView, blockVars
<1> QED
  BY <1>2, <1>3, <1>4, <1>5

LEMMA WrappersInvariance == Spec => [](WrappersExact /\ CapabilitiesEmpty)
<1>1. Init => WrappersExact /\ CapabilitiesEmpty
  BY DEF Init, WrappersExact, CapabilitiesEmpty
<1>2. DescriptorsInv /\ WrappersExact /\ CapabilitiesEmpty /\ [Next]_vars
        => (WrappersExact /\ CapabilitiesEmpty)'
  BY WrappersExactStep, CapabilitiesEmptyStep
<1> QED
  BY <1>1, <1>2, DescriptorsInvariance, PTL DEF Spec

\* With the name that is read again every wrapper holds its pointer: wrapPointer and
\* unwrapPointer agree on every other class, so the name of that one field is all
\* that the run descriptors_wrap finds wrong.
THEOREM IntendedNameHolds ==
  BosDevCapabilityWrapFields = {"bosDevCapabilityDescriptorPointer"}
    => (Spec => []WrappersHoldPointers)
<1> SUFFICES ASSUME BosDevCapabilityWrapFields = {"bosDevCapabilityDescriptorPointer"}
             PROVE  Spec => []WrappersHoldPointers
  OBVIOUS
<1>1. TypeOK /\ WrappersExact => WrappersHoldPointers
  BY DEF TypeOK, WrappersExact, WrappersHoldPointers, NameIntended, UnwrapField
<1> QED
  BY <1>1, DescriptorsTyped, WrappersInvariance, PTL

\* With any other name no Usb20ExtensionDescriptor, SsUsbDeviceCapabilityDescriptor or
\* ContainerIdDescriptor is ever filled, whatever the device says and whatever a
\* client calls: they cannot be reached from Java.
THEOREM OtherNameHides ==
  "bosDevCapabilityDescriptorPointer" \notin BosDevCapabilityWrapFields
    => (Spec => [](\A r \in Roots :
                     RootClass[r] \in CapabilityClasses => descriptorPointer[r] = NULL))
<1> DEFINE Hidden ==
      \A r \in Roots : RootClass[r] \in CapabilityClasses => descriptorPointer[r] = NULL
<1> SUFFICES ASSUME "bosDevCapabilityDescriptorPointer" \notin BosDevCapabilityWrapFields
             PROVE  Spec => []Hidden
  OBVIOUS
<1>1. TypeOK /\ CapabilitiesEmpty => Hidden
  BY DEF TypeOK, CapabilitiesEmpty, NameIntended, UnwrapField
<1> QED
  BY <1>1, DescriptorsTyped, WrappersInvariance, PTL
=============================================================================
