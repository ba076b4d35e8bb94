---------------------------- MODULE MCDescriptors ----------------------------
(***************************************************************************)
(* Small instances of Descriptors for TLC.                                 *)
(***************************************************************************)
EXTENDS Descriptors, TLC

CONSTANTS d1, d2, dd1, config1, config2, bos, companion, container, v1, v2, v3, b1, b2, b3

TwoDevices == {d1, d2}
OneDeviceDescriptor == {dd1}
FiveRoots == {config1, config2, bos, companion, container}
ClassOfRoot ==
    config1 :> "ConfigDescriptor" @@ config2 :> "ConfigDescriptor"
    @@ bos :> "BosDescriptor" @@ companion :> "SsEndpointCompanionDescriptor"
    @@ container :> "ContainerIdDescriptor"
ThreeViews == {v1, v2, v3}
ThreeBlocks == {b1, b2, b3}

\* What the code says, and what it has to say for the pointer to be found again.
NameInCode == {"/bosDevCapabilityDescriptorPointer"}
BothNames == NameInCode \cup {"bosDevCapabilityDescriptorPointer"}

Symmetry == Permutations(Devices) \cup Permutations(Views) \cup Permutations(Blocks)
==============================================================================
