\* The same instance, for the wrappers of capabilities.
CONSTANTS
    d1 = d1  d2 = d2  dd1 = dd1  config1 = config1  config2 = config2
    bos = bos  companion = companion  container = container
    v1 = v1  v2 = v2  v3 = v3  b1 = b1  b2 = b2  b3 = b3
    NULL = NULL
    Devices <- TwoDevices
    DeviceDescriptors <- OneDeviceDescriptor
    Roots <- FiveRoots
    RootClass <- ClassOfRoot
    Views <- ThreeViews
    BosDevCapabilityWrapFields <- NameInCode
    Blocks <- ThreeBlocks
SYMMETRY Symmetry
SPECIFICATION Spec
INVARIANT
    WrappersHoldPointers
