\* Types of 1, 2, 4 and 5 bits in place of 8, 16, 32 and 64, so that every value of every
\* type is tried; buffers of 3 and 7 bytes, one longer than the 16 bit type can tell.
CONSTANTS
    large = large  small = small  heap = heap
    NULL = NULL
    Buffers <- ThreeBuffers
    Capacity <- CapacityOfBuffer
    HeapBuffers <- OneHeapBuffer
    SignBit <- NarrowTypes
    Configurations <- ZeroAndOne
    PointerBytes = 8
    LongBytes = 4
    MicrosPerSecond = 3
    StringBytes = 4
    MaxPollfds = 2
SPECIFICATION Spec
INVARIANTS
    TypeOK
    AccessesInBounds
    ResultsTellTruth
    TimeoutsKept
    TimeoutsReturn
    FieldsKept
