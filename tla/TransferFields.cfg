\* One transfer, two direct buffers and one without an address, and up to three packets:
\* transfers do not share anything but buffers.
CONSTANTS
    t1 = t1  l1 = l1  b1 = b1  b2 = b2  heap = heap
    NULL = NULL
    Transfers <- OneTransfer
    Listeners <- OneListener
    RebindInFreeCallback = FALSE
    Buffers <- ThreeBuffers
    HeapBuffers <- OneHeapBuffer
    MaxIsoPackets = 3
    SizeModulus = 16
SPECIFICATION Spec
INVARIANTS
    TypeOK
    BufferLive
    PacketsInBlock
