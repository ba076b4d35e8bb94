---------------------------- MODULE TransferFields ----------------------------
(***************************************************************************)
(* The data of a transfer: the buffer libusb reads and writes while it is  *)
(* in flight, and its isochronous packets (the buffer and packet methods of*)
(* src/src/Transfer.c, allocTransfer and freeTransfer of LibUsb.c).        *)
(*                                                                         *)
(* Native code keeps no reference to a buffer.  The address it stores stays*)
(* good because the Java Transfer names the ByteBuffer in its field        *)
(* transferBuffer, and a global reference keeps that Transfer alive until  *)
(* resetTransfer: this module is about that chain.  Whether the length of a*)
(* transfer fits its buffer is up to Java: setLengthNative stores what it  *)
(* is given (Conversions).  The life of a transfer is TransferLifecycle,   *)
(* which Transfers implements; each action here is one of its steps, or one*)
(* of its owner between two of them.                                       *)
(***************************************************************************)
EXTENDS Integers

CONSTANTS
    Transfers, Listeners, RebindInFreeCallback, NULL,
    Buffers,                \* ByteBuffer objects
    HeapBuffers,            \* those that are not direct and have no address
    MaxIsoPackets,          \* bound: packets allocated or asked for
    SizeModulus             \* values of a size_t

ASSUME TransferFieldsAssumption ==
    /\ HeapBuffers \subseteq Buffers
    /\ NULL \notin Buffers
    /\ NULL \notin Transfers /\ Buffers \cap Transfers = {}
    /\ MaxIsoPackets \in Nat /\ SizeModulus \in Nat
    /\ SizeModulus > 2 * MaxIsoPackets + 1

VARIABLES
    phase, autoFree, listener, notice,  \* TransferLifecycle
    held,               \* transfers and buffers the client has a reference to
    memory,             \* the buffers not collected
    pinned,             \* is transferData->transferObject a live global reference?
    transferBuffer,     \* Java: the field resetTransfer clears
    setting,            \* Java: the calls of setBuffer between its native part and the field
    buffer,             \* transfer->buffer
    packets,            \* descriptors libusb_alloc_transfer made room for
    maxNumIsoPackets,   \* transferData->maxNumIsoPackets
    numIsoPackets,      \* transfer->num_iso_packets
    packetViews         \* indices the client has IsoPacketDescriptor objects of

lifeVars == <<phase, autoFree, listener, notice>>
bufferVars == <<transferBuffer, setting, buffer>>
packetVars == <<packets, maxNumIsoPackets, numIsoPackets, packetViews>>
vars == <<lifeVars, held, memory, pinned, bufferVars, packetVars>>

Life == INSTANCE TransferLifecycle

TypeOK ==
    /\ held \subseteq Transfers \cup Buffers
    /\ memory \subseteq Buffers
    /\ pinned \in [Transfers -> BOOLEAN]
    /\ transferBuffer \in [Transfers -> Buffers \cup {NULL}]
    /\ buffer \in [Transfers -> (Buffers \ HeapBuffers) \cup {NULL}]
    /\ setting \subseteq Transfers \X (Buffers \cup {NULL})
    /\ packets \in [Transfers -> Nat]
    /\ maxNumIsoPackets \in [Transfers -> Nat]
    /\ numIsoPackets \in [Transfers -> Int]
    /\ packetViews \in [Transfers -> SUBSET Nat]

Init ==
    /\ Life!Init
    /\ held = {}
    /\ memory = {}
    /\ pinned = [t \in Transfers |-> FALSE]
    /\ transferBuffer = [t \in Transfers |-> NULL]
    /\ buffer = [t \in Transfers |-> NULL]
    /\ setting = {}
    /\ packets = [t \in Transfers |-> 0]
    /\ maxNumIsoPackets = [t \in Transfers |-> 0]
    /\ numIsoPackets = [t \in Transfers |-> 0]
    /\ packetViews = [t \in Transfers |-> {}]

-----------------------------------------------------------------------------
(***************************************************************************)
(* The client and the garbage collector (external).                        *)
(***************************************************************************)
NewBuffer(b) ==
    /\ b \notin memory
    /\ memory' = memory \cup {b}
    /\ held' = held \cup {b}
    /\ UNCHANGED <<lifeVars, pinned, bufferVars, packetVars>>

Drop(object) ==
    /\ object \in held
    /\ held' = held \ {object}
    /\ UNCHANGED <<lifeVars, memory, pinned, bufferVars, packetVars>>

Setting(t) == \E b \in Buffers \cup {NULL} : <<t, b>> \in setting

Reachable(t) == t \in held \/ pinned[t] \/ Setting(t)

Collect(b) ==
    /\ b \in memory \ held
    /\ \A t \in Transfers : <<t, b>> \notin setting
    /\ \A t \in Transfers : Reachable(t) => transferBuffer[t] # b
    /\ memory' = memory \ {b}
    /\ UNCHANGED <<lifeVars, held, pinned, bufferVars, packetVars>>

\* The owner touches an idle transfer, or the listener that is told of t does; no two
\* at once.
MayTouch(t) == t \in held /\ ~Setting(t) /\ (phase[t] = "idle" \/ Life!Telling(t))

-----------------------------------------------------------------------------
\* Mutant: no cleanupCallbackEnable.
AllocTransferUnpinned(t, isoPackets) ==
    /\ Life!Allocate(t)
    /\ held' = held \cup {t}
    /\ packets' = [packets EXCEPT ![t] = isoPackets]
    /\ maxNumIsoPackets' = [maxNumIsoPackets EXCEPT ![t] = isoPackets]
    /\ UNCHANGED <<memory, pinned, bufferVars, numIsoPackets, packetViews>>

\* libusb_alloc_transfer clears what it allocates: no buffer, no packets in use.  It
\* refuses a negative count (external): no step.
AllocTransfer(t, isoPackets) ==
    /\ Life!Allocate(t)
    /\ held' = held \cup {t}
    /\ pinned' = [pinned EXCEPT ![t] = TRUE]
    /\ packets' = [packets EXCEPT ![t] = isoPackets]
    /\ maxNumIsoPackets' = [maxNumIsoPackets EXCEPT ![t] = isoPackets]
    /\ UNCHANGED <<memory, bufferVars, numIsoPackets, packetViews>>

\* Mutant: the bytes of a heap buffer have an address too, for a while.
GetBufferAddress(b) == b

GetDirectBufferAddress(b) == IF b \in HeapBuffers THEN NULL ELSE b

\* A buffer without an address is refused with an exception: no step.
SetBufferNative(t, b) ==
    /\ MayTouch(t)
    /\ b # NULL => b \in held /\ GetDirectBufferAddress(b) # NULL
    /\ buffer' = [buffer EXCEPT ![t] = GetDirectBufferAddress(b)]
    /\ setting' = setting \cup {<<t, b>>}
    /\ UNCHANGED <<lifeVars, held, memory, pinned, transferBuffer, packetVars>>

\* Transfer.setBuffer, once its native part has not thrown, sets the field (external,
\* the Java class that declares both).  Until then it has the transfer and the buffer on
\* its stack, whatever its caller gives up.
StoreBuffer(t, b) ==
    /\ <<t, b>> \in setting
    /\ transferBuffer' = [transferBuffer EXCEPT ![t] = b]
    /\ setting' = setting \ {<<t, b>>}
    /\ UNCHANGED <<lifeVars, held, memory, pinned, buffer, packetVars>>

\* Mutant: the check against the maximum is missing.
SetNumIsoPacketsUnchecked(t, n) ==
    /\ MayTouch(t)
    /\ numIsoPackets' = [numIsoPackets EXCEPT ![t] = n]
    /\ UNCHANGED <<lifeVars, held, memory, pinned, bufferVars, packets, maxNumIsoPackets,
                   packetViews>>

\* (size_t) of a jint
SizeOf(n) == IF n < 0 THEN n + SizeModulus ELSE n

\* More than the maximum is refused with an exception: no step.
SetNumIsoPackets(t, n) ==
    /\ MayTouch(t)
    /\ maxNumIsoPackets[t] >= SizeOf(n)
    /\ numIsoPackets' = [numIsoPackets EXCEPT ![t] = n]
    /\ UNCHANGED <<lifeVars, held, memory, pinned, bufferVars, packets, maxNumIsoPackets,
                   packetViews>>

\* One IsoPacketDescriptor for each packet in use.
IsoPacketDesc(t) ==
    /\ MayTouch(t)
    /\ packetViews' = [packetViews EXCEPT ![t] = @ \cup 0..(numIsoPackets[t] - 1)]
    /\ UNCHANGED <<lifeVars, held, memory, pinned, bufferVars, packets, maxNumIsoPackets,
                   numIsoPackets>>

\* cleanupGlobalReferences, and the native fields gone with the memory they are in;
\* the client gives up the packets of t.
FreeFields(t) ==
    /\ pinned' = [pinned EXCEPT ![t] = FALSE]
    /\ buffer' = [buffer EXCEPT ![t] = NULL]
    /\ packets' = [packets EXCEPT ![t] = 0]
    /\ maxNumIsoPackets' = [maxNumIsoPackets EXCEPT ![t] = 0]
    /\ numIsoPackets' = [numIsoPackets EXCEPT ![t] = 0]
    /\ packetViews' = [packetViews EXCEPT ![t] = {}]
    /\ UNCHANGED <<held, memory, setting>>

ResetTransfer(t) == transferBuffer' = [transferBuffer EXCEPT ![t] = NULL]

FreeTransfer(t) ==
    /\ t \in held /\ ~Setting(t)
    /\ Life!Release(t)
    /\ FreeFields(t) /\ ResetTransfer(t)

-----------------------------------------------------------------------------
(***************************************************************************)
(* Flight and completion.                                                  *)
(***************************************************************************)
FieldsUnchanged == UNCHANGED <<memory, pinned, bufferVars, packetVars>>

SubmitTransfer(t) ==
    /\ t \in held /\ ~Setting(t)
    /\ Life!Submit(t)
    /\ UNCHANGED held /\ FieldsUnchanged

Configure(t) ==
    /\ t \in held /\ ~Setting(t)
    /\ Life!SetAutoFree(t) \/ \E l \in Listeners \cup {NULL} : Life!Register(t, l)
    /\ UNCHANGED held /\ FieldsUnchanged

Complete(t) == Life!Complete(t) /\ UNCHANGED held /\ FieldsUnchanged

\* The transfer is an argument of processTransfer: the client has it again.
Tell ==
    /\ Life!Tell
    /\ held' = IF listener[notice.t] = NULL THEN held ELSE held \cup {notice.t}
    /\ FieldsUnchanged

\* A setBuffer of a transfer to be freed is the listener's: it is over when that returns.
ListenerReturns ==
    /\ notice.last => ~Setting(notice.t)
    /\ Life!ListenerReturns
    /\ UNCHANGED held /\ FieldsUnchanged

\* The reset of an automatic free goes through a reference already deleted: the Java
\* object may stay as it is, and keep its buffer as long as somebody keeps the object.
Finish ==
    /\ Life!Finish
    /\ \/ /\ notice.last
          /\ FreeFields(notice.t)
          /\ ResetTransfer(notice.t) \/ UNCHANGED transferBuffer
       \/ ~notice.last /\ UNCHANGED held /\ FieldsUnchanged

-----------------------------------------------------------------------------
TransferSteps(t) ==
    \/ \E n \in 0..MaxIsoPackets : AllocTransfer(t, n)
    \/ \E b \in Buffers \cup {NULL} : SetBufferNative(t, b) \/ StoreBuffer(t, b)
    \/ \E n \in -(MaxIsoPackets + 1)..(MaxIsoPackets + 1) : SetNumIsoPackets(t, n)
    \/ IsoPacketDesc(t) \/ FreeTransfer(t)
    \/ SubmitTransfer(t) \/ Configure(t) \/ Complete(t)

Next ==
    \/ \E b \in Buffers : NewBuffer(b) \/ Collect(b)
    \/ \E object \in Transfers \cup Buffers : Drop(object)
    \/ \E t \in Transfers : TransferSteps(t)
    \/ Tell \/ ListenerReturns \/ Finish

Spec == Init /\ [][Next]_vars

-----------------------------------------------------------------------------
Released(t) == phase[t] \in {"absent", "released"}

\* The address in a transfer leads to a buffer that has not been collected, from
\* allocTransfer to the end of the transfer, though the client may drop the buffer
\* and the transfer itself while libusb has them, or while setBuffer replaces one
\* buffer by another.
BufferLive == \A t \in Transfers : ~Released(t) => buffer[t] \in memory \cup {NULL}

\* "Check that calls to setNumIsoPackets() never set a number exceeding the maximum,
\* which was originally set at allocTransfer() time" (Transfer.c:493): the packets in
\* use, and those the client has objects of, are packets there is memory for.
PacketsInBlock ==
    \A t \in Transfers : ~Released(t) =>
        /\ numIsoPackets[t] \in 0..packets[t]
        /\ \A i \in packetViews[t] : i < packets[t]
==============================================================================
