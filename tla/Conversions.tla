----------------------------- MODULE Conversions -----------------------------
(***************************************************************************)
(* What numbers become on their way between Java and libusb: the casts the *)
(* native methods make, and for every accessor of a descriptor, a packet, a*)
(* pollfd or a transfer the type of the C field (external, libusb.h) and   *)
(* the type of the Java method.                                            *)
(***************************************************************************)
EXTENDS Integers

CONSTANTS
    SignBit,        \* 2^(8n - 1), the weight of the sign bit in n bytes
    PointerBytes    \* sizeof(void *): 4 or 8

Widths == {1, 2, 4, 8}

ASSUME ConversionsAssumption ==
    /\ SignBit \in [Widths -> Nat \ {0}] /\ PointerBytes \in {4, 8}
    /\ \A m, n \in Widths : m < n => 2 * SignBit[m] <= SignBit[n]

Types == [bytes : Widths, signed : BOOLEAN]
Unsigned(n) == [bytes |-> n, signed |-> FALSE]
Signed(n) == [bytes |-> n, signed |-> TRUE]

Values(type) ==
    LET s == SignBit[type.bytes] IN IF type.signed THEN -s..(s - 1) ELSE 0..(2 * s - 1)

\* (type) value, in two's complement
Cast(value, type) ==
    LET s == SignBit[type.bytes]
        u == value % (2 * s)
    IN  IF type.signed /\ u >= s THEN u - 2 * s ELSE u

uint8 == Unsigned(1)    uint16 == Unsigned(2)    uint32 == Unsigned(4)
short == Signed(2)      int == Signed(4)
jbyte == Signed(1)      jshort == Signed(2)      jint == Signed(4)    jlong == Signed(8)

-----------------------------------------------------------------------------
Fields(names, c, java) == {[name |-> n, c |-> c, java |-> java] : n \in names}

\* Mutant: idVendor and idProduct are returned as bytes.
DeviceDescriptorGettersNarrow ==
    Fields({"bLength", "bDescriptorType", "bDeviceClass", "bDeviceSubClass", "bDeviceProtocol",
            "bMaxPacketSize0", "iManufacturer", "iProduct", "iSerialNumber",
            "bNumConfigurations"}, uint8, jbyte)
      \cup Fields({"idVendor", "idProduct"}, uint16, jbyte)
      \cup Fields({"bcdUSB", "bcdDevice"}, uint16, jshort)

DeviceDescriptorGetters ==
    Fields({"bLength", "bDescriptorType", "bDeviceClass", "bDeviceSubClass", "bDeviceProtocol",
            "bMaxPacketSize0", "iManufacturer", "iProduct", "iSerialNumber",
            "bNumConfigurations"}, uint8, jbyte)
      \cup Fields({"bcdUSB", "idVendor", "idProduct", "bcdDevice"}, uint16, jshort)

ConfigDescriptorGetters ==
    Fields({"bLength", "bDescriptorType", "bNumInterfaces", "bConfigurationValue",
            "iConfiguration", "bmAttributes", "bMaxPower"}, uint8, jbyte)
      \cup Fields({"wTotalLength"}, uint16, jshort) \cup Fields({"extraLength"}, int, jint)

InterfaceDescriptorGetters ==
    Fields({"bLength", "bDescriptorType", "bInterfaceNumber", "bAlternateSetting",
            "bNumEndpoints", "bInterfaceClass", "bInterfaceSubClass", "bInterfaceProtocol",
            "iInterface"}, uint8, jbyte)
      \cup Fields({"extraLength"}, int, jint)

EndpointDescriptorGetters ==
    Fields({"bLength", "bDescriptorType", "bEndpointAddress", "bmAttributes", "bInterval",
            "bRefresh", "bSynchAddress"}, uint8, jbyte)
      \cup Fields({"wMaxPacketSize"}, uint16, jshort) \cup Fields({"extraLength"}, int, jint)

SsEndpointCompanionDescriptorGetters ==
    Fields({"bLength", "bDescriptorType", "bMaxBurst", "bmAttributes"}, uint8, jbyte)
      \cup Fields({"wBytesPerInterval"}, uint16, jshort)

BosDescriptorGetters ==
    Fields({"bLength", "bDescriptorType", "bNumDeviceCaps"}, uint8, jbyte)
      \cup Fields({"wTotalLength"}, uint16, jshort)

BosDevCapabilityDescriptorGetters ==
    Fields({"bLength", "bDescriptorType", "bDevCapabilityType"}, uint8, jbyte)

Usb20ExtensionDescriptorGetters ==
    Fields({"bLength", "bDescriptorType", "bDevCapabilityType"}, uint8, jbyte)
      \cup Fields({"bmAttributes"}, uint32, jint)

SsUsbDeviceCapabilityDescriptorGetters ==
    Fields({"bLength", "bDescriptorType", "bDevCapabilityType", "bmAttributes",
            "bFunctionalitySupport", "bU1DevExitLat"}, uint8, jbyte)
      \cup Fields({"wSpeedSupported", "bU2DevExitLat"}, uint16, jshort)

ContainerIdDescriptorGetters ==
    Fields({"bLength", "bDescriptorType", "bDevCapabilityType", "bReserved"}, uint8, jbyte)

PollfdGetters == Fields({"fd"}, int, jint) \cup Fields({"events"}, short, jshort)

IsoPacketDescriptorGetters ==
    Fields({"length", "actualLength"}, uint32, jint) \cup Fields({"status"}, int, jint)

TransferGetters ==
    Fields({"flags", "endpoint", "type"}, uint8, jbyte) \cup Fields({"timeout"}, uint32, jlong)
      \cup Fields({"status", "length", "actualLength", "numIsoPackets"}, int, jint)
      \cup Fields({"streamId"}, uint32, jint)

Getters ==
    UNION {DeviceDescriptorGetters, ConfigDescriptorGetters, InterfaceDescriptorGetters,
           EndpointDescriptorGetters, SsEndpointCompanionDescriptorGetters,
           BosDescriptorGetters, BosDevCapabilityDescriptorGetters,
           Usb20ExtensionDescriptorGetters, SsUsbDeviceCapabilityDescriptorGetters,
           ContainerIdDescriptorGetters, PollfdGetters, IsoPacketDescriptorGetters,
           TransferGetters}

\* Two fields of the same types differ in their names only.
TypesOf(fields) == {[c |-> f.c, java |-> f.java] : f \in fields}

-----------------------------------------------------------------------------
TransferSetters ==
    Fields({"flags", "endpoint", "type"}, uint8, jbyte) \cup Fields({"timeout"}, uint32, jlong)
      \cup Fields({"length"}, int, jint) \cup Fields({"streamId"}, uint32, jint)

IsoPacketDescriptorSetters == Fields({"length"}, uint32, jint)

\* Arguments that go to libusb: of the transfers, of clearHalt and getMaxPacketSize, of
\* the methods that name a configuration, an interface or a setting, of the streams.  Where the
\* byte order of the host is not that of USB, libusb swaps the two bytes of le16ToCpu.
TransferArguments ==
    Fields({"bmRequestType", "bRequest", "endpoint"}, uint8, jbyte)
      \cup Fields({"wValue", "wIndex"}, uint16, jshort) \cup Fields({"timeout"}, uint32, jlong)

HandleArguments ==
    Fields({"clearHalt"}, uint8, jbyte)
      \cup Fields({"setConfiguration", "claimInterface", "releaseInterface",
                   "setInterfaceAltSetting"}, int, jint)

KernelDriverArguments ==
    Fields({"kernelDriverActive", "detachKernelDriver", "attachKernelDriver"}, int, jint)

DeviceArguments == Fields({"getMaxPacketSize", "getMaxIsoPacketSize"}, uint8, jbyte)

LibraryArguments ==
    Fields({"hasCapability"}, uint32, jint)
      \cup Fields({"le16ToCpu", "cpuToLe16"}, uint16, jshort)

StreamArguments == Fields({"numStreams"}, uint32, jint)

\* What tells callbacks apart is a jlong carried in a void *.
UserData == Fields({"hotplugId", "context_id"}, Signed(PointerBytes), jlong)

Setters ==
    UNION {TransferSetters, IsoPacketDescriptorSetters, TransferArguments, HandleArguments,
           KernelDriverArguments, DeviceArguments, LibraryArguments, StreamArguments,
           UserData}
==============================================================================
