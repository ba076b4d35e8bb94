-------------------------------- MODULE Calls --------------------------------
(***************************************************************************)
(* The calls of one thread that hand libusb memory and numbers and take    *)
(* numbers back: synchronous transfers, strings, streams, timeouts, pollfds*)
(* and accessors (src/src/LibUsb.c, Pollfds.c and the accessors of all     *)
(* classes).  Native code keeps nothing between two of them; what lasts is *)
(* the buffer a client passes again and again to be told a result in.      *)
(***************************************************************************)
EXTENDS Conversions

CONSTANTS
    Buffers, Capacity,      \* ByteBuffer objects, and the bytes in each
    HeapBuffers,            \* those that are not direct and have no address
    LongBytes,              \* sizeof(long), which is sizeof(tv_sec): 4 or 8
    MicrosPerSecond,        \* 1000000 in the code
    StringBytes,            \* 128 in the code, the buffer for a string
    MaxPollfds,             \* bound: pollfds libusb has
    NULL,
    Configurations          \* numbers getConfiguration may tell

ASSUME CallsAssumption ==
    /\ Capacity \in [Buffers -> Values(jint)] /\ \A b \in Buffers : Capacity[b] >= 0
    /\ HeapBuffers \subseteq Buffers /\ NULL \notin Buffers
    /\ LongBytes \in {4, 8}
    /\ MicrosPerSecond \in Nat \ {0}
    /\ StringBytes \in Nat \ {0}
    /\ MaxPollfds \in Nat
    /\ Configurations \subseteq Nat

long == Signed(LongBytes)

VARIABLES
    call,           \* the method in progress, the memory it has, and how far it reaches into it
    transferred,    \* Java: what the client reads in the buffer for a result
    pollfds,        \* Java: the size of the Pollfds object of the client, or none
    last,           \* of the last call, what it returned and what libusb had counted,
    tv,             \* or the timeout passed and the struct timeval made of it,
    answer,         \* or the next timeout, which tv may repeat, and what Java was told,
    field           \* or the value an accessor or an argument carried, in C and in Java

numbers == <<tv, answer, field>>
vars == <<call, transferred, pollfds, last, numbers>>

Uninitialised == -1     \* whatever a local variable holds that nobody has set
Results == {"success", "timeout", "failed", "refused"}
NoResult == [result |-> "refused", counted |-> Uninitialised]

NoCall == [method |-> "none", memory |-> 0, reach |-> 0]
NoPollfds == -1
NoTimeout == [timeout |-> 0, sec |-> 0, usec |-> 0]
NoAnswer == [sec |-> 0, usec |-> 0, told |-> 0]
NoField == [way |-> "none", c |-> uint8, java |-> jbyte, inC |-> 0, inJava |-> 0]

TransferMethods == {"bulkTransfer", "interruptTransfer"}
OtherMethods == {"controlTransfer", "getPortNumbers", "allocStreams", "freeStreams",
                 "terminate", "Pollfds.get"}
Methods == {"none", "getConfiguration", "getStringDescriptorAscii"} \cup TransferMethods
             \cup OtherMethods

TypeOK ==
    /\ call \in [method : Methods, memory : Nat, reach : Int]
    /\ transferred \in Int
    /\ last \in [result : Results, counted : Int]
    /\ pollfds \in Nat \cup {NoPollfds}
    /\ tv \in [timeout : Values(jlong), sec : Values(long), usec : Values(long)]
    /\ answer \in [sec : Nat, usec : Nat, told : Values(long)]
    /\ field \in [way : {"none", "get", "set"}, c : Types, java : Types, inC : Int, inJava : Int]
    /\ field.inC \in Values(field.c) /\ field.inJava \in Values(field.java)

Init ==
    /\ call = NoCall
    /\ transferred = 0 /\ last = NoResult
    /\ pollfds = NoPollfds
    /\ tv = NoTimeout /\ answer = NoAnswer /\ field = NoField

Idle == call = NoCall
Forget == last' = NoResult /\ tv' = NoTimeout /\ answer' = NoAnswer /\ field' = NoField
Begin(method, memory, reach) ==
    /\ Idle
    /\ call' = [method |-> method, memory |-> memory, reach |-> reach]
    /\ Forget
Return == call' = NoCall /\ UNCHANGED numbers

-----------------------------------------------------------------------------
(***************************************************************************)
(* Memory handed to libusb.  A null argument, a buffer without an address  *)
(* or a handle without a pointer ends in an exception: no step.            *)
(***************************************************************************)
PassBuffer(method, b, type) ==
    /\ b \notin HeapBuffers
    /\ Begin(method, Capacity[b], Cast(Capacity[b], type))
    /\ UNCHANGED <<transferred, pollfds>>

ControlTransfer(b) == PassBuffer("controlTransfer", b, uint16)
BulkTransfer(b) == PassBuffer("bulkTransfer", b, int)
InterruptTransfer(b) == PassBuffer("interruptTransfer", b, int)
GetPortNumbers(b) == PassBuffer("getPortNumbers", b, int)

\* GetByteArrayElements copies the array, or fails with an exception: no step.
PassArray(method, n) ==
    /\ Begin(method, n, n)
    /\ UNCHANGED <<transferred, pollfds>>

AllocStreams(n) == PassArray("allocStreams", n)
FreeStreams(n) == PassArray("freeStreams", n)

\* Mutant: libusb gets the whole buffer.
GetStringDescriptorAsciiFull ==
    /\ Begin("getStringDescriptorAscii", StringBytes, StringBytes)
    /\ UNCHANGED <<transferred, pollfds>>

GetStringDescriptorAscii ==
    /\ Begin("getStringDescriptorAscii", StringBytes, StringBytes - 1)
    /\ UNCHANGED <<transferred, pollfds>>

\* result characters are read; buffer[result] is set to 0.
TerminateString ==
    /\ call.method = "getStringDescriptorAscii"
    /\ \E result \in 0..call.reach :
          call' = [method |-> "terminate", memory |-> call.memory, reach |-> result + 1]
    /\ UNCHANGED <<transferred, last, pollfds, numbers>>

\* An error, or a method that returns what libusb does.
ReturnResult ==
    /\ call.method \in OtherMethods \cup {"getStringDescriptorAscii"}
    /\ Return
    /\ UNCHANGED <<transferred, last, pollfds>>

-----------------------------------------------------------------------------
(***************************************************************************)
(* Results told in a buffer of the client, from a local variable that only *)
(* libusb sets (external): to the bytes moved whenever a transfer has ended*)
(* in success, in a timeout or failed on the way, and not at all when it   *)
(* refuses a call.                                                         *)
(***************************************************************************)
\* Mutant: a timeout is an error.
PutTransferredOnSuccess(result, sent) ==
    transferred' = IF result = "success" THEN sent ELSE transferred

\* What a failed transfer had moved is not told: the buffer stays as it was.
PutTransferred(result, sent) ==
    transferred' = IF result \in {"success", "timeout"} THEN sent ELSE transferred

LibusbTransfer ==
    /\ call.method \in TransferMethods
    /\ last' \in [result : Results \ {"refused"}, counted : 0..call.reach] \cup {NoResult}
    /\ PutTransferred(last'.result, last'.counted)
    /\ Return
    /\ UNCHANGED pollfds

GetConfiguration ==
    /\ Begin("getConfiguration", 0, 0)
    /\ UNCHANGED <<transferred, pollfds>>

PutConfiguration(result, config) ==
    transferred' = IF result = "success" THEN config ELSE transferred

LibusbGetConfiguration ==
    /\ call.method = "getConfiguration"
    /\ last' \in [result : {"success"}, counted : Configurations] \cup {NoResult}
    /\ PutConfiguration(last'.result, last'.counted)
    /\ Return
    /\ UNCHANGED pollfds

-----------------------------------------------------------------------------
(***************************************************************************)
(* Timeouts in microseconds, and struct timeval.                           *)
(***************************************************************************)
\* C divides towards zero.
Quotient(a, b) == IF a >= 0 THEN a \div b ELSE -((-a) \div b)
Remainder(a, b) == a - b * Quotient(a, b)

\* Mutant: milliseconds, so to speak: the seconds are not taken off.
TimevalUnsplit(timeout) ==
    [timeout |-> timeout, sec |-> Quotient(Cast(timeout, long), MicrosPerSecond),
     usec |-> Cast(timeout, long)]

\* The cast binds before the division.
Timeval(timeout) ==
    [timeout |-> timeout, sec |-> Quotient(Cast(timeout, long), MicrosPerSecond),
     usec |-> Remainder(Cast(timeout, long), MicrosPerSecond)]

PassTimeout(timeout) ==
    /\ Idle
    /\ tv' = Timeval(timeout) /\ field' = NoField /\ last' = NoResult
    /\ answer' = IF timeout = answer.told THEN answer ELSE NoAnswer
    /\ UNCHANGED <<call, transferred, pollfds>>

WaitForEvent(timeout) == PassTimeout(timeout)
HandleEventsTimeout(timeout) == PassTimeout(timeout)
HandleEventsLocked(timeout) == PassTimeout(timeout)

\* An IntBuffer without an address is refused with an exception: no step.
HandleEventsTimeoutCompleted(timeout, completed) ==
    /\ completed \notin HeapBuffers
    /\ PassTimeout(timeout)

\* Mutant: the microseconds are forgotten.
MicrosOfSeconds(sec, usec) == sec * MicrosPerSecond

Micros(sec, usec) == sec * MicrosPerSecond + usec

\* When libusb answers 1 there is a timeout.  Micros is computed in a long; what does not
\* fit overflows, which is undefined: any number.
GetNextTimeout(sec, usec) ==
    /\ Idle
    /\ \E told \in Values(long) :
          /\ Micros(sec, usec) \in Values(long) => told = Micros(sec, usec)
          /\ answer' = [sec |-> sec, usec |-> usec, told |-> told]
    /\ tv' = NoTimeout /\ field' = NoField /\ last' = NoResult
    /\ UNCHANGED <<call, transferred, pollfds>>

-----------------------------------------------------------------------------
(***************************************************************************)
(* Pollfds: a list libusb allocates, and its size in the Java object.      *)
(***************************************************************************)
\* The size is counted up to the NULL that ends the list; the object is a new one.
GetPollfds(n) ==
    /\ Idle /\ Forget
    /\ pollfds' = n
    /\ UNCHANGED <<call, transferred>>

FreePollfds ==
    /\ Idle /\ Forget
    /\ pollfds # NoPollfds
    /\ pollfds' = NoPollfds
    /\ UNCHANGED <<call, transferred>>

\* Another index is answered with null: no step.
PollfdsGet(index) ==
    /\ pollfds # NoPollfds
    /\ index >= 0 /\ index < pollfds
    /\ Begin("Pollfds.get", pollfds, index + 1)
    /\ UNCHANGED <<transferred, pollfds>>

-----------------------------------------------------------------------------
(***************************************************************************)
(* Accessors and arguments.                                                *)
(***************************************************************************)
\* Mutant: the cast is left out.
GetUncast(f, value) ==
    /\ Idle
    /\ field' = [way |-> "get", c |-> f.c, java |-> f.java, inC |-> value, inJava |-> value]
    /\ tv' = NoTimeout /\ answer' = NoAnswer /\ last' = NoResult
    /\ UNCHANGED <<call, transferred, pollfds>>

Get(f, value) ==
    /\ Idle
    /\ field' = [way |-> "get", c |-> f.c, java |-> f.java,
                 inC |-> value, inJava |-> Cast(value, f.java)]
    /\ tv' = NoTimeout /\ answer' = NoAnswer /\ last' = NoResult
    /\ UNCHANGED <<call, transferred, pollfds>>

Set(f, value) ==
    /\ Idle
    /\ field' = [way |-> "set", c |-> f.c, java |-> f.java,
                 inC |-> Cast(value, f.c), inJava |-> value]
    /\ tv' = NoTimeout /\ answer' = NoAnswer /\ last' = NoResult
    /\ UNCHANGED <<call, transferred, pollfds>>

-----------------------------------------------------------------------------
BufferSteps(b) ==
    ControlTransfer(b) \/ BulkTransfer(b) \/ InterruptTransfer(b) \/ GetPortNumbers(b)

TimeoutSteps(timeout) ==
    \/ WaitForEvent(timeout) \/ HandleEventsTimeout(timeout) \/ HandleEventsLocked(timeout)
    \/ \E completed \in Buffers \cup {NULL} : HandleEventsTimeoutCompleted(timeout, completed)

Next ==
    \/ \E b \in Buffers : BufferSteps(b)
    \/ \E n \in 0..StringBytes : AllocStreams(n) \/ FreeStreams(n)
    \/ GetStringDescriptorAscii \/ TerminateString \/ ReturnResult
    \/ LibusbTransfer \/ GetConfiguration \/ LibusbGetConfiguration
    \/ \E timeout \in Values(jlong) : TimeoutSteps(timeout)
    \/ \E sec \in 0..(SignBit[LongBytes] - 1), usec \in 0..(MicrosPerSecond - 1) :
          GetNextTimeout(sec, usec)
    \/ \E n \in 0..MaxPollfds : GetPollfds(n)
    \/ FreePollfds
    \/ \E index \in -1..(MaxPollfds + 1) : PollfdsGet(index)
    \/ \E f \in TypesOf(Getters) : \E value \in Values(f.c) : Get(f, value)
    \/ \E f \in TypesOf(Setters) : \E value \in Values(f.java) : Set(f, value)

Spec == Init /\ [][Next]_vars

-----------------------------------------------------------------------------
\* Neither libusb nor the native code after it reaches beyond the memory of a call: the
\* capacity of a buffer whatever it is cast to, a stack buffer whose last byte is for
\* the zero that ends a string as long as libusb may write, a list asked for an index.
AccessesInBounds == call.reach \in 0..call.memory

\* A client that passes the same buffer to every call and goes by what the call returns
\* reads what libusb counted, in a transfer that timed out half way too and not the count
\* of an earlier call; and whatever a call returns, the local variable libusb has not set
\* never gets into the buffer.
ResultsTellTruth ==
    /\ transferred # Uninitialised
    /\ last.result \in {"success", "timeout"} => transferred = last.counted

\* A timeout that fits into a long is handed over exactly, in a normal form libusb takes.
TimeoutsKept ==
    tv.timeout \in Values(long) /\ tv.timeout >= 0 =>
        /\ tv.sec * MicrosPerSecond + tv.usec = tv.timeout
        /\ tv.usec \in 0..(MicrosPerSecond - 1)

\* An event loop that waits for as long as getNextTimeout tells it hands libusb the very
\* struct timeval libusb had named, as long as its microseconds fit into a long.
TimeoutsReturn ==
    answer.sec * MicrosPerSecond + answer.usec \in Values(long) /\ tv.timeout = answer.told =>
        tv.sec = answer.sec /\ tv.usec = answer.usec

\* No accessor loses a bit on its way to Java: casting back gives the value in C.  What
\* is set, C can tell again, unless it is too large for the field or negative where the
\* field is wider than what Java calls unsigned.
FieldsKept ==
    /\ field.way = "get" => Cast(field.inJava, field.c) = field.inC
    /\ field.way = "set" /\ (field.java.bytes <= field.c.bytes \/ field.inJava \in Values(field.c))
         => Cast(field.inC, field.java) = field.inJava
==============================================================================
