------------------------------ MODULE CallsProof ------------------------------
(***************************************************************************)
(* Proofs about Calls and Conversions for every width of the types, every  *)
(* size of a buffer, long and void * of four or eight bytes.               *)
(***************************************************************************)
EXTENDS Calls, TLAPS

LEMMA ModRange == ASSUME NEW v \in Int, NEW m \in Nat \ {0}
                  PROVE  v % m \in 0..(m - 1)
OBVIOUS

LEMMA ModSmall == ASSUME NEW m \in Nat \ {0}, NEW v \in 0..(m - 1)
                  PROVE  v % m = v
OBVIOUS

LEMMA ModNegative == ASSUME NEW m \in Nat \ {0}, NEW v \in Int, -m <= v, v < 0
                     PROVE  v % m = v + m
OBVIOUS

LEMMA ModLess == ASSUME NEW v \in Nat, NEW m \in Nat \ {0}
                 PROVE  v % m <= v
OBVIOUS

LEMMA DivRest == ASSUME NEW v \in Nat, NEW m \in Nat \ {0}
                 PROVE  /\ v \div m \in Nat
                        /\ v - m * (v \div m) \in 0..(m - 1)
OBVIOUS

-----------------------------------------------------------------------------
(***************************************************************************)
(* Conversions.                                                            *)
(***************************************************************************)
LEMMA Weights ==
    /\ \A t \in Types : t.bytes \in Widths /\ t.signed \in BOOLEAN
    /\ \A n \in Widths : SignBit[n] \in Nat \ {0}
    /\ \A n \in Widths : Unsigned(n) \in Types /\ Signed(n) \in Types
    /\ \A m, n \in Widths : m < n => 2 * SignBit[m] <= SignBit[n]
BY ConversionsAssumption DEF Types, Unsigned, Signed

LEMMA CastInValues ==
    ASSUME NEW v \in Int, NEW t \in Types
    PROVE  Cast(v, t) \in Values(t)
<1> DEFINE s == SignBit[t.bytes]
           u == v % (2 * s)
<1>1. s \in Nat \ {0} /\ 2 * s \in Nat \ {0}
  BY Weights
<1>2. u \in 0..(2 * s - 1)
  BY <1>1, ModRange
<1> HIDE DEF u, s
<1>3. Cast(v, t) = IF t.signed /\ u >= s THEN u - 2 * s ELSE u
  BY DEF Cast, u, s
<1>4. Values(t) = IF t.signed THEN -s..(s - 1) ELSE 0..(2 * s - 1)
  BY DEF Values, s
<1>5. QED
  BY <1>1, <1>2, <1>3, <1>4, Weights

LEMMA ValuesAreNumbers ==
    ASSUME NEW t \in Types
    PROVE  Values(t) \subseteq Int
BY Weights DEF Values

LEMMA CastKeepsValues ==
    ASSUME NEW t \in Types, NEW v \in Values(t)
    PROVE  Cast(v, t) = v
<1> DEFINE s == SignBit[t.bytes]
           u == v % (2 * s)
<1>1. s \in Nat \ {0} /\ 2 * s \in Nat \ {0} /\ v \in Int
  BY Weights, ValuesAreNumbers
<1> HIDE DEF s
<1>2. v \in IF t.signed THEN -s..(s - 1) ELSE 0..(2 * s - 1)
  BY DEF Values, s
<1>3. Cast(v, t) = IF t.signed /\ u >= s THEN u - 2 * s ELSE u
  BY DEF Cast, s
<1>4. CASE v >= 0
  <2>1. v \in 0..(2 * s - 1)
    BY <1>1, <1>2, <1>4, Weights
  <2>2. u = v
    BY <1>1, <2>1, ModSmall
  <2>3. QED
    BY <1>1, <1>2, <1>3, <2>2, Weights
<1>5. CASE v < 0
  <2>1. t.signed /\ -s <= v
    BY <1>1, <1>2, <1>5, Weights
  <2>2. u = v + 2 * s
    <3>1. -(2 * s) <= v
      BY <1>1, <2>1
    <3>2. QED
      BY <1>1, <1>5, <3>1, ModNegative
  <2>3. u >= s
    BY <1>1, <2>1, <2>2
  <2>4. QED
    BY <1>1, <1>3, <2>1, <2>2, <2>3
<1>6. QED
  BY <1>1, <1>4, <1>5

\* A value cast to a type that has it, or to one as wide, casts back to itself.
LEMMA RoundTrip ==
    ASSUME NEW a \in Types, NEW b \in Types, NEW v \in Values(a),
           v \in Values(b) \/ a.bytes = b.bytes
    PROVE  Cast(Cast(v, b), a) = v
<1>1. CASE v \in Values(b)
  BY <1>1, CastKeepsValues
<1>2. CASE v \notin Values(b) /\ a.bytes = b.bytes
  <2> DEFINE s == SignBit[a.bytes]
  <2>1. s \in Nat \ {0} /\ 2 * s \in Nat \ {0} /\ v \in Int
    BY Weights, ValuesAreNumbers
  <2>2. s = SignBit[b.bytes]
    BY <1>2
  <2> HIDE DEF s
  <2>3. v \in IF a.signed THEN -s..(s - 1) ELSE 0..(2 * s - 1)
    BY DEF Values, s
  <2>4. v \notin IF b.signed THEN -s..(s - 1) ELSE 0..(2 * s - 1)
    BY <1>2, <2>2 DEF Values
  <2>5. /\ Cast(v, b) = IF b.signed /\ v % (2 * s) >= s THEN (v % (2 * s)) - 2 * s ELSE v % (2 * s)
        /\ \A w : Cast(w, a) = IF a.signed /\ w % (2 * s) >= s
                               THEN (w % (2 * s)) - 2 * s ELSE w % (2 * s)
    BY <2>2 DEF Cast, s
  <2>6. CASE a.signed
    <3>1. ~b.signed /\ -s <= v /\ v < 0
      BY <2>1, <2>3, <2>4, <2>6, Weights
    <3>2. v % (2 * s) = v + 2 * s
      <4>1. -(2 * s) <= v
        BY <2>1, <3>1
      <4>2. QED
        BY <2>1, <3>1, <4>1, ModNegative
    <3>3. Cast(v, b) = v + 2 * s
      BY <2>5, <3>1, <3>2
    <3>4. (v + 2 * s) % (2 * s) = v + 2 * s
      <4>1. v + 2 * s \in 0..(2 * s - 1)
        BY <2>1, <3>1
      <4>2. QED
        BY <2>1, <4>1, ModSmall
    <3>5. v + 2 * s >= s /\ (v + 2 * s) - 2 * s = v
      BY <2>1, <3>1
    <3>6. QED
      BY <2>5, <2>6, <3>3, <3>4, <3>5
  <2>7. CASE ~a.signed
    <3>1. b.signed /\ s <= v /\ v < 2 * s
      BY <2>1, <2>3, <2>4, <2>7, Weights
    <3>2. v % (2 * s) = v
      <4>1. v \in 0..(2 * s - 1)
        BY <2>1, <3>1
      <4>2. QED
        BY <2>1, <4>1, ModSmall
    <3>3. Cast(v, b) = v - 2 * s
      BY <2>5, <3>1, <3>2
    <3>4. (v - 2 * s) % (2 * s) = v
      <4>1. -(2 * s) <= v - 2 * s /\ v - 2 * s < 0 /\ v - 2 * s \in Int
        BY <2>1, <3>1
      <4>2. (v - 2 * s) % (2 * s) = (v - 2 * s) + 2 * s
        BY <2>1, <4>1, ModNegative
      <4>3. QED
        BY <2>1, <4>2
    <3>5. QED
      BY <2>5, <2>7, <3>3, <3>4
  <2>8. QED
    BY <2>6, <2>7
<1>3. QED
  BY <1>1, <1>2

\* The types of a field do not lose anything: Java has the wider one, or one as wide.
Fits(f) ==
    /\ f.c \in Types /\ f.java \in Types
    /\ f.c.bytes = f.java.bytes \/ (f.c.bytes < f.java.bytes /\ f.java.signed)

LEMMA FieldsFit ==
    ASSUME NEW names, NEW c \in Types, NEW java \in Types,
           c.bytes = java.bytes \/ (c.bytes < java.bytes /\ java.signed)
    PROVE  \A f \in Fields(names, c, java) : Fits(f)
BY DEF Fields, Fits

LEMMA CTypes ==
    /\ {uint8, uint16, uint32, short, int, jbyte, jshort, jint, jlong,
        Signed(PointerBytes), long} \subseteq Types
    /\ uint8.bytes = 1 /\ uint16.bytes = 2 /\ uint32.bytes = 4 /\ short.bytes = 2 /\ int.bytes = 4
    /\ jbyte.bytes = 1 /\ jshort.bytes = 2 /\ jint.bytes = 4 /\ jlong.bytes = 8
    /\ jlong.signed /\ jint.signed
    /\ Signed(PointerBytes).bytes \in {4, 8}
<1>1. \A n \in {1, 2, 4, 8} : Unsigned(n) \in Types /\ Signed(n) \in Types
  BY DEF Types, Unsigned, Signed, Widths
<1>2. \A n : /\ Unsigned(n).bytes = n /\ Signed(n).bytes = n /\ Signed(n).signed = TRUE
  BY DEF Unsigned, Signed
<1>3. PointerBytes \in {1, 2, 4, 8} /\ LongBytes \in {1, 2, 4, 8} /\ PointerBytes \in {4, 8}
  BY ConversionsAssumption, CallsAssumption
<1>4. QED
  BY <1>1, <1>2, <1>3
  DEF uint8, uint16, uint32, short, int, jbyte, jshort, jint, jlong, long

LEMMA GettersFit == \A f \in Getters : Fits(f)
<1> USE CTypes, FieldsFit
<1> HIDE DEF Fields, Fits
<1>1. \A f \in DeviceDescriptorGetters : Fits(f)
  BY DEF DeviceDescriptorGetters
<1>2. \A f \in ConfigDescriptorGetters : Fits(f)
  BY DEF ConfigDescriptorGetters
<1>3. \A f \in InterfaceDescriptorGetters : Fits(f)
  BY DEF InterfaceDescriptorGetters
<1>4. \A f \in EndpointDescriptorGetters : Fits(f)
  BY DEF EndpointDescriptorGetters
<1>5. \A f \in SsEndpointCompanionDescriptorGetters : Fits(f)
  BY DEF SsEndpointCompanionDescriptorGetters
<1>6. \A f \in BosDescriptorGetters \cup BosDevCapabilityDescriptorGetters : Fits(f)
  BY DEF BosDescriptorGetters, BosDevCapabilityDescriptorGetters
<1>7. \A f \in Usb20ExtensionDescriptorGetters : Fits(f)
  BY DEF Usb20ExtensionDescriptorGetters
<1>8. \A f \in SsUsbDeviceCapabilityDescriptorGetters : Fits(f)
  BY DEF SsUsbDeviceCapabilityDescriptorGetters
<1>9. \A f \in ContainerIdDescriptorGetters \cup PollfdGetters : Fits(f)
  BY DEF ContainerIdDescriptorGetters, PollfdGetters
<1>10. \A f \in IsoPacketDescriptorGetters : Fits(f)
  BY DEF IsoPacketDescriptorGetters
<1>11. \A f \in TransferGetters : Fits(f)
  BY DEF TransferGetters
<1>12. QED
  BY <1>1, <1>2, <1>3, <1>4, <1>5, <1>6, <1>7, <1>8, <1>9, <1>10, <1>11 DEF Getters

LEMMA SettersFit == \A f \in Setters : Fits(f)
<1> USE CTypes, FieldsFit
<1>1. \A f \in TransferSetters : Fits(f)
  BY DEF TransferSetters
<1>2. \A f \in IsoPacketDescriptorSetters \cup DeviceArguments : Fits(f)
  BY DEF IsoPacketDescriptorSetters, DeviceArguments
<1>3. \A f \in TransferArguments : Fits(f)
  BY DEF TransferArguments
<1>4. \A f \in HandleArguments \cup KernelDriverArguments : Fits(f)
  BY DEF HandleArguments, KernelDriverArguments
<1>5. \A f \in StreamArguments : Fits(f)
  BY DEF StreamArguments
<1>6. \A f \in UserData : Fits(f)
  <2>1. \/ Signed(PointerBytes).bytes = jlong.bytes
        \/ Signed(PointerBytes).bytes < jlong.bytes /\ jlong.signed
    OBVIOUS
  <2>2. QED
    BY <2>1 DEF UserData
<1>7. \A f \in LibraryArguments : Fits(f)
  BY DEF LibraryArguments
<1>8. QED
  BY <1>1, <1>2, <1>3, <1>4, <1>5, <1>6, <1>7 DEF Setters

\* What C holds of a field is a value of the Java type, or the two are equally wide.
LEMMA FitsWidens ==
    ASSUME NEW c \in Types, NEW java \in Types,
           c.bytes = java.bytes \/ (c.bytes < java.bytes /\ java.signed),
           NEW v \in Values(c)
    PROVE  v \in Values(java) \/ c.bytes = java.bytes
<1>1. CASE c.bytes < java.bytes /\ java.signed
  <2> DEFINE s == SignBit[c.bytes]
             z == SignBit[java.bytes]
  <2>1. s \in Nat \ {0} /\ z \in Nat \ {0} /\ 2 * s <= z /\ v \in Int
    BY <1>1, Weights, ValuesAreNumbers
  <2>2. v \in IF c.signed THEN -s..(s - 1) ELSE 0..(2 * s - 1)
    BY DEF Values
  <2>3. Values(java) = -z..(z - 1)
    BY <1>1 DEF Values
  <2> HIDE DEF s, z
  <2>4. -z <= v /\ v <= z - 1
    BY <2>1, <2>2, Weights
  <2>5. QED
    BY <2>1, <2>3, <2>4
<1>2. QED
  BY <1>1

-----------------------------------------------------------------------------
(***************************************************************************)
(* Timeouts.                                                               *)
(***************************************************************************)
LEMMA TimevalTypes ==
    ASSUME NEW timeout \in Values(jlong)
    PROVE  Timeval(timeout) \in [timeout : Values(jlong), sec : Values(long), usec : Values(long)]
<1> DEFINE a == Cast(timeout, long)
           M == MicrosPerSecond
           s == SignBit[LongBytes]
<1>1. a \in Values(long) /\ a \in Int
  BY CTypes, ValuesAreNumbers, CastInValues
<1>2. Values(long) = -s..(s - 1) /\ s \in Nat \ {0} /\ M \in Nat \ {0}
  BY CTypes, Weights, CallsAssumption DEF Values, long, Signed, Types
<1>3. Timeval(timeout) = [timeout |-> timeout, sec |-> Quotient(a, M), usec |-> Remainder(a, M)]
  BY DEF Timeval
<1> HIDE DEF a, M, s
<1>4. CASE a >= 0
  <2>1. Quotient(a, M) = a \div M /\ Remainder(a, M) = a - M * (a \div M)
    BY <1>4 DEF Quotient, Remainder
  <2>2. a \div M \in 0..a /\ a - M * (a \div M) \in 0..a
    <3>1. a \in Nat
      BY <1>1, <1>4
    <3>2. a \div M \in Nat /\ a - M * (a \div M) \in 0..(M - 1)
      BY <1>2, <3>1, DivRest
    <3>3. M * (a \div M) >= a \div M
      BY <1>2, <3>2
    <3>4. QED
      BY <1>2, <3>1, <3>2, <3>3
  <2>3. QED
    BY <1>1, <1>2, <1>3, <2>1, <2>2
<1>5. CASE a < 0
  <2> DEFINE b == -a
  <2>1. Quotient(a, M) = -(b \div M) /\ Remainder(a, M) = a - M * (-(b \div M))
    BY <1>1, <1>5 DEF Quotient, Remainder
  <2>2. b \div M \in 0..b /\ b - M * (b \div M) \in 0..b
    <3>1. b \in Nat
      BY <1>1, <1>5
    <3>2. b \div M \in Nat /\ b - M * (b \div M) \in 0..(M - 1)
      BY <1>2, <3>1, DivRest
    <3>3. M * (b \div M) >= b \div M
      BY <1>2, <3>2
    <3>4. QED
      BY <1>2, <3>1, <3>2, <3>3
  <2> DEFINE q == b \div M
  <2>3. q \in Int /\ M * (-q) = -(M * q)
    BY <1>2, <2>2
  <2> HIDE DEF q
  <2>4. -q \in a..0 /\ a - M * (-q) \in a..0
    BY <1>1, <1>2, <2>2, <2>3 DEF q
  <2>5. -q \in Values(long) /\ a - M * (-q) \in Values(long)
    BY <1>1, <1>2, <2>4
  <2>6. QED
    BY <1>3, <2>1, <2>5 DEF q
<1>6. QED
  BY <1>1, <1>4, <1>5

LEMMA TimevalExact ==
    ASSUME NEW timeout \in Values(jlong), timeout \in Values(long), timeout >= 0
    PROVE  /\ Timeval(timeout).sec * MicrosPerSecond + Timeval(timeout).usec = timeout
           /\ Timeval(timeout).usec \in 0..(MicrosPerSecond - 1)
<1> DEFINE M == MicrosPerSecond
           q == timeout \div M
<1>1. Cast(timeout, long) = timeout /\ timeout \in Nat /\ M \in Nat \ {0}
  BY CTypes, CastKeepsValues, ValuesAreNumbers, CallsAssumption
<1>2. Timeval(timeout).sec = q /\ Timeval(timeout).usec = timeout - M * q
  BY <1>1 DEF Timeval, Quotient, Remainder
<1>3. q \in Nat /\ timeout - M * q \in 0..(M - 1)
  BY <1>1, DivRest
<1> HIDE DEF q, M
<1>4. M * q \in Int /\ q * M = M * q
  BY <1>1, <1>3
<1>5. q * M + (timeout - M * q) = timeout
  BY <1>1, <1>4
<1>6. QED
  BY <1>2, <1>3, <1>5 DEF M

-----------------------------------------------------------------------------
(***************************************************************************)
(* Types.                                                                  *)
(***************************************************************************)
NumbersTyped ==
    /\ last \in [result : Results, counted : Int]
    /\ tv \in [timeout : Values(jlong), sec : Values(long), usec : Values(long)]
    /\ answer \in [sec : Nat, usec : Nat, told : Values(long)]
    /\ field \in [way : {"none", "get", "set"}, c : Types, java : Types, inC : Int, inJava : Int]
    /\ field.inC \in Values(field.c) /\ field.inJava \in Values(field.java)

LEMMA ZeroIsValue == \A t \in Types : 0 \in Values(t)
BY Weights DEF Values

LEMMA NothingTyped ==
    /\ NoTimeout \in [timeout : Values(jlong), sec : Values(long), usec : Values(long)]
    /\ NoAnswer \in [sec : Nat, usec : Nat, told : Values(long)]
    /\ NoResult \in [result : Results, counted : Int]
    /\ NoField \in [way : {"none", "get", "set"}, c : Types, java : Types, inC : Int, inJava : Int]
    /\ NoField.inC \in Values(NoField.c) /\ NoField.inJava \in Values(NoField.java)
BY CTypes, ZeroIsValue DEF NoTimeout, NoAnswer, NoField, NoResult, Results, Uninitialised

LEMMA ForgetTyped == Forget => NumbersTyped'
BY NothingTyped DEF Forget, NumbersTyped

LEMMA FitsGet ==
    ASSUME NEW f \in TypesOf(Getters) \cup TypesOf(Setters)
    PROVE  Fits(f)
BY GettersFit, SettersFit DEF TypesOf, Fits

\* TypeOK is what is said of the call and the results, and of the numbers.
LEMMA TypeParts ==
    TypeOK <=> /\ call \in [method : Methods, memory : Nat, reach : Int]
               /\ transferred \in Int
               /\ pollfds \in Nat \cup {NoPollfds}
               /\ NumbersTyped
BY DEF TypeOK, NumbersTyped

LEMMA BeginTyped ==
    ASSUME TypeOK, NEW method \in Methods, NEW memory \in Nat, NEW reach \in Int,
           Begin(method, memory, reach), UNCHANGED <<transferred, pollfds>>
    PROVE  TypeOK'
BY ForgetTyped, TypeParts, TypeParts DEF Begin, TypeOK, NumbersTyped

LEMMA CapacityTyped == \A b \in Buffers : Capacity[b] \in Nat /\ Capacity[b] \in Values(int)
<1>1. \A b \in Buffers : Capacity[b] \in Values(jint) /\ Capacity[b] >= 0
  BY CallsAssumption
<1>2. jint = int
  BY DEF jint, int
<1>3. QED
  BY <1>1, <1>2, CTypes, ValuesAreNumbers

LEMMA PassBufferTyped ==
    ASSUME TypeOK, NEW method \in Methods, NEW b \in Buffers, NEW type \in Types,
           PassBuffer(method, b, type)
    PROVE  TypeOK'
<1>1. Capacity[b] \in Nat /\ Cast(Capacity[b], type) \in Int
  BY CapacityTyped, CastInValues, ValuesAreNumbers
<1>2. QED
  BY <1>1, BeginTyped DEF PassBuffer

\* Values keep their types: a number in C is one of its C type, one in Java of its Java type.
THEOREM CallsTyped == Spec => []TypeOK
<1>1. Init => TypeOK
  BY NothingTyped DEF Init, TypeOK, NoCall, Methods, NoPollfds
<1>2. ASSUME TypeOK, [Next]_vars
      PROVE  TypeOK'
  <2>1. ASSUME NEW b \in Buffers, BufferSteps(b)
        PROVE  TypeOK'
    <3>1. {"controlTransfer", "bulkTransfer", "interruptTransfer", "getPortNumbers"}
            \subseteq Methods
      BY DEF Methods, TransferMethods, OtherMethods
    <3>2. QED
      BY <1>2, <2>1, <3>1, CTypes, PassBufferTyped
      DEF BufferSteps, ControlTransfer, BulkTransfer, InterruptTransfer, GetPortNumbers
  <2>2. ASSUME NEW n \in 0..StringBytes, AllocStreams(n) \/ FreeStreams(n)
        PROVE  TypeOK'
    <3>1. n \in Nat /\ n \in Int /\ {"allocStreams", "freeStreams"} \subseteq Methods
      BY CallsAssumption DEF Methods, OtherMethods
    <3>2. QED
      BY <1>2, <2>2, <3>1, BeginTyped DEF AllocStreams, FreeStreams, PassArray
  <2>3. CASE GetStringDescriptorAscii
    <3>1. StringBytes \in Nat /\ StringBytes - 1 \in Int /\ "getStringDescriptorAscii" \in Methods
      BY CallsAssumption DEF Methods
    <3>2. QED
      BY <1>2, <2>3, <3>1, BeginTyped DEF GetStringDescriptorAscii
  <2>4. CASE TerminateString
    <3>1. PICK result \in 0..call.reach :
            call' = [method |-> "terminate", memory |-> call.memory, reach |-> result + 1]
      BY <2>4 DEF TerminateString
    <3>2. call.reach \in Int /\ call.memory \in Nat
      BY <1>2 DEF TypeOK
    <3>3. result + 1 \in Int
      BY <3>2
    <3>4. call' \in [method : Methods, memory : Nat, reach : Int]
      BY <3>1, <3>2, <3>3 DEF Methods, OtherMethods
    <3>5. UNCHANGED <<transferred, pollfds, last, tv, answer, field>>
      BY <2>4 DEF TerminateString, numbers
    <3>6. QED
      BY <1>2, <3>4, <3>5 DEF TypeOK
  <2>5. CASE ReturnResult
    BY <1>2, <2>5 DEF ReturnResult, Return, numbers, TypeOK, NoCall, Methods
  <2>6. CASE LibusbTransfer
    <3>1. \/ last' \in [result : Results \ {"refused"}, counted : 0..call.reach]
          \/ last' = NoResult
      BY <2>6 DEF LibusbTransfer
    <3>2. last' \in [result : Results, counted : Int]
      BY <3>1, NothingTyped
    <3>3. transferred' \in Int
      BY <1>2, <2>6, <3>2 DEF LibusbTransfer, PutTransferred, TypeOK
    <3>4. call' = NoCall /\ UNCHANGED <<pollfds, tv, answer, field>>
      BY <2>6 DEF LibusbTransfer, Return, numbers
    <3>5. NoCall \in [method : Methods, memory : Nat, reach : Int]
      BY DEF NoCall, Methods
    <3>6. QED
      BY <1>2, <3>2, <3>3, <3>4, <3>5 DEF TypeOK
  <2>7. CASE GetConfiguration
    <3>1. "getConfiguration" \in Methods
      BY DEF Methods
    <3>2. QED
      BY <1>2, <2>7, <3>1, BeginTyped DEF GetConfiguration
  <2>8. CASE LibusbGetConfiguration
    <3>1. \/ last' \in [result : {"success"}, counted : Configurations]
          \/ last' = NoResult
      BY <2>8 DEF LibusbGetConfiguration
    <3>2. last' \in [result : Results, counted : Int]
      <4>1. Configurations \subseteq Int /\ "success" \in Results
        BY CallsAssumption DEF Results
      <4>2. QED
        BY <3>1, <4>1, NothingTyped
    <3>3. transferred' \in Int
      BY <1>2, <2>8, <3>2 DEF LibusbGetConfiguration, PutConfiguration, TypeOK
    <3>4. call' = NoCall /\ UNCHANGED <<pollfds, tv, answer, field>>
      BY <2>8 DEF LibusbGetConfiguration, Return, numbers
    <3>5. NoCall \in [method : Methods, memory : Nat, reach : Int]
      BY DEF NoCall, Methods
    <3>6. QED
      BY <1>2, <3>2, <3>3, <3>4, <3>5 DEF TypeOK
  <2>9. ASSUME NEW timeout \in Values(jlong), TimeoutSteps(timeout)
        PROVE  TypeOK'
    BY <1>2, <2>9, TimevalTypes, NothingTyped
    DEF TimeoutSteps, WaitForEvent, HandleEventsTimeout, HandleEventsLocked,
           HandleEventsTimeoutCompleted, PassTimeout, TypeOK
  <2>10. ASSUME NEW sec \in 0..(SignBit[LongBytes] - 1), NEW usec \in 0..(MicrosPerSecond - 1),
                GetNextTimeout(sec, usec)
         PROVE  TypeOK'
    <3>1. sec \in Nat /\ usec \in Nat
      BY CallsAssumption
    <3>2. answer' \in [sec : Nat, usec : Nat, told : Values(long)]
      BY <2>10, <3>1 DEF GetNextTimeout
    <3>3. QED
      BY <1>2, <2>10, <3>2, NothingTyped DEF GetNextTimeout, TypeOK
  <2>11. ASSUME NEW n \in 0..MaxPollfds, GetPollfds(n)
         PROVE  TypeOK'
    <3>1. n \in Nat
      BY CallsAssumption
    <3>2. QED
      BY <1>2, <2>11, <3>1, ForgetTyped DEF GetPollfds, TypeOK, NumbersTyped
  <2>12. CASE FreePollfds
    BY <1>2, <2>12, ForgetTyped DEF FreePollfds, TypeOK, NumbersTyped
  <2>13. ASSUME NEW index \in -1..(MaxPollfds + 1), PollfdsGet(index)
         PROVE  TypeOK'
    <3>1. pollfds \in Nat /\ index + 1 \in Int /\ "Pollfds.get" \in Methods
      BY <1>2, <2>13, CallsAssumption DEF PollfdsGet, TypeOK, Methods, OtherMethods
    <3>2. QED
      BY <1>2, <2>13, <3>1, BeginTyped DEF PollfdsGet
  <2>14. ASSUME NEW f \in TypesOf(Getters), NEW value \in Values(f.c), Get(f, value)
         PROVE  TypeOK'
    <3>1. f.c \in Types /\ f.java \in Types /\ value \in Int
      BY FitsGet, ValuesAreNumbers DEF Fits
    <3>2. Cast(value, f.java) \in Values(f.java) /\ Cast(value, f.java) \in Int
      BY <3>1, CastInValues, ValuesAreNumbers
    <3>3. field' = [way |-> "get", c |-> f.c, java |-> f.java,
                    inC |-> value, inJava |-> Cast(value, f.java)]
      BY <2>14 DEF Get
    <3>4. QED
      BY <1>2, <2>14, <3>1, <3>2, <3>3, NothingTyped DEF Get, TypeOK
  <2>15. ASSUME NEW f \in TypesOf(Setters), NEW value \in Values(f.java), Set(f, value)
         PROVE  TypeOK'
    <3>1. f.c \in Types /\ f.java \in Types /\ value \in Int
      BY FitsGet, ValuesAreNumbers DEF Fits
    <3>2. Cast(value, f.c) \in Values(f.c) /\ Cast(value, f.c) \in Int
      BY <3>1, CastInValues, ValuesAreNumbers
    <3>3. field' = [way |-> "set", c |-> f.c, java |-> f.java,
                    inC |-> Cast(value, f.c), inJava |-> value]
      BY <2>15 DEF Set
    <3>4. QED
      BY <1>2, <2>15, <3>1, <3>2, <3>3, NothingTyped DEF Set, TypeOK
  <2>16. CASE UNCHANGED vars
    BY <1>2, <2>16 DEF vars, numbers, TypeOK
  <2>17. QED
    BY <1>2, <2>1, <2>2, <2>3, <2>4, <2>5, <2>6, <2>7, <2>8, <2>9, <2>10, <2>11, <2>12, <2>13,
       <2>14, <2>15, <2>16 DEF Next
<1>3. QED
  BY <1>1, <1>2, PTL DEF Spec

-----------------------------------------------------------------------------
(***************************************************************************)
(* Memory.  A string leaves room for the zero that ends it.                *)
(***************************************************************************)
RoomForZero == call.method = "getStringDescriptorAscii" => call.reach + 1 <= call.memory
InBounds == AccessesInBounds /\ RoomForZero

LEMMA BeginInBounds ==
    ASSUME NEW method, NEW memory \in Nat, NEW reach \in 0..memory,
           method = "getStringDescriptorAscii" => reach + 1 <= memory,
           Begin(method, memory, reach)
    PROVE  InBounds'
BY DEF Begin, InBounds, AccessesInBounds, RoomForZero

\* A length of 16 bits is never more than that of the buffer.
LEMMA CastToUint16 ==
    ASSUME NEW n \in Nat
    PROVE  Cast(n, uint16) \in 0..n
<1> DEFINE m == 2 * SignBit[2]
<1>1. m \in Nat \ {0}
  BY Weights DEF Widths
<1>2. Cast(n, uint16) = n % m
  BY DEF Cast, uint16, Unsigned
<1> HIDE DEF m
<1>3. n \in Int
  OBVIOUS
<1>4. n % m \in 0..(m - 1)
  BY <1>1, <1>3, ModRange
<1>5. n % m <= n
  BY <1>1, ModLess
<1>6. QED
  BY <1>1, <1>2, <1>4, <1>5

LEMMA PassBufferInBounds ==
    ASSUME NEW method, method # "getStringDescriptorAscii", NEW b \in Buffers,
           NEW type \in {uint16, int}, PassBuffer(method, b, type)
    PROVE  InBounds'
<1>1. Capacity[b] \in Nat /\ Capacity[b] \in Values(int)
  BY CapacityTyped
<1>2. Cast(Capacity[b], type) \in 0..Capacity[b]
  <2>1. CASE type = uint16
    BY <1>1, <2>1, CastToUint16
  <2>2. CASE type = int
    BY <1>1, <2>2, CTypes, CastKeepsValues
  <2>3. QED
    BY <2>1, <2>2
<1>3. QED
  BY <1>1, <1>2, BeginInBounds DEF PassBuffer

\* Neither libusb nor the native code reaches beyond the memory of a call.
THEOREM CallsStayInBounds == Spec => []AccessesInBounds
<1>1. Init => InBounds
  BY DEF Init, NoCall, InBounds, AccessesInBounds, RoomForZero
<1>2. ASSUME TypeOK, InBounds, [Next]_vars
      PROVE  InBounds'
  <2>1. ASSUME NEW b \in Buffers, BufferSteps(b)
        PROVE  InBounds'
    BY <2>1, PassBufferInBounds
    DEF BufferSteps, ControlTransfer, BulkTransfer, InterruptTransfer, GetPortNumbers
  <2>2. ASSUME NEW n \in 0..StringBytes, AllocStreams(n) \/ FreeStreams(n)
        PROVE  InBounds'
    <3>1. n \in Nat /\ n \in 0..n
      BY CallsAssumption
    <3>2. QED
      BY <2>2, <3>1, BeginInBounds DEF AllocStreams, FreeStreams, PassArray
  <2>3. CASE GetStringDescriptorAscii
    <3>1. StringBytes \in Nat /\ StringBytes - 1 \in 0..StringBytes
          /\ (StringBytes - 1) + 1 <= StringBytes
      BY CallsAssumption
    <3>2. QED
      BY <2>3, <3>1, BeginInBounds DEF GetStringDescriptorAscii
  <2>4. CASE TerminateString
    <3>1. PICK result \in 0..call.reach :
            call' = [method |-> "terminate", memory |-> call.memory, reach |-> result + 1]
      BY <2>4 DEF TerminateString
    <3>2. call.reach \in Int /\ call.memory \in Nat /\ call.reach + 1 <= call.memory
      BY <1>2, <2>4 DEF TypeOK, InBounds, RoomForZero, TerminateString
    <3>3. result + 1 \in 0..call.memory
      BY <3>2
    <3>4. QED
      BY <3>1, <3>3 DEF InBounds, AccessesInBounds, RoomForZero
  <2>5. CASE call' = NoCall
    BY <2>5 DEF NoCall, InBounds, AccessesInBounds, RoomForZero
  <2>6. CASE GetConfiguration
    BY <2>6, BeginInBounds DEF GetConfiguration
  <2>7. ASSUME NEW index \in -1..(MaxPollfds + 1), PollfdsGet(index)
        PROVE  InBounds'
    <3>1. pollfds \in Nat /\ index \in Int /\ index >= 0 /\ index < pollfds
      BY <1>2, <2>7, CallsAssumption DEF PollfdsGet, TypeOK
    <3>2. index + 1 \in 0..pollfds
      BY <3>1
    <3>3. QED
      BY <2>7, <3>1, <3>2, BeginInBounds DEF PollfdsGet
  <2>8. CASE UNCHANGED call
    BY <1>2, <2>8 DEF InBounds, AccessesInBounds, RoomForZero
  <2>9. ReturnResult \/ LibusbTransfer \/ LibusbGetConfiguration => call' = NoCall
    BY DEF ReturnResult, LibusbTransfer, LibusbGetConfiguration, Return
  <2>10. /\ \A timeout \in Values(jlong) : TimeoutSteps(timeout) => UNCHANGED call
         /\ \A sec, usec : GetNextTimeout(sec, usec) => UNCHANGED call
         /\ \A n : GetPollfds(n) => UNCHANGED call
         /\ FreePollfds => UNCHANGED call
         /\ \A f, value : Get(f, value) \/ Set(f, value) => UNCHANGED call
         /\ UNCHANGED vars => UNCHANGED call
    BY DEF TimeoutSteps, WaitForEvent, HandleEventsTimeout, HandleEventsLocked,
           HandleEventsTimeoutCompleted, PassTimeout, GetNextTimeout, GetPollfds,
           FreePollfds, Get, Set, vars
  <2>11. QED
    BY <1>2, <2>1, <2>2, <2>3, <2>4, <2>5, <2>6, <2>7, <2>8, <2>9, <2>10 DEF Next
<1>3. InBounds => AccessesInBounds
  BY DEF InBounds
<1>4. QED
  BY <1>1, <1>2, <1>3, CallsTyped, PTL DEF Spec

-----------------------------------------------------------------------------
(***************************************************************************)
(* Numbers.                                                                *)
(***************************************************************************)
\* What a client reads after a call that succeeded or timed out is what libusb counted in
\* it, and no call shows it an uninitialised variable, in buffers of every size.
THEOREM ResultsTold == Spec => []ResultsTellTruth
<1>1. Init => ResultsTellTruth
  BY DEF Init, NoResult, Uninitialised, ResultsTellTruth
<1>2. ASSUME ResultsTellTruth, [Next]_vars
      PROVE  ResultsTellTruth'
  <2>1. CASE LibusbTransfer
    <3>1. \/ /\ last'.result \in Results \ {"refused"} /\ last'.counted \in 0..call.reach
          \/ last' = NoResult
      BY <2>1 DEF LibusbTransfer
    <3>2. last'.result \in {"success", "timeout"} => last'.counted # Uninitialised
      BY <3>1 DEF NoResult, Uninitialised
    <3>3. QED
      BY <1>2, <2>1, <3>2 DEF LibusbTransfer, PutTransferred, ResultsTellTruth
  <2>2. CASE LibusbGetConfiguration
    <3>1. \/ last'.result = "success" /\ last'.counted \in Configurations
          \/ last' = NoResult
      BY <2>2 DEF LibusbGetConfiguration
    <3>2. last'.result # "timeout" /\ (last'.result = "success" => last'.counted # Uninitialised)
      BY <3>1, CallsAssumption DEF NoResult, Uninitialised
    <3>3. QED
      BY <1>2, <2>2, <3>2 DEF LibusbGetConfiguration, PutConfiguration, ResultsTellTruth
  <2>3. CASE UNCHANGED transferred /\ last' \in {last, NoResult}
    BY <1>2, <2>3 DEF NoResult, ResultsTellTruth
  <2> DEFINE Quiet == UNCHANGED transferred /\ last' \in {last, NoResult}
  <2>4. /\ \A b : BufferSteps(b) => Quiet
        /\ \A n : AllocStreams(n) \/ FreeStreams(n) => Quiet
        /\ GetStringDescriptorAscii \/ TerminateString \/ ReturnResult \/ GetConfiguration => Quiet
    BY DEF BufferSteps, ControlTransfer, BulkTransfer, InterruptTransfer, GetPortNumbers,
           PassBuffer, AllocStreams, FreeStreams, PassArray, GetStringDescriptorAscii,
           TerminateString, ReturnResult, GetConfiguration, Begin, Forget
  <2>5. /\ \A timeout : TimeoutSteps(timeout) => Quiet
        /\ \A sec, usec : GetNextTimeout(sec, usec) => Quiet
        /\ \A n : GetPollfds(n) => Quiet
        /\ FreePollfds => Quiet
        /\ \A index : PollfdsGet(index) => Quiet
        /\ \A f, value : Get(f, value) \/ Set(f, value) => Quiet
        /\ UNCHANGED vars => Quiet
    BY DEF TimeoutSteps, WaitForEvent, HandleEventsTimeout, HandleEventsLocked,
           HandleEventsTimeoutCompleted, PassTimeout, GetNextTimeout, GetPollfds, FreePollfds,
           PollfdsGet, Get, Set, Begin, Forget, vars
  <2>6. QED
    BY <1>2, <2>1, <2>2, <2>3, <2>4, <2>5 DEF Next
<1>3. QED
  BY <1>1, <1>2, PTL DEF Spec

\* A timeout that fits into a long is handed over exactly.
THEOREM TimeoutsHandedOver == Spec => []TimeoutsKept
<1>1. NoTimeout.timeout = 0 /\ NoTimeout.sec = 0 /\ NoTimeout.usec = 0
  BY DEF NoTimeout
<1>2. MicrosPerSecond \in Nat \ {0}
  BY CallsAssumption
<1>3. 0 * MicrosPerSecond + 0 = 0 /\ 0 \in 0..(MicrosPerSecond - 1)
  BY <1>2
<1>4. Init => TimeoutsKept
  BY <1>1, <1>3 DEF Init, TimeoutsKept
<1>5. ASSUME TimeoutsKept, [Next]_vars
      PROVE  TimeoutsKept'
  <2>1. ASSUME NEW timeout \in Values(jlong), TimeoutSteps(timeout)
        PROVE  TimeoutsKept'
    <3>1. tv' = Timeval(timeout) /\ Timeval(timeout).timeout = timeout
      BY <2>1 DEF TimeoutSteps, WaitForEvent, HandleEventsTimeout, HandleEventsLocked,
           HandleEventsTimeoutCompleted, PassTimeout, Timeval
    <3>2. QED
      BY <3>1, TimevalExact DEF TimeoutsKept
  <2>2. CASE tv' \in {tv, NoTimeout}
    BY <1>1, <1>3, <1>5, <2>2 DEF TimeoutsKept
  <2> DEFINE Quiet == tv' \in {tv, NoTimeout}
  <2>3. /\ \A b : BufferSteps(b) => Quiet
        /\ \A n : AllocStreams(n) \/ FreeStreams(n) => Quiet
        /\ GetStringDescriptorAscii \/ TerminateString \/ ReturnResult \/ GetConfiguration => Quiet
        /\ LibusbTransfer \/ LibusbGetConfiguration => Quiet
    BY DEF BufferSteps, ControlTransfer, BulkTransfer, InterruptTransfer, GetPortNumbers,
           PassBuffer, AllocStreams, FreeStreams, PassArray, GetStringDescriptorAscii,
           TerminateString, ReturnResult, GetConfiguration, Begin, Forget, Return, numbers,
           LibusbTransfer, LibusbGetConfiguration
  <2>4. /\ \A sec, usec : GetNextTimeout(sec, usec) => Quiet
        /\ \A n : GetPollfds(n) => Quiet
        /\ FreePollfds => Quiet
        /\ \A index : PollfdsGet(index) => Quiet
        /\ \A f, value : Get(f, value) \/ Set(f, value) => Quiet
        /\ UNCHANGED vars => Quiet
    BY DEF GetNextTimeout, GetPollfds, FreePollfds, PollfdsGet, Get, Set, Begin, Forget, vars,
           numbers
  <2>5. QED
    BY <1>5, <2>1, <2>2, <2>3, <2>4 DEF Next
<1>6. QED
  BY <1>4, <1>5, PTL DEF Spec

\* A number of microseconds is split in one way only.
LEMMA SplitOnce ==
    ASSUME NEW m \in Nat \ {0}, NEW p \in Int, NEW q \in Int,
           NEW r \in 0..(m - 1), NEW u \in 0..(m - 1), p * m + r = q * m + u
    PROVE  p = q /\ r = u
<1>1. ASSUME NEW i \in Int, NEW j \in Int, i < j
      PROVE  i * m + m <= j * m
  <2>1. j * m = i * m + (j - i) * m
    OBVIOUS
  <2>2. (j - i) * m >= m
    BY <1>1
  <2>3. QED
    BY <2>1, <2>2
<1>2. p * m \in Int /\ q * m \in Int
  OBVIOUS
<1>3. ~(p < q)
  BY <1>1, <1>2
<1>4. ~(q < p)
  BY <1>1, <1>2
<1>5. QED
  BY <1>3, <1>4

\* What libusb answered, and what Java was told of it.
AnswerKept ==
    /\ answer.sec \in Nat /\ answer.usec \in 0..(MicrosPerSecond - 1)
    /\ Micros(answer.sec, answer.usec) \in Values(long)
         => answer.told = Micros(answer.sec, answer.usec)

\* The next timeout comes back to libusb as the struct timeval it named.
THEOREM NextTimeoutReturns == Spec => []TimeoutsReturn
<1>1. MicrosPerSecond \in Nat \ {0}
  BY CallsAssumption
<1>2. NoAnswer.sec = 0 /\ NoAnswer.usec = 0 /\ NoAnswer.told = 0
  BY DEF NoAnswer
<1>3. 0 * MicrosPerSecond + 0 = 0 /\ 0 \in 0..(MicrosPerSecond - 1)
  BY <1>1
<1>4. Init => AnswerKept
  BY <1>2, <1>3 DEF Init, AnswerKept, Micros
<1>5. ASSUME AnswerKept, [Next]_vars
      PROVE  AnswerKept'
  <2>1. ASSUME NEW sec \in 0..(SignBit[LongBytes] - 1), NEW usec \in 0..(MicrosPerSecond - 1),
               GetNextTimeout(sec, usec)
        PROVE  AnswerKept'
    <3>1. PICK told \in Values(long) :
            /\ Micros(sec, usec) \in Values(long) => told = Micros(sec, usec)
            /\ answer' = [sec |-> sec, usec |-> usec, told |-> told]
      BY <2>1 DEF GetNextTimeout
    <3>2. answer'.sec = sec /\ answer'.usec = usec /\ answer'.told = told /\ sec \in Nat
      BY <3>1
    <3>3. QED
      BY <3>1, <3>2 DEF AnswerKept, Micros
  <2>2. CASE answer' \in {answer, NoAnswer}
    BY <1>2, <1>3, <1>5, <2>2 DEF AnswerKept, Micros
  <2> DEFINE Quiet == answer' \in {answer, NoAnswer}
  <2>3. /\ \A b : BufferSteps(b) => Quiet
        /\ \A n : AllocStreams(n) \/ FreeStreams(n) => Quiet
        /\ GetStringDescriptorAscii \/ TerminateString \/ ReturnResult \/ GetConfiguration => Quiet
        /\ LibusbTransfer \/ LibusbGetConfiguration => Quiet
    BY DEF BufferSteps, ControlTransfer, BulkTransfer, InterruptTransfer, GetPortNumbers,
           PassBuffer, AllocStreams, FreeStreams, PassArray, GetStringDescriptorAscii,
           TerminateString, ReturnResult, GetConfiguration, Begin, Forget, Return, numbers,
           LibusbTransfer, LibusbGetConfiguration
  <2>4. /\ \A timeout : TimeoutSteps(timeout) => Quiet
        /\ \A n : GetPollfds(n) => Quiet
        /\ FreePollfds => Quiet
        /\ \A index : PollfdsGet(index) => Quiet
        /\ \A f, value : Get(f, value) \/ Set(f, value) => Quiet
        /\ UNCHANGED vars => Quiet
    BY DEF TimeoutSteps, WaitForEvent, HandleEventsTimeout, HandleEventsLocked,
           HandleEventsTimeoutCompleted, PassTimeout, GetPollfds, FreePollfds, PollfdsGet, Get,
           Set, Begin, Forget, vars, numbers
  <2>5. QED
    BY <1>5, <2>1, <2>2, <2>3, <2>4 DEF Next
<1>6. ASSUME TypeOK, AnswerKept, TimeoutsKept
      PROVE  TimeoutsReturn
  <2>1. SUFFICES ASSUME Micros(answer.sec, answer.usec) \in Values(long),
                        tv.timeout = answer.told
                 PROVE  tv.sec = answer.sec /\ tv.usec = answer.usec
    BY DEF TimeoutsReturn, Micros
  <2>2. /\ answer.sec \in Nat /\ answer.usec \in 0..(MicrosPerSecond - 1)
        /\ tv.timeout = answer.sec * MicrosPerSecond + answer.usec
        /\ tv.timeout \in Values(long)
    BY <1>6, <2>1 DEF AnswerKept, Micros
  <2>3. tv.timeout >= 0
    <3>1. answer.sec * MicrosPerSecond \in Nat /\ answer.usec \in Nat
      BY <1>1, <2>2
    <3>2. QED
      BY <2>2, <3>1
  <2>4. /\ tv.sec * MicrosPerSecond + tv.usec = tv.timeout
        /\ tv.usec \in 0..(MicrosPerSecond - 1)
    BY <1>6, <2>2, <2>3 DEF TimeoutsKept
  <2>5. tv.sec \in Int
    BY <1>6, CTypes, ValuesAreNumbers DEF TypeOK
  <2>6. tv.sec * MicrosPerSecond + tv.usec = answer.sec * MicrosPerSecond + answer.usec
    BY <2>2, <2>4
  <2>7. answer.sec \in Int
    BY <2>2
  <2> DEFINE m == MicrosPerSecond
             p == tv.sec
             r == tv.usec
             q == answer.sec
             u == answer.usec
  <2>8. /\ m \in Nat \ {0} /\ p \in Int /\ q \in Int
        /\ r \in 0..(m - 1) /\ u \in 0..(m - 1) /\ p * m + r = q * m + u
    BY <1>1, <2>2, <2>4, <2>5, <2>6, <2>7
  <2> HIDE DEF m, p, q, r, u
  <2>9. p = q /\ r = u
    BY <2>8, SplitOnce
  <2> QED
    BY <2>9 DEF p, q, r, u
<1>7. QED
  BY <1>4, <1>5, <1>6, CallsTyped, TimeoutsHandedOver, PTL DEF Spec

\* No accessor loses a bit, and what is set can be told again.
THEOREM FieldsRoundTrip == Spec => []FieldsKept
<1>1. NoField.way = "none"
  BY DEF NoField
<1>2. Init => FieldsKept
  BY <1>1 DEF Init, FieldsKept
<1>3. ASSUME FieldsKept, [Next]_vars
      PROVE  FieldsKept'
  <2>1. ASSUME NEW f \in TypesOf(Getters), NEW value \in Values(f.c), Get(f, value)
        PROVE  FieldsKept'
    <3>1. /\ f.c \in Types /\ f.java \in Types
          /\ f.c.bytes = f.java.bytes \/ (f.c.bytes < f.java.bytes /\ f.java.signed)
      BY FitsGet DEF Fits
    <3>2. value \in Values(f.java) \/ f.c.bytes = f.java.bytes
      BY <3>1, FitsWidens
    <3>3. Cast(Cast(value, f.java), f.c) = value
      BY <3>1, <3>2, RoundTrip
    <3>4. field' = [way |-> "get", c |-> f.c, java |-> f.java,
                    inC |-> value, inJava |-> Cast(value, f.java)]
      BY <2>1 DEF Get
    <3>5. QED
      BY <3>3, <3>4 DEF FieldsKept
  <2>2. ASSUME NEW f \in TypesOf(Setters), NEW value \in Values(f.java), Set(f, value)
        PROVE  FieldsKept'
    <3>1. /\ f.c \in Types /\ f.java \in Types
          /\ f.c.bytes <= f.java.bytes
      BY FitsGet, Weights DEF Fits, Types, Widths
    <3>2. field' = [way |-> "set", c |-> f.c, java |-> f.java,
                    inC |-> Cast(value, f.c), inJava |-> value]
      BY <2>2 DEF Set
    <3>3. ASSUME f.java.bytes <= f.c.bytes \/ value \in Values(f.c)
          PROVE  Cast(Cast(value, f.c), f.java) = value
      <4>1. value \in Values(f.c) \/ f.java.bytes = f.c.bytes
        BY <3>1, <3>3 DEF Types, Widths
      <4>2. QED
        BY <3>1, <4>1, RoundTrip
    <3>4. QED
      BY <3>2, <3>3 DEF FieldsKept
  <2>3. CASE field' \in {field, NoField}
    BY <1>1, <1>3, <2>3 DEF FieldsKept
  <2> DEFINE Quiet == field' \in {field, NoField}
  <2>4. /\ \A b : BufferSteps(b) => Quiet
        /\ \A n : AllocStreams(n) \/ FreeStreams(n) => Quiet
        /\ GetStringDescriptorAscii \/ TerminateString \/ ReturnResult \/ GetConfiguration => Quiet
        /\ LibusbTransfer \/ LibusbGetConfiguration => Quiet
    BY DEF BufferSteps, ControlTransfer, BulkTransfer, InterruptTransfer, GetPortNumbers,
           PassBuffer, AllocStreams, FreeStreams, PassArray, GetStringDescriptorAscii,
           TerminateString, ReturnResult, GetConfiguration, Begin, Forget, Return, numbers,
           LibusbTransfer, LibusbGetConfiguration
  <2>5. /\ \A timeout : TimeoutSteps(timeout) => Quiet
        /\ \A sec, usec : GetNextTimeout(sec, usec) => Quiet
        /\ \A n : GetPollfds(n) => Quiet
        /\ FreePollfds => Quiet
        /\ \A index : PollfdsGet(index) => Quiet
        /\ UNCHANGED vars => Quiet
    BY DEF TimeoutSteps, WaitForEvent, HandleEventsTimeout, HandleEventsLocked,
           HandleEventsTimeoutCompleted, PassTimeout, GetNextTimeout, GetPollfds, FreePollfds,
           PollfdsGet, Begin, Forget, vars, numbers
  <2>6. QED
    BY <1>3, <2>1, <2>2, <2>3, <2>4, <2>5 DEF Next
<1>4. QED
  BY <1>2, <1>3, PTL DEF Spec
==============================================================================
