-------------------------- MODULE TransferFieldsProof --------------------------
(***************************************************************************)
(* Proofs about TransferFields: for any number of transfers, buffers and   *)
(* packets, libusb only reaches memory that is there, and the life of a    *)
(* transfer is the one Transfers implements.                               *)
(***************************************************************************)
EXTENDS TransferFields, TLAPS

Phases == {"absent", "idle", "flying", "done", "released"}

\* What is needed of the life cycle: a transfer is done from its completion to the end
\* of it if it is freed then, and to the moment its listener is told otherwise.
LifeInv ==
    /\ phase \in [Transfers -> Phases]
    /\ notice.stage = "due" \/ (notice.stage \in {"told", "over"} /\ notice.last)
         => notice.t \in Transfers /\ phase[notice.t] = "done"
    /\ notice.stage = "told" /\ ~notice.last
         => notice.t \in Transfers /\ phase[notice.t] # "done"

\* What the client holds is not collected.
HeldAlive == held \cap Buffers \subseteq memory

\* A setBuffer under way is of a transfer at rest, or of its listener, and it goes on to
\* name the buffer whose address it has stored.
AtRest(t) == phase[t] = "idle" \/ Life!Telling(t)

SettingKnown ==
    \A t \in Transfers, b \in Buffers \cup {NULL} :
        <<t, b>> \in setting => AtRest(t) /\ b = buffer[t]

(***************************************************************************)
(* The chain from a transfer to its memory.  The transfer is pinned, and   *)
(* its field transferBuffer names the buffer whose address is stored or    *)
(* setBuffer is about to make it so: either way the buffer is not collected*)
(***************************************************************************)
Chained(t) ==
    /\ pinned[t]
    /\ <<t, buffer[t]>> \in setting \/ transferBuffer[t] = buffer[t]
    /\ buffer[t] \in memory \cup {NULL}

Roomy(t) ==
    /\ packets[t] = maxNumIsoPackets[t] /\ packets[t] <= MaxIsoPackets
    /\ numIsoPackets[t] \in 0..packets[t]
    /\ \A i \in packetViews[t] : i < packets[t]

\* The fields of a transfer nobody has got yet are as libusb_alloc_transfer leaves them.
Blank(t) ==
    /\ buffer[t] = NULL /\ transferBuffer[t] = NULL
    /\ numIsoPackets[t] = 0 /\ packetViews[t] = {}

FieldsInv ==
    /\ TypeOK /\ LifeInv /\ HeldAlive /\ SettingKnown
    /\ \A t \in Transfers : ~Released(t) => Chained(t) /\ Roomy(t)
    /\ \A t \in Transfers : phase[t] = "absent" => Blank(t)

LEMMA InitFieldsInv == Init => FieldsInv
<1> SUFFICES ASSUME Init PROVE FieldsInv
  OBVIOUS
<1>1. TypeOK
  BY DEF Init, TypeOK
<1>2. LifeInv
  BY DEF Init, Life!Init, Life!NoNotice, LifeInv, Phases
<1>3. HeldAlive
  BY DEF Init, HeldAlive
<1>4. \A t \in Transfers : Released(t) /\ Blank(t)
  BY DEF Init, Life!Init, Released, Blank
<1>5. SettingKnown
  BY DEF Init, SettingKnown
<1> QED
  BY <1>1, <1>2, <1>3, <1>4, <1>5 DEF FieldsInv

-----------------------------------------------------------------------------
\* A step of the life cycle that neither allocates nor releases keeps a transfer on the
\* side of Released where it was.
LEMMA LifeStep ==
  ASSUME LifeInv,
         \/ \E t \in Transfers : Life!Submit(t) \/ Life!SetAutoFree(t) \/ Life!Complete(t)
         \/ \E t \in Transfers, l \in Listeners \cup {NULL} : Life!Register(t, l)
         \/ Life!Tell \/ Life!ListenerReturns \/ (Life!Finish /\ ~notice.last)
         \/ UNCHANGED lifeVars
  PROVE  /\ LifeInv'
         /\ \A t \in Transfers : Released(t)' => Released(t) /\ phase'[t] = phase[t]
         /\ \A t \in Transfers : Released(t) => Released(t)'
<1> USE TransferFieldsAssumption DEF LifeInv, Phases, Released
<1>1. ASSUME NEW t \in Transfers, Life!Submit(t) \/ Life!SetAutoFree(t)
      PROVE  /\ LifeInv'
             /\ \A x \in Transfers : Released(x)' => Released(x) /\ phase'[x] = phase[x]
             /\ \A x \in Transfers : Released(x) => Released(x)'
  BY <1>1 DEF Life!Submit, Life!SetAutoFree
<1>2. ASSUME NEW t \in Transfers, Life!Complete(t)
      PROVE  /\ LifeInv'
             /\ \A x \in Transfers : Released(x)' => Released(x) /\ phase'[x] = phase[x]
             /\ \A x \in Transfers : Released(x) => Released(x)'
  <2>1. /\ notice'.t = t /\ notice'.stage = "due"
        /\ phase[t] = "flying" /\ phase' = [phase EXCEPT ![t] = "done"]
    BY <1>2 DEF Life!Complete, Life!NoNotice
  <2> QED
    BY <2>1
<1>3. ASSUME NEW t \in Transfers, NEW l \in Listeners \cup {NULL}, Life!Register(t, l)
      PROVE  /\ LifeInv'
             /\ \A x \in Transfers : Released(x)' => Released(x) /\ phase'[x] = phase[x]
             /\ \A x \in Transfers : Released(x) => Released(x)'
  BY <1>3 DEF Life!Register
<1>4. CASE Life!Tell
  <2>1. notice'.stage \in {"told", "over"} /\ notice'.t = notice.t /\ notice'.last = notice.last
    BY <1>4 DEF Life!Tell
  <2>2. notice.t \in Transfers /\ phase[notice.t] = "done"
    BY <1>4 DEF Life!Tell
  <2>3. phase' = IF notice.last THEN phase ELSE [phase EXCEPT ![notice.t] = "idle"]
    BY <1>4 DEF Life!Tell
  <2> QED
    BY <2>1, <2>2, <2>3
<1>5. CASE Life!ListenerReturns
  <2>1. notice'.stage # "due"
    BY <1>5 DEF Life!ListenerReturns
  <2> QED
    BY <1>5, <2>1 DEF Life!ListenerReturns
<1>6. CASE Life!Finish /\ ~notice.last
  BY <1>6 DEF Life!Finish, Life!NoNotice
<1>7. CASE UNCHANGED lifeVars
  BY <1>7 DEF lifeVars
<1> QED
  BY <1>1, <1>2, <1>3, <1>4, <1>5, <1>6, <1>7

\* Where a setBuffer is under way these steps leave its transfer at rest.
LEMMA RestStep ==
  ASSUME LifeInv, NEW t \in Transfers, Setting(t), AtRest(t),
         \/ \E u \in Transfers : SubmitTransfer(u) \/ Configure(u) \/ Complete(u)
         \/ Tell \/ ListenerReturns \/ Finish
  PROVE  AtRest(t)'
<1> USE DEF AtRest, Life!Telling, LifeInv, Phases
<1>1. ASSUME NEW u \in Transfers, SubmitTransfer(u)
      PROVE  AtRest(t)'
  BY <1>1 DEF SubmitTransfer, Life!Submit
<1>2. ASSUME NEW u \in Transfers, Configure(u)
      PROVE  AtRest(t)'
  BY <1>2 DEF Configure, Life!SetAutoFree, Life!Register
<1>3. ASSUME NEW u \in Transfers, Complete(u)
      PROVE  AtRest(t)'
  <2>1. notice.stage = "none" /\ phase[u] = "flying" /\ phase' = [phase EXCEPT ![u] = "done"]
    BY <1>3 DEF Complete, Life!Complete, Life!NoNotice
  <2> QED
    BY <2>1
<1>4. CASE Tell
  <2>1. /\ notice.stage = "due"
        /\ phase' = IF notice.last THEN phase ELSE [phase EXCEPT ![notice.t] = "idle"]
    BY <1>4 DEF Tell, Life!Tell
  <2> QED
    BY <2>1
<1>5. CASE ListenerReturns
  <2>1. phase' = phase /\ notice.stage = "told" /\ (notice.last => ~Setting(notice.t))
    BY <1>5 DEF ListenerReturns, Life!ListenerReturns
  <2> QED
    BY <2>1
<1>6. CASE Finish
  <2>1. /\ notice.stage = "over"
        /\ IF notice.last THEN phase' = [phase EXCEPT ![notice.t] = "released"] ELSE phase' = phase
    BY <1>6 DEF Finish, Life!Finish
  <2> QED
    BY <2>1
<1> QED
  BY <1>1, <1>2, <1>3, <1>4, <1>5, <1>6

\* Steps that touch neither the memory nor a field.
LEMMA QuietStep ==
  ASSUME FieldsInv, FieldsUnchanged, LifeInv', held' \subseteq held \cup Transfers,
         \A t \in Transfers : Released(t)' => Released(t) /\ phase'[t] = phase[t],
         \A t \in Transfers : Released(t) => Released(t)',
         \A t \in Transfers : Setting(t) => AtRest(t)'
  PROVE  FieldsInv'
<1> USE TransferFieldsAssumption
    DEF FieldsInv, FieldsUnchanged, bufferVars, packetVars
<1>1. TypeOK'
  BY DEF TypeOK
<1>2. HeldAlive'
  BY DEF HeldAlive
<1>3. \A t \in Transfers : ~Released(t)' => Chained(t)' /\ Roomy(t)'
  BY DEF Chained, Roomy
<1>4. \A t \in Transfers : phase'[t] = "absent" => Blank(t)'
  <2> SUFFICES ASSUME NEW t \in Transfers, phase'[t] = "absent" PROVE Blank(t)'
    OBVIOUS
  <2>1. phase[t] = "absent"
    BY DEF Released
  <2> QED
    BY <2>1 DEF Blank
<1>5. SettingKnown'
  BY DEF SettingKnown, Setting
<1> QED
  BY <1>1, <1>2, <1>3, <1>4, <1>5

LEMMA FlightStep ==
  ASSUME FieldsInv,
         \/ \E t \in Transfers : SubmitTransfer(t) \/ Configure(t) \/ Complete(t)
         \/ Tell \/ ListenerReturns \/ (Finish /\ ~notice.last)
  PROVE  FieldsInv'
<1>1. /\ FieldsUnchanged
      /\ \/ \E t \in Transfers : Life!Submit(t) \/ Life!SetAutoFree(t) \/ Life!Complete(t)
         \/ \E t \in Transfers, l \in Listeners \cup {NULL} : Life!Register(t, l)
         \/ Life!Tell \/ Life!ListenerReturns \/ (Life!Finish /\ ~notice.last)
  BY DEF SubmitTransfer, Configure, Complete, Tell, ListenerReturns, Finish
<1>2. held' \subseteq held \cup Transfers
  <2>1. CASE Tell
    <3>1. notice.t \in Transfers
      BY <2>1 DEF Tell, Life!Tell, FieldsInv, LifeInv
    <3> QED
      BY <2>1, <3>1 DEF Tell
  <2> QED
    BY <2>1 DEF SubmitTransfer, Configure, Complete, ListenerReturns, Finish
<1>3. LifeInv
  BY DEF FieldsInv
<1>4. ASSUME NEW t \in Transfers, Setting(t)
      PROVE  AtRest(t)'
  <2>1. AtRest(t)
    BY <1>4 DEF FieldsInv, SettingKnown, Setting
  <2> QED
    BY <1>3, <1>4, <2>1, RestStep
<1> QED
  BY <1>1, <1>2, <1>3, <1>4, LifeStep, QuietStep

\* The client's references and the collector's work.
LEMMA MemoryStep ==
  ASSUME FieldsInv,
         \/ \E b \in Buffers : NewBuffer(b) \/ Collect(b)
         \/ \E object \in Transfers \cup Buffers : Drop(object)
  PROVE  FieldsInv'
<1> USE TransferFieldsAssumption DEF FieldsInv, NewBuffer, Collect, Drop, lifeVars, bufferVars,
    packetVars
<1>1. TypeOK'
  BY DEF TypeOK
<1>2. LifeInv' /\ \A t \in Transfers : Released(t)' <=> Released(t)
  BY DEF LifeInv, Released
<1>3. HeldAlive'
  BY DEF HeldAlive
<1>4. ASSUME NEW t \in Transfers, ~Released(t)'
      PROVE  Chained(t)' /\ Roomy(t)'
  <2>1. Chained(t) /\ Roomy(t)
    BY <1>2, <1>4
  <2>2. Roomy(t)'
    BY <2>1 DEF Roomy
  <2>3. buffer[t] \in memory' \cup {NULL}
    BY <2>1 DEF Chained, Reachable
  <2> QED
    BY <2>1, <2>2, <2>3 DEF Chained
<1>5. \A t \in Transfers : phase'[t] = "absent" => Blank(t)'
  BY DEF Blank
<1>6. SettingKnown'
  BY DEF SettingKnown, AtRest, Life!Telling
<1> QED
  BY <1>1, <1>2, <1>3, <1>4, <1>5, <1>6

LEMMA AllocStep ==
  ASSUME FieldsInv, NEW t \in Transfers, NEW n \in 0..MaxIsoPackets, AllocTransfer(t, n)
  PROVE  FieldsInv'
<1> USE TransferFieldsAssumption DEF FieldsInv, AllocTransfer, Life!Allocate, bufferVars
<1>1. TypeOK'
  BY DEF TypeOK
<1>2. LifeInv'
  BY DEF LifeInv, Phases
<1>3. HeldAlive'
  BY DEF HeldAlive
<1>4. phase' = [phase EXCEPT ![t] = "idle"] /\ phase \in [Transfers -> Phases]
  BY DEF LifeInv
<1>5. Chained(t)' /\ Roomy(t)'
  <2>1. Blank(t)
    OBVIOUS
  <2>2. packets'[t] = n /\ maxNumIsoPackets'[t] = n /\ pinned'[t]
    BY DEF TypeOK
  <2> QED
    BY <2>1, <2>2 DEF Blank, Chained, Roomy
<1>6. ASSUME NEW u \in Transfers, u # t
      PROVE  /\ ~Released(u)' => Chained(u)' /\ Roomy(u)'
             /\ phase'[u] = "absent" => Blank(u)'
  BY <1>4, <1>6 DEF Released, Chained, Roomy, Blank, TypeOK
<1>7. phase'[t] # "absent"
  BY <1>4
<1>8. SettingKnown'
  BY <1>4 DEF SettingKnown, AtRest, Life!Telling
<1> QED
  BY <1>1, <1>2, <1>3, <1>5, <1>6, <1>7, <1>8

\* Only a transfer that is somebody's can be touched, and stays so.
LEMMA TouchFacts ==
  ASSUME FieldsInv, NEW t \in Transfers, MayTouch(t)
  PROVE  ~Released(t) /\ Chained(t) /\ Roomy(t)
BY DEF FieldsInv, MayTouch, Life!Telling, Released

LEMMA SetBufferStep ==
  ASSUME FieldsInv, NEW t \in Transfers, NEW b \in Buffers \cup {NULL}, SetBufferNative(t, b)
  PROVE  FieldsInv'
<1> USE TransferFieldsAssumption DEF FieldsInv, SetBufferNative, lifeVars, packetVars
<1>1. ~Released(t) /\ Chained(t) /\ Roomy(t)
  BY TouchFacts
<1>2. /\ buffer' = [buffer EXCEPT ![t] = b]
      /\ b \in memory \cup {NULL} /\ b \notin HeapBuffers
  BY DEF GetDirectBufferAddress, HeldAlive
<1>3. TypeOK'
  BY <1>2 DEF TypeOK
<1>4. LifeInv' /\ \A u \in Transfers : Released(u)' <=> Released(u)
  BY DEF LifeInv, Released
<1>5. HeldAlive'
  BY DEF HeldAlive
<1>6. buffer'[t] = b /\ <<t, b>> \in setting'
  BY <1>2 DEF TypeOK
<1>7. Chained(t)' /\ Roomy(t)'
  BY <1>1, <1>2, <1>6 DEF Chained, Roomy
<1>8. ASSUME NEW u \in Transfers, u # t
      PROVE  /\ ~Released(u)' => Chained(u)' /\ Roomy(u)'
             /\ phase'[u] = "absent" => Blank(u)'
  <2>1. buffer'[u] = buffer[u]
    BY <1>2, <1>8 DEF TypeOK
  <2> QED
    BY <1>4, <2>1 DEF Chained, Roomy, Blank
<1>9. phase'[t] # "absent"
  BY <1>1 DEF Released
\* No other setBuffer of t is under way.
<1>10. SettingKnown'
  <2> SUFFICES ASSUME NEW u \in Transfers, NEW c \in Buffers \cup {NULL}, <<u, c>> \in setting'
               PROVE  AtRest(u)' /\ c = buffer'[u]
    BY DEF SettingKnown
  <2>1. CASE u = t
    <3>1. c = b
      BY <2>1 DEF MayTouch, Setting
    <3> QED
      BY <1>6, <2>1, <3>1 DEF MayTouch, AtRest, Life!Telling
  <2>2. CASE u # t
    <3>1. <<u, c>> \in setting /\ buffer'[u] = buffer[u]
      BY <1>2, <2>2 DEF TypeOK
    <3> QED
      BY <3>1 DEF SettingKnown, AtRest, Life!Telling
  <2> QED
    BY <2>1, <2>2
<1> QED
  BY <1>3, <1>4, <1>5, <1>7, <1>8, <1>9, <1>10

LEMMA StoreBufferStep ==
  ASSUME FieldsInv, NEW t \in Transfers, NEW b \in Buffers \cup {NULL}, StoreBuffer(t, b)
  PROVE  FieldsInv'
<1> USE TransferFieldsAssumption DEF FieldsInv, StoreBuffer, lifeVars, packetVars
<1>1. AtRest(t) /\ b = buffer[t]
  BY DEF SettingKnown
<1>2. ~Released(t)
  BY <1>1 DEF AtRest, Life!Telling, Released
<1>3. TypeOK'
  BY DEF TypeOK
<1>4. LifeInv' /\ \A u \in Transfers : Released(u)' <=> Released(u)
  BY DEF LifeInv, Released
<1>5. HeldAlive'
  BY DEF HeldAlive
<1>6. Chained(t)' /\ Roomy(t)'
  <2>1. transferBuffer'[t] = buffer'[t]
    BY <1>1 DEF TypeOK
  <2> QED
    BY <1>2, <2>1 DEF Chained, Roomy
<1>7. ASSUME NEW u \in Transfers, u # t
      PROVE  /\ ~Released(u)' => Chained(u)' /\ Roomy(u)'
             /\ phase'[u] = "absent" => Blank(u)'
  <2>1. /\ transferBuffer'[u] = transferBuffer[u]
        /\ <<u, buffer[u]>> \in setting => <<u, buffer[u]>> \in setting'
    BY <1>7 DEF TypeOK
  <2> QED
    BY <1>4, <2>1 DEF Chained, Roomy, Blank
<1>8. phase'[t] # "absent"
  BY <1>2 DEF Released
<1>9. SettingKnown'
  BY DEF SettingKnown, AtRest, Life!Telling
<1> QED
  BY <1>3, <1>4, <1>5, <1>6, <1>7, <1>8, <1>9

LEMMA PacketStep ==
  ASSUME FieldsInv, NEW t \in Transfers,
         NEW n \in -(MaxIsoPackets + 1)..(MaxIsoPackets + 1),
         SetNumIsoPackets(t, n) \/ IsoPacketDesc(t)
  PROVE  FieldsInv'
<1> USE TransferFieldsAssumption
    DEF FieldsInv, SetNumIsoPackets, IsoPacketDesc, lifeVars, bufferVars
<1>1. ~Released(t) /\ Chained(t) /\ Roomy(t)
  BY TouchFacts
<1>2. numIsoPackets[t] \in Int /\ packets[t] \in Nat /\ maxNumIsoPackets[t] \in Nat
  BY DEF TypeOK
<1>3. TypeOK'
  <2>1. CASE SetNumIsoPackets(t, n)
    BY <2>1 DEF TypeOK
  <2>2. CASE IsoPacketDesc(t)
    <3>1. 0..(numIsoPackets[t] - 1) \in SUBSET Nat
      BY <1>2
    <3>2. packetViews[t] \in SUBSET Nat
      BY DEF TypeOK
    <3>3. packetViews[t] \cup 0..(numIsoPackets[t] - 1) \in SUBSET Nat
      BY <3>1, <3>2
    <3> QED
      BY <2>2, <3>3 DEF TypeOK
  <2> QED
    BY <2>1, <2>2
<1>4. LifeInv' /\ HeldAlive' /\ \A u \in Transfers : Released(u)' <=> Released(u)
  BY DEF LifeInv, HeldAlive, Released
<1>5. Chained(t)'
  BY <1>1 DEF Chained
<1>6. Roomy(t)'
  <2>1. CASE SetNumIsoPackets(t, n)
    <3>1. n \in 0..packets[t]
      BY <1>1, <1>2, <2>1 DEF Roomy, SizeOf
    <3>2. numIsoPackets'[t] = n
      BY <2>1 DEF TypeOK
    <3> QED
      BY <1>1, <2>1, <3>1, <3>2 DEF Roomy
  <2>2. CASE IsoPacketDesc(t)
    <3>1. packetViews'[t] = packetViews[t] \cup 0..(numIsoPackets[t] - 1)
      BY <2>2 DEF TypeOK
    <3>2. \A i \in 0..(numIsoPackets[t] - 1) : i < packets[t]
      BY <1>1, <1>2 DEF Roomy
    <3>3. \A i \in packetViews[t] : i < packets[t]
      BY <1>1 DEF Roomy
    <3> QED
      BY <1>1, <2>2, <3>1, <3>2, <3>3 DEF Roomy
  <2> QED
    BY <2>1, <2>2
<1>7. ASSUME NEW u \in Transfers, u # t
      PROVE  /\ ~Released(u)' => Chained(u)' /\ Roomy(u)'
             /\ phase'[u] = "absent" => Blank(u)'
  <2>1. /\ UNCHANGED <<phase, memory, pinned, transferBuffer, setting, buffer, packets,
                       maxNumIsoPackets>>
        /\ numIsoPackets'[u] = numIsoPackets[u]
        /\ packetViews'[u] = packetViews[u]
    BY <1>7 DEF TypeOK
  <2> QED
    BY <1>4, <2>1 DEF Chained, Roomy, Blank
<1>8. phase'[t] # "absent"
  BY <1>1 DEF Released
<1>9. SettingKnown'
  BY DEF SettingKnown, AtRest, Life!Telling
<1> QED
  BY <1>3, <1>4, <1>5, <1>6, <1>7, <1>8, <1>9

\* freeTransfer, or a completion that frees its transfer.
LEMMA ReleaseStep ==
  ASSUME FieldsInv, NEW t \in Transfers, FreeFields(t),
         ResetTransfer(t) \/ UNCHANGED transferBuffer,
         ~Setting(t), LifeInv', notice' = notice \/ notice.t = t,
         \A u \in Transfers : u # t => phase'[u] = phase[u],
         phase'[t] = "released"
  PROVE  FieldsInv'
<1> USE TransferFieldsAssumption DEF FieldsInv, FreeFields, ResetTransfer
<1>1. TypeOK'
  <2>1. {} \in SUBSET Nat /\ 0 \in Nat /\ 0 \in Int
    OBVIOUS
  <2>2. packetViews' \in [Transfers -> SUBSET Nat]
    BY <2>1 DEF TypeOK
  <2>3. /\ held' \subseteq Transfers \cup Buffers
        /\ memory' \subseteq Buffers
        /\ pinned' \in [Transfers -> BOOLEAN]
        /\ transferBuffer' \in [Transfers -> Buffers \cup {NULL}]
        /\ setting' \subseteq Transfers \X (Buffers \cup {NULL})
    BY DEF TypeOK
  <2>4. buffer' \in [Transfers -> (Buffers \ HeapBuffers) \cup {NULL}]
    BY DEF TypeOK
  <2>5. packets' \in [Transfers -> Nat]
    BY <2>1 DEF TypeOK
  <2>6. maxNumIsoPackets' \in [Transfers -> Nat]
    BY <2>1 DEF TypeOK
  <2>7. numIsoPackets' \in [Transfers -> Int]
    <3>1. /\ numIsoPackets \in [Transfers -> Int]
          /\ numIsoPackets' = [numIsoPackets EXCEPT ![t] = 0]
      BY DEF TypeOK
    <3> QED
      BY <2>1, <3>1, Zenon
  <2> QED
    BY <2>2, <2>3, <2>4, <2>5, <2>6, <2>7 DEF TypeOK
<1>2. HeldAlive'
  BY DEF HeldAlive
<1>3. ASSUME NEW u \in Transfers, u # t
      PROVE  /\ ~Released(u)' => Chained(u)' /\ Roomy(u)'
             /\ phase'[u] = "absent" => Blank(u)'
  <2>1. /\ phase'[u] = phase[u] /\ pinned'[u] = pinned[u]
        /\ transferBuffer'[u] = transferBuffer[u] /\ buffer'[u] = buffer[u]
        /\ setting' = setting /\ packets'[u] = packets[u]
        /\ maxNumIsoPackets'[u] = maxNumIsoPackets[u]
        /\ numIsoPackets'[u] = numIsoPackets[u] /\ packetViews'[u] = packetViews[u]
    BY <1>3 DEF TypeOK
  <2> QED
    BY <2>1 DEF Released, Chained, Roomy, Blank
<1>4. Released(t)' /\ phase'[t] # "absent"
  BY DEF Released
<1>5. SettingKnown'
  <2> SUFFICES ASSUME NEW u \in Transfers, NEW b \in Buffers \cup {NULL}, <<u, b>> \in setting'
               PROVE  AtRest(u)' /\ b = buffer'[u]
    BY DEF SettingKnown
  <2>1. u # t /\ <<u, b>> \in setting
    BY DEF Setting
  <2>2. AtRest(u) /\ b = buffer[u] /\ buffer'[u] = buffer[u] /\ phase'[u] = phase[u]
    BY <2>1 DEF SettingKnown, TypeOK
  <2> QED
    BY <2>1, <2>2 DEF AtRest, Life!Telling
<1> QED
  BY <1>1, <1>2, <1>3, <1>4, <1>5

LEMMA FreeStep ==
  ASSUME FieldsInv, NEW t \in Transfers, FreeTransfer(t)
  PROVE  FieldsInv'
<1>1. phase' = [phase EXCEPT ![t] = "released"] /\ phase[t] = "idle" /\ notice' = notice
  BY DEF FreeTransfer, Life!Release
<1>2. phase \in [Transfers -> Phases]
  BY DEF FieldsInv, LifeInv
<1>3. LifeInv'
  BY <1>1, <1>2 DEF FieldsInv, LifeInv, Phases
<1> QED
  BY <1>1, <1>2, <1>3, ReleaseStep DEF FreeTransfer

LEMMA LastStep ==
  ASSUME FieldsInv, Finish, notice.last
  PROVE  FieldsInv'
<1>1. phase' = [phase EXCEPT ![notice.t] = "released"] /\ notice'.stage = "none"
  BY DEF Finish, Life!Finish, Life!NoNotice
<1>2. phase \in [Transfers -> Phases]
  BY DEF FieldsInv, LifeInv
<1>3. LifeInv'
  BY <1>1, <1>2 DEF LifeInv, Phases
<1>4. notice.t \in Transfers /\ phase[notice.t] = "done" /\ ~Life!Telling(notice.t)
  BY DEF FieldsInv, LifeInv, Finish, Life!Finish, Life!Telling
<1>5. ~Setting(notice.t)
  BY <1>4 DEF FieldsInv, SettingKnown, Setting, AtRest
<1>6. FreeFields(notice.t) /\ (ResetTransfer(notice.t) \/ UNCHANGED transferBuffer)
  BY DEF Finish
<1> QED
  BY <1>1, <1>2, <1>3, <1>4, <1>5, <1>6, ReleaseStep

LEMMA FieldsInvStep == FieldsInv /\ [Next]_vars => FieldsInv'
<1> SUFFICES ASSUME FieldsInv, [Next]_vars PROVE FieldsInv'
  OBVIOUS
<1>1. ASSUME NEW t \in Transfers, TransferSteps(t) PROVE FieldsInv'
  BY <1>1, AllocStep, SetBufferStep, StoreBufferStep, PacketStep, FreeStep, FlightStep, TransferFieldsAssumption
  DEF TransferSteps
<1>2. CASE Finish
  BY <1>2, LastStep, FlightStep
<1>3. CASE UNCHANGED vars
  <2>1. FieldsUnchanged /\ UNCHANGED <<lifeVars, held>>
    BY <1>3 DEF vars, FieldsUnchanged, bufferVars, packetVars
  <2>2. \A t \in Transfers : Setting(t) => AtRest(t)'
    BY <2>1 DEF FieldsInv, SettingKnown, Setting, AtRest, Life!Telling, lifeVars
  <2> QED
    BY <2>1, <2>2, LifeStep, QuietStep DEF FieldsInv
<1> QED
  BY <1>1, <1>2, <1>3, MemoryStep, FlightStep DEF Next

LEMMA FieldsInvariance == Spec => []FieldsInv
BY InitFieldsInv, FieldsInvStep, PTL DEF Spec

-----------------------------------------------------------------------------
\* Every variable keeps its type.
THEOREM FieldsTyped == Spec => []TypeOK
<1>1. FieldsInv => TypeOK
  BY DEF FieldsInv
<1> QED
  BY <1>1, FieldsInvariance, PTL

\* No buffer is collected under a transfer: whatever references the client drops, and
\* whenever the collector runs.
THEOREM BuffersStayAlive == Spec => []BufferLive
<1>1. FieldsInv => BufferLive
  BY DEF FieldsInv, BufferLive, Chained
<1> QED
  BY <1>1, FieldsInvariance, PTL

\* libusb and the client reach only packets that were allocated, for every size_t wide
\* enough that a negative count is not taken for one that fits.
THEOREM PacketsFit == Spec => []PacketsInBlock
<1>1. FieldsInv => PacketsInBlock
  BY DEF FieldsInv, PacketsInBlock, Roomy
<1> QED
  BY <1>1, FieldsInvariance, PTL

-----------------------------------------------------------------------------
\* Every step that moves a transfer through its life is one of TransferLifecycle, which
\* Transfers implements too: what is shown here of its data is shown of no other life.
THEOREM FieldsFollowLifecycle == Spec => Life!Spec
<1>1. Init => Life!Init
  BY DEF Init
<1>2. [Next]_vars => [Life!Next]_(Life!vars)
  <2> SUFFICES ASSUME [Next]_vars PROVE Life!Next \/ UNCHANGED lifeVars
    BY DEF Life!vars, lifeVars
  <2>1. ASSUME NEW t \in Transfers, TransferSteps(t)
        PROVE  Life!Next \/ UNCHANGED lifeVars
    BY <2>1 DEF TransferSteps, AllocTransfer, SetBufferNative, StoreBuffer,
                SetNumIsoPackets, IsoPacketDesc,
                FreeTransfer, SubmitTransfer, Configure, Complete, Life!Next
  <2>2. CASE \/ \E b \in Buffers : NewBuffer(b) \/ Collect(b)
             \/ \E object \in Transfers \cup Buffers : Drop(object)
             \/ UNCHANGED vars
    BY <2>2 DEF NewBuffer, Collect, Drop, vars
  <2>3. CASE Tell \/ ListenerReturns \/ Finish
    BY <2>3 DEF Tell, ListenerReturns, Finish, Life!Next
  <2> QED
    BY <2>1, <2>2, <2>3 DEF Next
<1> QED
  BY <1>1, <1>2, PTL DEF Spec, Life!Spec
=============================================================================
