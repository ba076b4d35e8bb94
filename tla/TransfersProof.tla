---------------------------- MODULE TransfersProof ----------------------------
(***************************************************************************)
(* Proofs about Transfers.  IInv is the inductive invariant: what holds of *)
(* a transfer at each step of a call or of a callback on it, and how the   *)
(* global references are spread over the transfers.                        *)
(***************************************************************************)
EXTENDS Transfers, TLAPS

\* A transfer has at most one call in progress.
CallsApart ==
    \A c, d \in Callers : call[c].t \in Transfers /\ call[c].t = call[d].t => c = d

Live(t) == native[t] = "live" /\ userData[t] = "live"

\* What the steps of a native method have to rely on.
CallFacts ==
    \A c \in Callers : \A t \in Transfers : call[c].t = t =>
        /\ ~AutoFreeing(t)
        /\ native[t] = "live"
        /\ call[c].pc # "freeNative" => userData[t] = "live"
        /\ call[c].pc \in {"submit", "cancel", "freeRefs", "freeReset"} => transferPointer[t]
        /\ call[c].pc \in {"freeData", "freeNative"} => ~transferPointer[t]
        /\ call[c].pc = "cancel" => ~flags[t]
        /\ call[c].pc # "cancel" =>
             ~inFlight[t] /\ (frame.t = t => frame.pc \in {"java", "leave"})

\* Transfers not allocated, or whose allocation failed half way, and those
\* libusb may complete; PointerNamesLive is about those the application may use.
NativeFacts ==
    \A t \in Transfers :
        /\ native[t] = "none" => callback[t] = NULL /\ ~flags[t]
        /\ callback[t] = NULL => ~transferPointer[t] /\ ~inFlight[t]

InFlightFacts ==
    \A t \in Transfers : inFlight[t] =>
        /\ Live(t) /\ transferPointer[t] /\ ~AutoFreeing(t)
        /\ frame.t = t => frame.pc \in {"java", "leave"}

\* What the steps of a completion callback have to rely on.
FrameFacts ==
    LET t == frame.t IN
    frame.pc # "idle" =>
        /\ frame.pc = "enter" => /\ Live(t) /\ transferPointer[t] /\ ~inFlight[t]
                                 /\ flags[t] = frame.libFree
        /\ frame.pc # "enter" => frame.free = frame.libFree
        /\ frame.pc \in {"cleanup", "reset", "freeData"} => frame.libFree
        /\ frame.libFree =>
             /\ native[t] = "live" /\ ~inFlight[t]
             /\ frame.pc # "leave" => userData[t] = "live"
             /\ frame.pc = "leave" => userData[t] = "freed"
             /\ frame.pc \in {"enter", "java", "cleanup", "reset"} => transferPointer[t]
             /\ frame.pc \in {"java", "cleanup"} /\ ~RebindInFreeCallback =>
                  frame.jTransfer = transferObject[t]

\* The saved references fit the installed callback.
CallbackFits ==
    \A t \in Transfers :
        /\ callback[t] = NULL =>
             /\ transferObject[t] = NULL /\ callbackObject[t] = NULL
             /\ callbackUserDataObject[t] = NULL
        /\ callback[t] # NULL => transferObject[t] # NULL /\ transferObject[t].obj = t
        /\ callback[t] = "cleanupCallback" => callbackObject[t] = NULL
        /\ callback[t] = "transferCallback" =>
             callbackObject[t] # NULL /\ callbackObject[t].obj \in Listeners

\* References are never named twice, and no two fields hold the same one.
Fresh ==
    /\ \A r \in liveRefs : r.id < nextRef
    /\ \A t \in Transfers : \A r \in HeldRefs(t) : r # NULL => r.id < nextRef

FieldsApart ==
    /\ \A t \in Transfers :
         /\ transferObject[t] = callbackObject[t] => transferObject[t] = NULL
         /\ transferObject[t] = callbackUserDataObject[t] => transferObject[t] = NULL
         /\ callbackObject[t] = callbackUserDataObject[t] => callbackObject[t] = NULL
    /\ \A t, u \in Transfers :
         t # u => \A r \in HeldRefs(t) : r # NULL => r \notin HeldRefs(u)

\* cleanupGlobalReferences has deleted what the fields of t still name.
DroppedRefsGone ==
    \A t \in Transfers :
        RefsDropped(t) => \/ \A r \in HeldRefs(t) : r \notin liveRefs
                          \/ RebindInFreeCallback /\ AutoFreeing(t)

RefFacts ==
    /\ CallbackFits /\ Fresh /\ FieldsApart
    /\ FieldRefsLive /\ DroppedRefsGone
    /\ ~RebindInFreeCallback => LiveRefsOwned

IInv ==
    /\ TypeOK /\ CallsApart /\ CallFacts /\ NativeFacts /\ InFlightFacts
    /\ PointerNamesLive /\ FrameFacts /\ RefFacts

-----------------------------------------------------------------------------
LEMMA InitIInv == Init => IInv
<1> SUFFICES ASSUME Init PROVE IInv
  OBVIOUS
<1> USE TransfersAssumption, NullIsNoRef DEF Init, Ready, NoFrame
<1>1. TypeOK
  BY DEF TypeOK
<1>2. CallsApart /\ CallFacts
  BY DEF CallsApart, CallFacts
<1>3. NativeFacts /\ InFlightFacts /\ PointerNamesLive /\ FrameFacts
  BY DEF NativeFacts, InFlightFacts, PointerNamesLive, FrameFacts
<1>4. CallbackFits /\ Fresh /\ FieldsApart
  BY DEF CallbackFits, Fresh, FieldsApart, HeldRefs
<1>5. FieldRefsLive /\ DroppedRefsGone /\ LiveRefsOwned
  BY DEF FieldRefsLive, DroppedRefsGone, LiveRefsOwned, HeldRefs
<1> QED
  BY <1>1, <1>2, <1>3, <1>4, <1>5 DEF IInv, RefFacts

LEMMA RefIsTyped ==
  ASSUME NEW n \in Nat, NEW x \in Objects
  PROVE  Ref(n, x) \in RefSet /\ Ref(n, x).id = n /\ Ref(n, x).obj = x
BY DEF Ref, RefSet

LEMMA NullFacts ==
  /\ NULL \notin RefSet
  /\ NULL \notin Transfers
  /\ NULL \notin {"cleanupCallback", "transferCallback"}
BY TransfersAssumption, NullIsNoRef

\* Saving keeps a frame well typed, and so does going to the next step.
LEMMA FrameTyped ==
  ASSUME TypeOK, frame # NoFrame, NEW p \in FramePcs
  PROVE  /\ frame.t \in Transfers
         /\ frame.pc \in FramePcs
         /\ FrameGoes(p) => frame' \in Frames
         /\ \A j \in RefSet \cup {NULL} : FrameSaves(p, j) => frame' \in Frames
<1>1. frame \in Frames
  BY DEF TypeOK
<1>2. flags[frame.t] \in BOOLEAN /\ transferObject[frame.t] \in RefSet \cup {NULL}
  BY <1>1 DEF TypeOK, Frames
<1> QED
  BY <1>1, <1>2 DEF FrameGoes, FrameSaves, Frames

LEMMA TypeOKStep == TypeOK /\ [Next]_vars => TypeOK'
<1> SUFFICES ASSUME TypeOK, [Next]_vars PROVE TypeOK'
  OBVIOUS
<1> USE NullFacts DEF TypeOK, nativeVars, dataVars, refVars
<1>r. /\ nextRef + 1 \in Nat /\ nextRef + 2 \in Nat
      /\ \A x \in Objects : Ref(nextRef, x) \in RefSet /\ Ref(nextRef + 1, x) \in RefSet
  BY RefIsTyped
<1>o. Transfers \subseteq Objects /\ Listeners \subseteq Objects
  BY DEF Objects
<1>1. ASSUME NEW c \in Callers, NEW t \in Transfers, AllocTransfer(c, t) PROVE TypeOK'
  BY <1>1, <1>r, <1>o DEF AllocTransfer, CleanupCallbackEnable
<1>2. ASSUME NEW c \in Callers, NEW t \in Transfers, AllocTransferUnwrapped(c, t)
      PROVE TypeOK'
  BY <1>2 DEF AllocTransferUnwrapped
<1>3. ASSUME NEW c \in Callers, NEW t \in Transfers, SetFlags(c, t) PROVE TypeOK'
  BY <1>3, TransfersAssumption DEF SetFlags
<1>4. ASSUME NEW c \in Callers, NEW t \in Transfers, NEW l \in Listeners \cup {NULL},
             SetCallback(c, t, l)
      PROVE TypeOK'
  <2>1. CASE l = NULL
    BY <1>4, <1>r, <1>o, <2>1 DEF SetCallback, CleanupCallbackEnable
  <2>2. CASE l # NULL
    BY <1>4, <1>r, <1>o, <2>2 DEF SetCallback
  <2> QED
    BY <2>1, <2>2
<1>5. ASSUME NEW c \in Callers, NEW t \in Transfers, NEW l \in Listeners \cup {NULL},
             SetUserData(c, t, l)
      PROVE TypeOK'
  BY <1>5, <1>r, <1>o DEF SetUserData
<1>6. ASSUME NEW c \in Callers, NEW t \in Transfers,
             SubmitTransfer(c, t) \/ CancelTransfer(c, t) \/ FreeTransfer(c, t)
      PROVE TypeOK'
  BY <1>6 DEF SubmitTransfer, CancelTransfer, FreeTransfer, Begin, CallPcs, FreePcs
<1>7. ASSUME NEW c \in Callers, NEW t \in Transfers, CallSteps(c, t)
      PROVE TypeOK'
  <2> USE DEF Begin, Return, CallPcs, FreePcs
  <2>1. CASE LibusbSubmit(c, t) \/ LibusbCancel(c, t)
    BY <2>1 DEF LibusbSubmit, LibusbCancel
  <2>2. CASE FreeRefs(c, t)
    BY <2>2 DEF FreeRefs
  <2>3. CASE FreeReset(c, t)
    BY <2>3 DEF FreeReset
  <2>4. CASE FreeData(c, t)
    BY <2>4 DEF FreeData
  <2>5. CASE FreeNative(c, t)
    BY <2>5 DEF FreeNative
  <2> QED
    BY <1>7, <2>1, <2>2, <2>3, <2>4, <2>5 DEF CallSteps
<1>8. ASSUME NEW t \in Transfers, Complete(t) PROVE TypeOK'
  BY <1>8 DEF Complete, Frames, FramePcs
<1>9. CASE CallbackSteps \/ JavaReturn
  <2> USE FrameTyped DEF OnlyFrameChanges
  <2>1. frame # NoFrame
    BY <1>9 DEF CallbackSteps, EnterCleanupCallback, EnterTransferCallback, CallbackCleanup,
       CallbackReset, CallbackFreeData, CallbackLeave, JavaReturn, NoFrame
  <2>2. \A b : AfterJava(b) \in FramePcs
    BY DEF AfterJava, FramePcs
  <2>3. {"java", "reset", "freeData", "leave"} \subseteq FramePcs
    BY DEF FramePcs
  <2>4. CASE EnterCleanupCallback
    BY <2>1, <2>2, <2>4 DEF EnterCleanupCallback
  <2>5. CASE EnterTransferCallback
    <3>1. callbackObject[frame.t] \in RefSet \cup {NULL}
      BY <2>1, <2>3
    <3> QED
      BY <2>1, <2>3, <2>5, <3>1 DEF EnterTransferCallback
  <2>6. CASE CallbackCleanup
    BY <2>1, <2>3, <2>6 DEF CallbackCleanup
  <2>7. CASE CallbackReset
    BY <2>1, <2>3, <2>7 DEF CallbackReset
  <2>8. CASE CallbackFreeData
    BY <2>1, <2>3, <2>8 DEF CallbackFreeData
  <2>9. CASE CallbackLeave
    BY <2>1, <2>3, <2>9 DEF CallbackLeave
  <2>10. CASE JavaReturn
    BY <2>1, <2>2, <2>10 DEF JavaReturn
  <2> QED
    BY <1>9, <2>4, <2>5, <2>6, <2>7, <2>8, <2>9, <2>10 DEF CallbackSteps
<1>10. CASE UNCHANGED vars
  BY <1>10 DEF vars
<1> QED
  BY <1>1, <1>2, <1>3, <1>4, <1>5, <1>6, <1>7, <1>8, <1>9, <1>10 DEF Next, ClientCalls
\* New references given to the fields of t leave those of different transfers apart.
LEMMA Rebound ==
  ASSUME NEW t \in Transfers, Fresh, FieldsApart,
         nextRef \in Nat, nextRef' \in Nat, nextRef <= nextRef',
         liveRefs \subseteq RefSet,
         \A u \in Transfers : HeldRefs(u) \subseteq RefSet \cup {NULL},
         \A u \in Transfers : u # t => HeldRefs(u)' = HeldRefs(u),
         \A r \in HeldRefs(t)' :
            r = NULL \/ r \in HeldRefs(t) \/ (nextRef <= r.id /\ r.id < nextRef'),
         \A r \in liveRefs' : r \in liveRefs \/ (r \in HeldRefs(t)' /\ r # NULL)
  PROVE  /\ Fresh'
         /\ \A u, v \in Transfers :
               u # v => \A r \in HeldRefs(u)' : r # NULL => r \notin HeldRefs(v)'
<1>1. \A r \in RefSet : r.id \in Nat
  BY DEF RefSet
<1>2. \A u \in Transfers : \A r \in HeldRefs(u) : r # NULL => r.id \in Nat /\ r.id < nextRef
  BY <1>1 DEF Fresh
<1>3. \A u \in Transfers : \A r \in HeldRefs(u)' : r # NULL => r.id < nextRef'
  BY <1>2
<1>4. \A r \in liveRefs' : r.id < nextRef'
  BY <1>1, <1>3 DEF Fresh
<1>5. \A u \in Transfers : u # t =>
        \A r \in HeldRefs(t)' : r # NULL => r \notin HeldRefs(u)
  BY <1>2 DEF FieldsApart
<1> QED
  BY <1>3, <1>4, <1>5 DEF Fresh, FieldsApart


LEMMA IInvStep == IInv /\ [Next]_vars => IInv'
<1> SUFFICES ASSUME IInv, [Next]_vars PROVE IInv'
  OBVIOUS
<1>h. /\ CallsApart /\ CallFacts /\ NativeFacts /\ InFlightFacts /\ PointerNamesLive
      /\ FrameFacts /\ CallbackFits /\ Fresh /\ FieldsApart /\ FieldRefsLive
      /\ DroppedRefsGone /\ (~RebindInFreeCallback => LiveRefsOwned)
  BY DEF IInv, RefFacts
<1>t. TypeOK
  BY DEF IInv
<1>u. TypeOK'
  BY TypeOKStep, <1>t
<1>n. NULL \notin Transfers /\ NULL \notin RefSet /\ NULL \notin {"cleanupCallback", "transferCallback"}
  BY NullFacts
<1>v. nextRef \in Nat /\ nextRef + 1 \in Nat
  BY DEF IInv, TypeOK
<1>r. /\ nextRef \in Nat
      /\ \A x \in Objects : /\ Ref(nextRef, x).id = nextRef /\ Ref(nextRef, x).obj = x
                            /\ Ref(nextRef + 1, x).id = nextRef + 1 /\ Ref(nextRef + 1, x).obj = x
  BY <1>v, RefIsTyped
<1>o. Transfers \subseteq Objects /\ Listeners \subseteq Objects
  BY DEF Objects
<1>i. \A x \in RefSet : x.id \in Nat
  BY DEF RefSet
<1>s. /\ \A c \in Callers : call[c].t \in Transfers <=> call[c] # Ready
      /\ \A c \in Callers : call[c] = Ready \/ (call[c].t \in Transfers /\ call[c].pc \in CallPcs)
  BY <1>t, <1>n DEF TypeOK, Ready
<1>f. \/ frame = NoFrame
      \/ frame.t \in Transfers /\ frame.pc \in FramePcs /\ frame.libFree \in BOOLEAN /\ frame.free \in BOOLEAN
  BY <1>t DEF TypeOK, Frames
<1>1. ASSUME NEW c \in Callers, NEW t \in Transfers, AllocTransfer(c, t) PROVE IInv'
  <2>1. CallsApart' /\ CallFacts'
    BY <1>h, <1>1 DEF CallsApart, CallFacts, AutoFreeing, AllocTransfer
  <2>2. NativeFacts'
    BY <1>h, <1>t, <1>n, <1>1 DEF NativeFacts, TypeOK, AllocTransfer, CleanupCallbackEnable
  <2>3. InFlightFacts'
    BY <1>h, <1>1 DEF InFlightFacts, Live, AutoFreeing, AllocTransfer
  <2>4. PointerNamesLive'
    BY <1>h, <1>t, <1>1 DEF PointerNamesLive, Retiring, AutoFreeing, TypeOK, AllocTransfer
  <2>5. FrameFacts'
    BY <1>h, <1>1 DEF FrameFacts, Live, AllocTransfer, CleanupCallbackEnable
  <2>6. CallbackFits'
    BY <1>h, <1>u, <1>n, <1>r, <1>o, <1>1
       DEF CallbackFits, TypeOK, AllocTransfer, CleanupCallbackEnable
  <2>7. Fresh' /\ FieldsApart'
    BY <1>h, <1>t, <1>r, <1>o, <1>i, <1>1
       DEF Fresh, FieldsApart, TypeOK, AllocTransfer, CleanupCallbackEnable, HeldRefs
  <2>8. FieldRefsLive'
    BY <1>h, <1>1
       DEF FieldRefsLive, RefsDropped, AutoFreeing, CallbackFits, NativeFacts, AllocTransfer,
           CleanupCallbackEnable, HeldRefs, At
  <2>9. DroppedRefsGone'
    BY <1>h, <1>t, <1>u, <1>n, <1>r, <1>o, <1>1
       DEF DroppedRefsGone, RefsDropped, AutoFreeing, Fresh, CallFacts, FrameFacts, TypeOK,
           OnlyFrameChanges, FrameGoes, FrameSaves, AllocTransfer, CleanupCallbackEnable,
           HeldRefs, At
  <2>10. (~RebindInFreeCallback => LiveRefsOwned)'
    BY <1>h, <1>t, <1>1
       DEF LiveRefsOwned, NativeFacts, CallbackFits, TypeOK, AllocTransfer, CleanupCallbackEnable,
           HeldRefs
  <2> QED
    BY <1>u, <2>1, <2>2, <2>3, <2>4, <2>5, <2>6, <2>7, <2>8, <2>9, <2>10 DEF IInv, RefFacts
<1>2. ASSUME NEW c \in Callers, NEW t \in Transfers, AllocTransferUnwrapped(c, t) PROVE IInv'
  <2>1. CallsApart' /\ CallFacts'
    BY <1>h, <1>2 DEF CallsApart, CallFacts, AutoFreeing, AllocTransferUnwrapped
  <2>2. NativeFacts'
    BY <1>h, <1>2 DEF NativeFacts, AllocTransferUnwrapped
  <2>3. InFlightFacts'
    BY <1>h, <1>2 DEF InFlightFacts, Live, AutoFreeing, AllocTransferUnwrapped
  <2>4. PointerNamesLive'
    BY <1>h, <1>2 DEF PointerNamesLive, Retiring, AutoFreeing, AllocTransferUnwrapped
  <2>5. FrameFacts'
    BY <1>h, <1>2 DEF FrameFacts, Live, AllocTransferUnwrapped
  <2>6. CallbackFits'
    BY <1>h, <1>2 DEF CallbackFits, AllocTransferUnwrapped
  <2>7. Fresh' /\ FieldsApart'
    BY <1>h, <1>2
       DEF Fresh, FieldsApart, nativeVars, dataVars, refVars, AllocTransferUnwrapped, HeldRefs
  <2>8. FieldRefsLive'
    BY <1>h, <1>2
       DEF FieldRefsLive, RefsDropped, AutoFreeing, CallbackFits, NativeFacts, nativeVars,
           dataVars, refVars, AllocTransferUnwrapped, HeldRefs, At
  <2>9. DroppedRefsGone'
    BY <1>h, <1>2
       DEF DroppedRefsGone, RefsDropped, AutoFreeing, nativeVars, dataVars, refVars,
           AllocTransferUnwrapped, HeldRefs, At
  <2>10. (~RebindInFreeCallback => LiveRefsOwned)'
    BY <1>h, <1>2 DEF LiveRefsOwned, nativeVars, dataVars, refVars, AllocTransferUnwrapped, HeldRefs
  <2> QED
    BY <1>u, <2>1, <2>2, <2>3, <2>4, <2>5, <2>6, <2>7, <2>8, <2>9, <2>10 DEF IInv, RefFacts
<1>3. ASSUME NEW c \in Callers, NEW t \in Transfers, SetFlags(c, t) PROVE IInv'
  <2>1. CallsApart' /\ CallFacts'
    BY <1>h, <1>3
       DEF CallsApart, CallFacts, AutoFreeing, nativeVars, dataVars, refVars, MayCall, NoCallOn,
           SetFlags, MayUse
  <2>2. NativeFacts'
    BY <1>h, <1>3 DEF NativeFacts, MayCall, NoCallOn, SetFlags, MayUse
  <2>3. InFlightFacts'
    BY <1>h, <1>3 DEF InFlightFacts, Live, AutoFreeing, nativeVars, dataVars, refVars, SetFlags
  <2>4. PointerNamesLive'
    BY <1>h, <1>3
       DEF PointerNamesLive, Retiring, AutoFreeing, nativeVars, dataVars, refVars, SetFlags
  <2>5. FrameFacts'
    BY <1>h, <1>3
       DEF FrameFacts, Live, nativeVars, dataVars, refVars, MayCall, NoCallOn, SetFlags, MayUse
  <2>6. CallbackFits'
    BY <1>h, <1>3 DEF CallbackFits, nativeVars, dataVars, refVars, SetFlags
  <2>7. Fresh' /\ FieldsApart'
    BY <1>h, <1>3 DEF Fresh, FieldsApart, nativeVars, dataVars, refVars, SetFlags, HeldRefs
  <2>8. FieldRefsLive'
    BY <1>h, <1>3
       DEF FieldRefsLive, RefsDropped, AutoFreeing, nativeVars, dataVars, refVars, SetFlags,
           HeldRefs, At
  <2>9. DroppedRefsGone'
    BY <1>h, <1>3
       DEF DroppedRefsGone, RefsDropped, AutoFreeing, nativeVars, dataVars, refVars, SetFlags,
           HeldRefs, At
  <2>10. (~RebindInFreeCallback => LiveRefsOwned)'
    BY <1>h, <1>3 DEF LiveRefsOwned, nativeVars, dataVars, refVars, SetFlags, HeldRefs
  <2> QED
    BY <1>u, <2>1, <2>2, <2>3, <2>4, <2>5, <2>6, <2>7, <2>8, <2>9, <2>10 DEF IInv, RefFacts
<1>4. ASSUME NEW c \in Callers, NEW t \in Transfers, NEW l \in Listeners \cup {NULL}, SetCallback(c, t, l)
      PROVE  IInv'
  <2>1. CallsApart' /\ CallFacts'
    BY <1>h, <1>4 DEF CallsApart, CallFacts, AutoFreeing, SetCallback
  <2>2. NativeFacts'
    BY <1>h, <1>t, <1>n, <1>4
       DEF NativeFacts, TypeOK, MayCall, NoCallOn, SetCallback, CleanupCallbackEnable, MayUse
  <2>3. InFlightFacts'
    BY <1>h, <1>4 DEF InFlightFacts, Live, AutoFreeing, SetCallback
  <2>4. PointerNamesLive'
    BY <1>h, <1>4 DEF PointerNamesLive, Retiring, AutoFreeing, SetCallback
  <2>5. FrameFacts'
    BY <1>h, <1>t, <1>f, <1>4
       DEF FrameFacts, Live, AutoFreeing, TypeOK, Ready, NoFrame, SetCallback,
           CleanupCallbackEnable
  <2>6. CallbackFits'
    BY <1>h, <1>u, <1>n, <1>r, <1>o, <1>4
       DEF CallbackFits, TypeOK, SetCallback, CleanupCallbackEnable
  <2>a. \A u \in Transfers : u # t => HeldRefs(u)' = HeldRefs(u)
    BY <1>t, <1>4 DEF TypeOK, SetCallback, CleanupCallbackEnable, HeldRefs
  <2>b. \A r \in HeldRefs(t)' : r = NULL \/ r = callbackUserDataObject[t]
                                \/ (nextRef <= r.id /\ r.id < nextRef')
    BY <1>t, <1>r, <1>o, <1>4 DEF TypeOK, SetCallback, CleanupCallbackEnable, HeldRefs
  <2>c. /\ \A r \in liveRefs' : r \in liveRefs
                                \/ (r \in HeldRefs(t)' /\ nextRef <= r.id /\ r.id < nextRef')
        /\ nextRef <= nextRef' /\ nextRef' \in Nat
    BY <1>t, <1>r, <1>o, <1>4 DEF TypeOK, SetCallback, CleanupCallbackEnable, HeldRefs
  <2>d. \A u \in Transfers : \A r \in HeldRefs(u) : r = NULL \/ r \in RefSet
    BY <1>t, <1>4 DEF TypeOK, SetCallback, HeldRefs
  <2>e. \A r \in liveRefs : r \in RefSet
    BY <1>t, <1>4 DEF TypeOK, SetCallback
  <2>7. Fresh' /\ FieldsApart'
    <3>1. \A r \in HeldRefs(t)' :
            r = NULL \/ r \in HeldRefs(t) \/ (nextRef <= r.id /\ r.id < nextRef')
      BY <2>b, <1>4 DEF SetCallback, HeldRefs
    <3>2. /\ Fresh'
          /\ \A u, v \in Transfers :
                u # v => \A r \in HeldRefs(u)' : r # NULL => r \notin HeldRefs(v)'
      <4>1. /\ Fresh /\ FieldsApart /\ nextRef \in Nat /\ liveRefs \subseteq RefSet
            /\ \A u \in Transfers : HeldRefs(u) \subseteq RefSet \cup {NULL}
            /\ \A r \in liveRefs' : r \in liveRefs \/ (r \in HeldRefs(t)' /\ r # NULL)
        BY <2>c, <2>d, <2>e, <1>h, <1>t, <1>u, <1>n, <1>4 DEF TypeOK, SetCallback
      <4> QED
        BY Rebound, <2>a, <2>c, <3>1, <4>1
    <3>3. \A u \in Transfers :
            /\ transferObject'[u] = callbackObject'[u] => transferObject'[u] = NULL
            /\ transferObject'[u] = callbackUserDataObject'[u] => transferObject'[u] = NULL
            /\ callbackObject'[u] = callbackUserDataObject'[u] => callbackObject'[u] = NULL
      BY <1>h, <1>t, <1>r, <1>o, <1>4
         DEF FieldsApart, Fresh, TypeOK, SetCallback, CleanupCallbackEnable, HeldRefs
    <3> QED
      BY <3>2, <3>3, <1>4 DEF FieldsApart, SetCallback
  <2>8. FieldRefsLive'
    BY <1>h, <1>t, <1>4
       DEF FieldRefsLive, RefsDropped, AutoFreeing, FieldsApart, TypeOK, SetCallback,
           CleanupCallbackEnable, HeldRefs, At
  <2>9. DroppedRefsGone'
    <3> SUFFICES ASSUME NEW u \in Transfers, RefsDropped(u)', NEW r \in HeldRefs(u)', r \in liveRefs'
                 PROVE  RebindInFreeCallback /\ AutoFreeing(u)'
      BY <1>4 DEF DroppedRefsGone, SetCallback
    <3>1. u # t /\ RefsDropped(u) /\ AutoFreeing(u)' = AutoFreeing(u)
      BY <1>4 DEF RefsDropped, AutoFreeing, MayCall, NoCallOn, SetCallback, MayUse, At
    <3> QED
      BY <2>a, <2>b, <2>c, <3>1, <1>h, <1>u, <1>n, <1>r, <1>i, <1>4
         DEF DroppedRefsGone, Fresh, TypeOK, OnlyFrameChanges, FrameGoes, FrameSaves, CallPcs,
             FramePcs, FreePcs, SetCallback
  <2>10. (~RebindInFreeCallback => LiveRefsOwned)'
    <3> SUFFICES ASSUME LiveRefsOwned, NEW r \in liveRefs'
                 PROVE  \E u \in Transfers : userData'[u] = "live" /\ r \in HeldRefs(u)'
      BY <1>h, <1>4 DEF LiveRefsOwned, SetCallback
    <3>1. userData'[t] = "live"
      BY <1>h, <1>4
         DEF PointerNamesLive, Retiring, AutoFreeing, MayCall, NoCallOn, SetCallback, MayUse
    <3>2. CASE r \in HeldRefs(t)'
      BY <3>1, <3>2, <1>4 DEF SetCallback
    <3>3. CASE r \notin HeldRefs(t)'
      <4>1. PICK u \in Transfers : userData[u] = "live" /\ r \in HeldRefs(u)
        BY <2>c, <3>3, <1>4 DEF LiveRefsOwned, SetCallback
      <4>2. u # t
        BY <3>3, <4>1, <1>t, <1>4 DEF TypeOK, SetCallback, CleanupCallbackEnable, HeldRefs
      <4> QED
        BY <2>a, <4>1, <4>2, <1>4 DEF SetCallback
    <3> QED
      BY <3>2, <3>3, <1>4 DEF SetCallback
  <2> QED
    BY <1>u, <2>1, <2>2, <2>3, <2>4, <2>5, <2>6, <2>7, <2>8, <2>9, <2>10 DEF IInv, RefFacts
<1>5. ASSUME NEW c \in Callers, NEW t \in Transfers, NEW l \in Listeners \cup {NULL}, SetUserData(c, t, l)
      PROVE  IInv'
  <2>1. CallsApart' /\ CallFacts'
    BY <1>h, <1>5 DEF CallsApart, CallFacts, AutoFreeing, nativeVars, dataVars, refVars, SetUserData
  <2>2. NativeFacts'
    BY <1>h, <1>5 DEF NativeFacts, nativeVars, dataVars, refVars, SetUserData
  <2>3. InFlightFacts'
    BY <1>h, <1>5 DEF InFlightFacts, Live, AutoFreeing, nativeVars, dataVars, refVars, SetUserData
  <2>4. PointerNamesLive'
    BY <1>h, <1>5
       DEF PointerNamesLive, Retiring, AutoFreeing, nativeVars, dataVars, refVars, SetUserData
  <2>5. FrameFacts'
    BY <1>h, <1>5 DEF FrameFacts, Live, nativeVars, dataVars, refVars, SetUserData
  <2>6. CallbackFits'
    BY <1>h, <1>t, <1>5
       DEF CallbackFits, NativeFacts, TypeOK, nativeVars, dataVars, refVars, MayCall, NoCallOn,
           SetUserData, MayUse
  <2>a. \A u \in Transfers : u # t => HeldRefs(u)' = HeldRefs(u)
    BY <1>t, <1>5 DEF TypeOK, SetUserData, HeldRefs
  <2>b. \A r \in HeldRefs(t)' : r = NULL \/ r = transferObject[t] \/ r = callbackObject[t]
                                \/ (nextRef <= r.id /\ r.id < nextRef')
    BY <1>t, <1>r, <1>o, <1>5 DEF TypeOK, SetUserData, HeldRefs
  <2>c. /\ \A r \in liveRefs' : r \in liveRefs
                                \/ (r \in HeldRefs(t)' /\ nextRef <= r.id /\ r.id < nextRef')
        /\ nextRef <= nextRef' /\ nextRef' \in Nat
    BY <1>t, <1>r, <1>o, <1>5 DEF TypeOK, SetUserData, HeldRefs
  <2>d. \A u \in Transfers : \A r \in HeldRefs(u) : r = NULL \/ r \in RefSet
    BY <1>t, <1>5 DEF TypeOK, SetUserData, HeldRefs
  <2>e. \A r \in liveRefs : r \in RefSet
    BY <1>t, <1>5 DEF TypeOK, SetUserData
  <2>7. Fresh' /\ FieldsApart'
    <3>1. \A r \in HeldRefs(t)' :
            r = NULL \/ r \in HeldRefs(t) \/ (nextRef <= r.id /\ r.id < nextRef')
      BY <2>b, <1>5 DEF SetUserData, HeldRefs
    <3>2. /\ Fresh'
          /\ \A u, v \in Transfers :
                u # v => \A r \in HeldRefs(u)' : r # NULL => r \notin HeldRefs(v)'
      <4>1. /\ Fresh /\ FieldsApart /\ nextRef \in Nat /\ liveRefs \subseteq RefSet
            /\ \A u \in Transfers : HeldRefs(u) \subseteq RefSet \cup {NULL}
            /\ \A r \in liveRefs' : r \in liveRefs \/ (r \in HeldRefs(t)' /\ r # NULL)
        BY <2>c, <2>d, <2>e, <1>h, <1>t, <1>u, <1>n, <1>5 DEF TypeOK, SetUserData
      <4> QED
        BY Rebound, <2>a, <2>c, <3>1, <4>1
    <3>3. \A u \in Transfers :
            /\ transferObject'[u] = callbackObject'[u] => transferObject'[u] = NULL
            /\ transferObject'[u] = callbackUserDataObject'[u] => transferObject'[u] = NULL
            /\ callbackObject'[u] = callbackUserDataObject'[u] => callbackObject'[u] = NULL
      BY <1>h, <1>t, <1>r, <1>o, <1>5 DEF FieldsApart, Fresh, TypeOK, SetUserData, HeldRefs
    <3> QED
      BY <3>2, <3>3, <1>5 DEF FieldsApart, SetUserData
  <2>8. FieldRefsLive'
    BY <1>h, <1>t, <1>5
       DEF FieldRefsLive, RefsDropped, AutoFreeing, FieldsApart, TypeOK, SetUserData, HeldRefs, At
  <2>9. DroppedRefsGone'
    <3> SUFFICES ASSUME NEW u \in Transfers, RefsDropped(u)', NEW r \in HeldRefs(u)', r \in liveRefs'
                 PROVE  RebindInFreeCallback /\ AutoFreeing(u)'
      BY <1>5 DEF DroppedRefsGone, SetUserData
    <3>1. u # t /\ RefsDropped(u) /\ AutoFreeing(u)' = AutoFreeing(u)
      BY <1>5 DEF RefsDropped, AutoFreeing, MayCall, NoCallOn, SetUserData, MayUse, At
    <3> QED
      BY <2>a, <2>b, <2>c, <3>1, <1>h, <1>u, <1>n, <1>r, <1>o, <1>5
         DEF DroppedRefsGone, Fresh, TypeOK, SetUserData
  <2>10. (~RebindInFreeCallback => LiveRefsOwned)'
    <3> SUFFICES ASSUME LiveRefsOwned, NEW r \in liveRefs'
                 PROVE  \E u \in Transfers : userData'[u] = "live" /\ r \in HeldRefs(u)'
      BY <1>h, <1>5 DEF LiveRefsOwned, SetUserData
    <3>1. userData'[t] = "live"
      BY <1>h, <1>5
         DEF PointerNamesLive, Retiring, AutoFreeing, MayCall, NoCallOn, SetUserData, MayUse
    <3>2. CASE r \in HeldRefs(t)'
      BY <3>1, <3>2, <1>5 DEF SetUserData
    <3>3. CASE r \notin HeldRefs(t)'
      <4>1. PICK u \in Transfers : userData[u] = "live" /\ r \in HeldRefs(u)
        BY <2>c, <3>3, <1>5 DEF LiveRefsOwned, SetUserData
      <4>2. u # t
        BY <3>3, <4>1, <1>t, <1>5 DEF TypeOK, SetUserData, HeldRefs
      <4> QED
        BY <2>a, <4>1, <4>2, <1>5 DEF SetUserData
    <3> QED
      BY <3>2, <3>3, <1>5 DEF SetUserData
  <2> QED
    BY <1>u, <2>1, <2>2, <2>3, <2>4, <2>5, <2>6, <2>7, <2>8, <2>9, <2>10 DEF IInv, RefFacts
<1>6. ASSUME NEW c \in Callers, NEW t \in Transfers, SubmitTransfer(c, t) PROVE IInv'
  <2>1. CallsApart' /\ CallFacts'
    BY <1>h, <1>6
       DEF CallsApart, CallFacts, PointerNamesLive, Retiring, AutoFreeing, nativeVars, dataVars,
           refVars, MayCall, NoCallOn, SubmitTransfer, MayRelease, MayUse, Begin
  <2>2. NativeFacts'
    BY <1>h, <1>6 DEF NativeFacts, nativeVars, dataVars, refVars, SubmitTransfer
  <2>3. InFlightFacts'
    BY <1>h, <1>6
       DEF InFlightFacts, Live, AutoFreeing, nativeVars, dataVars, refVars, SubmitTransfer
  <2>4. PointerNamesLive'
    BY <1>h, <1>6
       DEF PointerNamesLive, Retiring, AutoFreeing, nativeVars, dataVars, refVars, SubmitTransfer
  <2>5. FrameFacts'
    BY <1>h, <1>6 DEF FrameFacts, Live, nativeVars, dataVars, refVars, SubmitTransfer
  <2>6. CallbackFits'
    BY <1>h, <1>6 DEF CallbackFits, nativeVars, dataVars, refVars, SubmitTransfer
  <2>7. Fresh' /\ FieldsApart'
    BY <1>h, <1>6 DEF Fresh, FieldsApart, nativeVars, dataVars, refVars, SubmitTransfer, HeldRefs
  <2>8. FieldRefsLive'
    <3>1. \A u \in Transfers : RefsDropped(u) => RefsDropped(u)'
      BY <1>6
         DEF RefsDropped, AutoFreeing, MayCall, NoCallOn, SubmitTransfer, MayRelease, MayUse,
             Begin, At
    <3> QED
      BY <3>1, <1>h, <1>6 DEF FieldRefsLive, nativeVars, dataVars, refVars, SubmitTransfer, HeldRefs
  <2>9. DroppedRefsGone'
    BY <1>h, <1>6
       DEF DroppedRefsGone, RefsDropped, AutoFreeing, nativeVars, dataVars, refVars,
           SubmitTransfer, Begin, HeldRefs, At
  <2>10. (~RebindInFreeCallback => LiveRefsOwned)'
    BY <1>h, <1>6 DEF LiveRefsOwned, nativeVars, dataVars, refVars, SubmitTransfer, HeldRefs
  <2> QED
    BY <1>u, <2>1, <2>2, <2>3, <2>4, <2>5, <2>6, <2>7, <2>8, <2>9, <2>10 DEF IInv, RefFacts
<1>7. ASSUME NEW c \in Callers, NEW t \in Transfers, CancelTransfer(c, t) PROVE IInv'
  <2>1. CallsApart' /\ CallFacts'
    BY <1>h, <1>7
       DEF CallsApart, CallFacts, PointerNamesLive, Retiring, AutoFreeing, nativeVars, dataVars,
           refVars, MayCall, NoCallOn, CancelTransfer, MayCancel, Begin
  <2>2. NativeFacts'
    BY <1>h, <1>7 DEF NativeFacts, nativeVars, dataVars, refVars, CancelTransfer
  <2>3. InFlightFacts'
    BY <1>h, <1>7
       DEF InFlightFacts, Live, AutoFreeing, nativeVars, dataVars, refVars, CancelTransfer
  <2>4. PointerNamesLive'
    BY <1>h, <1>7
       DEF PointerNamesLive, Retiring, AutoFreeing, nativeVars, dataVars, refVars, CancelTransfer
  <2>5. FrameFacts'
    BY <1>h, <1>7 DEF FrameFacts, Live, nativeVars, dataVars, refVars, CancelTransfer
  <2>6. CallbackFits'
    BY <1>h, <1>7 DEF CallbackFits, nativeVars, dataVars, refVars, CancelTransfer
  <2>7. Fresh' /\ FieldsApart'
    BY <1>h, <1>7 DEF Fresh, FieldsApart, nativeVars, dataVars, refVars, CancelTransfer, HeldRefs
  <2>8. FieldRefsLive'
    BY <1>h, <1>7
       DEF FieldRefsLive, RefsDropped, AutoFreeing, nativeVars, dataVars, refVars, MayCall,
           NoCallOn, CancelTransfer, MayCancel, Begin, HeldRefs, At
  <2>9. DroppedRefsGone'
    BY <1>h, <1>7
       DEF DroppedRefsGone, RefsDropped, AutoFreeing, nativeVars, dataVars, refVars,
           CancelTransfer, Begin, HeldRefs, At
  <2>10. (~RebindInFreeCallback => LiveRefsOwned)'
    BY <1>h, <1>7 DEF LiveRefsOwned, nativeVars, dataVars, refVars, CancelTransfer, HeldRefs
  <2> QED
    BY <1>u, <2>1, <2>2, <2>3, <2>4, <2>5, <2>6, <2>7, <2>8, <2>9, <2>10 DEF IInv, RefFacts
<1>8. ASSUME NEW c \in Callers, NEW t \in Transfers, FreeTransfer(c, t) PROVE IInv'
  <2>1. CallsApart' /\ CallFacts'
    BY <1>h, <1>8
       DEF CallsApart, CallFacts, PointerNamesLive, Retiring, AutoFreeing, nativeVars, dataVars,
           refVars, MayCall, NoCallOn, FreeTransfer, MayRelease, MayUse, Begin
  <2>2. NativeFacts'
    BY <1>h, <1>8 DEF NativeFacts, nativeVars, dataVars, refVars, FreeTransfer
  <2>3. InFlightFacts'
    BY <1>h, <1>8 DEF InFlightFacts, Live, AutoFreeing, nativeVars, dataVars, refVars, FreeTransfer
  <2>4. PointerNamesLive'
    BY <1>h, <1>8
       DEF PointerNamesLive, Retiring, AutoFreeing, nativeVars, dataVars, refVars, FreeTransfer
  <2>5. FrameFacts'
    BY <1>h, <1>8 DEF FrameFacts, Live, nativeVars, dataVars, refVars, FreeTransfer
  <2>6. CallbackFits'
    BY <1>h, <1>8 DEF CallbackFits, nativeVars, dataVars, refVars, FreeTransfer
  <2>7. Fresh' /\ FieldsApart'
    BY <1>h, <1>8 DEF Fresh, FieldsApart, nativeVars, dataVars, refVars, FreeTransfer, HeldRefs
  <2>8. FieldRefsLive'
    <3>1. \A u \in Transfers : RefsDropped(u) => RefsDropped(u)'
      BY <1>8
         DEF RefsDropped, AutoFreeing, MayCall, NoCallOn, FreeTransfer, MayRelease, MayUse, Begin,
             At
    <3> QED
      BY <3>1, <1>h, <1>8 DEF FieldRefsLive, nativeVars, dataVars, refVars, FreeTransfer, HeldRefs
  <2>9. DroppedRefsGone'
    BY <1>h, <1>8
       DEF DroppedRefsGone, RefsDropped, AutoFreeing, nativeVars, dataVars, refVars, FreeTransfer,
           Begin, HeldRefs, At
  <2>10. (~RebindInFreeCallback => LiveRefsOwned)'
    BY <1>h, <1>8 DEF LiveRefsOwned, nativeVars, dataVars, refVars, FreeTransfer, HeldRefs
  <2> QED
    BY <1>u, <2>1, <2>2, <2>3, <2>4, <2>5, <2>6, <2>7, <2>8, <2>9, <2>10 DEF IInv, RefFacts
<1>9. ASSUME NEW c \in Callers, NEW t \in Transfers, LibusbSubmit(c, t) PROVE IInv'
  <2>1. CallsApart' /\ CallFacts'
    BY <1>h, <1>t, <1>n, <1>9
       DEF CallsApart, CallFacts, AutoFreeing, TypeOK, nativeVars, dataVars, refVars, Ready,
           NoFrame, LibusbSubmit, Return, At
  <2>2. NativeFacts'
    BY <1>h, <1>9 DEF CallFacts, NativeFacts, LibusbSubmit, Return, At
  <2>3. InFlightFacts'
    BY <1>h, <1>9
       DEF CallFacts, InFlightFacts, Live, AutoFreeing, nativeVars, dataVars, refVars,
           LibusbSubmit, Return, At
  <2>4. PointerNamesLive'
    BY <1>h, <1>9
       DEF PointerNamesLive, Retiring, AutoFreeing, nativeVars, dataVars, refVars, LibusbSubmit
  <2>5. FrameFacts'
    BY <1>h, <1>9
       DEF CallFacts, FrameFacts, Live, AutoFreeing, nativeVars, dataVars, refVars, LibusbSubmit,
           Return, At
  <2>6. CallbackFits'
    BY <1>h, <1>9 DEF CallbackFits, nativeVars, dataVars, refVars, LibusbSubmit
  <2>7. Fresh' /\ FieldsApart'
    BY <1>h, <1>9 DEF Fresh, FieldsApart, nativeVars, dataVars, refVars, LibusbSubmit, HeldRefs
  <2>8. FieldRefsLive'
    BY <1>h, <1>9
       DEF FieldRefsLive, RefsDropped, AutoFreeing, nativeVars, dataVars, refVars, LibusbSubmit,
           Return, HeldRefs, At
  <2>9. DroppedRefsGone'
    BY <1>h, <1>9
       DEF DroppedRefsGone, RefsDropped, AutoFreeing, nativeVars, dataVars, refVars, Ready,
           NoFrame, LibusbSubmit, Return, HeldRefs, At
  <2>10. (~RebindInFreeCallback => LiveRefsOwned)'
    BY <1>h, <1>9 DEF LiveRefsOwned, nativeVars, dataVars, refVars, LibusbSubmit, HeldRefs
  <2> QED
    BY <1>u, <2>1, <2>2, <2>3, <2>4, <2>5, <2>6, <2>7, <2>8, <2>9, <2>10 DEF IInv, RefFacts
<1>10. ASSUME NEW c \in Callers, NEW t \in Transfers, LibusbCancel(c, t) PROVE IInv'
  <2>1. CallsApart' /\ CallFacts'
    BY <1>h, <1>n, <1>10
       DEF CallsApart, CallFacts, AutoFreeing, nativeVars, dataVars, refVars, Ready, NoFrame,
           LibusbCancel, Return
  <2>2. NativeFacts'
    BY <1>h, <1>10 DEF NativeFacts, nativeVars, dataVars, refVars, LibusbCancel
  <2>3. InFlightFacts'
    BY <1>h, <1>10 DEF InFlightFacts, Live, AutoFreeing, nativeVars, dataVars, refVars, LibusbCancel
  <2>4. PointerNamesLive'
    BY <1>h, <1>10
       DEF PointerNamesLive, Retiring, AutoFreeing, nativeVars, dataVars, refVars, LibusbCancel
  <2>5. FrameFacts'
    BY <1>h, <1>10 DEF FrameFacts, Live, nativeVars, dataVars, refVars, LibusbCancel
  <2>6. CallbackFits'
    BY <1>h, <1>10 DEF CallbackFits, nativeVars, dataVars, refVars, LibusbCancel
  <2>7. Fresh' /\ FieldsApart'
    BY <1>h, <1>10 DEF Fresh, FieldsApart, nativeVars, dataVars, refVars, LibusbCancel, HeldRefs
  <2>8. FieldRefsLive'
    BY <1>h, <1>10
       DEF FieldRefsLive, RefsDropped, AutoFreeing, nativeVars, dataVars, refVars, LibusbCancel,
           Return, HeldRefs, At
  <2>9. DroppedRefsGone'
    BY <1>h, <1>10
       DEF DroppedRefsGone, RefsDropped, AutoFreeing, nativeVars, dataVars, refVars, Ready,
           NoFrame, LibusbCancel, Return, HeldRefs, At
  <2>10. (~RebindInFreeCallback => LiveRefsOwned)'
    BY <1>h, <1>10 DEF LiveRefsOwned, nativeVars, dataVars, refVars, LibusbCancel, HeldRefs
  <2> QED
    BY <1>u, <2>1, <2>2, <2>3, <2>4, <2>5, <2>6, <2>7, <2>8, <2>9, <2>10 DEF IInv, RefFacts
<1>11. ASSUME NEW c \in Callers, NEW t \in Transfers, FreeRefs(c, t) PROVE IInv'
  <2>1. CallsApart' /\ CallFacts'
    BY <1>h, <1>11
       DEF CallsApart, CallFacts, AutoFreeing, nativeVars, dataVars, refVars, FreeRefs, Begin, At
  <2>2. NativeFacts'
    BY <1>h, <1>11 DEF NativeFacts, nativeVars, dataVars, refVars, FreeRefs
  <2>3. InFlightFacts'
    BY <1>h, <1>11 DEF InFlightFacts, Live, AutoFreeing, nativeVars, dataVars, refVars, FreeRefs
  <2>4. PointerNamesLive'
    BY <1>h, <1>11
       DEF PointerNamesLive, Retiring, AutoFreeing, nativeVars, dataVars, refVars, FreeRefs
  <2>5. FrameFacts'
    BY <1>h, <1>11 DEF FrameFacts, Live, nativeVars, dataVars, refVars, FreeRefs
  <2>6. CallbackFits'
    BY <1>h, <1>11 DEF CallbackFits, nativeVars, dataVars, refVars, FreeRefs
  <2>7. Fresh' /\ FieldsApart'
    BY <1>h, <1>11 DEF Fresh, FieldsApart, nativeVars, dataVars, refVars, FreeRefs, HeldRefs
  <2>8. FieldRefsLive'
    BY <1>h, <1>t, <1>11
       DEF FieldRefsLive, RefsDropped, AutoFreeing, FieldsApart, TypeOK, nativeVars, dataVars,
           refVars, FreeRefs, Begin, HeldRefs, At
  <2>9. DroppedRefsGone'
    BY <1>h, <1>11
       DEF DroppedRefsGone, RefsDropped, AutoFreeing, nativeVars, dataVars, refVars, FreeRefs,
           Begin, HeldRefs, At
  <2>10. (~RebindInFreeCallback => LiveRefsOwned)'
    BY <1>h, <1>11 DEF LiveRefsOwned, nativeVars, dataVars, refVars, FreeRefs, HeldRefs
  <2> QED
    BY <1>u, <2>1, <2>2, <2>3, <2>4, <2>5, <2>6, <2>7, <2>8, <2>9, <2>10 DEF IInv, RefFacts
<1>12. ASSUME NEW c \in Callers, NEW t \in Transfers, FreeReset(c, t) PROVE IInv'
  <2>1. CallsApart' /\ CallFacts'
    BY <1>h, <1>t, <1>12
       DEF CallsApart, CallFacts, AutoFreeing, TypeOK, nativeVars, dataVars, refVars, FreeReset,
           Begin, At
  <2>2. NativeFacts'
    BY <1>h, <1>12 DEF NativeFacts, nativeVars, dataVars, refVars, FreeReset
  <2>3. InFlightFacts'
    BY <1>h, <1>12
       DEF CallFacts, InFlightFacts, Live, AutoFreeing, nativeVars, dataVars, refVars, FreeReset,
           Begin, At
  <2>4. PointerNamesLive'
    BY <1>h, <1>12
       DEF PointerNamesLive, Retiring, AutoFreeing, nativeVars, dataVars, refVars, FreeReset
  <2>5. FrameFacts'
    BY <1>h, <1>12
       DEF CallFacts, FrameFacts, Live, AutoFreeing, nativeVars, dataVars, refVars, FreeReset,
           Begin, At
  <2>6. CallbackFits'
    BY <1>h, <1>12 DEF CallbackFits, nativeVars, dataVars, refVars, FreeReset
  <2>7. Fresh' /\ FieldsApart'
    BY <1>h, <1>12 DEF Fresh, FieldsApart, nativeVars, dataVars, refVars, FreeReset, HeldRefs
  <2>8. FieldRefsLive'
    BY <1>h, <1>12
       DEF FieldRefsLive, RefsDropped, AutoFreeing, nativeVars, dataVars, refVars, FreeReset,
           Begin, HeldRefs, At
  <2>9. DroppedRefsGone'
    BY <1>h, <1>12
       DEF DroppedRefsGone, RefsDropped, AutoFreeing, nativeVars, dataVars, refVars, FreeReset,
           Begin, HeldRefs, At
  <2>10. (~RebindInFreeCallback => LiveRefsOwned)'
    BY <1>h, <1>12 DEF LiveRefsOwned, nativeVars, dataVars, refVars, FreeReset, HeldRefs
  <2> QED
    BY <1>u, <2>1, <2>2, <2>3, <2>4, <2>5, <2>6, <2>7, <2>8, <2>9, <2>10 DEF IInv, RefFacts
<1>13. ASSUME NEW c \in Callers, NEW t \in Transfers, FreeData(c, t) PROVE IInv'
  <2>1. CallsApart' /\ CallFacts'
    BY <1>h, <1>t, <1>13
       DEF CallsApart, CallFacts, AutoFreeing, TypeOK, nativeVars, dataVars, refVars, FreeData,
           Begin, At
  <2>2. NativeFacts'
    BY <1>h, <1>13 DEF NativeFacts, nativeVars, dataVars, refVars, FreeData
  <2>3. InFlightFacts'
    BY <1>h, <1>13
       DEF CallFacts, InFlightFacts, Live, AutoFreeing, nativeVars, dataVars, refVars, FreeData,
           Begin, At
  <2>4. PointerNamesLive'
    BY <1>h, <1>13
       DEF CallFacts, PointerNamesLive, Retiring, AutoFreeing, nativeVars, dataVars, refVars,
           FreeData, Begin, At
  <2>5. FrameFacts'
    BY <1>h, <1>13
       DEF CallFacts, FrameFacts, Live, nativeVars, dataVars, refVars, FreeData, Begin, At
  <2>6. CallbackFits'
    BY <1>h, <1>13 DEF CallbackFits, nativeVars, dataVars, refVars, FreeData
  <2>7. Fresh' /\ FieldsApart'
    BY <1>h, <1>13 DEF Fresh, FieldsApart, nativeVars, dataVars, refVars, FreeData, HeldRefs
  <2>8. FieldRefsLive'
    BY <1>h, <1>t, <1>13
       DEF FieldRefsLive, RefsDropped, AutoFreeing, TypeOK, nativeVars, dataVars, refVars,
           FreeData, Begin, HeldRefs, At
  <2>9. DroppedRefsGone'
    BY <1>h, <1>13
       DEF DroppedRefsGone, RefsDropped, AutoFreeing, nativeVars, dataVars, refVars, FreeData,
           Begin, HeldRefs, At
  <2>10. (~RebindInFreeCallback => LiveRefsOwned)'
    BY <1>h, <1>13
       DEF LiveRefsOwned, DroppedRefsGone, RefsDropped, nativeVars, dataVars, refVars, CallPcs,
           FramePcs, FreePcs, FreeData, HeldRefs
  <2> QED
    BY <1>u, <2>1, <2>2, <2>3, <2>4, <2>5, <2>6, <2>7, <2>8, <2>9, <2>10 DEF IInv, RefFacts
<1>14. ASSUME NEW c \in Callers, NEW t \in Transfers, FreeNative(c, t) PROVE IInv'
  <2>1. CallsApart' /\ CallFacts'
    BY <1>h, <1>t, <1>n, <1>14
       DEF CallsApart, CallFacts, AutoFreeing, TypeOK, nativeVars, dataVars, refVars, Ready,
           NoFrame, FreeNative, Return, At
  <2>2. NativeFacts'
    BY <1>h, <1>14 DEF NativeFacts, FreeNative
  <2>3. InFlightFacts'
    BY <1>h, <1>14
       DEF CallFacts, InFlightFacts, Live, AutoFreeing, nativeVars, dataVars, refVars, FreeNative,
           Return, At
  <2>4. PointerNamesLive'
    BY <1>h, <1>14
       DEF CallFacts, PointerNamesLive, Retiring, AutoFreeing, nativeVars, dataVars, refVars,
           FreeNative, Return, At
  <2>5. FrameFacts'
    BY <1>h, <1>14
       DEF CallFacts, FrameFacts, Live, AutoFreeing, nativeVars, dataVars, refVars, FreeNative,
           Return, At
  <2>6. CallbackFits'
    BY <1>h, <1>14 DEF CallbackFits, nativeVars, dataVars, refVars, FreeNative
  <2>7. Fresh' /\ FieldsApart'
    BY <1>h, <1>14 DEF Fresh, FieldsApart, nativeVars, dataVars, refVars, FreeNative, HeldRefs
  <2>8. FieldRefsLive'
    BY <1>h, <1>14
       DEF FieldRefsLive, RefsDropped, AutoFreeing, nativeVars, dataVars, refVars, FreeNative,
           Return, HeldRefs, At
  <2>9. DroppedRefsGone'
    BY <1>h, <1>14
       DEF DroppedRefsGone, RefsDropped, AutoFreeing, nativeVars, dataVars, refVars, Ready,
           NoFrame, FreeNative, Return, HeldRefs, At
  <2>10. (~RebindInFreeCallback => LiveRefsOwned)'
    BY <1>h, <1>14 DEF LiveRefsOwned, nativeVars, dataVars, refVars, FreeNative, HeldRefs
  <2> QED
    BY <1>u, <2>1, <2>2, <2>3, <2>4, <2>5, <2>6, <2>7, <2>8, <2>9, <2>10 DEF IInv, RefFacts
<1>15. ASSUME NEW t \in Transfers, Complete(t) PROVE IInv'
  <2>1. CallsApart' /\ CallFacts'
    BY <1>h, <1>15 DEF CallsApart, CallFacts, AutoFreeing, nativeVars, dataVars, refVars, Complete
  <2>2. NativeFacts'
    BY <1>h, <1>15 DEF NativeFacts, Complete
  <2>3. InFlightFacts'
    BY <1>h, <1>t, <1>15
       DEF InFlightFacts, Live, AutoFreeing, TypeOK, nativeVars, dataVars, refVars, Complete
  <2>4. PointerNamesLive'
    BY <1>h, <1>15 DEF PointerNamesLive, Retiring, nativeVars, dataVars, refVars, Complete
  <2>5. FrameFacts'
    BY <1>h, <1>t, <1>15
       DEF InFlightFacts, FrameFacts, Live, TypeOK, nativeVars, dataVars, refVars, Complete
  <2>6. CallbackFits'
    BY <1>h, <1>15 DEF CallbackFits, nativeVars, dataVars, refVars, Complete
  <2>7. Fresh' /\ FieldsApart'
    BY <1>h, <1>15 DEF Fresh, FieldsApart, nativeVars, dataVars, refVars, Complete, HeldRefs
  <2>8. FieldRefsLive'
    BY <1>h, <1>15
       DEF FieldRefsLive, RefsDropped, nativeVars, dataVars, refVars, Complete, HeldRefs, At
  <2>9. DroppedRefsGone'
    BY <1>h, <1>15
       DEF DroppedRefsGone, RefsDropped, CallFacts, nativeVars, dataVars, refVars, Complete,
           HeldRefs, At
  <2>10. (~RebindInFreeCallback => LiveRefsOwned)'
    BY <1>h, <1>15 DEF LiveRefsOwned, nativeVars, dataVars, refVars, Complete, HeldRefs
  <2> QED
    BY <1>u, <2>1, <2>2, <2>3, <2>4, <2>5, <2>6, <2>7, <2>8, <2>9, <2>10 DEF IInv, RefFacts
<1>16. ASSUME EnterCleanupCallback PROVE IInv'
  <2>1. CallsApart' /\ CallFacts'
    BY <1>h, <1>16
       DEF CallsApart, CallFacts, AutoFreeing, nativeVars, dataVars, refVars, OnlyFrameChanges,
           FrameGoes, FrameSaves, EnterCleanupCallback
  <2>2. NativeFacts'
    BY <1>h, <1>16
       DEF NativeFacts, nativeVars, dataVars, refVars, OnlyFrameChanges, FrameGoes, FrameSaves,
           EnterCleanupCallback
  <2>3. InFlightFacts'
    BY <1>h, <1>16
       DEF InFlightFacts, Live, AutoFreeing, nativeVars, dataVars, refVars, OnlyFrameChanges,
           FrameGoes, FrameSaves, EnterCleanupCallback
  <2>4. PointerNamesLive'
    BY <1>h, <1>16
       DEF PointerNamesLive, Retiring, nativeVars, dataVars, refVars, OnlyFrameChanges, FrameGoes,
           FrameSaves, EnterCleanupCallback
  <2>5. FrameFacts'
    BY <1>h, <1>16
       DEF FrameFacts, nativeVars, dataVars, refVars, OnlyFrameChanges, FrameGoes, FrameSaves,
           AfterJava, EnterCleanupCallback
  <2>6. CallbackFits'
    BY <1>h, <1>16
       DEF CallbackFits, nativeVars, dataVars, refVars, OnlyFrameChanges, FrameGoes, FrameSaves,
           EnterCleanupCallback
  <2>7. Fresh' /\ FieldsApart'
    BY <1>h, <1>16
       DEF Fresh, FieldsApart, nativeVars, dataVars, refVars, OnlyFrameChanges, FrameGoes,
           FrameSaves, EnterCleanupCallback, HeldRefs
  <2>8. FieldRefsLive'
    BY <1>h, <1>16
       DEF FieldRefsLive, RefsDropped, nativeVars, dataVars, refVars, OnlyFrameChanges, FrameGoes,
           FrameSaves, EnterCleanupCallback, HeldRefs, At
  <2>9. DroppedRefsGone'
    BY <1>h, <1>16
       DEF DroppedRefsGone, RefsDropped, AutoFreeing, nativeVars, dataVars, refVars,
           OnlyFrameChanges, FrameGoes, FrameSaves, AfterJava, EnterCleanupCallback, HeldRefs, At
  <2>10. (~RebindInFreeCallback => LiveRefsOwned)'
    BY <1>h, <1>16
       DEF LiveRefsOwned, nativeVars, dataVars, refVars, OnlyFrameChanges, FrameGoes, FrameSaves,
           EnterCleanupCallback, HeldRefs
  <2> QED
    BY <1>u, <2>1, <2>2, <2>3, <2>4, <2>5, <2>6, <2>7, <2>8, <2>9, <2>10 DEF IInv, RefFacts
<1>17. ASSUME EnterTransferCallback PROVE IInv'
  <2>1. CallsApart' /\ CallFacts'
    BY <1>h, <1>17
       DEF CallsApart, CallFacts, AutoFreeing, nativeVars, dataVars, refVars, OnlyFrameChanges,
           FrameGoes, FrameSaves, EnterTransferCallback
  <2>2. NativeFacts'
    BY <1>h, <1>17
       DEF NativeFacts, nativeVars, dataVars, refVars, OnlyFrameChanges, FrameGoes, FrameSaves,
           EnterTransferCallback
  <2>3. InFlightFacts'
    BY <1>h, <1>17
       DEF InFlightFacts, Live, AutoFreeing, nativeVars, dataVars, refVars, OnlyFrameChanges,
           FrameGoes, FrameSaves, EnterTransferCallback
  <2>4. PointerNamesLive'
    BY <1>h, <1>17
       DEF PointerNamesLive, Retiring, nativeVars, dataVars, refVars, OnlyFrameChanges, FrameGoes,
           FrameSaves, EnterTransferCallback
  <2>5. FrameFacts'
    BY <1>h, <1>17
       DEF FrameFacts, nativeVars, dataVars, refVars, OnlyFrameChanges, FrameGoes, FrameSaves,
           EnterTransferCallback
  <2>6. CallbackFits'
    BY <1>h, <1>17
       DEF CallbackFits, nativeVars, dataVars, refVars, OnlyFrameChanges, FrameGoes, FrameSaves,
           EnterTransferCallback
  <2>7. Fresh' /\ FieldsApart'
    BY <1>h, <1>17
       DEF Fresh, FieldsApart, nativeVars, dataVars, refVars, OnlyFrameChanges, FrameGoes,
           FrameSaves, EnterTransferCallback, HeldRefs
  <2>8. FieldRefsLive'
    BY <1>h, <1>17
       DEF FieldRefsLive, RefsDropped, nativeVars, dataVars, refVars, OnlyFrameChanges, FrameGoes,
           FrameSaves, EnterTransferCallback, HeldRefs, At
  <2>9. DroppedRefsGone'
    BY <1>h, <1>17
       DEF DroppedRefsGone, RefsDropped, AutoFreeing, nativeVars, dataVars, refVars,
           OnlyFrameChanges, FrameGoes, FrameSaves, EnterTransferCallback, HeldRefs, At
  <2>10. (~RebindInFreeCallback => LiveRefsOwned)'
    BY <1>h, <1>17
       DEF LiveRefsOwned, nativeVars, dataVars, refVars, OnlyFrameChanges, FrameGoes, FrameSaves,
           EnterTransferCallback, HeldRefs
  <2> QED
    BY <1>u, <2>1, <2>2, <2>3, <2>4, <2>5, <2>6, <2>7, <2>8, <2>9, <2>10 DEF IInv, RefFacts
<1>18. ASSUME JavaReturn PROVE IInv'
  <2>1. CallsApart' /\ CallFacts'
    BY <1>h, <1>18
       DEF CallsApart, CallFacts, FrameFacts, AutoFreeing, nativeVars, dataVars, refVars,
           OnlyFrameChanges, FrameGoes, FrameSaves, AfterJava, JavaReturn
  <2>2. NativeFacts'
    BY <1>h, <1>18
       DEF NativeFacts, nativeVars, dataVars, refVars, OnlyFrameChanges, FrameGoes, FrameSaves,
           JavaReturn
  <2>3. InFlightFacts'
    BY <1>h, <1>18
       DEF InFlightFacts, FrameFacts, Live, AutoFreeing, nativeVars, dataVars, refVars,
           OnlyFrameChanges, FrameGoes, FrameSaves, AfterJava, JavaReturn
  <2>4. PointerNamesLive'
    BY <1>h, <1>18
       DEF PointerNamesLive, Retiring, nativeVars, dataVars, refVars, OnlyFrameChanges, FrameGoes,
           FrameSaves, JavaReturn
  <2>5. FrameFacts'
    BY <1>h, <1>18
       DEF FrameFacts, nativeVars, dataVars, refVars, OnlyFrameChanges, FrameGoes, FrameSaves,
           AfterJava, JavaReturn
  <2>6. CallbackFits'
    BY <1>h, <1>18
       DEF CallbackFits, nativeVars, dataVars, refVars, OnlyFrameChanges, FrameGoes, FrameSaves,
           JavaReturn
  <2>7. Fresh' /\ FieldsApart'
    BY <1>h, <1>18
       DEF Fresh, FieldsApart, nativeVars, dataVars, refVars, OnlyFrameChanges, FrameGoes,
           FrameSaves, JavaReturn, HeldRefs
  <2>8. FieldRefsLive'
    BY <1>h, <1>18
       DEF FieldRefsLive, RefsDropped, nativeVars, dataVars, refVars, OnlyFrameChanges, FrameGoes,
           FrameSaves, JavaReturn, HeldRefs, At
  <2>9. DroppedRefsGone'
    BY <1>h, <1>18
       DEF DroppedRefsGone, RefsDropped, AutoFreeing, nativeVars, dataVars, refVars,
           OnlyFrameChanges, FrameGoes, FrameSaves, AfterJava, JavaReturn, HeldRefs, At
  <2>10. (~RebindInFreeCallback => LiveRefsOwned)'
    BY <1>h, <1>18
       DEF LiveRefsOwned, nativeVars, dataVars, refVars, OnlyFrameChanges, FrameGoes, FrameSaves,
           JavaReturn, HeldRefs
  <2> QED
    BY <1>u, <2>1, <2>2, <2>3, <2>4, <2>5, <2>6, <2>7, <2>8, <2>9, <2>10 DEF IInv, RefFacts
<1>19. ASSUME CallbackCleanup PROVE IInv'
  <2>1. CallsApart' /\ CallFacts'
    BY <1>h, <1>19
       DEF CallsApart, CallFacts, AutoFreeing, nativeVars, dataVars, refVars, OnlyFrameChanges,
           FrameGoes, FrameSaves, CallbackCleanup
  <2>2. NativeFacts'
    BY <1>h, <1>19 DEF NativeFacts, nativeVars, dataVars, refVars, CallbackCleanup
  <2>3. InFlightFacts'
    BY <1>h, <1>19
       DEF InFlightFacts, Live, AutoFreeing, nativeVars, dataVars, refVars, OnlyFrameChanges,
           FrameGoes, FrameSaves, CallbackCleanup
  <2>4. PointerNamesLive'
    BY <1>h, <1>19 DEF PointerNamesLive, Retiring, nativeVars, dataVars, refVars, CallbackCleanup
  <2>5. FrameFacts'
    BY <1>h, <1>19
       DEF FrameFacts, nativeVars, dataVars, refVars, OnlyFrameChanges, FrameGoes, FrameSaves,
           CallbackCleanup
  <2>6. CallbackFits'
    BY <1>h, <1>19 DEF CallbackFits, nativeVars, dataVars, refVars, CallbackCleanup
  <2>7. Fresh' /\ FieldsApart'
    BY <1>h, <1>19 DEF Fresh, FieldsApart, nativeVars, dataVars, refVars, CallbackCleanup, HeldRefs
  <2>8. FieldRefsLive'
    BY <1>h, <1>f, <1>19
       DEF FieldRefsLive, RefsDropped, AutoFreeing, FieldsApart, FrameFacts, nativeVars, dataVars,
           refVars, OnlyFrameChanges, FrameGoes, FrameSaves, Ready, NoFrame, CallbackCleanup,
           HeldRefs, At
  <2>9. DroppedRefsGone'
    <3> DEFINE t == frame.t
    <3>1. AutoFreeing(t) /\ \A u \in Transfers : AutoFreeing(u)' = AutoFreeing(u)
      BY <1>h, <1>19
         DEF FrameFacts, AutoFreeing, OnlyFrameChanges, FrameGoes, FrameSaves, CallbackCleanup
    <3>2. \A u \in Transfers : u # t => RefsDropped(u)' = RefsDropped(u)
      BY <1>19
         DEF RefsDropped, AutoFreeing, OnlyFrameChanges, FrameGoes, FrameSaves, CallbackCleanup,
             At
    <3>3. \A u \in Transfers : HeldRefs(u)' = HeldRefs(u)
      BY <1>19 DEF nativeVars, dataVars, refVars, CallbackCleanup, HeldRefs
    <3>4. ~RebindInFreeCallback => liveRefs' = liveRefs \ HeldRefs(t)
      <4>1. frame.jTransfer = transferObject[t] \/ RebindInFreeCallback
        BY <1>h, <1>19 DEF FrameFacts, CallbackCleanup
      <4>2. transferObject[t] \in liveRefs
        <5>1. userData[t] = "live" /\ transferObject[t] # NULL
          BY <1>h, <1>f, <1>19
             DEF FrameFacts, NativeFacts, CallbackFits, Ready, NoFrame, CallbackCleanup
        <5>2. ~RefsDropped(t)
          BY <3>1, <1>h, <1>t, <1>19
             DEF RefsDropped, CallFacts, TypeOK, Ready, NoFrame, CallbackCleanup, At
        <5> QED
          BY <5>1, <5>2, <1>h, <1>f, <1>19
             DEF FieldRefsLive, Ready, NoFrame, CallbackCleanup, HeldRefs
      <4> QED
        BY <4>1, <4>2, <1>19 DEF CallbackCleanup
    <3>5. \A r \in liveRefs' : r \in liveRefs
      BY <1>19 DEF CallbackCleanup
    <3> QED
      BY <3>1, <3>2, <3>3, <3>4, <3>5, <1>h, <1>19 DEF DroppedRefsGone, CallbackCleanup
  <2>10. (~RebindInFreeCallback => LiveRefsOwned)'
    BY <1>h, <1>19 DEF LiveRefsOwned, nativeVars, dataVars, refVars, CallbackCleanup, HeldRefs
  <2> QED
    BY <1>u, <2>1, <2>2, <2>3, <2>4, <2>5, <2>6, <2>7, <2>8, <2>9, <2>10 DEF IInv, RefFacts
<1>20. ASSUME CallbackReset PROVE IInv'
  <2>1. CallsApart' /\ CallFacts'
    BY <1>h, <1>t, <1>20
       DEF CallsApart, CallFacts, FrameFacts, AutoFreeing, TypeOK, nativeVars, dataVars, refVars,
           OnlyFrameChanges, FrameGoes, FrameSaves, CallbackReset
  <2>2. NativeFacts'
    BY <1>h, <1>t, <1>20 DEF NativeFacts, TypeOK, nativeVars, dataVars, refVars, CallbackReset
  <2>3. InFlightFacts'
    BY <1>h, <1>t, <1>20
       DEF InFlightFacts, Live, AutoFreeing, TypeOK, nativeVars, dataVars, refVars,
           OnlyFrameChanges, FrameGoes, FrameSaves, CallbackReset
  <2>4. PointerNamesLive'
    BY <1>h, <1>t, <1>20
       DEF PointerNamesLive, Retiring, TypeOK, nativeVars, dataVars, refVars, CallbackReset
  <2>5. FrameFacts'
    BY <1>h, <1>20
       DEF FrameFacts, nativeVars, dataVars, refVars, OnlyFrameChanges, FrameGoes, FrameSaves,
           CallbackReset
  <2>6. CallbackFits'
    BY <1>h, <1>20 DEF CallbackFits, nativeVars, dataVars, refVars, CallbackReset
  <2>7. Fresh' /\ FieldsApart'
    BY <1>h, <1>20 DEF Fresh, FieldsApart, nativeVars, dataVars, refVars, CallbackReset, HeldRefs
  <2>8. FieldRefsLive'
    BY <1>h, <1>20
       DEF FieldRefsLive, RefsDropped, AutoFreeing, nativeVars, dataVars, refVars,
           OnlyFrameChanges, FrameGoes, FrameSaves, CallbackReset, HeldRefs, At
  <2>9. DroppedRefsGone'
    BY <1>h, <1>20
       DEF DroppedRefsGone, RefsDropped, AutoFreeing, nativeVars, dataVars, refVars,
           OnlyFrameChanges, FrameGoes, FrameSaves, CallbackReset, HeldRefs, At
  <2>10. (~RebindInFreeCallback => LiveRefsOwned)'
    BY <1>h, <1>20 DEF LiveRefsOwned, nativeVars, dataVars, refVars, CallbackReset, HeldRefs
  <2> QED
    BY <1>u, <2>1, <2>2, <2>3, <2>4, <2>5, <2>6, <2>7, <2>8, <2>9, <2>10 DEF IInv, RefFacts
<1>21. ASSUME CallbackFreeData PROVE IInv'
  <2>1. CallsApart' /\ CallFacts'
    BY <1>h, <1>21
       DEF CallsApart, CallFacts, FrameFacts, AutoFreeing, nativeVars, dataVars, refVars,
           OnlyFrameChanges, FrameGoes, FrameSaves, CallbackFreeData
  <2>2. NativeFacts'
    BY <1>h, <1>21 DEF NativeFacts, nativeVars, dataVars, refVars, CallbackFreeData
  <2>3. InFlightFacts'
    BY <1>h, <1>21
       DEF InFlightFacts, Live, AutoFreeing, nativeVars, dataVars, refVars, OnlyFrameChanges,
           FrameGoes, FrameSaves, CallbackFreeData
  <2>4. PointerNamesLive'
    BY <1>h, <1>21
       DEF PointerNamesLive, FrameFacts, Retiring, AutoFreeing, nativeVars, dataVars, refVars,
           OnlyFrameChanges, FrameGoes, FrameSaves, CallbackFreeData
  <2>5. FrameFacts'
    BY <1>h, <1>u, <1>21
       DEF FrameFacts, TypeOK, nativeVars, dataVars, refVars, OnlyFrameChanges, FrameGoes,
           FrameSaves, CallbackFreeData
  <2>6. CallbackFits'
    BY <1>h, <1>21 DEF CallbackFits, nativeVars, dataVars, refVars, CallbackFreeData
  <2>7. Fresh' /\ FieldsApart'
    BY <1>h, <1>21 DEF Fresh, FieldsApart, nativeVars, dataVars, refVars, CallbackFreeData, HeldRefs
  <2>8. FieldRefsLive'
    BY <1>h, <1>t, <1>21
       DEF FieldRefsLive, RefsDropped, AutoFreeing, TypeOK, nativeVars, dataVars, refVars,
           CallbackFreeData, HeldRefs, At
  <2>9. DroppedRefsGone'
    BY <1>h, <1>21
       DEF DroppedRefsGone, RefsDropped, AutoFreeing, nativeVars, dataVars, refVars,
           OnlyFrameChanges, FrameGoes, FrameSaves, CallbackFreeData, HeldRefs, At
  <2>10. (~RebindInFreeCallback => LiveRefsOwned)'
    BY <1>h, <1>21
       DEF LiveRefsOwned, DroppedRefsGone, RefsDropped, AutoFreeing, FrameFacts, nativeVars,
           dataVars, refVars, CallbackFreeData, HeldRefs
  <2> QED
    BY <1>u, <2>1, <2>2, <2>3, <2>4, <2>5, <2>6, <2>7, <2>8, <2>9, <2>10 DEF IInv, RefFacts
<1>22. ASSUME CallbackLeave PROVE IInv'
  <2>1. CallsApart' /\ CallFacts'
    BY <1>h, <1>t, <1>n, <1>22
       DEF CallsApart, CallFacts, AutoFreeing, TypeOK, nativeVars, dataVars, refVars, Ready,
           NoFrame, CallbackLeave
  <2>2. NativeFacts'
    BY <1>h, <1>t, <1>22 DEF NativeFacts, TypeOK, CallbackLeave
  <2>3. InFlightFacts'
    BY <1>h, <1>t, <1>n, <1>22
       DEF InFlightFacts, Live, AutoFreeing, TypeOK, nativeVars, dataVars, refVars, Ready,
           NoFrame, CallbackLeave
  <2>4. PointerNamesLive'
    BY <1>h, <1>t, <1>22
       DEF PointerNamesLive, Retiring, AutoFreeing, TypeOK, nativeVars, dataVars, refVars,
           CallbackLeave
  <2>5. FrameFacts'
    BY <1>22 DEF FrameFacts, Ready, NoFrame, CallbackLeave
  <2>6. CallbackFits'
    BY <1>h, <1>22 DEF CallbackFits, nativeVars, dataVars, refVars, CallbackLeave
  <2>7. Fresh' /\ FieldsApart'
    BY <1>h, <1>22 DEF Fresh, FieldsApart, nativeVars, dataVars, refVars, CallbackLeave, HeldRefs
  <2>8. FieldRefsLive'
    BY <1>h, <1>22
       DEF FieldRefsLive, RefsDropped, nativeVars, dataVars, refVars, CallbackLeave, HeldRefs, At
  <2>9. DroppedRefsGone'
    BY <1>h, <1>22
       DEF DroppedRefsGone, RefsDropped, CallFacts, nativeVars, dataVars, refVars, Ready, NoFrame,
           CallbackLeave, HeldRefs, At
  <2>10. (~RebindInFreeCallback => LiveRefsOwned)'
    BY <1>h, <1>22 DEF LiveRefsOwned, nativeVars, dataVars, refVars, CallbackLeave, HeldRefs
  <2> QED
    BY <1>u, <2>1, <2>2, <2>3, <2>4, <2>5, <2>6, <2>7, <2>8, <2>9, <2>10 DEF IInv, RefFacts
  
<1>23. CASE UNCHANGED vars
  <2>1. CallsApart' /\ CallFacts' /\ NativeFacts' /\ InFlightFacts' /\ PointerNamesLive'
    BY <1>h, <1>23
       DEF CallsApart, CallFacts, NativeFacts, InFlightFacts, PointerNamesLive, Live, Retiring,
           AutoFreeing, nativeVars, dataVars, refVars, vars
  <2>2. FrameFacts' /\ CallbackFits' /\ Fresh' /\ FieldsApart'
    BY <1>h, <1>23
       DEF FrameFacts, CallbackFits, Fresh, FieldsApart, Live, nativeVars, dataVars, refVars,
           vars, HeldRefs
  <2>3. FieldRefsLive' /\ DroppedRefsGone' /\ (~RebindInFreeCallback => LiveRefsOwned)'
    BY <1>h, <1>23
       DEF FieldRefsLive, DroppedRefsGone, LiveRefsOwned, RefsDropped, AutoFreeing, nativeVars,
           dataVars, refVars, vars, HeldRefs, At
  <2> QED
    BY <1>u, <2>1, <2>2, <2>3 DEF IInv, RefFacts
<1> QED
  BY <1>1, <1>2, <1>3, <1>4, <1>5, <1>6, <1>7, <1>8, <1>9, <1>10, <1>11, <1>12, <1>13, <1>14,
     <1>15, <1>16, <1>17, <1>18, <1>19, <1>20, <1>21, <1>22, <1>23
  DEF Next, ClientCalls, CallSteps, CallbackSteps

\* The inductive invariant holds of every behaviour.
THEOREM Invariance == Spec => []IInv
<1>1. IInv /\ [Next]_vars => IInv'
  BY IInvStep
<1> QED
  BY InitIInv, <1>1, PTL DEF Spec

\* Every variable keeps its type, for any number of transfers, threads and listeners.
THEOREM TypeCorrectness == Spec => []TypeOK
BY Invariance, PTL DEF IInv

\* A set transferPointer leads to allocated memory at every step of every call:
\* freeTransfer and the callbacks reset the Java object before they free.
THEOREM PointersLead == Spec => []PointerNamesLive
BY Invariance, PTL DEF IInv

\* No field of a transfer_data dangles outside the window between
\* cleanupGlobalReferences and free.
THEOREM FieldsHoldLiveRefs == Spec => []FieldRefsLive
BY Invariance, PTL DEF IInv, RefFacts

\* What is in flight can be delivered to its own listener and Java object.
THEOREM InFlightDeliverable == Spec => []Deliverable
<1>1. IInv => Deliverable
  <2> SUFFICES ASSUME IInv, NEW t \in Transfers, inFlight[t]
               PROVE  /\ Live(t)
                      /\ transferObject[t] \in liveRefs /\ transferObject[t].obj = t
                      /\ \/ callback[t] = "cleanupCallback" /\ callbackObject[t] = NULL
                         \/ /\ callback[t] = "transferCallback"
                            /\ callbackObject[t] \in liveRefs
                            /\ callbackObject[t].obj \in Listeners
    BY DEF Deliverable, Live
  <2>1. Live(t) /\ ~AutoFreeing(t) /\ callback[t] # NULL
    BY DEF IInv, InFlightFacts, NativeFacts
  <2>2. ~RefsDropped(t)
    BY <2>1 DEF IInv, CallFacts, RefsDropped, At
  <2>3. HeldRefs(t) \subseteq liveRefs \cup {NULL}
    BY <2>1, <2>2 DEF IInv, RefFacts, FieldRefsLive, Live
  <2>4. callback[t] \in {"cleanupCallback", "transferCallback"}
    BY <2>1 DEF IInv, TypeOK
  <2> QED
    BY <2>1, <2>3, <2>4 DEF IInv, RefFacts, CallbackFits, HeldRefs
<1> QED
  BY Invariance, <1>1, PTL

\* No step of a native method or of a callback touches freed memory or frees twice.
THEOREM MemorySafety == Spec => []NoUseAfterFree
<1>1. IInv => NoUseAfterFree
  <2> SUFFICES ASSUME IInv PROVE NoUseAfterFree
    OBVIOUS
  <2>1. \A c \in Callers : call[c].pc # "ready" => call[c].t \in Transfers
    BY DEF IInv, TypeOK, Ready
  <2>2. frame.pc # "idle" => frame.t \in Transfers
    BY DEF IInv, TypeOK, Frames, NoFrame
  <2>3. \A c \in Callers :
          call[c].pc # "ready" =>
            /\ native[call[c].t] = "live"
            /\ call[c].pc # "freeNative" => userData[call[c].t] = "live"
    BY <2>1 DEF IInv, CallFacts
  <2> QED
    BY <2>2, <2>3 DEF IInv, FrameFacts, Live, NoUseAfterFree
<1> QED
  BY Invariance, <1>1, PTL

\* If no callback rebinds an auto-freed transfer, no global reference outlives
\* the transfer_data it was created for.
THEOREM NoReferenceLeaks ==
  ASSUME ~RebindInFreeCallback
  PROVE  Spec => []LiveRefsOwned
<1>1. IInv => LiveRefsOwned
  BY DEF IInv, RefFacts
<1> QED
  BY Invariance, <1>1, PTL

\* ... and the reference a callback saved before running Java code is still one.
THEOREM SavedReferenceLives ==
  ASSUME ~RebindInFreeCallback
  PROVE  Spec => []SavedRefStillLive
<1>1. IInv => SavedRefStillLive
  <2> SUFFICES ASSUME IInv, frame.pc = "cleanup" PROVE frame.jTransfer \in liveRefs
    BY DEF SavedRefStillLive
  <2> DEFINE t == frame.t
  <2>1. t \in Transfers
    BY DEF IInv, TypeOK, Frames, NoFrame
  <2>2. /\ AutoFreeing(t) /\ userData[t] = "live" /\ transferPointer[t]
        /\ frame.jTransfer = transferObject[t]
    BY DEF IInv, FrameFacts, AutoFreeing
  <2>3. transferObject[t] # NULL
    BY <2>1, <2>2 DEF IInv, NativeFacts, RefFacts, CallbackFits
  <2>4. ~RefsDropped(t)
    BY <2>1, <2>2 DEF IInv, CallFacts, RefsDropped, At
  <2> QED
    BY <2>1, <2>2, <2>3, <2>4 DEF IInv, RefFacts, FieldRefsLive, HeldRefs
<1> QED
  BY Invariance, <1>1, PTL

\* Between unwrapping the pointer and the call into libusb a transfer does not change
\* sides: libusb is never asked to submit a transfer it has, one whose completion is yet
\* to be told or that is freed with it, nor to cancel one that it frees itself.
THEOREM SubmittedOnce ==
  Spec => [](\A c \in Callers, t \in Transfers :
                /\ At(c, "submit", t) => ~inFlight[t] /\ ~AutoFreeing(t)
                                         /\ ~(frame.t = t /\ frame.pc = "enter")
                /\ At(c, "cancel", t) => ~flags[t] /\ ~AutoFreeing(t))
<1>1. IInv => \A c \in Callers, t \in Transfers :
                 /\ At(c, "submit", t) => ~inFlight[t] /\ ~AutoFreeing(t)
                                          /\ ~(frame.t = t /\ frame.pc = "enter")
                 /\ At(c, "cancel", t) => ~flags[t] /\ ~AutoFreeing(t)
  BY DEF IInv, CallFacts, At
<1> QED
  BY <1>1, Invariance, PTL

-----------------------------------------------------------------------------
(***************************************************************************)
(* References are deleted once.                                            *)
(***************************************************************************)

\* About to delete what the fields of t hold: cleanupGlobalReferences of freeTransfer or
\* of a callback, or a client free to call setCallback and setUserData.
DeletesNext(t) ==
    \/ \E c \in Callers : At(c, "freeRefs", t) \/ MayUse(c, t)
    \/ frame.pc = "cleanup" /\ frame.t = t

DeletedOnce ==
    \A t \in Transfers : DeletesNext(t) => HeldRefs(t) \subseteq liveRefs \cup {NULL}

\* Wherever the code deletes global references they are references not deleted before,
\* whichever calls and completions came between: with FieldRefsLive, a window in which
\* the fields dangle is left only by freeing them.
THEOREM ReferencesDeletedOnce == Spec => []DeletedOnce
<1>1. IInv => DeletedOnce
  <2> SUFFICES ASSUME IInv, NEW t \in Transfers, DeletesNext(t)
               PROVE  HeldRefs(t) \subseteq liveRefs \cup {NULL}
    BY DEF DeletedOnce
  <2> USE NullFacts DEF IInv
  <2>1. ASSUME NEW c \in Callers, At(c, "freeRefs", t)
        PROVE  userData[t] = "live" /\ ~RefsDropped(t)
    <3>1. userData[t] = "live" /\ ~AutoFreeing(t)
      BY <2>1 DEF CallFacts, At
    <3>2. \A d \in Callers : call[d].t = t => d = c
      BY <2>1 DEF CallsApart, At
    <3> QED
      BY <2>1, <3>1, <3>2 DEF RefsDropped, At
  <2>2. ASSUME NEW c \in Callers, MayUse(c, t)
        PROVE  userData[t] = "live" /\ ~RefsDropped(t)
    <3>1. /\ NoCallOn(t) /\ transferPointer[t] /\ native[t] # "autoFreed"
          /\ AutoFreeing(t) => frame.pc = "java"
      BY <2>2 DEF MayUse, AutoFreeing
    <3> QED
      BY <3>1 DEF PointerNamesLive, Retiring, RefsDropped, NoCallOn, At
  <2>3. ASSUME frame.pc = "cleanup", frame.t = t
        PROVE  userData[t] = "live" /\ ~RefsDropped(t)
    <3>1. AutoFreeing(t) /\ userData[t] = "live"
      BY <2>3 DEF FrameFacts, AutoFreeing
    <3> QED
      BY <2>3, <3>1 DEF CallFacts, RefsDropped, At
  <2> QED
    BY <2>1, <2>2, <2>3 DEF DeletesNext, RefFacts, FieldRefsLive
<1> QED
  BY Invariance, <1>1, PTL

-----------------------------------------------------------------------------
(***************************************************************************)
(* The reset of an automatic free.                                         *)
(***************************************************************************)

\* Until its cleanup is done, a callback that frees has saved the reference the
\* transfer_data names, or one deleted since; afterwards, only a deleted one.
SavedFacts ==
    frame.libFree =>
        /\ frame.pc \in {"java", "cleanup", "reset"} =>
              frame.jTransfer \in RefSet /\ frame.jTransfer.id < nextRef
        /\ frame.pc \in {"java", "cleanup"} =>
              frame.jTransfer = transferObject[frame.t] \/ frame.jTransfer \notin liveRefs
        /\ frame.pc = "reset" => frame.jTransfer \notin liveRefs

\* References are only ever added under new names.
LEMMA NewRefsAreNew ==
  ASSUME IInv, [Next]_vars
  PROVE  /\ nextRef \in Nat /\ nextRef' \in Nat /\ nextRef <= nextRef'
         /\ \A r \in liveRefs' : r \in liveRefs \/ nextRef <= r.id
<1> USE DEF nativeVars, dataVars, refVars
<1>t. TypeOK
  BY DEF IInv
<1>u. TypeOK'
  BY <1>t, TypeOKStep
<1>0. nextRef \in Nat /\ nextRef' \in Nat
  BY <1>t, <1>u DEF TypeOK
<1>r. \A x : Ref(nextRef, x).id = nextRef /\ Ref(nextRef + 1, x).id = nextRef + 1
  BY DEF Ref
<1>1. CASE liveRefs' \subseteq liveRefs /\ nextRef' = nextRef
  BY <1>0, <1>1
<1>2. ASSUME NEW c \in Callers, NEW t \in Transfers, ClientCalls(c, t)
      PROVE  /\ nextRef <= nextRef'
             /\ \A r \in liveRefs' : r \in liveRefs \/ nextRef <= r.id
  <2>1. CASE AllocTransfer(c, t)
    BY <2>1, <1>0, <1>r DEF AllocTransfer, CleanupCallbackEnable
  <2>2. ASSUME NEW l \in Listeners \cup {NULL}, SetCallback(c, t, l)
        PROVE  /\ nextRef <= nextRef'
               /\ \A r \in liveRefs' : r \in liveRefs \/ nextRef <= r.id
    BY <2>2, <1>0, <1>r DEF SetCallback, CleanupCallbackEnable
  <2>3. ASSUME NEW l \in Listeners \cup {NULL}, SetUserData(c, t, l)
        PROVE  /\ nextRef <= nextRef'
               /\ \A r \in liveRefs' : r \in liveRefs \/ nextRef <= r.id
    BY <2>3, <1>0, <1>r DEF SetUserData
  <2> QED
    BY <1>2, <1>1, <2>1, <2>2, <2>3
       DEF ClientCalls, AllocTransferUnwrapped, SetFlags, SubmitTransfer, CancelTransfer,
           FreeTransfer
<1>3. ASSUME NEW c \in Callers, NEW t \in Transfers, CallSteps(c, t)
      PROVE  liveRefs' \subseteq liveRefs /\ nextRef' = nextRef
  BY <1>3 DEF CallSteps, LibusbSubmit, LibusbCancel, FreeRefs, FreeReset, FreeData, FreeNative
<1>4. ASSUME \/ CallbackSteps \/ JavaReturn \/ UNCHANGED vars
             \/ \E t \in Transfers : Complete(t)
      PROVE  liveRefs' \subseteq liveRefs /\ nextRef' = nextRef
  BY <1>4 DEF CallbackSteps, EnterCleanupCallback, EnterTransferCallback, CallbackCleanup,
              CallbackReset, CallbackFreeData, CallbackLeave, JavaReturn, OnlyFrameChanges,
              Complete, vars
<1> QED
  BY <1>0, <1>1, <1>2, <1>3, <1>4 DEF Next

LEMMA SavedFactsStep == IInv /\ SavedFacts /\ [Next]_vars => SavedFacts'
<1> SUFFICES ASSUME IInv, SavedFacts, [Next]_vars, frame'.libFree
             PROVE  SavedFacts'
  BY DEF SavedFacts
<1> USE DEF nativeVars, dataVars, refVars
<1>n. /\ nextRef \in Nat /\ nextRef' \in Nat /\ nextRef <= nextRef'
      /\ \A r \in liveRefs' : r \in liveRefs \/ nextRef <= r.id
  BY NewRefsAreNew
<1>i. \A r \in RefSet : r.id \in Nat
  BY DEF RefSet
<1>f. \/ frame = NoFrame
      \/ frame.t \in Transfers /\ frame.pc \in FramePcs
  BY DEF IInv, TypeOK, Frames
<1>o. /\ transferObject \in [Transfers -> RefSet \cup {NULL}]
      /\ NoFrame.libFree = FALSE
  BY DEF IInv, TypeOK, NoFrame
\* A reference deleted stays deleted.
<1>g. ASSUME frame.jTransfer \in RefSet, frame.jTransfer.id < nextRef,
             frame.jTransfer \notin liveRefs
      PROVE  frame.jTransfer \notin liveRefs'
  BY <1>g, <1>n, <1>i
<1>1. CASE frame' = frame /\ transferObject' = transferObject
  BY <1>1, <1>n, <1>i, <1>g DEF SavedFacts
<1>2. ASSUME NEW c \in Callers, NEW t \in Transfers, ClientCalls(c, t)
      PROVE  SavedFacts'
  <2>1. CASE AllocTransfer(c, t)
    <3>1. frame' = frame /\ native[t] = "none"
      BY <2>1 DEF AllocTransfer
    <3>2. frame.pc # "idle" => t # frame.t
      BY <3>1 DEF IInv, FrameFacts
    <3>3. frame.pc # "idle" => transferObject'[frame.t] = transferObject[frame.t]
      BY <2>1, <3>2, <1>f, <1>o DEF AllocTransfer, CleanupCallbackEnable, NoFrame
    <3> QED
      BY <3>1, <3>3, <1>n, <1>i, <1>g DEF SavedFacts
  <2>2. ASSUME NEW l \in Listeners \cup {NULL}, SetCallback(c, t, l)
        PROVE  SavedFacts'
    <3>1. /\ frame' = frame
          /\ \A u \in Transfers : u # t => transferObject'[u] = transferObject[u]
      BY <2>2, <1>o DEF SetCallback, CleanupCallbackEnable
    <3>2. \A r \in liveRefs' : r # transferObject[t] \/ nextRef <= r.id
      <4>1. \A x : Ref(nextRef, x).id = nextRef /\ Ref(nextRef + 1, x).id = nextRef + 1
        BY DEF Ref
      <4>2. CASE l = NULL
        BY <2>2, <4>1, <4>2, <1>n DEF SetCallback, CleanupCallbackEnable
      <4>3. CASE l # NULL
        BY <2>2, <4>1, <4>3, <1>n DEF SetCallback
      <4> QED
        BY <4>2, <4>3
    <3>3. frame.t = t => frame.pc \in {"java", "leave"}
      BY <2>2 DEF SetCallback, MayUse
    <3>4. CASE frame.t = t
      <4>1. frame.libFree /\ frame.pc = "java" =>
              /\ frame.jTransfer \in RefSet /\ frame.jTransfer.id < nextRef
              /\ frame.jTransfer \notin liveRefs'
        BY <3>2, <3>4, <1>n, <1>i, <1>g DEF SavedFacts
      <4> QED
        BY <3>1, <3>3, <3>4, <4>1, <1>n, <1>i DEF SavedFacts
    <3>5. CASE frame.t # t
      BY <3>1, <3>5, <1>f, <1>n, <1>i, <1>g DEF SavedFacts, NoFrame
    <3> QED
      BY <3>4, <3>5
  <2> QED
    BY <1>2, <1>1, <2>1, <2>2
       DEF ClientCalls, AllocTransferUnwrapped, SetFlags, SetUserData, SubmitTransfer,
           CancelTransfer, FreeTransfer
<1>3. ASSUME NEW c \in Callers, NEW t \in Transfers, CallSteps(c, t)
      PROVE  frame' = frame /\ transferObject' = transferObject
  BY <1>3 DEF CallSteps, LibusbSubmit, LibusbCancel, FreeRefs, FreeReset, FreeData, FreeNative
<1>4. ASSUME NEW t \in Transfers, Complete(t) PROVE SavedFacts'
  BY <1>4 DEF Complete, SavedFacts
<1>5. CASE EnterCleanupCallback \/ EnterTransferCallback
  <2>1. frame.pc = "enter" /\ frame.t \in Transfers /\ callback[frame.t] # NULL
    BY <1>5, <1>f, NullFacts DEF EnterCleanupCallback, EnterTransferCallback, NoFrame
  <2>2. /\ frame'.pc \in {"java", "cleanup", "leave"} /\ frame'.t = frame.t
        /\ frame'.jTransfer = transferObject[frame.t]
        /\ UNCHANGED <<transferObject, liveRefs, nextRef>>
    BY <1>5 DEF EnterCleanupCallback, EnterTransferCallback, FrameSaves, AfterJava,
                OnlyFrameChanges
  <2>3. transferObject[frame.t] \in RefSet /\ transferObject[frame.t].id < nextRef
    BY <2>1, <1>o DEF IInv, RefFacts, CallbackFits, Fresh, HeldRefs
  <2> QED
    BY <2>2, <2>3 DEF SavedFacts
<1>6. CASE JavaReturn
  BY <1>6, <1>g DEF JavaReturn, FrameGoes, AfterJava, OnlyFrameChanges, SavedFacts
<1>7. CASE CallbackCleanup
  <2>1. frame.libFree /\ frame.pc = "cleanup"
    BY <1>7 DEF CallbackCleanup, FrameGoes
  <2>2. frame.jTransfer \notin liveRefs'
    BY <1>7, <2>1 DEF CallbackCleanup, HeldRefs, SavedFacts
  <2>3. frame'.pc = "reset" /\ frame'.jTransfer = frame.jTransfer /\ nextRef' = nextRef
    BY <1>7 DEF CallbackCleanup, FrameGoes
  <2> QED
    BY <2>1, <2>2, <2>3 DEF SavedFacts
<1>8. CASE CallbackReset \/ CallbackFreeData
  <2>1. frame'.pc \in {"freeData", "leave"}
    BY <1>8 DEF CallbackReset, CallbackFreeData, FrameGoes
  <2> QED
    BY <2>1 DEF SavedFacts
<1>9. CASE CallbackLeave
  BY <1>9, <1>o DEF CallbackLeave
<1>10. CASE UNCHANGED vars
  BY <1>10, <1>1 DEF vars
<1> QED
  BY <1>1, <1>2, <1>3, <1>4, <1>5, <1>6, <1>7, <1>8, <1>9, <1>10 DEF Next, CallbackSteps

\* Every automatic free resets the Java object through a global reference already
\* deleted, with any number of threads and transfers and whatever the callback did:
\* the run transfers_auto_free shows where that leads.
THEOREM ResetThroughDeleted ==
  Spec => [](frame.pc = "reset" => frame.jTransfer \notin liveRefs)
<1>1. Init => SavedFacts
  BY DEF Init, NoFrame, SavedFacts
<1>2. IInv /\ SavedFacts => (frame.pc = "reset" => frame.jTransfer \notin liveRefs)
  BY DEF IInv, FrameFacts, SavedFacts
<1> QED
  BY Invariance, SavedFactsStep, <1>1, <1>2, PTL DEF Spec

-----------------------------------------------------------------------------
(***************************************************************************)
(* Leaks, with callbacks free to rebind.                                   *)
(***************************************************************************)

\* Only an automatic free may leave references of t behind.
MayKeepRefs(t) == userData[t] = "live" \/ AutoFreeing(t) \/ native[t] = "autoFreed"

LiveRefsNamed == \A r \in liveRefs : \E t \in Transfers : MayKeepRefs(t) /\ r \in HeldRefs(t)

LEMMA LiveRefsNamedStep == IInv /\ LiveRefsNamed /\ [Next]_vars => LiveRefsNamed'
<1> SUFFICES ASSUME IInv, LiveRefsNamed, [Next]_vars PROVE LiveRefsNamed'
  OBVIOUS
<1> USE DEF nativeVars, dataVars, refVars
<1>t. TypeOK /\ TypeOK'
  BY TypeOKStep DEF IInv
<1>n. NULL \notin liveRefs /\ NULL \notin Transfers
  BY <1>t, NullFacts DEF TypeOK
\* Steps that add no reference, and after which every transfer that named a live one
\* still does.
<1>1. ASSUME liveRefs' \subseteq liveRefs,
             \A t \in Transfers : HeldRefs(t)' = HeldRefs(t),
             \A t \in Transfers : MayKeepRefs(t) =>
                MayKeepRefs(t)' \/ \A r \in HeldRefs(t) : r \notin liveRefs'
      PROVE  LiveRefsNamed'
  BY <1>1 DEF LiveRefsNamed
\* Steps that exchange references of one transfer in use.
<1>2. ASSUME NEW t \in Transfers, MayKeepRefs(t)',
             \A u \in Transfers : u # t =>
                /\ HeldRefs(u)' = HeldRefs(u)
                /\ MayKeepRefs(u) => MayKeepRefs(u)',
             \A r \in liveRefs' : r \in HeldRefs(t)' \/ (r \in liveRefs /\ r \notin HeldRefs(t))
      PROVE  LiveRefsNamed'
  <2> SUFFICES ASSUME NEW r \in liveRefs'
               PROVE  \E u \in Transfers : MayKeepRefs(u)' /\ r \in HeldRefs(u)'
    BY DEF LiveRefsNamed
  <2>1. CASE r \in HeldRefs(t)'
    BY <1>2, <2>1
  <2>2. CASE r \in liveRefs /\ r \notin HeldRefs(t)
    <3>1. PICK u \in Transfers : MayKeepRefs(u) /\ r \in HeldRefs(u)
      BY <2>2 DEF LiveRefsNamed
    <3> QED
      BY <1>2, <2>2, <3>1
  <2> QED
    BY <1>2, <2>1, <2>2
<1>3. ASSUME NEW c \in Callers, NEW t \in Transfers, ClientCalls(c, t)
      PROVE  LiveRefsNamed'
  <2>1. CASE AllocTransfer(c, t)
    <3>1. native[t] = "none" /\ callback[t] = NULL
      BY <2>1 DEF AllocTransfer, IInv, NativeFacts
    <3>2. \A r \in HeldRefs(t) : r = NULL
      BY <3>1 DEF IInv, RefFacts, CallbackFits, HeldRefs
    <3>3. /\ liveRefs' = liveRefs \cup {Ref(nextRef, t)} /\ Ref(nextRef, t) \in HeldRefs(t)'
          /\ userData'[t] = "live" /\ native'[t] = "live" /\ frame' = frame
      BY <2>1, <1>t DEF AllocTransfer, CleanupCallbackEnable, HeldRefs, TypeOK
    <3>4. ASSUME NEW u \in Transfers, u # t
          PROVE  HeldRefs(u)' = HeldRefs(u) /\ (MayKeepRefs(u) => MayKeepRefs(u)')
      BY <2>1, <1>t, <3>4
         DEF AllocTransfer, CleanupCallbackEnable, HeldRefs, TypeOK, MayKeepRefs, AutoFreeing
    <3>5. MayKeepRefs(t)'
      BY <3>3 DEF MayKeepRefs
    <3>6. \A r \in liveRefs' : r \in HeldRefs(t)' \/ (r \in liveRefs /\ r \notin HeldRefs(t))
      BY <3>2, <3>3, <1>n
    <3> QED
      BY <1>2, <3>3, <3>4, <3>5, <3>6
  <2>2. ASSUME NEW l \in Listeners \cup {NULL}, SetCallback(c, t, l) \/ SetUserData(c, t, l)
        PROVE  LiveRefsNamed'
    <3>1. /\ transferPointer[t] /\ native[t] # "autoFreed" /\ UNCHANGED <<frame, native, userData>>
          /\ AutoFreeing(t) => frame.pc = "java"
      BY <2>2 DEF SetCallback, SetUserData, MayUse, AutoFreeing
    <3>2. native[t] = "live" /\ userData[t] = "live"
      BY <3>1 DEF IInv, PointerNamesLive, Retiring
    <3>3. MayKeepRefs(t)'
      BY <3>1, <3>2 DEF MayKeepRefs
    <3>4. ASSUME NEW u \in Transfers, u # t
          PROVE  HeldRefs(u)' = HeldRefs(u) /\ (MayKeepRefs(u) => MayKeepRefs(u)')
      <4>1. MayKeepRefs(u) => MayKeepRefs(u)'
        BY <3>1 DEF MayKeepRefs, AutoFreeing
      <4>2. HeldRefs(u)' = HeldRefs(u)
        BY <2>2, <1>t, <3>4
           DEF SetCallback, CleanupCallbackEnable, SetUserData, HeldRefs, TypeOK
      <4> QED
        BY <4>1, <4>2
    <3>5. \A r \in liveRefs' : r \in HeldRefs(t)' \/ (r \in liveRefs /\ r \notin HeldRefs(t))
      <4>1. CASE SetCallback(c, t, l) /\ l = NULL
        BY <4>1, <1>t DEF SetCallback, CleanupCallbackEnable, HeldRefs, TypeOK
      <4>2. CASE SetCallback(c, t, l) /\ l # NULL
        BY <4>2, <1>t DEF SetCallback, HeldRefs, TypeOK
      <4>3. CASE SetUserData(c, t, l)
        BY <4>3, <1>t DEF SetUserData, HeldRefs, TypeOK
      <4> QED
        BY <2>2, <4>1, <4>2, <4>3
    <3> QED
      BY <1>2, <3>1, <3>2, <3>3, <3>4, <3>5
  <2>3. CASE AllocTransferUnwrapped(c, t)
    <3>1. /\ liveRefs' = liveRefs /\ \A u \in Transfers : HeldRefs(u)' = HeldRefs(u)
          /\ native[t] = "none"
      BY <2>3 DEF AllocTransferUnwrapped, HeldRefs
    <3>2. ASSUME NEW u \in Transfers, MayKeepRefs(u) PROVE MayKeepRefs(u)'
      BY <2>3, <1>t, <3>1, <3>2 DEF AllocTransferUnwrapped, MayKeepRefs, AutoFreeing, TypeOK
    <3> QED
      BY <1>1, <3>1, <3>2
  <2>4. CASE \/ SetFlags(c, t) \/ SubmitTransfer(c, t) \/ CancelTransfer(c, t)
             \/ FreeTransfer(c, t)
    BY <1>1, <2>4 DEF SetFlags, SubmitTransfer, CancelTransfer, FreeTransfer, HeldRefs,
                      MayKeepRefs, AutoFreeing
  <2> QED
    BY <1>3, <2>1, <2>2, <2>3, <2>4 DEF ClientCalls
<1>4. ASSUME NEW c \in Callers, NEW t \in Transfers, CallSteps(c, t)
      PROVE  LiveRefsNamed'
  <2>0. \A u \in Transfers : HeldRefs(u)' = HeldRefs(u)
    BY <1>4 DEF CallSteps, LibusbSubmit, LibusbCancel, FreeRefs, FreeReset, FreeData,
                FreeNative, HeldRefs
  <2>1. CASE LibusbSubmit(c, t) \/ LibusbCancel(c, t) \/ FreeRefs(c, t) \/ FreeReset(c, t)
    BY <1>1, <2>0, <2>1 DEF LibusbSubmit, LibusbCancel, FreeRefs, FreeReset, MayKeepRefs,
                            AutoFreeing
  <2>2. CASE FreeData(c, t)
    <3>1. /\ call[c].t = t /\ call[c].pc = "freeData" /\ UNCHANGED <<liveRefs, native, frame>>
          /\ userData' = [userData EXCEPT ![t] = "freed"]
      BY <2>2 DEF FreeData, At
    <3>2. ~AutoFreeing(t) /\ RefsDropped(t)
      BY <3>1 DEF IInv, CallFacts, RefsDropped, At
    <3>3. \A r \in HeldRefs(t) : r \notin liveRefs
      BY <3>2 DEF IInv, RefFacts, DroppedRefsGone
    <3>4. \A u \in Transfers : u # t => (MayKeepRefs(u) => MayKeepRefs(u)')
      BY <3>1, <1>t DEF MayKeepRefs, AutoFreeing, TypeOK
    <3> QED
      BY <1>1, <2>0, <3>1, <3>3, <3>4
  <2>3. CASE FreeNative(c, t)
    <3>1. /\ call[c].t = t /\ call[c].pc = "freeNative"
          /\ UNCHANGED <<liveRefs, userData, frame>>
          /\ native' = [native EXCEPT ![t] = "freed"]
      BY <2>3 DEF FreeNative, At
    <3>2. native[t] = "live"
      BY <3>1 DEF IInv, CallFacts
    <3>3. \A u \in Transfers : MayKeepRefs(u) => MayKeepRefs(u)'
      BY <3>1, <3>2, <1>t DEF MayKeepRefs, AutoFreeing, TypeOK
    <3> QED
      BY <1>1, <2>0, <3>1, <3>3
  <2> QED
    BY <1>4, <2>1, <2>2, <2>3 DEF CallSteps
<1>5. CASE CallbackSteps \/ JavaReturn \/ UNCHANGED vars \/ \E t \in Transfers : Complete(t)
  <2>1. liveRefs' \subseteq liveRefs /\ \A t \in Transfers : HeldRefs(t)' = HeldRefs(t)
    BY <1>5 DEF CallbackSteps, EnterCleanupCallback, EnterTransferCallback, CallbackCleanup,
                CallbackReset, CallbackFreeData, CallbackLeave, JavaReturn, OnlyFrameChanges,
                Complete, vars, HeldRefs
  <2>2. ASSUME NEW t \in Transfers, MayKeepRefs(t)
        PROVE  MayKeepRefs(t)'
    <3>1. CASE \/ EnterCleanupCallback \/ EnterTransferCallback \/ CallbackCleanup
               \/ CallbackReset \/ JavaReturn
      BY <2>2, <3>1
         DEF EnterCleanupCallback, EnterTransferCallback, CallbackCleanup, CallbackReset,
             JavaReturn, OnlyFrameChanges, FrameSaves, FrameGoes, MayKeepRefs, AutoFreeing
    <3>2. CASE CallbackFreeData
      <4>1. frame.libFree
        BY <3>2 DEF CallbackFreeData, IInv, FrameFacts
      <4>2. /\ UNCHANGED native /\ frame'.t = frame.t /\ frame'.libFree = frame.libFree
            /\ userData' = [userData EXCEPT ![frame.t] = "freed"]
        BY <3>2 DEF CallbackFreeData, FrameGoes
      <4> QED
        BY <2>2, <4>1, <4>2, <1>t DEF MayKeepRefs, AutoFreeing, TypeOK
    <3>3. CASE CallbackLeave
      BY <2>2, <3>3, <1>t DEF CallbackLeave, MayKeepRefs, AutoFreeing, TypeOK
    <3>4. CASE \E u \in Transfers : Complete(u)
      BY <2>2, <3>4, <1>n DEF Complete, MayKeepRefs, AutoFreeing, IInv, TypeOK, Frames, FramePcs, NoFrame
    <3>5. CASE UNCHANGED vars
      BY <2>2, <3>5 DEF vars, MayKeepRefs, AutoFreeing
    <3> QED
      BY <1>5, <3>1, <3>2, <3>3, <3>4, <3>5 DEF CallbackSteps
  <2> QED
    BY <1>1, <2>1, <2>2
<1> QED
  BY <1>3, <1>4, <1>5 DEF Next

\* Whatever callbacks rebind, no other path leaks: every live reference is in the fields
\* of a transfer_data not yet freed, or was left there by an automatic free.  The first
\* half alone is LiveRefsOwned, which rebinding breaks.
THEOREM OnlyAutoFreesLeak == Spec => []LiveRefsNamed
<1>1. Init => LiveRefsNamed
  BY DEF Init, LiveRefsNamed
<1> QED
  BY <1>1, LiveRefsNamedStep, Invariance, PTL DEF Spec
===============================================================================
