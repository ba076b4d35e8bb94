---------------------------- MODULE LifecycleProof ----------------------------
(***************************************************************************)
(* Transfers implements TransferLifecycle, for any number of transfers,    *)
(* threads, listeners and references: initial states map to initial states *)
(* and every step of native code, of a client or of libusb maps to a step  *)
(* of the life cycle or to none.  Progress is left to TLC.  What the life  *)
(* cycle stands for in TransferFields, who may use a transfer and what is  *)
(* kept for it, is true of Transfers.                                      *)
(***************************************************************************)
EXTENDS TransfersRefinement, TransfersProof

-----------------------------------------------------------------------------
(***************************************************************************)
(* One more invariant: what a call or a completion works on was allocated  *)
(* to the end, and keeps a callback even while it is freed.                *)
(***************************************************************************)
InUse(t) == frame.t = t \/ \E c \in Callers : call[c].t = t

UsedHaveCallback == \A t \in Transfers : InUse(t) => callback[t] # NULL

LEMMA CallbackStays ==
    ASSUME IInv, NEW t \in Transfers, callback[t] # NULL, [Next]_vars
    PROVE  callback'[t] # NULL
<1> USE NullFacts DEF IInv, TypeOK, nativeVars, dataVars, refVars
<1>1. CASE UNCHANGED callback
  BY <1>1
<1>2. ASSUME NEW c \in Callers, NEW u \in Transfers, AllocTransfer(c, u) PROVE callback'[t] # NULL
  BY <1>2 DEF AllocTransfer, CleanupCallbackEnable
<1>3. ASSUME NEW c \in Callers, NEW u \in Transfers, NEW l, SetCallback(c, u, l)
      PROVE  callback'[t] # NULL
  BY <1>3 DEF SetCallback, CleanupCallbackEnable
<1>4. ASSUME NEW c \in Callers, NEW u \in Transfers, ClientCalls(c, u) PROVE callback'[t] # NULL
  BY <1>1, <1>2, <1>3, <1>4
     DEF ClientCalls, AllocTransferUnwrapped, SetFlags, SetUserData, SubmitTransfer,
         CancelTransfer, FreeTransfer
<1>5. ASSUME NEW c \in Callers, NEW u \in Transfers, CallSteps(c, u) PROVE callback'[t] # NULL
  BY <1>1, <1>5
     DEF CallSteps, LibusbSubmit, LibusbCancel, FreeRefs, FreeReset, FreeData, FreeNative
<1>6. ASSUME \/ CallbackSteps \/ JavaReturn \/ UNCHANGED vars
             \/ \E u \in Transfers : Complete(u)
      PROVE  callback'[t] # NULL
  BY <1>1, <1>6
     DEF CallbackSteps, EnterCleanupCallback, EnterTransferCallback, CallbackCleanup,
         CallbackReset, CallbackFreeData, CallbackLeave, JavaReturn, OnlyFrameChanges, Complete,
         vars
<1> QED
  BY <1>4, <1>5, <1>6 DEF Next

LEMMA UsedHaveCallbackStep ==
    IInv /\ UsedHaveCallback /\ [Next]_vars => UsedHaveCallback'
<1> SUFFICES ASSUME IInv, UsedHaveCallback, [Next]_vars, NEW t \in Transfers, InUse(t)'
             PROVE  callback'[t] # NULL
  BY DEF UsedHaveCallback
<1> USE NullFacts DEF IInv, TypeOK, nativeVars, dataVars, refVars
<1>0. call \in [Callers -> {Ready} \cup [pc : CallPcs, t : Transfers]]
  OBVIOUS
<1>1. CASE InUse(t)
  BY <1>1, CallbackStays DEF UsedHaveCallback
<1>2. CASE transferPointer[t] \/ inFlight[t]
  BY <1>2, CallbackStays DEF NativeFacts
<1>3. ASSUME NEW c \in Callers, NEW u \in Transfers, ClientCalls(c, u)
      PROVE  InUse(t) \/ transferPointer[t]
  <2>1. CASE UNCHANGED <<call, frame>>
    BY <2>1 DEF InUse
  <2>2. CASE SubmitTransfer(c, u) \/ CancelTransfer(c, u) \/ FreeTransfer(c, u)
    <3>1. /\ transferPointer[u] /\ frame' = frame
          /\ \E pc : call' = [call EXCEPT ![c] = [pc |-> pc, t |-> u]]
      BY <2>2 DEF SubmitTransfer, CancelTransfer, FreeTransfer, MayRelease, MayUse, MayCancel, Begin
    <3>2. \A d \in Callers : call'[d].t = call[d].t \/ call'[d].t = u
      BY <3>1, <1>0
    <3> QED
      BY <3>1, <3>2 DEF InUse
  <2> QED
    BY <1>3, <2>1, <2>2
       DEF ClientCalls, AllocTransfer, AllocTransferUnwrapped, SetFlags, SetCallback, SetUserData
<1>4. ASSUME NEW c \in Callers, NEW u \in Transfers, CallSteps(c, u)
      PROVE  InUse(t)
  <2>1. /\ frame' = frame /\ call[c].t = u
        /\ \E x : call' = [call EXCEPT ![c] = x] /\ x.t \in {u, NULL}
    BY <1>4 DEF CallSteps, LibusbSubmit, LibusbCancel, FreeRefs, FreeReset, FreeData, FreeNative,
                At, Begin, Return, Ready
  <2>2. \A d \in Callers : call'[d].t = call[d].t \/ call'[d].t \in {u, NULL}
    BY <2>1, <1>0
  <2> QED
    BY <2>1, <2>2 DEF InUse
<1>5. ASSUME NEW u \in Transfers, Complete(u) PROVE InUse(t) \/ inFlight[t]
  BY <1>5 DEF Complete, InUse
<1>6. ASSUME CallbackSteps \/ JavaReturn \/ UNCHANGED vars PROVE InUse(t)
  BY <1>6 DEF CallbackSteps, EnterCleanupCallback, EnterTransferCallback, CallbackCleanup,
              CallbackReset, CallbackFreeData, CallbackLeave, JavaReturn, OnlyFrameChanges,
              FrameSaves, FrameGoes, NoFrame, vars, InUse
<1> QED
  BY <1>1, <1>2, <1>3, <1>4, <1>5, <1>6 DEF Next

LEMMA InitUsed == Init => UsedHaveCallback
BY NullFacts DEF Init, UsedHaveCallback, InUse, Ready, NoFrame

LEMMA UsedHaveCallbackInvariance == Spec => [](IInv /\ UsedHaveCallback)
BY InitUsed, Invariance, UsedHaveCallbackStep, PTL DEF Spec

-----------------------------------------------------------------------------
(***************************************************************************)
(* The state read off.  Phases exclude each other, so that the CASE of     *)
(* phaseBar is what its guards say.                                        *)
(***************************************************************************)
Absent(t) == native[t] = "none" \/ Unwrapped(t)
FreeCalled(t) == \E c \in Callers : call[c].t = t /\ call[c].pc \in FreePcs
Released(t) == native[t] \in {"freed", "autoFreed"} \/ FreeCalled(t)
Done(t) == frame.t = t /\ (frame.pc = "enter" \/ frame.libFree)

PhaseFacts ==
    \A t \in Transfers :
        /\ Absent(t) => phaseBar[t] = "absent"
        /\ Released(t) => phaseBar[t] = "released" /\ listenerBar[t] = NULL
        /\ ~Released(t) => listenerBar[t] = ObjectOf(callbackObject[t])
        /\ inFlight[t] => phaseBar[t] = "flying"
        /\ Done(t) => phaseBar[t] = "done"
        /\ ~Absent(t) /\ ~Released(t) /\ ~inFlight[t] /\ ~Done(t) => phaseBar[t] = "idle"

LEMMA PhasesApart ==
    ASSUME IInv, UsedHaveCallback, NEW t \in Transfers
    PROVE  /\ FreeCalled(t) => native[t] = "live" /\ ~inFlight[t] /\ ~Done(t)
           /\ Absent(t) => ~Released(t) /\ ~inFlight[t] /\ ~Done(t)
           /\ inFlight[t] => ~Released(t) /\ ~Done(t)
           /\ Done(t) => ~Released(t)
<1>1. ASSUME FreeCalled(t)
      PROVE  native[t] = "live" /\ callback[t] # NULL /\ ~inFlight[t] /\ ~Done(t)
  <2>1. PICK c \in Callers : call[c].t = t /\ call[c].pc \in FreePcs
    BY <1>1 DEF FreeCalled
  <2>2. /\ ~AutoFreeing(t) /\ native[t] = "live" /\ ~inFlight[t]
        /\ frame.t = t => frame.pc \in {"java", "leave"}
    BY <2>1 DEF IInv, CallFacts, FreePcs
  <2> QED
    BY <2>1, <2>2 DEF AutoFreeing, Done, UsedHaveCallback, InUse
<1>2. Done(t) => native[t] = "live" /\ callback[t] # NULL /\ ~inFlight[t]
  <2>1. Done(t) => frame.pc # "idle"
    BY NullFacts DEF Done, IInv, TypeOK, Frames, FramePcs, NoFrame
  <2> QED
    BY <2>1 DEF Done, IInv, FrameFacts, Live, UsedHaveCallback, InUse
<1>3. inFlight[t] => native[t] = "live" /\ callback[t] # NULL
  BY DEF IInv, InFlightFacts, NativeFacts, Live
<1> QED
  BY <1>1, <1>2, <1>3 DEF Absent, Released, Unwrapped

LEMMA PhasesKnown == IInv /\ UsedHaveCallback => PhaseFacts
<1> SUFFICES ASSUME IInv, UsedHaveCallback, NEW t \in Transfers
             PROVE  /\ Absent(t) => phaseBar[t] = "absent"
                    /\ Released(t) => phaseBar[t] = "released"
                    /\ inFlight[t] => phaseBar[t] = "flying"
                    /\ Done(t) => phaseBar[t] = "done"
                    /\ ~Absent(t) /\ ~Released(t) /\ ~inFlight[t] /\ ~Done(t)
                         => phaseBar[t] = "idle"
  <2>1. \A t \in Transfers : listenerBar[t] = IF phaseBar[t] = "released" THEN NULL
                                              ELSE ObjectOf(callbackObject[t])
    BY DEF listenerBar
  <2> QED
    BY <2>1 DEF PhaseFacts
<1>1. phaseBar[t] = CASE Absent(t) -> "absent" [] Released(t) -> "released"
                      [] inFlight[t] -> "flying" [] Done(t) -> "done" [] OTHER -> "idle"
  BY DEF phaseBar, Absent, Released, FreeCalled, Done
<1>2. inFlight[t] \in BOOLEAN
  BY DEF IInv, TypeOK
<1> HIDE DEF Absent, Released, Done, phaseBar
<1> QED
  BY <1>1, <1>2, PhasesApart

\* Both functions are on Transfers, so that they are known by their values.
LEMMA BarFunctions ==
    /\ phaseBar = [t \in Transfers |-> phaseBar[t]]
    /\ phaseBar' = [t \in Transfers |-> phaseBar'[t]]
    /\ listenerBar = [t \in Transfers |-> listenerBar[t]]
    /\ listenerBar' = [t \in Transfers |-> listenerBar'[t]]
BY DEF phaseBar, listenerBar

LEMMA NoticeKnown ==
    /\ noticeBar = [stage |-> noticeBar.stage, t |-> frame.t,
                    to |-> ObjectOf(frame.jCallback), last |-> frame.libFree]
    /\ noticeBar' = [stage |-> noticeBar'.stage, t |-> frame'.t,
                     to |-> ObjectOf(frame'.jCallback), last |-> frame'.libFree]
    /\ frame.pc = "idle" => noticeBar.stage = "none"
    /\ frame'.pc = "idle" => noticeBar'.stage = "none"
    /\ frame.pc = "enter" => noticeBar.stage = "due"
    /\ frame'.pc = "enter" => noticeBar'.stage = "due"
    /\ frame.pc = "java" => noticeBar.stage = "told"
    /\ frame'.pc = "java" => noticeBar'.stage = "told"
    /\ frame.pc \notin {"idle", "enter", "java"} => noticeBar.stage = "over"
    /\ frame'.pc \notin {"idle", "enter", "java"} => noticeBar'.stage = "over"
BY DEF noticeBar, ObjectOf

\* Updates of several fields of a notice, one by one; the Boolean that is replaced
\* gets a name, since the provers lose it in a record.
LEMMA NoticeDue ==
    ASSUME NEW t, NEW last
    PROVE  [Lifecycle!NoNotice EXCEPT !.stage = "due", !.t = t, !.last = last]
             = [stage |-> "due", t |-> t, to |-> NULL, last |-> last]
<1> DEFINE none == Lifecycle!NoNotice
           off == FALSE
           staged == [none EXCEPT !.stage = "due"]
           named == [staged EXCEPT !.t = t]
<1>1. none = [stage |-> "none", t |-> NULL, to |-> NULL, last |-> off]
  BY DEF Lifecycle!NoNotice
<1> HIDE DEF none, off
<1>2. [none EXCEPT !.stage = "due", !.t = t, !.last = last] = [named EXCEPT !.last = last]
  BY Zenon
<1>3. staged = [stage |-> "due", t |-> NULL, to |-> NULL, last |-> off]
  BY <1>1
<1> HIDE DEF staged
<1>4. named = [stage |-> "due", t |-> t, to |-> NULL, last |-> off]
  BY <1>3
<1> HIDE DEF named
<1>5. [named EXCEPT !.last = last] = [stage |-> "due", t |-> t, to |-> NULL, last |-> last]
  BY <1>4
<1> QED
  BY <1>2, <1>5 DEF none

LEMMA NoticeTold ==
    ASSUME NEW stage, NEW to
    PROVE  [noticeBar EXCEPT !.stage = stage, !.to = to]
             = [stage |-> stage, t |-> frame.t, to |-> to, last |-> frame.libFree]
<1> DEFINE staged == [noticeBar EXCEPT !.stage = stage]
<1>1. [noticeBar EXCEPT !.stage = stage, !.to = to] = [staged EXCEPT !.to = to]
  BY Zenon
<1>2. staged = [stage |-> stage, t |-> frame.t, to |-> ObjectOf(frame.jCallback),
                last |-> frame.libFree]
  BY NoticeKnown
<1> HIDE DEF staged
<1>3. [staged EXCEPT !.to = to]
        = [stage |-> stage, t |-> frame.t, to |-> to, last |-> frame.libFree]
  BY <1>2
<1> QED
  BY <1>1, <1>3

Unmoved(t) ==
    /\ Absent(t)' <=> Absent(t)
    /\ Released(t)' <=> Released(t)
    /\ inFlight'[t] = inFlight[t]
    /\ Done(t)' <=> Done(t)
    /\ ~Released(t) => callbackObject'[t] = callbackObject[t]

LEMMA UnmovedKeeps ==
    ASSUME PhaseFacts, PhaseFacts', NEW t \in Transfers, Unmoved(t)
    PROVE  phaseBar'[t] = phaseBar[t] /\ listenerBar'[t] = listenerBar[t]
<1> USE DEF Unmoved, PhaseFacts
<1>1. CASE Absent(t) \/ Released(t) \/ inFlight[t] \/ Done(t)
  BY <1>1 DEF ObjectOf
<1>2. CASE ~Absent(t) /\ ~Released(t) /\ ~inFlight[t] /\ ~Done(t)
  BY <1>2 DEF ObjectOf
<1> QED
  BY <1>1, <1>2

LEMMA AllStay ==
    ASSUME PhaseFacts, PhaseFacts', \A t \in Transfers : Unmoved(t)
    PROVE  phaseBar' = phaseBar /\ listenerBar' = listenerBar
<1>1. \A t \in Transfers : phaseBar'[t] = phaseBar[t] /\ listenerBar'[t] = listenerBar[t]
  BY UnmovedKeeps
<1> QED
  BY <1>1, BarFunctions

LEMMA OneMoves ==
    ASSUME PhaseFacts, PhaseFacts', NEW t \in Transfers,
           \A u \in Transfers : u # t => Unmoved(u)
    PROVE  /\ phaseBar' = [phaseBar EXCEPT ![t] = phaseBar'[t]]
           /\ listenerBar' = [listenerBar EXCEPT ![t] = listenerBar'[t]]
<1>1. \A u \in Transfers :
        u # t => phaseBar'[u] = phaseBar[u] /\ listenerBar'[u] = listenerBar[u]
  BY UnmovedKeeps
<1> QED
  BY <1>1, BarFunctions

\* What a step of the call of c on t changes.
OneCall(c, t) ==
    /\ call[c].t = t \/ (call[c].t = NULL /\ NoCallOn(t))
    /\ call'[c].t \in {t, NULL}
    /\ \A d \in Callers : d # c => call'[d] = call[d]

LEMMA OneCallMoves ==
    ASSUME IInv, NEW c \in Callers, NEW t \in Transfers, OneCall(c, t)
    PROVE  /\ \A u \in Transfers : u # t => (FreeCalled(u)' <=> FreeCalled(u))
           /\ FreeCalled(t) <=> call[c].t = t /\ call[c].pc \in FreePcs
           /\ FreeCalled(t)' <=> call'[c].t = t /\ call'[c].pc \in FreePcs
<1>1. \A d \in Callers : d # c => call'[d] = call[d] /\ call[d].t # t
  BY DEF IInv, CallsApart, NoCallOn, OneCall
<1> QED
  BY <1>1, NullFacts DEF FreeCalled, OneCall

-----------------------------------------------------------------------------
(***************************************************************************)
(* The steps, one lemma per group of actions.                              *)
(***************************************************************************)
\* The flags, the listener and the notice are read off fields of their own.
LifeStays == UNCHANGED <<phaseBar, flags, listenerBar, noticeBar>>

\* allocTransfer, setFlags, setCallback and setUserData.
LEMMA ConfigurationStep ==
    ASSUME IInv, UsedHaveCallback, PhaseFacts, PhaseFacts', NEW c \in Callers, NEW t \in Transfers,
           NEW object \in Listeners \cup {NULL},
           \/ AllocTransfer(c, t) \/ AllocTransferUnwrapped(c, t) \/ SetFlags(c, t)
           \/ SetCallback(c, t, object) \/ SetUserData(c, t, object)
    PROVE  \/ Lifecycle!Allocate(t) \/ Lifecycle!SetAutoFree(t)
           \/ Lifecycle!Register(t, object) \/ LifeStays
<1> USE NullFacts DEF nativeVars, dataVars, refVars
<1>1. /\ UNCHANGED <<call, frame, inFlight>>
      /\ \A u \in Transfers : u # t => /\ native'[u] = native[u] /\ callback'[u] = callback[u]
                                       /\ callbackObject'[u] = callbackObject[u]
  BY DEF IInv, TypeOK, AllocTransfer, AllocTransferUnwrapped, SetFlags, SetCallback, SetUserData,
         CleanupCallbackEnable
<1>2. /\ noticeBar' = noticeBar
      /\ \A u \in Transfers : (FreeCalled(u)' <=> FreeCalled(u)) /\ (Done(u)' <=> Done(u))
  BY <1>1 DEF noticeBar, FreeCalled, Done
<1>3. \A u \in Transfers : u # t => Unmoved(u)
  BY <1>1, <1>2 DEF Unmoved, Absent, Unwrapped, Released
<1>4. /\ phaseBar' = [phaseBar EXCEPT ![t] = phaseBar'[t]]
      /\ listenerBar' = [listenerBar EXCEPT ![t] = listenerBar'[t]]
  BY <1>3, OneMoves
<1>5. ASSUME MayUse(c, t)
      PROVE  /\ ~Absent(t) /\ ~Released(t) /\ ~inFlight[t] /\ callback[t] # NULL
             /\ Done(t) => frame.pc = "java" /\ frame.libFree /\ frame.t = t
  <2>1. callback[t] # NULL /\ native[t] = "live"
    <3>1. ~(AutoFreeing(t) /\ frame.pc \in {"freeData", "leave"})
      BY <1>5 DEF MayUse, AutoFreeing
    <3> QED
      BY <1>5, <3>1 DEF MayUse, IInv, NativeFacts, PointerNamesLive, Retiring
  <2> QED
    BY <1>5, <2>1, PhasesApart DEF MayUse, NoCallOn, Released, FreeCalled, Absent, Unwrapped, Done
<1>6. CASE AllocTransfer(c, t)
  <2>1. native[t] = "none" /\ callback[t] = NULL /\ callbackObject[t] = NULL
    BY <1>6 DEF AllocTransfer, IInv, NativeFacts, RefFacts, CallbackFits
  <2>2. native'[t] = "live" /\ callback'[t] # NULL /\ callbackObject'[t] = NULL
    BY <1>6 DEF IInv, TypeOK, AllocTransfer, CleanupCallbackEnable
  <2>3. Absent(t) /\ ~Released(t) /\ ~inFlight[t] /\ ~Done(t)
    BY <2>1, PhasesApart DEF Absent
  <2>4. ~Absent(t)' /\ ~Released(t)' /\ ~inFlight'[t] /\ ~Done(t)'
    BY <2>2, <2>3, <1>1, <1>2 DEF Absent, Unwrapped, Released
  <2>5. phaseBar[t] = "absent" /\ phaseBar'[t] = "idle" /\ listenerBar'[t] = listenerBar[t]
    BY <2>1, <2>2, <2>3, <2>4 DEF PhaseFacts, ObjectOf
  <2> QED
    BY <1>6, <1>2, <1>4, <2>5, BarFunctions DEF Lifecycle!Allocate, AllocTransfer
<1>7. CASE AllocTransferUnwrapped(c, t)
  <2>1. native[t] = "none" /\ callback[t] = NULL
    BY <1>7 DEF AllocTransferUnwrapped, IInv, NativeFacts
  <2>2. native'[t] = "live" /\ callback'[t] = NULL /\ UNCHANGED <<flags, callbackObject>>
    BY <1>7, <2>1 DEF IInv, TypeOK, AllocTransferUnwrapped
  <2>3. Unmoved(t)
    BY <1>1, <1>2, <2>1, <2>2 DEF Unmoved, Absent, Unwrapped, Released
  <2> QED
    BY <1>2, <1>3, <2>2, <2>3, AllStay DEF LifeStays
<1>8. CASE SetUserData(c, t, object)
  <2>1. Unmoved(t) /\ flags' = flags
    BY <1>1, <1>2, <1>8 DEF SetUserData, Unmoved, Absent, Unwrapped, Released
  <2> QED
    BY <1>2, <1>3, <2>1, AllStay DEF LifeStays
<1>9. CASE SetFlags(c, t)
  <2>1. \A u \in Transfers : Unmoved(u)
    BY <1>1, <1>2, <1>9 DEF SetFlags, Unmoved, Absent, Unwrapped, Released
  <2>2. phaseBar' = phaseBar /\ listenerBar' = listenerBar
    BY <2>1, AllStay
  <2>3. MayUse(c, t) /\ \E b \in BOOLEAN : flags' = [flags EXCEPT ![t] = b]
    BY <1>9, TransfersAssumption DEF SetFlags
  <2>4. phaseBar[t] = "idle" \/ Lifecycle!Telling(t)
    BY <2>3, <1>5 DEF PhaseFacts, Lifecycle!Telling, noticeBar
  <2> QED
    BY <1>2, <2>2, <2>3, <2>4 DEF Lifecycle!SetAutoFree
<1>10. CASE SetCallback(c, t, object)
  <2>1. MayUse(c, t) /\ (AutoFreeing(t) => RebindInFreeCallback) /\ UNCHANGED <<flags, native>>
    BY <1>10 DEF SetCallback
  <2>2. callback'[t] # NULL /\ ObjectOf(callbackObject'[t]) = object
    BY <1>10 DEF IInv, TypeOK, SetCallback, CleanupCallbackEnable, ObjectOf, Ref, RefSet, Objects
  <2>3. ~Absent(t)' /\ ~Released(t)' /\ inFlight'[t] = inFlight[t]
    BY <1>1, <1>2, <1>5, <2>1, <2>2 DEF Absent, Unwrapped, Released
  <2>4. phaseBar'[t] = phaseBar[t] /\ listenerBar'[t] = object
    BY <1>2, <1>5, <2>1, <2>2, <2>3 DEF PhaseFacts
  <2>5. phaseBar' = phaseBar /\ listenerBar' = [listenerBar EXCEPT ![t] = object]
    BY <1>4, <2>4, BarFunctions
  <2>6. phaseBar[t] = "idle" \/ (Lifecycle!Telling(t) /\ RebindInFreeCallback)
    BY <2>1, <1>5 DEF PhaseFacts, Lifecycle!Telling, noticeBar, AutoFreeing
  <2> QED
    BY <1>2, <2>1, <2>5, <2>6 DEF Lifecycle!Register
<1> QED
  BY <1>6, <1>7, <1>8, <1>9, <1>10

\* The first step of submitTransfer, cancelTransfer and freeTransfer: libusb has
\* not been called yet, but a transfer to be freed is its client's no more.
LEMMA BeginStep ==
    ASSUME IInv, UsedHaveCallback, PhaseFacts, PhaseFacts', NEW c \in Callers, NEW t \in Transfers,
           SubmitTransfer(c, t) \/ CancelTransfer(c, t) \/ FreeTransfer(c, t)
    PROVE  Lifecycle!Release(t) \/ LifeStays
<1> USE NullFacts DEF nativeVars, dataVars, refVars
<1>1. /\ UNCHANGED <<nativeVars, dataVars, frame>>
      /\ call[c] = Ready /\ NoCallOn(t) /\ transferPointer[t]
  BY DEF IInv, TypeOK, SubmitTransfer, CancelTransfer, FreeTransfer, MayRelease, MayUse, MayCancel,
         MayCall, CallPcs, FreePcs, Ready
<1>2. /\ noticeBar' = noticeBar
      /\ \A u \in Transfers : (Done(u)' <=> Done(u)) /\ (Absent(u)' <=> Absent(u))
  BY <1>1 DEF noticeBar, Done, Absent, Unwrapped
<1>3. ASSUME NEW pc \in {"submit", "cancel", "freeRefs"}, Begin(c, pc, t)
      PROVE  /\ \A u \in Transfers : u # t => Unmoved(u)
             /\ ~FreeCalled(t) /\ (FreeCalled(t)' <=> pc = "freeRefs")
  <2>1. call'[c].t = t /\ call'[c].pc = pc /\ OneCall(c, t)
    BY <1>1, <1>3 DEF Begin, Ready, OneCall, IInv, TypeOK
  <2>2. /\ \A u \in Transfers : u # t => (FreeCalled(u)' <=> FreeCalled(u))
        /\ ~FreeCalled(t) /\ (FreeCalled(t)' <=> pc \in FreePcs)
    BY <1>1, <2>1, OneCallMoves DEF Ready
  <2> QED
    BY <1>1, <1>2, <2>2 DEF Unmoved, Released, FreePcs
<1>4. CASE SubmitTransfer(c, t) \/ CancelTransfer(c, t)
  <2>1. \A u \in Transfers : Unmoved(u)
    <3>1. Begin(c, "submit", t) \/ Begin(c, "cancel", t)
      BY <1>4 DEF SubmitTransfer, CancelTransfer
    <3>2. ~FreeCalled(t) /\ ~FreeCalled(t)' /\ \A u \in Transfers : u # t => Unmoved(u)
      BY <3>1, <1>3
    <3> QED
      BY <1>1, <1>2, <3>2 DEF Unmoved, Released
  <2> QED
    BY <1>1, <1>2, <2>1, AllStay DEF LifeStays
<1>5. CASE FreeTransfer(c, t)
  <2>1. Begin(c, "freeRefs", t) /\ MayRelease(c, t)
    BY <1>5 DEF FreeTransfer
  <2>2. /\ \A u \in Transfers : u # t => Unmoved(u)
        /\ ~FreeCalled(t) /\ FreeCalled(t)'
    BY <1>3, <2>1
  <2>3. ~Absent(t) /\ ~Released(t) /\ ~inFlight[t] /\ ~Done(t)
    <3>1. native[t] = "live" /\ callback[t] # NULL
      BY <2>1 DEF MayRelease, MayUse, IInv, NativeFacts, PointerNamesLive, Retiring
    <3> QED
      BY <2>1, <2>2, <3>1
         DEF MayRelease, MayUse, AutoFreeing, Released, Absent, Unwrapped, Done
  <2>4. phaseBar[t] = "idle" /\ phaseBar'[t] = "released" /\ listenerBar'[t] = NULL
    BY <2>2, <2>3 DEF PhaseFacts, Released
  <2>5. /\ phaseBar' = [phaseBar EXCEPT ![t] = "released"]
        /\ listenerBar' = [listenerBar EXCEPT ![t] = NULL]
    BY <2>2, <2>4, OneMoves
  <2> QED
    BY <1>1, <1>2, <2>4, <2>5 DEF Lifecycle!Release
<1> QED
  BY <1>4, <1>5

\* The steps inside these calls.  Only a submission that is accepted shows.
LEMMA CallStep ==
    ASSUME IInv, UsedHaveCallback, PhaseFacts, PhaseFacts', NEW c \in Callers, NEW t \in Transfers,
           CallSteps(c, t)
    PROVE  Lifecycle!Submit(t) \/ LifeStays
<1> USE NullFacts DEF nativeVars, dataVars, refVars
<1>1. /\ UNCHANGED <<flags, callback, callbackObject, frame>>
      /\ call[c].t = t
      /\ \A u \in Transfers : u # t => native'[u] = native[u] /\ inFlight'[u] = inFlight[u]
  BY DEF IInv, TypeOK, CallSteps, LibusbSubmit, LibusbCancel, FreeRefs, FreeReset, FreeData,
         FreeNative, At
<1>2. noticeBar' = noticeBar /\ \A u \in Transfers : Done(u)' <=> Done(u)
  BY <1>1 DEF noticeBar, Done
<1>3. callback[t] # NULL /\ native[t] = "live"
  BY <1>1 DEF IInv, CallFacts, UsedHaveCallback, InUse
<1>4. /\ \A u \in Transfers : u # t => Unmoved(u)
      /\ FreeCalled(t) <=> call[c].pc \in FreePcs
      /\ FreeCalled(t)' <=> call'[c].pc \in FreePcs
  <2>1. OneCall(c, t) /\ (call'[c].t = NULL => call'[c].pc \notin FreePcs)
    BY <1>1 DEF IInv, TypeOK, CallSteps, LibusbSubmit, LibusbCancel, FreeRefs, FreeReset, FreeData,
                FreeNative, At, Begin, Return, Ready, FreePcs, OneCall
  <2>2. /\ \A u \in Transfers : u # t => (FreeCalled(u)' <=> FreeCalled(u))
        /\ FreeCalled(t) <=> call[c].t = t /\ call[c].pc \in FreePcs
        /\ FreeCalled(t)' <=> call'[c].t = t /\ call'[c].pc \in FreePcs
    BY <2>1, OneCallMoves
  <2>3. FreeCalled(t)' <=> call'[c].pc \in FreePcs
    BY <2>1, <2>2 DEF OneCall
  <2> QED
    BY <1>1, <1>2, <2>2, <2>3 DEF Unmoved, Absent, Unwrapped, Released
<1>5. CASE LibusbSubmit(c, t)
  <2>1. PICK accepted \in BOOLEAN : inFlight' = [inFlight EXCEPT ![t] = accepted]
    BY <1>5 DEF LibusbSubmit
  <2>2. call'[c].pc = "ready" /\ call[c].pc = "submit" /\ native' = native
    BY <1>5 DEF LibusbSubmit, Return, At, Ready, IInv, TypeOK
  <2>3. /\ \A u \in Transfers : u # t => Unmoved(u)
        /\ ~FreeCalled(t) /\ ~FreeCalled(t)'
    BY <1>4, <2>2 DEF FreePcs
  <2>4. /\ ~inFlight[t] /\ ~Done(t) /\ inFlight'[t] = accepted
        /\ ~Absent(t) /\ ~Released(t) /\ ~Absent(t)' /\ ~Released(t)'
    <3>1. ~AutoFreeing(t) /\ ~inFlight[t] /\ (frame.t = t => frame.pc \in {"java", "leave"})
      BY <1>1, <2>2 DEF IInv, CallFacts
    <3>2. inFlight'[t] = accepted
      BY <2>1 DEF IInv, TypeOK
    <3> QED
      BY <1>1, <1>3, <2>2, <2>3, <3>1, <3>2
         DEF AutoFreeing, Done, Absent, Unwrapped, Released
  <2>5. CASE accepted
    <3>1. phaseBar[t] = "idle" /\ phaseBar'[t] = "flying"
      BY <2>4, <2>5 DEF PhaseFacts
    <3>2. listenerBar'[t] = listenerBar[t]
      BY <1>1, <2>4 DEF PhaseFacts, ObjectOf
    <3>3. phaseBar' = [phaseBar EXCEPT ![t] = "flying"] /\ listenerBar' = listenerBar
      BY <2>3, <3>1, <3>2, OneMoves, BarFunctions
    <3> QED
      BY <1>1, <1>2, <3>1, <3>3 DEF Lifecycle!Submit
  <2>6. CASE ~accepted
    <3>1. Unmoved(t)
      BY <1>1, <1>2, <2>4, <2>6 DEF Unmoved, IInv, TypeOK
    <3> QED
      BY <1>1, <1>2, <2>3, <3>1, AllStay DEF LifeStays
  <2> QED
    BY <2>5, <2>6
<1>6. CASE LibusbCancel(c, t) \/ FreeRefs(c, t) \/ FreeReset(c, t) \/ FreeData(c, t)
  <2>1. /\ UNCHANGED <<native, inFlight>>
        /\ call[c].pc \in FreePcs <=> call'[c].pc \in FreePcs
    BY <1>6 DEF LibusbCancel, FreeRefs, FreeReset, FreeData, At, Begin, Return, Ready, FreePcs,
                IInv, TypeOK
  <2>2. /\ \A u \in Transfers : u # t => Unmoved(u)
        /\ FreeCalled(t)' <=> FreeCalled(t)
    BY <1>4, <2>1
  <2>3. Unmoved(t)
    BY <1>1, <1>2, <2>1, <2>2 DEF Unmoved, Absent, Unwrapped, Released
  <2> QED
    BY <1>1, <1>2, <2>2, <2>3, AllStay DEF LifeStays
<1>7. CASE FreeNative(c, t)
  <2>1. call[c].pc = "freeNative" /\ inFlight' = inFlight /\ native'[t] = "freed"
    BY <1>7 DEF IInv, TypeOK, FreeNative, At
  <2>2. /\ \A u \in Transfers : u # t => Unmoved(u)
        /\ FreeCalled(t)
    BY <1>4, <2>1 DEF FreePcs
  <2>3. Unmoved(t)
    BY <1>1, <1>2, <1>3, <2>1, <2>2 DEF Unmoved, Absent, Unwrapped, Released
  <2> QED
    BY <1>1, <1>2, <2>2, <2>3, AllStay DEF LifeStays
<1> QED
  BY <1>5, <1>6, <1>7 DEF CallSteps

\* libusb completes a transfer.
LEMMA CompleteStep ==
    ASSUME IInv, UsedHaveCallback, PhaseFacts, PhaseFacts', NEW t \in Transfers, Complete(t)
    PROVE  Lifecycle!Complete(t)
<1> USE NullFacts
<1>1. /\ UNCHANGED <<native, flags, callback, dataVars, call>> /\ inFlight[t]
      /\ inFlight' = [inFlight EXCEPT ![t] = FALSE]
      /\ frame' = [pc |-> "enter", t |-> t, libFree |-> flags[t], free |-> FALSE,
                    jTransfer |-> NULL, jCallback |-> NULL]
      /\ frame = NoFrame
  BY DEF Complete, IInv, TypeOK, Frames, FramePcs
<1>2. /\ noticeBar = Lifecycle!NoNotice
      /\ noticeBar' = [Lifecycle!NoNotice EXCEPT !.stage = "due", !.t = t, !.last = flags[t]]
  <2>1. noticeBar = [stage |-> "none", t |-> NULL, to |-> NULL, last |-> FALSE]
    BY <1>1, NoticeKnown DEF NoFrame, ObjectOf
  <2>2. noticeBar' = [stage |-> "due", t |-> t, to |-> NULL, last |-> flags[t]]
    BY <1>1, NoticeKnown DEF ObjectOf
  <2> QED
    BY <2>1, <2>2, NoticeDue DEF Lifecycle!NoNotice
<1>3. \A u \in Transfers : /\ (Absent(u)' <=> Absent(u)) /\ (Released(u)' <=> Released(u))
                           /\ ~Done(u)
  BY <1>1 DEF Absent, Unwrapped, Released, FreeCalled, Done, NoFrame
<1>4. \A u \in Transfers : u # t => Unmoved(u)
  BY <1>1, <1>3 DEF Unmoved, Done, IInv, TypeOK, dataVars
<1>5. /\ phaseBar[t] = "flying" /\ phaseBar'[t] = "done"
      /\ listenerBar'[t] = listenerBar[t]
  <2>1. ~Released(t) /\ ~Released(t)' /\ Done(t)'
    BY <1>1, <1>3, PhasesApart DEF Done
  <2> QED
    BY <1>1, <2>1 DEF PhaseFacts, ObjectOf, dataVars
<1>6. phaseBar' = [phaseBar EXCEPT ![t] = "done"] /\ listenerBar' = listenerBar
  BY <1>4, <1>5, OneMoves, BarFunctions
<1> QED
  BY <1>1, <1>2, <1>5, <1>6 DEF Lifecycle!Complete

\* What every step of a completion callback but its end has in common.
LEMMA FrameStepFacts ==
    ASSUME IInv, UsedHaveCallback, CallbackSteps \/ JavaReturn
    PROVE  /\ frame \in Frames /\ frame.t \in Transfers
           /\ UNCHANGED <<flags, callback, inFlight, callbackObject, call>>
           /\ ~CallbackLeave => /\ native' = native /\ frame'.t = frame.t
                               /\ frame'.libFree = frame.libFree
                               /\ \A u \in Transfers : u # frame.t => Unmoved(u)
<1> USE NullFacts DEF IInv, TypeOK, nativeVars, dataVars, refVars
<1>1. frame # NoFrame
  BY DEF CallbackSteps, EnterCleanupCallback, EnterTransferCallback, CallbackCleanup,
         CallbackReset, CallbackFreeData, CallbackLeave, JavaReturn, NoFrame
<1>2. frame \in Frames /\ frame.t \in Transfers
  BY <1>1 DEF Frames
<1>3. /\ UNCHANGED <<flags, callback, inFlight, callbackObject, call>>
      /\ ~CallbackLeave => /\ native' = native /\ frame'.t = frame.t
                          /\ frame'.libFree = frame.libFree
  BY DEF CallbackSteps, EnterCleanupCallback, EnterTransferCallback, CallbackCleanup,
         CallbackReset, CallbackFreeData, CallbackLeave, JavaReturn, OnlyFrameChanges, FrameSaves,
         FrameGoes
<1>4. ASSUME ~CallbackLeave, NEW u \in Transfers, u # frame.t PROVE Unmoved(u)
  BY <1>3, <1>4 DEF Unmoved, Absent, Unwrapped, Released, FreeCalled, Done
<1> QED
  BY <1>2, <1>3, <1>4

\* The listener is told, or there is none.
LEMMA TellStep ==
    ASSUME IInv, UsedHaveCallback, PhaseFacts, PhaseFacts',
           EnterCleanupCallback \/ EnterTransferCallback
    PROVE  Lifecycle!Tell
<1> USE NullFacts
<1>0. PICK t \in Transfers : t = frame.t
  BY FrameStepFacts DEF CallbackSteps
<1>1. /\ frame \in Frames /\ t = frame.t
      /\ UNCHANGED <<flags, native, callback, inFlight, callbackObject, call>>
      /\ frame'.t = t /\ frame'.libFree = frame.libFree
      /\ \A u \in Transfers : u # t => Unmoved(u)
  BY <1>0, FrameStepFacts
     DEF CallbackSteps, CallbackLeave, EnterCleanupCallback, EnterTransferCallback
<1>2. /\ frame.pc = "enter" /\ flags[t] = frame.libFree /\ ~inFlight[t]
      /\ frame'.pc # "enter" /\ frame'.pc # "idle"
  BY <1>1 DEF EnterCleanupCallback, EnterTransferCallback, IInv, FrameFacts, FrameSaves, AfterJava
<1>3. Done(t) /\ ~Absent(t) /\ ~Released(t)
  BY <1>1, <1>2, PhasesApart DEF Done
<1>4. ~Absent(t)' /\ ~Released(t)' /\ ~inFlight'[t] /\ (Done(t)' <=> frame.libFree)
  BY <1>1, <1>2, <1>3 DEF Done, Absent, Unwrapped, Released, FreeCalled
<1>5. /\ phaseBar[t] = "done" /\ phaseBar'[t] = IF frame.libFree THEN "done" ELSE "idle"
      /\ listenerBar[t] = ObjectOf(callbackObject[t]) /\ listenerBar'[t] = listenerBar[t]
  BY <1>1, <1>3, <1>4 DEF PhaseFacts, ObjectOf
<1>6. /\ phaseBar' = IF frame.libFree THEN phaseBar ELSE [phaseBar EXCEPT ![t] = "idle"]
      /\ listenerBar' = listenerBar
  BY <1>1, <1>5, OneMoves, BarFunctions
<1> DEFINE told == IF listenerBar[t] = NULL THEN "over" ELSE "told"
<1>7. noticeBar.stage = "due" /\ noticeBar.t = t /\ noticeBar.last = frame.libFree
  BY <1>1, <1>2, NoticeKnown
<1>8. noticeBar' = [stage |-> told, t |-> t, to |-> listenerBar[t], last |-> frame.libFree]
  <2>1. CASE EnterCleanupCallback
    <3>1. callbackObject[t] = NULL
      BY <1>1, <2>1 DEF EnterCleanupCallback, IInv, RefFacts, CallbackFits
    <3>2. frame'.jCallback = NULL /\ frame'.pc \in {"cleanup", "leave"}
      BY <2>1 DEF EnterCleanupCallback, FrameSaves, AfterJava
    <3> QED
      BY <1>1, <1>5, <3>1, <3>2, NoticeKnown DEF ObjectOf
  <2>2. CASE EnterTransferCallback
    <3>1. ObjectOf(callbackObject[t]) # NULL
      <4>1. callback[t] = "transferCallback"
        BY <1>1, <2>2 DEF EnterTransferCallback
      <4>2. callbackObject[t] # NULL /\ callbackObject[t].obj \in Listeners
        BY <4>1 DEF IInv, RefFacts, CallbackFits
      <4> QED
        BY <4>2, TransfersAssumption DEF ObjectOf
    <3>2. frame'.jCallback = callbackObject[t] /\ frame'.pc = "java"
      BY <1>1, <2>2 DEF EnterTransferCallback, FrameSaves
    <3> QED
      BY <1>1, <1>5, <3>1, <3>2, NoticeKnown
  <2> QED
    BY <2>1, <2>2
<1>9. noticeBar' = [noticeBar EXCEPT !.stage = told, !.to = listenerBar[t]]
  <2> HIDE DEF told
  <2>1. [noticeBar EXCEPT !.stage = told, !.to = listenerBar[t]]
          = [stage |-> told, t |-> frame.t, to |-> listenerBar[t], last |-> frame.libFree]
    BY NoticeTold
  <2> QED
    BY <1>1, <1>8, <2>1
<1> QED
  BY <1>1, <1>6, <1>7, <1>9 DEF Lifecycle!Tell

\* The listener returns, and the callback cleans up if it has to.
LEMMA CleanupStep ==
    ASSUME IInv, UsedHaveCallback, PhaseFacts, PhaseFacts',
           JavaReturn \/ CallbackCleanup \/ CallbackReset \/ CallbackFreeData
    PROVE  Lifecycle!ListenerReturns \/ LifeStays
<1> USE NullFacts
<1>1. /\ frame \in Frames /\ frame.t \in Transfers
      /\ UNCHANGED <<flags, native, callback, inFlight, callbackObject, call>>
      /\ frame'.t = frame.t /\ frame'.libFree = frame.libFree
      /\ \A u \in Transfers : u # frame.t => Unmoved(u)
  BY FrameStepFacts
     DEF CallbackSteps, CallbackLeave, JavaReturn, CallbackCleanup, CallbackReset,
         CallbackFreeData
<1>2. /\ frame.pc \notin {"idle", "enter"} /\ frame'.pc \notin {"idle", "enter", "java"}
      /\ frame'.jCallback = frame.jCallback
      /\ frame.pc = "java" <=> JavaReturn
  BY DEF JavaReturn, CallbackCleanup, CallbackReset, CallbackFreeData, FrameGoes, AfterJava
<1>3. Unmoved(frame.t)
  BY <1>1, <1>2 DEF Unmoved, Absent, Unwrapped, Released, FreeCalled, Done
<1>4. phaseBar' = phaseBar /\ listenerBar' = listenerBar
  BY <1>1, <1>3, AllStay
<1>5. CASE JavaReturn
  <2>1. noticeBar.stage = "told" /\ noticeBar' = [noticeBar EXCEPT !.stage = "over"]
    BY <1>1, <1>2, <1>5 DEF noticeBar
  <2> QED
    BY <1>1, <1>4, <2>1 DEF Lifecycle!ListenerReturns
<1>6. CASE ~JavaReturn
  <2>1. noticeBar' = noticeBar
    BY <1>1, <1>2, <1>6 DEF noticeBar
  <2> QED
    BY <1>1, <1>4, <2>1 DEF LifeStays
<1> QED
  BY <1>5, <1>6

\* The callback is over, and libusb frees what is to be freed.
LEMMA FinishStep ==
    ASSUME IInv, UsedHaveCallback, PhaseFacts, PhaseFacts', CallbackLeave
    PROVE  Lifecycle!Finish
<1> USE NullFacts
<1>0. PICK t \in Transfers : t = frame.t
  BY FrameStepFacts DEF CallbackSteps
<1>1. /\ frame \in Frames /\ t = frame.t
      /\ UNCHANGED <<flags, callback, inFlight, callbackObject, call>>
      /\ frame.pc = "leave" /\ frame' = NoFrame
  BY <1>0, FrameStepFacts DEF CallbackSteps, CallbackLeave
<1>2. /\ noticeBar.stage = "over" /\ noticeBar.t = t /\ noticeBar.last = frame.libFree
      /\ noticeBar' = Lifecycle!NoNotice
  BY <1>1 DEF noticeBar, NoFrame, Lifecycle!NoNotice, ObjectOf
<1>3. \A u \in Transfers : u # t => Unmoved(u)
  <2>1. \A u \in Transfers : u # t => native'[u] = native[u]
    BY <1>1 DEF CallbackLeave, IInv, TypeOK
  <2> QED
    BY <1>1, <2>1 DEF Unmoved, Absent, Unwrapped, Released, FreeCalled, Done, NoFrame
<1>4. CASE frame.libFree
  <2>1. native'[t] = "autoFreed"
    BY <1>1, <1>4 DEF CallbackLeave, IInv, TypeOK
  <2>2. phaseBar'[t] = "released" /\ listenerBar'[t] = NULL
    BY <1>1, <2>1 DEF PhaseFacts, Released
  <2>3. /\ phaseBar' = [phaseBar EXCEPT ![t] = "released"]
        /\ listenerBar' = [listenerBar EXCEPT ![t] = NULL]
    BY <1>1, <1>3, <2>2, OneMoves
  <2> QED
    BY <1>1, <1>2, <1>4, <2>3 DEF Lifecycle!Finish
<1>5. CASE ~frame.libFree
  <2>1. native' = native
    BY <1>5 DEF CallbackLeave
  <2>2. Unmoved(t)
    <3>1. ~Done(t) /\ ~Done(t)'
      BY <1>1, <1>5 DEF Done, NoFrame
    <3>2. (Absent(t)' <=> Absent(t)) /\ (Released(t)' <=> Released(t))
      BY <1>1, <2>1 DEF Absent, Unwrapped, Released, FreeCalled
    <3> QED
      BY <1>1, <3>1, <3>2 DEF Unmoved
  <2>3. phaseBar' = phaseBar /\ listenerBar' = listenerBar
    BY <1>3, <2>2, AllStay
  <2> QED
    BY <1>1, <1>2, <1>5, <2>3 DEF Lifecycle!Finish
<1> QED
  BY <1>4, <1>5

-----------------------------------------------------------------------------
LEMMA LifecycleInit == Init => Lifecycle!Init
<1> SUFFICES ASSUME Init PROVE Lifecycle!Init
  OBVIOUS
<1>1. IInv /\ UsedHaveCallback
  BY InitIInv, InitUsed
<1>2. \A t \in Transfers : phaseBar[t] = "absent" /\ listenerBar[t] = NULL
  <2>1. \A t \in Transfers : Absent(t) /\ ~Released(t)
    BY <1>1, PhasesApart DEF Init, Absent
  <2> QED
    BY <1>1, <2>1, PhasesKnown DEF Init, PhaseFacts, ObjectOf
<1>3. noticeBar = Lifecycle!NoNotice
  BY NoticeKnown DEF Init, NoFrame, Lifecycle!NoNotice, ObjectOf
<1> QED
  BY <1>2, <1>3, BarFunctions DEF Init, Lifecycle!Init

LEMMA LifecycleStep ==
    IInv /\ UsedHaveCallback /\ PhaseFacts /\ PhaseFacts' /\ [Next]_vars
      => [Lifecycle!Next]_(Lifecycle!vars)
<1> SUFFICES ASSUME IInv, UsedHaveCallback, PhaseFacts, PhaseFacts', [Next]_vars
             PROVE  Lifecycle!Next \/ LifeStays
  BY DEF LifeStays, Lifecycle!vars
<1>1. ASSUME NEW c \in Callers, NEW t \in Transfers, ClientCalls(c, t)
      PROVE  Lifecycle!Next \/ LifeStays
  <2>1. CASE SubmitTransfer(c, t) \/ CancelTransfer(c, t) \/ FreeTransfer(c, t)
    BY <2>1, BeginStep DEF Lifecycle!Next
  <2>2. CASE ~(SubmitTransfer(c, t) \/ CancelTransfer(c, t) \/ FreeTransfer(c, t))
    <3>1. PICK object \in Listeners \cup {NULL} :
            \/ AllocTransfer(c, t) \/ AllocTransferUnwrapped(c, t) \/ SetFlags(c, t)
            \/ SetCallback(c, t, object) \/ SetUserData(c, t, object)
      BY <1>1, <2>2 DEF ClientCalls
    <3> QED
      BY <3>1, ConfigurationStep DEF Lifecycle!Next
  <2> QED
    BY <2>1, <2>2
<1>2. ASSUME NEW c \in Callers, NEW t \in Transfers, CallSteps(c, t)
      PROVE  Lifecycle!Next \/ LifeStays
  BY <1>2, CallStep DEF Lifecycle!Next
<1>3. ASSUME NEW t \in Transfers, Complete(t) PROVE Lifecycle!Next
  BY <1>3, CompleteStep DEF Lifecycle!Next
<1>4. ASSUME CallbackSteps \/ JavaReturn PROVE Lifecycle!Next \/ LifeStays
  BY <1>4, TellStep, CleanupStep, FinishStep DEF CallbackSteps, Lifecycle!Next
<1>5. CASE UNCHANGED vars
  BY <1>5 DEF vars, nativeVars, dataVars, refVars, LifeStays, phaseBar, listenerBar, noticeBar,
              Unwrapped
<1> QED
  BY <1>1, <1>2, <1>3, <1>4, <1>5 DEF Next

\* Every completion is told once, to the listener in force when it is delivered,
\* and nothing is told of a transfer that was released: the safety part of
\* ImplementsLifecycle, whatever callbacks do to the transfers they are told of.
THEOREM LifecycleKept == Spec => Lifecycle!Spec
BY LifecycleInit, UsedHaveCallbackInvariance, PhasesKnown, LifecycleStep, PTL
   DEF Spec, Lifecycle!Spec

-----------------------------------------------------------------------------
(***************************************************************************)
(* What follows for the clients of the life cycle: released is final.      *)
(***************************************************************************)

ReleasedIsFinal ==
    \A t \in Transfers : phaseBar[t] = "released" =>
        /\ phaseBar'[t] = "released"
        /\ ~inFlight'[t]
        /\ frame'.pc = "enter" => frame'.t # t

LEMMA ReleasedStays ==
    IInv /\ PhaseFacts /\ PhaseFacts' /\ [Lifecycle!Next]_(Lifecycle!vars) => ReleasedIsFinal
<1> SUFFICES ASSUME IInv, PhaseFacts, PhaseFacts', [Lifecycle!Next]_(Lifecycle!vars),
                    NEW t \in Transfers, phaseBar[t] = "released"
             PROVE  phaseBar'[t] = "released"
  BY DEF ReleasedIsFinal, PhaseFacts, Done
<1>1. noticeBar.stage = "due" => noticeBar.t \in Transfers /\ phaseBar[noticeBar.t] = "done"
  <2>1. frame.pc = "enter" => frame.t \in Transfers
    BY DEF IInv, TypeOK, Frames, NoFrame
  <2> QED
    BY <2>1, NoticeKnown DEF PhaseFacts, Done
<1>2. noticeBar.stage = "over" /\ noticeBar.last =>
        noticeBar.t \in Transfers /\ phaseBar[noticeBar.t] = "done"
  <2>1. frame.libFree => frame.t \in Transfers
    BY DEF IInv, TypeOK, Frames, NoFrame
  <2> QED
    BY <2>1, NoticeKnown DEF PhaseFacts, Done
<1>3. phaseBar = [x \in Transfers |-> phaseBar[x]]
  BY BarFunctions
<1> HIDE DEF PhaseFacts
<1>4. ASSUME NEW x \in Transfers,
             \/ Lifecycle!Allocate(x) \/ Lifecycle!SetAutoFree(x) \/ Lifecycle!Submit(x)
             \/ Lifecycle!Release(x) \/ Lifecycle!Complete(x)
             \/ \E l \in Listeners \cup {NULL} : Lifecycle!Register(x, l)
      PROVE  phaseBar'[t] = "released"
  BY <1>3, <1>4
     DEF Lifecycle!Allocate, Lifecycle!SetAutoFree, Lifecycle!Submit, Lifecycle!Release,
         Lifecycle!Complete, Lifecycle!Register
<1>5. CASE Lifecycle!Tell
  BY <1>1, <1>3, <1>5 DEF Lifecycle!Tell
<1>6. CASE Lifecycle!ListenerReturns
  BY <1>6 DEF Lifecycle!ListenerReturns
<1>7. CASE Lifecycle!Finish
  BY <1>2, <1>3, <1>7 DEF Lifecycle!Finish
<1>8. CASE UNCHANGED Lifecycle!vars
  BY <1>8 DEF Lifecycle!vars
<1> QED
  BY <1>4, <1>5, <1>6, <1>7, <1>8 DEF Lifecycle!Next

\* Once its owner has called freeTransfer, or libusb has freed it, a transfer is never
\* submitted, completed or told of again, whatever calls and completions are under way.
THEOREM ReleasedForGood == Spec => [][ReleasedIsFinal]_vars
<1>1. IInv /\ UsedHaveCallback /\ PhaseFacts /\ PhaseFacts' /\ [Next]_vars
        => [ReleasedIsFinal]_vars
  BY LifecycleStep, ReleasedStays
<1> QED
  BY <1>1, UsedHaveCallbackInvariance, PhasesKnown, PTL DEF Spec

-----------------------------------------------------------------------------
(***************************************************************************)
(* What TransferFields takes from Transfers: the reference it calls pinned,*)
(* and when an owner or a listener may touch a transfer.                   *)
(***************************************************************************)

\* The transfer_data is gone only with the transfer, or in the call that frees it.
DataKept ==
    \A t \in Transfers :
        native[t] = "live" /\ ~FreeCalled(t) /\ ~(AutoFreeing(t) /\ frame.pc = "leave")
            => userData[t] = "live"

LEMMA DataKeptStep == IInv /\ DataKept /\ [Next]_vars => DataKept'
<1> SUFFICES ASSUME IInv, DataKept, [Next]_vars, NEW t \in Transfers,
                    native'[t] = "live", ~FreeCalled(t)',
                    ~(AutoFreeing(t) /\ frame.pc = "leave")'
             PROVE  userData'[t] = "live"
  BY DEF DataKept
<1> USE DEF nativeVars, dataVars, refVars
<1>t. TypeOK /\ FrameFacts /\ CallsApart
  BY DEF IInv
<1>c. call \in [Callers -> {Ready} \cup [pc : CallPcs, t : Transfers]]
  BY <1>t DEF TypeOK
<1>f. \/ frame = NoFrame
      \/ frame.t \in Transfers /\ frame.pc \in FramePcs
  BY <1>t DEF TypeOK, Frames
<1>1. CASE /\ UNCHANGED userData /\ native[t] = native'[t]
           /\ ~FreeCalled(t) /\ ~(AutoFreeing(t) /\ frame.pc = "leave")
  BY <1>1 DEF DataKept
<1>2. ASSUME NEW c \in Callers, NEW u \in Transfers, ClientCalls(c, u)
      PROVE  userData'[t] = "live"
  <2>1. CASE AllocTransfer(c, u) \/ AllocTransferUnwrapped(c, u)
    <3>1. CASE u = t
      BY <2>1, <3>1, <1>t DEF AllocTransfer, AllocTransferUnwrapped, TypeOK
    <3>2. CASE u # t
      BY <2>1, <3>2, <1>1, <1>t
         DEF AllocTransfer, AllocTransferUnwrapped, TypeOK, DataKept, FreeCalled, AutoFreeing
    <3> QED
      BY <3>1, <3>2
  <2>2. CASE SubmitTransfer(c, u) \/ CancelTransfer(c, u) \/ FreeTransfer(c, u)
    <3>1. /\ UNCHANGED <<native, userData, frame>> /\ call[c].pc = "ready"
          /\ \E pc : call' = [call EXCEPT ![c] = [pc |-> pc, t |-> u]]
      BY <2>2 DEF SubmitTransfer, CancelTransfer, FreeTransfer, MayRelease, MayUse, MayCancel,
                  MayCall, Begin
    <3>2. FreeCalled(t) => FreeCalled(t)'
      BY <3>1, <1>c DEF FreeCalled, FreePcs
    <3> QED
      BY <3>1, <3>2, <1>1 DEF AutoFreeing
  <2>3. CASE UNCHANGED <<native, userData, call, frame>>
    BY <2>3, <1>1 DEF FreeCalled, AutoFreeing
  <2> QED
    BY <1>2, <2>1, <2>2, <2>3 DEF ClientCalls, SetFlags, SetCallback, SetUserData
<1>3. ASSUME NEW c \in Callers, NEW u \in Transfers, CallSteps(c, u)
      PROVE  userData'[t] = "live"
  <2>1. CASE LibusbSubmit(c, u) \/ LibusbCancel(c, u)
    <3>1. /\ UNCHANGED <<native, userData, frame>> /\ call[c].pc \in {"submit", "cancel"}
          /\ call' = [call EXCEPT ![c] = Ready]
      BY <2>1 DEF LibusbSubmit, LibusbCancel, At, Return
    <3>2. FreeCalled(t) => FreeCalled(t)'
      BY <3>1, <1>c DEF FreeCalled, FreePcs
    <3> QED
      BY <3>1, <3>2, <1>1 DEF AutoFreeing
  <2>2. CASE FreeRefs(c, u) \/ FreeReset(c, u) \/ FreeData(c, u)
    <3>1. /\ UNCHANGED <<native, frame>> /\ call[c].t = u
          /\ userData' = userData \/ userData' = [userData EXCEPT ![u] = "freed"]
          /\ \E pc \in FreePcs : call' = [call EXCEPT ![c] = [pc |-> pc, t |-> u]]
      BY <2>2 DEF FreeRefs, FreeReset, FreeData, At, Begin, FreePcs
    <3>2. FreeCalled(u)' /\ (FreeCalled(t) => FreeCalled(t)')
      BY <3>1, <1>c DEF FreeCalled
    <3> QED
      BY <3>1, <3>2, <1>t DEF DataKept, AutoFreeing, TypeOK
  <2>3. CASE FreeNative(c, u)
    <3>1. /\ native' = [native EXCEPT ![u] = "freed"] /\ UNCHANGED <<userData, frame>>
          /\ call[c].t = u /\ call' = [call EXCEPT ![c] = Ready]
      BY <2>3 DEF FreeNative, At, Return
    <3>2. u # t
      BY <3>1, <1>t DEF TypeOK
    <3>3. FreeCalled(t) => FreeCalled(t)'
      BY <3>1, <3>2, <1>c DEF FreeCalled
    <3> QED
      BY <3>1, <3>2, <3>3, <1>t DEF DataKept, AutoFreeing, TypeOK
  <2> QED
    BY <1>3, <2>1, <2>2, <2>3 DEF CallSteps
<1>4. ASSUME NEW u \in Transfers, Complete(u) PROVE userData'[t] = "live"
  BY <1>1, <1>4 DEF Complete, FreeCalled, AutoFreeing
<1>5. CASE \/ EnterCleanupCallback \/ EnterTransferCallback \/ CallbackCleanup
           \/ CallbackReset \/ JavaReturn
  <2>1. UNCHANGED <<native, userData, call>> /\ frame.pc # "leave"
    BY <1>5 DEF EnterCleanupCallback, EnterTransferCallback, CallbackCleanup, CallbackReset,
                JavaReturn, OnlyFrameChanges
  <2> QED
    BY <2>1, <1>1 DEF FreeCalled
<1>6. CASE CallbackFreeData
  <2>1. /\ frame.pc = "freeData" /\ frame'.pc = "leave" /\ frame'.t = frame.t
        /\ frame'.libFree = frame.libFree /\ UNCHANGED <<native, call>>
        /\ userData' = [userData EXCEPT ![frame.t] = "freed"]
    BY <1>6 DEF CallbackFreeData, FrameGoes
  <2>2. frame.libFree
    BY <2>1, <1>t DEF FrameFacts
  <2>3. frame.t # t
    BY <2>1, <2>2 DEF AutoFreeing
  <2> QED
    BY <2>1, <2>3, <1>t DEF DataKept, FreeCalled, AutoFreeing, TypeOK
<1>7. CASE CallbackLeave
  <2>1. /\ UNCHANGED <<userData, call>>
        /\ \/ frame.libFree /\ native' = [native EXCEPT ![frame.t] = "autoFreed"]
           \/ ~frame.libFree /\ UNCHANGED native
    BY <1>7 DEF CallbackLeave
  <2>2. ~AutoFreeing(t) /\ native[t] = native'[t]
    BY <2>1, <1>t DEF AutoFreeing, TypeOK
  <2> QED
    BY <2>1, <2>2, <1>1 DEF FreeCalled
<1>8. CASE UNCHANGED vars
  BY <1>1, <1>8 DEF vars, FreeCalled, AutoFreeing
<1> QED
  BY <1>2, <1>3, <1>4, <1>5, <1>6, <1>7, <1>8 DEF Next, CallbackSteps

LEMMA DataKeptInvariance == Spec => []DataKept
<1>1. Init => DataKept
  BY DEF Init, DataKept
<1> QED
  BY <1>1, DataKeptStep, UsedHaveCallbackInvariance, PTL DEF Spec

\* From allocTransfer until it is released, or until the callback that frees it is over.
Pinned(t) ==
    \/ phaseBar[t] \in {"idle", "flying"}
    \/ phaseBar[t] = "done" /\ noticeBar.stage # "over"

PinsHold ==
    \A t \in Transfers : Pinned(t) => transferObject[t] \in liveRefs /\ transferObject[t].obj = t

\* In all that time transferObject is a live global reference to the Transfer, through
\* every setCallback that replaces it: what TransferFields means by pinned, and why the
\* collector cannot take a Transfer, nor the buffer it names, from under libusb.
THEOREM TransfersPinned == Spec => []PinsHold
<1>1. IInv /\ UsedHaveCallback /\ PhaseFacts /\ DataKept => PinsHold
  <2> SUFFICES ASSUME IInv, UsedHaveCallback, PhaseFacts, DataKept,
                      NEW t \in Transfers, Pinned(t)
               PROVE  transferObject[t] \in liveRefs /\ transferObject[t].obj = t
    BY DEF PinsHold
  <2>1. ~Absent(t) /\ ~Released(t)
    BY DEF Pinned, PhaseFacts
  <2>2. native[t] = "live" /\ callback[t] # NULL /\ ~FreeCalled(t)
    BY <2>1 DEF Absent, Released, Unwrapped, IInv, TypeOK
  <2>3. AutoFreeing(t) => frame.pc \in {"enter", "java"}
    <3>1. AutoFreeing(t) => frame.pc # "idle" /\ phaseBar[t] = "done"
      BY DEF AutoFreeing, PhaseFacts, Done, IInv, TypeOK, NoFrame, Frames, FramePcs
    <3> QED
      BY <3>1, NoticeKnown DEF Pinned, IInv, TypeOK, Frames, FramePcs
  <2>4. userData[t] = "live" /\ ~RefsDropped(t)
    BY <2>2, <2>3 DEF DataKept, RefsDropped, At, FreeCalled, FreePcs
  <2> QED
    BY <2>2, <2>4 DEF IInv, RefFacts, FieldRefsLive, CallbackFits, HeldRefs
<1> QED
  BY <1>1, UsedHaveCallbackInvariance, PhasesKnown, DataKeptInvariance, PTL

UsesAllowed ==
    \A c \in Callers, t \in Transfers :
        /\ MayUse(c, t) => phaseBar[t] = "idle" \/ Lifecycle!Telling(t)
        /\ MayRelease(c, t) => phaseBar[t] = "idle"

\* Whoever libusb and the pointer in the Java object let use a transfer is its owner or
\* the listener being told of it, as MayTouch of TransferFields has it; to submit or to
\* free it, only its owner.
THEOREM UsesAsLifecycleSays == Spec => []UsesAllowed
<1>1. IInv /\ UsedHaveCallback /\ PhaseFacts => UsesAllowed
  <2> SUFFICES ASSUME IInv, UsedHaveCallback, PhaseFacts,
                      NEW c \in Callers, NEW t \in Transfers, MayUse(c, t)
               PROVE  /\ phaseBar[t] = "idle" \/ Lifecycle!Telling(t)
                      /\ ~AutoFreeing(t) => phaseBar[t] = "idle"
    BY DEF UsesAllowed, MayRelease
  <2>1. /\ NoCallOn(t) /\ transferPointer[t] /\ native[t] # "autoFreed" /\ ~inFlight[t]
        /\ frame.t = t => \/ frame.pc = "java"
                          \/ frame.pc = "leave" /\ ~frame.libFree
    BY DEF MayUse
  <2>2. native[t] = "live"
    BY <2>1 DEF IInv, PointerNamesLive, Retiring, AutoFreeing
  <2>3. ~Absent(t) /\ ~Released(t)
    BY <2>1, <2>2 DEF Absent, Unwrapped, Released, FreeCalled, NoCallOn, IInv, NativeFacts
  <2>4. CASE Done(t)
    <3>1. frame.t = t /\ frame.pc = "java" /\ frame.libFree
      BY <2>1, <2>4 DEF Done
    <3> QED
      BY <2>4, <3>1, NoticeKnown DEF PhaseFacts, AutoFreeing, Lifecycle!Telling
  <2>5. CASE ~Done(t)
    BY <2>1, <2>3, <2>5 DEF PhaseFacts
  <2> QED
    BY <2>4, <2>5
<1> QED
  BY <1>1, UsedHaveCallbackInvariance, PhasesKnown, PTL
================================================================================
