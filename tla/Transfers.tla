------------------------------ MODULE Transfers ------------------------------
(***************************************************************************)
(* The life of asynchronous transfers: org.usb4java.Transfer objects, the  *)
(* libusb_transfer and the struct transfer_data behind each, and the JNI   *)
(* global references that keep Java objects alive while native code holds  *)
(* them (src/src/Transfer.c and the transfer functions of LibUsb.c).       *)
(*                                                                         *)
(* Application threads and one event-handling thread share the transfers.  *)
(* The C code takes no lock: a call that reads a pointer and then uses it  *)
(* is two steps here.  Clients keep libusb's rules for sharing a transfer  *)
(* (MayUse, MayRelease, MayCancel); everything else may interleave.        *)
(***************************************************************************)
EXTENDS Naturals

CONSTANTS
    Transfers,            \* one identifier per allocation, with its Java object
    AppThreads,           \* application threads outside callbacks
    EventThread,          \* the thread that holds libusb's event lock
    Listeners,            \* TransferCallback and user-data objects
    FlagValues,           \* LIBUSB_TRANSFER_FREE_TRANSFER as setFlags may set it
    RebindInFreeCallback, \* may a callback rebind an auto-freed transfer?
    MaxRefs,              \* bound: global references created in a behaviour
    NULL

ASSUME TransfersAssumption ==
    /\ EventThread \notin AppThreads
    /\ FlagValues \subseteq BOOLEAN
    /\ RebindInFreeCallback \in BOOLEAN
    /\ MaxRefs \in Nat
    /\ NULL \notin Transfers \cup Listeners \cup {"cleanupCallback", "transferCallback"}

VARIABLES
    transferPointer,        \* Java: is the transferPointer field of t set?
    native,                 \* the libusb_transfer: none, live, freed, autoFreed
    flags,                  \* transfer->flags & LIBUSB_TRANSFER_FREE_TRANSFER
    callback,               \* transfer->callback
    inFlight,               \* submitted and not yet completed by libusb
    userData,               \* the memory of struct transfer_data
    transferObject,         \* its three global references
    callbackObject,
    callbackUserDataObject,
    liveRefs,               \* global references created and not deleted
    nextRef,                \* name of the next global reference
    call,                   \* per caller: the native method it is inside of
    frame                   \* the completion callback being run, if any

nativeVars == <<native, flags, callback, inFlight>>
dataVars == <<userData, transferObject, callbackObject, callbackUserDataObject>>
refVars == <<liveRefs, nextRef>>
vars == <<transferPointer, nativeVars, dataVars, refVars, call, frame>>

Callers == AppThreads \cup {EventThread}
Objects == Transfers \cup Listeners

Ref(id, object) == [id |-> id, obj |-> object]
RefSet == [id : Nat, obj : Objects]

ASSUME NullIsNoRef == NULL \notin RefSet

Ready == [pc |-> "ready", t |-> NULL]
NoFrame == [pc |-> "idle", t |-> NULL, libFree |-> FALSE, free |-> FALSE,
            jTransfer |-> NULL, jCallback |-> NULL]

FreePcs == {"freeRefs", "freeReset", "freeData", "freeNative"}
CallPcs == FreePcs \cup {"submit", "cancel"}
FramePcs == {"enter", "java", "cleanup", "reset", "freeData", "leave"}
Frames == [pc : FramePcs, t : Transfers, libFree : BOOLEAN, free : BOOLEAN,
           jTransfer : RefSet \cup {NULL}, jCallback : RefSet \cup {NULL}]

TypeOK ==
    /\ transferPointer \in [Transfers -> BOOLEAN]
    /\ native \in [Transfers -> {"none", "live", "freed", "autoFreed"}]
    /\ flags \in [Transfers -> BOOLEAN]
    /\ callback \in [Transfers -> {NULL, "cleanupCallback", "transferCallback"}]
    /\ inFlight \in [Transfers -> BOOLEAN]
    /\ userData \in [Transfers -> {"none", "live", "freed"}]
    /\ transferObject \in [Transfers -> RefSet \cup {NULL}]
    /\ callbackObject \in [Transfers -> RefSet \cup {NULL}]
    /\ callbackUserDataObject \in [Transfers -> RefSet \cup {NULL}]
    /\ liveRefs \subseteq RefSet
    /\ nextRef \in Nat
    /\ call \in [Callers -> {Ready} \cup [pc : CallPcs, t : Transfers]]
    /\ frame \in Frames \cup {NoFrame}

Init ==
    /\ transferPointer = [t \in Transfers |-> FALSE]
    /\ native = [t \in Transfers |-> "none"]
    /\ flags = [t \in Transfers |-> FALSE]
    /\ callback = [t \in Transfers |-> NULL]
    /\ inFlight = [t \in Transfers |-> FALSE]
    /\ userData = [t \in Transfers |-> "none"]
    /\ transferObject = [t \in Transfers |-> NULL]
    /\ callbackObject = [t \in Transfers |-> NULL]
    /\ callbackUserDataObject = [t \in Transfers |-> NULL]
    /\ liveRefs = {}
    /\ nextRef = 0
    /\ call = [c \in Callers |-> Ready]
    /\ frame = NoFrame

-----------------------------------------------------------------------------
(***************************************************************************)
(* What a client may do.  libusb leaves a transfer to its owner except     *)
(* while it is in flight, and takes it back for good when it completes     *)
(* with LIBUSB_TRANSFER_FREE_TRANSFER set.  The body of a completion       *)
(* callback runs on EventThread, with frame.pc = "java".                   *)
(***************************************************************************)
MayCall(c) == call[c].pc = "ready" /\ (c = EventThread => frame.pc = "java")

NoCallOn(t) == \A c \in Callers : call[c].t # t

AutoFreeing(t) == frame.t = t /\ frame.libFree

\* The code has let go of t although its Java object may still name it.
Retiring(t) ==
    native[t] = "autoFreed" \/ (AutoFreeing(t) /\ frame.pc \in {"freeData", "leave"})

\* unwrapTransfer succeeds, and c is the one that may touch t.
MayUse(c, t) ==
    /\ MayCall(c) /\ NoCallOn(t)
    /\ transferPointer[t] /\ native[t] # "autoFreed" /\ ~inFlight[t]
    /\ frame.t = t => \/ frame.pc = "java" /\ (frame.libFree => c = EventThread)
                      \/ frame.pc = "leave" /\ ~frame.libFree

MayRelease(c, t) == MayUse(c, t) /\ ~AutoFreeing(t)

\* Cancelling may race with the completion, unless that frees the transfer.
MayCancel(c, t) ==
    /\ MayCall(c) /\ NoCallOn(t)
    /\ transferPointer[t] /\ native[t] # "autoFreed" /\ ~flags[t] /\ ~AutoFreeing(t)

Begin(c, pc, t) == call' = [call EXCEPT ![c] = [pc |-> pc, t |-> t]]
At(c, pc, t) == call[c].pc = pc /\ call[c].t = t
Return(c) == call' = [call EXCEPT ![c] = Ready]

-----------------------------------------------------------------------------
(***************************************************************************)
(* Configuration of an idle transfer.                                      *)
(***************************************************************************)

\* Mutant: callbackObject keeps the reference deleted.
CleanupCallbackKeepsObject(t, deleted) ==
    /\ transferObject' = [transferObject EXCEPT ![t] = Ref(nextRef, t)]
    /\ callback' = [callback EXCEPT ![t] = "cleanupCallback"]
    /\ UNCHANGED callbackObject
    /\ liveRefs' = (liveRefs \ deleted) \cup {Ref(nextRef, t)}
    /\ nextRef' = nextRef + 1

\* Mutant: transfer->callback keeps pointing to transferCallback.
CleanupCallbackKeepsFunction(t, deleted) ==
    /\ transferObject' = [transferObject EXCEPT ![t] = Ref(nextRef, t)]
    /\ UNCHANGED callback
    /\ callbackObject' = [callbackObject EXCEPT ![t] = NULL]
    /\ liveRefs' = (liveRefs \ deleted) \cup {Ref(nextRef, t)}
    /\ nextRef' = nextRef + 1

\* cleanupCallbackEnable, where deleted are references dropped just before it.
CleanupCallbackEnable(t, deleted) ==
    /\ transferObject' = [transferObject EXCEPT ![t] = Ref(nextRef, t)]
    /\ callback' = [callback EXCEPT ![t] = "cleanupCallback"]
    /\ callbackObject' = [callbackObject EXCEPT ![t] = NULL]
    /\ liveRefs' = (liveRefs \ deleted) \cup {Ref(nextRef, t)}
    /\ nextRef' = nextRef + 1

\* A failed libusb_alloc_transfer or calloc leaves nothing behind: no step.
AllocTransfer(c, t) ==
    /\ MayCall(c)
    /\ native[t] = "none"
    /\ nextRef < MaxRefs
    /\ native' = [native EXCEPT ![t] = "live"]
    /\ userData' = [userData EXCEPT ![t] = "live"]
    /\ transferPointer' = [transferPointer EXCEPT ![t] = TRUE]
    /\ CleanupCallbackEnable(t, {})
    /\ UNCHANGED <<flags, inFlight, callbackUserDataObject, call, frame>>

\* wrapTransfer returns NULL: the caller gets no object for what was allocated.
AllocTransferUnwrapped(c, t) ==
    /\ MayCall(c)
    /\ native[t] = "none"
    /\ native' = [native EXCEPT ![t] = "live"]
    /\ userData' = [userData EXCEPT ![t] = "live"]
    /\ UNCHANGED <<transferPointer, flags, callback, inFlight, transferObject,
                   callbackObject, callbackUserDataObject, refVars, call, frame>>

SetFlags(c, t) ==
    /\ MayUse(c, t)
    /\ \E free \in FlagValues : flags' = [flags EXCEPT ![t] = free]
    /\ UNCHANGED <<transferPointer, native, callback, inFlight, dataVars, refVars,
                   call, frame>>

SetCallback(c, t, listener) ==
    LET old == {transferObject[t], callbackObject[t]} IN
    /\ MayUse(c, t)
    /\ AutoFreeing(t) => RebindInFreeCallback
    /\ \/ /\ listener = NULL /\ nextRef < MaxRefs
          /\ CleanupCallbackEnable(t, old)
       \/ /\ listener # NULL /\ nextRef + 1 < MaxRefs
          /\ transferObject' = [transferObject EXCEPT ![t] = Ref(nextRef, t)]
          /\ callback' = [callback EXCEPT ![t] = "transferCallback"]
          /\ callbackObject' =
               [callbackObject EXCEPT ![t] = Ref(nextRef + 1, listener)]
          /\ liveRefs' = (liveRefs \ old)
               \cup {Ref(nextRef, t), Ref(nextRef + 1, listener)}
          /\ nextRef' = nextRef + 2
    /\ UNCHANGED <<transferPointer, native, flags, inFlight, userData,
                   callbackUserDataObject, call, frame>>

SetUserData(c, t, object) ==
    /\ MayUse(c, t)
    /\ \/ /\ object = NULL
          /\ callbackUserDataObject' = [callbackUserDataObject EXCEPT ![t] = NULL]
          /\ liveRefs' = liveRefs \ {callbackUserDataObject[t]}
          /\ UNCHANGED nextRef
       \/ /\ object # NULL /\ nextRef < MaxRefs
          /\ callbackUserDataObject' =
               [callbackUserDataObject EXCEPT ![t] = Ref(nextRef, object)]
          /\ liveRefs' = (liveRefs \ {callbackUserDataObject[t]})
               \cup {Ref(nextRef, object)}
          /\ nextRef' = nextRef + 1
    /\ UNCHANGED <<transferPointer, nativeVars, userData, transferObject,
                   callbackObject, call, frame>>

-----------------------------------------------------------------------------
(***************************************************************************)
(* submitTransfer and cancelTransfer: unwrap the pointer, then hand it to  *)
(* libusb.                                                                 *)
(***************************************************************************)
SubmitTransfer(c, t) ==
    /\ MayRelease(c, t)
    /\ Begin(c, "submit", t)
    /\ UNCHANGED <<transferPointer, nativeVars, dataVars, refVars, frame>>

\* libusb_submit_transfer takes the transfer or returns an error.
LibusbSubmit(c, t) ==
    /\ At(c, "submit", t)
    /\ \E accepted \in BOOLEAN : inFlight' = [inFlight EXCEPT ![t] = accepted]
    /\ Return(c)
    /\ UNCHANGED <<transferPointer, native, flags, callback, dataVars, refVars, frame>>

CancelTransfer(c, t) ==
    /\ MayCancel(c, t)
    /\ Begin(c, "cancel", t)
    /\ UNCHANGED <<transferPointer, nativeVars, dataVars, refVars, frame>>

\* libusb_cancel_transfer only asks for a completion, which Complete delivers.
LibusbCancel(c, t) ==
    /\ At(c, "cancel", t)
    /\ Return(c)
    /\ UNCHANGED <<transferPointer, nativeVars, dataVars, refVars, frame>>

-----------------------------------------------------------------------------
(***************************************************************************)
(* freeTransfer.                                                           *)
(***************************************************************************)

\* Mutant: the user data is forgotten.
HeldRefsOfCallback(t) == {callbackObject[t], transferObject[t]}

\* What cleanupGlobalReferences deletes; it leaves the three fields as they are.
HeldRefs(t) == {callbackObject[t], callbackUserDataObject[t], transferObject[t]}

FreeTransfer(c, t) ==
    /\ MayRelease(c, t)
    /\ Begin(c, "freeRefs", t)
    /\ UNCHANGED <<transferPointer, nativeVars, dataVars, refVars, frame>>

FreeRefs(c, t) ==
    /\ At(c, "freeRefs", t)
    /\ liveRefs' = liveRefs \ HeldRefs(t)
    /\ Begin(c, "freeReset", t)
    /\ UNCHANGED <<transferPointer, nativeVars, dataVars, nextRef, frame>>

\* Mutant: freeTransfer without resetTransfer.
FreeResetOmitted(c, t) ==
    /\ At(c, "freeReset", t)
    /\ Begin(c, "freeData", t)
    /\ UNCHANGED <<transferPointer, nativeVars, dataVars, refVars, frame>>

FreeReset(c, t) ==
    /\ At(c, "freeReset", t)
    /\ transferPointer' = [transferPointer EXCEPT ![t] = FALSE]
    /\ Begin(c, "freeData", t)
    /\ UNCHANGED <<nativeVars, dataVars, refVars, frame>>

\* Mutant: freeTransfer without libusb_free_transfer.
FreeDataLast(c, t) ==
    /\ At(c, "freeData", t)
    /\ userData' = [userData EXCEPT ![t] = "freed"]
    /\ Return(c)
    /\ UNCHANGED <<transferPointer, nativeVars, transferObject, callbackObject,
                   callbackUserDataObject, refVars, frame>>

FreeData(c, t) ==
    /\ At(c, "freeData", t)
    /\ userData' = [userData EXCEPT ![t] = "freed"]
    /\ Begin(c, "freeNative", t)
    /\ UNCHANGED <<transferPointer, nativeVars, transferObject, callbackObject,
                   callbackUserDataObject, refVars, frame>>

FreeNative(c, t) ==
    /\ At(c, "freeNative", t)
    /\ native' = [native EXCEPT ![t] = "freed"]
    /\ Return(c)
    /\ UNCHANGED <<transferPointer, flags, callback, inFlight, dataVars, refVars, frame>>

-----------------------------------------------------------------------------
(***************************************************************************)
(* Completion, on the event thread.  libusb reads the flags before it runs *)
(* the callback and frees the transfer after it (external); cleanupCallback*)
(* and transferCallback lie in between.                                    *)
(***************************************************************************)
Complete(t) ==
    /\ frame.pc = "idle"
    /\ inFlight[t]
    /\ inFlight' = [inFlight EXCEPT ![t] = FALSE]
    /\ frame' = [pc |-> "enter", t |-> t, libFree |-> flags[t], free |-> FALSE,
                  jTransfer |-> NULL, jCallback |-> NULL]
    /\ UNCHANGED <<transferPointer, native, flags, callback, dataVars, refVars, call>>

\* Mutant: a local reference is saved in place of transferObject.
FrameSavesObject(pc, jCallback) ==
    frame' = [pc |-> pc, t |-> frame.t, libFree |-> frame.libFree,
              free |-> flags[frame.t], jTransfer |-> frame.t, jCallback |-> jCallback]

\* The flags and references the callback saves in its local variables.
FrameSaves(pc, jCallback) ==
    frame' = [pc |-> pc, t |-> frame.t, libFree |-> frame.libFree,
              free |-> flags[frame.t], jTransfer |-> transferObject[frame.t],
              jCallback |-> jCallback]

FrameGoes(pc) ==
    frame' = [pc |-> pc, t |-> frame.t, libFree |-> frame.libFree, free |-> frame.free,
              jTransfer |-> frame.jTransfer, jCallback |-> frame.jCallback]

OnlyFrameChanges == UNCHANGED <<transferPointer, nativeVars, dataVars, refVars, call>>

\* Mutant: the flag is never looked at.
AfterJavaLeave(free) == "leave"

\* Where the callback goes on, given the flags it read, without Java code to run.
AfterJava(free) == IF free THEN "cleanup" ELSE "leave"

EnterCleanupCallback ==
    /\ frame.pc = "enter" /\ callback[frame.t] = "cleanupCallback"
    /\ FrameSaves(AfterJava(flags[frame.t]), NULL)
    /\ OnlyFrameChanges

\* Mutant: the references are cleaned up before Java is called.
EnterTransferCallbackCleaned ==
    /\ frame.pc = "enter" /\ callback[frame.t] = "transferCallback"
    /\ FrameSaves("java", callbackObject[frame.t])
    /\ liveRefs' = liveRefs \ HeldRefs(frame.t)
    /\ UNCHANGED <<transferPointer, nativeVars, dataVars, nextRef, call>>

\* Mutant: callbackObject is never read.
EnterTransferCallbackUnsaved ==
    /\ frame.pc = "enter" /\ callback[frame.t] = "transferCallback"
    /\ FrameSaves("java", NULL)
    /\ OnlyFrameChanges

\* CallVoidMethod enters processTransfer; its body is the calls of EventThread.
EnterTransferCallback ==
    /\ frame.pc = "enter" /\ callback[frame.t] = "transferCallback"
    /\ FrameSaves("java", callbackObject[frame.t])
    /\ OnlyFrameChanges

\* Mutant: the flags are read after the Java method has returned.
JavaReturnReadsFlags ==
    /\ frame.pc = "java"
    /\ call[EventThread].pc = "ready"
    /\ FrameGoes(AfterJava(flags[frame.t]))
    /\ OnlyFrameChanges

JavaReturn ==
    /\ frame.pc = "java"
    /\ call[EventThread].pc = "ready"
    /\ FrameGoes(AfterJava(frame.free))
    /\ OnlyFrameChanges

\* cleanupGlobalReferences(env, jTransfer).  A deleted jTransfer is undefined
\* behaviour: it may still resolve to the object, or lead nowhere.
CallbackCleanup ==
    /\ frame.pc = "cleanup"
    /\ \/ liveRefs' = liveRefs \ HeldRefs(frame.t)
       \/ frame.jTransfer \notin liveRefs /\ UNCHANGED liveRefs
    /\ FrameGoes("reset")
    /\ UNCHANGED <<transferPointer, nativeVars, dataVars, nextRef, call>>

\* resetTransfer(env, jTransfer), with the same two outcomes.
CallbackReset ==
    /\ frame.pc = "reset"
    /\ \/ transferPointer' = [transferPointer EXCEPT ![frame.t] = FALSE]
       \/ frame.jTransfer \notin liveRefs /\ UNCHANGED transferPointer
    /\ FrameGoes("freeData")
    /\ UNCHANGED <<nativeVars, dataVars, refVars, call>>

CallbackFreeData ==
    /\ frame.pc = "freeData"
    /\ userData' = [userData EXCEPT ![frame.t] = "freed"]
    /\ FrameGoes("leave")
    /\ UNCHANGED <<transferPointer, nativeVars, transferObject, callbackObject,
                   callbackUserDataObject, refVars, call>>

\* The callback returns to libusb, which frees the transfer if its flags said so.
CallbackLeave ==
    /\ frame.pc = "leave"
    /\ \/ frame.libFree /\ native' = [native EXCEPT ![frame.t] = "autoFreed"]
       \/ ~frame.libFree /\ UNCHANGED native
    /\ frame' = NoFrame
    /\ UNCHANGED <<transferPointer, flags, callback, inFlight, dataVars, refVars, call>>

-----------------------------------------------------------------------------
CallSteps(c, t) ==
    \/ LibusbSubmit(c, t) \/ LibusbCancel(c, t)
    \/ FreeRefs(c, t) \/ FreeReset(c, t) \/ FreeData(c, t) \/ FreeNative(c, t)

ClientCalls(c, t) ==
    \/ AllocTransfer(c, t) \/ AllocTransferUnwrapped(c, t) \/ SetFlags(c, t)
    \/ \E object \in Listeners \cup {NULL} :
          SetCallback(c, t, object) \/ SetUserData(c, t, object)
    \/ SubmitTransfer(c, t) \/ CancelTransfer(c, t) \/ FreeTransfer(c, t)

CallbackSteps ==
    \/ EnterCleanupCallback \/ EnterTransferCallback
    \/ CallbackCleanup \/ CallbackReset \/ CallbackFreeData \/ CallbackLeave

Next ==
    \/ \E c \in Callers, t \in Transfers : ClientCalls(c, t) \/ CallSteps(c, t)
    \/ \E t \in Transfers : Complete(t)
    \/ CallbackSteps
    \/ JavaReturn

Spec == Init /\ [][Next]_vars

\* Native code that has begun runs to its end.  A processTransfer body may make
\* many calls, but only finitely many: strong fairness of its return.
Fairness ==
    /\ \A c \in Callers : WF_vars(\E t \in Transfers : CallSteps(c, t))
    /\ WF_vars(CallbackSteps)
    /\ SF_vars(JavaReturn)

FairSpec == Spec /\ Fairness

-----------------------------------------------------------------------------
(***************************************************************************)
(* Safety.                                                                 *)
(***************************************************************************)

\* A Java Transfer whose pointer is set leads to allocated memory at every step
\* of every call, until an automatic free has passed its resetTransfer: the
\* order in which freeTransfer and the callbacks reset and free.
PointerNamesLive ==
    \A t \in Transfers :
        transferPointer[t] /\ ~Retiring(t) => native[t] = "live" /\ userData[t] = "live"

\* Between cleanupGlobalReferences and free the fields of transfer_data dangle.
RefsDropped(t) ==
    \/ \E c \in Callers : At(c, "freeReset", t) \/ At(c, "freeData", t)
    \/ AutoFreeing(t) /\ frame.pc \in {"reset", "freeData"}

\* Otherwise no field of transfer_data holds a deleted global reference, however
\* setCallback, setUserData, completions and callback bodies have interleaved.
FieldRefsLive ==
    \A t \in Transfers :
        userData[t] = "live" /\ ~RefsDropped(t) => HeldRefs(t) \subseteq liveRefs \cup {NULL}

\* Every global reference belongs to a transfer_data not yet freed: on no path
\* through setCallback, setUserData, freeTransfer or a callback is one leaked,
\* which would pin a Java object for the life of the JVM.
LiveRefsOwned ==
    \A r \in liveRefs : \E t \in Transfers : userData[t] = "live" /\ r \in HeldRefs(t)

\* Whatever is in flight can be delivered: its callback pointer fits the
\* references saved for it, these are live, and they are its own.
Deliverable ==
    \A t \in Transfers : inFlight[t] =>
        /\ native[t] = "live" /\ userData[t] = "live"
        /\ transferObject[t] \in liveRefs /\ transferObject[t].obj = t
        /\ \/ callback[t] = "cleanupCallback" /\ callbackObject[t] = NULL
           \/ /\ callback[t] = "transferCallback"
              /\ callbackObject[t] \in liveRefs /\ callbackObject[t].obj \in Listeners

\* No native method and no callback is about to touch freed memory or to free it
\* a second time, although calls on t overlap completions of t.
NoUseAfterFree ==
    /\ \A c \in Callers :
         /\ call[c].pc \in {"submit", "cancel", "freeRefs", "freeReset", "freeData", "freeNative"}
              => native[call[c].t] = "live"
         /\ call[c].pc \in {"submit", "cancel", "freeRefs", "freeReset", "freeData"}
              => userData[call[c].t] = "live"
    /\ frame.pc \in {"enter", "cleanup", "reset", "freeData"}
         => native[frame.t] = "live" /\ userData[frame.t] = "live"
    /\ frame.pc = "leave" /\ frame.libFree
         => native[frame.t] = "live" /\ userData[frame.t] = "freed"

\* "The saved reference to the Java Transfer object" (Transfer.c:328) is one when
\* the callback comes to clean that object up, whatever its Java code has done.
SavedRefStillLive == frame.pc = "cleanup" => frame.jTransfer \in liveRefs

\* "[One] would expect the Java Transfer object to be properly cleaned up"
\* (LibUsb.c:1725): after an automatic free the object names nothing.
FreedTransferIsCleanedUp ==
    \A t \in Transfers : native[t] = "autoFreed" => ~transferPointer[t]

-----------------------------------------------------------------------------
(***************************************************************************)
(* Liveness, of FairSpec.                                                  *)
(***************************************************************************)

\* freeTransfer ends with everything released, also when it is called by a
\* callback of this or of another transfer.
FreeTransferCompletes ==
    \A t \in Transfers :
        (\E c \in Callers : At(c, "freeRefs", t))
            ~> (native[t] = "freed" /\ userData[t] = "freed" /\ ~transferPointer[t])

\* A completion with LIBUSB_TRANSFER_FREE_TRANSFER set ends with both the
\* transfer_data and the transfer released, whichever callback is installed.
AutoFreeCompletes ==
    \A t \in Transfers :
        AutoFreeing(t) ~> (native[t] = "autoFreed" /\ userData[t] = "freed")
=============================================================================
