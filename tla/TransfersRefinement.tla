------------------------- MODULE TransfersRefinement -------------------------
(***************************************************************************)
(* Transfers implements TransferLifecycle.  The abstract state is read off *)
(* the concrete one: a transfer counts as released from the moment its     *)
(* owner calls freeTransfer, or when libusb has freed it automatically; its*)
(* listener is the object callbackObject refers to; the notice is the      *)
(* frame of the completion callback.                                       *)
(***************************************************************************)
EXTENDS Transfers

ObjectOf(ref) == IF ref = NULL THEN NULL ELSE ref.obj

\* allocTransfer failed half way: callback is still NULL, there is no Java object.
Unwrapped(t) == native[t] = "live" /\ callback[t] = NULL

phaseBar ==
    [t \in Transfers |->
        CASE native[t] = "none" \/ Unwrapped(t) -> "absent"
          [] native[t] \in {"freed", "autoFreed"}
               \/ (\E c \in Callers : call[c].t = t /\ call[c].pc \in FreePcs) -> "released"
          [] inFlight[t] -> "flying"
          [] frame.t = t /\ (frame.pc = "enter" \/ frame.libFree) -> "done"
          [] OTHER -> "idle"]

listenerBar ==
    [t \in Transfers |->
        IF phaseBar[t] = "released" THEN NULL ELSE ObjectOf(callbackObject[t])]

noticeBar ==
    [stage |-> CASE frame.pc = "idle" -> "none" [] frame.pc = "enter" -> "due"
                 [] frame.pc = "java" -> "told" [] OTHER -> "over",
     t     |-> frame.t,
     to    |-> ObjectOf(frame.jCallback),
     last  |-> frame.libFree]

Lifecycle == INSTANCE TransferLifecycle
                WITH phase <- phaseBar, autoFree <- flags,
                     listener <- listenerBar, notice <- noticeBar

\* Every completion reaches the listener registered when it is delivered, once,
\* and none after the transfer was released: TransferLifecycle in full, with
\* the progress of a completion that has begun.
ImplementsLifecycle == Lifecycle!FairSpec
==============================================================================
