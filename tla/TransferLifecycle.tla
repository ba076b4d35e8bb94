-------------------------- MODULE TransferLifecycle --------------------------
(***************************************************************************)
(* What the transfer API promises, without native memory, references or    *)
(* steps inside a call: every completion of a submitted transfer is told   *)
(* exactly once, to the listener registered for it and to no other, one    *)
(* completion at a time, and the transfer is then its owner's again,       *)
(* unless it was submitted to be freed automatically: then it is gone.     *)
(***************************************************************************)
CONSTANTS
    Transfers,
    Listeners,
    RebindInFreeCallback, \* may a listener be replaced by the one being told?
    NULL

VARIABLES
    phase,      \* absent, idle, flying, done (completed, to be told), released
    autoFree,   \* is the transfer to be released when it completes?
    listener,   \* whom to tell, or NULL
    notice      \* the completion being dealt with

vars == <<phase, autoFree, listener, notice>>

NoNotice == [stage |-> "none", t |-> NULL, to |-> NULL, last |-> FALSE]

Init ==
    /\ phase = [t \in Transfers |-> "absent"]
    /\ autoFree = [t \in Transfers |-> FALSE]
    /\ listener = [t \in Transfers |-> NULL]
    /\ notice = NoNotice

\* A transfer that is being told and released with it: "done" until the end.
Telling(t) == notice.t = t /\ notice.stage = "told" /\ phase[t] = "done"

Allocate(t) ==
    /\ phase[t] = "absent"
    /\ phase' = [phase EXCEPT ![t] = "idle"]
    /\ UNCHANGED <<autoFree, listener, notice>>

SetAutoFree(t) ==
    /\ phase[t] = "idle" \/ Telling(t)
    /\ \E b \in BOOLEAN : autoFree' = [autoFree EXCEPT ![t] = b]
    /\ UNCHANGED <<phase, listener, notice>>

Register(t, l) ==
    /\ phase[t] = "idle" \/ (Telling(t) /\ RebindInFreeCallback)
    /\ listener' = [listener EXCEPT ![t] = l]
    /\ UNCHANGED <<phase, autoFree, notice>>

Submit(t) ==
    /\ phase[t] = "idle"
    /\ phase' = [phase EXCEPT ![t] = "flying"]
    /\ UNCHANGED <<autoFree, listener, notice>>

Release(t) ==
    /\ phase[t] = "idle"
    /\ phase' = [phase EXCEPT ![t] = "released"]
    /\ listener' = [listener EXCEPT ![t] = NULL]
    /\ UNCHANGED <<autoFree, notice>>

Complete(t) ==
    /\ notice = NoNotice
    /\ phase[t] = "flying"
    /\ phase' = [phase EXCEPT ![t] = "done"]
    /\ notice' = [NoNotice EXCEPT !.stage = "due", !.t = t, !.last = autoFree[t]]
    /\ UNCHANGED <<autoFree, listener>>

\* Listeners are told; a transfer with none is done at once.  Either way one
\* that goes on living is its owner's from here on.
Tell ==
    LET t == notice.t IN
    /\ notice.stage = "due"
    /\ notice' = [notice EXCEPT !.stage = IF listener[t] = NULL THEN "over" ELSE "told",
                                !.to = listener[t]]
    /\ phase' = IF notice.last THEN phase ELSE [phase EXCEPT ![t] = "idle"]
    /\ UNCHANGED <<autoFree, listener>>

ListenerReturns ==
    /\ notice.stage = "told"
    /\ notice' = [notice EXCEPT !.stage = "over"]
    /\ UNCHANGED <<phase, autoFree, listener>>

Finish ==
    LET t == notice.t IN
    /\ notice.stage = "over"
    /\ notice' = NoNotice
    /\ \/ /\ notice.last
          /\ phase' = [phase EXCEPT ![t] = "released"]
          /\ listener' = [listener EXCEPT ![t] = NULL]
       \/ ~notice.last /\ UNCHANGED <<phase, listener>>
    /\ UNCHANGED autoFree

Next ==
    \/ \E t \in Transfers :
          \/ Allocate(t) \/ SetAutoFree(t) \/ Submit(t) \/ Release(t) \/ Complete(t)
          \/ \E l \in Listeners \cup {NULL} : Register(t, l)
    \/ Tell \/ ListenerReturns \/ Finish

\* A completion that has begun is told and finished.
Fairness == WF_vars(Tell) /\ WF_vars(ListenerReturns) /\ WF_vars(Finish)

Spec == Init /\ [][Next]_vars
FairSpec == Spec /\ Fairness
==============================================================================
