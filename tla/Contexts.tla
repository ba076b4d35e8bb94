------------------------------- MODULE Contexts -------------------------------
(***************************************************************************)
(* LibUsb.init and LibUsb.exit (src/src/LibUsb.c): the default context,    *)
(* counted twice, by libusb under a lock and by defaultContextRefcnt with  *)
(* no lock at all, and contexts of their own behind Java Context objects.  *)
(*                                                                         *)
(* A native method is the sequence of its calls into libusb and of its     *)
(* loads and stores of defaultContextRefcnt.  What a client adds to that   *)
(* differs from one to another: some take one lock around every call, some *)
(* undo each init(null) in the thread that made it.                        *)
(***************************************************************************)
EXTENDS Integers

CONSTANTS
    Threads,
    ContextObjects, \* Java Context objects
    Clients,        \* the kinds of client followed
    MaxInits,       \* bound: references to the default context held at one time,
                    \* and how far the two counts may differ when a call begins
    NULL

ASSUME ContextsAssumption ==
    /\ Clients \subseteq [locks : BOOLEAN, balanced : BOOLEAN]
    /\ MaxInits \in Nat
    /\ NULL \notin ContextObjects

VARIABLES
    client,          \* what the client does for its own part: never changes
    defaultContextRefcnt,
    libusbRefcnt,    \* libusb's own count; the default context exists while positive
    contextPointer,  \* Java: is the contextPointer field of the object set?
    liveContexts,    \* objects whose explicit libusb context is alive
    call,            \* per thread: step, value loaded, Context argument
    holds            \* per thread: its init(null) calls not yet undone

vars == <<client, defaultContextRefcnt, libusbRefcnt, contextPointer, liveContexts, call, holds>>
contextVars == <<contextPointer, liveContexts>>

Ready == [pc |-> "ready", loaded |-> 0, context |-> NULL]

InitPcs == {"load+", "store+", "setContext"}
ExitPcs == {"libusb_exit", "load-", "store-", "resetContext"}
UsePcs == {"use", "invoke"}

Calls == [pc : {"ready"} \cup InitPcs \cup ExitPcs \cup UsePcs,
          loaded : Int, context : ContextObjects \cup {NULL}]

TypeOK ==
    /\ client \in Clients
    /\ defaultContextRefcnt \in Int
    /\ libusbRefcnt \in Nat
    /\ contextPointer \in [ContextObjects -> BOOLEAN]
    /\ liveContexts \subseteq ContextObjects
    /\ call \in [Threads -> Calls]
    /\ holds \in [Threads -> Nat]

Init ==
    /\ client \in Clients
    /\ defaultContextRefcnt = 0
    /\ libusbRefcnt = 0
    /\ contextPointer = [o \in ContextObjects |-> FALSE]
    /\ liveContexts = {}
    /\ call = [th \in Threads |-> Ready]
    /\ holds = [th \in Threads |-> 0]

-----------------------------------------------------------------------------
MayCall(th) ==
    /\ call[th] = Ready
    /\ client.locks => \A other \in Threads : call[other] = Ready

Goes(th, pc, loaded) ==
    call' = [call EXCEPT ![th] = [pc |-> pc, loaded |-> loaded, context |-> call[th].context]]
Returns(th) == call' = [call EXCEPT ![th] = Ready]

InBounds(th) ==
    /\ libusbRefcnt < MaxInits /\ holds[th] < MaxInits
    /\ defaultContextRefcnt - libusbRefcnt \in -MaxInits .. MaxInits

\* Mutant: libusb_init(NULL) only for the first init.
InitDefaultOnce(th) ==
    /\ MayCall(th)
    /\ InBounds(th)
    /\ libusbRefcnt' = IF defaultContextRefcnt = 0 THEN libusbRefcnt + 1 ELSE libusbRefcnt
    /\ Goes(th, "load+", 0)
    /\ UNCHANGED <<defaultContextRefcnt, contextVars, holds>>

\* init(null).  When libusb_init fails its result is returned: no step.
InitDefault(th) ==
    /\ MayCall(th)
    /\ InBounds(th)
    /\ libusbRefcnt' = libusbRefcnt + 1
    /\ Goes(th, "load+", 0)
    /\ UNCHANGED <<defaultContextRefcnt, contextVars, holds>>

\* defaultContextRefcnt++ of an unlocked int, here and in exit: a load, a store.
LoadToIncrement(th) ==
    /\ call[th].pc = "load+"
    /\ Goes(th, "store+", defaultContextRefcnt)
    /\ UNCHANGED <<defaultContextRefcnt, libusbRefcnt, contextVars, holds>>

StoreIncremented(th) ==
    /\ call[th].pc = "store+"
    /\ defaultContextRefcnt' = call[th].loaded + 1
    /\ holds' = [holds EXCEPT ![th] = @ + 1]
    /\ Returns(th)
    /\ UNCHANGED <<libusbRefcnt, contextVars>>

\* exit(null): an IllegalStateException, or on to libusb_exit.
MayExitDefault(th) == MayCall(th) /\ (client.balanced => holds[th] > 0)

\* Mutants: the bound of the check in exit off by one, either way.
ExitRejectedBelow == defaultContextRefcnt < 0
ExitRejectedAbove == defaultContextRefcnt <= 1

ExitRejected == defaultContextRefcnt <= 0

ExitDefault(th) ==
    /\ MayExitDefault(th)
    /\ ~ExitRejected
    /\ Goes(th, "libusb_exit", 0)
    /\ UNCHANGED <<defaultContextRefcnt, libusbRefcnt, contextVars, holds>>

\* libusb_exit(NULL) without a default context does nothing (external).
LibusbExitDefault(th) ==
    /\ call[th].pc = "libusb_exit" /\ call[th].context = NULL
    /\ libusbRefcnt' = IF libusbRefcnt = 0 THEN 0 ELSE libusbRefcnt - 1
    /\ Goes(th, "load-", 0)
    /\ UNCHANGED <<defaultContextRefcnt, contextVars, holds>>

LoadToDecrement(th) ==
    /\ call[th].pc = "load-"
    /\ Goes(th, "store-", defaultContextRefcnt)
    /\ UNCHANGED <<defaultContextRefcnt, libusbRefcnt, contextVars, holds>>

\* Mutant: exit sets the counter to zero.
StoreZero(th) ==
    /\ call[th].pc = "store-"
    /\ defaultContextRefcnt' = 0
    /\ holds' = [holds EXCEPT ![th] = IF @ = 0 THEN 0 ELSE @ - 1]
    /\ Returns(th)
    /\ UNCHANGED <<libusbRefcnt, contextVars>>

StoreDecremented(th) ==
    /\ call[th].pc = "store-"
    /\ defaultContextRefcnt' = call[th].loaded - 1
    /\ holds' = [holds EXCEPT ![th] = IF @ = 0 THEN 0 ELSE @ - 1]
    /\ Returns(th)
    /\ UNCHANGED <<libusbRefcnt, contextVars>>

-----------------------------------------------------------------------------
(***************************************************************************)
(* The other methods that take a context.  getDeviceList and getPollfds    *)
(* check VALIDATE_DEFAULT_CONTEXT, and call libusb once the check has      *)
(* passed; setDebug, setOption, the event functions and the notifiers check*)
(* nothing, so that only a thread with an init(null) of its own may use    *)
(* them without a Context object.                                          *)
(***************************************************************************)
ValidationFails == defaultContextRefcnt = 0

UseDefault(th) ==
    /\ MayCall(th)
    /\ ~ValidationFails
    /\ Goes(th, "use", 0)
    /\ UNCHANGED <<defaultContextRefcnt, libusbRefcnt, contextVars, holds>>

InvokeDefault(th) ==
    /\ MayCall(th)
    /\ holds[th] > 0
    /\ Goes(th, "invoke", 0)
    /\ UNCHANGED <<defaultContextRefcnt, libusbRefcnt, contextVars, holds>>

LibusbUse(th) ==
    /\ call[th].pc \in UsePcs
    /\ Returns(th)
    /\ UNCHANGED <<defaultContextRefcnt, libusbRefcnt, contextVars, holds>>

-----------------------------------------------------------------------------
(***************************************************************************)
(* Calls with a Context object.  A client uses it in as many threads as it *)
(* likes, but hands it to init and exit in one, when no other uses it.     *)
(***************************************************************************)
Owned(th, o) == MayCall(th) /\ \A other \in Threads : call[other].context # o
Shared(th, o) ==
    MayCall(th) /\ \A other \in Threads : call[other].context = o => call[other].pc = "use"

Begins(th, pc, o) ==
    call' = [call EXCEPT ![th] = [pc |-> pc, loaded |-> 0, context |-> o]]

\* Mutant: libusb_init(NULL) where libusb_init(&context) belongs.
InitContextDefault(th, o) ==
    /\ Owned(th, o)
    /\ ~contextPointer[o]
    /\ liveContexts' = liveContexts \cup {NULL}
    /\ Begins(th, "setContext", o)
    /\ UNCHANGED <<defaultContextRefcnt, libusbRefcnt, contextPointer, holds>>

InitContext(th, o) ==
    /\ Owned(th, o)
    /\ ~contextPointer[o]
    /\ liveContexts' = liveContexts \cup {o}
    /\ Begins(th, "setContext", o)
    /\ UNCHANGED <<defaultContextRefcnt, libusbRefcnt, contextPointer, holds>>

SetContext(th) ==
    /\ call[th].pc = "setContext"
    /\ contextPointer' = [contextPointer EXCEPT ![call[th].context] = TRUE]
    /\ Returns(th)
    /\ UNCHANGED <<defaultContextRefcnt, libusbRefcnt, liveContexts, holds>>

ExitContext(th, o) ==
    /\ Owned(th, o)
    /\ contextPointer[o]
    /\ Begins(th, "libusb_exit", o)
    /\ UNCHANGED <<defaultContextRefcnt, libusbRefcnt, contextVars, holds>>

LibusbExitContext(th) ==
    /\ call[th].pc = "libusb_exit" /\ call[th].context # NULL
    /\ liveContexts' = liveContexts \ {call[th].context}
    /\ Goes(th, "resetContext", 0)
    /\ UNCHANGED <<defaultContextRefcnt, libusbRefcnt, contextPointer, holds>>

\* Mutant: exit leaves the pointer.
ResetContextOmitted(th) ==
    /\ call[th].pc = "resetContext"
    /\ Returns(th)
    /\ UNCHANGED <<defaultContextRefcnt, libusbRefcnt, contextVars, holds>>

ResetContext(th) ==
    /\ call[th].pc = "resetContext"
    /\ contextPointer' = [contextPointer EXCEPT ![call[th].context] = FALSE]
    /\ Returns(th)
    /\ UNCHANGED <<defaultContextRefcnt, libusbRefcnt, liveContexts, holds>>

\* Mutant: "if (!ctx && context) return" left out, after an unwrapContext that threw.
UseContextUnset(th, o) ==
    /\ Shared(th, o)
    /\ Begins(th, "use", o)
    /\ UNCHANGED <<defaultContextRefcnt, libusbRefcnt, contextVars, holds>>

UseContext(th, o) ==
    /\ Shared(th, o)
    /\ contextPointer[o]
    /\ Begins(th, "use", o)
    /\ UNCHANGED <<defaultContextRefcnt, libusbRefcnt, contextVars, holds>>

-----------------------------------------------------------------------------
DefaultSteps(th) ==
    \/ InitDefault(th) \/ LoadToIncrement(th) \/ StoreIncremented(th)
    \/ ExitDefault(th) \/ LibusbExitDefault(th) \/ LoadToDecrement(th)
    \/ StoreDecremented(th)
    \/ UseDefault(th) \/ InvokeDefault(th)

ContextSteps(th) ==
    \/ \E o \in ContextObjects : InitContext(th, o) \/ ExitContext(th, o) \/ UseContext(th, o)
    \/ SetContext(th) \/ LibusbExitContext(th) \/ ResetContext(th)

Next ==
    /\ \E th \in Threads : DefaultSteps(th) \/ ContextSteps(th) \/ LibusbUse(th)
    /\ UNCHANGED client

Spec == Init /\ [][Next]_vars

-----------------------------------------------------------------------------
\* With one client lock, between calls defaultContextRefcnt is libusb's own count of
\* the default context: on every path init and exit change both or neither, in step.
CountersAgree ==
    client.locks /\ (\A th \in Threads : call[th] = Ready) => defaultContextRefcnt = libusbRefcnt

\* With that lock, a method that has passed VALIDATE_DEFAULT_CONTEXT, and an exit(null)
\* that has passed its own check, find a default context when they come to libusb.
CheckedCallsHaveContext ==
    client.locks =>
        \A th \in Threads :
            call[th].pc \in {"use", "libusb_exit"} /\ call[th].context = NULL => libusbRefcnt > 0

\* With that lock, nobody who holds the default context is turned away: exit(null) and
\* the validated methods throw only when there is no default context.
HoldersAccepted ==
    client.locks =>
        \A th \in Threads :
            MayCall(th) /\ libusbRefcnt > 0 => ~ExitRejected /\ ~ValidationFails

\* With no lock at all, a set contextPointer leads to a live context, except inside its
\* exit, and a live context is named by its object, except inside its init: none is lost.
ContextPointersExact ==
    \A o \in ContextObjects :
        \/ contextPointer[o] <=> o \in liveContexts
        \/ \E th \in Threads :
              call[th].context = o /\ call[th].pc \in {"setContext", "resetContext"}

\* A call that takes a Context object to libusb takes a live context there, in however
\* many threads, and never falls back on the default context when the object has none.
UsedContextsLive ==
    \A th \in Threads :
        call[th].context # NULL /\ call[th].pc \in {"use", "libusb_exit"}
            => call[th].context \in liveContexts

\* As long as a thread has not undone its init(null), the default context exists, in
\* its calls that check nothing as between them: usb4java calls libusb_exit(NULL) no
\* more often than balanced clients ask, whatever racing calls do to its counter.
HeldContextExists ==
    client.balanced =>
        \A th \in Threads :
            holds[th] > 0 /\ call[th].pc \notin {"load-", "store-"} => libusbRefcnt > 0

\* "Validates the default context by making sure the reference counter is larger
\* than 0" (LibUsb.c:41): whoever passes finds it larger than 0.
ValidatedCounterPositive ==
    [][\A th \in Threads :
          call[th].pc = "ready" /\ call'[th].pc = "use" /\ call'[th].context = NULL
              => defaultContextRefcnt > 0]_vars
===============================================================================
