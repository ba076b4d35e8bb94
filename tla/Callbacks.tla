------------------------------ MODULE Callbacks ------------------------------
(***************************************************************************)
(* Calls from libusb back into Java: THREAD_BEGIN and THREAD_END, which    *)
(* attach a thread to the JVM for the time of one callback, and the hotplug*)
(* registrations that cause callbacks (src/src/usb4java.h, LibUsb.c,       *)
(* HotplugCallbackHandle.c).                                               *)
(*                                                                         *)
(* libusb calls back on threads of its own and on Java threads that are    *)
(* inside a call to it, also while they are inside another callback: each  *)
(* thread has a stack of the native functions it is in, the innermost last.*)
(* AttachCurrentThread is taken to succeed.                                *)
(***************************************************************************)
EXTENDS Naturals, Sequences

CONSTANTS
    JavaThreads, NativeThreads,
    HandleObjects,   \* Java HotplugCallbackHandle objects
    Registrations,   \* handles libusb gives, each to one registration
    ShareHandles,    \* may an object be handed to a call while one is in it?
    MaxDepth,        \* bound: native functions nested on a thread
    NULL

ASSUME CallbacksAssumption ==
    /\ JavaThreads \cap NativeThreads = {}
    /\ ShareHandles \in BOOLEAN
    /\ MaxDepth \in Nat
    /\ NULL \notin HandleObjects \cup Registrations

VARIABLES
    attached,                     \* the threads attached to the JVM
    stack,
    registered,                   \* of a registration: not yet, live, ended
    madeFor,                      \* the object its handle was to be stored in, or NULL
    hotplugCallbackHandleValue    \* Java: the field of that name, or NULL

vars == <<attached, stack, registered, madeFor, hotplugCallbackHandleValue>>
registrationVars == <<registered, madeFor>>
hotplugVars == <<registrationVars, hotplugCallbackHandleValue>>

Threads == JavaThreads \cup NativeThreads

\* register, enumerate: hotplugRegisterCallbackNative.  deregister, reset:
\* hotplugDeregisterCallbackNative.  The others: a callback.
Pcs == {"register", "enumerate", "deregister", "reset", "begin", "java", "end", "leave"}

Frames == [pc : Pcs, reg : Registrations \cup {NULL}, object : HandleObjects \cup {NULL},
           result : {"unset", "JNI_OK", "JNI_EDETACHED"}, last : BOOLEAN]

Frame(pc, reg, object) ==
    [pc |-> pc, reg |-> reg, object |-> object, result |-> "unset", last |-> FALSE]

TypeOK ==
    /\ attached \subseteq Threads
    /\ stack \in [Threads -> Seq(Frames)]
    /\ registered \in [Registrations -> {"not yet", "live", "ended"}]
    /\ madeFor \in [Registrations -> HandleObjects \cup {NULL}]
    /\ hotplugCallbackHandleValue \in [HandleObjects -> Registrations \cup {NULL}]

Init ==
    /\ attached = JavaThreads
    /\ stack = [th \in Threads |-> <<>>]
    /\ registered = [r \in Registrations |-> "not yet"]
    /\ madeFor = [r \in Registrations |-> NULL]
    /\ hotplugCallbackHandleValue = [o \in HandleObjects |-> NULL]

-----------------------------------------------------------------------------
Depth(th) == Len(stack[th])
Top(th) == stack[th][Depth(th)]
At(th, pc) == Depth(th) > 0 /\ Top(th).pc = pc

Push(th, frame) ==
    /\ Depth(th) < MaxDepth
    /\ stack' = [stack EXCEPT ![th] = Append(@, frame)]
Becomes(th, frame) == stack' = [stack EXCEPT ![th] = [@ EXCEPT ![Len(@)] = frame]]
Pop(th) == stack' = [stack EXCEPT ![th] = SubSeq(@, 1, Len(@) - 1)]

\* th is running Java code, of its own or of a callback.
InJava(th) == (Depth(th) = 0 /\ th \in JavaThreads) \/ At(th, "java")

\* The client hands an object to one call at a time.
MayPass(o) ==
    ShareHandles \/ \A th \in Threads : \A i \in DOMAIN stack[th] : stack[th][i].object # o

-----------------------------------------------------------------------------
(***************************************************************************)
(* hotplugRegisterCallbackNative.  Between libusb's making a registration  *)
(* and the return of this call, libusb may call back for it: on this thread*)
(* for each device there is (LIBUSB_HOTPLUG_ENUMERATE), on any other for   *)
(* devices that come and go.                                               *)
(***************************************************************************)

\* Mutant: no VALIDATE_POINTER_NOT_SET.
RegisterUnchecked(th, o) ==
    /\ InJava(th) /\ (o = NULL \/ MayPass(o))
    /\ Push(th, Frame("register", NULL, o))
    /\ UNCHANGED <<attached, hotplugVars>>

Register(th, o) ==
    /\ InJava(th)
    /\ o # NULL => MayPass(o) /\ hotplugCallbackHandleValue[o] = NULL
    /\ Push(th, Frame("register", NULL, o))
    /\ UNCHANGED <<attached, hotplugVars>>

LibusbRegister(th, r) ==
    /\ At(th, "register")
    /\ registered[r] = "not yet"
    /\ registered' = [registered EXCEPT ![r] = "live"]
    /\ madeFor' = [madeFor EXCEPT ![r] = Top(th).object]
    /\ Becomes(th, Frame("enumerate", r, Top(th).object))
    /\ UNCHANGED <<attached, hotplugCallbackHandleValue>>

RegisterFails(th) ==
    /\ At(th, "register")
    /\ Pop(th)
    /\ UNCHANGED <<attached, hotplugVars>>

\* Mutant: setHotplugCallbackHandle with its arguments swapped.
RegisterReturnsSwapped(th) ==
    LET o == Top(th).object IN
    /\ At(th, "enumerate")
    /\ \/ o = NULL /\ UNCHANGED hotplugCallbackHandleValue
       \/ /\ o # NULL
          /\ hotplugCallbackHandleValue' = [hotplugCallbackHandleValue EXCEPT ![o] = o]
    /\ Pop(th)
    /\ UNCHANGED <<attached, registrationVars>>

RegisterReturns(th) ==
    LET o == Top(th).object IN
    /\ At(th, "enumerate")
    /\ \/ o = NULL /\ UNCHANGED hotplugCallbackHandleValue
       \/ /\ o # NULL
          /\ hotplugCallbackHandleValue' =
               [hotplugCallbackHandleValue EXCEPT ![o] = Top(th).reg]
    /\ Pop(th)
    /\ UNCHANGED <<attached, registrationVars>>

-----------------------------------------------------------------------------
(***************************************************************************)
(* hotplugDeregisterCallbackNative.                                        *)
(***************************************************************************)
Deregister(th, o) ==
    /\ InJava(th) /\ MayPass(o)
    /\ hotplugCallbackHandleValue[o] # NULL
    /\ Push(th, Frame("deregister", hotplugCallbackHandleValue[o], o))
    /\ UNCHANGED <<attached, hotplugVars>>

LibusbDeregister(th) ==
    /\ At(th, "deregister")
    /\ registered' = [registered EXCEPT ![Top(th).reg] = "ended"]
    /\ Becomes(th, Frame("reset", Top(th).reg, Top(th).object))
    /\ UNCHANGED <<attached, madeFor, hotplugCallbackHandleValue>>

DeregisterReturns(th) ==
    /\ At(th, "reset")
    /\ hotplugCallbackHandleValue' = [hotplugCallbackHandleValue EXCEPT ![Top(th).object] = NULL]
    /\ Pop(th)
    /\ UNCHANGED <<attached, registrationVars>>

-----------------------------------------------------------------------------
(***************************************************************************)
(* Callbacks.  r is the registration, or NULL for the callbacks of         *)
(* transfers and of pollfd notifiers, which attach in the same way.        *)
(***************************************************************************)
CallBack(th, r) ==
    /\ \/ InJava(th)                                   \* in a call to libusb
       \/ Depth(th) = 0 /\ th \in NativeThreads
       \/ At(th, "enumerate") /\ r = Top(th).reg
    /\ r # NULL => registered[r] = "live"
    /\ Push(th, Frame("begin", r, NULL))
    /\ UNCHANGED <<attached, hotplugVars>>

ThreadBegin(th) ==
    /\ At(th, "begin")
    /\ \/ /\ th \in attached
          /\ Becomes(th, [Top(th) EXCEPT !.pc = "java", !.result = "JNI_OK"])
          /\ UNCHANGED attached
       \/ /\ th \notin attached
          /\ Becomes(th, [Top(th) EXCEPT !.pc = "java", !.result = "JNI_EDETACHED"])
          /\ attached' = attached \cup {th}
    /\ UNCHANGED hotplugVars

\* A hotplug callback that returns a value other than 0 asks to be the last.
JavaReturns(th) ==
    /\ At(th, "java")
    /\ \E last \in {FALSE, Top(th).reg # NULL} :
          Becomes(th, [Top(th) EXCEPT !.pc = "end", !.last = last])
    /\ UNCHANGED <<attached, hotplugVars>>

\* Mutant: THREAD_END forgets what THREAD_BEGIN found.
ThreadEndDetaches(th) ==
    /\ At(th, "end")
    /\ attached' = attached \ {th}
    /\ Becomes(th, [Top(th) EXCEPT !.pc = "leave"])
    /\ UNCHANGED hotplugVars

ThreadEnd(th) ==
    /\ At(th, "end")
    /\ attached' = IF Top(th).result = "JNI_EDETACHED" THEN attached \ {th} ELSE attached
    /\ Becomes(th, [Top(th) EXCEPT !.pc = "leave"])
    /\ UNCHANGED hotplugVars

\* Back in libusb, which ends the registration if it was asked to.
CallbackLeaves(th) ==
    /\ At(th, "leave")
    /\ \/ /\ Top(th).last
          /\ registered' = [registered EXCEPT ![Top(th).reg] = "ended"]
       \/ ~Top(th).last /\ UNCHANGED registered
    /\ Pop(th)
    /\ UNCHANGED <<attached, madeFor, hotplugCallbackHandleValue>>

-----------------------------------------------------------------------------
RegistrationSteps(th) ==
    \/ \E o \in HandleObjects \cup {NULL} : Register(th, o)
    \/ \E r \in Registrations : LibusbRegister(th, r)
    \/ RegisterFails(th) \/ RegisterReturns(th)
    \/ \E o \in HandleObjects : Deregister(th, o)
    \/ LibusbDeregister(th) \/ DeregisterReturns(th)

CallbackSteps(th) ==
    \/ \E r \in Registrations \cup {NULL} : CallBack(th, r)
    \/ ThreadBegin(th) \/ JavaReturns(th) \/ ThreadEnd(th) \/ CallbackLeaves(th)

Next == \E th \in Threads : RegistrationSteps(th) \/ CallbackSteps(th)

Spec == Init /\ [][Next]_vars

-----------------------------------------------------------------------------
\* Whenever native code uses its JNIEnv the thread is attached, at any depth of
\* nesting; a Java thread is never detached; and a thread of libusb's own is left
\* as it was found, or the JVM would wait for it for ever.
AttachmentExact ==
    attached = JavaThreads \cup
        {th \in NativeThreads : \E i \in DOMAIN stack[th] : stack[th][i].pc \in {"java", "end"}}

\* No registration gets out of reach: once hotplugRegisterCallbackNative has
\* returned, the object given to it names the registration until that has ended,
\* and an object never names, and so never deregisters, another's.
HandlesNameRegistrations ==
    /\ \A r \in Registrations :
          registered[r] = "live" /\ madeFor[r] # NULL =>
              \/ hotplugCallbackHandleValue[madeFor[r]] = r
              \/ \E th \in Threads : \E i \in DOMAIN stack[th] :
                    stack[th][i].pc = "enumerate" /\ stack[th][i].reg = r
    /\ \A o \in HandleObjects :
          hotplugCallbackHandleValue[o] # NULL => madeFor[hotplugCallbackHandleValue[o]] = o

\* The registrations in force an object answers for: the one it names, or the one a
\* call of hotplugRegisterCallbackNative under way is about to store in it.
Answers(o) ==
    {r \in Registrations :
        /\ registered[r] = "live"
        /\ \/ hotplugCallbackHandleValue[o] = r
           \/ \E th \in Threads : \E i \in DOMAIN stack[th] :
                 /\ stack[th][i].pc = "enumerate"
                 /\ stack[th][i].object = o /\ stack[th][i].reg = r}

Answered ==
    [o \in HandleObjects |-> IF Answers(o) = {} THEN NULL ELSE CHOOSE r \in Answers(o) : TRUE]

InForce == {r \in Registrations : registered[r] = "live" /\ madeFor[r] # NULL}

Registration == INSTANCE Ownership
    WITH Objects <- HandleObjects, Resources <- Registrations,
         pointer <- Answered, live <- InForce

\* Registrations made for an object implement Ownership, from the call into libusb
\* that makes one to the call, or the return of the callback, that ends it: none is
\* made for an object that answers for another, none changes hands, and none is left
\* in force when its object has been handed on.
RegistrationsOwned == Registration!Spec

\* "If callbackHandle is set, the Java object must be fresh/empty" (LibUsb.c:1828):
\* a handle is stored over no other.
HandleObjectsFresh ==
    [][\A o \in HandleObjects :
          hotplugCallbackHandleValue'[o] # hotplugCallbackHandleValue[o]
              => NULL \in {hotplugCallbackHandleValue[o], hotplugCallbackHandleValue'[o]}]_vars
==============================================================================
