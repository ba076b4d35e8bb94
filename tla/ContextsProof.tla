---------------------------- MODULE ContextsProof ----------------------------
(***************************************************************************)
(* Proofs about Contexts: with one client lock around every call the two   *)
(* counts of the default context stay in step for any number of threads,   *)
(* and contexts of their own stay exact with or without the lock.  Without *)
(* any lock balanced clients keep the default context as long as they hold *)
(* it, whatever becomes of usb4java's count of it.                         *)
(***************************************************************************)
EXTENDS Contexts, FiniteSetTheorems, TLAPS

Idle(th) == call[th] = Ready

\* What is in progress, and on which object, for every step of a call.
CallShape ==
    \A th \in Threads :
        /\ call[th].pc = "ready" => call[th].context = NULL
        /\ call[th].pc \in {"load+", "store+", "load-", "store-", "invoke"}
             => call[th].context = NULL
        /\ call[th].pc \in {"setContext", "resetContext"} => call[th].context \in ContextObjects

\* An object that is in a call of init or exit is in no other.
ObjectsApart ==
    \A a, b \in Threads :
        call[a].context \in ContextObjects /\ call[a].context = call[b].context
            => a = b \/ (call[a].pc = "use" /\ call[b].pc = "use")

\* Its pointer and context are as that call has left them.
ContextsInStep ==
    \A o \in ContextObjects :
        \/ /\ contextPointer[o] <=> o \in liveContexts
           /\ \A th \in Threads : call[th].context = o =>
                call[th].pc \in {"libusb_exit", "use"} /\ contextPointer[o]
        \/ \E th \in Threads :
              /\ call[th].context = o
              /\ \/ call[th].pc = "setContext" /\ o \in liveContexts /\ ~contextPointer[o]
                 \/ call[th].pc = "resetContext" /\ o \notin liveContexts /\ contextPointer[o]

ContextInv == TypeOK /\ CallShape /\ ObjectsApart /\ ContextsInStep

LEMMA ReadyTyped == Ready \in Calls
BY DEF Ready, Calls

LEMMA InitContextInv == Init => ContextInv
BY ContextsAssumption
DEF Init, ContextInv, TypeOK, Calls, CallShape, ObjectsApart, ContextsInStep, Ready

\* Steps on the default context leave every Context object alone, and go from one
\* step without an object to another.
LEMMA DefaultStepsApart ==
  ASSUME ContextInv, NEW th \in Threads, DefaultSteps(th)
  PROVE  /\ UNCHANGED contextVars
         /\ call[th].context = NULL
         /\ call' \in [Threads -> Calls]
         /\ \A other \in Threads : other # th => call'[other] = call[other]
         /\ call'[th].context = NULL
         /\ call'[th].pc \notin {"setContext", "resetContext"}
         /\ defaultContextRefcnt' \in Int /\ libusbRefcnt' \in Nat /\ holds' \in [Threads -> Nat]
<1>1. call[th].pc \in {"ready", "load+", "store+", "load-", "store-"}
        => call[th].context = NULL
  BY DEF ContextInv, CallShape
<1>2. call[th] \in Calls /\ call[th].loaded \in Int
  BY DEF ContextInv, TypeOK, Calls
<1> USE <1>1, <1>2 DEF ContextInv, TypeOK, Calls, InitPcs, ExitPcs, UsePcs, Goes, Returns, Ready
<1>3. CASE InitDefault(th)
  BY <1>3 DEF InitDefault, MayCall
<1>4. CASE LoadToIncrement(th)
  BY <1>4 DEF LoadToIncrement
<1>5. CASE StoreIncremented(th)
  BY <1>5 DEF StoreIncremented
<1>6. CASE ExitDefault(th)
  BY <1>6 DEF ExitDefault, MayExitDefault, MayCall
<1>7. CASE LibusbExitDefault(th)
  BY <1>7 DEF LibusbExitDefault
<1>8. CASE LoadToDecrement(th)
  BY <1>8 DEF LoadToDecrement
<1>9. CASE StoreDecremented(th)
  BY <1>9 DEF StoreDecremented
<1>10. CASE UseDefault(th)
  BY <1>10 DEF UseDefault, MayCall
<1>11. CASE InvokeDefault(th)
  BY <1>11 DEF InvokeDefault, MayCall
<1> QED
  BY <1>3, <1>4, <1>5, <1>6, <1>7, <1>8, <1>9, <1>10, <1>11 DEF DefaultSteps

LEMMA ClientConstant == [Next]_vars => client' = client
BY DEF Next, vars

LEMMA ContextInvStep == ContextInv /\ [Next]_vars => ContextInv'
<1> SUFFICES ASSUME ContextInv, [Next]_vars PROVE ContextInv'
  OBVIOUS
<1>0. client' = client
  BY ClientConstant
<1> USE <1>0, ContextsAssumption DEF ContextInv
<1>1. ASSUME NEW th \in Threads, DefaultSteps(th) PROVE ContextInv'
  <2>1. /\ call' \in [Threads -> Calls]
        /\ \A other \in Threads : other # th => call'[other] = call[other]
        /\ call'[th].context = NULL
        /\ call'[th].pc \notin {"setContext", "resetContext"}
    BY <1>1, DefaultStepsApart
  <2>2. /\ contextPointer' = contextPointer /\ liveContexts' = liveContexts
        /\ call[th].context = NULL
        /\ defaultContextRefcnt' \in Int /\ libusbRefcnt' \in Nat /\ holds' \in [Threads -> Nat]
    BY <1>1, DefaultStepsApart DEF contextVars
  <2>3. TypeOK'
    BY <2>1, <2>2 DEF TypeOK
  <2>4. CallShape' /\ ObjectsApart'
    BY <2>1, <2>2 DEF TypeOK, CallShape, ObjectsApart
  <2>5. ContextsInStep'
    BY <2>1, <2>2 DEF TypeOK, ContextsInStep
  <2> QED
    BY <2>3, <2>4, <2>5
<1>2. ASSUME NEW th \in Threads, NEW o \in ContextObjects, InitContext(th, o) PROVE ContextInv'
  <2> USE <1>2 DEF InitContext, Owned, MayCall, Begins, Ready
  <2>1. TypeOK'
    BY DEF TypeOK, Calls, InitPcs
  <2>2. CallShape' /\ ObjectsApart'
    <3>1. /\ call'[th].context = o
          /\ \A other \in Threads : other # th => call'[other] = call[other] /\ call'[other].context # o
      BY DEF TypeOK
    <3>2. ASSUME NEW a \in Threads, NEW b \in Threads, a # b,
                 call'[a].context \in ContextObjects, call'[a].context = call'[b].context
          PROVE  call'[a].pc = "use" /\ call'[b].pc = "use"
      <4>1. a # th /\ b # th
        BY <3>1, <3>2
      <4>2. call'[a] = call[a] /\ call'[b] = call[b]
        BY <3>1, <4>1
      <4> QED
        BY <3>2, <4>2 DEF ObjectsApart
    <3>3. ObjectsApart'
      BY <3>2 DEF ObjectsApart
    <3> QED
      BY <3>3 DEF TypeOK, CallShape
  <2>3. ContextsInStep'
    BY DEF TypeOK, ContextsInStep
  <2> QED
    BY <2>1, <2>2, <2>3
<1>3. ASSUME NEW th \in Threads, NEW o \in ContextObjects, ExitContext(th, o) PROVE ContextInv'
  <2> USE <1>3 DEF ExitContext, Owned, MayCall, Begins, Ready, contextVars
  <2>1. TypeOK'
    BY DEF TypeOK, Calls, ExitPcs
  <2>2. CallShape' /\ ObjectsApart'
    <3>1. /\ call'[th].context = o
          /\ \A other \in Threads : other # th => call'[other] = call[other] /\ call'[other].context # o
      BY DEF TypeOK
    <3>2. ASSUME NEW a \in Threads, NEW b \in Threads, a # b,
                 call'[a].context \in ContextObjects, call'[a].context = call'[b].context
          PROVE  call'[a].pc = "use" /\ call'[b].pc = "use"
      <4>1. a # th /\ b # th
        BY <3>1, <3>2
      <4>2. call'[a] = call[a] /\ call'[b] = call[b]
        BY <3>1, <4>1
      <4> QED
        BY <3>2, <4>2 DEF ObjectsApart
    <3>3. ObjectsApart'
      BY <3>2 DEF ObjectsApart
    <3> QED
      BY <3>3 DEF TypeOK, CallShape
  <2>3. ContextsInStep'
    BY DEF TypeOK, ContextsInStep
  <2> QED
    BY <2>1, <2>2, <2>3
<1>4. ASSUME NEW th \in Threads, SetContext(th) PROVE ContextInv'
  <2> USE <1>4 DEF SetContext, Returns, Ready
  <2>0. call[th].context \in ContextObjects
    BY DEF CallShape
  <2>1. TypeOK'
    BY <2>0, ReadyTyped DEF TypeOK
  <2>2. CallShape' /\ ObjectsApart'
    BY DEF TypeOK, CallShape, ObjectsApart
  <2>3. ContextsInStep'
    BY DEF TypeOK, CallShape, ObjectsApart, ContextsInStep
  <2> QED
    BY <2>1, <2>2, <2>3
<1>5. ASSUME NEW th \in Threads, LibusbExitContext(th) PROVE ContextInv'
  <2> USE <1>5 DEF LibusbExitContext, Goes
  <2>1. TypeOK' /\ call[th].context \in ContextObjects
    BY DEF TypeOK, Calls, ExitPcs
  <2>2. CallShape' /\ ObjectsApart'
    BY <2>1 DEF TypeOK, CallShape, ObjectsApart
  <2>3. ContextsInStep'
    BY <2>1 DEF TypeOK, ObjectsApart, ContextsInStep
  <2> QED
    BY <2>1, <2>2, <2>3
<1>6. ASSUME NEW th \in Threads, ResetContext(th) PROVE ContextInv'
  <2> USE <1>6 DEF ResetContext, Returns, Ready
  <2>0. call[th].context \in ContextObjects
    BY DEF CallShape
  <2>1. TypeOK'
    BY <2>0, ReadyTyped DEF TypeOK
  <2>2. CallShape' /\ ObjectsApart'
    BY DEF TypeOK, CallShape, ObjectsApart
  <2>3. ContextsInStep'
    BY DEF TypeOK, CallShape, ObjectsApart, ContextsInStep
  <2> QED
    BY <2>1, <2>2, <2>3
<1>7. ASSUME NEW th \in Threads, NEW o \in ContextObjects, UseContext(th, o) PROVE ContextInv'
  <2> USE <1>7 DEF UseContext, Shared, MayCall, Begins, Ready, contextVars
  <2>1. TypeOK'
    BY DEF TypeOK, Calls, UsePcs
  <2>2. CallShape' /\ ObjectsApart'
    BY DEF TypeOK, CallShape, ObjectsApart
  <2>3. ContextsInStep'
    BY DEF TypeOK, ContextsInStep
  <2> QED
    BY <2>1, <2>2, <2>3
<1>8. ASSUME NEW th \in Threads, LibusbUse(th) PROVE ContextInv'
  <2> USE <1>8 DEF LibusbUse, Returns, Ready, UsePcs, contextVars
  <2>1. TypeOK'
    BY ReadyTyped DEF TypeOK
  <2>2. CallShape' /\ ObjectsApart'
    BY DEF TypeOK, CallShape, ObjectsApart
  <2>3. ContextsInStep'
    BY DEF TypeOK, CallShape, ContextsInStep
  <2> QED
    BY <2>1, <2>2, <2>3
<1>9. CASE UNCHANGED vars
  BY <1>9 DEF vars, TypeOK, CallShape, ObjectsApart, ContextsInStep
<1> QED
  BY <1>1, <1>2, <1>3, <1>4, <1>5, <1>6, <1>7, <1>8, <1>9 DEF Next, ContextSteps

\* Every variable keeps its type, whatever the threads do.
THEOREM ContextsTyped == Spec => []TypeOK
<1>1. ContextInv => TypeOK
  BY DEF ContextInv
<1> QED
  BY InitContextInv, ContextInvStep, <1>1, PTL DEF Spec

\* Explicit contexts: no context is lost, none is named after it has gone, with
\* or without a client lock.
THEOREM ContextsExact == Spec => []ContextPointersExact
<1>1. ContextInv => ContextPointersExact
  BY DEF ContextInv, ContextsInStep, ContextPointersExact
<1> QED
  BY InitContextInv, ContextInvStep, <1>1, PTL DEF Spec

\* A call that takes a Context object to libusb finds its context alive there, in
\* however many threads it is used.
THEOREM ContextsAliveInUse == Spec => []UsedContextsLive
<1>1. ContextInv => UsedContextsLive
  BY DEF ContextInv, TypeOK, Calls, ContextsInStep, ObjectsApart, UsedContextsLive
<1> QED
  BY InitContextInv, ContextInvStep, <1>1, PTL DEF Spec

\* No libusb_init puts a context in the place of a live one, and no libusb_exit is called
\* for a context that has gone: what checks in init and exit leave to two separate steps.
THEOREM ContextsNeverReplaced ==
  Spec => [][\A th \in Threads :
                /\ \A o \in ContextObjects : InitContext(th, o) => o \notin liveContexts
                /\ LibusbExitContext(th) => call[th].context \in liveContexts]_vars
<1> DEFINE NoneReplaced ==
      \A th \in Threads :
          /\ \A o \in ContextObjects : InitContext(th, o) => o \notin liveContexts
          /\ LibusbExitContext(th) => call[th].context \in liveContexts
<1>1. ContextInv => NoneReplaced
  <2> SUFFICES ASSUME ContextInv, NEW th \in Threads
               PROVE  /\ \A o \in ContextObjects : InitContext(th, o) => o \notin liveContexts
                      /\ LibusbExitContext(th) => call[th].context \in liveContexts
    OBVIOUS
  <2>1. ASSUME NEW o \in ContextObjects, InitContext(th, o) PROVE o \notin liveContexts
    BY <2>1 DEF ContextInv, ContextsInStep, InitContext, Owned
  <2>2. ASSUME LibusbExitContext(th) PROVE call[th].context \in liveContexts
    BY <2>2 DEF ContextInv, TypeOK, Calls, ContextsInStep, ObjectsApart, LibusbExitContext
  <2> QED
    BY <2>1, <2>2
<1> HIDE DEF NoneReplaced
<1>2. Spec => [][NoneReplaced]_vars
  BY <1>1, InitContextInv, ContextInvStep, PTL DEF Spec
<1> QED
  BY <1>2 DEF NoneReplaced

-----------------------------------------------------------------------------
(***************************************************************************)
(* The default context under one lock around every call, or in a program   *)
(* of one thread: calls come one at a time.                                *)
(***************************************************************************)
OneThread == \A a, b \in Threads : a = b

Serial == client.locks \/ OneThread

OneCall == \A a, b \in Threads : ~Idle(a) /\ ~Idle(b) => a = b

\* How far apart the two counts are at each step of init and exit.
Counts(pc, loaded) ==
    /\ pc \in {"load+", "store+"} => libusbRefcnt = defaultContextRefcnt + 1
    /\ pc \in {"load-", "store-"} => libusbRefcnt = defaultContextRefcnt - 1
    /\ pc \in {"store+", "store-"} => loaded = defaultContextRefcnt
    /\ pc \notin {"load+", "store+", "load-", "store-"} => libusbRefcnt = defaultContextRefcnt

LockedInv ==
    /\ ContextInv /\ OneCall
    /\ \A th \in Threads : ~Idle(th) =>
         /\ Counts(call[th].pc, call[th].loaded)
         /\ call[th].pc \in {"use", "libusb_exit"} /\ call[th].context = NULL => libusbRefcnt > 0
    /\ (\A th \in Threads : Idle(th)) => defaultContextRefcnt = libusbRefcnt

LEMMA InitLockedInv == Init => LockedInv
BY InitContextInv DEF Init, LockedInv, OneCall, Idle

LEMMA LockedInvStep ==
  ASSUME Serial, LockedInv, [Next]_vars
  PROVE  LockedInv'
<1> USE ContextsAssumption
<1>1. ContextInv'
  BY ContextInvStep DEF LockedInv
<1>2. /\ defaultContextRefcnt \in Int /\ libusbRefcnt \in Nat
      /\ call \in [Threads -> Calls]
      /\ \A th \in Threads : call[th].loaded \in Int
  BY DEF LockedInv, ContextInv, TypeOK, Calls
<1>3. ASSUME NEW th \in Threads, DefaultSteps(th) \/ ContextSteps(th) \/ LibusbUse(th)
      PROVE  OneCall' /\ (\A other \in Threads : other # th => Idle(other) /\ Idle(other)')
  <2>1. \A other \in Threads : other # th => Idle(other)
    <3>1. MayCall(th) \/ ~Idle(th)
      BY <1>3, <1>2 DEF DefaultSteps, ContextSteps, InitDefault, LoadToIncrement,
         StoreIncremented, ExitDefault, MayExitDefault, LibusbExitDefault, LoadToDecrement,
         StoreDecremented, UseDefault, InvokeDefault, InitContext, SetContext, ExitContext,
         LibusbExitContext, ResetContext, UseContext, Owned, Shared, LibusbUse, UsePcs, Idle, Ready
    <3> QED
      BY <3>1 DEF MayCall, LockedInv, OneCall, Idle, Serial, OneThread
  <2>2. \A other \in Threads : other # th => call'[other] = call[other]
    BY <1>3, <1>2 DEF DefaultSteps, ContextSteps, InitDefault, LoadToIncrement,
       StoreIncremented, ExitDefault, LibusbExitDefault, LoadToDecrement, StoreDecremented,
       UseDefault, InvokeDefault, InitContext, SetContext, ExitContext, UseContext, LibusbUse,
       LibusbExitContext, ResetContext, Goes, Returns, Begins
  <2> QED
    BY <2>1, <2>2 DEF OneCall, Idle
<1>4. ASSUME NEW th \in Threads, DefaultSteps(th) \/ ContextSteps(th) \/ LibusbUse(th)
      PROVE  /\ ~Idle(th)' => Counts(call[th].pc, call[th].loaded)'
             /\ (call[th].pc \in {"use", "libusb_exit"} /\ call[th].context = NULL)'
                  => (libusbRefcnt > 0)'
             /\ Idle(th)' => (defaultContextRefcnt = libusbRefcnt)'
  <2>1. /\ Idle(th) => defaultContextRefcnt = libusbRefcnt
        /\ ~Idle(th) => Counts(call[th].pc, call[th].loaded)
        /\ call[th].pc \in {"use", "libusb_exit"} /\ call[th].context = NULL => libusbRefcnt > 0
    BY <1>3, <1>4 DEF LockedInv, Idle, Ready
  <2>2. MayCall(th) => Idle(th)
    BY DEF MayCall, Idle
  <2> USE <1>2, <2>1, <2>2 DEF Idle, Ready, Counts, Goes, Returns, Begins, contextVars
  <2>3. CASE InitDefault(th)
    BY <2>3 DEF InitDefault
  <2>4. CASE LoadToIncrement(th)
    BY <2>4 DEF LoadToIncrement
  <2>5. CASE StoreIncremented(th)
    BY <2>5 DEF StoreIncremented
  <2>6. CASE ExitDefault(th)
    BY <2>6 DEF ExitDefault, MayExitDefault, ExitRejected
  <2>7. CASE LibusbExitDefault(th)
    BY <2>7 DEF LibusbExitDefault
  <2>8. CASE LoadToDecrement(th)
    BY <2>8 DEF LoadToDecrement
  <2>9. CASE StoreDecremented(th)
    BY <2>9 DEF StoreDecremented
  <2>10. CASE UseDefault(th)
    BY <2>10 DEF UseDefault, ValidationFails
  <2>11. CASE InvokeDefault(th) \/ LibusbUse(th)
    BY <2>11 DEF InvokeDefault, LibusbUse, UsePcs
  <2>12. ASSUME NEW o \in ContextObjects,
                InitContext(th, o) \/ ExitContext(th, o) \/ UseContext(th, o)
         PROVE  /\ ~Idle(th)' => Counts(call[th].pc, call[th].loaded)'
                /\ call'[th].context # NULL
                /\ ~Idle(th)'
    BY <2>12 DEF InitContext, ExitContext, UseContext, Owned, Shared
  <2>13. CASE SetContext(th)
    BY <2>13 DEF SetContext
  <2>14. CASE LibusbExitContext(th)
    BY <2>14 DEF LibusbExitContext
  <2>15. CASE ResetContext(th)
    BY <2>15 DEF ResetContext
  <2> QED
    BY <1>4, <2>3, <2>4, <2>5, <2>6, <2>7, <2>8, <2>9, <2>10, <2>11, <2>12, <2>13, <2>14, <2>15
    DEF DefaultSteps, ContextSteps
<1>5. CASE UNCHANGED vars
  BY <1>1, <1>5 DEF vars, LockedInv, OneCall, Idle, Counts
<1>6. ASSUME NEW th \in Threads, DefaultSteps(th) \/ ContextSteps(th) \/ LibusbUse(th)
      PROVE  LockedInv'
  BY <1>1, <1>3, <1>4, <1>6 DEF LockedInv, Idle, Ready
<1> QED
  BY <1>5, <1>6 DEF Next

LEMMA SerialInvariance == Spec => [](Serial => LockedInv)
<1>1. (Serial => LockedInv) /\ [Next]_vars => (Serial => LockedInv)'
  BY LockedInvStep, ClientConstant DEF Serial
<1>2. Init => (Serial => LockedInv)
  BY InitLockedInv
<1> QED
  BY <1>1, <1>2, PTL DEF Spec

LEMMA LockedInvariance == Spec => [](client.locks => LockedInv)
<1>1. (Serial => LockedInv) => (client.locks => LockedInv)
  BY DEF Serial
<1> QED
  BY <1>1, SerialInvariance, PTL

\* With a client lock around every call the two counts of the default context
\* agree between calls.
THEOREM CountersStayInStep == Spec => []CountersAgree
<1>1. (client.locks => LockedInv) => CountersAgree
  BY DEF LockedInv, CountersAgree, Idle
<1> QED
  BY <1>1, LockedInvariance, PTL

\* With that lock a call that has passed its check finds a default context when
\* it comes to libusb.
THEOREM ChecksHold == Spec => []CheckedCallsHaveContext
<1>1. (client.locks => LockedInv) => CheckedCallsHaveContext
  BY DEF LockedInv, CheckedCallsHaveContext, Idle, Ready
<1> QED
  BY <1>1, LockedInvariance, PTL

\* With that lock nobody is turned away while there is a default context.
THEOREM HoldersAreAccepted == Spec => []HoldersAccepted
<1>1. (client.locks => LockedInv) => HoldersAccepted
  BY DEF LockedInv, ContextInv, TypeOK, HoldersAccepted, MayCall, Idle, ExitRejected,
     ValidationFails
<1> QED
  BY <1>1, LockedInvariance, PTL

\* A program of one thread needs no lock: its two counts agree between calls.
THEOREM OneThreadCounts ==
  OneThread => (Spec => []((\A th \in Threads : call[th] = Ready)
                              => defaultContextRefcnt = libusbRefcnt))
<1> SUFFICES ASSUME OneThread
             PROVE  Spec => []((\A th \in Threads : call[th] = Ready)
                                  => defaultContextRefcnt = libusbRefcnt)
  OBVIOUS
<1>1. (Serial => LockedInv)
        => ((\A th \in Threads : call[th] = Ready) => defaultContextRefcnt = libusbRefcnt)
  BY DEF Serial, LockedInv, Idle
<1> QED
  BY <1>1, SerialInvariance, PTL

\* "Validates the default context by making sure the reference counter is larger
\* than 0" (LibUsb.c:41) is true of programs that lock every call and of programs of
\* one thread: VALIDATE_DEFAULT_CONTEXT tests for 0, and there the counter is never
\* negative where it is tested.  The run contexts_drift shows that it is not true
\* of others.
THEOREM ValidationMeansPositive ==
  OneThread \/ (\A k \in Clients : k.locks) => (Spec => ValidatedCounterPositive)
<1> SUFFICES ASSUME OneThread \/ (\A k \in Clients : k.locks)
             PROVE  Spec => ValidatedCounterPositive
  OBVIOUS
<1> DEFINE Positive ==
      \A th \in Threads :
          call[th].pc = "ready" /\ call'[th].pc = "use" /\ call'[th].context = NULL
              => defaultContextRefcnt > 0
<1>1. TypeOK /\ (Serial => LockedInv) => LockedInv
  BY DEF TypeOK, Serial
<1>2. LockedInv /\ [Next]_vars => [Positive]_vars
  <2> SUFFICES ASSUME LockedInv, Next, NEW th \in Threads, call[th].pc = "ready",
                      call'[th].pc = "use", call'[th].context = NULL
               PROVE  defaultContextRefcnt > 0
    OBVIOUS
  <2> USE ContextsAssumption
  <2>1. call \in [Threads -> Calls] /\ defaultContextRefcnt \in Int /\ libusbRefcnt \in Nat
    BY DEF LockedInv, ContextInv, TypeOK
  <2>2. PICK by \in Threads : DefaultSteps(by) \/ ContextSteps(by) \/ LibusbUse(by)
    BY DEF Next
  <2>3. by = th /\ UseDefault(th)
    BY <2>1, <2>2 DEF DefaultSteps, ContextSteps, InitDefault, LoadToIncrement,
       StoreIncremented, ExitDefault, LibusbExitDefault, LoadToDecrement, StoreDecremented,
       UseDefault, InvokeDefault, InitContext, SetContext, ExitContext, UseContext, LibusbUse,
       LibusbExitContext, ResetContext, Goes, Returns, Begins, Ready
  <2>4. \A other \in Threads : Idle(other)
    BY <2>3 DEF UseDefault, MayCall, Idle, OneThread, LockedInv, ContextInv, TypeOK
  <2> QED
    BY <2>1, <2>3, <2>4 DEF LockedInv, UseDefault, ValidationFails
<1> QED
  BY <1>1, <1>2, ContextsTyped, SerialInvariance, PTL DEF Spec, ValidatedCounterPositive
-----------------------------------------------------------------------------
(***************************************************************************)
(* The default context of balanced clients, without a lock.  A claim to it *)
(* begins with libusb_init and ends with libusb_exit, both under libusb's  *)
(* own lock, while holds changes when a call returns: libusb counts exactly*)
(* the claims.                                                             *)
(***************************************************************************)
Claims(th) ==
    holds[th] + (IF call[th].pc \in {"load+", "store+"} THEN 1 ELSE 0)
              - (IF call[th].pc \in {"load-", "store-"} THEN 1 ELSE 0)

Tokens == {t \in Threads \X (Nat \ {0}) : t[2] <= Claims(t[1])}

Undoing(th) == call[th].pc \in {"libusb_exit", "load-", "store-"} /\ call[th].context = NULL

ClaimsInv ==
    /\ ContextInv
    /\ IsFiniteSet(Tokens) /\ libusbRefcnt = Cardinality(Tokens)
    /\ \A th \in Threads : Undoing(th) => holds[th] > 0

LEMMA InitClaimsInv == Init => ClaimsInv
<1> SUFFICES ASSUME Init PROVE ClaimsInv
  OBVIOUS
<1>1. ContextInv
  BY InitContextInv
<1>2. ASSUME NEW th \in Threads
      PROVE  Claims(th) = 0
  <2>1. call[th].pc = "ready" /\ holds[th] = 0
    BY DEF Init, Ready
  <2> QED
    BY <2>1 DEF Claims
<1>3. Tokens = {}
  BY <1>2 DEF Tokens
<1> QED
  BY <1>1, <1>3, FS_EmptySet DEF Init, ClaimsInv, Undoing, Ready

LEMMA ClaimsTyped ==
  ASSUME ContextInv, NEW th \in Threads
  PROVE  Claims(th) \in Int
BY DEF ContextInv, TypeOK, Claims

\* Steps that leave every claim as it was.
LEMMA TokensSame ==
  ASSUME ClaimsInv, \A th \in Threads : Claims(th)' = Claims(th), libusbRefcnt' = libusbRefcnt
  PROVE  IsFiniteSet(Tokens)' /\ libusbRefcnt' = Cardinality(Tokens)'
<1>1. Tokens' = Tokens
  BY DEF Tokens
<1> QED
  BY <1>1 DEF ClaimsInv

LEMMA TokenAdded ==
  ASSUME ClaimsInv, NEW th \in Threads, Claims(th) >= 0, Claims(th)' = Claims(th) + 1,
         \A other \in Threads : other # th => Claims(other)' = Claims(other),
         libusbRefcnt' = libusbRefcnt + 1
  PROVE  IsFiniteSet(Tokens)' /\ libusbRefcnt' = Cardinality(Tokens)'
<1> DEFINE token == <<th, Claims(th) + 1>>
<1>1. Claims(th) \in Int /\ \A other \in Threads : Claims(other) \in Int
  BY ClaimsTyped DEF ClaimsInv
<1>2. token \notin Tokens
  BY <1>1 DEF Tokens
<1>3. Tokens' = Tokens \cup {token}
  <2>1. ASSUME NEW other \in Threads, NEW i \in Nat \ {0}
        PROVE  i <= Claims(other)' <=> i <= Claims(other) \/ <<other, i>> = token
    BY <1>1
  <2> QED
    BY <1>1, <2>1 DEF Tokens
<1>4. IsFiniteSet(Tokens') /\ Cardinality(Tokens') = Cardinality(Tokens) + 1
  BY <1>2, <1>3, FS_AddElement DEF ClaimsInv
<1> QED
  BY <1>4 DEF ClaimsInv

LEMMA TokenRemoved ==
  ASSUME ClaimsInv, NEW th \in Threads, Claims(th) > 0, Claims(th)' = Claims(th) - 1,
         \A other \in Threads : other # th => Claims(other)' = Claims(other),
         libusbRefcnt' = libusbRefcnt - 1
  PROVE  IsFiniteSet(Tokens)' /\ libusbRefcnt' = Cardinality(Tokens)'
<1> DEFINE token == <<th, Claims(th)>>
<1>1. Claims(th) \in Int /\ \A other \in Threads : Claims(other) \in Int
  BY ClaimsTyped DEF ClaimsInv
<1>2. token \in Tokens
  BY <1>1 DEF Tokens
<1>3. Tokens' = Tokens \ {token}
  <2>1. ASSUME NEW other \in Threads, NEW i \in Nat \ {0}
        PROVE  i <= Claims(other)' <=> i <= Claims(other) /\ <<other, i>> # token
    BY <1>1
  <2> QED
    BY <1>1, <2>1 DEF Tokens
<1>4. IsFiniteSet(Tokens') /\ Cardinality(Tokens') = Cardinality(Tokens) - 1
  BY <1>2, <1>3, FS_RemoveElement DEF ClaimsInv
<1> QED
  BY <1>4 DEF ClaimsInv

LEMMA ClaimCounted ==
  ASSUME ClaimsInv, NEW th \in Threads, Claims(th) > 0
  PROVE  libusbRefcnt > 0
<1>1. <<th, 1>> \in Tokens
  BY ClaimsTyped DEF Tokens, ClaimsInv
<1> QED
  BY <1>1, FS_EmptySet, FS_CardinalityType DEF ClaimsInv

\* What a step of a balanced client does to its own claims.
LEMMA DefaultStepsClaims ==
  ASSUME client.balanced, ClaimsInv, NEW th \in Threads, DefaultSteps(th)
  PROVE  /\ IsFiniteSet(Tokens)' /\ libusbRefcnt' = Cardinality(Tokens)'
         /\ Undoing(th)' => (holds[th] > 0)'
<1>1. /\ call \in [Threads -> Calls] /\ holds \in [Threads -> Nat] /\ libusbRefcnt \in Nat
      /\ holds[th] \in Nat
      /\ Undoing(th) => holds[th] > 0
      /\ call[th].pc \in {"load-", "store-"} => Undoing(th)
      /\ call'[th].context = NULL
  BY DefaultStepsApart DEF ClaimsInv, ContextInv, TypeOK, CallShape, Undoing
<1>2. ASSUME NEW other \in Threads, other # th
      PROVE  Claims(other)' = Claims(other)
  <2>1. call'[other] = call[other]
    BY <1>2, DefaultStepsApart DEF ClaimsInv
  <2>2. holds'[other] = holds[other]
    BY <1>1, <1>2 DEF DefaultSteps, InitDefault, LoadToIncrement, StoreIncremented, ExitDefault,
       LibusbExitDefault, LoadToDecrement, StoreDecremented, UseDefault, InvokeDefault
  <2> QED
    BY <2>1, <2>2 DEF Claims
<1>3. CASE InitDefault(th)
  <2>1. /\ call[th].pc = "ready" /\ call'[th].pc = "load+"
        /\ holds' = holds /\ libusbRefcnt' = libusbRefcnt + 1
    BY <1>1, <1>3 DEF InitDefault, MayCall, Ready, Goes
  <2>2. Claims(th) = holds[th] /\ Claims(th)' = holds[th] + 1
    BY <1>1, <2>1 DEF Claims
  <2> QED
    BY <1>1, <1>2, <2>1, <2>2, TokenAdded DEF Undoing
<1>4. CASE LoadToIncrement(th)
  <2>1. /\ call[th].pc = "load+" /\ call'[th].pc = "store+"
        /\ holds' = holds /\ libusbRefcnt' = libusbRefcnt
    BY <1>1, <1>4 DEF LoadToIncrement, Goes
  <2>2. Claims(th)' = Claims(th)
    BY <1>1, <2>1 DEF Claims
  <2> QED
    BY <1>2, <2>1, <2>2, TokensSame DEF Undoing
<1>5. CASE StoreIncremented(th)
  <2>1. /\ call[th].pc = "store+" /\ call'[th].pc = "ready"
        /\ holds'[th] = holds[th] + 1 /\ libusbRefcnt' = libusbRefcnt
    BY <1>1, <1>5 DEF StoreIncremented, Returns, Ready
  <2>2. Claims(th)' = Claims(th)
    BY <1>1, <2>1 DEF Claims
  <2> QED
    BY <1>2, <2>1, <2>2, TokensSame DEF Undoing
<1>6. CASE ExitDefault(th)
  <2>1. /\ call[th].pc = "ready" /\ call'[th].pc = "libusb_exit" /\ holds[th] > 0
        /\ holds' = holds /\ libusbRefcnt' = libusbRefcnt
    BY <1>1, <1>6 DEF ExitDefault, MayExitDefault, MayCall, Ready, Goes
  <2>2. Claims(th)' = Claims(th)
    BY <1>1, <2>1 DEF Claims
  <2> QED
    BY <1>2, <2>1, <2>2, TokensSame DEF Undoing
<1>7. CASE LibusbExitDefault(th)
  <2>1. /\ call[th].pc = "libusb_exit" /\ call'[th].pc = "load-" /\ holds[th] > 0
        /\ holds' = holds /\ libusbRefcnt' = IF libusbRefcnt = 0 THEN 0 ELSE libusbRefcnt - 1
    BY <1>1, <1>7 DEF LibusbExitDefault, Goes, Undoing
  <2>2. Claims(th) = holds[th] /\ Claims(th)' = Claims(th) - 1
    BY <1>1, <2>1 DEF Claims
  <2>3. libusbRefcnt' = libusbRefcnt - 1
    BY <2>1, <2>2, ClaimCounted
  <2> QED
    BY <1>2, <2>1, <2>2, <2>3, TokenRemoved DEF Undoing
<1>8. CASE LoadToDecrement(th)
  <2>1. /\ call[th].pc = "load-" /\ call'[th].pc = "store-"
        /\ holds' = holds /\ libusbRefcnt' = libusbRefcnt
    BY <1>1, <1>8 DEF LoadToDecrement, Goes
  <2>2. Claims(th)' = Claims(th)
    BY <1>1, <2>1 DEF Claims
  <2>3. holds[th] > 0
    BY <1>1, <2>1
  <2> QED
    BY <1>2, <2>1, <2>2, <2>3, TokensSame DEF Undoing
<1>9. CASE StoreDecremented(th)
  <2>0. call[th].pc = "store-" /\ holds[th] > 0
    BY <1>1, <1>9 DEF StoreDecremented
  <2>1. /\ call[th].pc = "store-" /\ call'[th].pc = "ready"
        /\ holds'[th] = holds[th] - 1 /\ libusbRefcnt' = libusbRefcnt
    BY <1>1, <1>9, <2>0 DEF StoreDecremented, Returns, Ready
  <2>2. Claims(th)' = Claims(th)
    BY <1>1, <2>1 DEF Claims
  <2> QED
    BY <1>2, <2>1, <2>2, TokensSame DEF Undoing
<1>10. CASE UseDefault(th) \/ InvokeDefault(th)
  <2>1. /\ call[th].pc = "ready" /\ call'[th].pc \in {"use", "invoke"}
        /\ holds' = holds /\ libusbRefcnt' = libusbRefcnt
    BY <1>1, <1>10 DEF UseDefault, InvokeDefault, MayCall, Ready, Goes
  <2>2. Claims(th)' = Claims(th)
    BY <1>1, <2>1 DEF Claims
  <2> QED
    BY <1>2, <2>1, <2>2, TokensSame DEF Undoing
<1> QED
  BY <1>3, <1>4, <1>5, <1>6, <1>7, <1>8, <1>9, <1>10 DEF DefaultSteps

\* Calls with a Context object, and the end of a use, change no claim.
LEMMA OtherStepsClaims ==
  ASSUME ClaimsInv, NEW th \in Threads, ContextSteps(th) \/ LibusbUse(th)
  PROVE  /\ IsFiniteSet(Tokens)' /\ libusbRefcnt' = Cardinality(Tokens)'
         /\ ~Undoing(th)'
<1>1. call \in [Threads -> Calls]
  BY DEF ClaimsInv, ContextInv, TypeOK
<1>2. /\ holds' = holds /\ libusbRefcnt' = libusbRefcnt
      /\ \A other \in Threads : other # th => call'[other] = call[other]
  BY <1>1 DEF ContextSteps, InitContext, ExitContext, UseContext, SetContext, LibusbExitContext,
     ResetContext, LibusbUse, Begins, Goes, Returns
<1>3. /\ call[th].pc \in {"ready", "setContext", "libusb_exit", "resetContext", "use", "invoke"}
      /\ call'[th].pc \in {"ready", "setContext", "libusb_exit", "resetContext", "use"}
      /\ call'[th].pc = "libusb_exit" => call'[th].context # NULL
  BY <1>1, ContextsAssumption
  DEF ContextSteps, InitContext, ExitContext, UseContext, SetContext, LibusbExitContext,
      ResetContext, LibusbUse, UsePcs, Begins, Goes, Returns, Owned, Shared, MayCall, Ready
<1>4. \A other \in Threads : Claims(other)' = Claims(other)
  BY <1>2, <1>3 DEF Claims
<1> QED
  BY <1>2, <1>3, <1>4, TokensSame DEF Undoing

LEMMA ClaimsInvStep ==
  ASSUME client.balanced, ClaimsInv, [Next]_vars
  PROVE  ClaimsInv'
<1>1. ContextInv'
  BY ContextInvStep DEF ClaimsInv
<1>2. ASSUME NEW th \in Threads, DefaultSteps(th) \/ ContextSteps(th) \/ LibusbUse(th)
      PROVE  ClaimsInv'
  <2>1. \A other \in Threads : other # th => call'[other] = call[other] /\ holds'[other] = holds[other]
    BY <1>2 DEF ClaimsInv, ContextInv, TypeOK, DefaultSteps, InitDefault, LoadToIncrement,
       StoreIncremented, ExitDefault, LibusbExitDefault, LoadToDecrement, StoreDecremented,
       UseDefault, InvokeDefault, ContextSteps, InitContext, ExitContext, UseContext, SetContext,
       LibusbExitContext, ResetContext, LibusbUse, Begins, Goes, Returns
  <2>2. /\ IsFiniteSet(Tokens)' /\ libusbRefcnt' = Cardinality(Tokens)'
        /\ Undoing(th)' => (holds[th] > 0)'
    BY <1>2, DefaultStepsClaims, OtherStepsClaims
  <2>3. ASSUME NEW other \in Threads,
               Undoing(other)'
        PROVE  (holds[other] > 0)'
    <3>1. CASE other = th
      BY <2>2, <2>3, <3>1
    <3>2. CASE other # th
      BY <2>1, <2>3, <3>2 DEF ClaimsInv, Undoing
    <3> QED
      BY <3>1, <3>2
  <2> QED
    BY <1>1, <2>2, <2>3 DEF ClaimsInv
<1>3. CASE UNCHANGED vars
  <2>1. /\ call' = call /\ holds' = holds /\ libusbRefcnt' = libusbRefcnt
    BY <1>3 DEF vars
  <2>2. \A th \in Threads : Claims(th)' = Claims(th)
    BY <2>1 DEF Claims
  <2> QED
    BY <1>1, <2>1, <2>2, TokensSame DEF ClaimsInv, Undoing
<1> QED
  BY <1>2, <1>3 DEF Next

LEMMA ClaimsInvariance == Spec => [](client.balanced => ClaimsInv)
<1>1. Init => (client.balanced => ClaimsInv)
  BY InitClaimsInv
<1>2. (client.balanced => ClaimsInv) /\ [Next]_vars => (client.balanced => ClaimsInv)'
  BY ClaimsInvStep, ClientConstant
<1> QED
  BY <1>1, <1>2, PTL DEF Spec

\* A balanced client keeps the default context for as long as it holds it, with no
\* lock at all, though usb4java's own count of it may go astray.
THEOREM HeldContextStays == Spec => []HeldContextExists
<1>1. (client.balanced => ClaimsInv) => HeldContextExists
  <2> SUFFICES ASSUME ClaimsInv, NEW th \in Threads, holds[th] > 0,
                      call[th].pc \notin {"load-", "store-"}
               PROVE  libusbRefcnt > 0
    BY DEF HeldContextExists
  <2>1. Claims(th) > 0
    BY DEF Claims, ClaimsInv, ContextInv, TypeOK
  <2> QED
    BY <2>1, ClaimCounted
<1> QED
  BY <1>1, ClaimsInvariance, PTL

\* What usb4java asks of libusb for balanced clients is itself balanced, with no lock:
\* libusb_exit(NULL) is never called without a default context, and none is left when
\* every init(null) has been undone, whatever usb4java's own counter has become.
THEOREM DefaultContextBalanced ==
  Spec => [](client.balanced =>
                /\ \A th \in Threads :
                      call[th].pc = "libusb_exit" /\ call[th].context = NULL => libusbRefcnt > 0
                /\ (\A th \in Threads : call[th] = Ready /\ holds[th] = 0) => libusbRefcnt = 0)
<1>1. ASSUME ClaimsInv
      PROVE  \A th \in Threads :
                call[th].pc = "libusb_exit" /\ call[th].context = NULL => libusbRefcnt > 0
  <2> SUFFICES ASSUME NEW th \in Threads, call[th].pc = "libusb_exit", call[th].context = NULL
               PROVE  libusbRefcnt > 0
    OBVIOUS
  <2>1. holds[th] > 0
    BY <1>1 DEF ClaimsInv, Undoing
  <2>2. Claims(th) > 0
    BY <1>1, <2>1 DEF Claims, ClaimsInv, ContextInv, TypeOK
  <2> QED
    BY <1>1, <2>2, ClaimCounted
<1>2. ASSUME ClaimsInv, \A th \in Threads : call[th] = Ready /\ holds[th] = 0
      PROVE  libusbRefcnt = 0
  <2>1. ASSUME NEW th \in Threads PROVE Claims(th) = 0
    <3>1. call[th].pc = "ready" /\ holds[th] = 0
      BY <1>2 DEF Ready
    <3> QED
      BY <3>1 DEF Claims
  <2>2. Tokens = {}
    BY <2>1 DEF Tokens
  <2> QED
    BY <1>2, <2>2, FS_EmptySet DEF ClaimsInv
<1>3. (client.balanced => ClaimsInv) =>
        (client.balanced =>
            /\ \A th \in Threads :
                  call[th].pc = "libusb_exit" /\ call[th].context = NULL => libusbRefcnt > 0
            /\ (\A th \in Threads : call[th] = Ready /\ holds[th] = 0) => libusbRefcnt = 0)
  BY <1>1, <1>2
<1> QED
  BY <1>3, ClaimsInvariance, PTL
=============================================================================
