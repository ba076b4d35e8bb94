# A TLA+ model of libusb4java

libusb4java is the native half of usb4java: C functions, called through JNI, that put the
libusb API under the Java class `org.usb4java.LibUsb`. It keeps little state of its own. What
it has is spread over three worlds with different rules of life: Java objects with one `long`
field that holds a C pointer, memory and reference counts of libusb, and JNI global references.
Most that can go wrong here is a disagreement between two of them: a field that still names
memory that is gone, memory that no field names any more, a reference deleted while C code
holds it, a counter kept twice, a number that is not the same on both sides. That is what these
modules are about.

Paths below are relative to `src/src/` of the repository.

## Inventory

| component | state it keeps | operations | module |
|---|---|---|---|
| Asynchronous transfers (`Transfer.c`, `LibUsb.c` 1696-1783) | `transferPointer` of the Java object, `libusb_transfer`, `struct transfer_data` with three global references | allocTransfer, setCallback, setUserData, setFlags, submitTransfer, cancelTransfer, freeTransfer; callbacks `transferCallback`, `cleanupCallback` | `Transfers` |
| Transfer fields and ISO packets (`Transfer.c`, `IsoPacketDescriptor.c`) | `buffer` of the transfer, the Java field `transferBuffer`, the packets behind the transfer | setBuffer, setNumIsoPackets, isoPacketDesc; setLength, setIsoPacketLengths and the accessors | `TransferFields`, the types of the others in `Conversions` |
| Contexts (`Context.c`, `LibUsb.c` 38-139, and every method with a Context argument) | `defaultContextRefcnt`, libusb's count of the default context, `contextPointer` | init, exit, the calls that use `VALIDATE_DEFAULT_CONTEXT`, those that do not | `Contexts` |
| Devices, lists, handles (`Device*.c`, `LibUsb.c` 167-441) | libusb's reference count of each device, lists, open handles, three pointer fields | getDeviceList, freeDeviceList, DeviceList.get, refDevice, unrefDevice, getParent, open, openDeviceWithVidPid, close, getDevice, hotplug callbacks | `Devices` |
| Descriptors and BOS capabilities (`*Descriptor.c`, `Interface.c`, `LibUsb.c` 811-1219) | blocks libusb allocates, pointer fields of roots and of views into the blocks, the buffer of a DeviceDescriptor | get and free functions, accessors, views | `Descriptors`, types in `Calls` |
| Callbacks into Java, hotplug (`usb4java.h` 105-127, `HotplugCallbackHandle.c`, `LibUsb.c` 1589-1627, 1785-1871) | which threads are attached to the JVM, `result` of each callback, registrations, `hotplugCallbackHandleValue` | THREAD_BEGIN, THREAD_END, register, deregister, the callbacks | `Callbacks` |
| Synchronous transfers, strings, streams (`LibUsb.c` 567-630, 873-904, 1221-1320) | none between calls; the client's buffer for a count | controlTransfer, bulkTransfer, interruptTransfer, getStringDescriptorAscii, allocStreams, freeStreams, getPortNumbers | `Calls` |
| Pollfds and their notifiers (`Pollfd*.c`, `LibUsb.c` 1457-1627) | a list behind a Java object and its size | getPollfds, freePollfds, Pollfds.get, two callbacks | the list in `Calls`, the callbacks in `Callbacks`, the argument in `Contexts` |
| Event handling, event locks (`LibUsb.c` 1322-1588) | none here | one libusb call each; four of them take a timeout, one gives one | the Context argument in `Contexts`, the timeouts in `Calls` |
| Operations on handles | none here | one libusb call each | their arguments, and getConfiguration, in `Calls` |
| Versions, locale, errors, options; loading; build | constants, method ids | | not modelled |

**How they interact.** Calls go from Java to C to libusb. libusb calls back (`transferCallback`,
`cleanupCallback`, `hotplugCallback`, `triggerPollfdAdded`, `triggerPollfdRemoved`) on whatever
thread is in a call to it or on one of its own, and the callbacks call Java, which may call the
library again. Devices are shared by lists, handles, callbacks and Java objects through libusb's
count. There is not one lock in the C code.

**What is hard.** Completions race with calls on the same transfer; a callback's Java code runs
in the middle of the callback and may change what it is about to clean up; callbacks nest, on
threads that were attached to the JVM before or were not; `defaultContextRefcnt` is an unlocked
`int`; devices are unplugged while named; addresses are used again after a free; the memory of a
ByteBuffer is kept from the collector by a chain of two references; a libusb call can fail between
a check and an assignment; every number changes its type twice.

**What makes each part correct** is stated by the properties below. `PROJECT.json` lists the
hazards, each with its line and the properties that cover it, or why none does.

## Modules

Each component has a module, an `MC` module with its small sets, and a `Proof` module. A few
modules stand between components. `TransferLifecycle` says what a transfer's life is:
`Transfers` implements it and `TransferFields` is built upon it, so that the memory of buffers
is checked without the steps of registration and cleanup in between. `Ownership` says what a
pointer field promises: it is implemented by device lists, by device handles, by the roots of
descriptors and by hotplug registrations. `Conversions` has the casts and the types of all
accessors, which `Calls` uses.

### Transfers

State: one function per field of the C structures and of the Java object (`transferPointer`,
`flags`, `callback`, `transferObject`, `callbackObject`, `callbackUserDataObject`), whether the
two blocks of memory are allocated (`native`, `userData`), the set `liveRefs` of global
references, what native method each thread is inside of (`call`) and the completion callback
under way (`frame`). libusb runs completions under its event lock, hence one `frame`, whose
Java code runs on `EventThread`.

Steps: a method that reads `transferPointer` and then uses what it got is at least two steps
(`SubmitTransfer`, `LibusbSubmit`). `freeTransfer` is five, one per line of its body
(`FreeTransfer`, `FreeRefs`, `FreeReset`, `FreeData`, `FreeNative`). A callback enters (saving
what the code saves in locals), calls Java (`frame.pc = "java"`; the steps of other actions on
`EventThread` are its Java code), returns, and cleans up in three steps if
`LIBUSB_TRANSFER_FREE_TRANSFER` was set when it read the flags. `MayUse`, `MayRelease` and
`MayCancel` are libusb's rules for clients: a transfer is left alone while in flight, save for
cancelling, and has one user at a time.

`FlagValues` and `RebindInFreeCallback` select what clients do. With the latter, the callback
of a transfer about to be freed may set its callback again: nothing forbids it, and it breaks
`SavedRefStillLive` (finding below), so the passing run switches it off and the theorems that
need it off say so.

After an automatic free the code resets the Java object through a reference it has just
deleted. What that does depends on the JVM; the model lets it happen or not
(`CallbackReset`), and such an object is then left alone (`native = "autoFreed"`).

`TransferLifecycle` has phases of a transfer, a listener, a notice. Each completion is told once,
to the listener registered at that moment; then the transfer is idle again or, if its flags said
so, released. `TransfersRefinement` reads that state off the concrete one and states
`ImplementsLifecycle`, safety and progress.

### TransferFields

libusb gets the address of a ByteBuffer and no reference to it. What keeps the memory is a
chain: a global reference in `transfer_data` (`pinned`) keeps the Java Transfer, and its field
`transferBuffer` keeps the buffer. `held` is what the client still refers to, `Drop` loses one of
those, and `Collect` takes any buffer that neither the client nor the field of a Transfer in reach
names. `Transfer.setBuffer` of the Java class (external) calls the native part, which may throw, and
sets the field after it: two steps, `SetBufferNative` and `StoreBuffer`, with a collection possible
between them. `setting` holds the calls that are between the two; such a call has the transfer and
the buffer on its stack, and a transfer has one user at a time (`MayTouch`). Packets: `allocTransfer`
remembers how many it made room for (`maxNumIsoPackets`), `setNumIsoPackets` compares a signed `int`
with that `size_t` (`SizeModulus` is the number of values of a `size_t`, so a negative count becomes
large), and `isoPacketDesc` makes objects that point behind the transfer. A negative count for
`allocTransfer` is refused by libusb.

The length of a transfer is not in the module: `setLengthNative` stores any `int`, in a call of its
own, and whether that fits the buffer is looked after by the Java class alone.

After an automatic free `transferBuffer` may stay set (see above, and `Finish`): then whoever still
has the Java object keeps the buffer too. `freeTransfer` resets it always.

### Contexts

`libusbRefcnt` is libusb's own count of the default context, changed under libusb's lock;
`defaultContextRefcnt` the one of LibUsb.c. `++` and `--` are a load and a store. `client`, which
never changes, says what kind of client this behaviour has: one that locks every call, one whose
threads call `exit(null)` only for their own `init(null)`, or neither. The steps are those of
init, of exit, of a method that validates the default context and then calls libusb
(`UseDefault`), of one that does not validate it (`InvokeDefault`, allowed to a thread that holds
a reference), and of one that uses a Context object, which other threads may use too
(`UseContext`). A failed libusb_init changes nothing and is no step.

### Devices

A step is a call: clients hand an object to one call at a time, and the only thing several
calls share is the reference count, which libusb locks. `basis` is the client's reason to trust
a Device object: a reference of its own, the list or the handle it came from, or the callback
that lent it; what ends such a reason (`FreeDeviceList`, `Close`, `UnrefDevice`,
`HotplugReturns`) clears it. A device that is unplugged is `leaving` while the callbacks for its
departure run, and libusb gives up its own reference after them (`Leave`). `Forget` is the garbage
collector; wrapDevice makes a new object at each call.

### Descriptors

Roots are the objects filled and freed by calls (ConfigDescriptor, BosDescriptor,
SsEndpointCompanionDescriptor and three kinds of capability); views those that point into a
root's block (Interface, InterfaceDescriptor, EndpointDescriptor, BosDevCapabilityDescriptor, the
read-only buffers). `content` is what a block describes; addresses (`Blocks`) are used again. A
view's pointer is abstracted to the block it points into.

A capability is got from a wrapper whose pointer is stored under a wrong name (finding 4), so in
the code as it is, everything behind it is unreachable. To check that part too, the name is a
parameter: `bosDevCapabilityWrapField` is chosen once from `BosDevCapabilityWrapFields`. The run
`descriptors` has both the name in the code and the one intended, and the properties hold with
either; `descriptors_wrap` has the name in the code only.

### Callbacks

`stack[th]` is the sequence of native functions the thread is in, innermost last, each a record
with its program counter and locals. THREAD_BEGIN attaches and remembers (`result`), THREAD_END
detaches accordingly. hotplugRegisterCallbackNative is three steps: the check of the handle
object, libusb's registration, which enumerates devices through callbacks on the same thread,
and the store of the handle. `CallBack(th, NULL)` stands for transfer and pollfd callbacks.
`ShareHandles` lets an object be passed to a call while another call is still working on it,
which a callback during the enumeration can do without any second thread.

### Conversions and Calls

`Types` are a width and a sign, `SignBit` the weight of the sign bit of each width, and `Cast` what
C does on two's complement machines. `Getters` and `Setters` list every accessor of a descriptor,
a packet, a pollfd or a transfer with the type of its C field (from libusb.h, external) and of
its Java method; `LibraryArguments` the arguments of the methods that pass one on.

`Calls` has one thread: these methods share nothing. `call` is the method in progress, the memory
it gave libusb and how far libusb reaches into it; `transferred` what the client reads in the
buffer it has counts told in; `last` what the last call returned to it and what libusb had counted
by then. libusb counts the bytes of every transfer that has begun, also of one that failed on the
way, and leaves the variable unset when it refuses the call; the code tells the count after a success
or a timeout only. So after an error the buffer may hold the count of an earlier call, which
`ResultsTellTruth` allows, but never an unset variable, and after a success or a timeout it holds
the count of that call. `PassTimeout` makes a `struct timeval` of a `jlong`, `GetNextTimeout` the
way back. The overflow of a signed multiplication there is undefined and any value may come of it.
`answer` is kept while the client passes the next timeout to a method that waits, so that
`TimeoutsReturn` can compare the two timevals: libusb gets back the very one it had named.

## Runs

| run | instance | what it shows | states |
|---|---|---|---|
| `transfers` | two transfers, two listeners, an application and the event thread, 4 references | under every interleaving pointers and references stay exact, a completion is told once to the listener in force, and each free ends | 180 000 |
| `transfers_rebind` | one transfer, `RebindInFreeCallback` | violated: finding 2 | |
| `transfers_auto_free` | one transfer | violated: finding 1 | |
| `transfer_fields` | one transfer, two buffers and one without an address, 3 packets | libusb finds the buffer it was given, and room for its packets | 327 000 |
| `contexts` | two threads, two Context objects, 3 inits, clients that lock and clients that balance | counts equal and checks right under a lock; what stays true with none | 23 000 |
| `contexts_drift` | two threads, 2 inits, balanced clients | violated: finding 3 | |
| `devices` | a hub and a device in it, 2 lists, 2 handles, 3 Device objects | the count is exact, trusted objects live, lists and handles implement `Ownership` | 285 000 |
| `descriptors` | 5 roots, 3 views, 2 devices, 3 addresses | no accessor tells a lie, roots implement `Ownership` | 111 000 |
| `descriptors_wrap` | the same | violated: finding 4 | |
| `callbacks` | a Java thread, a libusb thread, 2 handle objects, 2 registrations, depth 3 | attachment exact, no registration out of reach, registrations implement `Ownership` | 1 110 000 |
| `callbacks_reentrant` | one Java thread, one object used twice | violated: finding 5 | |
| `calls` | narrow types, buffers of 3, 5 and 7 bytes | no access out of bounds, no stale count after a success or a timeout, no number changed on its way | 24 000 |

**Bounds.** `MaxRefs` caps the references created in a behaviour: allocTransfer
takes one, setCallback one or two, setUserData one. 4 let both transfers be allocated and one of them
bound, or one be allocated, bound, and given user data or unbound. A transfer bound again to another
listener needs 5 or 6, which is more than TLC can do with two transfers in the time a run should
take: longer sequences are covered by the theorems (`NoReferenceLeaks`, `LifecycleKept`), for every
`MaxRefs`.
`MaxInits` caps references to the default context and how far the two counts may drift before a call
begins: 2 is enough for a lost update, 3 for calls nested in others'. Three Device objects hold a
list's, a handle's and a counted reference to one device, or two objects of a list with a parent.
Three addresses for five roots make reuse frequent and let a configuration, a BOS and a capability
be alive at once. Depth 3 is a callback inside a registration's enumeration inside Java code, or a
callback inside another inside a third. Registrations do not come back to "not yet": two are enough
for the inner and the outer one of the reentrant case. `MaxIsoPackets` = 3 has no packets, one, and
one too many on either side of what was allocated, and `SizeModulus` = 16 keeps a negative `int`
apart from all of them. In `calls` the types of 8, 16, 32 and 64 bits have 1, 2, 4 and 5, so that
every value of every type goes through every accessor, a buffer of 7 bytes is longer than a 16-bit
length can tell, and a timeout overflows a long of four bytes; the order of the widths is all the
proofs use of them. Kinds of client that neither lock nor balance are not in `contexts`: they drive
the counter without bound, and the theorems cover them. Symmetry is used in safety runs only, over
sets whose elements no definition tells apart.

**Deadlock** is checked except in the transfers runs and in `contexts_drift`: where all
transfers have been freed, or the bound on references is used up, there is rightly nothing to do.

**Fairness.** Transfers: weak fairness of native steps (C code runs on) and of the frame's
steps; strong fairness of the return of a callback's Java code, which may make calls of its
own before. Nothing is assumed of a device completing a transfer, nor of a client making a
call: fairness is about code being scheduled, never about a call being made. The other modules
are checked for safety only and assume no fairness: nothing in them waits.

## Findings

1. `transfers_auto_free`: an automatic free deletes the global reference to the Java Transfer
   and then resets the Java object through it (`Transfer.c` 303-304, 339-340).
2. `transfers_rebind`: a callback that calls `setCallback` on its own FREE_TRANSFER transfer has
   `transferCallback` go on with the reference it saved and that call deleted.
3. `contexts_drift`: racing init and exit lose an update of `defaultContextRefcnt`; it can
   become negative, and `VALIDATE_DEFAULT_CONTEXT` takes any value but zero for valid.
4. `descriptors_wrap`: `BosDevCapabilityDescriptor.c:13` has a slash too many in a field name.
5. `callbacks_reentrant`: the handle object is checked before libusb's registration, which may
   run callbacks, and stored into after it.

## Proofs

TLAPS proves, for all values of the constants under the assumptions the modules name, every
safety property of the passing runs and what follows. Where a theorem needs more of the clients,
its statement says so: `~ShareHandles`, `~RebindInFreeCallback`, `client.locks`,
`client.balanced`, `OneThread`. Each is a rule a client can keep; the runs `callbacks_reentrant`,
`transfers_rebind` and `contexts_drift` show what happens to clients that do not keep the first
three.

**`TransfersProof`.** Type correctness, `PointerNamesLive`, `FieldRefsLive`, `Deliverable`,
`NoUseAfterFree`; and, if callbacks do not rebind an auto-freed transfer, `LiveRefsOwned` and
`SavedRefStillLive`. These are not inductive by themselves: that the free of a data block leaves
every other field intact needs that no two fields hold one reference (`FieldsApart`) and that names
are never given twice (`Fresh`); that a callback cleans up what it saved needs what holds at each of
its steps (`FrameFacts`); that two calls are not in the same transfer is `CallsApart`. `IInv` is the
conjunction; `IInvStep` has one step per action. From `IInv` also:

- `SubmittedOnce`: the pointer is read in one step and libusb called in another, and what is about
  to be submitted is still neither in flight nor being freed by its own completion.
- `ReferencesDeletedOnce`: wherever references are deleted (setCallback, setUserData, freeTransfer,
  the cleanup of a callback), they are references not deleted yet.

Two theorems say what is true of *every* client where a property needed well-behaved ones.
`ResetThroughDeleted`: the reset after an automatic free always goes through a deleted reference,
which makes finding 1 a statement about every instance. It needs that what a callback saved is
either the reference still in the transfer_data or one already deleted (`SavedFacts`), and that no
name comes back. `OnlyAutoFreesLeak`: with rebinding callbacks too, a live reference that no data
block in use holds was left by an automatic free, so no path but that of finding 2 leaks.

**`LifecycleProof`.** `Transfers` implements `TransferLifecycle` without its fairness, also when
callbacks rebind (`LifecycleKept`). The abstract state is a function of the concrete one
(`PhaseFacts`), and the phases exclude each other (`PhasesApart`), which needs one more invariant:
what a call or a completion works on keeps its callback while it is freed (`UsedHaveCallback`). Each
group of actions then has a lemma: one transfer moves to the next phase, or all stay. With it
`ReleasedForGood`: a released transfer is never submitted, completed or told of again.

**The join of Transfers and TransferFields.** `TransferFields` is not composed with `Transfers` step
by step; it takes three things for granted, and each is a theorem about one of them.
That a transfer lives as `TransferLifecycle` says is `LifecycleKept` on one side and
`FieldsFollowLifecycle` on the other. That only its owner or the listener being told of it touches a
transfer (`MayTouch`) is `UsesAsLifecycleSays`. That a transfer pins its Java object from allocTransfer
to its release (`pinned`) is `TransfersPinned`: a live reference to that object is in
`transferObject` throughout, also while setCallback replaces it. It needs that the data block is
there for as long (`DataKept`).

**`TransferFieldsProof`.** All three properties of the run. `FieldsInv` follows the chain (`Chained`):
a transfer with an address is pinned, its field names the buffer with that address unless a
setBuffer of it is under way, the buffer is in memory, the packets fit the block; of the life cycle
it needs only that a completion to be told is of a transfer that is neither free nor released
(`LifeInv`), and that a setBuffer under way is of one that is idle or being told of, and of the buffer whose address is
stored (`SettingKnown`).

**`ContextsProof`.** Type correctness, `ContextPointersExact` and `UsedContextsLive` with no
assumption on clients: an object is in at most one call of init or exit, and the step the call is
at says which of pointer and context is ahead (`ContextInv`). `ContextsNeverReplaced` says the same
of the steps: what init and exit check is still so when libusb is called. For clients that lock
(`LockedInv`): `CountersAgree`, `CheckedCallsHaveContext`, `HoldersAccepted`; the invariant gives the
difference of the two counts at each step of the one call that may be under way. `Serial` is all it
needs of a lock, and one thread has that without any, so `OneThreadCounts` and
`ValidationMeansPositive` (the property `contexts_drift` shows violated) hold of programs of one
thread. For balanced clients with no lock: `HeldContextExists`, by counting. What each thread may
still undo is a set of tokens, and libusb's count is its cardinality (`ClaimsInv`).
`DefaultContextBalanced` follows: no `libusb_exit(NULL)` comes without a default context and none
is left over. So what drifts in finding 3 is the check, never the context itself.

**`DevicesProof`.** All five properties. That every list and handle is named by exactly one object
(`OneObjectEach`, theorem `NothingLost`) is inductive with the types. `RefcountExact` counts with
Cardinality: each step adds a finite set of holders to those of a device or takes one away, and the
lemmas (`RefAdds`, `UnrefTakes`, `SameRefs`) say what that does to the count. The set of objects
with a basis must be kept with it (`BasesHold`); `TrustedObjectsLive` then follows, since a basis is a
reference counted. `ReferencesDroppedOnce` shows that the model's undefined behaviour, a reference
dropped that nobody has, is never reached; `DestroyedForGood`, that a device destroyed stays
destroyed, whatever objects outlive it. Lists and handles implement `Ownership` step by step.

**`DescriptorsProof`.** Type correctness, `DeviceDescriptorTellsTruth`, `RootsTellTruth`,
`ViewsTellTruth`, and that roots implement `Ownership`. `OneRootEach` is what makes the others
inductive: with no block shared, a free cannot hurt a second root, and a new root's block has no
views. Finding 4 is settled in both directions: with the name that unwrap reads
every wrapper holds its pointer (`IntendedNameHolds`, the property `descriptors_wrap` shows
violated), and with any other none of the three kinds of capability object is ever filled
(`OtherNameHides`).

**`CallbacksProof`.** Type correctness and `AttachmentExact` for any number of threads and any
depth. The invariant (`Attachments`) says that a callback found its thread detached exactly if
no frame below it is a callback that has begun (`ResultsFit`), so that THREAD_END restores
what THREAD_BEGIN found. For clients that hand an object to one call at a time (`~ShareHandles`):
`HandlesNameRegistrations`, `HandleObjectsFresh` (the property `callbacks_reentrant` shows violated)
and `RegistrationsOwned`. Their invariant (`HandleInv`) says that the functions under way have
distinct objects (`ObjectsApart`) and what each of them may rely on when it comes to store into its
object (`FramesFit`). In `RegistrationsOwned` an object answers for a registration from the moment
libusb makes it, before its handle is stored: the refinement reads the handle off the stack of the
thread until then.

**`CallsProof`.** All six properties, for any widths that at least double from one to the next.
`CastKeepsValues` and `RoundTrip` say when a cast loses nothing, `GettersFit` and `SettersFit` that
all accessors are such cases; `TimevalExact` that a timeout is split without loss for a long of
four bytes, when it fits, as for one of eight; `RoomForZero` strengthens the bounds of the string. `TimeoutsReturn`
follows from that exactness, from what Java was told (`AnswerKept`), and from `SplitOnce`: a number
of microseconds is split in one way only.

Only model-checked: everything about liveness (`FreeTransferCompletes`, `AutoFreeCompletes`, the
progress in `ImplementsLifecycle`), since the prover has no rules for fairness and ENABLED; and the
five violations.

## Assumptions about what is outside

libusb is modelled from how the code uses it and marked external in the map: it allocates,
frees and counts as its interface says, runs completions one at a time, hands out no address
or registration in use, writes no more than the length it is given. The JVM keeps global
references until they are deleted, and what they lead to. Attaching a thread succeeds. Clients
pass an object to one call at a time, except where a constant says otherwise. `Transfer.setBuffer`
sets its field when its native part has returned.

Some hazards are excluded by such rules and not by the code, and no property claims to cover them:
touching a transfer in flight (`MayUse`), using the views of a root that has been freed (`FreeRoot`),
exiting a Context others are using, a default context nobody of the callers holds. The note of each
hazard in `PROJECT.json` says so.

## Not modelled

- What happens while a Java exception is pending. A callback that throws leaves one, and the
  cleanup goes on with JNI functions that must not be called then; likewise `hotplugCallback` uses
  the result of a call that threw. What those do is undefined, and nothing in the repository says
  what a listener may throw: a model would only restate that nobody looks.
- libusb's protocol for event handling (`lockEvents`, `waitForEvent` and so on): the locks and
  the waiting are libusb's, and `LibUsb.c` passes each call on without keeping anything. What
  it does of its own, contexts and timeouts, is in `Contexts` and `Calls`.
- State in libusb or in the device behind the operations on handles: configuration, claimed
  interfaces, kernel drivers. `devMemAlloc` and `devMemFree` pass a buffer through and own nothing
  here.
- `Transfer.devHandle`: the object it gives wraps a handle the client may have closed through
  another, and no rule says who may still use it. In the same way the Context a hotplug callback is
  given can be exited behind the back of the one the client has.
- Two threads that free one transfer, or fill one object, at the same time; `wrapPollfds` when
  there are no pollfds; the failure of AttachCurrentThread. Each is a missing check at one line, and
  a property would repeat the check.
- Versions, locale, error names, `JNI_OnLoad` and `JNI_OnUnload`, build files: constants,
  formatting, or run once before everything else.

## Plan

All modules planned are written, every safety property of a passing run is a theorem, and so is
what `TransferFields` takes for granted of `Transfers`. What
could be added, in this order:

1. Pending exceptions, should the code come to check for them: a flag per thread in `Callbacks`,
   composed with the cleanup in `Transfers`.
2. `HandleObjectsFresh` without `~ShareHandles`, for a registration that checks its object again
   before it stores, should finding 5 be fixed that way; `CallbacksProof` has the lemmas for it.
3. A composition of `Contexts` with the hotplug callbacks of `Callbacks`, once it is settled who may
   exit the Context a callback is given.
