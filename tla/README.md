# Verification of plugin-architecture-playground

TLA+ models of this repository: the plugin (`plugin/`), the C++ wrapper around its
C interface (`wrapper/`), the module loader (`module_load/`), MIDI input (`midi/`)
and the sample program with its blocking queue (`src/`). TLC checks each model on
small instances; TLAPS proves the main results for every value of the constants.
Paths below are relative to the root of the repository.

## 1. The system

A host loads a plugin as a shared library (`module_load`), creates an instance
through a C interface (`include/plugin/plugin_interface.h`), and talks to it
through C++ wrappers. The plugin owns actions, changes them on its own thread and
tells the host with callbacks. The host can execute actions and ask for the plugin
to be configured. The sample program puts the events into a queue and works on
them in its main loop.

| Component | State | Operations | Talks to |
|---|---|---|---|
| Blocking queue, `src/blocking_queue.{hpp,inl}` | `queue_`, `mtx_`, counting semaphores `empty_count_`, `queued_count_` | `push`, `emplace`, `try_push`, `try_emplace`, `pop`, `try_pop`, `size`, `empty` | shared by the plugin's thread and the main thread |
| Plugin configuration, `plugin/plugin_impl.cpp:155-158,187-209` | `cfgcallback_`, binary semaphores `sem_from_cfg_`, `sem_to_cfg_`, the thread `configurator_` | `configure`, `configuration_procedure`, destructor | called through `PASMP_plugin_configure_cli`, calls the client's callback |
| Plugin actions, `plugin/plugin_impl.cpp:8-83,129-185,211-234` | `actions_`, shared mutex `mtx_`, thread `modifier_`, `next_id` counter | `insert`, `modify`, `remove`, `execute`, `retrieve`, `snapshot` | calls the host's event callback under `mtx_` |
| Plugin lifecycle, `plugin/plugin_impl.{hpp,cpp}` | reference count, singleton pointer | `create`, `addref`, `release`, constructor, destructor | the wrapper holds references |
| C entry points, `plugin/plugin_interface.cpp` | opaque handles, error descriptors | `PASMP_*` | exceptions to status codes, both directions |
| Configurators, `wrapper/src/plugin_configurator.cpp` | `being_configured_`, `resultsem_`, `result_`, `callback_`, `on_error_` | `configure`, `await`, destructor, `wrap_callback` | give the plugin a bare pointer to themselves |
| `wrap::plugin`, `wrapper/src/plugin.cpp` | handle, attributes, event callback | constructor, `actions`, `wrap_callback` | forwards events |
| Action executor, `wrapper/src/action_executor.cpp` | counter of outstanding submits, condition variable | `submit`, `await`, destructor | `PASMP_action_execute_async` |
| `wrap::action`, descriptors, versions, payload, strings | handles and buffers | copy, serialize, accessors | C interface |
| Error and status mapping, `wrapper/src/error.cpp`, `status_utils.cpp` | none | codes to codes | everything |
| Module loader, `module_load/` | library handle, symbol table, version | load, get functions | operating system |
| MIDI input, `midi/src/midi_in.cpp` | device handle, heartbeat thread | start, stop, callback | driver |
| Sample program, `src/PluginArchitectureSample.cpp` | the queue, the loop's variables | `on_action_event`, `main` | all of the above |

What is hard to get right, and where a test hardly reaches:

* two semaphores and a mutex guard one `std::queue`, and the operations hold
  permits between acquiring one and releasing the other, also when an element
  throws;
* the handshake between callers of `configure` and the `configurator_` thread
  protects an ordinary member with two binary semaphores, one of which the
  destructor uses too;
* an answer may arrive before the caller has written down that it waits for one
  (`being_configured_`), and the plugin keeps a bare pointer to the waiting object;
* the event callback runs while the plugin's mutex is held, and pushes into a
  bounded queue whose consumer needs that mutex;
* actions disappear while the host works on the event that announced them;
* one `my_plugin` per library is shared by several `wrap::plugin::impl` objects, the
  messages in the queue and the plugin's own thread, which knows the first impl by
  a bare pointer; the count, the two threads, the queue and the library go in an order
  that only the host decides;
* every operation of the wrapper is a sequence of C calls, any of which can fail, and
  an exception passes through a catch clause, a status, an error code and an
  exception class before the host sees it;
* the MIDI heartbeat compares a list of devices that it reads one port at a time, while
  ports move, with the driver's thread and a destructor around it.

`hazards` in `PROJECT.json` lists each of them at its line, with the properties that
watch it.

## 2. Modules

| Module | What it is | Code |
|---|---|---|
| `BoundedFifo` | specification of a linearizable bounded FIFO: invoke, take effect, return | none |
| `BlockingQueue` | the queue, one step per access to a semaphore, the mutex or the queue | `src/blocking_queue.inl` |
| `MCBlockingQueue` | symmetry and state constraint for TLC | |
| `BlockingQueue_proofs` | safety theorems; `BlockingQueue` implements `BoundedFifo` | |
| `ConfigService` | specification: one request at a time, reported to its requester | none |
| `PluginConfiguration` | the handshake, the callback's error paths, `~my_plugin` | `plugin/plugin_impl.cpp`, `plugin/plugin_interface.cpp` |
| `PluginConfiguration_proofs` | safety and refinement theorems | |
| `WrapConfigurator` | both configurator classes on an instance of `PluginConfiguration` | `wrapper/src/plugin_configurator.cpp` |
| `WrapConfigurator_proofs` | the configurators use the plugin as its clients do; lifetime, freshness and ownership of the result | |
| `ActionStore` | `actions_`, `mtx_`, the `modifier_` thread and readers | `plugin/plugin_impl.cpp` |
| `ActionStore_proofs` | safety theorems | |
| `SampleHost` | the main loop, composed with `ActionStore` and `BoundedFifo` | `src/PluginArchitectureSample.cpp` |
| `SampleHost_proofs` | safety theorems of the composition, which implements `ActionStore` | |
| `PluginLifecycle` | creation, sharing, release and destruction of the plugin, the impls, the queue and the library | `plugin/plugin_impl.{hpp,cpp}`, `wrapper/src/plugin.cpp`, `module_load/src/module.cpp` |
| `PluginLifecycle_proofs` | the count, the library, and that the host rules suffice | |
| `MidiMessages` | message statuses, their comparison, driver error codes and their causes; pure definitions | `midi/src/message.cpp`, `midi/src/error.cpp` |
| `MidiIn` | a device object, its heartbeat and the driver's callback | `midi/src/midi_in.cpp` |
| `MidiIn_proofs` | disconnections, comparisons, causes of failures | |
| `StatusCodes` | catch clauses, statuses, error codes, exception classes; pure definitions | `plugin/plugin_interface.cpp`, `wrapper/src/status_utils.cpp`, `wrapper/src/error.cpp` |
| `ModuleLoader` | the table of functions and symbols, loading errors, descriptor layouts; pure definitions | `module_load/src/module.cpp`, `module_load/include/module_load/types.hpp` |
| `Calls` | the wrapper's operations as sequences of C calls that may fail | `wrapper/src/*.cpp`, `plugin/plugin_interface.cpp` |
| `MCCalls` | the libraries that are loaded in the run | |
| `Calls_proofs` | handles, descriptions, the executor's count, error codes, descriptors | |

`map` in `PROJECT.json` gives the lines each definition models. Variables keep
the names of the members they stand for; `pc`, `thread`, `caller`, `driver`,
`main`, `obj`, `hb` and the like say where a thread is in its function. Operators whose
comment begins with "Fault:" are not part of the specifications: each is the variant of
the definition after it that a plausible bug would give, and is used to see that a
property notices.

### How the models correspond to the code

**BlockingQueue.** `push` is `CallPush`, `PushAcquire` (`empty_count_.acquire()`),
`Lock`, `PushBody` (the critical section and the end of the `scoped_lock`) and
`PushRelease` (`~releaser`, declared before the lock and so run after the unlock);
`pop` likewise. The `try_` forms begin with `CallTryPush` and `CallTryPop`, where
`try_acquire` either takes a permit or returns; spurious failures, which the
standard allows and the implementations do not show, are left out. `BodyThrows` is
an exception of the element's constructor or copy, enabled by `ElementsThrow`; in
`try_pop`, whose result is copied after `queue_.pop()`, it may come after the change.
`front()` of an empty queue leads to the label `undefined`, about which nothing
more is said: a theorem says that it is never reached. The element in `arg` is
a model value; what a message holds does not matter to the queue.

**PluginConfiguration.** `TryAcquire`, `AssignCallback` and `Publish` are the three
accesses of `configure` to shared state; `Acquire`, `CheckStop`, `RunCallback`,
`RunHandler` and `Release` those of the thread's loop; `RequestStop`,
`DtorRelease` and `Join` those of the destruction. The callback is the lambda
of `PASMP_plugin_configure_cli`, which calls the client's `cb`: `reports` records
with what. Called with an exception it reports the error and then falls through
into its switch, so a client is told twice (`RunHandler`), as the code does.
Whether a callback lets exceptions out is a matter of the client (`Throwing`).
The process ends when the handler throws (`terminated`). The two seconds of
sleep are left out.

**WrapConfigurator.** One configurator is one client of the plugin; its address,
the callback data, is its name. Each access to `being_configured_`,
`resultsem_` and `result_` is a step. The destructor of the derived `impl` destroys
`callback_` first (`DestroyMembers`) and then runs the base class's `await`.
`AwaitsEach` says that users await a configuration before they ask for the next one,
`AwaitsLast` that they also await the last one before they destroy the object. The sample
program does both with its asynchronous configurator
(`src/PluginArchitectureSample.cpp:177-193`), and the synchronous one awaits by itself;
the code promises more, since its destructor awaits, so the run `wrap_safety` assumes only
the first.

**ActionStore.** `modifier_` inserts `Count` actions and removes the first half,
guessing the ids; each call is `Begin`, `WriteLock`, `Change`, `Announce` (the event
callback, with the lock held), `WriteUnlock`. Readers take the lock shared, look
and unlock. `snapshot` looks at all the ids and `execute` runs the found one: both
are lookups as far as the set is concerned.

**SampleHost.** `on_action_event` is `EmplaceCall`, `Emplace`, `EmplaceReturn`, with
`Emplace` the moment `BoundedFifo` puts the element in: since
`BlockingQueue` implements `BoundedFifo`, the loop need not be composed with the
semaphores again. `EmplaceThrows` is the exception that `wrap_callback` catches and hands
to `on_error`: the event is in `lost`, the plugin goes on, and the queue has one slot less
for good (`Room`), for its releaser has announced an element that no `pop` takes. The loop
never takes that permit for an element, because it looks whether the queue is empty
first. The loop's `empty`, `pop`, descriptor lookup and
executions are steps of the main thread; `execute_async` answers before it returns,
so the executor adds no concurrency here.

**PluginLifecycle.** An impl goes through `create` (its `PASMP_plugin_create` is
running), `live`, `release`, `check` (the decrement in `my_plugin::release` and the
second read of the count are two steps) and `delete`. `Holders` counts the
`shared_ptr`s to an impl: copies of `wrap::plugin`, queued messages, and the one that
`wrap_callback` makes with `shared_from_this` (`Announce`, `Deliver`). Whoever drops
the last one runs `~impl` (`LoseHolder`). `Join` is the order of the destructors of
`configurator_` and `modifier_`, in `~my_plugin` as in the unwinding of a
constructor that throws. Use of freed memory sets `undefined`: a call of `addref`,
`release` or the second read on a deleted plugin, a callback through the pointer to
an impl that is gone, a push into a queue that is being destroyed. What the code leaves to
its host are three `Rules`, all kept by the sample program, which has one impl on
one thread and declares its queue before the plugin: *first_last* (the impl that the
callbacks point to is released after the others), *no_return* (`create` is not called
once the last holder has begun to let go, unless the library was loaded anew) and
*queue_outlives* (the queue goes when `modifier_` has announced everything). Without any
one of them `NothingDangles` fails.

**MidiIn.** The constructor is `Open`, `StartHeartbeat`, `Validate` (the attributes are
looked at last); destruction is `Destroy` (stop), `Close`, `Join`. The heartbeat is
`Wake`, one `Enumerate` per port, and `Disconnect` or `Error`. `Plug` and `Unplug` are the
system; ports above one that goes away move down. `Twins` are devices that a descriptor
cannot tell apart. `missing` is a history variable: was the descriptor not in the list at
some moment of this poll? A device that only moved down a port counts as away from its
own, since the comparison includes the port. The driver is external: it may refuse any
call, with any of `DriverErrors`, and refuses start and stop on a device that has gone; it
reports opening and closing inside the calls, and a close that succeeds has waited for a
callback that was running. A close that is refused is told to the default handler, and
leaves the handle open and started while the object is destroyed (`Close`), so the driver
may call what is gone. `Matches` is the standard's comparison of a code with a condition:
it asks the code's category (`DefaultCause`) and then the causes' table (`Equivalent`).

**StatusCodes, Calls.** `Calls[op]` is the sequence of C functions that an operation of
the wrapper calls. `ClearDescriptor` is the operation's own `ed.clear()` before one of
them, where `ClearedCalls` says that it has one (the C functions without a wrapper,
`execute` and `list`, have none). `Call(cause)` is a call: `Causes` are the outcomes its
body admits, `Answer` sends them through the first matching catch clause (or an early
return), `ErrorCode` through `make_error_code`. `locals` are the RAII objects of the
operation, destroyed at its end also by an exception (`End`); `live` counts handles per
kind. `slot` are the host's `wrap::action` objects: one that was moved from is null, has
no plugin either, and crashes in whatever asks for its module (`UseMoved`); an assignment
forgets the handle it overwrites. `PASMP_plugin_create` may never return (`Hang`, see
finding 3), and never answers that a path is invalid. `submitctr_` is the executor's
count: the plugin executes inside `execute_async`, so its callback takes one off before
the accepted submit adds one. One thread; the operations that several threads share are in
the other modules. `Clear` only resets the descriptor's size, `Fill` overwrites from its
beginning, and `View`, what an error or the host reads when the operation ends, is as much
as the size has shrunk by, so that a missing `clear` shows as an earlier text or as one
with the rest of another behind it; copies use a descriptor of their own. Texts are
counted whole: `Room` is how many fit into the host's. A null descriptor is not given to
`PASMP_action_execute_async`, which reads through it.

**ModuleLoader.** `LoadError` is what the constructor of `loaded_module` throws first:
opening, the two functions it needs for the version check, the check, the table in
order. `SymbolOf` is the name each entry is bound to; `Fields` follows a descriptor's
accessors through it to the member they read.

## 3. Runs

| Run | Module | Bounds | Properties | Question |
|---|---|---|---|---|
| `bq_queue` | `MCBlockingQueue` | 3 threads, 2 values, 2 slots | `TypeOK`, `NeverPopsEmpty`, `EveryPermitBacked`, `FifoSpec`, `RefusalIsJustified`, `PoppersServed`, `PushersServed` | safety, FIFO refinement, no lost wake-up |
| `bq_throw` | the same | the same, elements throw, at most 4 queued (`QueueBound`) | `PermitsNeverExceedMax` | permits survive exceptions |
| `cfg_service` | `PluginConfiguration` | 3 clients, one of whose callbacks throws | `CallbackNotTorn`, `AvailableUnlessBusy`, `AcceptedIsReported`, `DestructorJoins`, `ServiceSpec` | the service; destruction ends |
| `wrap_safety` | `WrapConfigurator` | 1 sync and 1 async configurator, callbacks return or throw, destroyed with or without an `await` | `TypeOK`, `CalledObjectExists`, `ResultIsFresh`, `ResultNotTorn`, `AwaitReturnsUnlessCallbackDid` | lifetime, freshness, `await` |
| `wrap_hang` | the same | the same, callbacks return, each configuration awaited | `AwaitReturns` | expected violation, see findings |
| `wrap_assert` | the same | the same, callbacks throw, may be destroyed without an `await` | `CallbackAsserted` | expected violation |
| `as_store` | `ActionStore` | 4 actions (6 changes), 2 readers | `StoreMatchesEvents`, `ModifierNeverThrows`, `NoentIsAnnounced` | store, events and answers agree |
| `host_loop` | `SampleHost` | 5 actions (7 events), 7 slots, 2 executions per action, any emplace may throw | `NothingLost`, `PopNeverBlocks`, `RemovedIsComing`, `RemovedIsReceived`, `BothEnd` | no event lost unless its emplace threw; loop and plugin end |
| `lifecycle` | `PluginLifecycle` | 3 impls, 2 references each, 2 events, all three rules | `NothingDangles`, `CountIsOwners`, `LibraryOutlivesPlugin`, `ReleasedForGood` | nothing freed is used; the last release deletes |
| `lifecycle_path` | the same | 2 impls, 1 reference, 1 event | `CreationEnds` | expected violation |
| `midi_in` | `MidiIn` | 3 devices of which 2 are twins, 2 changes, 6 bytes, 2 codes of the driver | `StatusesAgree`, `FailuresHaveOneCause`, `CalledWhileThere`, `DisconnectJustified`, `DisconnectIsReported`, `DestructionEnds` | disconnections are real and noticed; destruction ends; values compare |
| `calls` | `MCCalls` | 2 places, 3 handles, 1 failed execution, room for 2 texts, 5 libraries | `ErrorsTellTheCause`, `DescriptionIsOfThisError`, `HandlesOwnedOnce`, `DescriptorIsItsOwn` | errors tell the truth, handles are given back once |

Why the bounds are enough: with three threads and two slots the queue can be full with a
pusher waiting, empty with a popper waiting, and have two operations between acquire and
release while a third comes in; two values tell order and duplication apart, and a further
thread only adds a further copy of the same phases. Three clients give one being served,
one being refused and one that was served before. A synchronous and an asynchronous
configurator let an answer for one object meet an `await` of the other. Four actions give
two removals, of which the second guesses an id that is not the first; five actions in the
sample give the loop removals to meet while it still works on additions. In `host_loop`
the queue has a slot for every event, as it has in the program (15 events, 256 slots).
Three impls let one release while another creates and a third holds the plugin; two
references let a copy outlive the one it was made from; two events let one be queued and
one under way when the host drops everything. Two changes of the MIDI devices let a port
move and another device take its place within one poll, and the twins let it look like the
one that went; the six bytes are data, two channels of one message, and one of each kind
of system message and an undefined one; the two codes are one of the system's and one of
MIDI's, which begin at 64 (the proof is for all of them). Two places are what an
assignment or a move needs, and three handles give both of them and the executor one; the
libraries fail at every place where the loader looks, one with two functions missing.

`QueueBound` is the only state constraint: when elements throw, the queue
can grow beyond `max_size` without end (a `pop` that throws gives back a slot whose
element stays), and the property checked there is about permits only.
`CHECK_DEADLOCK FALSE` is set because the programs may stop: a queue nobody serves
leaves its callers parked, a plugin is destroyed, a loop ends, a wrapper that is
`noexcept` ends the process, and where a bound is reached nothing more happens.

### Fairness

Each fair specification is weak fairness of threads that are inside an operation:
a thread that can take a step takes one eventually. Nobody has to start a call.
Mutexes and semaphores are not fair in C++: with weak fairness per thread a `Lock`
that keeps being disabled may starve, so `PoppersServed` and `PushersServed` promise
that some waiter is served, not each, and suppose that no thread polls `size` for
ever (`PollingStops`). `HostFairSpec` needs no more than that either: a
reader keeps `mtx_` from `modifier_` only while there are messages.
Users' callbacks end; that is the assumption of `WF(Callback)` and of
`WF(MessageHandled)`. In `PluginLifecycle` the plugin's two threads and whoever is
inside `create` or `~impl` keep running, the host's threads need not; in `MidiIn` the
polling interval passes, so the heartbeat takes its steps, and nobody has to
destroy the object.

## 4. What is proved

| Theorem | Statement |
|---|---|
| `BlockingQueue_proofs`: `TypeCorrect`, `NoRaceOnQueue`, `SemaphoresBounded` | `TypeOK`, `QueueRaceFree`, `PermitsNeverExceedMax`, also when elements throw |
| `NoEmptyPop`, `PermitsBacked`, `NoLostWakeup`, `RefusalsAreJustified` | `NeverPopsEmpty`, `EveryPermitBacked`, `ParkedOnlyWhenUseless`, `RefusalIsJustified`, if elements do not throw |
| `ImplementsBoundedFifo` | `FifoSpec`, if elements do not throw |
| `PluginConfiguration_proofs`: `TypeCorrect`, `CallbackIsHandedOver`, `PermitNeverLost`, `RefusalsHaveAReason`, `StopIsSeen` | `TypeOK`, `CallbackNotTorn`, `AvailableUnlessBusy`, `RefusedOnlyWhenBusy`, `StopReachesThread` |
| `ImplementsConfigService` | `ServiceSpec` |
| `WrapConfigurator_proofs`: `WrapperUsesPlugin`, `WrapperIsServed` | a behaviour of the configurators is one of `PluginConfiguration` with the objects as clients, and of `ConfigService`; no hypothesis on the users |
| `TypeCorrect`, `PointerOutlived`, `AnswersAreFresh`, `ResultIsHandedOver`, `AnswersArrive` | `TypeOK`, `CalledObjectExists`, `ResultIsFresh`, `ResultNotTorn`, `NoAnswerLost`, if users await before they ask again (`AwaitsEach`) |
| `CallbackIsThere` | `CallbackAsserted`, if they also await before they destroy the object (`AwaitsLast`) |
| `ActionStore_proofs`: `TypeCorrect`, `ReadersSeeWhatWasAnnounced`, `GuessedIdsExist`, `NoentComesAfterTheEvent` | `TypeOK`, `StoreMatchesEvents`, `ModifierNeverThrows`, `NoentIsAnnounced` |
| `SampleHost_proofs`: `HostImplementsStore` | a behaviour of the composed program is one of `ActionStore` |
| `EventsAreKept`, `PopFindsAMessage`, `RemovalIsAnnounced`, `CallbackHasRoom` | `NothingLost`, `PopNeverBlocks`, `RemovedIsComing`, `EmplaceHasRoom` |
| `PluginLifecycle_proofs`: `CountIsRight`, `LibraryStays` | `CountIsOwners`, `LibraryOutlivesPlugin`, whatever rules the host keeps |
| `RulesSuffice` | `NothingDangles`, for a host that keeps all three |
| `MidiIn_proofs`: `DisconnectsAreReal`, `StatusesCompare`, `CausesAreTold`, `CallsReachTheObject` | `DisconnectJustified`, `StatusesAgree`, `FailuresHaveOneCause`, `CalledWhileThere` |
| `Calls_proofs`: `NothingOutstanding`, `DescriptionsAreFresh`, `HandlesBalance` | `AwaitNeverBlocks`, `DescriptionIsOfThisError`, `HandlesOwnedOnce` |
| `CodesTellTheCause`, `DescriptorsRead` | `ErrorsTellTheCause`, `DescriptorIsItsOwn` |

The assumptions are those of the modules: finitely many threads and a positive
`max_size` for the queue; any set of clients, finite or not, and any of them throwing,
for the handshake; any sets of synchronous and asynchronous configurators; any number of
actions and any set of readers for the store; any capacity for the sample that is at
least the number of events, as in the program; finitely many impls; any devices; finitely
many places for actions, with any bounds on the rest.

**The queue.** No property is inductive alone. The invariant counts: a call between its
acquire and its release holds a claim, on an element (`ItemClaims`) or on a slot
(`SlotClaims`), and permits and claims add up to `max_size`. Each step moves one unit from
a semaphore to a claim, between the two kinds of claim in a critical section, or back.
That `empty_count_` and the slot claims are the slots that are free, and `queued_count_`
and the item claims the elements, needs the critical section to have the effect that its
claim says, and holds if elements do not throw. `NeverPopsEmpty` follows: a call at
`pop_body` is an item claim, so the queue has an element. So does `RefusalIsJustified`:
when there is no permit, the claims alone are as many as the elements, or as the free
slots. For the refinement a pending call takes effect in its critical section; every other
step is a stutter.

**The handshake.** There is one permit, and it is in exactly one place: in
`sem_from_cfg_`, with one caller in `configure`, in `sem_to_cfg_`, or with the thread.
`cfgcallback_` is assigned only by whoever has it. The destructor's extra release of
`sem_to_cfg_` breaks the count, but only after the stop was requested and when no
caller is left; the invariant makes that exception, and the thread leaves at the
next check: `StopReachesThread`, whatever the thread was doing. For the refinement
`Current` reads the requester off the place of the permit.

**The configurators.** Every step of a configurator is a step of the plugin or leaves it
alone, so the handshake's theorems and its inductive invariant hold of the composition, and
are cited rather than proved again. What remains is said per object (`WInv`): an object
is expecting its answer from the moment the plugin accepted it until it has taken the
permit, and the answer is in exactly one place: still in the plugin, with its thread inside
`wrap_callback`, or in `resultsem_`. `being_configured_` is set between, on
either side of the answer's arrival, which is why `Mark` must be told apart from
`Publish`. Users who await before they ask again have at most one answer on its way,
so `resultsem_` stays binary and a result is that of the last request; the destructor's
`await` keeps the object until the plugin's thread has left it, which is `PointerOutlived`
and needs nothing of the last `await`. `CallbackIsThere` does, and `wrap_assert` is
its counterexample without. The converse, `AnswerInv`, is invariant too: whoever expects an
answer has a permit, or the plugin is yet to call, or the user's callback has returned, so
`NoAnswerLost` leaves only the case of the finding `wrap_hang`. `AwaitsEach` cannot be
dropped: two `configure` calls without an `await` release the binary semaphore twice.

**The store.** The invariant has two counts: how many calls have changed `actions_`
and how many were announced. Each determines a set, and the counts differ only
while the mutex is held exclusively, when there is no reader.

**The sample.** The composition steps the store in its own variables, and adds the
queue and the loop. A reader in it asks only about an action it has heard of, and what
it has heard of was announced: with that the composition is an implementation of the
store, whose invariant then says that a missing action was removed and its removal
announced. `consumed` and the queue stay the events without the lost ones, in their order,
because the queue is a `BoundedFifo` with one producer and one consumer, and no event is
announced twice. Counting the events, the lost ones included, then gives
`EmplaceHasRoom`: the event callback, which holds `mtx_`, never waits for the loop, which may
be waiting for `mtx_`.

**The lifecycle.** The count is the number of impls between the start of `create` and
`release`'s decrement, because each impl passes the two once. An impl has holders
from its creation to the beginning of `~impl` and never again, so nobody runs `~impl`
twice; and each impl keeps the library until it is gone, which is after it has joined the
threads. With the rules, the impl that the callbacks point to outlasts the others,
so there is one release that can find 0, and `modifier_`, joined by it, never meets an
impl that is gone.

**MIDI.** While the descriptor was in the list at every moment of a poll, its port is
still to be asked, or it has been found. Ports may move, but a port that always holds a
device that looks like the descriptor is asked while it does. For the statuses the
comparison is reduced to the message each value decodes to, category by category. The
causes are compared one by one, for every code other than 0: those of the system
(`MMSYSERR_*`, up to 21) are known to both tables; any larger one, `MIDIERR_*` among them,
is `invalid_errc` to its own category and nothing to the causes' table, which is why
`FailuresHaveOneCause` says of each table what it answers. `CallsReachTheObject` follows
`started`: it is set only when the attributes are good, and is off when the object goes
unless the close was refused.

**The wrapper's calls.** The invariant says where an operation is: its first call is the
only one that creates something for a local object, `plugin_create` and
`action_deserialize` come last, and so what the locals hold equals what is live of
each kind but actions and the plugin. When the operation ends the locals give back
exactly that. Action handles are at least as many as the objects that have one: moves
pass them on, and assignments forget one. The executor's count has been taken
down by the callback before a successful submit takes it up. The descriptor was cleared
before the call in progress, by a step of the operation itself, so at its end it holds
nothing but what that call wrote; the invariant says nothing about it in between, when it
may be full of what others left. For the error codes a list
of catch clauses is unrolled to its first match, function by function, so that each cause
has one code and each code says what may have caused it. A descriptor is followed from the
table of symbols to the member its accessor reads, for both types.

**Only model-checked.** All liveness (`PoppersServed`, `PushersServed`,
`AcceptedIsReported`, `DestructorJoins`, `AwaitReturnsUnlessCallbackDid`,
`RemovedIsReceived`, `BothEnd`, `ReleasedForGood`, `DisconnectIsReported`,
`DestructionEnds`): it needs fairness, which the prover does not handle.
The safety half of four of them is proved: `NoLostWakeup` for the queue, `StopIsSeen` for
`DestructorJoins`, `AnswersArrive` for `await`, `CallbackHasRoom` for `BothEnd`.
`StopReachesThread`, `NoAnswerLost`, `EmplaceHasRoom`, `QueueRaceFree`,
`ParkedOnlyWhenUseless`, `RefusedOnlyWhenBusy` and `AwaitNeverBlocks` are in no run,
because a theorem states each of them for every instance.

## 5. Findings

* **`await` hangs after a successful configuration** (`wrap_hang`).
  `plugin_configurator_async::impl::wrap_callback` releases `resultsem_` inside its
  `catch` block (`wrapper/src/plugin_configurator.cpp:158-170`) and nowhere else.
  When the user's callback returns, `await` and the destructor wait for ever. The
  sample program awaits and has a branch for a configuration that succeeded
  (`src/PluginArchitectureSample.cpp:181-192`); it does not meet the fault because its own
  callback always throws (lines 127-129).
* **The callback is called after its destruction** (`wrap_assert`). The base class's
  destructor waits for the plugin, but `callback_`, a member of the derived class,
  is gone by then; `assert(imp.callback_)` (line 155) may then not hold, or be
  evaluated on a destroyed object.
* **Creation hangs on a bad persistence path** (`lifecycle_path`). The constructor of
  `my_plugin` starts `modifier_` and `configurator_` and then looks at the path
  (`plugin/plugin_impl.cpp:131-146`). When it throws `invalid_path`, the destructor that
  would release `sem_to_cfg_` does not run, and the unwinding joins `configurator_`,
  which waits for it. The status `PASMP_ERROR_PERSISTENCE_PATH` and its message in
  `wrapper/src/error.cpp:92` are never seen, in `Calls` neither.

Behaviour the models show and no line of the repository contradicts: a request
is dropped without a report when the plugin is destroyed before the thread has
taken it; a second `configure` right after a synchronous one may be answered
`PASMP_UNAVAILABLE`; a C callback that throws is called two more times; two
`configure` calls without an `await` release a binary semaphore twice; elements
that throw make the queue exceed `max_size` or announce elements it does not have; a
`midiin` whose constructor throws leaves its device open; a library of another major
version stays mapped; assignments of `wrap::action` leak a handle, and a moved-from action
crashes when it is copied, serialized, described or executed; a second
`wrap::plugin` gets the first one's callbacks, with none of its own attributes; an event
whose emplace throws is gone, and with it, perhaps, the removed event that the sample says
it will receive; a refused `midiInClose` leaves the driver with the address of a `midiin`
that is then freed; the codes of MIDI calls, 64 and above, are known to no entry of the
causes' table.

## 6. Not modelled, and plan

Left out for good, with the reason:

* reference-counted strings (`wrapper/src/rcstring.cpp`): an immutable string behind a
  `shared_ptr`, every function of which forwards to the standard library;
* text conversion, console output and the messages of error codes: formatting;
* the C header (declarations) and the build files;
* `wrap::plugin::actions`: `action_collection` uses its member `plugin_` before it is
  constructed, so that everything after is undefined;
* decoded version numbers (`&&` where `&` is meant): they are only printed;
* `my_plugin::modify`, private and never called, and an action's own data and
  mutex, which nobody locks for writing;
* the operating system's loader and the MIDI driver, which are external and appear as
  the outcomes their callers handle;
* callbacks of the user that destroy the object that calls them: `~jthread` would join
  its own thread, and nothing in the repository does it.

What a continuation would take next:

1. Several threads in `Calls`: two hosts' threads that share an executor, for a plugin
   that executes on a thread of its own, where `await`'s mutex would matter.
2. The recursive shared lock in `action::execute`, which the standard leaves
   undefined, once somebody locks an action for writing.
