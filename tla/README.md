# roo_testing in TLA+

roo_testing runs Arduino, ESP-IDF and Pico sketches on a host: FreeRTOS tasks are
pthreads, interrupts are POSIX signals, and device time is an emulated uptime that
either follows the host clock (auto-sync) or only moves when asked to (manual).
This directory models the parts of it in which threads, signals and time meet.

Conventions: a definition has the name of the function it models where TLA+ allows
it. Definitions named `..._Slip`, `..._Early` or `..._Reuse` are not part of a model;
each is the variant that a plausible coding slip would give, kept to show that a
property tells the two apart (PROJECT.json, "mutants"). PROJECT.json maps every
definition to its lines, lists the components, hazards, findings and theorems.

## Inventory

| component | state | operations | interacts with |
|---|---|---|---|
| uptime publication (`system/timer.cpp`, class `AtomicUptimePublication`) | initialisation state, uptime floor, host origin: atomics | passive read (any context, signal handlers included), add, publishAtLeast | host monotonic clock; everything that reads time |
| system-time alarms (`system/timer.cpp`) | queue and id index, next id, delivery owner, service state, reserved uptime, worker thread and its wake generation | schedule, cancel, process, delay, lag, sync, two-step shutdown; worker loop | callbacks call back into the service; consumers are esp_timer, LEDC and SNTP shims |
| scheduler-safe host lock (`host/`) | saved signal mask, mutex | constructor, destructor | makes the sections above indivisible for tasks and native threads |
| interrupt controller (`interrupts/`) | 64 slots: state word (generation, allocated, enabled, pending), handler, argument | register, unregister (tasks); enable, disable, set pending (any context); dispatch (signal handler) | FreeRTOS Linux port below, ESP adapter above |
| FreeRTOS Linux port (`portable/linux/port.c`) | selected pthread, pending bit, dispatcher, nesting counters, yield latch, an event per thread | critical sections, yield, tick, handoff, request, signal handler, start and end of the scheduler | kernel (which picks tasks), native producers |
| ESP interrupt allocation (`esp_idf_support/esp_interrupts.cpp`) | source vectors and registration records with publication epochs | alloc, free, enable, disable, raise source, dispatch vector | interrupt controller |
| esp_timer backend (`esp32_shims/esp_timer_impl_host.cpp`) | compare value and generation, alarm id, pending status | init, deinit, set alarm, expiry, interrupt | alarms, ESP adapter |
| LEDC fade engine (`esp32_shims/ledc_fade_engine.cpp`) | a state machine and generation per channel, delivery queue, draining flag | start, cancel, deadline, drain, take completion | alarms, pins, ESP adapter |
| LEDC IDF driver (`esp32_shims/idf_ledc.cpp`), not modelled | a mutex, a gate per channel, whether the fade service is installed | install, uninstall, start and wait for a fade, interrupt | one fade engine; the Arduino driver has another |
| host event gateway (`host_event/`) | endpoint table, pending flag each, gateway task | connect, disconnect, notify from host, tick hook, deliver | port tick, tasks |
| Pico runtime (`frameworks/freertos_posix`), wall clock, `sys/`, buses, devices, chips, shims, transducers, viewport | mostly device data | mostly synchronous calls | - |

What is hard here: callbacks that run with no lock held while the queue changes
under them; ownership handed between threads; lock-free code that a signal handler
re-enters; a condition variable notified without its mutex; a selected thread that
changes while others load and signal it; finite identity spaces; shutdown beside all
of that. What makes each component correct:

- **uptime**: reads never go back in any context, time comes from explicit operations
  or the host clock and nothing else, mode and origin are chosen once, a read in
  signal context never waits;
- **alarms**: at most one callback at a time, never early, never twice, never after a
  successful cancel or shutdown, in deadline and registration order; delays reach
  their target and add up; due alarms are eventually delivered in auto-sync mode;
- **controller and port**: one task executes, counters belong to the task that
  reads them, a handler never runs for a registration that is gone, an event is never
  redirected, handles are never reused, asserted work is delivered even to a task
  that never yields;
- **ESP adapter**: a record that an assertion marked is served; a vector's interrupt is
  on exactly when one of its records is; an assertion that outlives its vector touches
  no other; a vector or record at its last epoch is not used again;
- **esp_timer**: a requested compare reaches the common handler, once and only while it
  is the latest request; the backend and the alarm service agree on the registered alarm;
- **fade engine**: one thread delivers, pin and completion agree with the latest call, a
  fade ends once, and none is stuck before its deadline or under an owner that still
  takes work;
- **gateway**: no handler runs for a disconnected endpoint, and a
  notification of a connected one is delivered.

## Modules

| module | models |
|---|---|
| `AlarmService` | abstract: what the alarm service promises, with no threads, queue, worker or lock |
| `SystemTimeAlarms` | the service at the grain of critical sections of `kMutationMutex`; `MCSystemTimeAlarms` instantiates it |
| `UptimePublication` | the lock-free uptime at the grain of single atomic accesses; `MCUptimePublication` |
| `EmulatedInterrupts` | controller composed with the port; `MCEmulatedInterrupts` |
| `EspInterrupts` | ESP vectors and records: tasks, native assertions, the emulated ISR |
| `EspTimer` | the esp_timer backend, which extends `EspInterrupts`: the whole path from a compare to its handler; `MCEspTimer` |
| `OneShotTimer` | abstract: the compare register the esp_timer backend promises the common layer |
| `LedcFade` | one LEDC fade engine, and of the process's other one what reaches it; `MCLedcFade` |
| `HostEventGateway` | the host event gateway; `MCHostEventGateway` |
| `SystemTimeAlarmsProofs`, `UptimePublicationProofs`, `EmulatedInterruptsProofs`, `LedcFadeProofs`, `HostEventGatewayProofs`, `EspTimerProofs` (on the lemmas of `EspInterruptsProofs`) | theorems |

### SystemTimeAlarms

A *context* is a thread at level `call` (its own calls) or `callback` (calls made by
the callback it is running), so reentrant use is part of the model. `pc` says where
each context is between two critical sections: `deliver` and `loop` are the sections
of `DeliverAlarmsThrough`, `callback` the unlocked call, `release` the later section
that clears `kDeliveryActive`, the `notify...` labels the generation increment and
broadcast after unlocking, `pace` and `sleep` the pacing of auto-sync callers,
`finish` and `discard` the two halves of shutdown. `Worker` is the worker pthread:
`top` is its section, `check` the generation comparison, `commit` the moment before
`pthread_cond_wait`, `asleep` the wait. `stale` abstracts the 64-bit wake generation
to whether it differs from the worker's copy, which is all the code asks of it.
A CHECK that fails sets `crashed`, after which nothing runs. `host` is the host time
since the origin; a pump's extra read of the clock outside the lock is an ordinary
`system_time_get_micros` step. Reading the clock twice in one section gives one
value: a tick in between has the outcome of a tick before or after.

Uptime is one atomic variable here. `UptimePublication` is where that is justified:
its reads, compare-exchange loops and initialisation are modelled access by access,
with a signal handler that may stop its task between any two of them. A spurious
failure of `compare_exchange_weak` is a stuttering step.

### EmulatedInterrupts

`slot` is the slots' state word and handler, the handler named by the generation that
stored it; `cursor`, `dispatched`, `held` are the locals of
`DispatchPendingInterrupts`. A lock-free loop is the one step in which it succeeds or
finds its handle stale. `rpc` walks a request through store, check, load and kill;
`signalled` is SIGUSR2 pending at a thread, which does not queue. A handoff is
`BeginSwitch` (the kernel selects, the counters go to the stack), `prvResumeThread`
(publish, wake, then the kick as a request of its own) and `Resume` (the event wait
returns, the counters come back). The kernel may select any task. Producers are
native threads and the running handler (`Isr`); a task that asserts and is preempted
half-way behaves like a slow native producer. `WeakOrder` is the memory order of the
two accesses of a request: the code makes a release store of the pending bit and then
an acquire load of `hRunningThread`, which C11 does not order; with `WeakOrder`
the store sits in `buffered` until `Drain`. `pthread_kill` waits for the drain.
Tasks exist from the start and are not deleted.

Two properties say that work does not get lost. `NothingLost` holds in either memory
order: an enabled pending registration is announced, about to be, or being dispatched,
and a pending bit that is set has a signal at some thread or a sender. `NothingStranded`
says more, that the signal is at the selected thread or will be; it needs the strong
order, as `PendingIsDelivered` does.

### EspInterrupts

`vector` and `record` are the two static tables; a publication word is the fields
`epoch` and `published`, a record's state word is `state`. `controller` keeps of the
generic controller what the adapter can tell apart: generation, liveness, enablement and
the pending bit of each slot. `FreeSlots` are the slots that registration may take: a slot
at `MaxSlotGeneration` is retired, as in the controller. One task is selected (`running`) and `isr` is a dispatch on
its thread. Inside `portENTER_CRITICAL` (`Masked`) a task is neither preempted nor
interrupted, but native threads go on, so allocation, enablement and free are split where
such a thread can see the difference: `NewVector` and `Publish`, the record's bit and
`UpdateVectorEnablement`, unpublishing the record, `Retire` and `Unregister`.
`raiseInterruptSource` takes no lock and is one step for each load: `ScanPublication`,
`ScanSource`, `MarkLoad` and `MarkSwap` (the compare-exchange loop of
`MarkRecordMatched`), `HandleCheck` and `HandleRead` (`LoadVectorControllerHandle`),
`setInterruptPending`. `ServeRecord` is one record of `DispatchSourceVector`, before its
handler is called.

Memory is sequentially consistent here. The code checks a publication again after
relaxed loads of the fields it guards, as a sequence lock does; C++ does not order those
loads before the second acquire load, but x86, the host, does.

### EspTimer

`TimerTasks` call init, deinit and set_alarm as esp_timer.c does: set_alarm under the
timer list lock (masked), init and deinit with no other call under way (`TimerIsIdle`).
`Deliverers` run alarm callbacks: the alarm worker, or a task that waits in emulated
time. `lock` is compare_mutex, held across steps where the holder is unmasked (init,
deinit, the callback); set_alarm's two sections are a step each, because no other context
can look in between without waiting. An alarm is named by the generation it was scheduled
for, and uptime is left out: any registered alarm may be due, also before
`ScheduleSystemTimeAlarm` returns to set_alarm. `armed` says whether the requested compare
can be reached at all. `TimerInterrupt` and `UpperHandler` run in the ISR.

`OneShotTimer` says what all of this is for: one compare register that is opened, written,
served and closed, with no alarms, expiries, records or vectors. `EspTimer` implements it
with `generation` as the compare and `served` as the compares served. The timer is open
while `initialized`, except from the new generation that a deinitialization takes on
(`Closing`): the compare is revoked there, and the fields that say so are cleared only
in the steps after it.

### LedcFade

`channel`, `delivery` and `draining` are the engine's state, `call` and `hand` the locals
of a thread: the request and generation it works on, and the item it has popped. The
engine's lock masks signals, so a critical section is a step. Between two of them are the
GPIO write (`write`), the notifier (`notify`), scheduling an alarm and storing its
identity (`schedule`, `store`) and cancelling one (`unregister`). A GPIO write may advance
emulated time and so run an alarm callback inside it: label `nested`. `Forget` ends a call, so that the
values its locals had do not tell states apart.

The process has two engines, the IDF driver's and the Arduino driver's. They share the
alarm service and the thread-local `kLedcDeliveryActive`, so a thread may enter this
engine from inside a drain of the other: `elsewhere` is a thread that drains the other
engine, `foreign` a callback of this engine inside a GPIO write there. `DeliveryActive`,
the flag, is `Drains` or `DrainsOther`. A deadline at `foreign` may find the queue without
an owner and set `draining`, and its `drain()` returns at once. Starts and cancellations
from such a thread are refused by the code and are no steps.

The alarm service is the set `alarms`, claimed earliest first by one thread at a time, as
`AlarmService` promises. `LedcInterrupt` is the ISR: it begins to ask the channels, and
`TakeCompletion` asks one of those in `unpolled`, a critical section each. Signals are
abstracted to their kind and target duty.

### HostEventGateway

`endpoints` and `slot` are the two sides of the table, `pending` the endpoints' flags,
`mutex` the holder of delivery_mutex. `gateway` is where the gateway task is: waiting for
a notification, for the mutex, at the slot `next`, between the exchange and the call
(`call`), or in the handler. `pc` is where a task is in `disconnect`, whose test of
`slot_`, wait for the mutex, critical section and release are steps of their own, or where
a producer is between its payload and its notification. The notification value is the
flag `notified`, since `ulTaskNotifyTake(pdTRUE)` takes all there is. `connection`,
`calling` and `unseen` are histories that the properties need. A producer may notify at
any time, also beside a disconnection, although the header asks it not to.

## Runs

All runs take seconds to about two minutes.

| run | instance | shows |
|---|---|---|
| `alarms_manual` | 2 callers (symmetric) with callbacks, 3 ids, deadlines 1..3 us, delays 1 and 2 us, lag of 1 ns, 2 ns per us, uptime up to 5 | ownership, queue and index, no early or double callback, delays, refinement of `AlarmService` (quiet shutdown and monotone time included) |
| `alarms_auto` | 1 caller and the worker, host time 0..2, 2 ids, deadlines -1 and 1 | refinement of `AlarmService` with the worker and a running clock |
| `alarms_lost_wakeup` (violation) | 1 caller, worker, 1 id | a broadcast between check and wait is lost |
| `uptime_publication` | native thread, task, handler; uptime and host clock up to 2 | monotone reads, time accounted for, handler reads return |
| `interrupts_safety` | 2 tasks (symmetric), a native producer, handlers, 1 slot with 2 generations, nesting 1, weak order | handoff, nesting, unregistration, stale events, generations, no work lost |
| `interrupts_delivery` | 2 tasks, a native producer, handlers, 1 slot, 1 generation, strong order | nothing stranded, delivery to a task that never yields |
| `interrupts_store_buffer` (violation) | the same with weak order | the re-kick misses a store in flight |
| `ledc_fades` | 2 threads, also inside drains of the other engine, 1 channel with 3 generations, a fade of two ticks and an immediate one, uptime up to 2 | one deliverer, pin and completion, each fade ends once and moves towards its target, due fades leave `kArmed`, queued ones are drained by an owner that still takes work |
| `ledc_shared_flag` (violation) | the same, 2 generations | a deadline inside a drain of the other engine leaves `draining` set for good |
| `ledc_release` (violation) | the same, 2 generations | work queued while the owner releases is left behind |
| `esp_timer` | a timer task, a driver task with a filtered and an unfiltered shared handler, a native thread that delivers alarms and asserts sources; 2 vectors with 2 epochs, 2 records with 1, 2 compares | marks, enablement, stale handles, compares, also when the tables run out; refinement of `OneShotTimer`; no deadlock |
| `host_events` | 2 tasks, a producer, 2 endpoints with 2 connections each, 2 slots | no handler of a disconnected endpoint, no lost notification, payloads are seen |

**Bounds.** `MaxUptime`, `MaxAlarmId`, `MaxGeneration` are the code's own limits made
small, so their edges (a delay or lag that does not fit, the id that wraps, the slot
that retires) are reached. `MaxHost` and `MaxNow` stop the clock, `MaxNesting` bounds
critical sections. Two callers with their callbacks give an owner, a rival and
reentrant calls; three ids give a claimed, a queued and a racing alarm. One unit of
`NanosPerMicro` more than 1 in `alarms_manual` separates the two time units. One
interrupt slot suffices for the properties of a slot, which do not relate slots; the
scan over several is covered by the proofs, which hold for any number. The symmetric
runs check no liveness.

In `ledc_fades` three generations are a fade, its cancellation or completion, and a
second fade, so an item, a deadline and an alarm identity of an earlier generation meet
the later one; uptime up to 2 passes a start, a middle and a deadline. The fade goes down
from 3 to 0 in two ticks, so the middle is rounded; the direction up is left to the
theorem. In `esp_timer` two
vectors with a vector for the timer and a vector shared by a driver's handlers, or freed
and reused for the other source, are the confusions that can arise; a record epoch of 1
retires a record with its first use, a vector epoch of 2 lets a vector live twice.
`MaxSlotGeneration` leaves every slot the two registrations those lives need, so that
running out of slots is covered by the theorems only. With
three compares instead of two the run passes as well, and takes longer.
In `host_events` two tasks and two connections let a disconnection meet a second one and
a reconnection, and two slots let a free slot stand before an occupied one.
`MaxConnections`, `MaxGeneration` of `EspTimer` and `LedcFade` and `MaxNow` are bounds of the models; the
code's counters are 64 bits wide. `NumVectors`, `NumRecords` and the epochs are the
code's own limits.

**Fairness.** `SystemTimeAlarms!FairSpec`, used by `alarms_lost_wakeup`: threads that are inside a call, the worker
and the host clock go on (a host kernel schedules pthreads); callbacks return, which
the service demands of them; nobody has to call anything, to throw or to wake up
spuriously. `UptimePublication!FairSpec` is strong for the same reason: a task is
stopped again and again by signals but also runs between them.
`EmulatedInterrupts!FairSpec`: pthreads that can go on do, stores become visible,
tasks leave critical sections and handlers return (strong, as they may meanwhile
raise interrupts or call the controller any number of times), and a pending signal
that is unmasked again and again is delivered. No task has to yield and no tick has to
come: that is what `PendingIsDelivered` is about. `LedcFade!FairSpec`: a thread inside
an engine runs on to the end of its call (weak: no step of another thread disables its
next one), and due alarms are claimed (strong: the threads stand in for the alarm worker,
and between their own calls they are again and again unable to). Nobody has to start or
cancel a fade, take a completion or let time pass. `EspTimer` states no fairness: its
properties are safety, and what must happen next is said by naming who has yet to do it
(`MatchedIsServed`, `CompareNotLost`) with deadlock checked.
`HostEventGateway!FairSpec`: ticks come, handlers return, a producer that has a payload
ready notifies, and who holds the mutex gives it back (all weak); the gateway gets the
mutex if it is free again and again (strong: FreeRTOS hands it to its highest-priority
waiter, and application tasks do not disconnect endpoints for ever at a higher one).

## Findings

Each is a `violation` run with a quotation in PROJECT.json.

1. *Lost wake-up of the alarm worker* (`timer.cpp:203`): notifiers do not take the
   wait mutex.
2. *Store buffering between a request and a handoff* (`port.c:493`): with
   sequentially consistent accesses `PendingIsDelivered` holds (`interrupts_delivery`).
   What still holds with the accesses the code makes is `NothingLost`, which is proved.
3. *Two engines share one delivery flag* (`ledc_fade_engine.cpp:77`): a deadline inside a
   GPIO write of the other engine sets `draining` (line 136) and its `drain()` returns
   before there is a guard to clear it. Every later call of the engine only appends.
4. *The fade engine releases its queue in a second critical section*
   (`ledc_fade_engine.cpp:84`): an item queued after the last look at the queue waits for
   the next call.

Observations without a run. Of time and alarms:

- As in finding 4, `DeliverAlarmsThrough` finds no due work in one critical section and
  clears `kDeliveryActive` in another (`timer.cpp:377`), while the alarm design says it is
  the same one (`emulated_time_alarms.md:218`). A pump in between is refused, and what
  became due stays; in auto-sync mode the worker takes it.
- The owner of a delay whose first alarm is already due takes the else branch of
  `timer.cpp:357` and publishes the delay's end at once, so the second of two alarms with
  equal deadlines runs at the end of the delay, while the design
  (`emulated_time_alarms.md:168`) has it drain each boundary before it goes on.
- The drain loop (`timer.cpp:344`) rescans after every callback. A callback that registers
  for now each time it runs keeps the pump from returning; ids are 64 bits wide.
- In auto-sync mode a lag is added to the published floor and absorbed by host time
  already elapsed, while `timer.h` says it advances uptime by the amount.
- The clock design says the initialiser masks scheduler signals, the code does not, so a
  higher-priority task that spins in `isAutoSyncEnabled` can keep a preempted initialiser
  from finishing.

Of interrupts and esp_timer:

- A native producer may send its signal to the pthread of a task that was deleted after it
  loaded it.
- `compare_mutex` is a plain mutex (`esp_timer_impl_host.cpp:31`) that tasks take with
  signals on (lines 45, 137, 156), while `esp_timer_emulation.md:187` says it is the
  scheduler-safe one. A task preempted while it holds it blocks the pthread of a task
  that calls `set_alarm` with signals masked, and neither goes on.

Of LEDC:

- Cancelling an immediate fade that is still queued moves its duty back to the start
  value, since `Materialize` tests the duration first.
- `Cancel` refuses a channel whose completion is pending (`ledc_fade_engine.cpp:217`),
  while the voltage document lets lifecycle cancellation win `pending` as well
  (`ledc_voltage_emulation.md:449`). So a channel that is pending when the fade service is
  uninstalled stays pending, and later starts are refused. `EndsOnce` takes no side: it
  forbids a second end, and would allow the cancellation the document describes.
- `idf_ledc.cpp` takes `LedcState::mutex`, a plain mutex, in tasks with signals on and in
  the interrupt handler (line 153), while the document says every acquisition masks them
  (`ledc_voltage_emulation.md:504`): the handler can wait for its own thread.
- `ledc_fade_start` tests that the service is installed under that mutex and calls the
  engine after it (line 430), so a fade may begin once the service is uninstalled.
- The gate of a channel is taken again by `LEDC_FADE_WAIT_DONE` and then kept (line 438),
  and is not given back when uninstallation cancels a fade (line 475), while the document
  has it available whenever the channel is idle (`ledc_voltage_emulation.md:352`, 247).

## Proofs

The theorems hold for every value of the constants that satisfies the named
assumptions (any sets of threads, any limits, either memory order): the theorems assume what the
`ASSUME`s of the modules say and nothing else.

- **SystemTimeAlarmsProofs.** Inductive invariant `IInv`: `TypeOK`, `SingleOwner`,
  `IndexConsistent`, `ClaimedIsDueAndGone` and four facts about program counters.
  `ContextShape`: a callback context is in a call only below a thread in `callback`,
  the worker has labels of its own and does not run before it is started. `ClaimShape`:
  a claim is one alarm, held only on the way to or in its callback, without which
  `running` of the abstract service could not be shown to hold at most one.
  `CloseShape`: nobody delivers once the service closes, one thread shuts it down, and
  the worker is gone before the queue is cleared. `DelayShape`: the reservation bounds
  every target on its way, and an owner past its loop has reached its own. The safety
  invariants follow by projection; `TimeIsMonotone` and `ConcurrentDelaysAddUp` are
  action properties from `IInv`; `ImplementsAbstract` shows that each action maps to a
  step of `AlarmService` or a stutter under `now <- uptime, pending <- alarms,
  used <- UsedIds, running <- Claimed, open <- service`.
- **UptimePublicationProofs.** `IInv`: `TypeOK`, `ReadsMonotone`,
  `UptimeIsAccountedFor`, `InitShape` (one initialiser at most, and only while the state
  word says so; mutation and catching up only in a ready state, the floor zero until
  then) and `ValueShape` (a host uptime that a read is about to publish is not ahead of
  the host clock). `UptimeIsAccountedFor` says too that no sum leaves the signed range,
  which is the type of the floor; `FloorAccounted` is the rest of it.
- **EmulatedInterruptsProofs.** `IInv`: `TypeOK`, `HandlerIsLive`, `NoStaleDelivery`,
  `ThreadShape` (who executes, whose event is set and whom the kernel has selected:
  together at most one thread can act), `NestShape` (the counters, live or saved on a
  stack, against each task's own depth), `SlotShape` (the handler of a slot is that of
  its registration and gone with it; retired handles lie behind; a claim belongs to the
  dispatching thread) and `RequestShape` (where a request of each kind of producer can
  be; nothing is requested before the dispatcher is installed). `OneTaskExecutes`,
  `NestingDescribesTask` and `HandlesNotReused` follow. `NoWorkLost` adds `ScanShape` (during
  a pass that has called no handler yet, a claimable slot that was already passed over has
  announced itself again) and `LateStores` (a producer whose store is still in flight has
  its signal yet to send), and holds in either memory order.

- **LedcFadeProofs.** Four invariants, each inductive given the ones before: `TypeOK`,
  `SingleDeliverer`, `EndedShape` (a fade that has ended is of an earlier generation, or
  its completion was the last thing to happen to the channel) and `DeliveryInv`, which
  relates the channels to what is queued and what is in a thread's hand: `ChannelShape`
  (a fade that is over has its target as its duty), `QueueShape` and `HandShape` (no item
  is of a future generation; one of the current generation is of a fade still to
  complete), `FinalizerIsLast`, `FinalizeIsMarked`, `QueuedHasFinalizer` and `SettleShape`
  (the last write still to come for a channel, or else its pin, is what the latest call
  asked for).
  `SingleDeliverer` counts as owners the threads that drain this engine or are on the way to
  it, not those in the other engine, and so does not need the flag to be one per engine;
  that `draining` has an owner (`OwnershipIsHeld`) is what fails with a shared flag, and is
  not part of the invariant. `OutputSettles` and `PendingShowsTarget` are not inductive
  without the last. The steps
  fall into five kinds, a lemma each: those that leave the queue alone (`QuietStep`),
  append (`ProduceStep`), take (`PopStep`), write (`WriteStep`) and finalize
  (`FinalizeStep`). `ReadbackMonotone` rests on lemmas about integer division
  (`StepBounded`, `StepMonotone`, `MaterializeMoves`). All safety properties of
  `ledc_fades` are proved.

- **HostEventGatewayProofs.** `IInv`: `TypeOK`, `HandlerIsConnected`,
  `NotificationNotLost`, `TableAgrees` (slots and endpoints name each other),
  `MutexShape` (who is where when the mutex is held: the gateway from before its first
  exchange to after its last handler, which is why no disconnection comes in between) and
  `CallShape` (a handler is called from a slot of the table).

- **EspTimerProofs**, on the lemmas of **EspInterruptsProofs**. The invariant `Inv` has two
  halves. `InterruptInv` is about the interrupt tables, and holds whatever the backend does
  with them. `Exclusive` and `OpShape`: one critical section at a time, on the selected
  task with no ISR on its thread. `PublishShape`, `EnablementShape`, `RetireShape`,
  `UnregisterShape`: what each step of an allocation or a free finds. `RecordsNameVectors`,
  `VectorsNameSlots`, `SlotsNameVectors`, `OneVectorPerSource`: which of the tables' names
  are good between those steps. `DispatchShape`, and of raising threads `RaiseShape`,
  `HandleIsVectors` (while its publication lasts, a handle read is the vector's) and
  `HandleIsKnown` (a handle is never ahead of its slot, and a live one belongs to the life
  its thread found). `EnablementKnown` and `MatchedIsServed`. Neither a mark nor the
  enablement of a vector survives a step of a native thread or of a free without these:
  the thread works from loads that other steps have since made stale.
  `BackendInv` is about the backend, each context located by `Place`, its label or, inside
  an operation on the tables, where it will go on. `Calls` and `LockHeld`: one call and one
  callback at a time, and the mutex is where they say. `Initialization`, `AlarmsKnown`,
  `CallKnows`, `ScheduledKnown`, `Generations`: every registered alarm is the remembered one
  or in a call's hand, is claimed at most once, and is not ahead of the compare.
  `ExpiryTaken`: an expiry that was served has been taken. `OneRecord`, `TimerRecord`,
  `TimerPublish`: exactly one record is the timer's, unfiltered and enabled on a vector of
  the timer's source, which no driver publishes. `CompareKept` is `CompareNotLost`
  within the calls as well, where it would otherwise not be inductive. The steps fall into
  those of the backend, one lemma each, and those of the tables, drivers and dispatch, which
  leave the backend what it needs (`Kept`, used by `KeptStep`). All safety properties
  of the run follow. `ImplementsAbstract` adds `ArmedShape` (what is on its way to the
  handler is an armed compare of an open timer) and shows that each step is one of
  `OneShotTimer` or a stutter.

Six theorems state properties that no run repeats: `QuietAfterClose` and
`TimeNeverGoesBack`, which the refinement of `AlarmService` contains, and
`OriginIsImmutable`, `HandlesNotReused` and the `TypeOK` of the uptime and of the gateway,
which are proved only.

Only model-checked: the liveness properties (`IsrReadReturns`, `PendingIsDelivered`,
`DueFadeIsQueued`, `QueuedIsDrained`, `PayloadIsSeen`), as fairness is outside what
the prover does; `NothingStranded`, with sequentially consistent accesses; that no run deadlocks, which is about ENABLED; and the violation runs.

## Not modelled, and the plan

Not modelled because there is little to check or it is out of reach: device data
(buses, devices, NVS, flash, waveforms in floating point), host I/O (WiFi, SNTP and
OTA shims, viewport), the two LEDC drivers over the engine (planned), vendored frameworks, the FreeRTOS kernel's choice of tasks
(modelled as any choice).

Done, in this order: alarms (core, abstract service), uptime publication, controller
and port, with their proofs; the fade engine with its proofs; the ESP adapter and the
esp_timer backend with their proofs and the abstract one-shot timer; the gateway with its
proofs. Next:

1. Creation and deletion of tasks in the port (`vPortThreadDying`,
   `vPortCancelThread`), with the signal to a dead thread.
2. `idf_ledc.cpp` over the fade engine: installation, gates and the interrupt under its
   mutex; that a gate that can be taken never belongs to a running fade.
3. An abstract controller that `EmulatedInterrupts` implements, in the place of the
   one `EspInterrupts` keeps in its variable `controller`.
