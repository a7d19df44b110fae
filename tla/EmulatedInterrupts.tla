------------------------- MODULE EmulatedInterrupts -------------------------
(***************************************************************************)
(* Emulated interrupts: the generic controller (interrupt_controller.cpp)  *)
(* on top of the signal ingress and task handoff of the FreeRTOS Linux     *)
(* port (port.c).                                                          *)
(*                                                                         *)
(* Every task is a pthread and one of them is selected; native producers   *)
(* run beside them.  A producer marks a registration pending, sets the     *)
(* port's pending bit and sends SIGUSR2 to the selected pthread, in steps  *)
(* of their own, while the selection changes.  The thread that is handing  *)
(* over and the one it woke overlap until the first has gone to sleep.     *)
(*                                                                         *)
(* A lock-free loop of load and compare-exchange is one step, the one in   *)
(* which it succeeds or finds the handle stale.  A task that asserts an    *)
(* interrupt and is preempted half-way behaves like a slow native one.     *)
(***************************************************************************)
EXTENDS Integers, FiniteSets

CONSTANTS
    Tasks,          \* FreeRTOS tasks, a pthread each
    Natives,        \* native host threads that assert, enable and disable
    Isr,            \* the handler that runs, as a producer
    NoThread,       \* the null pthread_t
    NumSlots,       \* kInterruptCapacity
    MaxGeneration,  \* kMaxGeneration
    MaxNesting,     \* bound: how deep a task nests critical sections
    WeakOrder       \* the release store of the pending bit may be delayed past
                    \* the load of the selected pthread that follows it

ASSUME ThreadsAssumption ==
    /\ Tasks \cap Natives = {}
    /\ Isr \notin Tasks \cup Natives
    /\ NoThread \notin Tasks

ASSUME LimitsAssumption ==
    /\ NumSlots \in Nat /\ MaxGeneration \in Nat /\ MaxNesting \in Nat
    /\ WeakOrder \in BOOLEAN

Slots == 1..NumSlots
Handles == Slots \X (1..MaxGeneration)
Producers == Tasks \cup Natives \cup {Isr}

VARIABLES
    slot,            \* interrupt_slots: state word and handler of each slot
    cursor,          \* the slot DispatchPendingInterrupts looks at next
    dispatched,      \* whether the current pass has called a handler
    held,            \* the handle claimed for dispatch, as a set
    dispatcher,      \* pxSimulatedInterruptDispatcher is installed
    irqPending,      \* xSimulatedInterruptPending, as the other threads see it
    buffered,        \* producers whose store of it is not yet visible
    signalled,       \* pthreads with SIGUSR2 pending
    rpc,             \* where a request is: store, check, load or kill
    target,          \* the pthread a request has loaded
    current,         \* the task the kernel has selected (pxCurrentTCB)
    hRunningThread,  \* the selected pthread as published
    event,           \* threads whose wake-up event is set
    pc,              \* where each task's pthread is
    after,           \* what a suspended thread returns to
    saved,           \* the nesting counters on a suspended thread's stack
    critNest,        \* uxCriticalNesting
    isrNest,         \* uxInterruptNesting
    yieldPending,    \* xYieldPending
    masked,          \* pthreads that block the port's signals
    depth,           \* the critical sections each task has entered
    ended,           \* vPortEndScheduler has run
    asserted,        \* history: handles through which a producer asserted
    retired          \* history: handles that have been unregistered

slotVars == <<slot, asserted, retired>>
scanVars == <<cursor, dispatched, held>>
requestVars == <<dispatcher, irqPending, buffered, signalled, rpc, target>>
switchVars == <<current, hRunningThread, event, after, saved>>
nestVars == <<critNest, isrNest, yieldPending, masked, depth>>
vars == <<slotVars, scanVars, requestVars, switchVars, nestVars, pc, ended>>

\* StateWithGeneration(g, 0), no handler and no argument
FreeSlot(g) == [generation |-> g, allocated |-> FALSE, enabled |-> FALSE,
                pending |-> FALSE, handler |-> 0]

\* The scheduler has been started and has woken the first task
Init ==
    /\ slot = [s \in Slots |-> FreeSlot(0)]
    /\ cursor = 1 /\ dispatched = FALSE /\ held = {}
    /\ dispatcher = FALSE /\ irqPending = FALSE /\ buffered = {} /\ signalled = {}
    /\ rpc = [p \in Producers |-> "none"]
    /\ target = [p \in Producers |-> NoThread]
    /\ current \in Tasks
    /\ hRunningThread = current
    /\ event = {current}
    /\ pc = [t \in Tasks |-> "suspend"]
    /\ after = [t \in Tasks |-> "start"]
    /\ saved = [t \in Tasks |-> <<0, 0>>]
    /\ critNest = 0 /\ isrNest = 0 /\ yieldPending = FALSE
    /\ masked = Tasks
    /\ depth = [t \in Tasks |-> 0]
    /\ ended = FALSE
    /\ asserted = {} /\ retired = {}

Goto(t, label) == pc' = [pc EXCEPT ![t] = label]
Request(p, label) == rpc' = [rpc EXCEPT ![p] = label]

-----------------------------------------------------------------------------
(* The controller's operations.  A registration's handler and argument are   *)
(* named by the generation that stored them; 0 is the null handler.          *)

\* Definitions named ..._Slip are not part of the model: each is the variant of
\* the definition below it that a plausible coding slip would give, kept to
\* show that the properties tell the two apart.

Matches_Slip(h) == slot[h[1]].allocated

Matches(h) == slot[h[1]].allocated /\ slot[h[1]].generation = h[2]

HasUnusedGeneration_Slip(s) == slot[s].generation <= MaxGeneration

HasUnusedGeneration(s) == slot[s].generation < MaxGeneration

Free(s) == ~slot[s].allocated /\ HasUnusedGeneration(s)

InTaskContext_Slip(t) == pc[t] \in {"task", "handler"} /\ ~ended

\* Task context: the scheduler runs and no ISR frame is active
InTaskContext(t) == pc[t] = "task" /\ isrNest = 0 /\ ~ended

\* Signals are masked from the installation of the dispatcher to the end
registerInterrupt(t, s, initially_enabled) ==
    /\ InTaskContext(t)
    /\ Free(s)
    /\ \A lower \in 1..(s - 1) : ~Free(lower)
    /\ dispatcher' = TRUE
    /\ signalled' = IF ~dispatcher /\ irqPending THEN signalled \cup {hRunningThread}
                    ELSE signalled
    /\ slot' = [slot EXCEPT ![s] = [generation |-> slot[s].generation + 1,
                                    allocated |-> TRUE,
                                    enabled |-> initially_enabled,
                                    pending |-> FALSE,
                                    handler |-> slot[s].generation + 1]]
    /\ UNCHANGED <<asserted, retired, scanVars, irqPending, buffered, rpc, target,
                   switchVars, nestVars, pc, ended>>

AfterUnregister(h) == FreeSlot(h[2])

unregisterInterrupt(t, h) ==
    /\ InTaskContext(t)
    /\ Matches(h)
    /\ slot' = [slot EXCEPT ![h[1]] = AfterUnregister(h)]
    /\ retired' = retired \cup {h}
    /\ UNCHANGED <<asserted, scanVars, requestVars, switchVars, nestVars, pc, ended>>

\* A native thread at any time, or the handler that is running
CanRequest(p) ==
    /\ rpc[p] = "none"
    /\ \/ p \in Natives
       \/ p = Isr /\ \E t \in Tasks : pc[t] = "handler"

\* An operation through a stale handle returns false and changes nothing
setInterruptPending(p, h) ==
    /\ CanRequest(p)
    /\ Matches(h)
    /\ slot' = [slot EXCEPT ![h[1]].pending = TRUE]
    /\ asserted' = asserted \cup {h}
    /\ Request(p, IF slot[h[1]].enabled THEN "store" ELSE "none")
    /\ UNCHANGED <<retired, scanVars, dispatcher, irqPending, buffered, signalled,
                   target, switchVars, nestVars, pc, ended>>

EnableRequests(h) == slot[h[1]].pending

enableInterrupt(p, h) ==
    /\ CanRequest(p)
    /\ Matches(h)
    /\ slot' = [slot EXCEPT ![h[1]].enabled = TRUE]
    /\ Request(p, IF EnableRequests(h) THEN "store" ELSE "none")
    /\ UNCHANGED <<asserted, retired, scanVars, dispatcher, irqPending, buffered,
                   signalled, target, switchVars, nestVars, pc, ended>>

disableInterrupt(p, h) ==
    /\ CanRequest(p)
    /\ Matches(h)
    /\ slot' = [slot EXCEPT ![h[1]].enabled = FALSE]
    /\ UNCHANGED <<asserted, retired, scanVars, requestVars, switchVars, nestVars, pc,
                   ended>>

-----------------------------------------------------------------------------
(* vPortRequestSimulatedInterrupt and prvKickSimulatedInterrupt *)

\* The whole request of a handler is one step: the selection does not change
\* while its thread dispatches, and only that thread takes the bit back
RequestFromHandler ==
    /\ rpc[Isr] = "store"
    /\ irqPending' = TRUE
    /\ signalled' = IF hRunningThread = NoThread THEN signalled
                    ELSE signalled \cup {hRunningThread}
    /\ Request(Isr, "none")
    /\ UNCHANGED <<slotVars, scanVars, dispatcher, buffered, target, switchVars,
                   nestVars, pc, ended>>

StorePending(p) ==
    /\ p \in Natives
    /\ rpc[p] = "store"
    /\ IF WeakOrder
       THEN buffered' = buffered \cup {p} /\ UNCHANGED irqPending
       ELSE irqPending' = TRUE /\ UNCHANGED buffered
    /\ Request(p, "check")
    /\ UNCHANGED <<slotVars, scanVars, dispatcher, signalled, target, switchVars,
                   nestVars, pc, ended>>

Drain(p) ==
    /\ p \in buffered
    /\ buffered' = buffered \ {p}
    /\ irqPending' = TRUE
    /\ UNCHANGED <<slotVars, scanVars, dispatcher, signalled, rpc, target, switchVars,
                   nestVars, pc, ended>>

CheckPending(p) ==
    /\ rpc[p] = "check"
    /\ Request(p, IF irqPending \/ p \in buffered THEN "load" ELSE "none")
    /\ UNCHANGED <<slotVars, scanVars, dispatcher, irqPending, buffered, signalled,
                   target, switchVars, nestVars, pc, ended>>

LoadRunning(p) ==
    /\ rpc[p] = "load"
    /\ target' = [target EXCEPT ![p] = hRunningThread]
    /\ Request(p, IF hRunningThread = NoThread THEN "none" ELSE "kill")
    /\ UNCHANGED <<slotVars, scanVars, dispatcher, irqPending, buffered, signalled,
                   switchVars, nestVars, pc, ended>>

\* pthread_kill, whose locks also make earlier stores visible; after the end of
\* the scheduler the signal is ignored
Kill(p) ==
    /\ rpc[p] = "kill"
    /\ p \notin buffered
    /\ signalled' = IF ended THEN signalled ELSE signalled \cup {target[p]}
    /\ target' = [target EXCEPT ![p] = NoThread]
    /\ Request(p, "none")
    /\ UNCHANGED <<slotVars, scanVars, dispatcher, irqPending, buffered, switchVars,
                   nestVars, pc, ended>>

-----------------------------------------------------------------------------
(* Critical sections *)

vPortEnterCritical(t) ==
    /\ InTaskContext(t)
    /\ depth[t] < MaxNesting
    /\ depth' = [depth EXCEPT ![t] = @ + 1]
    /\ masked' = IF critNest = 0 THEN masked \cup {t} ELSE masked
    /\ critNest' = critNest + 1
    /\ UNCHANGED <<slotVars, scanVars, requestVars, switchVars, isrNest, yieldPending,
                   pc, ended>>

Lowered(n) == IF n > 0 THEN n - 1 ELSE 0

vPortExitCritical(t) ==
    /\ InTaskContext(t)
    /\ depth[t] > 0
    /\ depth' = [depth EXCEPT ![t] = @ - 1]
    /\ critNest' = Lowered(critNest)
    /\ masked' = IF Lowered(critNest) = 0 THEN masked \ {t} ELSE masked
    /\ UNCHANGED <<slotVars, scanVars, requestVars, switchVars, isrNest, yieldPending,
                   pc, ended>>

-----------------------------------------------------------------------------
(* Handing the processor over: vPortYield, the tick, prvSwitchThread.  The   *)
(* kernel (vTaskSwitchContext) may select any task; selecting the caller     *)
(* again changes nothing.                                                    *)

BeginSwitch(t, next, label, crit, isr) ==
    /\ next \in Tasks \ {t}
    /\ current' = next
    /\ after' = [after EXCEPT ![t] = label]
    /\ saved' = [saved EXCEPT ![t] = <<crit, isr>>]
    /\ critNest' = crit /\ isrNest' = isr
    /\ Goto(t, "resume")
    /\ UNCHANGED <<hRunningThread, event>>

\* vPortYield enters a critical section of its own
vPortYield(t, next) ==
    /\ InTaskContext(t)
    /\ BeginSwitch(t, next, "yield", critNest + 1, isrNest)
    /\ masked' = masked \cup {t}
    /\ UNCHANGED <<slotVars, scanVars, requestVars, yieldPending, depth, ended>>

vPortSystemTickHandler(t, next) ==
    /\ pc[t] = "task" /\ t \notin masked /\ ~ended
    /\ BeginSwitch(t, next, "tick", critNest + 1, isrNest + 1)
    /\ yieldPending' = FALSE
    /\ masked' = masked \cup {t}
    /\ UNCHANGED <<slotVars, scanVars, requestVars, depth, ended>>

KickAtHandoff_Slip == "none"

KickAtHandoff == "check"

\* Publish the selection, wake that thread, then kick it for pending work; the
\* caller goes to sleep beside the thread it woke
prvResumeThread(t) ==
    /\ pc[t] = "resume"
    /\ hRunningThread' = current
    /\ event' = event \cup {current}
    /\ Request(t, KickAtHandoff)
    /\ Goto(t, "suspend")
    /\ UNCHANGED <<slotVars, scanVars, dispatcher, irqPending, buffered, signalled,
                   target, current, after, saved, nestVars, ended>>

EventAfterWait_Slip(t) == event

EventAfterWait(t) == event \ {t}

RestoredNesting_Slip(t) == <<critNest, isrNest>>

RestoredNesting(t) == saved[t]

\* event_wait returns and the thread restores its counters: it is new, ends
\* the critical section of its yield, or returns from a signal handler
Resume(t) ==
    /\ pc[t] = "suspend" /\ rpc[t] = "none"
    /\ t \in event
    /\ event' = EventAfterWait(t)
    /\ isrNest' = RestoredNesting(t)[2]
    /\ critNest' = IF after[t] = "yield" THEN Lowered(RestoredNesting(t)[1])
                   ELSE RestoredNesting(t)[1]
    /\ yieldPending' = IF after[t] = "start" THEN FALSE ELSE yieldPending
    /\ masked' = IF \/ after[t] = "tick"
                    \/ after[t] = "yield" /\ critNest' # 0
                 THEN masked ELSE masked \ {t}
    /\ Goto(t, IF after[t] = "tick" THEN "isrExit" ELSE "task")
    /\ after' = [after EXCEPT ![t] = "start"]
    /\ saved' = [saved EXCEPT ![t] = <<0, 0>>]
    /\ UNCHANGED <<slotVars, scanVars, requestVars, current, hRunningThread, depth,
                   ended>>

-----------------------------------------------------------------------------
(* vPortSimulatedInterruptHandler and DispatchPendingInterrupts *)

vPortSimulatedInterruptHandler(t) ==
    /\ pc[t] = "task" /\ t \notin masked /\ t \in signalled
    /\ signalled' = signalled \ {t}
    /\ IF dispatcher /\ irqPending
       THEN /\ irqPending' = FALSE
            /\ critNest' = critNest + 1 /\ isrNest' = isrNest + 1
            /\ masked' = masked \cup {t}
            /\ cursor' = 1 /\ dispatched' = FALSE
            /\ Goto(t, "scan")
       ELSE UNCHANGED <<irqPending, critNest, isrNest, masked, cursor, dispatched, pc>>
    /\ UNCHANGED <<slotVars, held, dispatcher, buffered, rpc, target, switchVars,
                   yieldPending, depth, ended>>

Claimable(s) == slot[s].allocated /\ slot[s].enabled /\ slot[s].pending

\* Claims the pending bit before the call, so that a handler can assert again
ClaimPending(t) ==
    /\ pc[t] = "scan" /\ cursor \in Slots /\ Claimable(cursor)
    /\ slot' = [slot EXCEPT ![cursor].pending = FALSE]
    /\ held' = {<<cursor, slot[cursor].generation>>}
    /\ dispatched' = TRUE
    /\ Goto(t, "claimed")
    /\ UNCHANGED <<asserted, retired, cursor, requestVars, switchVars, nestVars, ended>>

SkipSlot(t) ==
    /\ pc[t] = "scan" /\ cursor \in Slots /\ ~Claimable(cursor)
    /\ cursor' = cursor + 1
    /\ UNCHANGED <<slotVars, dispatched, held, requestVars, switchVars, nestVars, pc,
                   ended>>

EndPass(t) ==
    /\ pc[t] = "scan" /\ cursor \notin Slots
    /\ cursor' = 1 /\ dispatched' = FALSE
    /\ Goto(t, IF dispatched THEN "scan" ELSE "recheck")
    /\ UNCHANGED <<slotVars, held, requestVars, switchVars, nestVars, ended>>

\* The handler and argument are loaded only now; a null handler is skipped
LoadHandler(t) ==
    /\ pc[t] = "claimed"
    /\ LET handler == slot[cursor].handler IN
       IF handler # 0
       THEN /\ held' = {<<cursor, handler>>}
            /\ Goto(t, "handler")
            /\ UNCHANGED cursor
       ELSE /\ held' = {}
            /\ cursor' = cursor + 1
            /\ Goto(t, "scan")
    /\ UNCHANGED <<slotVars, dispatched, requestVars, switchVars, nestVars, ended>>

\* portYIELD_FROM_ISR in a handler only latches the request
HandlerYields(t) ==
    /\ pc[t] = "handler"
    /\ isrNest > 0
    /\ yieldPending' = TRUE
    /\ UNCHANGED <<slotVars, scanVars, requestVars, switchVars, critNest, isrNest,
                   masked, depth, pc, ended>>

HandlerReturns(t) ==
    /\ pc[t] = "handler" /\ rpc[Isr] = "none"
    /\ held' = {}
    /\ cursor' = cursor + 1
    /\ Goto(t, "scan")
    /\ UNCHANGED <<slotVars, dispatched, requestVars, switchVars, nestVars, ended>>

AfterDispatch_Slip == "isrExit"

AfterDispatch == IF irqPending THEN "scan" ELSE "isrExit"

\* Requests made during dispatch are drained in the same frame
DrainAgain(t) ==
    /\ pc[t] = "recheck"
    /\ irqPending' = FALSE
    /\ Goto(t, AfterDispatch)
    /\ UNCHANGED <<slotVars, scanVars, dispatcher, buffered, signalled, rpc, target,
                   switchVars, nestVars, ended>>

\* prvExitInterruptContext and prvYieldPendingFromInterruptExit: the yield
\* happens outside the ISR context; otherwise, or once the kernel has selected
\* the same task, the signal handler returns
ReturnFromInterrupt(t) ==
    /\ pc[t] = "isrExit"
    /\ critNest' = critNest - 1 /\ isrNest' = isrNest - 1
    /\ yieldPending' = IF isrNest = 1 THEN FALSE ELSE yieldPending
    /\ masked' = masked \ {t}
    /\ Goto(t, "task")
    /\ UNCHANGED <<slotVars, scanVars, requestVars, switchVars, depth, ended>>

YieldFromInterrupt(t, next) ==
    /\ pc[t] = "isrExit"
    /\ isrNest = 1 /\ yieldPending
    /\ yieldPending' = FALSE
    /\ BeginSwitch(t, next, "isr", critNest - 1, isrNest - 1)
    /\ UNCHANGED <<slotVars, scanVars, requestVars, masked, depth, ended>>

vPortEndScheduler(t) ==
    /\ InTaskContext(t)
    /\ irqPending' = FALSE
    /\ hRunningThread' = NoThread
    /\ signalled' = {}
    /\ ended' = TRUE
    /\ Goto(t, "ended")
    /\ UNCHANGED <<slotVars, scanVars, dispatcher, buffered, rpc, target, current, event,
                   after, saved, nestVars>>

-----------------------------------------------------------------------------
TaskCall(t) ==
    \/ \E s \in Slots, enabled \in BOOLEAN : registerInterrupt(t, s, enabled)
    \/ \E h \in Handles : unregisterInterrupt(t, h)
    \/ vPortEnterCritical(t)
    \/ vPortExitCritical(t)
    \/ \E next \in Tasks : vPortYield(t, next)
    \/ \E next \in Tasks : vPortSystemTickHandler(t, next)
    \/ vPortEndScheduler(t)

ControllerCall(p) ==
    \E h \in Handles :
        setInterruptPending(p, h) \/ enableInterrupt(p, h) \/ disableInterrupt(p, h)

RequestStep(p) ==
    \/ StorePending(p) \/ Drain(p) \/ CheckPending(p) \/ LoadRunning(p) \/ Kill(p)
    \/ p = Isr /\ RequestFromHandler

SwitchStep(t) == prvResumeThread(t) \/ Resume(t)

DispatchStep(t) ==
    \/ ClaimPending(t) \/ SkipSlot(t) \/ EndPass(t) \/ LoadHandler(t)
    \/ DrainAgain(t) \/ ReturnFromInterrupt(t)

\* Nothing has to happen once the scheduler has ended
Stopped == ended /\ UNCHANGED vars

Next ==
    \/ \E t \in Tasks : \/ TaskCall(t)
                        \/ SwitchStep(t)
                        \/ vPortSimulatedInterruptHandler(t)
                        \/ DispatchStep(t)
                        \/ HandlerYields(t)
                        \/ HandlerReturns(t)
                        \/ \E next \in Tasks : YieldFromInterrupt(t, next)
    \/ \E p \in Producers : ControllerCall(p) \/ RequestStep(p)
    \/ Stopped

Spec == Init /\ [][Next]_vars

\* A pthread that can go on goes on and a store becomes visible; a task leaves
\* its critical sections; a handler returns; a signal that is pending again
\* and again while its thread does not block it is delivered.  No task has to
\* give the processor up.
FairSpec ==
    /\ Spec
    /\ \A p \in Natives \cup {Isr} : WF_vars(RequestStep(p))
    /\ \A t \in Tasks : /\ WF_vars(SwitchStep(t) \/ DispatchStep(t) \/ RequestStep(t))
                        /\ SF_vars(vPortExitCritical(t))
                        /\ SF_vars(HandlerReturns(t))
                        /\ SF_vars(vPortSimulatedInterruptHandler(t))
-----------------------------------------------------------------------------
(* Properties *)

Labels == {"suspend", "task", "resume", "scan", "claimed", "handler",
           "recheck", "isrExit", "ended"}

InDispatch == {"scan", "claimed", "handler", "recheck"}

\* Labels at which a pthread acts as the selected task
Executing(t) == pc[t] \in InDispatch \cup {"task", "isrExit", "resume", "ended"}

SlotState == [generation : 0..MaxGeneration, allocated : BOOLEAN, enabled : BOOLEAN,
              pending : BOOLEAN, handler : 0..MaxGeneration]

SlotTypes ==
    /\ slot \in [Slots -> SlotState]
    /\ cursor \in 1..(NumSlots + 1) /\ dispatched \in BOOLEAN
    /\ held \subseteq Handles /\ asserted \subseteq Handles /\ retired \subseteq Handles

RequestTypes ==
    /\ dispatcher \in BOOLEAN /\ irqPending \in BOOLEAN
    /\ buffered \subseteq Natives /\ signalled \subseteq Tasks
    /\ rpc \in [Producers -> {"none", "store", "check", "load", "kill"}]
    /\ target \in [Producers -> Tasks \cup {NoThread}]

ThreadTypes ==
    /\ current \in Tasks /\ hRunningThread \in Tasks \cup {NoThread}
    /\ event \subseteq Tasks
    /\ pc \in [Tasks -> Labels]
    /\ after \in [Tasks -> {"start", "yield", "tick", "isr"}]
    /\ ended \in BOOLEAN

NestTypes ==
    /\ saved \in [Tasks -> Nat \X Nat]
    /\ critNest \in Nat /\ isrNest \in Nat
    /\ yieldPending \in BOOLEAN
    /\ masked \subseteq Tasks
    /\ depth \in [Tasks -> Nat]

\* Every variable has its type; in particular no generation exceeds the
\* identity space and no nesting counter drops below zero.
TypeOK == SlotTypes /\ RequestTypes /\ ThreadTypes /\ NestTypes

\* Never do two task pthreads act as the selected one, although the one that
\* hands over and the one that takes over run side by side.
OneTaskExecutes ==
    \A t, u \in Tasks : Executing(t) /\ Executing(u) => t = u

\* The shared nesting counters describe the thread that reads them: what the
\* port restores at every handoff is the depth of that task's own critical
\* sections and ISR frames; an interrupt is dispatched only outside critical
\* sections, and the yield latch does not outlive the frame that set it.
NestingDescribesTask ==
    /\ \A t \in Tasks :
           /\ pc[t] = "task" => critNest = depth[t] /\ isrNest = 0
           /\ pc[t] \in InDispatch \cup {"isrExit"} =>
                  critNest = 1 /\ isrNest = 1 /\ depth[t] = 0
           /\ pc[t] = "task" => (t \in masked <=> depth[t] > 0)
    /\ yieldPending => \E t \in Tasks : pc[t] \in InDispatch \cup {"isrExit"}

\* Unregistration is quiescent: the registration whose handler is claimed or
\* runs is live, and the handler that runs is the one it was registered with.
HandlerIsLive ==
    \A h \in held : Matches(h) /\ slot[h[1]].handler = h[2]

\* A stale host event is never redirected: what is pending or runs was
\* asserted through a handle of that very registration.
NoStaleDelivery ==
    /\ \A s \in Slots : slot[s].pending => <<s, slot[s].generation>> \in asserted
    /\ held \subseteq asserted

\* No registration has the handle of an earlier one, exhausted slots included.
HandlesNotReused ==
    \A s \in Slots : slot[s].allocated => <<s, slot[s].generation>> \notin retired

Dispatching == \E t \in Tasks : pc[t] \in InDispatch

\* A request that will still look at the pending bit or send its signal
OnItsWay(p) == rpc[p] \in {"check", "load"}

\* Work is never stranded.  An enabled pending registration has the port's bit
\* set, or about to be set, or a dispatcher at work; and a set bit has a signal
\* at the selected thread or somebody who is going to send it one.
NothingStranded ==
    /\ (\E s \in Slots : Claimable(s)) =>
           irqPending \/ Dispatching \/ ended \/ \E p \in Producers : rpc[p] = "store"
    /\ irqPending =>
           \/ ended \/ Dispatching
           \/ current \in signalled
           \/ \E t \in Tasks : pc[t] = "resume"
           \/ \E p \in Producers : OnItsWay(p)
           \/ \E p \in Producers : rpc[p] = "kill" /\ target[p] = current

\* Delayed stores included, work may wait for a thread that is not selected but
\* is never lost: an enabled pending registration has the port's bit set, about
\* to be set or on its way to memory, or a dispatcher at work; and a set bit has
\* a signal pending at some pthread, or somebody who is going to send it one.
NothingLost ==
    /\ (\E s \in Slots : Claimable(s)) =>
           \/ irqPending \/ buffered # {} \/ Dispatching \/ ended
           \/ \E p \in Producers : rpc[p] = "store"
    /\ irqPending =>
           \/ ended \/ Dispatching
           \/ signalled # {}
           \/ \E t \in Tasks : pc[t] = "resume"
           \/ \E p \in Producers : OnItsWay(p) \/ rpc[p] = "kill"

\* "Publishing the selected pthread before waking it and re-kicking pending
\* work at every handoff closes the race where selection changes": an enabled
\* pending registration is dispatched, disabled or removed, also while the
\* selected task never gives the processor up.
PendingIsDelivered ==
    \A s \in Slots : Claimable(s) ~> (~Claimable(s) \/ ended)
=============================================================================
