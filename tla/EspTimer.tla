------------------------------ MODULE EspTimer ------------------------------
(***************************************************************************)
(* The host backend of esp_timer (esp_timer_impl_host.cpp) on top of the   *)
(* interrupt tables: one requested compare, kept as one alarm of the       *)
(* system-time service.  When the alarm is delivered its callback          *)
(* publishes the expiry and raises the timer source; the emulated ISR      *)
(* consumes the expiry and calls the common layer's handler.               *)
(*                                                                         *)
(* An alarm is named by the generation of its compare.  Uptime is left     *)
(* out: a registered alarm may fall due at any moment, before              *)
(* ScheduleSystemTimeAlarm's caller looks again included.                  *)
(***************************************************************************)
EXTENDS EspInterrupts

CONSTANTS
    TimerTasks,     \* tasks that call the backend through esp_timer.c
    Deliverers,     \* contexts that deliver alarms: the worker, or a task that waits
    NoContext,
    TimerSource,    \* kTimerInterruptSource
    MaxGeneration   \* bound: compare generations

ASSUME TimerAssumption ==
    /\ TimerTasks \subseteq Tasks
    /\ Deliverers \subseteq Contexts
    /\ NoContext \notin Contexts
    /\ TimerSource \notin DriverSources /\ TimerSource # NoSource
    /\ MaxGeneration \in Nat

VARIABLES
    lock,          \* the holder of compare_mutex
    generation,    \* compare_generation
    armed,         \* requested_compare can be reached
    scheduled,     \* scheduled_alarm
    initialized,
    handle,        \* interrupt_handle
    pendingGen,    \* pending_generation
    status,        \* pending_status
    upper,         \* upper_handler is set
    arg,           \* the generation or old alarm each context works on
    alarms,        \* alarms registered with the system-time service
    served         \* history: generations the common handler was called for

compareVars == <<generation, armed, scheduled>>
expiryVars == <<pendingGen, status, upper>>
timerVars == <<lock, compareVars, initialized, handle, expiryVars, arg, alarms, served>>
vars == <<interruptVars, timerVars>>

Init ==
    /\ InterruptInit
    /\ lock = NoContext
    /\ generation = 0 /\ armed = FALSE /\ scheduled = 0
    /\ initialized = FALSE /\ handle = 0
    /\ pendingGen = 0 /\ status = FALSE /\ upper = FALSE
    /\ arg = [p \in Contexts |-> 0]
    /\ alarms = {} /\ served = {}

TimerLabels == {"init", "initEnable", "initDone", "deinit", "deinitCancel", "deinitDisable",
                "deinitFree", "deinitDone", "setLock", "cancelOld", "schedule", "store", "cancelNew"}

\* esp_timer.c initializes and shuts the backend down with no other call under way
InTimerCall(t) ==
    pc[t] \in TimerLabels \/ (Masked(t) /\ op[t].then \in TimerLabels)
TimerIsIdle == \A t \in TimerTasks : ~InTimerCall(t)

\* The local goes out of scope
Forget(p) == arg' = [arg EXCEPT ![p] = 0]

HasNextGeneration == generation < MaxGeneration

-----------------------------------------------------------------------------
(* esp_timer_impl_init and esp_timer_impl_deinit, not masked *)

TimerRequest ==
    [source |-> TimerSource, shared |-> FALSE, enabled |-> FALSE, filter |-> NoFilter,
     handler |-> "timer"]

InitLock(t) ==
    /\ CanRun(t) /\ pc[t] = "idle" /\ TimerIsIdle
    /\ lock = NoContext /\ ~initialized
    /\ lock' = t
    /\ Goto(t, "init")
    /\ UNCHANGED <<tables, cpu, op, raise, compareVars, initialized, handle, expiryVars, arg,
                   alarms, served>>

InitAllocate(t) ==
    /\ CanRun(t) /\ pc[t] = "init"
    /\ AllocateInterrupt(t, TimerRequest, "initEnable")
    /\ UNCHANGED timerVars

InitFails(t) ==
    /\ CanRun(t) /\ pc[t] = "init" /\ ~CanAllocate(TimerRequest)
    /\ lock' = NoContext
    /\ Goto(t, "idle")
    /\ UNCHANGED <<tables, cpu, op, raise, compareVars, initialized, handle, expiryVars, arg,
                   alarms, served>>

InitEnable(t) ==
    /\ CanRun(t) /\ pc[t] = "initEnable"
    /\ SetRecordEnabled(t, op[t].record, TRUE, "initDone")
    /\ UNCHANGED timerVars

InitDone(t) ==
    /\ CanRun(t) /\ pc[t] = "initDone"
    /\ handle' = op[t].record
    /\ armed' = FALSE /\ scheduled' = 0
    /\ status' = FALSE /\ upper' = TRUE
    /\ initialized' = TRUE
    /\ lock' = NoContext
    /\ op' = [op EXCEPT ![t] = NoOp]
    /\ Goto(t, "idle")
    /\ UNCHANGED <<tables, cpu, raise, generation, pendingGen, arg, alarms, served>>

\* The generation is the first to change: an ISR from here on finds it stale
DeinitLock(t) ==
    /\ CanRun(t) /\ pc[t] = "idle" /\ TimerIsIdle
    /\ lock = NoContext /\ initialized
    /\ HasNextGeneration
    /\ lock' = t
    /\ generation' = generation + 1
    /\ Goto(t, "deinit")
    /\ UNCHANGED <<tables, cpu, op, raise, armed, scheduled, initialized, handle, expiryVars,
                   arg, alarms, served>>

Deinit(t) ==
    /\ CanRun(t) /\ pc[t] = "deinit"
    /\ initialized' = FALSE /\ armed' = FALSE
    /\ status' = FALSE /\ upper' = FALSE
    /\ arg' = [arg EXCEPT ![t] = scheduled]
    /\ scheduled' = 0
    /\ op' = [op EXCEPT ![t].record = handle]
    /\ handle' = 0
    /\ lock' = NoContext
    /\ Goto(t, "deinitCancel")
    /\ UNCHANGED <<tables, cpu, raise, generation, pendingGen, alarms, served>>

\* CancelSystemTimeAlarm: an alarm already claimed is not stopped
Cancel(t, from, to) ==
    /\ CanRun(t) /\ pc[t] = from
    /\ alarms' = alarms \ {arg[t]}
    /\ Forget(t)
    /\ Goto(t, to)
    /\ UNCHANGED <<tables, cpu, op, raise, lock, compareVars, initialized, handle, expiryVars,
                   served>>

DeinitDisable(t) ==
    /\ CanRun(t) /\ pc[t] = "deinitDisable"
    /\ SetRecordEnabled(t, op[t].record, FALSE, "deinitFree")
    /\ UNCHANGED timerVars

DeinitFree(t) ==
    /\ CanRun(t) /\ pc[t] = "deinitFree"
    /\ esp_intr_free(t, op[t].record, "deinitDone")
    /\ UNCHANGED timerVars

DeinitDone(t) ==
    /\ CanRun(t) /\ pc[t] = "deinitDone"
    /\ op' = [op EXCEPT ![t] = NoOp]
    /\ Goto(t, "idle")
    /\ UNCHANGED <<tables, cpu, raise, timerVars>>

-----------------------------------------------------------------------------
(* esp_timer_impl_set_alarm_id, with the timer list lock held *)

CallSetAlarm(t) ==
    /\ CanRun(t) /\ pc[t] = "idle" /\ TimerIsIdle
    /\ initialized
    /\ HasNextGeneration
    /\ Goto(t, "setLock")
    /\ UNCHANGED <<tables, cpu, op, raise, timerVars>>

SetAlarm(t) ==
    /\ CanRun(t) /\ pc[t] = "setLock" /\ lock = NoContext
    /\ generation' = generation + 1
    /\ armed' \in BOOLEAN
    /\ status' = FALSE
    /\ arg' = [arg EXCEPT ![t] = scheduled]
    /\ scheduled' = 0
    /\ Goto(t, "cancelOld")
    /\ UNCHANGED <<tables, cpu, op, raise, lock, initialized, handle, pendingGen, upper, alarms,
                   served>>

ScheduleSystemTimeAlarm(t) ==
    /\ CanRun(t) /\ pc[t] = "schedule"
    /\ alarms' = alarms \cup {generation}
    /\ arg' = [arg EXCEPT ![t] = generation]
    /\ Goto(t, "store")
    /\ UNCHANGED <<tables, cpu, op, raise, lock, compareVars, initialized, handle, expiryVars,
                   served>>

KeepAlarm_Slip(g) == initialized /\ g = generation

\* The compare is still the requested one and has not expired meanwhile
KeepAlarm(g) == initialized /\ g = generation /\ pendingGen # g

StoreAlarm(t) ==
    /\ CanRun(t) /\ pc[t] = "store" /\ lock = NoContext
    /\ scheduled' = IF KeepAlarm(arg[t]) THEN arg[t] ELSE scheduled
    /\ IF KeepAlarm(arg[t]) THEN Forget(t) /\ Goto(t, "idle")
       ELSE Goto(t, "cancelNew") /\ UNCHANGED arg
    /\ UNCHANGED <<tables, cpu, op, raise, lock, generation, armed, initialized, handle,
                   expiryVars, alarms, served>>

-----------------------------------------------------------------------------
(* The alarm's callback *)

DeliveryLabels == {"deliver", "delivering"}

\* The system-time service runs one callback at a time
ClaimAlarm(p) ==
    /\ CanRun(p) /\ pc[p] = "idle"
    /\ \A q \in Deliverers : pc[q] = "idle"
    /\ \E g \in alarms :
          /\ alarms' = alarms \ {g}
          /\ arg' = [arg EXCEPT ![p] = g]
    /\ Goto(p, "deliver")
    /\ UNCHANGED <<tables, cpu, op, raise, lock, compareVars, initialized, handle, expiryVars,
                   served>>

DeliverLock(p) ==
    /\ CanRun(p) /\ pc[p] = "deliver" /\ lock = NoContext
    /\ lock' = p
    /\ Goto(p, "delivering")
    /\ UNCHANGED <<tables, cpu, op, raise, compareVars, initialized, handle, expiryVars, arg,
                   alarms, served>>

PublishExpiry_Slip(g) == scheduled' = 0 /\ status' = TRUE /\ UNCHANGED pendingGen

PublishExpiry(g) == scheduled' = 0 /\ pendingGen' = g /\ status' = TRUE

DeliverCompare(p) ==
    /\ CanRun(p) /\ pc[p] = "delivering"
    /\ IF initialized /\ arg[p] = generation
       THEN PublishExpiry(arg[p]) /\ BeginRaise(p, TimerSource, {})
       ELSE Goto(p, "idle") /\ UNCHANGED <<scheduled, pendingGen, status, raise>>
    /\ Forget(p)
    /\ lock' = NoContext
    /\ UNCHANGED <<tables, cpu, op, generation, armed, initialized, handle, upper, alarms,
                   served>>

-----------------------------------------------------------------------------
(* TimerInterrupt, in the ISR *)

TakeStatus_Slip == status

TakeStatus == FALSE

ExpiryIsCurrent_Slip == status

\* An expiry is taken by exchange; one of an earlier compare is dropped
ExpiryIsCurrent == status /\ pendingGen = generation

TimerInterrupt ==
    /\ isr.vector # 0 /\ isr.stage = "call" /\ record[isr.next].handler = "timer"
    /\ status' = TakeStatus
    /\ IF ExpiryIsCurrent /\ upper THEN isr' = [isr EXCEPT !.stage = "upper"]
       ELSE AfterRecord
    /\ UNCHANGED <<tables, running, pc, op, raise, lock, compareVars, initialized, handle,
                   pendingGen, upper, arg, alarms, served>>

UpperHandler ==
    /\ isr.vector # 0 /\ isr.stage = "upper"
    /\ AfterRecord
    /\ served' = served \cup {generation}
    /\ UNCHANGED <<tables, running, pc, op, raise, lock, compareVars, initialized, handle,
                   expiryVars, arg, alarms>>

-----------------------------------------------------------------------------
TimerStep(t) ==
    \/ InitLock(t) \/ InitAllocate(t) \/ InitFails(t) \/ InitEnable(t) \/ InitDone(t)
    \/ DeinitLock(t) \/ Deinit(t) \/ Cancel(t, "deinitCancel", "deinitDisable")
    \/ DeinitDisable(t) \/ DeinitFree(t) \/ DeinitDone(t)
    \/ CallSetAlarm(t) \/ SetAlarm(t)
    \/ Cancel(t, "cancelOld", IF armed THEN "schedule" ELSE "idle")
    \/ ScheduleSystemTimeAlarm(t) \/ StoreAlarm(t) \/ Cancel(t, "cancelNew", "idle")

Next ==
    \/ InterruptNext /\ UNCHANGED timerVars
    \/ \E t \in TimerTasks : TimerStep(t)
    \/ \E p \in Deliverers : ClaimAlarm(p) \/ DeliverLock(p) \/ DeliverCompare(p)
    \/ TimerInterrupt
    \/ UpperHandler

Spec == Init /\ [][Next]_vars

-----------------------------------------------------------------------------
(* Properties *)

Labels == TimerLabels \cup DeliveryLabels \cup
          {"idle", "publish", "enablement", "retire", "unregister", "scan", "source",
           "mark", "swap", "handle", "read", "pend"}
Sources == DriverSources \cup {TimerSource, NoSource}
StateWords == [epoch : 0..MaxRecordEpoch, published : BOOLEAN, enabled : BOOLEAN, matched : BOOLEAN]

\* Every variable holds a value of its type; no epoch passes the last one
TypeOK ==
    /\ vector \in [Vectors -> [epoch : 0..MaxVectorEpoch, published : BOOLEAN, source : Sources,
                               slot : Slots \cup {0}, generation : Nat, shared : BOOLEAN]]
    /\ record \in [Records -> [state : StateWords, vector : Vectors \cup {0},
                               life : 0..MaxVectorEpoch, filter : Filters \cup {NoFilter},
                               handler : {"none", "driver", "timer"}]]
    /\ controller \in [Slots -> [generation : Nat, live : BOOLEAN, enabled : BOOLEAN,
                                 pending : BOOLEAN, vector : Vectors \cup {0}]]
    /\ running \in Tasks
    /\ isr \in [vector : Vectors \cup {0}, life : 0..MaxVectorEpoch, next : Records \cup {1},
                stage : {"record", "call", "upper"}]
    /\ pc \in [Contexts -> Labels]
    /\ op \in [Contexts -> [record : Records \cup {0}, vector : Vectors \cup {0},
                            life : 0..MaxVectorEpoch, then : Labels]]
    /\ raise \in [Contexts -> [source : Sources, bits : SUBSET Filters, vector : Nat,
                               life : 0..MaxVectorEpoch, record : Nat, seen : StateWords,
                               matched : BOOLEAN, slot : Slots \cup {0}, generation : Nat]]
    /\ lock \in Contexts \cup {NoContext}
    /\ generation \in Nat /\ scheduled \in Nat /\ pendingGen \in Nat
    /\ handle \in Records \cup {0}
    /\ armed \in BOOLEAN /\ initialized \in BOOLEAN /\ status \in BOOLEAN /\ upper \in BOOLEAN
    /\ arg \in [Contexts -> Nat]
    /\ alarms \in SUBSET (Nat \ {0}) /\ served \in SUBSET Nat

Delivering(g) == \E p \in Deliverers : pc[p] \in DeliveryLabels /\ arg[p] = g

\* Between calls the backend has at most the one alarm it remembers, and that one has
\* not been delivered: neither an expiry during set_alarm nor re-arming nor
\* deinitialization leaves a stray registration, a stale identity or an interrupt
AlarmsAccountedFor ==
    TimerIsIdle =>
        /\ alarms \subseteq {scheduled}
        /\ scheduled # 0 => /\ initialized /\ scheduled = generation
                            /\ scheduled \in alarms \/ Delivering(scheduled)
        /\ initialized <=> \E r \in Records : record[r].handler = "timer"

\* A thread raising the timer source that has still to come to the timer's record
StillToMark(p) ==
    LET v == record[handle].vector IN
    /\ raise[p].source = TimerSource
    /\ \/ pc[p] = "scan" /\ raise[p].vector <= v
       \/ pc[p] = "source" /\ (raise[p].vector < v
                                 \/ (raise[p].vector = v /\ raise[p].life = record[handle].life))
       \/ /\ pc[p] \in {"mark", "swap"}
          /\ raise[p].vector = v /\ raise[p].life = record[handle].life
          /\ raise[p].record <= handle

\* The expiry is published and the timer's handler has been or will be called for it
Asserted ==
    /\ status /\ pendingGen = generation
    /\ \/ record[handle].state.matched
       \/ \E p \in Deliverers : StillToMark(p)
       \/ isr.vector # 0 /\ isr.stage = "call" /\ isr.next = handle

\* A requested compare is never lost on its way from the alarm service through the
\* source vector and the ISR to the common handler: it is registered, claimed,
\* asserted, about to be served, or served
CompareNotLost ==
    TimerIsIdle /\ initialized /\ armed =>
        \/ generation \in alarms
        \/ Delivering(generation)
        \/ Asserted
        \/ isr.vector # 0 /\ isr.stage = "upper"
        \/ generation \in served

\* The common handler runs at most once per compare, and only while the backend is
\* initialized and the compare is the latest one requested
ServedOnce ==
    [][isr.stage = "upper" /\ isr' # isr => initialized /\ generation \notin served]_vars

\* From its new generation on a deinitialization has closed the timer
Closing == \E t \in TimerTasks : pc[t] = "deinit"

Timer == INSTANCE OneShotTimer
    WITH open <- initialized /\ ~Closing, compare <- generation, armed <- armed /\ ~Closing,
         served <- served

\* The backend is one compare register: its handler is called for the compare written
\* last, if that one was armed, and not after deinitialization has begun, whichever
\* alarms, expiries and assertions of earlier compares are still on their way
ImplementsOneShotTimer == Timer!Spec
=============================================================================
