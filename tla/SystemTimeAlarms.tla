-------------------------- MODULE SystemTimeAlarms --------------------------
(***************************************************************************)
(* The emulated uptime and its one-shot alarms (system/timer.cpp).         *)
(*                                                                         *)
(* Native threads and FreeRTOS tasks (Callers) register, cancel, pump and  *)
(* advance time; in auto-sync mode a native worker pthread delivers what   *)
(* host time makes due.  Every critical section of kMutationMutex is one   *)
(* atomic step; callbacks, the wake-up of the worker and everything else   *)
(* the code does after unlocking are steps of their own.                   *)
(*                                                                         *)
(* A context is a thread at one of two levels: "call", its own calls into  *)
(* the service, and "callback", the calls made by the alarm callback that  *)
(* thread is running.  A host tick inside a critical section has the       *)
(* outcome of one just before or just after it, so ticks are steps of      *)
(* their own, and the two reads of the clock in one section agree.         *)
(***************************************************************************)
EXTENDS Integers

CONSTANTS
    Callers,        \* native threads and FreeRTOS tasks
    Worker,         \* the auto-sync alarm worker
    AutoSync,       \* the link-time mode: host-following or manual time
    NanosPerMicro,  \* kNanosPerMicrosecond
    MaxTimeAhead,   \* kMaxTimeAheadNs
    MaxUptime,      \* the largest signed uptime in nanoseconds
    MaxAlarmId,     \* the largest SystemTimeAlarmId before it wraps to zero
    HostOrigin,     \* host clock value at uptime zero
    MaxHost,        \* bound: the host clock stops here
    Deadlines,      \* deadlines callers ask for, microseconds
    Durations,      \* delays callers ask for, microseconds
    Lags            \* lags callers ask for, nanoseconds

ASSUME CallersAssumption == Worker \notin Callers

ASSUME ModeAssumption == AutoSync \in BOOLEAN

ASSUME NumbersAssumption ==
    /\ NanosPerMicro \in Nat \ {0}
    /\ MaxTimeAhead \in Nat
    /\ MaxUptime \in Nat
    /\ MaxAlarmId \in Nat \ {0}
    /\ HostOrigin \in Nat
    /\ MaxHost \in Nat

ASSUME InputsAssumption ==
    /\ Deadlines \subseteq Int
    /\ Durations \subseteq Nat
    /\ Lags \subseteq Nat

Threads == Callers \cup {Worker}
Ctx == Threads \X {"call", "callback"}
CallOf(c) == <<c[1], "call">>
CallbackOf(c) == <<c[1], "callback">>
W == <<Worker, "call">>

VARIABLES
    uptime,          \* kPublication.uptime_ns_
    host,            \* HostUptimeNs(): host time since the origin
    reserved,        \* kReservedUptimeNs
    alarms,          \* kAlarms: records [id, deadline]
    index,           \* the keys of kAlarmIndex
    nextId,          \* kNextAlarmId
    deliveryActive,  \* kDeliveryActive
    service,         \* kAlarmServiceState
    workerStarted,   \* kAlarmWorkerStarted
    stale,           \* kAlarmWakeGeneration differs from the worker's copy
    armed,           \* the deadline of the worker's timed wait, as a set
    pc,              \* where each context is
    target,          \* limit_ns of a delay, or the end of a pacing sleep
    claim,           \* the callback a context has claimed, as a set
    crashed          \* a CHECK failed or an exception met the worker

clockVars == <<uptime, host, reserved>>
queueVars == <<alarms, index, nextId>>
stateVars == <<deliveryActive, service, workerStarted>>
wakeVars == <<stale, armed>>
ctxVars == <<pc, target, claim>>
vars == <<clockVars, queueVars, stateVars, wakeVars, ctxVars, crashed>>

NoTarget == -1

Labels == {"idle", "deliver", "loop", "callback", "release", "pace", "sleep",
           "finish", "discard", "notify", "notifyCallback", "notifyPace",
           "notifyFinish", "off", "top", "check", "commit", "asleep", "exited"}

Max2(x, y) == IF x >= y THEN x ELSE y

-----------------------------------------------------------------------------
(* The clock and the queue *)

AlarmMicrosToNanos(micros) == micros * NanosPerMicro

MaxAlarmUptimeMicros == MaxUptime \div NanosPerMicro
MinAlarmUptimeMicros == -((MaxUptime + 1) \div NanosPerMicro)

\* Definitions named ..._Slip are not part of the model: each is the variant of
\* the definition below it that a plausible coding slip would give, kept to
\* show that the properties tell the two apart.

Read_Slip == IF AutoSync THEN host ELSE uptime

\* kPublication.read(): the floor, raised to host time in auto-sync mode
Read == IF AutoSync THEN Max2(uptime, host) ELSE uptime

NotAfter_Slip(a, b) == a.deadline <= b.deadline

\* The multimap keeps registration order among equal deadlines, and ids grow
\* with registration because both happen in one critical section.
NotAfter(a, b) ==
    \/ a.deadline < b.deadline
    \/ a.deadline = b.deadline /\ a.id <= b.id

IsFirst(a) == a \in alarms /\ \A b \in alarms : NotAfter(a, b)
First == CHOOSE a \in alarms : IsFirst(a)

Due_Slip(a, now) == a.deadline <= now

Due(a, now) == AlarmMicrosToNanos(a.deadline) <= now

NextAlarmId_Slip(id) == id + 1

NextAlarmId_Reuse(id) == id

\* kNextAlarmId++ in the width of SystemTimeAlarmId
NextAlarmId(id) == IF id = MaxAlarmId THEN 0 ELSE id + 1

\* The ids handed out so far
UsedIds == IF nextId = 0 THEN 1..MaxAlarmId ELSE 1..(nextId - 1)

\* Contexts between claiming delivery ownership and giving it up
Delivering(c) == pc[c] \in {"loop", "notifyCallback", "callback", "release"}

Init ==
    /\ uptime = 0 /\ host = 0 /\ reserved = 0
    /\ alarms = {} /\ index = {} /\ nextId = 1
    /\ deliveryActive = FALSE /\ service = "running" /\ workerStarted = FALSE
    /\ stale = FALSE /\ armed = {}
    /\ pc = [c \in Ctx |-> IF c = W THEN "off" ELSE "idle"]
    /\ target = [c \in Ctx |-> NoTarget]
    /\ claim = [c \in Ctx |-> {}]
    /\ crashed = FALSE

\* Nothing runs once a CHECK has failed
At(c, label) == ~crashed /\ pc[c] = label

Goto(c, label) == pc' = [pc EXCEPT ![c] = label]

\* Where a context goes when its call returns: a caller's next call, or the
\* top of the worker's loop
Home(c) == IF c = W THEN "top" ELSE "idle"

\* A context may call the service when it is in no other call; a callback
\* context exists while its thread runs a callback
CanCall(c) ==
    /\ At(c, "idle")
    /\ c = CallbackOf(c) => pc[CallOf(c)] = "callback"

-----------------------------------------------------------------------------
(* Calls: registration, cancellation, pumping, explicit time *)

ScheduleChecks(deadline) ==
    /\ deadline \in MinAlarmUptimeMicros..MaxAlarmUptimeMicros
    /\ service = "running"
    /\ nextId # 0

ScheduleSystemTimeAlarm(c, deadline) ==
    /\ CanCall(c)
    /\ ScheduleChecks(deadline)
    /\ alarms' = alarms \cup {[id |-> nextId, deadline |-> deadline]}
    /\ index' = index \cup {nextId}
    /\ nextId' = NextAlarmId(nextId)
    /\ workerStarted' = (workerStarted \/ AutoSync)
    /\ pc' = [pc EXCEPT ![c] = "notify",
                        ![W] = IF AutoSync /\ ~workerStarted THEN "top" ELSE @]
    /\ UNCHANGED <<clockVars, deliveryActive, service, wakeVars, target, claim,
                   crashed>>

\* Cancelling an id that is not in the index returns at once
CancelSystemTimeAlarm(c, id) ==
    /\ CanCall(c)
    /\ id \in index
    /\ alarms' = {a \in alarms : a.id # id}
    /\ index' = index \ {id}
    /\ Goto(c, "notify")
    /\ UNCHANGED <<clockVars, nextId, stateVars, wakeVars, target, claim, crashed>>

ProcessSystemTimeAlarms(c) ==
    /\ CanCall(c)
    /\ service = "running"
    /\ uptime' = Read
    /\ Goto(c, "deliver")
    /\ UNCHANGED <<host, reserved, queueVars, stateVars, wakeVars, target, claim,
                   crashed>>

Reservation_Slip(duration) == Read + AlarmMicrosToNanos(duration)

\* ReserveDelayedUptimeNs: delays add up even while none has been delivered
Reservation(duration) == Max2(Read, reserved) + AlarmMicrosToNanos(duration)

DelayChecks(duration) ==
    /\ duration <= MaxUptime \div NanosPerMicro
    /\ service = "running"
    /\ Reservation(duration) <= MaxUptime

system_time_delay_micros(c, duration) ==
    /\ CanCall(c)
    /\ DelayChecks(duration)
    /\ uptime' = Read
    /\ reserved' = Reservation(duration)
    /\ target' = [target EXCEPT ![c] = Reservation(duration)]
    /\ Goto(c, "deliver")
    /\ UNCHANGED <<host, queueVars, stateVars, wakeVars, claim, crashed>>

LagChecks(ns) ==
    /\ service = "running"
    /\ ns <= MaxUptime - uptime

\* AddUptimeNs adds to the published floor, then reads
Lagged(ns) == IF AutoSync THEN Max2(uptime + ns, host) ELSE uptime + ns

system_time_lag_ns(c, ns) ==
    /\ CanCall(c)
    /\ LagChecks(ns)
    /\ uptime' = Lagged(ns)
    /\ reserved' = Max2(reserved, Lagged(ns))
    /\ Goto(c, "notify")
    /\ UNCHANGED <<host, queueVars, stateVars, wakeVars, target, claim, crashed>>

\* A passive read publishes host time and does nothing else
system_time_get_micros(c) ==
    /\ CanCall(c)
    /\ uptime' = Read
    /\ UNCHANGED <<host, reserved, queueVars, stateVars, wakeVars, ctxVars, crashed>>

system_time_sync(c) ==
    /\ CanCall(c)
    /\ AutoSync
    /\ Goto(c, "pace")
    /\ UNCHANGED <<clockVars, queueVars, stateVars, wakeVars, target, claim, crashed>>

\* A failed CHECK ends the process before anything has changed
CheckFails(c) ==
    /\ CanCall(c)
    /\ \/ \E deadline \in Deadlines : ~ScheduleChecks(deadline)
       \/ \E duration \in Durations : ~DelayChecks(duration)
       \/ \E ns \in Lags : ~LagChecks(ns)
    /\ crashed' = TRUE
    /\ UNCHANGED <<clockVars, queueVars, stateVars, wakeVars, ctxVars>>

-----------------------------------------------------------------------------
(* DeliverAlarmsThrough *)

AfterDelivery(c) ==
    IF target[c] # NoTarget THEN "pace" ELSE Home(c)

MayOwnDelivery_Slip == service = "running"

MayOwnDelivery == service = "running" /\ ~deliveryActive

DeliveryRefused(c) ==
    /\ At(c, "deliver")
    /\ ~MayOwnDelivery
    /\ uptime' = IF service = "running" /\ target[c] # NoTarget
                 THEN Max2(uptime, target[c]) ELSE uptime
    /\ Goto(c, AfterDelivery(c))
    /\ UNCHANGED <<host, reserved, queueVars, stateVars, wakeVars, target, claim,
                   crashed>>

ClaimOwnership(c) ==
    /\ At(c, "deliver")
    /\ MayOwnDelivery
    /\ deliveryActive' = TRUE
    /\ Goto(c, "loop")
    /\ UNCHANGED <<clockVars, queueVars, service, workerStarted, wakeVars, target,
                   claim, crashed>>

Advanced_Slip(c) ==
    IF target[c] # NoTarget /\ Read < target[c] /\ alarms # {}
    THEN IF Due(First, target[c]) THEN AlarmMicrosToNanos(First.deadline)
         ELSE target[c]
    ELSE Read

\* The uptime one round of the loop publishes: the next deadline if it lies
\* ahead and within the limit, otherwise the limit itself
Advanced(c) ==
    IF target[c] # NoTarget /\ Read < target[c]
    THEN IF \E a \in alarms : /\ IsFirst(a)
                              /\ ~Due(a, Read)
                              /\ Due(a, target[c])
         THEN AlarmMicrosToNanos(First.deadline)
         ELSE target[c]
    ELSE Read

AlarmsAfterClaim(a) == alarms \ {a}

IndexAfterClaim_Slip(a) == index

IndexAfterClaim(a) == index \ {a.id}

ClaimAlarm(c, a) ==
    /\ At(c, "loop")
    /\ IsFirst(a)
    /\ Due(a, Advanced(c))
    /\ uptime' = Advanced(c)
    /\ alarms' = AlarmsAfterClaim(a)
    /\ index' = IndexAfterClaim(a)
    /\ claim' = [claim EXCEPT ![c] = {a}]
    /\ Goto(c, "notifyCallback")
    /\ UNCHANGED <<host, reserved, nextId, stateVars, wakeVars, target, crashed>>

NoDueWork(c) ==
    /\ At(c, "loop")
    /\ \A a \in alarms : ~Due(a, Advanced(c))
    /\ uptime' = Advanced(c)
    /\ Goto(c, "release")
    /\ UNCHANGED <<host, reserved, queueVars, stateVars, wakeVars, target, claim,
                   crashed>>

\* The callback has run with no lock held; the loop rescans
CallbackReturns(c) ==
    /\ At(c, "callback")
    /\ pc[CallbackOf(c)] = "idle"
    /\ claim' = [claim EXCEPT ![c] = {}]
    /\ Goto(c, "loop")
    /\ UNCHANGED <<clockVars, queueVars, stateVars, wakeVars, target, crashed>>

\* The scope guard releases ownership as the exception leaves an explicit
\* pump; no one catches it above the worker's start routine
CallbackThrows(c) ==
    /\ At(c, "callback")
    /\ pc[CallbackOf(c)] = "idle"
    /\ IF c = W
       THEN crashed' = TRUE /\ UNCHANGED ctxVars
       ELSE /\ claim' = [claim EXCEPT ![c] = {}]
            /\ target' = [target EXCEPT ![c] = NoTarget]
            /\ Goto(c, "release")
            /\ UNCHANGED crashed
    /\ UNCHANGED <<clockVars, queueVars, stateVars, wakeVars>>

ReleaseDeliveryOwnership(c) ==
    /\ At(c, "release")
    /\ deliveryActive' = FALSE
    /\ Goto(c, IF target[c] # NoTarget THEN "notifyPace" ELSE "notify")
    /\ UNCHANGED <<clockVars, queueVars, service, workerStarted, wakeVars, target,
                   claim, crashed>>

\* The new generation and the broadcast, made without kAlarmWakeMutex: a
\* worker that sleeps wakes, one that has not begun to wait hears nothing
NotifyAlarmWorker(c) ==
    /\ ~crashed
    /\ pc[c] \in {"notify", "notifyCallback", "notifyPace", "notifyFinish"}
    /\ stale' = TRUE
    /\ armed' = IF pc[W] = "asleep" THEN {} ELSE armed
    /\ pc' = [pc EXCEPT ![c] = CASE pc[c] = "notifyCallback" -> "callback"
                                 [] pc[c] = "notifyPace" -> "pace"
                                 [] pc[c] = "notifyFinish" -> "finish"
                                 [] OTHER -> Home(c),
                        ![W] = IF @ = "asleep" THEN "top" ELSE @]
    /\ UNCHANGED <<clockVars, queueVars, stateVars, target, claim, crashed>>

-----------------------------------------------------------------------------
(* PaceAutoSync: a call that ran ahead of host time sleeps until it is near *)

PaceAutoSync(c) ==
    /\ At(c, "pace")
    /\ uptime' = Read
    /\ IF AutoSync /\ Read > host + MaxTimeAhead
       THEN /\ target' = [target EXCEPT ![c] = Read - MaxTimeAhead]
            /\ Goto(c, "sleep")
       ELSE /\ target' = [target EXCEPT ![c] = NoTarget]
            /\ Goto(c, "idle")
    /\ UNCHANGED <<host, reserved, queueVars, stateVars, wakeVars, claim, crashed>>

PacingSleepEnds(c) ==
    /\ At(c, "sleep")
    /\ host >= target[c]
    /\ uptime' = Read
    /\ target' = [target EXCEPT ![c] = NoTarget]
    /\ Goto(c, "idle")
    /\ UNCHANGED <<host, reserved, queueVars, stateVars, wakeVars, claim, crashed>>

-----------------------------------------------------------------------------
(* Shutdown, by the test runner *)

MayClose == ~deliveryActive /\ service = "running"

\* False, and no change, while delivery is active or the service is closed
TryBeginSystemTimeServiceShutdownForHost(c) ==
    /\ c = CallOf(c) /\ CanCall(c)
    /\ MayClose
    /\ service' = "closing"
    /\ Goto(c, "notifyFinish")
    /\ UNCHANGED <<clockVars, queueVars, deliveryActive, workerStarted, wakeVars,
                   target, claim, crashed>>

WorkerJoined_Slip == TRUE

WorkerJoined == workerStarted => pc[W] = "exited"

JoinAlarmWorker(c) ==
    /\ At(c, "finish")
    /\ WorkerJoined
    /\ Goto(c, "discard")
    /\ UNCHANGED <<clockVars, queueVars, stateVars, wakeVars, target, claim, crashed>>

FinishSystemTimeServiceShutdownForHost(c) ==
    /\ At(c, "discard")
    /\ alarms' = {}
    /\ index' = {}
    /\ service' = "stopped"
    /\ Goto(c, "idle")
    /\ UNCHANGED <<clockVars, nextId, deliveryActive, workerStarted, wakeVars,
                   target, claim, crashed>>

-----------------------------------------------------------------------------
(* RunAlarmWorker and WaitForAlarmWorkerWake *)

RunAlarmWorker ==
    /\ At(W, "top")
    /\ IF service # "running"
       THEN /\ Goto(W, "exited")
            /\ UNCHANGED <<uptime, wakeVars>>
       ELSE LET due == \E a \in alarms : Due(a, Read) IN
            /\ stale' = FALSE
            /\ uptime' = IF alarms = {} THEN uptime ELSE Read
            /\ Goto(W, IF due /\ ~deliveryActive THEN "deliver" ELSE "check")
            /\ armed' = IF due \/ deliveryActive
                        THEN {} ELSE {a.deadline : a \in {b \in alarms : IsFirst(b)}}
    /\ UNCHANGED <<host, reserved, queueVars, stateVars, target, claim, crashed>>

\* Under kAlarmWakeMutex: is the observed generation still current?
CompareGeneration ==
    /\ At(W, "check")
    /\ Goto(W, IF stale THEN "top" ELSE "commit")
    /\ armed' = IF stale THEN {} ELSE armed
    /\ UNCHANGED <<clockVars, queueVars, stateVars, stale, target, claim, crashed>>

\* pthread_cond_wait releases the mutex and starts waiting in one step, but
\* a notifier needs no mutex and may come between the comparison and it
BeginWait ==
    /\ At(W, "commit")
    /\ Goto(W, "asleep")
    /\ UNCHANGED <<clockVars, queueVars, stateVars, wakeVars, target, claim, crashed>>

\* HostDeadlineNs: the deadline on the host clock, when it is representable
HostDeadlineRepresentable(deadline) ==
    /\ AlarmMicrosToNanos(deadline) <= MaxUptime - HostOrigin
    /\ HostOrigin + AlarmMicrosToNanos(deadline) > 0

Wake ==
    /\ At(W, "asleep")
    /\ Goto(W, "top")
    /\ armed' = {}
    /\ UNCHANGED <<clockVars, queueVars, stateVars, stale, target, claim, crashed>>

TimedWaitExpires ==
    /\ \E deadline \in armed : /\ HostDeadlineRepresentable(deadline)
                               /\ AlarmMicrosToNanos(deadline) <= host
    /\ Wake

SpuriousWake == Wake

-----------------------------------------------------------------------------
(* The host clock, and the whole system *)

HostTick ==
    /\ ~crashed
    /\ AutoSync
    /\ host < MaxHost
    /\ host' = host + 1
    /\ UNCHANGED <<uptime, reserved, queueVars, stateVars, wakeVars, ctxVars, crashed>>

Call(c) ==
    \/ \E deadline \in Deadlines : ScheduleSystemTimeAlarm(c, deadline)
    \/ \E id \in index : CancelSystemTimeAlarm(c, id)
    \/ ProcessSystemTimeAlarms(c)
    \/ \E duration \in Durations : system_time_delay_micros(c, duration)
    \/ \E ns \in Lags : system_time_lag_ns(c, ns)
    \/ system_time_get_micros(c)
    \/ system_time_sync(c)
    \/ TryBeginSystemTimeServiceShutdownForHost(c)
    \/ CheckFails(c)

\* The rest of a call that has started
Proceed(c) ==
    \/ DeliveryRefused(c)
    \/ ClaimOwnership(c)
    \/ \E a \in alarms : ClaimAlarm(c, a)
    \/ NoDueWork(c)
    \/ CallbackReturns(c)
    \/ ReleaseDeliveryOwnership(c)
    \/ NotifyAlarmWorker(c)
    \/ PaceAutoSync(c)
    \/ PacingSleepEnds(c)
    \/ JoinAlarmWorker(c)
    \/ FinishSystemTimeServiceShutdownForHost(c)

WorkerStep == RunAlarmWorker \/ CompareGeneration \/ BeginWait \/ TimedWaitExpires

Aborted == crashed /\ UNCHANGED vars

Next ==
    \/ \E c \in Ctx : Call(c) \/ Proceed(c) \/ CallbackThrows(c)
    \/ WorkerStep
    \/ SpuriousWake
    \/ HostTick
    \/ Aborted

Spec == Init /\ [][Next]_vars

\* Threads are scheduled: a call that has started, the worker and the host
\* clock go on; callbacks return (they are short and wait for nothing).
\* Nobody has to call, to throw or to wake spuriously.
FairSpec ==
    /\ Spec
    /\ \A c \in Ctx : /\ WF_vars(Proceed(c))
                      /\ SF_vars(CallbackReturns(c))
    /\ WF_vars(WorkerStep)
    /\ WF_vars(HostTick)
-----------------------------------------------------------------------------
(* Properties *)

Alarm == [id : Nat, deadline : Int]

TypeOK ==
    /\ uptime \in Nat /\ host \in Nat /\ reserved \in Nat
    /\ alarms \subseteq Alarm
    /\ index \subseteq Nat
    /\ nextId \in 0..MaxAlarmId
    /\ deliveryActive \in BOOLEAN
    /\ service \in {"running", "closing", "stopped"}
    /\ workerStarted \in BOOLEAN
    /\ stale \in BOOLEAN
    /\ armed \subseteq Int
    /\ pc \in [Ctx -> Labels]
    /\ target \in [Ctx -> Int]
    /\ claim \in [Ctx -> SUBSET Alarm]
    /\ crashed \in BOOLEAN

\* The flag kDeliveryActive and the program counters agree: exactly one
\* context owns delivery while it is set, none while it is clear, and the
\* owner is never a callback, so delivery does not nest (alarms design,
\* requirement 4).
SingleOwner ==
    /\ deliveryActive <=> \E c \in Ctx : Delivering(c)
    /\ \A c \in Ctx : Delivering(c) => c = CallOf(c)
    /\ \A c, d \in Ctx : Delivering(c) /\ Delivering(d) => c = d

\* kAlarmIndex names exactly the queued alarms, no two of them share an id,
\* and no id still to be handed out is in use: cancellation can only remove
\* the alarm its caller registered.
IndexConsistent ==
    /\ index = {a.id : a \in alarms}
    /\ \A a, b \in alarms : a.id = b.id => a = b
    /\ index \subseteq UsedIds

\* A callback only runs once its deadline has been published, and a claimed
\* alarm is out of reach of cancellation and of every other pump.
ClaimedIsDueAndGone ==
    \A c \in Ctx : \A a \in claim[c] :
        /\ AlarmMicrosToNanos(a.deadline) <= uptime
        /\ a.id \in UsedIds \ index

\* After TryBegin returned true no callback runs or can start, and once the
\* service has stopped nothing is queued and the worker is gone.
QuietAfterClose ==
    /\ service # "running" => /\ ~deliveryActive
                              /\ \A c \in Ctx : claim[c] = {}
    /\ service = "stopped" => /\ alarms = {}
                              /\ pc[W] \in {"off", "exited"}

\* A delay that comes back from delivery, as the owner or because another
\* pump owned it, has reached its target unless the service closed meanwhile.
DelayReachesTarget ==
    \A c \in Ctx :
        (pc[c] \in {"notifyPace", "pace"} /\ target[c] # NoTarget)
            => uptime >= target[c] \/ service # "running"

\* No step of any thread moves the published uptime or the reservation back.
TimeNeverGoesBack == [][uptime' >= uptime /\ reserved' >= reserved]_vars

InDelay(c) == target[c] # NoTarget /\ pc[c] # "sleep"

\* A delay that starts while others are still on their way ends later than
\* each of them by its own duration: concurrent delays add up.
DelaysAddUp ==
    [][\A c, d \in Ctx :
          (InDelay(d) /\ ~InDelay(c) /\ InDelay(c)') =>
              \E duration \in Durations :
                  target'[c] >= target[d] + AlarmMicrosToNanos(duration)]_vars

Claimed == UNION {claim[c] : c \in Ctx}

Abstract == INSTANCE AlarmService
    WITH Ids <- 1..MaxAlarmId, ToNanos <- AlarmMicrosToNanos, now <- uptime, pending <- alarms,
         used <- UsedIds, running <- Claimed, open <- service

\* The service implements its abstract specification.
ImplementsAlarmService == Abstract!Spec
-----------------------------------------------------------------------------
(* A statement of the design documents that the code does not keep *)

\* "Auto-sync callbacks become eligible without application polling": an
\* alarm whose deadline host time reaches leaves the queue.
AutoAlarmsLeaveTheQueue ==
    \A id \in 1..MaxAlarmId :
        id \in index ~> (id \notin index \/ service # "running" \/ crashed)
=============================================================================
