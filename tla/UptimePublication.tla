-------------------------- MODULE UptimePublication --------------------------
(***************************************************************************)
(* The lock-free uptime of system/timer.cpp (AtomicUptimePublication):     *)
(* first-use initialisation, passive reads that catch up with the host     *)
(* clock, and explicit mutation, at the grain of single atomic accesses.   *)
(* SystemTimeAlarms uses it as one atomic variable; this module justifies  *)
(* that.  A passive read may come from a signal handler that has stopped   *)
(* its task anywhere, also in the middle of initialisation.                *)
(***************************************************************************)
EXTENDS Integers

CONSTANTS
    Natives,     \* threads that run on their own
    Task,        \* the FreeRTOS task that the signal handler interrupts
    Isr,         \* the handler, which runs only passive reads
    AutoMode,    \* system_time_auto_sync_mode
    MaxUptime,   \* largest signed uptime
    Boot,        \* CLOCK_MONOTONIC when the process starts
    MaxNow,      \* bound: the host clock stops here (a signed nanosecond count)
    Amounts      \* lags and delay targets callers ask for

ASSUME ThreadsAssumption == Task \notin Natives /\ Isr \notin Natives /\ Task # Isr

ASSUME ValuesAssumption ==
    /\ AutoMode \in BOOLEAN
    /\ MaxUptime \in Nat /\ Boot \in Nat /\ MaxNow \in 0..MaxUptime /\ Boot <= MaxNow
    /\ Amounts \subseteq 0..MaxUptime

Threads == Natives \cup {Task, Isr}

VARIABLES
    state,      \* state_: InitializationState
    uptime,     \* uptime_ns_
    origin,     \* host_origin_ns_
    now,        \* MonotonicNowNs()
    lock,       \* threads in a critical section of kMutationMutex
    pc,         \* the next atomic access of each thread
    op,         \* "read", "add" or "raise"
    value,      \* the lag to add, or what publishAtLeast is to publish
    current,    \* the value the compare-exchange expects
    seen,       \* history: the largest uptime any read has returned
    explicit    \* history: the largest uptime an explicit operation produced

shared == <<state, uptime, origin, now, lock>>
locals == <<pc, op, value, current>>
vars == <<shared, locals, seen, explicit>>

Ready == IF AutoMode THEN "auto" ELSE "manual"

Max2(x, y) == IF x >= y THEN x ELSE y

Init ==
    /\ state = "uninitialized" /\ uptime = 0 /\ origin = 0 /\ now = Boot /\ lock = {}
    /\ pc = [t \in Threads |-> "idle"]
    /\ op = [t \in Threads |-> "read"]
    /\ value = [t \in Threads |-> 0]
    /\ current = [t \in Threads |-> 0]
    /\ seen = 0 /\ explicit = 0

\* The call returns: its locals are gone
Done(t) ==
    /\ pc' = [pc EXCEPT ![t] = "idle"]
    /\ op' = [op EXCEPT ![t] = "read"]
    /\ value' = [value EXCEPT ![t] = 0]
    /\ current' = [current EXCEPT ![t] = 0]

\* A signal handler stops its task until it returns
At(t, label) ==
    /\ pc[t] = label
    /\ t = Task => pc[Isr] = "idle"

Goto(t, label) == pc' = [pc EXCEPT ![t] = label]

-----------------------------------------------------------------------------
(* Entry points *)

BeginRead(t) ==
    /\ At(t, "idle")
    /\ op' = [op EXCEPT ![t] = "read"]
    /\ Goto(t, "load")
    /\ UNCHANGED <<shared, value, current, seen, explicit>>

\* system_time_lag_ns and the publication of a delay target first wait for the
\* mode (isAutoSyncEnabled); neither is allowed in a signal handler
BeginMutation(t, kind, v) ==
    /\ t # Isr
    /\ At(t, "idle")
    /\ op' = [op EXCEPT ![t] = kind]
    /\ value' = [value EXCEPT ![t] = v]
    /\ Goto(t, "load")
    /\ UNCHANGED <<shared, current, seen, explicit>>

-----------------------------------------------------------------------------
(* One-time initialisation *)

\* Definitions named ..._Slip or ..._Early are not part of the model: each is
\* the variant of the definition below it that a plausible coding slip would
\* give, kept to show that the properties tell the two apart.

AfterReload_Slip(t) ==
    IF state = "initializing" THEN "reload"
    ELSE IF op[t] # "read" THEN "lock"
    ELSE IF state = "auto" THEN "host" ELSE "return"

AfterReload_Early(t) ==
    IF op[t] = "read" THEN IF state # "manual" THEN "host" ELSE "return"
    ELSE IF state = "initializing" THEN "reload" ELSE "lock"

\* A passive read never waits: while another context initialises it returns the
\* floor.  isAutoSyncEnabled spins until the mode is known.
AfterReload(t) ==
    IF op[t] = "read" THEN IF state = "auto" THEN "host" ELSE "return"
    ELSE IF state = "initializing" THEN "reload" ELSE "lock"

LoadState(t) ==
    /\ At(t, "load") \/ At(t, "reload")
    /\ Goto(t, IF pc[t] = "load" /\ state = "uninitialized" THEN "claim"
               ELSE AfterReload(t))
    /\ UNCHANGED <<shared, op, value, current, seen, explicit>>

ClaimInitialization(t) ==
    /\ At(t, "claim")
    /\ IF state = "uninitialized"
       THEN state' = "initializing" /\ Goto(t, "sample")
       ELSE UNCHANGED state /\ Goto(t, "reload")
    /\ UNCHANGED <<uptime, origin, now, lock, op, value, current, seen,
                   explicit>>

SampleOrigin(t) ==
    /\ At(t, "sample")
    /\ origin' = now - uptime
    /\ Goto(t, "publish")
    /\ UNCHANGED <<state, uptime, now, lock, op, value, current, seen,
                   explicit>>

PublishReady(t) ==
    /\ At(t, "publish")
    /\ state' = Ready
    /\ Goto(t, "reload")
    /\ UNCHANGED <<uptime, origin, now, lock, op, value, current, seen,
                   explicit>>

-----------------------------------------------------------------------------
(* Raising the floor: publishAtLeast *)

HostUptimeNs == IF now <= origin THEN 0 ELSE now - origin

SampleHost(t) ==
    /\ At(t, "host")
    /\ value' = [value EXCEPT ![t] = HostUptimeNs]
    /\ Goto(t, "raise")
    /\ UNCHANGED <<shared, op, current, seen, explicit>>

LoadForRaise(t) ==
    /\ At(t, "raise")
    /\ current' = [current EXCEPT ![t] = uptime]
    /\ Goto(t, "raiseCas")
    /\ UNCHANGED <<shared, op, value, seen, explicit>>

Raised(t) == value[t] <= current[t] \/ uptime = current[t]

FloorAfterRaise_Slip(t) == value[t]

FloorAfterRaise(t) == IF value[t] <= current[t] THEN uptime ELSE value[t]

RaiseCas(t) ==
    /\ At(t, "raiseCas")
    /\ IF Raised(t)
       THEN /\ uptime' = FloorAfterRaise(t)
            /\ explicit' = IF op[t] = "raise" THEN Max2(explicit, value[t])
                           ELSE explicit
            /\ Goto(t, IF op[t] = "raise" THEN "unlock" ELSE "return")
            /\ UNCHANGED current
       ELSE /\ current' = [current EXCEPT ![t] = uptime]
            /\ UNCHANGED <<uptime, explicit, pc>>
    /\ UNCHANGED <<state, origin, now, lock, op, value, seen>>

ReturnUptime(t) ==
    /\ At(t, "return")
    /\ seen' = Max2(seen, uptime)
    /\ IF t \in lock THEN Goto(t, "unlock") /\ UNCHANGED <<op, value, current>>
       ELSE Done(t)
    /\ UNCHANGED <<shared, explicit>>

-----------------------------------------------------------------------------
(* Explicit mutation, under kMutationMutex *)

Lock(t) ==
    /\ At(t, "lock")
    /\ lock = {}
    /\ lock' = {t}
    /\ Goto(t, IF op[t] = "add" THEN "addLoad" ELSE "raise")
    /\ UNCHANGED <<state, uptime, origin, now, op, value, current, seen, explicit>>

AddLoad(t) ==
    /\ At(t, "addLoad")
    /\ current' = [current EXCEPT ![t] = uptime]
    /\ Goto(t, "addCas")
    /\ UNCHANGED <<shared, op, value, seen, explicit>>

AddSucceeds(t) == uptime = current[t]

AddFits(t) == value[t] <= MaxUptime - current[t]

\* A spurious failure of compare_exchange_weak is a stuttering step.
\* The sum is checked before it is stored; a failed CHECK ends the process.
\* AddUptimeNs then reads the clock, still under the lock.
AddCas(t) ==
    /\ At(t, "addCas")
    /\ AddFits(t)
    /\ IF AddSucceeds(t)
       THEN /\ uptime' = current[t] + value[t]
            /\ explicit' = Max2(explicit, current[t] + value[t])
            /\ op' = [op EXCEPT ![t] = "read"]
            /\ Goto(t, "load")
            /\ UNCHANGED current
       ELSE /\ current' = [current EXCEPT ![t] = uptime]
            /\ UNCHANGED <<uptime, explicit, op, pc>>
    /\ UNCHANGED <<state, origin, now, lock, value, seen>>

Unlock(t) ==
    /\ At(t, "unlock")
    /\ lock' = lock \ {t}
    /\ Done(t)
    /\ UNCHANGED <<state, uptime, origin, now, seen, explicit>>

CheckFails(t) ==
    /\ At(t, "addCas")
    /\ ~AddFits(t)
    /\ pc' = [u \in Threads |-> "dead"]
    /\ UNCHANGED <<shared, op, value, current, seen, explicit>>

-----------------------------------------------------------------------------
HostTick ==
    /\ now < MaxNow
    /\ now' = now + 1
    /\ UNCHANGED <<state, uptime, origin, lock, locals, seen, explicit>>

\* After a failed CHECK the process is gone
Aborted == pc[Isr] = "dead" /\ UNCHANGED vars

Proceed(t) ==
    \/ LoadState(t) \/ ClaimInitialization(t) \/ SampleOrigin(t) \/ PublishReady(t)
    \/ SampleHost(t) \/ LoadForRaise(t) \/ RaiseCas(t) \/ ReturnUptime(t)
    \/ Lock(t) \/ AddLoad(t) \/ AddCas(t) \/ Unlock(t) \/ CheckFails(t)

Next ==
    \/ \E t \in Threads : \/ BeginRead(t)
                          \/ \E kind \in {"add", "raise"}, v \in Amounts :
                                 BeginMutation(t, kind, v)
                          \/ Proceed(t)
    \/ HostTick
    \/ Aborted

Spec == Init /\ [][Next]_vars

\* A context that has begun an access is scheduled; a task goes on between
\* signals, which do not arrive back to back for ever.
FairSpec == Spec /\ \A t \in Threads : SF_vars(Proceed(t))

-----------------------------------------------------------------------------
(* Properties *)

Labels == {"idle", "load", "reload", "claim", "sample", "publish", "host", "raise",
           "raiseCas", "return", "lock", "addLoad", "addCas", "unlock", "dead"}

\* Every variable has its type; in particular no sum of the publication leaves
\* the signed range of uptime_ns_ (the CHECK in add).
TypeOK ==
    /\ state \in {"uninitialized", "initializing", "manual", "auto"}
    /\ uptime \in 0..MaxUptime /\ origin \in 0..MaxUptime /\ now \in 0..MaxNow
    /\ lock \subseteq Threads
    /\ pc \in [Threads -> Labels]
    /\ op \in [Threads -> {"read", "add", "raise"}]
    /\ value \in [Threads -> 0..MaxUptime]
    /\ current \in [Threads -> 0..MaxUptime]
    /\ seen \in 0..MaxUptime /\ explicit \in 0..MaxUptime

\* No read in any context has returned more than the floor holds now: whatever
\* the interleaving of catching up, initialising and mutating, a later read
\* returns at least what an earlier one did (clock design, requirement 1).
ReadsMonotone == seen <= uptime

\* Time comes from somewhere: the floor is what explicit operations made it or
\* what the host clock has run since the origin, and in manual mode, or before
\* the mode is known, only the former (requirements 3 and 4).  It stays in the
\* signed range of uptime_ns_ although a sum is checked before it is stored.
UptimeIsAccountedFor ==
    /\ uptime \in 0..MaxUptime
    /\ uptime <= IF state = "auto" THEN Max2(explicit, HostUptimeNs) ELSE explicit

\* The mode and the host origin are chosen once.
OriginIsImmutable ==
    [][(state \in {"manual", "auto"}) => (state' = state /\ origin' = origin)]_vars

\* A read in signal context returns although the task below it, stopped in the
\* middle of initialisation, cannot make a step until then.
IsrReadReturns == pc[Isr] # "idle" ~> pc[Isr] \in {"idle", "dead"}
=============================================================================
