--------------------------- MODULE EspTimerProofs ---------------------------
(* Proofs about EspTimer, for every set of tasks and host threads, every set of drivers *)
(* beside the timer, every capacity and last epoch of the tables and every bound on the *)
(* compare generations.                                                                 *)
EXTENDS EspInterruptsProofs

-----------------------------------------------------------------------------
(* The inductive invariant of the backend *)

\* Where a context is; in an operation on the tables, where it goes on afterwards.
Place(p) == IF pc[p] \in TableLabels THEN op[p].then ELSE pc[p]

LockPlaces == {"init", "initEnable", "initDone", "deinit", "delivering"}
ClosedPlaces == {"init", "initEnable", "initDone",
                 "deinitCancel", "deinitDisable", "deinitFree", "deinitDone"}
OpenPlaces == {"deinit", "setLock", "cancelOld", "schedule", "store", "cancelNew"}
OwnerPlaces == {"initEnable", "initDone", "deinitCancel", "deinitDisable", "deinitFree"}
CancelPlaces == {"cancelOld", "store", "cancelNew", "deinitCancel"}
RevisionPlaces == {"deinit", "cancelOld", "schedule"}

\* One call of the backend and one callback are under way at a time.
Calls ==
    /\ \A p \in Contexts : Place(p) \in TimerLabels => p \in TimerTasks
    /\ \A p \in Contexts : Place(p) \in DeliveryLabels => p \in Deliverers
    /\ \A p, q \in Contexts :
          Place(p) \in TimerLabels /\ Place(q) \in TimerLabels => p = q
    /\ \A p, q \in Contexts :
          Place(p) \in DeliveryLabels /\ Place(q) \in DeliveryLabels => p = q

LockHeld == \A p \in Contexts : lock = p <=> Place(p) \in LockPlaces

Initialization ==
    /\ \A p \in Contexts : /\ Place(p) \in ClosedPlaces => ~initialized
                           /\ Place(p) \in OpenPlaces => initialized
    /\ upper <=> initialized
    /\ status => initialized
    /\ scheduled # 0 => initialized

\* A registered alarm is the one the backend remembers, or a call has it in hand.
AlarmsKnown ==
    \A g \in alarms :
        \/ g = scheduled
        \/ \E t \in TimerTasks : Place(t) \in CancelPlaces /\ arg[t] = g

\* What a call in progress knows of its alarm and of the compare's generation.
CallKnows ==
    \A t \in TimerTasks :
        /\ Place(t) \in TimerLabels \ {"setLock", "deinit"} => scheduled = 0
        /\ Place(t) = "store" =>
              /\ arg[t] = generation
              /\ generation \in alarms \/ Delivering(generation) \/ pendingGen = generation
        /\ Place(t) = "cancelNew" => arg[t] = generation /\ pendingGen = generation
        /\ Place(t) \in {"cancelOld", "schedule"} =>
              /\ generation \notin alarms /\ generation # pendingGen /\ generation \notin served
              /\ ~Delivering(generation)

\* The remembered alarm is that of the latest compare and still to be delivered.
ScheduledKnown ==
    scheduled # 0 =>
        /\ scheduled \in alarms \/ Delivering(scheduled)
        /\ scheduled = generation \/ \E t \in TimerTasks : Place(t) = "deinit"

\* No alarm is registered, delivered or published twice, and none is of a later compare.
Generations ==
    /\ \A g \in alarms : g <= generation
    /\ \A g \in served : g <= generation
    /\ pendingGen <= generation
    /\ pendingGen \notin alarms
    /\ \A p \in Contexts : Place(p) \in DeliveryLabels =>
          arg[p] >= 1 /\ arg[p] <= generation /\ arg[p] \notin alarms /\ arg[p] # pendingGen

\* An expiry that was served, or that the common handler is about to be called for, has
\* been taken.
ExpiryTaken ==
    /\ generation \in served => pendingGen = generation /\ ~status
    /\ isr.stage = "upper" =>
          initialized /\ generation \notin served /\ pendingGen = generation /\ ~status

\* The timer's record is the one whose handle the backend keeps, or a call has in hand.
OwnsRecord(t, r) == Place(t) \in OwnerPlaces /\ op[t].record = r
OneRecord ==
    /\ initialized => handle \in Records
    /\ \A t \in TimerTasks : Place(t) \in OwnerPlaces => op[t].record \in Records
    /\ \A r \in Records : record[r].handler = "timer" <=>
          (initialized /\ handle = r) \/ \E t \in TimerTasks : OwnsRecord(t, r)

\* What the interrupt tables hold for the timer.
TimerRecord ==
    /\ \A r \in Records : record[r].handler = "timer" =>
          record[r].filter = NoFilter /\ vector[record[r].vector].source = TimerSource
    /\ initialized => record[handle].state.enabled
    /\ \A t \in TimerTasks : Place(t) = "initDone" => record[op[t].record].state.enabled

\* Only esp_timer_impl_init publishes a vector of the timer's source.
TimerPublish ==
    pc[running] = "publish" /\ vector[op[running].vector].source = TimerSource =>
        op[running].then = "initEnable"

\* CompareNotLost within the calls too, until they give the compare a new generation.
CompareKept ==
    initialized /\ armed /\ (\A t \in TimerTasks : Place(t) \notin RevisionPlaces) =>
        \/ generation \in alarms
        \/ Delivering(generation)
        \/ Asserted
        \/ isr.stage = "upper"
        \/ generation \in served

TimerTypes ==
    /\ lock \in Contexts \cup {NoContext}
    /\ generation \in Nat /\ scheduled \in Nat /\ pendingGen \in Nat
    /\ handle \in Records \cup {0}
    /\ armed \in BOOLEAN /\ initialized \in BOOLEAN /\ status \in BOOLEAN /\ upper \in BOOLEAN
    /\ arg \in [Contexts -> Nat]
    /\ alarms \in SUBSET (Nat \ {0}) /\ served \in SUBSET Nat

\* The parts about calls, alarms and expiries.
AlarmInv ==
    /\ TimerTypes /\ Calls /\ LockHeld /\ Initialization
    /\ AlarmsKnown /\ CallKnows /\ ScheduledKnown /\ Generations /\ ExpiryTaken

BackendInv == AlarmInv /\ OneRecord /\ TimerRecord /\ TimerPublish /\ CompareKept

Inv == InterruptInv /\ BackendInv

-----------------------------------------------------------------------------
(* Places *)

\* A context's place is its own label outside the operations on the tables, and within
\* one the label of a call it goes back to.
LEMMA PlaceIs ==
    ASSUME InterruptTypes, OpShape, NEW p \in Contexts
    PROVE  /\ pc[p] \notin TableLabels => Place(p) = pc[p]
           /\ pc[p] \in TableLabels => Place(p) = op[p].then /\ Place(p) \in Continuations
           /\ Place(p) \in Labels /\ Place(p) \notin TableLabels
           /\ pc[p] \in DeliveryLabels <=> Place(p) \in DeliveryLabels
<1>1. op[p].then \in Continuations /\ pc[p] \in Labels
  BY DEF OpShape, InterruptTypes
<1>2. /\ pc[p] \notin TableLabels => Place(p) = pc[p]
      /\ pc[p] \in TableLabels => Place(p) = op[p].then
  BY DEF Place
<1>3. Continuations \cap DeliveryLabels = {} /\ TableLabels \cap DeliveryLabels = {}
  BY DEF Continuations, DeliveryLabels, TableLabels
<1> QED BY <1>1, <1>2, <1>3, ContinuationsAreLabels

LEMMA DeliveringIs ==
    ASSUME InterruptTypes, OpShape, NEW g
    PROVE  Delivering(g) <=> \E p \in Deliverers : Place(p) \in DeliveryLabels /\ arg[p] = g
BY PlaceIs, TimerAssumption DEF Delivering

\* A call of the backend is under way exactly while a task's place is in it.
LEMMA TimerIsIdleIs ==
    ASSUME InterruptInv
    PROVE  TimerIsIdle <=> \A t \in TimerTasks : Place(t) \notin TimerLabels
<1> SUFFICES ASSUME NEW t \in TimerTasks
             PROVE  InTimerCall(t) <=> Place(t) \in TimerLabels
  BY DEF TimerIsIdle
<1>1. t \in Contexts /\ InterruptTypes /\ OpShape
  BY TimerAssumption DEF Contexts, InterruptInv, TablesAgree
<1>2. TimerLabels \cap TableLabels = {} /\ "idle" \notin TimerLabels
      /\ TableLabels \subseteq CriticalLabels
  BY DEF TimerLabels, TableLabels, CriticalLabels
<1>3. CASE pc[t] \in TableLabels
  BY <1>1, <1>2, <1>3 DEF Place, InTimerCall, Masked
<1>4. CASE pc[t] \notin TableLabels
  <2>1. op[t].then = "idle"
    BY <1>1, <1>4 DEF OpShape
  <2> QED BY <1>2, <1>4, <2>1 DEF Place, InTimerCall
<1> QED BY <1>3, <1>4

\* A quiet step moves one place.
LEMMA Move ==
    ASSUME InterruptInv, NEW p \in Contexts, CanRun(p),
           pc[p] \notin TableLabels \cup RaiseLabels,
           NEW label \in Labels, label \notin TableLabels \cup RaiseLabels,
           label \in CriticalLabels => p \in Tasks,
           pc' = [pc EXCEPT ![p] = label],
           UNCHANGED <<vector, record, controller, running, isr, raise>>,
           op' \in [Contexts -> OpStates], op'[p].then = "idle",
           \A q \in Contexts : q # p => op'[q] = op[q]
    PROVE  /\ InterruptInv'
           /\ Place(p) = pc[p] /\ Place(p)' = label
           /\ \A q \in Contexts : q # p => Place(q)' = Place(q)
<1>1. InterruptInv'
  BY QuietStep
<1>2. pc'[p] = label /\ \A q \in Contexts : q # p => pc'[q] = pc[q]
  BY DEF InterruptInv, InterruptTypes
<1> QED BY <1>1, <1>2 DEF Place

\* A step of a call: the alarm being delivered is the same.
LEMMA CallMove ==
    ASSUME InterruptInv, NEW p \in TimerTasks, CanRun(p),
           pc[p] \in TimerLabels \cup {"idle"},
           NEW label \in TimerLabels \cup {"idle"},
           pc' = [pc EXCEPT ![p] = label],
           UNCHANGED <<vector, record, controller, running, isr, raise>>,
           op' \in [Contexts -> OpStates], op'[p].then = "idle",
           \A q \in Contexts : q # p => op'[q] = op[q],
           \A q \in Contexts : q # p => arg'[q] = arg[q]
    PROVE  /\ InterruptInv' /\ p \in Contexts /\ isr.vector = 0 /\ isr.stage = "record"
           /\ Place(p) = pc[p] /\ Place(p)' = label
           /\ \A q \in Contexts : q # p => Place(q)' = Place(q)
           /\ \A g : Delivering(g)' <=> Delivering(g)
<1>1. p \in Contexts /\ p \in Tasks
  BY TimerAssumption DEF Contexts
<1>2. /\ pc[p] \notin TableLabels \cup RaiseLabels /\ label \notin TableLabels \cup RaiseLabels
      /\ label \in Labels /\ pc[p] \notin DeliveryLabels /\ label \notin DeliveryLabels
  BY DEF TimerLabels, TableLabels, RaiseLabels, Labels, DeliveryLabels
<1>3. /\ InterruptInv' /\ Place(p) = pc[p] /\ Place(p)' = label
      /\ \A q \in Contexts : q # p => Place(q)' = Place(q)
  BY <1>1, <1>2, Move
<1>4. pc'[p] = label /\ \A q \in Contexts : q # p => pc'[q] = pc[q]
  BY <1>1 DEF InterruptInv, InterruptTypes
<1>5. \A g : Delivering(g)' <=> Delivering(g)
  BY <1>1, <1>2, <1>4, TimerAssumption DEF Delivering
<1>6. isr.vector = 0 /\ isr.stage = "record"
  BY <1>1, ContextsAssumption DEF CanRun, InterruptInv, DispatchShape
<1> QED BY <1>1, <1>3, <1>5, <1>6

\* The same without a change of the locals of the operation on the tables.
LEMMA CallMoves ==
    ASSUME InterruptInv, NEW p \in TimerTasks, CanRun(p),
           pc[p] \in TimerLabels \cup {"idle"},
           NEW label \in TimerLabels \cup {"idle"}, Goto(p, label),
           UNCHANGED <<tables, cpu, op, raise>>,
           \A q \in Contexts : q # p => arg'[q] = arg[q]
    PROVE  /\ InterruptInv' /\ p \in Contexts /\ isr.vector = 0 /\ isr.stage = "record"
           /\ isr' = isr
           /\ Place(p) = pc[p] /\ Place(p)' = label
           /\ \A q \in Contexts : q # p => Place(q)' = Place(q)
           /\ \A g : Delivering(g)' <=> Delivering(g)
<1>1. UNCHANGED <<vector, record, controller, running, isr, op, raise>>
  BY DEF tables, cpu
<1>2. op' \in [Contexts -> OpStates]
  BY <1>1 DEF InterruptInv, InterruptTypes
<1>3. op'[p].then = "idle"
  <2>1. pc[p] \notin TableLabels /\ p \in Contexts
    BY TimerAssumption DEF Contexts, TimerLabels, TableLabels
  <2> QED BY <1>1, <2>1 DEF InterruptInv, TablesAgree, OpShape
<1>4. pc' = [pc EXCEPT ![p] = label]
  BY DEF Goto
<1> QED BY <1>1, <1>2, <1>3, <1>4, CallMove

-----------------------------------------------------------------------------
(* Alarms and expiries: the steps of a call *)

\* A call begins when none is under way, and goes on or ends.
LEMMA CallsKept ==
    ASSUME Calls, NEW p \in TimerTasks, p \in Contexts,
           Place(p) \in TimerLabels \cup {"idle"}, Place(p)' \in TimerLabels \cup {"idle"},
           Place(p) = "idle" => \A t \in TimerTasks : Place(t) \notin TimerLabels,
           \A q \in Contexts : q # p => Place(q)' = Place(q)
    PROVE  Calls'
<1>1. TimerLabels \cap DeliveryLabels = {} /\ "idle" \notin TimerLabels \cup DeliveryLabels
  BY DEF TimerLabels, DeliveryLabels
<1>2. \A q \in Contexts : Place(q)' \in TimerLabels => q = p \/ Place(q) \in TimerLabels
  OBVIOUS
<1>3. \A q \in Contexts : Place(q)' \in DeliveryLabels => Place(q) \in DeliveryLabels
  BY <1>1
<1>4. \A q \in Contexts : q # p /\ Place(q) \in TimerLabels => Place(p)' \notin TimerLabels
  BY DEF Calls
<1> QED BY <1>2, <1>3, <1>4 DEF Calls

LEMMA SetAlarmAlarms ==
    ASSUME InterruptInv, AlarmInv, NEW t \in TimerTasks, SetAlarm(t)
    PROVE  InterruptInv' /\ AlarmInv'
<1>1. /\ CanRun(t) /\ pc[t] = "setLock" /\ lock = NoContext
      /\ generation' = generation + 1 /\ armed' \in BOOLEAN /\ status' = FALSE
      /\ arg' = [arg EXCEPT ![t] = scheduled] /\ scheduled' = 0
      /\ Goto(t, "cancelOld")
      /\ UNCHANGED <<tables, cpu, op, raise>>
      /\ UNCHANGED <<lock, initialized, handle, pendingGen, upper, alarms, served>>
  BY DEF SetAlarm
<1>2. TimerTypes /\ Calls /\ LockHeld /\ Initialization
      /\ AlarmsKnown /\ CallKnows /\ ScheduledKnown /\ Generations /\ ExpiryTaken
  BY DEF AlarmInv
<1>3. t \in Contexts /\ arg'[t] = scheduled /\ \A q \in Contexts : q # t => arg'[q] = arg[q]
  BY <1>1, <1>2, TimerAssumption DEF Contexts, TimerTypes
<1>4. /\ InterruptInv' /\ isr.vector = 0 /\ isr.stage = "record" /\ isr' = isr
      /\ Place(t) = "setLock" /\ Place(t)' = "cancelOld"
      /\ \A q \in Contexts : q # t => Place(q)' = Place(q)
      /\ \A g : Delivering(g)' <=> Delivering(g)
  <2>1. pc[t] \in TimerLabels \cup {"idle"} /\ "cancelOld" \in TimerLabels \cup {"idle"}
    BY <1>1 DEF TimerLabels
  <2> QED BY <1>1, <1>3, <2>1, CallMoves
<1>5. \A q \in TimerTasks : q \in Contexts /\ (q # t => Place(q) \notin TimerLabels)
  BY <1>2, <1>3, <1>4, TimerAssumption DEF Calls, Contexts, TimerLabels
<1>6. TimerTypes'
  <2>1. generation' \in Nat
    BY <1>1, <1>2 DEF TimerTypes
  <2>3. scheduled' \in Nat
    BY <1>1, <1>2 DEF TimerTypes
  <2>4. arg' \in [Contexts -> Nat]
    BY <1>1, <1>2 DEF TimerTypes
  <2>2. status' \in BOOLEAN
    BY <1>1
  <2> QED BY <1>1, <1>2, <2>1, <2>2, <2>3, <2>4 DEF TimerTypes
<1>7. Calls'
  <2>1. Place(t) \in TimerLabels /\ Place(t) # "idle" /\ Place(t)' \in TimerLabels
    BY <1>4 DEF TimerLabels
  <2> QED BY <1>2, <1>3, <1>4, <2>1, CallsKept
<1>8. LockHeld'
  BY <1>1, <1>2, <1>3, <1>4 DEF LockHeld, LockPlaces
<1>9. Initialization'
  BY <1>1, <1>2, <1>3, <1>4 DEF Initialization, ClosedPlaces, OpenPlaces
<1>10. AlarmsKnown'
  BY <1>1, <1>2, <1>3, <1>4, <1>5 DEF AlarmsKnown, CancelPlaces, TimerLabels
<1>11. /\ generation \in Nat /\ pendingGen \in Nat
       /\ alarms \in SUBSET (Nat \ {0}) /\ served \in SUBSET Nat /\ arg \in [Contexts -> Nat]
  BY <1>2 DEF TimerTypes
<1>12. generation' \notin alarms /\ generation' # pendingGen /\ generation' \notin served
       /\ ~Delivering(generation')
  <2>1. \A q \in Deliverers : Place(q) \in DeliveryLabels => arg[q] # generation'
    BY <1>1, <1>2, <1>11, TimerAssumption DEF Generations
  <2>2. ~Delivering(generation')
    BY <2>1, DeliveringIs DEF InterruptInv, TablesAgree
  <2> QED BY <1>1, <1>2, <1>11, <2>2 DEF Generations
<1>13. CallKnows'
  <2> SUFFICES ASSUME NEW q \in TimerTasks, q = t
               PROVE  CallKnows!(q)'
    BY <1>4, <1>5 DEF CallKnows, TimerLabels
  <2> QED BY <1>1, <1>4, <1>12 DEF TimerLabels
<1>14. ScheduledKnown'
  BY <1>1 DEF ScheduledKnown
<1>15. Generations'
  <2>1. \A q \in Contexts : Place(q)' \in DeliveryLabels =>
            Place(q) \in DeliveryLabels /\ arg'[q] = arg[q]
    BY <1>3, <1>4 DEF DeliveryLabels
  <2> QED BY <1>1, <1>2, <1>11, <2>1 DEF Generations
<1>16. ExpiryTaken'
  BY <1>1, <1>4, <1>12 DEF ExpiryTaken
<1> QED BY <1>4, <1>6, <1>7, <1>8, <1>9, <1>10, <1>13, <1>14, <1>15, <1>16 DEF AlarmInv

\* A step that moves one place and changes nothing else of the backend but the lock.
LEMMA PlaceOnly ==
    ASSUME AlarmInv, NEW p \in Contexts, \A q \in Contexts : q # p => Place(q)' = Place(q),
           Calls', LockHeld', lock' \in Contexts \cup {NoContext},
           UNCHANGED <<compareVars, initialized, handle, expiryVars, arg, alarms, served>>,
           isr'.stage = "upper" => isr.stage = "upper",
           \A g : Delivering(g)' <=> Delivering(g),
           Place(p)' \in ClosedPlaces => ~initialized,
           Place(p)' \in OpenPlaces => initialized,
           Place(p) \in CancelPlaces => Place(p)' \in CancelPlaces,
           Place(p) = "deinit" => Place(p)' = "deinit",
           Place(p)' \in DeliveryLabels => Place(p) \in DeliveryLabels,
           p \in TimerTasks => CallKnows!(p)'
    PROVE  AlarmInv'
<1>1. TimerTypes /\ Calls /\ LockHeld /\ Initialization
      /\ AlarmsKnown /\ CallKnows /\ ScheduledKnown /\ Generations /\ ExpiryTaken
  BY DEF AlarmInv
<1>2. UNCHANGED <<generation, armed, scheduled, initialized, handle, pendingGen, status, upper,
                  arg, alarms, served>>
  BY DEF compareVars, expiryVars
<1>3. TimerTypes'
  BY <1>1, <1>2 DEF TimerTypes
<1>4. \A t \in TimerTasks : t \in Contexts
  BY TimerAssumption DEF Contexts
<1>5. Initialization'
  BY <1>1, <1>2 DEF Initialization
<1>6. AlarmsKnown'
  <2>1. \A t \in TimerTasks : Place(t) \in CancelPlaces => Place(t)' \in CancelPlaces
    BY <1>4
  <2> QED BY <1>1, <1>2, <2>1 DEF AlarmsKnown
<1>7. CallKnows'
  <2> SUFFICES ASSUME NEW t \in TimerTasks, t # p
               PROVE  CallKnows!(t)'
    BY DEF CallKnows
  <2>1. Place(t)' = Place(t)
    BY <1>4
  <2>2. CallKnows!(t)
    BY <1>1 DEF CallKnows
  <2> QED BY <1>2, <2>1, <2>2
<1>8. ScheduledKnown'
  <2>1. \A t \in TimerTasks : Place(t) = "deinit" => Place(t)' = "deinit"
    BY <1>4
  <2> QED BY <1>1, <1>2, <2>1 DEF ScheduledKnown
<1>9. Generations'
  <2>1. \A q \in Contexts : Place(q)' \in DeliveryLabels => Place(q) \in DeliveryLabels
    OBVIOUS
  <2> QED BY <1>1, <1>2, <2>1 DEF Generations
<1>10. ExpiryTaken'
  BY <1>1, <1>2 DEF ExpiryTaken
<1> QED BY <1>3, <1>5, <1>6, <1>7, <1>8, <1>9, <1>10 DEF AlarmInv

\* The steps of a call that only move its place, or begin or end it.
LEMMA InitLockAlarms ==
    ASSUME InterruptInv, AlarmInv, NEW t \in TimerTasks, InitLock(t)
    PROVE  InterruptInv' /\ AlarmInv'
<1>1. /\ CanRun(t) /\ pc[t] = "idle" /\ TimerIsIdle /\ lock = NoContext /\ ~initialized
      /\ lock' = t /\ Goto(t, "init") /\ UNCHANGED <<tables, cpu, op, raise>>
      /\ UNCHANGED <<compareVars, initialized, handle, expiryVars, arg, alarms, served>>
  BY DEF InitLock
<1>2. TimerTypes /\ Calls /\ LockHeld /\ Initialization /\ scheduled = 0
  BY <1>1 DEF AlarmInv, Initialization
<1>3. /\ InterruptInv' /\ t \in Contexts /\ isr' = isr
      /\ Place(t) = "idle" /\ Place(t)' = "init"
      /\ \A q \in Contexts : q # t => Place(q)' = Place(q)
      /\ \A g : Delivering(g)' <=> Delivering(g)
  BY <1>1, CallMoves DEF TimerLabels
<1>4. \A q \in TimerTasks : Place(q) \notin TimerLabels
  BY <1>1, TimerIsIdleIs
<1>5. Calls'
  <2>1. Place(t)' \in TimerLabels
    BY <1>3 DEF TimerLabels
  <2> QED BY <1>2, <1>3, <1>4, <2>1, CallsKept
<1>6. LockHeld'
  BY <1>1, <1>2, <1>3, TimerAssumption DEF LockHeld, LockPlaces
<1>7. CallKnows!(t)'
  BY <1>1, <1>2, <1>3 DEF compareVars
<1>8. Place(t) \notin CancelPlaces /\ Place(t) # "deinit" /\ Place(t)' \notin OpenPlaces
      /\ Place(t)' \notin DeliveryLabels
  BY <1>3 DEF CancelPlaces, OpenPlaces, DeliveryLabels
<1> QED BY <1>1, <1>3, <1>5, <1>6, <1>7, <1>8, PlaceOnly

LEMMA InitFailsAlarms ==
    ASSUME InterruptInv, AlarmInv, NEW t \in TimerTasks, InitFails(t)
    PROVE  InterruptInv' /\ AlarmInv'
<1>1. /\ CanRun(t) /\ pc[t] = "init" /\ lock' = NoContext /\ Goto(t, "idle")
      /\ UNCHANGED <<tables, cpu, op, raise>>
      /\ UNCHANGED <<compareVars, initialized, handle, expiryVars, arg, alarms, served>>
  BY DEF InitFails
<1>2. TimerTypes /\ Calls /\ LockHeld
  BY DEF AlarmInv
<1>3. /\ InterruptInv' /\ t \in Contexts /\ isr' = isr
      /\ Place(t) = "init" /\ Place(t)' = "idle"
      /\ \A q \in Contexts : q # t => Place(q)' = Place(q)
      /\ \A g : Delivering(g)' <=> Delivering(g)
  BY <1>1, CallMoves DEF TimerLabels
<1>5. Calls'
  <2>1. Place(t) \in TimerLabels /\ Place(t) # "idle"
    BY <1>3 DEF TimerLabels
  <2> QED BY <1>2, <1>3, <2>1, CallsKept
<1>6. LockHeld'
  BY <1>1, <1>2, <1>3, TimerAssumption DEF LockHeld, LockPlaces
<1>7. CallKnows!(t)'
  BY <1>3 DEF TimerLabels
<1>8. Place(t) \notin CancelPlaces /\ Place(t) # "deinit"
      /\ Place(t)' \notin OpenPlaces \cup ClosedPlaces \cup DeliveryLabels
  BY <1>3 DEF CancelPlaces, OpenPlaces, ClosedPlaces, DeliveryLabels
<1> QED BY <1>1, <1>3, <1>5, <1>6, <1>7, <1>8, PlaceOnly

LEMMA CallSetAlarmAlarms ==
    ASSUME InterruptInv, AlarmInv, NEW t \in TimerTasks, CallSetAlarm(t)
    PROVE  InterruptInv' /\ AlarmInv'
<1>1. /\ CanRun(t) /\ pc[t] = "idle" /\ TimerIsIdle /\ initialized
      /\ Goto(t, "setLock") /\ UNCHANGED <<tables, cpu, op, raise>> /\ lock' = lock
      /\ UNCHANGED <<compareVars, initialized, handle, expiryVars, arg, alarms, served>>
  BY DEF CallSetAlarm, timerVars
<1>2. TimerTypes /\ Calls /\ LockHeld
  BY DEF AlarmInv
<1>3. /\ InterruptInv' /\ t \in Contexts /\ isr' = isr
      /\ Place(t) = "idle" /\ Place(t)' = "setLock"
      /\ \A q \in Contexts : q # t => Place(q)' = Place(q)
      /\ \A g : Delivering(g)' <=> Delivering(g)
  BY <1>1, CallMoves DEF TimerLabels
<1>4. \A q \in TimerTasks : Place(q) \notin TimerLabels
  BY <1>1, TimerIsIdleIs
<1>5. Calls'
  <2>1. Place(t)' \in TimerLabels
    BY <1>3 DEF TimerLabels
  <2> QED BY <1>2, <1>3, <1>4, <2>1, CallsKept
<1>6. LockHeld'
  BY <1>1, <1>2, <1>3 DEF LockHeld, LockPlaces
<1>7. CallKnows!(t)'
  BY <1>3
<1>8. Place(t) \notin CancelPlaces /\ Place(t) # "deinit"
      /\ Place(t)' \notin ClosedPlaces \cup DeliveryLabels
  BY <1>3 DEF CancelPlaces, ClosedPlaces, DeliveryLabels
<1>9. lock' \in Contexts \cup {NoContext}
  BY <1>1, <1>2 DEF TimerTypes
<1> QED BY <1>1, <1>3, <1>5, <1>6, <1>7, <1>8, <1>9, PlaceOnly

LEMMA DeinitDoneAlarms ==
    ASSUME InterruptInv, AlarmInv, NEW t \in TimerTasks, DeinitDone(t)
    PROVE  InterruptInv' /\ AlarmInv'
<1>1. /\ CanRun(t) /\ pc[t] = "deinitDone" /\ pc' = [pc EXCEPT ![t] = "idle"]
      /\ op' = [op EXCEPT ![t] = NoOp]
      /\ UNCHANGED <<vector, record, controller, running, isr, raise>> /\ lock' = lock
      /\ UNCHANGED <<compareVars, initialized, handle, expiryVars, arg, alarms, served>>
  BY DEF DeinitDone, timerVars, tables, cpu, Goto
<1>2. TimerTypes /\ Calls /\ LockHeld
  BY DEF AlarmInv
<1>3. /\ op' \in [Contexts -> OpStates] /\ op'[t].then = "idle"
      /\ \A q \in Contexts : q # t => op'[q] = op[q]
  <2>1. t \in Contexts /\ op \in [Contexts -> OpStates] /\ NoOp.then = "idle"
    BY TimerAssumption DEF Contexts, InterruptInv, InterruptTypes, NoOp
  <2> QED BY <1>1, <2>1, ConstantTypes
<1>4. /\ InterruptInv' /\ t \in Contexts
      /\ Place(t) = "deinitDone" /\ Place(t)' = "idle"
      /\ \A q \in Contexts : q # t => Place(q)' = Place(q)
      /\ \A g : Delivering(g)' <=> Delivering(g)
  BY <1>1, <1>3, CallMove DEF TimerLabels
<1>5. Calls'
  <2>1. Place(t) \in TimerLabels /\ Place(t) # "idle"
    BY <1>4 DEF TimerLabels
  <2> QED BY <1>2, <1>4, <2>1, CallsKept
<1>6. LockHeld'
  BY <1>1, <1>2, <1>4 DEF LockHeld, LockPlaces
<1>7. CallKnows!(t)'
  BY <1>4 DEF TimerLabels
<1>8. Place(t) \notin CancelPlaces /\ Place(t) # "deinit"
      /\ Place(t)' \notin OpenPlaces \cup ClosedPlaces \cup DeliveryLabels
  BY <1>4 DEF CancelPlaces, OpenPlaces, ClosedPlaces, DeliveryLabels
<1>9. lock' \in Contexts \cup {NoContext}
  BY <1>1, <1>2 DEF TimerTypes
<1> QED BY <1>1, <1>4, <1>5, <1>6, <1>7, <1>8, <1>9, PlaceOnly

LEMMA InitDoneAlarms ==
    ASSUME InterruptInv, AlarmInv, NEW t \in TimerTasks, InitDone(t)
    PROVE  InterruptInv' /\ AlarmInv'
<1>1. /\ CanRun(t) /\ pc[t] = "initDone" /\ pc' = [pc EXCEPT ![t] = "idle"]
      /\ handle' = op[t].record /\ armed' = FALSE /\ scheduled' = 0
      /\ status' = FALSE /\ upper' = TRUE /\ initialized' = TRUE /\ lock' = NoContext
      /\ op' = [op EXCEPT ![t] = NoOp]
      /\ UNCHANGED <<vector, record, controller, running, isr, raise>>
      /\ UNCHANGED <<generation, pendingGen, arg, alarms, served>>
  BY DEF InitDone, tables, cpu, Goto
<1>2. TimerTypes /\ Calls /\ LockHeld /\ Initialization
      /\ AlarmsKnown /\ CallKnows /\ ScheduledKnown /\ Generations /\ ExpiryTaken
  BY DEF AlarmInv
<1>3. /\ op' \in [Contexts -> OpStates] /\ op'[t].then = "idle"
      /\ \A q \in Contexts : q # t => op'[q] = op[q]
  <2>1. t \in Contexts /\ op \in [Contexts -> OpStates] /\ NoOp.then = "idle"
    BY TimerAssumption DEF Contexts, InterruptInv, InterruptTypes, NoOp
  <2> QED BY <1>1, <2>1, ConstantTypes
<1>4. /\ InterruptInv' /\ t \in Contexts /\ isr.stage = "record"
      /\ Place(t) = "initDone" /\ Place(t)' = "idle"
      /\ \A q \in Contexts : q # t => Place(q)' = Place(q)
      /\ \A g : Delivering(g)' <=> Delivering(g)
  BY <1>1, <1>3, CallMove DEF TimerLabels
<1>5. \A q \in TimerTasks : q \in Contexts /\ (q # t => Place(q) \notin TimerLabels)
  BY <1>2, <1>4, TimerAssumption DEF Calls, Contexts, TimerLabels
<1>6. TimerTypes'
  <2>1. handle' \in Records \cup {0}
    BY <1>1, <1>4 DEF InterruptInv, InterruptTypes, OpStates
  <2>2. lock' \in Contexts \cup {NoContext}
    BY <1>1
  <2>3. scheduled' \in Nat
    BY <1>1
  <2>4. armed' \in BOOLEAN /\ status' \in BOOLEAN /\ upper' \in BOOLEAN /\ initialized' \in BOOLEAN
    BY <1>1
  <2> QED BY <1>1, <1>2, <2>1, <2>2, <2>3, <2>4 DEF TimerTypes
<1>7. Calls'
  <2>1. Place(t) \in TimerLabels /\ Place(t) # "idle"
    BY <1>4 DEF TimerLabels
  <2> QED BY <1>2, <1>4, <2>1, CallsKept
<1>8. LockHeld'
  BY <1>1, <1>2, <1>4, TimerAssumption DEF LockHeld, LockPlaces
<1>9. Initialization'
  <2>1. \A q \in Contexts : Place(q)' \notin ClosedPlaces
    BY <1>2, <1>4 DEF Calls, TimerLabels, ClosedPlaces
  <2> QED BY <1>1, <2>1 DEF Initialization
<1>10. ~initialized /\ scheduled = 0 /\ ~status
  BY <1>2, <1>4 DEF Initialization, ClosedPlaces
<1>11. AlarmsKnown'
  BY <1>1, <1>2, <1>4, <1>5, <1>10 DEF AlarmsKnown, CancelPlaces, TimerLabels
<1>12. CallKnows'
  <2> SUFFICES ASSUME NEW q \in TimerTasks, q = t
               PROVE  CallKnows!(q)'
    BY <1>4, <1>5 DEF CallKnows, TimerLabels
  <2> QED BY <1>4 DEF TimerLabels
<1>13. ScheduledKnown'
  BY <1>1 DEF ScheduledKnown
<1>14. Generations'
  <2>1. \A q \in Contexts : Place(q)' \in DeliveryLabels => Place(q) \in DeliveryLabels
    BY <1>4 DEF DeliveryLabels
  <2> QED BY <1>1, <1>2, <2>1 DEF Generations
<1>15. ExpiryTaken'
  BY <1>1, <1>2, <1>4, <1>10 DEF ExpiryTaken
<1> QED BY <1>4, <1>6, <1>7, <1>8, <1>9, <1>11, <1>12, <1>13, <1>14, <1>15 DEF AlarmInv

LEMMA DeinitLockAlarms ==
    ASSUME InterruptInv, AlarmInv, NEW t \in TimerTasks, DeinitLock(t)
    PROVE  InterruptInv' /\ AlarmInv'
<1>1. /\ CanRun(t) /\ pc[t] = "idle" /\ TimerIsIdle /\ lock = NoContext /\ initialized
      /\ lock' = t /\ generation' = generation + 1 /\ Goto(t, "deinit")
      /\ UNCHANGED <<tables, cpu, op, raise>>
      /\ UNCHANGED <<armed, scheduled, initialized, handle, expiryVars, arg, alarms, served>>
  BY DEF DeinitLock
<1>2. TimerTypes /\ Calls /\ LockHeld /\ Initialization
      /\ AlarmsKnown /\ CallKnows /\ ScheduledKnown /\ Generations /\ ExpiryTaken
  BY DEF AlarmInv
<1>3. /\ InterruptInv' /\ t \in Contexts /\ isr' = isr /\ isr.stage = "record"
      /\ Place(t) = "idle" /\ Place(t)' = "deinit"
      /\ \A q \in Contexts : q # t => Place(q)' = Place(q)
      /\ \A g : Delivering(g)' <=> Delivering(g)
  BY <1>1, CallMoves DEF TimerLabels
<1>4. \A q \in TimerTasks : q \in Contexts /\ Place(q) \notin TimerLabels
  BY <1>1, TimerIsIdleIs, TimerAssumption DEF Contexts
<1>5. pendingGen' = pendingGen /\ status' = status /\ upper' = upper
  BY <1>1 DEF expiryVars
<1>6. TimerTypes'
  <2>1. generation' \in Nat
    BY <1>1, <1>2 DEF TimerTypes
  <2>2. lock' \in Contexts \cup {NoContext}
    BY <1>1, <1>3
  <2> QED BY <1>1, <1>2, <1>5, <2>1, <2>2 DEF TimerTypes
<1>7. Calls'
  <2>1. Place(t)' \in TimerLabels
    BY <1>3 DEF TimerLabels
  <2> QED BY <1>2, <1>3, <1>4, <2>1, CallsKept
<1>8. LockHeld'
  BY <1>1, <1>2, <1>3, TimerAssumption DEF LockHeld, LockPlaces
<1>9. Initialization'
  BY <1>1, <1>2, <1>3, <1>5 DEF Initialization, ClosedPlaces, OpenPlaces
<1>10. AlarmsKnown'
  <2>1. \A q \in TimerTasks : Place(q) \notin CancelPlaces
    BY <1>4 DEF CancelPlaces, TimerLabels
  <2> QED BY <1>1, <1>2, <2>1 DEF AlarmsKnown
<1>11. CallKnows'
  <2> SUFFICES ASSUME NEW q \in TimerTasks, q = t
               PROVE  CallKnows!(q)'
    BY <1>3, <1>4 DEF CallKnows, TimerLabels
  <2> QED BY <1>3
<1>12. ScheduledKnown'
  <2>1. scheduled # 0 => scheduled \in alarms \/ Delivering(scheduled)
    BY <1>2 DEF ScheduledKnown
  <2>2. (scheduled # 0 => scheduled \in alarms \/ Delivering(scheduled))'
    BY <1>1, <1>3, <2>1 DEF Delivering
  <2> QED BY <1>3, <2>2 DEF ScheduledKnown
<1>13. /\ generation \in Nat /\ pendingGen \in Nat
       /\ alarms \in SUBSET (Nat \ {0}) /\ served \in SUBSET Nat /\ arg \in [Contexts -> Nat]
  BY <1>2 DEF TimerTypes
<1>14. Generations'
  <2>1. \A q \in Contexts : Place(q)' \in DeliveryLabels => Place(q) \in DeliveryLabels
    BY <1>3 DEF DeliveryLabels
  <2> QED BY <1>1, <1>2, <1>5, <1>13, <2>1 DEF Generations
<1>15. ExpiryTaken'
  <2>1. generation' \notin served
    BY <1>1, <1>2, <1>13 DEF Generations
  <2> QED BY <1>1, <1>3, <2>1 DEF ExpiryTaken
<1> QED BY <1>3, <1>6, <1>7, <1>8, <1>9, <1>10, <1>11, <1>12, <1>14, <1>15 DEF AlarmInv

LEMMA DeinitAlarms ==
    ASSUME InterruptInv, AlarmInv, NEW t \in TimerTasks, Deinit(t)
    PROVE  InterruptInv' /\ AlarmInv'
<1>1. /\ CanRun(t) /\ pc[t] = "deinit" /\ pc' = [pc EXCEPT ![t] = "deinitCancel"]
      /\ initialized' = FALSE /\ armed' = FALSE /\ status' = FALSE /\ upper' = FALSE
      /\ arg' = [arg EXCEPT ![t] = scheduled] /\ scheduled' = 0
      /\ op' = [op EXCEPT ![t].record = handle] /\ handle' = 0 /\ lock' = NoContext
      /\ UNCHANGED <<vector, record, controller, running, isr, raise>>
      /\ UNCHANGED <<generation, pendingGen, alarms, served>>
  BY DEF Deinit, tables, cpu, Goto
<1>2. TimerTypes /\ Calls /\ LockHeld /\ Initialization
      /\ AlarmsKnown /\ CallKnows /\ ScheduledKnown /\ Generations /\ ExpiryTaken
  BY DEF AlarmInv
<1>3. /\ t \in Contexts /\ arg'[t] = scheduled /\ \A q \in Contexts : q # t => arg'[q] = arg[q]
      /\ op' \in [Contexts -> OpStates] /\ op'[t].then = "idle"
      /\ \A q \in Contexts : q # t => op'[q] = op[q]
  <2>1. t \in Contexts /\ op \in [Contexts -> OpStates] /\ handle \in Records \cup {0}
        /\ arg \in [Contexts -> Nat] /\ op[t].then = "idle"
    BY <1>1, <1>2, TimerAssumption
       DEF Contexts, InterruptInv, InterruptTypes, TimerTypes, TablesAgree, OpShape, TableLabels
  <2> QED BY <1>1, <2>1 DEF OpStates
<1>4. /\ InterruptInv' /\ isr.stage = "record"
      /\ Place(t) = "deinit" /\ Place(t)' = "deinitCancel"
      /\ \A q \in Contexts : q # t => Place(q)' = Place(q)
      /\ \A g : Delivering(g)' <=> Delivering(g)
  BY <1>1, <1>3, CallMove DEF TimerLabels
<1>5. \A q \in TimerTasks : q \in Contexts /\ (q # t => Place(q) \notin TimerLabels)
  BY <1>2, <1>3, <1>4, TimerAssumption DEF Calls, Contexts, TimerLabels
<1>6. TimerTypes'
  <2>1. handle' \in Records \cup {0}
    BY <1>1
  <2>2. lock' \in Contexts \cup {NoContext}
    BY <1>1
  <2>3. scheduled' \in Nat
    BY <1>1
  <2>4. armed' \in BOOLEAN /\ status' \in BOOLEAN /\ upper' \in BOOLEAN /\ initialized' \in BOOLEAN
    BY <1>1
  <2>5. arg' \in [Contexts -> Nat]
    BY <1>1, <1>2 DEF TimerTypes
  <2> QED BY <1>1, <1>2, <2>1, <2>2, <2>3, <2>4, <2>5 DEF TimerTypes
<1>7. Calls'
  <2>1. Place(t) \in TimerLabels /\ Place(t) # "idle" /\ Place(t)' \in TimerLabels
    BY <1>4 DEF TimerLabels
  <2> QED BY <1>2, <1>3, <1>4, <2>1, CallsKept
<1>8. LockHeld'
  BY <1>1, <1>2, <1>3, <1>4, TimerAssumption DEF LockHeld, LockPlaces
<1>9. Initialization'
  <2>1. \A q \in Contexts : Place(q)' \notin OpenPlaces
    BY <1>2, <1>3, <1>4 DEF Calls, TimerLabels, OpenPlaces
  <2> QED BY <1>1, <2>1 DEF Initialization
<1>10. AlarmsKnown'
  BY <1>1, <1>2, <1>3, <1>4, <1>5 DEF AlarmsKnown, CancelPlaces, TimerLabels
<1>11. CallKnows'
  <2> SUFFICES ASSUME NEW q \in TimerTasks, q = t
               PROVE  CallKnows!(q)'
    BY <1>4, <1>5 DEF CallKnows, TimerLabels
  <2> QED BY <1>1, <1>4
<1>12. ScheduledKnown'
  BY <1>1 DEF ScheduledKnown
<1>13. Generations'
  <2>1. \A q \in Contexts : Place(q)' \in DeliveryLabels =>
            Place(q) \in DeliveryLabels /\ arg'[q] = arg[q]
    BY <1>3, <1>4 DEF DeliveryLabels
  <2> QED BY <1>1, <1>2, <2>1 DEF Generations
<1>14. ExpiryTaken'
  BY <1>1, <1>2, <1>4 DEF ExpiryTaken
<1> QED BY <1>4, <1>6, <1>7, <1>8, <1>9, <1>10, <1>11, <1>12, <1>13, <1>14 DEF AlarmInv

\* Where a call goes on after CancelSystemTimeAlarm.
CancelGoes(from, to) ==
    \/ from = "deinitCancel" /\ to = "deinitDisable"
    \/ from = "cancelOld" /\ to \in {"schedule", "idle"}
    \/ from = "cancelNew" /\ to = "idle"

LEMMA CancelAlarms ==
    ASSUME InterruptInv, AlarmInv, NEW t \in TimerTasks, NEW from, NEW to, CancelGoes(from, to),
           Cancel(t, from, to)
    PROVE  InterruptInv' /\ AlarmInv'
<1>1. /\ CanRun(t) /\ pc[t] = from /\ alarms' = alarms \ {arg[t]}
      /\ arg' = [arg EXCEPT ![t] = 0] /\ Goto(t, to)
      /\ UNCHANGED <<tables, cpu, op, raise>>
      /\ UNCHANGED <<lock, generation, armed, scheduled, initialized, handle, pendingGen, status,
                     upper, served>>
  BY DEF Cancel, Forget, compareVars, expiryVars
<1>2. TimerTypes /\ Calls /\ LockHeld /\ Initialization
      /\ AlarmsKnown /\ CallKnows /\ ScheduledKnown /\ Generations /\ ExpiryTaken
  BY DEF AlarmInv
<1>3. t \in Contexts /\ \A q \in Contexts : q # t => arg'[q] = arg[q]
  BY <1>1, <1>2, TimerAssumption DEF Contexts, TimerTypes
<1>4. /\ InterruptInv' /\ isr' = isr /\ isr.stage = "record"
      /\ Place(t) = from /\ Place(t)' = to
      /\ \A q \in Contexts : q # t => Place(q)' = Place(q)
      /\ \A g : Delivering(g)' <=> Delivering(g)
  <2>1. pc[t] \in TimerLabels \cup {"idle"} /\ to \in TimerLabels \cup {"idle"}
    BY <1>1 DEF TimerLabels, CancelGoes
  <2> QED BY <1>1, <1>3, <2>1, CallMoves
<1>5. from \in TimerLabels \ {"setLock", "deinit"}
  BY DEF TimerLabels, CancelGoes
<1>6. \A q \in TimerTasks : q \in Contexts /\ (q # t => Place(q) \notin TimerLabels)
  BY <1>2, <1>3, <1>4, <1>5, TimerAssumption DEF Calls, Contexts
<1>7. TimerTypes'
  <2>1. alarms' \in SUBSET (Nat \ {0}) /\ arg' \in [Contexts -> Nat]
    BY <1>1, <1>2 DEF TimerTypes
  <2> QED BY <1>1, <1>2, <2>1 DEF TimerTypes
<1>8. Calls'
  <2>1. Place(t) \in TimerLabels /\ Place(t) # "idle" /\ Place(t)' \in TimerLabels \cup {"idle"}
    BY <1>4 DEF TimerLabels, CancelGoes
  <2> QED BY <1>2, <1>3, <1>4, <2>1, CallsKept
<1>9. LockHeld'
  BY <1>1, <1>2, <1>3, <1>4 DEF LockHeld, LockPlaces, CancelGoes
<1>10. Initialization'
  BY <1>1, <1>2, <1>3, <1>4 DEF Initialization, ClosedPlaces, OpenPlaces, CancelGoes
<1>11. scheduled = 0
  BY <1>2, <1>4, <1>5 DEF CallKnows
<1>12. AlarmsKnown'
  <2>1. \A q \in TimerTasks : q # t => Place(q) \notin CancelPlaces
    BY <1>6 DEF CancelPlaces, TimerLabels
  <2>2. alarms' = {}
    <3> SUFFICES ASSUME NEW g \in alarms, g # arg[t]
                 PROVE  FALSE
      BY <1>1
    <3>1. g # 0
      BY <1>2 DEF TimerTypes
    <3> QED BY <1>2, <1>11, <2>1, <3>1 DEF AlarmsKnown
  <2> QED BY <2>2 DEF AlarmsKnown
<1>13. CallKnows'
  <2> SUFFICES ASSUME NEW q \in TimerTasks, q = t
               PROVE  CallKnows!(q)'
    BY <1>4, <1>6 DEF CallKnows, TimerLabels
  <2>1. from = "cancelOld" => CallKnows!(t)!4!2
    BY <1>2, <1>4 DEF CallKnows
  <2> QED BY <1>1, <1>4, <1>11, <2>1 DEF CancelGoes
<1>14. ScheduledKnown'
  BY <1>1, <1>11 DEF ScheduledKnown
<1>15. Generations'
  <2>1. \A q \in Contexts : Place(q)' \in DeliveryLabels =>
            Place(q) \in DeliveryLabels /\ arg'[q] = arg[q]
    BY <1>3, <1>4 DEF DeliveryLabels, CancelGoes
  <2> QED BY <1>1, <1>2, <2>1 DEF Generations
<1>16. ExpiryTaken'
  BY <1>1, <1>2, <1>4 DEF ExpiryTaken
<1> QED BY <1>4, <1>7, <1>8, <1>9, <1>10, <1>12, <1>13, <1>14, <1>15, <1>16 DEF AlarmInv

LEMMA ScheduleSystemTimeAlarmAlarms ==
    ASSUME InterruptInv, AlarmInv, NEW t \in TimerTasks, ScheduleSystemTimeAlarm(t)
    PROVE  InterruptInv' /\ AlarmInv'
<1>1. /\ CanRun(t) /\ pc[t] = "schedule" /\ alarms' = alarms \cup {generation}
      /\ arg' = [arg EXCEPT ![t] = generation] /\ Goto(t, "store")
      /\ UNCHANGED <<tables, cpu, op, raise>>
      /\ UNCHANGED <<lock, generation, armed, scheduled, initialized, handle, pendingGen, status,
                     upper, served>>
  BY DEF ScheduleSystemTimeAlarm, compareVars, expiryVars
<1>2. TimerTypes /\ Calls /\ LockHeld /\ Initialization
      /\ AlarmsKnown /\ CallKnows /\ ScheduledKnown /\ Generations /\ ExpiryTaken
  BY DEF AlarmInv
<1>3. /\ t \in Contexts /\ arg'[t] = generation
      /\ \A q \in Contexts : q # t => arg'[q] = arg[q]
  BY <1>1, <1>2, TimerAssumption DEF Contexts, TimerTypes
<1>4. /\ InterruptInv' /\ isr' = isr /\ isr.stage = "record"
      /\ Place(t) = "schedule" /\ Place(t)' = "store"
      /\ \A q \in Contexts : q # t => Place(q)' = Place(q)
      /\ \A g : Delivering(g)' <=> Delivering(g)
  <2>1. pc[t] \in TimerLabels \cup {"idle"} /\ "store" \in TimerLabels \cup {"idle"}
    BY <1>1 DEF TimerLabels
  <2> QED BY <1>1, <1>3, <2>1, CallMoves
<1>5. \A q \in TimerTasks : q \in Contexts /\ (q # t => Place(q) \notin TimerLabels)
  BY <1>2, <1>3, <1>4, TimerAssumption DEF Calls, Contexts, TimerLabels
<1>6. /\ scheduled = 0 /\ generation # pendingGen /\ ~Delivering(generation)
      /\ generation \in Nat /\ pendingGen \in Nat /\ pendingGen <= generation
  BY <1>2, <1>4 DEF CallKnows, TimerLabels, TimerTypes, Generations
<1>7. TimerTypes'
  <2>1. generation \in Nat \ {0}
    BY <1>6
  <2>2. alarms' \in SUBSET (Nat \ {0}) /\ arg' \in [Contexts -> Nat]
    BY <1>1, <1>2, <2>1 DEF TimerTypes
  <2> QED BY <1>1, <1>2, <2>2 DEF TimerTypes
<1>8. Calls'
  <2>1. Place(t) \in TimerLabels /\ Place(t) # "idle" /\ Place(t)' \in TimerLabels
    BY <1>4 DEF TimerLabels
  <2> QED BY <1>2, <1>3, <1>4, <2>1, CallsKept
<1>9. LockHeld'
  BY <1>1, <1>2, <1>3, <1>4 DEF LockHeld, LockPlaces
<1>10. Initialization'
  BY <1>1, <1>2, <1>3, <1>4 DEF Initialization, ClosedPlaces, OpenPlaces
<1>11. AlarmsKnown'
  <2>1. \A g \in alarms : FALSE
    BY <1>2, <1>4, <1>5, <1>6 DEF AlarmsKnown, CancelPlaces, TimerLabels, TimerTypes
  <2> QED BY <1>1, <1>3, <1>4, <2>1 DEF AlarmsKnown, CancelPlaces
<1>12. CallKnows'
  <2> SUFFICES ASSUME NEW q \in TimerTasks, q = t
               PROVE  CallKnows!(q)'
    BY <1>4, <1>5 DEF CallKnows, TimerLabels
  <2> QED BY <1>1, <1>3, <1>4, <1>6
<1>13. ScheduledKnown'
  BY <1>1, <1>6 DEF ScheduledKnown
<1>14. Generations'
  <2>1. \A q \in Contexts : Place(q)' \in DeliveryLabels =>
            Place(q) \in DeliveryLabels /\ arg'[q] = arg[q] /\ arg[q] # generation
    <3>1. \A q \in Contexts : Place(q) \in DeliveryLabels => arg[q] # generation
      BY <1>2, <1>6, DeliveringIs DEF InterruptInv, TablesAgree, Calls
    <3> QED BY <1>3, <1>4, <3>1 DEF DeliveryLabels
  <2> QED BY <1>1, <1>2, <1>6, <2>1 DEF Generations
<1>15. ExpiryTaken'
  BY <1>1, <1>2, <1>4 DEF ExpiryTaken
<1> QED BY <1>4, <1>7, <1>8, <1>9, <1>10, <1>11, <1>12, <1>13, <1>14, <1>15 DEF AlarmInv

LEMMA StoreAlarmAlarms ==
    ASSUME InterruptInv, AlarmInv, NEW t \in TimerTasks, StoreAlarm(t)
    PROVE  InterruptInv' /\ AlarmInv'
<1>1. /\ CanRun(t) /\ pc[t] = "store" /\ lock = NoContext
      /\ UNCHANGED <<tables, cpu, op, raise>>
      /\ UNCHANGED <<lock, generation, armed, initialized, handle, pendingGen, status, upper,
                     alarms, served>>
  BY DEF StoreAlarm, expiryVars
<1>2. TimerTypes /\ Calls /\ LockHeld /\ Initialization
      /\ AlarmsKnown /\ CallKnows /\ ScheduledKnown /\ Generations /\ ExpiryTaken
  BY DEF AlarmInv
<1>3. t \in Contexts /\ pc[t] \in TimerLabels \cup {"idle"}
      /\ "idle" \in TimerLabels \cup {"idle"} /\ "cancelNew" \in TimerLabels \cup {"idle"}
  BY <1>1, TimerAssumption DEF Contexts, TimerLabels
<1>4. Place(t) = "store" /\ t \in TimerTasks
  BY <1>1 DEF Place, TableLabels
<1>5. \A q \in TimerTasks : q \in Contexts /\ (q # t => Place(q) \notin TimerLabels)
  BY <1>2, <1>3, <1>4, TimerAssumption DEF Calls, Contexts, TimerLabels
<1>6. /\ scheduled = 0 /\ arg[t] = generation /\ initialized
      /\ generation \in alarms \/ Delivering(generation) \/ pendingGen = generation
  BY <1>2, <1>3, <1>4 DEF CallKnows, TimerLabels, Initialization, OpenPlaces
<1>7. CASE ~KeepAlarm(arg[t])
  <2>1. pendingGen = generation
    BY <1>6, <1>7 DEF KeepAlarm
  <2>2. scheduled' = scheduled /\ arg' = arg /\ Goto(t, "cancelNew")
    BY <1>7 DEF StoreAlarm
  <2>3. /\ InterruptInv' /\ isr' = isr /\ isr.stage = "record"
        /\ Place(t)' = "cancelNew" /\ \A q \in Contexts : q # t => Place(q)' = Place(q)
        /\ \A g : Delivering(g)' <=> Delivering(g)
    BY <1>1, <1>3, <2>2, CallMoves
  <2>4. Calls'
    <3>1. Place(t) \in TimerLabels /\ Place(t) # "idle" /\ Place(t)' \in TimerLabels
      BY <1>4, <2>3 DEF TimerLabels
    <3> QED BY <1>2, <1>3, <2>3, <3>1, CallsKept
  <2>5. LockHeld' /\ lock' \in Contexts \cup {NoContext}
    BY <1>1, <1>2, <1>3, <1>4, <2>3 DEF LockHeld, LockPlaces, TimerTypes
  <2>6. CallKnows!(t)'
    BY <1>1, <1>6, <2>1, <2>2, <2>3
  <2>7. /\ Place(t)' \notin ClosedPlaces \cup DeliveryLabels /\ Place(t)' \in CancelPlaces
        /\ Place(t) # "deinit"
    BY <1>4, <2>3 DEF ClosedPlaces, DeliveryLabels, CancelPlaces
  <2>8. UNCHANGED <<compareVars, initialized, handle, expiryVars, arg, alarms, served>>
    BY <1>1, <2>2 DEF compareVars, expiryVars
  <2> QED BY <1>3, <1>6, <2>3, <2>4, <2>5, <2>6, <2>7, <2>8, PlaceOnly
<1>8. CASE KeepAlarm(arg[t])
  <2>1. pendingGen # generation
    BY <1>6, <1>8 DEF KeepAlarm
  <2>2. scheduled' = generation /\ arg' = [arg EXCEPT ![t] = 0] /\ Goto(t, "idle")
    BY <1>6, <1>8 DEF StoreAlarm, Forget
  <2>3. \A q \in Contexts : q # t => arg'[q] = arg[q]
    BY <1>2, <2>2 DEF TimerTypes
  <2>4. /\ InterruptInv' /\ isr' = isr /\ isr.stage = "record"
        /\ Place(t)' = "idle" /\ \A q \in Contexts : q # t => Place(q)' = Place(q)
        /\ \A g : Delivering(g)' <=> Delivering(g)
    BY <1>1, <1>3, <2>2, <2>3, CallMoves
  <2>5. TimerTypes'
    <3>1. scheduled' \in Nat /\ arg' \in [Contexts -> Nat]
      BY <1>2, <2>2 DEF TimerTypes
    <3> QED BY <1>1, <1>2, <3>1 DEF TimerTypes
  <2>6. Calls'
    <3>1. Place(t) \in TimerLabels /\ Place(t) # "idle"
      BY <1>4 DEF TimerLabels
    <3> QED BY <1>2, <1>3, <2>4, <3>1, CallsKept
  <2>7. LockHeld'
    BY <1>1, <1>2, <1>3, <1>4, <2>4 DEF LockHeld, LockPlaces
  <2>8. Initialization'
    BY <1>1, <1>2, <1>3, <1>6, <2>4 DEF Initialization, ClosedPlaces, OpenPlaces
  <2>9. AlarmsKnown'
    <3>1. \A q \in TimerTasks : q # t => Place(q) \notin CancelPlaces
      BY <1>5 DEF CancelPlaces, TimerLabels
    <3>2. \A g \in alarms : g = generation
      BY <1>2, <1>6, <3>1 DEF AlarmsKnown, TimerTypes
    <3> QED BY <1>1, <2>2, <3>2 DEF AlarmsKnown
  <2>10. CallKnows'
    <3> SUFFICES ASSUME NEW q \in TimerTasks, q = t
                 PROVE  CallKnows!(q)'
      BY <1>5, <2>4 DEF CallKnows, TimerLabels
    <3> QED BY <2>4 DEF TimerLabels
  <2>11. ScheduledKnown'
    <3>1. generation \in alarms \/ Delivering(generation)
      BY <1>6, <2>1
    <3>2. Delivering(generation) => Delivering(scheduled)'
      BY <1>1, <2>2, <2>4 DEF Delivering
    <3> QED BY <1>1, <2>2, <3>1, <3>2 DEF ScheduledKnown
  <2>12. Generations'
    <3>1. \A q \in Contexts : Place(q)' \in DeliveryLabels =>
              Place(q) \in DeliveryLabels /\ arg'[q] = arg[q]
      BY <1>3, <2>3, <2>4 DEF DeliveryLabels
    <3> QED BY <1>1, <1>2, <3>1 DEF Generations
  <2>13. ExpiryTaken'
    BY <1>1, <1>2, <2>4 DEF ExpiryTaken
  <2> QED BY <2>4, <2>5, <2>6, <2>7, <2>8, <2>9, <2>10, <2>11, <2>12, <2>13 DEF AlarmInv
<1> QED BY <1>7, <1>8

-----------------------------------------------------------------------------
(* Alarms and expiries: the alarm's callback and the ISR *)

\* A step of the callback before it publishes the expiry.
LEMMA DeliveryMove ==
    ASSUME InterruptInv, NEW p \in Deliverers, CanRun(p),
           pc[p] \in {"idle", "deliver", "delivering"},
           NEW label \in {"idle", "deliver", "delivering"}, Goto(p, label),
           UNCHANGED <<tables, cpu, op, raise>>
    PROVE  /\ InterruptInv' /\ p \in Contexts /\ isr' = isr
           /\ Place(p) = pc[p] /\ Place(p)' = label
           /\ \A q \in Contexts : q # p => Place(q)' = Place(q)
<1>1. p \in Contexts
  BY TimerAssumption
<1>2. /\ pc[p] \notin TableLabels \cup RaiseLabels /\ label \notin TableLabels \cup RaiseLabels
      /\ label \in Labels /\ label \notin CriticalLabels
  BY DEF TableLabels, RaiseLabels, Labels, DeliveryLabels, CriticalLabels
<1>3. UNCHANGED <<vector, record, controller, running, isr, op, raise>>
  BY DEF tables, cpu
<1>4. op' \in [Contexts -> OpStates] /\ op'[p].then = "idle"
  BY <1>1, <1>2, <1>3 DEF InterruptInv, InterruptTypes, TablesAgree, OpShape
<1> QED BY <1>1, <1>2, <1>3, <1>4, Move DEF Goto

LEMMA ClaimAlarmAlarms ==
    ASSUME InterruptInv, AlarmInv, NEW p \in Deliverers, ClaimAlarm(p)
    PROVE  InterruptInv' /\ AlarmInv'
<1>1. /\ CanRun(p) /\ pc[p] = "idle" /\ \A q \in Deliverers : pc[q] = "idle"
      /\ Goto(p, "deliver")
      /\ UNCHANGED <<tables, cpu, op, raise>>
      /\ UNCHANGED <<lock, generation, armed, scheduled, initialized, handle, pendingGen, status,
                     upper, served>>
  BY DEF ClaimAlarm, compareVars, expiryVars
<1>2. PICK g \in alarms : alarms' = alarms \ {g} /\ arg' = [arg EXCEPT ![p] = g]
  BY DEF ClaimAlarm
<1>3. TimerTypes /\ Calls /\ LockHeld /\ Initialization
      /\ AlarmsKnown /\ CallKnows /\ ScheduledKnown /\ Generations /\ ExpiryTaken
  BY DEF AlarmInv
<1>4. /\ InterruptInv' /\ p \in Contexts /\ isr' = isr
      /\ Place(p) = "idle" /\ Place(p)' = "deliver"
      /\ \A q \in Contexts : q # p => Place(q)' = Place(q)
  BY <1>1, DeliveryMove
<1>5. arg'[p] = g /\ (\A q \in Contexts : q # p => arg'[q] = arg[q]) /\ g \in Nat /\ g >= 1
  BY <1>2, <1>3, <1>4 DEF TimerTypes
<1>6. \A q \in Contexts : Place(q) \notin DeliveryLabels
  <2>1. \A q \in Deliverers : Place(q) \notin DeliveryLabels
    BY <1>1 DEF Place, TableLabels, DeliveryLabels
  <2> QED BY <1>3, <2>1 DEF Calls
<1>7. \A q \in Contexts : Place(q)' \in DeliveryLabels <=> q = p
  BY <1>4, <1>6 DEF DeliveryLabels
<1>8. \A h : ~Delivering(h) /\ (Delivering(h)' <=> h = g)
  <2>1. \A h : ~Delivering(h)
    BY <1>6, TimerAssumption, DeliveringIs DEF InterruptInv, TablesAgree
  <2>2. pc'[p] = "deliver" /\ \A q \in Contexts : q # p => pc'[q] = pc[q]
    BY <1>1, <1>4 DEF Goto, InterruptInv, InterruptTypes
  <2>3. \A h : Delivering(h)' <=> h = g
    BY <1>1, <1>5, <2>2, TimerAssumption DEF Delivering, DeliveryLabels
  <2> QED BY <2>1, <2>3
<1>9. \A t \in TimerTasks : t \in Contexts /\ Place(t)' = (IF t = p THEN "deliver" ELSE Place(t))
                            /\ (t # p => arg'[t] = arg[t])
  BY <1>4, <1>5, TimerAssumption DEF Contexts
<1>10. TimerTypes'
  <2>1. alarms' \in SUBSET (Nat \ {0}) /\ arg' \in [Contexts -> Nat]
    BY <1>2, <1>3, <1>5 DEF TimerTypes
  <2> QED BY <1>1, <1>3, <2>1 DEF TimerTypes
<1>11. Calls'
  <2>1. Place(p)' \notin TimerLabels
    BY <1>4 DEF TimerLabels
  <2>2. \A q \in Contexts : Place(q)' \in TimerLabels => Place(q) \in TimerLabels
    BY <1>4, <2>1
  <2> QED BY <1>3, <1>7, <2>2 DEF Calls
<1>12. LockHeld'
  BY <1>1, <1>3, <1>4 DEF LockHeld, LockPlaces
<1>13. Initialization'
  BY <1>1, <1>3, <1>4 DEF Initialization, ClosedPlaces, OpenPlaces
<1>14. AlarmsKnown'
  <2>1. \A t \in TimerTasks : Place(t) \in CancelPlaces => t # p
    BY <1>4 DEF CancelPlaces
  <2> QED BY <1>1, <1>2, <1>3, <1>9, <2>1 DEF AlarmsKnown
<1>15. CallKnows'
  <2> SUFFICES ASSUME NEW t \in TimerTasks
               PROVE  CallKnows!(t)'
    BY DEF CallKnows
  <2>1. CASE t = p
    BY <1>4, <2>1 DEF TimerLabels
  <2>2. CASE t # p
    <3>1. CallKnows!(t) /\ Place(t)' = Place(t) /\ arg'[t] = arg[t]
      BY <1>3, <1>9, <2>2 DEF CallKnows
    <3> QED BY <1>1, <1>2, <1>8, <3>1
  <2> QED BY <2>1, <2>2
<1>16. ScheduledKnown'
  BY <1>1, <1>2, <1>3, <1>8, <1>9, <1>4 DEF ScheduledKnown
<1>17. Generations'
  BY <1>1, <1>2, <1>3, <1>5, <1>7 DEF Generations
<1>18. ExpiryTaken'
  BY <1>1, <1>3, <1>4 DEF ExpiryTaken
<1> QED BY <1>4, <1>10, <1>11, <1>12, <1>13, <1>14, <1>15, <1>16, <1>17, <1>18 DEF AlarmInv

LEMMA DeliverLockAlarms ==
    ASSUME InterruptInv, AlarmInv, NEW p \in Deliverers, DeliverLock(p)
    PROVE  InterruptInv' /\ AlarmInv'
<1>1. /\ CanRun(p) /\ pc[p] = "deliver" /\ lock = NoContext /\ lock' = p
      /\ Goto(p, "delivering") /\ UNCHANGED <<tables, cpu, op, raise>>
      /\ UNCHANGED <<compareVars, initialized, handle, expiryVars, arg, alarms, served>>
  BY DEF DeliverLock
<1>2. TimerTypes /\ Calls /\ LockHeld
  BY DEF AlarmInv
<1>3. /\ InterruptInv' /\ p \in Contexts /\ isr' = isr
      /\ Place(p) = "deliver" /\ Place(p)' = "delivering"
      /\ \A q \in Contexts : q # p => Place(q)' = Place(q)
  BY <1>1, DeliveryMove
<1>4. \A g : Delivering(g)' <=> Delivering(g)
  <2>1. pc'[p] = "delivering" /\ \A q \in Contexts : q # p => pc'[q] = pc[q]
    BY <1>1, <1>3 DEF Goto, InterruptInv, InterruptTypes
  <2> QED BY <1>1, <2>1, TimerAssumption DEF Delivering, DeliveryLabels
<1>5. Calls'
  <2>1. \A q \in Contexts : /\ Place(q)' \in TimerLabels <=> Place(q) \in TimerLabels
                            /\ Place(q)' \in DeliveryLabels <=> Place(q) \in DeliveryLabels
    BY <1>3 DEF TimerLabels, DeliveryLabels
  <2> QED BY <1>2, <2>1 DEF Calls
<1>6. LockHeld'
  BY <1>1, <1>2, <1>3, TimerAssumption DEF LockHeld, LockPlaces
<1>7. CallKnows!(p)'
  BY <1>3 DEF TimerLabels
<1>8. /\ Place(p) \notin CancelPlaces /\ Place(p) # "deinit" /\ Place(p) \in DeliveryLabels
      /\ Place(p)' \notin OpenPlaces \cup ClosedPlaces
  BY <1>3 DEF CancelPlaces, OpenPlaces, ClosedPlaces, DeliveryLabels
<1> QED BY <1>1, <1>3, <1>4, <1>5, <1>6, <1>7, <1>8, PlaceOnly

\* The callback ends: its alarm is no longer being delivered, its lock is released.
LEMMA DeliveryEnds ==
    ASSUME InterruptInv, AlarmInv, NEW p \in Deliverers,
           Place(p) = "delivering", pc[p] = "delivering", pc'[p] \in {"idle", "scan"}, op' = op,
           \A q \in Contexts : q # p => pc'[q] = pc[q],
           arg' = [arg EXCEPT ![p] = 0], lock' = NoContext
    PROVE  /\ Calls' /\ LockHeld' /\ arg' \in [Contexts -> Nat]
           /\ \A q \in Contexts : Place(q)' \notin DeliveryLabels
           /\ \A q \in Contexts : q # p => Place(q)' = Place(q) /\ Place(q) # "deinit"
                                           /\ arg'[q] = arg[q]
           /\ Place(p)' \in {"idle", "scan"}
           /\ \A g : Delivering(g) <=> g = arg[p]
           /\ \A g : ~Delivering(g)'
<1>1. TimerTypes /\ Calls /\ LockHeld /\ p \in Contexts
  BY TimerAssumption DEF AlarmInv
<1>2. /\ Place(p)' \in {"idle", "scan"} /\ \A q \in Contexts : q # p => Place(q)' = Place(q)
  BY <1>1 DEF Place, TableLabels
<1>3. \A q \in Contexts : Place(q)' \notin DeliveryLabels
  BY <1>1, <1>2 DEF Calls, DeliveryLabels
<1>4. Calls'
  <2>1. \A q \in Contexts : Place(q)' \in TimerLabels => Place(q) \in TimerLabels
    BY <1>2 DEF TimerLabels
  <2> QED BY <1>1, <1>3, <2>1 DEF Calls
<1>5. \A q \in Contexts : q # p => Place(q) \notin LockPlaces
  BY <1>1 DEF LockHeld, LockPlaces
<1>6. LockHeld'
  BY <1>1, <1>2, <1>5, TimerAssumption DEF LockHeld, LockPlaces
<1>7. \A g : Delivering(g) <=> g = arg[p]
  BY <1>1, TimerAssumption, DeliveringIs DEF Calls, DeliveryLabels, InterruptInv, TablesAgree
<1>8. \A g : ~Delivering(g)'
  <2>1. \A q \in Deliverers : pc'[q] \notin DeliveryLabels
    <3>1. \A q \in Deliverers : pc[q] \in DeliveryLabels => q = p
      <4>1. InterruptTypes /\ OpShape /\ \A q \in Deliverers : q \in Contexts
        BY TimerAssumption DEF InterruptInv, TablesAgree
      <4> QED BY <1>1, <4>1, PlaceIs DEF Calls, DeliveryLabels
    <3> QED BY <1>1, <3>1, TimerAssumption DEF DeliveryLabels
  <2> QED BY <2>1 DEF Delivering
<1>9. arg' \in [Contexts -> Nat] /\ \A q \in Contexts : q # p => arg'[q] = arg[q]
  BY <1>1 DEF TimerTypes
<1>10. "deinit" \in LockPlaces
  BY DEF LockPlaces
<1> QED BY <1>2, <1>3, <1>4, <1>5, <1>6, <1>7, <1>8, <1>9, <1>10

LEMMA DeliverCompareAlarms ==
    ASSUME InterruptInv, AlarmInv, NEW p \in Deliverers, DeliverCompare(p)
    PROVE  InterruptInv' /\ AlarmInv'
<1>1. /\ CanRun(p) /\ pc[p] = "delivering" /\ arg' = [arg EXCEPT ![p] = 0] /\ lock' = NoContext
      /\ UNCHANGED <<vector, record, controller, running, isr, op>>
      /\ UNCHANGED <<generation, armed, initialized, handle, upper, alarms, served>>
  BY DEF DeliverCompare, Forget, tables, cpu
<1>2. TimerTypes /\ Calls /\ LockHeld /\ Initialization
      /\ AlarmsKnown /\ CallKnows /\ ScheduledKnown /\ Generations /\ ExpiryTaken
  BY DEF AlarmInv
<1>3. p \in Contexts /\ Place(p) = "delivering" /\ InterruptTypes
  BY <1>1, TimerAssumption DEF Place, TableLabels, InterruptInv
<1>4. \A t \in TimerTasks : t \in Contexts /\ (Place(t) \in TimerLabels => t # p)
  BY <1>3, TimerAssumption DEF Contexts, TimerLabels
<1>5. arg[p] >= 1 /\ arg[p] <= generation /\ arg[p] \notin alarms /\ arg[p] # pendingGen
      /\ arg[p] \in Nat
  BY <1>2, <1>3 DEF Generations, DeliveryLabels, TimerTypes
<1>6. CASE ~(initialized /\ arg[p] = generation)
  <2>1. Goto(p, "idle") /\ scheduled' = scheduled /\ pendingGen' = pendingGen /\ status' = status
        /\ raise' = raise
    BY <1>6 DEF DeliverCompare
  <2>2. InterruptInv' /\ pc'[p] = "idle" /\ \A q \in Contexts : q # p => pc'[q] = pc[q]
    BY <1>1, <1>3, <2>1, DeliveryMove DEF Goto, InterruptTypes, tables, cpu
  <2>3. /\ Calls' /\ LockHeld' /\ arg' \in [Contexts -> Nat]
        /\ \A q \in Contexts : Place(q)' \notin DeliveryLabels
        /\ \A q \in Contexts : q # p => Place(q)' = Place(q) /\ Place(q) # "deinit"
                                        /\ arg'[q] = arg[q]
        /\ Place(p)' \in {"idle", "scan"}
        /\ \A g : Delivering(g) <=> g = arg[p]
        /\ \A g : ~Delivering(g)'
    BY <1>1, <1>3, <2>2, DeliveryEnds
  <2>4. TimerTypes'
    BY <1>1, <1>2, <2>1, <2>3 DEF TimerTypes
  <2>5. Initialization'
    BY <1>1, <1>2, <2>1, <2>3 DEF Initialization, ClosedPlaces, OpenPlaces
  <2>6. AlarmsKnown'
    <3>1. \A t \in TimerTasks : Place(t) \in CancelPlaces => t # p
      BY <1>3 DEF CancelPlaces
    <3> QED BY <1>1, <1>2, <1>4, <2>1, <2>3, <3>1 DEF AlarmsKnown
  <2>7. CallKnows'
    <3> SUFFICES ASSUME NEW t \in TimerTasks
                 PROVE  CallKnows!(t)'
      BY DEF CallKnows
    <3>1. CASE t = p
      BY <2>3, <3>1 DEF TimerLabels
    <3>2. CASE t # p
      <4>1. CallKnows!(t) /\ Place(t)' = Place(t) /\ arg'[t] = arg[t]
        BY <1>2, <1>4, <2>3, <3>2 DEF CallKnows
      <4>2. Place(t) = "store" => arg[p] # generation
        BY <1>2, <1>4, <1>6 DEF Initialization, OpenPlaces
      <4>3. Place(t) = "store" => generation \in alarms \/ pendingGen = generation
        BY <2>3, <4>1, <4>2
      <4> QED BY <1>1, <2>1, <2>3, <4>1, <4>3
    <3> QED BY <3>1, <3>2
  <2>8. ScheduledKnown'
    <3> SUFFICES ASSUME scheduled # 0
                 PROVE  scheduled \in alarms /\ scheduled = generation
      BY <1>1, <2>1 DEF ScheduledKnown
    <3>1. scheduled = generation
      BY <1>2, <1>3, <1>4, <2>3 DEF ScheduledKnown
    <3>2. scheduled # arg[p]
      BY <1>2, <1>6, <3>1 DEF Initialization
    <3> QED BY <1>2, <2>3, <3>1, <3>2 DEF ScheduledKnown
  <2>9. Generations'
    BY <1>1, <1>2, <2>1, <2>3 DEF Generations
  <2>10. ExpiryTaken'
    BY <1>1, <1>2, <2>1 DEF ExpiryTaken
  <2> QED BY <2>2, <2>3, <2>4, <2>5, <2>6, <2>7, <2>8, <2>9, <2>10 DEF AlarmInv
<1>7. CASE initialized /\ arg[p] = generation
  <2>1. BeginRaise(p, TimerSource, {}) /\ scheduled' = 0 /\ pendingGen' = generation
        /\ status' = TRUE
    BY <1>7 DEF DeliverCompare, PublishExpiry
  <2>2. InterruptInv' /\ pc'[p] = "scan" /\ \A q \in Contexts : q # p => pc'[q] = pc[q]
    <3>1. TimerSource \in Sources /\ {} \in SUBSET Filters
      BY DEF Sources
    <3>2. pc[p] \notin CriticalLabels /\ pc[p] \notin RaiseLabels
      BY <1>1 DEF CriticalLabels, RaiseLabels
    <3> QED BY <1>1, <1>3, <2>1, <3>1, <3>2, BeginRaiseStep DEF BeginRaise, Goto, InterruptTypes
  <2>3. /\ Calls' /\ LockHeld' /\ arg' \in [Contexts -> Nat]
        /\ \A q \in Contexts : Place(q)' \notin DeliveryLabels
        /\ \A q \in Contexts : q # p => Place(q)' = Place(q) /\ Place(q) # "deinit"
                                        /\ arg'[q] = arg[q]
        /\ Place(p)' \in {"idle", "scan"}
        /\ \A g : Delivering(g) <=> g = arg[p]
        /\ \A g : ~Delivering(g)'
    BY <1>1, <1>3, <2>2, DeliveryEnds
  <2>4. TimerTypes'
    <3>1. scheduled' \in Nat /\ pendingGen' \in Nat
      BY <1>2, <2>1 DEF TimerTypes
    <3>2. lock' \in Contexts \cup {NoContext} /\ status' \in BOOLEAN
      BY <1>1, <2>1
    <3> QED BY <1>1, <1>2, <2>3, <3>1, <3>2 DEF TimerTypes
  <2>5. Initialization'
    BY <1>1, <1>2, <1>7, <2>1, <2>3 DEF Initialization, ClosedPlaces, OpenPlaces
  <2>6. AlarmsKnown'
    <3>1. \A t \in TimerTasks : Place(t) \in CancelPlaces => t # p
      BY <1>3 DEF CancelPlaces
    <3>2. \A g \in alarms : g # scheduled
      <4>1. scheduled # 0 => scheduled = generation
        BY <1>2, <1>3, <1>4, <2>3 DEF ScheduledKnown
      <4> QED BY <1>2, <1>5, <1>7, <4>1 DEF TimerTypes
    <3> QED BY <1>1, <1>2, <1>4, <2>3, <3>1, <3>2 DEF AlarmsKnown
  <2>7. CallKnows'
    <3> SUFFICES ASSUME NEW t \in TimerTasks
                 PROVE  CallKnows!(t)'
      BY DEF CallKnows
    <3>1. CASE t = p
      BY <2>3, <3>1 DEF TimerLabels
    <3>2. CASE t # p
      <4>1. CallKnows!(t) /\ Place(t)' = Place(t) /\ arg'[t] = arg[t]
        BY <1>2, <1>4, <2>3, <3>2 DEF CallKnows
      <4>2. Place(t) \notin {"cancelOld", "schedule"}
        BY <1>7, <2>3, <4>1
      <4> QED BY <1>1, <2>1, <4>1, <4>2
    <3> QED BY <3>1, <3>2
  <2>8. ScheduledKnown'
    BY <2>1 DEF ScheduledKnown
  <2>9. Generations'
    BY <1>1, <1>2, <1>5, <1>7, <2>1, <2>3 DEF Generations
  <2>10. ExpiryTaken'
    BY <1>1, <1>2, <1>5, <1>7, <2>1 DEF ExpiryTaken
  <2> QED BY <2>2, <2>3, <2>4, <2>5, <2>6, <2>7, <2>8, <2>9, <2>10 DEF AlarmInv
<1> QED BY <1>6, <1>7

\* The ISR takes the expiry and calls the common handler.
LEMMA TimerInterruptAlarms ==
    ASSUME InterruptInv, AlarmInv, TimerInterrupt
    PROVE  InterruptInv' /\ AlarmInv'
<1>1. /\ isr.vector # 0 /\ isr.stage = "call" /\ status' = FALSE
      /\ UNCHANGED <<vector, record, controller, running, pc, op, raise>>
      /\ UNCHANGED <<lock, generation, armed, scheduled, initialized, handle, pendingGen, upper,
                     arg, alarms, served>>
  BY DEF TimerInterrupt, TakeStatus, tables, compareVars
<1>2. TimerTypes /\ Calls /\ LockHeld /\ Initialization
      /\ AlarmsKnown /\ CallKnows /\ ScheduledKnown /\ Generations /\ ExpiryTaken
  BY DEF AlarmInv
<1>3. InterruptInv'
  <2>1. AfterRecord \/ isr' = [isr EXCEPT !.stage = "upper"]
    BY DEF TimerInterrupt
  <2> QED BY <1>1, <2>1, HandlerStep
<1>4. isr'.stage = "upper" => status /\ pendingGen = generation /\ upper
  <2>1. AfterRecord => isr'.stage = "record"
    BY <1>1, AfterRecordUpdate DEF InterruptInv
  <2> QED BY <2>1 DEF TimerInterrupt, ExpiryIsCurrent
<1>5. /\ \A p \in Contexts : Place(p)' = Place(p)
      /\ \A t \in TimerTasks : Place(t)' = Place(t)
  BY <1>1 DEF Place
<1>6. \A g : Delivering(g)' <=> Delivering(g)
  BY <1>1 DEF Delivering
<1>7. TimerTypes'
  BY <1>1, <1>2 DEF TimerTypes
<1>8. Calls' /\ LockHeld' /\ Initialization'
  BY <1>1, <1>2, <1>5 DEF Calls, LockHeld, Initialization
<1>9. AlarmsKnown' /\ ScheduledKnown'
  BY <1>1, <1>2, <1>5, <1>6 DEF AlarmsKnown, ScheduledKnown
<1>10. CallKnows'
  BY <1>1, <1>2, <1>5, <1>6 DEF CallKnows
<1>11. Generations'
  BY <1>1, <1>2, <1>5 DEF Generations
<1>12. ExpiryTaken'
  BY <1>1, <1>2, <1>4 DEF ExpiryTaken, Initialization
<1> QED BY <1>3, <1>7, <1>8, <1>9, <1>10, <1>11, <1>12 DEF AlarmInv

LEMMA UpperHandlerAlarms ==
    ASSUME InterruptInv, AlarmInv, UpperHandler
    PROVE  InterruptInv' /\ AlarmInv'
<1>1. /\ isr.vector # 0 /\ isr.stage = "upper" /\ AfterRecord
      /\ served' = served \cup {generation}
      /\ UNCHANGED <<vector, record, controller, running, pc, op, raise>>
      /\ UNCHANGED <<lock, generation, armed, scheduled, initialized, handle, pendingGen, status,
                     upper, arg, alarms>>
  BY DEF UpperHandler, tables, compareVars, expiryVars
<1>2. TimerTypes /\ Calls /\ LockHeld /\ Initialization
      /\ AlarmsKnown /\ CallKnows /\ ScheduledKnown /\ Generations /\ ExpiryTaken
  BY DEF AlarmInv
<1>3. InterruptInv'
  BY <1>1, HandlerStep
<1>4. isr'.stage = "record"
  BY <1>1, AfterRecordUpdate DEF InterruptInv
<1>5. /\ \A p \in Contexts : Place(p)' = Place(p)
      /\ \A t \in TimerTasks : Place(t)' = Place(t)
  BY <1>1 DEF Place
<1>6. \A g : Delivering(g)' <=> Delivering(g)
  BY <1>1 DEF Delivering
<1>7. TimerTypes'
  BY <1>1, <1>2 DEF TimerTypes
<1>8. Calls' /\ LockHeld' /\ Initialization'
  BY <1>1, <1>2, <1>5 DEF Calls, LockHeld, Initialization
<1>9. AlarmsKnown' /\ ScheduledKnown'
  BY <1>1, <1>2, <1>5, <1>6 DEF AlarmsKnown, ScheduledKnown
<1>10. pendingGen = generation /\ ~status
  BY <1>1, <1>2 DEF ExpiryTaken
<1>11. CallKnows'
  <2>1. \A t \in TimerTasks : Place(t) \notin {"cancelOld", "schedule"}
    BY <1>2, <1>10 DEF CallKnows
  <2> QED BY <1>1, <1>2, <1>5, <1>6, <2>1 DEF CallKnows
<1>12. Generations'
  BY <1>1, <1>2, <1>5 DEF Generations, TimerTypes
<1>13. ExpiryTaken'
  BY <1>1, <1>4, <1>10 DEF ExpiryTaken
<1> QED BY <1>3, <1>7, <1>8, <1>9, <1>11, <1>12, <1>13 DEF AlarmInv

-----------------------------------------------------------------------------
(* The timer's record in the tables *)

\* While the backend is initialized its record is published, on, alone, and of a published
\* vector with the timer's source.
LEMMA HandleIs ==
    ASSUME InterruptInv, Calls, Initialization, OneRecord, TimerRecord, TimerPublish, initialized
    PROVE  /\ handle \in Records /\ \A r \in Records : record[r].handler = "timer" <=> r = handle
           /\ record[handle].state.published /\ record[handle].state.enabled
           /\ record[handle].filter = NoFilter
           /\ record[handle].vector \in Vectors
           /\ StillPublished(record[handle].vector, record[handle].life)
           /\ vector[record[handle].vector].source = TimerSource
<1>1. InterruptTypes /\ RecordsNameVectors /\ OpShape /\ running \in Contexts
  BY DEF InterruptInv, TablesAgree, InterruptTypes, Contexts
<1>2. \A t \in TimerTasks : Place(t) \notin OwnerPlaces /\ t \in Contexts
  <2>1. OwnerPlaces \subseteq ClosedPlaces
    BY DEF OwnerPlaces, ClosedPlaces
  <2> QED BY <2>1, TimerAssumption DEF Initialization, Contexts
<1>3. handle \in Records /\ \A r \in Records : record[r].handler = "timer" <=> r = handle
  BY <1>2 DEF OneRecord, OwnsRecord
<1>4. /\ record[handle].state.published /\ record[handle].state.enabled
      /\ record[handle].filter = NoFilter /\ vector[record[handle].vector].source = TimerSource
  BY <1>1, <1>3 DEF RecordsNameVectors, TimerRecord
<1>5. ~Working("publish", record[handle].vector)
  <2> SUFFICES ASSUME Working("publish", record[handle].vector)
               PROVE  FALSE
    OBVIOUS
  <2>1. pc[running] = "publish" /\ op[running].then = "initEnable"
    BY <1>4 DEF Working, TimerPublish
  <2>2. Place(running) = "initEnable"
    BY <2>1 DEF Place, TableLabels
  <2> QED BY <1>1, <2>2 DEF Initialization, ClosedPlaces
<1> QED BY <1>1, <1>3, <1>4, <1>5 DEF RecordsNameVectors

\* The vector of the timer's record is neither free nor retired.
LEMMA TimerVector ==
    ASSUME InterruptInv, NEW r \in Records, record[r].handler = "timer"
    PROVE  /\ record[r].state.published /\ record[r].vector \in Vectors
           /\ InUse(record[r].vector) /\ ~Working("unregister", record[r].vector)
<1>1. /\ record[r].state.published /\ record[r].vector \in Vectors
      /\ vector[record[r].vector].published \/ Working("publish", record[r].vector)
  BY DEF InterruptInv, TablesAgree, RecordsNameVectors, StillPublished
<1>2. ~(Working("unregister", record[r].vector) /\ vector[record[r].vector].published)
  BY DEF InterruptInv, TablesAgree, UnregisterShape, Working
<1>3. ~(Working("unregister", record[r].vector) /\ Working("publish", record[r].vector))
  BY DEF Working
<1> QED BY <1>1, <1>2, <1>3 DEF InUse

\* A task begins an operation on the tables.
LEMMA TableCall ==
    ASSUME InterruptInv, NEW p, Callable(p), NEW label \in TableLabels, NEW r, NEW v, NEW life,
           NEW then, pc' = [pc EXCEPT ![p] = label],
           op' = [op EXCEPT ![p] = [record |-> r, vector |-> v, life |-> life, then |-> then]]
    PROVE  /\ p \in Contexts /\ p = running /\ Place(p) = pc[p] /\ Place(p)' = then
           /\ pc'[p] = label /\ op'[p].record = r /\ op'[p].vector = v /\ op'[p].then = then
           /\ \A q \in Contexts : q # p => Place(q)' = Place(q) /\ pc'[q] = pc[q] /\ op'[q] = op[q]
<1>1. InterruptTypes /\ p \in Contexts /\ p = running /\ pc[p] \notin TableLabels
  BY CallerRuns DEF InterruptInv
<1>2. /\ pc'[p] = label /\ op'[p].record = r /\ op'[p].vector = v /\ op'[p].then = then
      /\ \A q \in Contexts : q # p => pc'[q] = pc[q] /\ op'[q] = op[q]
  BY <1>1 DEF InterruptTypes
<1> QED BY <1>1, <1>2 DEF Place

\* An allocation publishes one record, that of the request, in a vector of its source.
LEMMA AllocateEffect ==
    ASSUME InterruptInv, NEW p, Callable(p), NEW a \in Requests, NEW then \in Continuations,
           AllocateInterrupt(p, a, then)
    PROVE  \E r \in Records :
              /\ record[r].handler = "none" /\ op'[p].record = r
              /\ record'[r].handler = a.handler /\ record'[r].filter = a.filter
              /\ vector'[record'[r].vector].source = a.source
              /\ \A q \in Records : q # r => record'[q] = record[q]
              /\ \A q \in Records : record[q].handler = "timer" =>
                    vector'[record[q].vector] = vector[record[q].vector]
              /\ p \in Contexts /\ p = running /\ Place(p) = pc[p] /\ Place(p)' = then
              /\ vector'[op'[p].vector].source = a.source /\ op'[p].then = then
              /\ \A q \in Contexts : q # p => Place(q)' = Place(q) /\ pc'[q] = pc[q]
                                              /\ op'[q] = op[q]
              /\ UNCHANGED <<running, isr, raise>>
<1>1. PICK r \in Records :
         /\ IsFirst(r, FreeRecords)
         /\ \E v \in Vectors :
               \/ JoinVector(p, a, r, v, then)
               \/ \E s \in Slots : NewVector(p, a, r, v, s, then)
  BY DEF AllocateInterrupt
<1>2. r \in FreeRecords /\ InterruptTypes
  BY <1>1 DEF IsFirst, InterruptInv
<1>3. record[r].handler = "none"
  BY <1>1, <1>2 DEF FreeRecords, InterruptInv, TablesAgree, RecordsNameVectors
<1>4. CASE \E v \in Vectors : JoinVector(p, a, r, v, then)
  <2>1. PICK v \in Vectors : JoinVector(p, a, r, v, then)
    BY <1>4
  <2>2. /\ PublishRecord(r, v, vector[v].epoch, a) /\ vector[v].source = a.source
        /\ pc' = [pc EXCEPT ![p] = "enablement"]
        /\ op' = [op EXCEPT ![p] = [record |-> r, vector |-> v, life |-> vector[v].epoch,
                                    then |-> then]]
        /\ UNCHANGED <<vector, running, isr, raise>>
    BY <2>1 DEF JoinVector, IsFirst, SourceVectors, Goto, cpu
  <2>3. vector[v].epoch \in 0..MaxVectorEpoch
    BY <1>2, <2>1 DEF InterruptTypes, VectorStates
  <2>4. /\ \A q \in Records : q # r => record'[q] = record[q]
        /\ record'[r].vector = v /\ record'[r].filter = a.filter /\ record'[r].handler = a.handler
    BY <1>2, <2>1, <2>2, <2>3, PublishRecordUpdate
  <2>5. "enablement" \in TableLabels
    BY DEF TableLabels
  <2>6. /\ p \in Contexts /\ p = running /\ Place(p) = pc[p] /\ Place(p)' = then
        /\ op'[p].record = r /\ op'[p].vector = v /\ op'[p].then = then
        /\ \A q \in Contexts : q # p => Place(q)' = Place(q) /\ pc'[q] = pc[q] /\ op'[q] = op[q]
    BY <2>2, <2>5, TableCall
  <2> QED BY <1>1, <1>3, <2>2, <2>4, <2>6
<1>5. CASE \E v \in Vectors : \E s \in Slots : NewVector(p, a, r, v, s, then)
  <2>1. PICK v \in Vectors : \E s \in Slots : NewVector(p, a, r, v, s, then)
    BY <1>5
  <2>2. PICK s \in Slots : NewVector(p, a, r, v, s, then)
    BY <2>1
  <2>3. /\ PublishRecord(r, v, vector[v].epoch + 1, a)
        /\ pc' = [pc EXCEPT ![p] = "publish"]
        /\ op' = [op EXCEPT ![p] = [record |-> r, vector |-> v, life |-> vector[v].epoch + 1,
                                    then |-> then]]
        /\ UNCHANGED <<running, isr, raise>>
    BY <2>2 DEF NewVector, Goto, cpu
  <2>4. ~vector[v].published /\ vector[v].epoch + 1 \in 0..MaxVectorEpoch
    BY <1>2, <2>1, <2>2, CapacityAssumption
       DEF NewVector, IsFirst, FreeVectors, HasNextEpoch, InterruptTypes, VectorStates
  <2>5. /\ \A q \in Records : q # r => record'[q] = record[q]
        /\ record'[r].vector = v /\ record'[r].filter = a.filter /\ record'[r].handler = a.handler
    BY <1>2, <2>1, <2>3, <2>4, PublishRecordUpdate
  <2>6. "publish" \in TableLabels
    BY DEF TableLabels
  <2>7. /\ p \in Contexts /\ p = running /\ Place(p) = pc[p] /\ Place(p)' = then
        /\ op'[p].record = r /\ op'[p].vector = v /\ op'[p].then = then
        /\ \A q \in Contexts : q # p => Place(q)' = Place(q) /\ pc'[q] = pc[q] /\ op'[q] = op[q]
    BY <2>3, <2>6, TableCall
  <2>8. vector'[v].source = a.source /\ \A w \in Vectors : w # v => vector'[w] = vector[w]
    <3> DEFINE g == controller[s].generation + 1
    <3>1. vector' = [vector EXCEPT ![v] =
              [epoch |-> vector[v].epoch, published |-> vector[v].published,
               source |-> a.source, slot |-> s, generation |-> g, shared |-> a.shared]]
      BY <1>2, <2>1, <2>2, NewVectorUpdate
    <3> HIDE DEF g
    <3> QED BY <1>2, <2>1, <3>1 DEF InterruptTypes
  <2>9. \A q \in Records : record[q].handler = "timer" =>
            vector'[record[q].vector] = vector[record[q].vector]
    <3>1. ~InUse(v)
      BY <1>2, <2>1, <2>4, CallerRuns DEF InterruptInv
    <3> QED BY <2>8, <3>1, TimerVector
  <2> QED BY <1>1, <1>3, <2>3, <2>5, <2>7, <2>8, <2>9
<1> QED BY <1>1, <1>4, <1>5

LEMMA SetRecordEnabledEffect ==
    ASSUME InterruptInv, NEW p, Callable(p), NEW r \in Records, NEW b \in BOOLEAN, NEW then,
           SetRecordEnabled(p, r, b, then)
    PROVE  /\ \A q \in Records : q # r => record'[q] = record[q]
           /\ record'[r].vector = record[r].vector /\ record'[r].life = record[r].life
           /\ record'[r].filter = record[r].filter /\ record'[r].handler = record[r].handler
           /\ record'[r].state.enabled = b
           /\ p \in Contexts /\ p = running /\ Place(p) = pc[p] /\ Place(p)' = then
           /\ op'[p].record = r /\ pc'[p] = "enablement"
           /\ \A q \in Contexts : q # p => Place(q)' = Place(q) /\ pc'[q] = pc[q] /\ op'[q] = op[q]
           /\ UNCHANGED <<vector, running, isr, raise>>
<1>1. /\ record' = [record EXCEPT ![r].state.enabled = b]
      /\ op' = [op EXCEPT ![p] = [record |-> r, vector |-> record[r].vector,
                                  life |-> record[r].life, then |-> then]]
      /\ pc' = [pc EXCEPT ![p] = "enablement"] /\ UNCHANGED <<vector, running, isr, raise>>
  BY DEF SetRecordEnabled, Goto, cpu
<1>2. /\ \A q \in Records : q # r => record'[q] = record[q]
      /\ record'[r].vector = record[r].vector /\ record'[r].life = record[r].life
      /\ record'[r].filter = record[r].filter /\ record'[r].handler = record[r].handler
      /\ record'[r].state.enabled = b
  <2>1. record \in [Records -> RecordStates]
    BY DEF InterruptInv, InterruptTypes
  <2> QED BY <1>1, <2>1, EnabledUpdate
<1>3. "enablement" \in TableLabels
  BY DEF TableLabels
<1>4. /\ p \in Contexts /\ p = running /\ Place(p) = pc[p] /\ Place(p)' = then
      /\ pc'[p] = "enablement" /\ op'[p].record = r
      /\ \A q \in Contexts : q # p => Place(q)' = Place(q) /\ pc'[q] = pc[q] /\ op'[q] = op[q]
  BY <1>1, <1>3, TableCall
<1> QED BY <1>1, <1>2, <1>4

LEMMA FreeEffect ==
    ASSUME InterruptInv, NEW p, Callable(p), NEW r \in Records, NEW then,
           esp_intr_free(p, r, then)
    PROVE  /\ \A q \in Records : q # r => record'[q] = record[q]
           /\ record'[r].handler = "none"
           /\ p \in Contexts /\ p = running /\ Place(p) = pc[p] /\ Place(p)' = then
           /\ op'[p].record = r /\ pc'[p] # "publish"
           /\ \A q \in Contexts : q # p => Place(q)' = Place(q) /\ pc'[q] = pc[q] /\ op'[q] = op[q]
           /\ UNCHANGED <<vector, running, isr, raise>>
<1>1. /\ record' = [record EXCEPT ![r] = FreeRecord(record[r].state.epoch)]
      /\ op' = [op EXCEPT ![p] = [record |-> r, vector |-> record[r].vector,
                                  life |-> record[r].life, then |-> then]]
      /\ pc' = [pc EXCEPT ![p] = AfterUnpublish(r, then)]
      /\ UNCHANGED <<vector, running, isr, raise>>
  BY DEF esp_intr_free, Goto, cpu
<1>2. record'[r].handler = "none" /\ \A q \in Records : q # r => record'[q] = record[q]
  BY <1>1 DEF FreeRecord, InterruptInv, InterruptTypes
<1>3. AfterUnpublish(r, then) \in TableLabels \ {"publish"}
  BY DEF AfterUnpublish, TableLabels
<1>4. /\ p \in Contexts /\ p = running /\ Place(p) = pc[p] /\ Place(p)' = then
      /\ pc'[p] = AfterUnpublish(r, then) /\ op'[p].record = r
      /\ \A q \in Contexts : q # p => Place(q)' = Place(q) /\ pc'[q] = pc[q] /\ op'[q] = op[q]
  <2>1. PICK l \in TableLabels : l = AfterUnpublish(r, then)
    BY <1>3
  <2>2. /\ pc' = [pc EXCEPT ![p] = l]
        /\ op' = [op EXCEPT ![p] = [record |-> r, vector |-> record[r].vector,
                                    life |-> record[r].life, then |-> then]]
    BY <1>1, <2>1
  <2>3. /\ p \in Contexts /\ p = running /\ Place(p) = pc[p] /\ Place(p)' = then
        /\ pc'[p] = l /\ op'[p].record = r
        /\ \A q \in Contexts : q # p => Place(q)' = Place(q) /\ pc'[q] = pc[q] /\ op'[q] = op[q]
    BY <2>1, <2>2, TableCall
  <2> QED BY <2>1, <2>3
<1> QED BY <1>1, <1>2, <1>3, <1>4

-----------------------------------------------------------------------------
(* The steps of the interrupt tables, of drivers and of the dispatch *)

NotBackend == {"idle"} \cup RaiseLabels

\* Contexts stay in their calls, and calls keep their records.
PlacesKept ==
    \A p \in Contexts : Place(p)' = Place(p)
                        \/ (Place(p) \in NotBackend /\ Place(p)' \in NotBackend)
OwnersKept == \A p \in Contexts : Place(p) \in OwnerPlaces => op'[p].record = op[p].record

\* The timer's record is the one it was, and its vector has the source it had.
TimerRecordKept ==
    \A r \in Records :
        /\ record'[r].handler = "timer" <=> record[r].handler = "timer"
        /\ record[r].handler = "timer" =>
              /\ record'[r].vector = record[r].vector /\ record'[r].life = record[r].life
              /\ record'[r].filter = record[r].filter
              /\ record'[r].state.enabled = record[r].state.enabled
              /\ vector'[record[r].vector].source = vector[record[r].vector].source

MarkKept ==
    \A r \in Records : record[r].handler = "timer" /\ record[r].state.matched =>
        record'[r].state.matched

Kept ==
    /\ PlacesKept /\ OwnersKept /\ TimerRecordKept /\ TimerPublish'
    /\ isr'.stage = "upper" <=> isr.stage = "upper"
    /\ initialized /\ Asserted => Asserted'

\* What the tables hold for the timer and how far its calls are.
TimerInv == Calls /\ Initialization /\ OneRecord /\ TimerRecord /\ TimerPublish

\* An asserted expiry stays asserted while no thread passes the record over, no mark is
\* taken and the dispatch does not leave the record.
LEMMA AssertedKept ==
    ASSUME InterruptInv, TimerInv, initialized, TimerRecordKept, Asserted,
           UNCHANGED <<generation, handle, pendingGen, status>>,
           MarkKept \/ (isr'.vector # 0 /\ isr'.stage = "call" /\ isr'.next = handle),
           \A p \in Deliverers :
              \/ StillToMark(p) => StillToMark(p)' \/ record'[handle].state.matched
              \/ pc'[p] = pc[p] /\ raise'[p] = raise[p]
              \/ pc[p] \notin RaiseLabels,
           isr' = isr \/ isr.stage # "call" \/ record[isr.next].handler # "timer"
    PROVE  Asserted'
<1>1. handle \in Records /\ record[handle].handler = "timer" /\ handle' = handle
  BY HandleIs DEF TimerInv
<1>2. record'[handle].vector = record[handle].vector /\ record'[handle].life = record[handle].life
  BY <1>1 DEF TimerRecordKept
<1>3. CASE record[handle].state.matched
  BY <1>1, <1>3 DEF Asserted, MarkKept
<1>4. CASE \E p \in Deliverers : StillToMark(p)
  <2>1. PICK p \in Deliverers : StillToMark(p)
    BY <1>4
  <2>2. pc[p] \in RaiseLabels
    BY <2>1 DEF StillToMark, RaiseLabels
  <2>3. pc'[p] = pc[p] /\ raise'[p] = raise[p] => StillToMark(p)'
    BY <1>1, <1>2, <2>1 DEF StillToMark
  <2>4. StillToMark(p)' \/ record'[handle].state.matched
    BY <2>1, <2>2, <2>3
  <2> QED BY <1>1, <2>4 DEF Asserted
<1>5. CASE isr.vector # 0 /\ isr.stage = "call" /\ isr.next = handle
  BY <1>1, <1>5 DEF Asserted
<1> QED BY <1>3, <1>4, <1>5 DEF Asserted

\* A step of a task on the tables.
LEMMA TaskKept ==
    ASSUME InterruptInv, TimerInv, UNCHANGED timerVars, NEW p \in Contexts,
           PlacesKept, OwnersKept, TimerRecordKept, TimerPublish', MarkKept,
           isr' = isr, raise' = raise, pc[p] \notin RaiseLabels,
           \A q \in Contexts : q # p => pc'[q] = pc[q]
    PROVE  Kept
<1>1. UNCHANGED <<generation, handle, pendingGen, status>>
  BY DEF timerVars, compareVars, expiryVars
<1>2. \A q \in Deliverers : (pc'[q] = pc[q] /\ raise'[q] = raise[q]) \/ pc[q] \notin RaiseLabels
  BY TimerAssumption
<1> QED BY <1>1, <1>2, AssertedKept DEF Kept

LEMMA DriverCallKept ==
    ASSUME InterruptInv, TimerInv, UNCHANGED timerVars, NEW p \in DriverTasks, DriverCall(p)
    PROVE  Kept
<1>1. Callable(p) /\ pc[p] = "idle"
  BY ContextsAssumption DEF DriverCall, Callable, RaiseLabels, Masked, CriticalLabels
<1>2. "idle" \in Continuations /\ pc[p] \notin RaiseLabels /\ "idle" \notin OwnerPlaces
      /\ "idle" \in NotBackend
  BY <1>1 DEF Continuations, RaiseLabels, OwnerPlaces, NotBackend
<1>3. CASE \E a \in DriverRequests : AllocateInterrupt(p, a, "idle")
  <2>1. PICK a \in DriverRequests : AllocateInterrupt(p, a, "idle")
    BY <1>3
  <2>2. a \in Requests /\ a.handler = "driver" /\ a.source # TimerSource
    BY <2>1, ContextsAssumption, RequestTypes, TimerAssumption
  <2>3. PICK r \in Records :
              /\ record[r].handler = "none" /\ op'[p].record = r
              /\ record'[r].handler = a.handler /\ record'[r].filter = a.filter
              /\ vector'[record'[r].vector].source = a.source
              /\ \A q \in Records : q # r => record'[q] = record[q]
              /\ \A q \in Records : record[q].handler = "timer" =>
                    vector'[record[q].vector] = vector[record[q].vector]
              /\ p \in Contexts /\ p = running /\ Place(p) = pc[p] /\ Place(p)' = "idle"
              /\ vector'[op'[p].vector].source = a.source /\ op'[p].then = "idle"
              /\ \A q \in Contexts : q # p => Place(q)' = Place(q) /\ pc'[q] = pc[q]
                                              /\ op'[q] = op[q]
              /\ UNCHANGED <<running, isr, raise>>
    BY <1>1, <1>2, <2>1, <2>2, AllocateEffect
  <2>4. PlacesKept /\ OwnersKept
    BY <1>1, <1>2, <2>3 DEF PlacesKept, OwnersKept
  <2>5. TimerRecordKept /\ MarkKept
    BY <2>2, <2>3 DEF TimerRecordKept, MarkKept
  <2>6. TimerPublish'
    BY <2>2, <2>3 DEF TimerPublish
  <2> QED BY <1>2, <2>3, <2>4, <2>5, <2>6, TaskKept
<1>4. CASE \E r \in Records : record[r].handler = "driver" /\ esp_intr_free(p, r, "idle")
  <2>1. PICK r \in Records : record[r].handler = "driver" /\ esp_intr_free(p, r, "idle")
    BY <1>4
  <2>2. /\ \A q \in Records : q # r => record'[q] = record[q]
        /\ record'[r].handler = "none"
        /\ p \in Contexts /\ p = running /\ Place(p) = pc[p] /\ Place(p)' = "idle"
        /\ op'[p].record = r /\ pc'[p] # "publish"
        /\ \A q \in Contexts : q # p => Place(q)' = Place(q) /\ pc'[q] = pc[q] /\ op'[q] = op[q]
        /\ UNCHANGED <<vector, running, isr, raise>>
    BY <1>1, <2>1, FreeEffect
  <2>3. PlacesKept /\ OwnersKept
    BY <1>1, <1>2, <2>2 DEF PlacesKept, OwnersKept
  <2>4. TimerRecordKept /\ MarkKept
    BY <2>1, <2>2 DEF TimerRecordKept, MarkKept
  <2>5. TimerPublish'
    BY <2>2 DEF TimerPublish
  <2> QED BY <1>2, <2>2, <2>3, <2>4, <2>5, TaskKept
<1>5. CASE \E r \in Records : record[r].handler = "driver"
                              /\ \E b \in BOOLEAN : SetRecordEnabled(p, r, b, "idle")
  <2>1. PICK r \in Records : record[r].handler = "driver"
                              /\ \E b \in BOOLEAN : SetRecordEnabled(p, r, b, "idle")
    BY <1>5
  <2>2. PICK b \in BOOLEAN : SetRecordEnabled(p, r, b, "idle")
    BY <2>1
  <2>3. /\ \A q \in Records : q # r => record'[q] = record[q]
        /\ record'[r].handler = record[r].handler
        /\ p \in Contexts /\ p = running /\ Place(p) = pc[p] /\ Place(p)' = "idle"
        /\ op'[p].record = r /\ pc'[p] = "enablement"
        /\ \A q \in Contexts : q # p => Place(q)' = Place(q) /\ pc'[q] = pc[q] /\ op'[q] = op[q]
        /\ UNCHANGED <<vector, running, isr, raise>>
    BY <1>1, <2>1, <2>2, SetRecordEnabledEffect
  <2>4. PlacesKept /\ OwnersKept
    BY <1>1, <1>2, <2>3 DEF PlacesKept, OwnersKept
  <2>5. TimerRecordKept /\ MarkKept
    BY <2>1, <2>3 DEF TimerRecordKept, MarkKept
  <2>6. TimerPublish'
    BY <2>3 DEF TimerPublish
  <2> QED BY <1>2, <2>3, <2>4, <2>5, <2>6, TaskKept
<1> QED BY <1>3, <1>4, <1>5 DEF DriverCall

\* The next step of an operation on the tables.
LEMMA TableStepPlaces ==
    ASSUME InterruptInv, NEW p \in Contexts, pc[p] \in TableLabels,
           \/ Return(p)
           \/ op' = op /\ \E label \in TableLabels : pc' = [pc EXCEPT ![p] = label]
    PROVE  /\ PlacesKept /\ OwnersKept /\ p = running /\ pc[p] \notin RaiseLabels
           /\ \A q \in Contexts : q # p => pc'[q] = pc[q]
           /\ Return(p) => pc'[p] \notin TableLabels
<1>1. InterruptTypes /\ p = running /\ op[p].then \in Continuations
  BY WorkerRuns DEF InterruptInv
<1>2. op[p].then \notin TableLabels /\ pc[p] \notin RaiseLabels /\ "idle" \notin OwnerPlaces
  BY <1>1, ContinuationsAreLabels DEF RaiseLabels, TableLabels, OwnerPlaces
<1>3. Place(p) = op[p].then
  BY DEF Place
<1>4. CASE Return(p)
  <2>1. /\ pc' = [pc EXCEPT ![p] = op[p].then]
        /\ op' = [op EXCEPT ![p] = [NoOp EXCEPT !.record = IF op[p].then = "idle" THEN 0
                                                           ELSE op[p].record]]
    BY <1>4 DEF Return, Goto
  <2>2. pc'[p] = op[p].then /\ \A q \in Contexts : q # p => pc'[q] = pc[q] /\ op'[q] = op[q]
    BY <1>1, <2>1 DEF InterruptTypes
  <2>3. op[p].then # "idle" => op'[p].record = op[p].record
    BY <1>1, <2>1 DEF InterruptTypes, NoOp
  <2>4. Place(p)' = op[p].then /\ \A q \in Contexts : q # p => Place(q)' = Place(q)
    BY <1>2, <2>2 DEF Place
  <2> QED BY <1>1, <1>2, <1>3, <2>2, <2>3, <2>4 DEF PlacesKept, OwnersKept
<1>5. CASE op' = op /\ \E label \in TableLabels : pc' = [pc EXCEPT ![p] = label]
  <2>1. PICK label \in TableLabels : pc' = [pc EXCEPT ![p] = label]
    BY <1>5
  <2>2. pc'[p] = label /\ \A q \in Contexts : q # p => pc'[q] = pc[q]
    BY <1>1, <2>1 DEF InterruptTypes
  <2>3. \A q \in Contexts : Place(q)' = Place(q)
    BY <1>5, <2>1, <2>2 DEF Place
  <2>4. ~Return(p) \/ pc'[p] \notin TableLabels
    BY <1>2, <1>1 DEF Return, Goto, InterruptTypes
  <2> QED BY <1>1, <1>2, <1>5, <2>2, <2>3, <2>4 DEF PlacesKept, OwnersKept
<1> QED BY <1>4, <1>5

LEMMA TableStepKept ==
    ASSUME InterruptInv, TimerInv, UNCHANGED timerVars, NEW p \in Contexts,
           Publish(p) \/ UpdateVectorEnablement(p) \/ Retire(p) \/ Unregister(p)
    PROVE  Kept
<1>1. /\ pc[p] \in TableLabels /\ record' = record /\ isr' = isr /\ raise' = raise
      /\ running' = running
  BY DEF Publish, UpdateVectorEnablement, Retire, Unregister, TableLabels, cpu
<1>2. /\ PlacesKept /\ OwnersKept /\ p = running /\ pc[p] \notin RaiseLabels
      /\ \A q \in Contexts : q # p => pc'[q] = pc[q]
      /\ pc'[running] # "publish"
  <2>1. CASE UpdateVectorEnablement(p) \/ Unregister(p)
    <3>1. Return(p)
      BY <2>1 DEF UpdateVectorEnablement, Unregister
    <3> QED BY <1>1, <3>1, TableStepPlaces DEF TableLabels
  <2>2. CASE Publish(p) \/ Retire(p)
    <3>1. op' = op /\ \E label \in {"enablement", "unregister"} : pc' = [pc EXCEPT ![p] = label]
      BY <2>2 DEF Publish, Retire, Goto
    <3>2. \E label \in TableLabels : pc' = [pc EXCEPT ![p] = label]
      BY <3>1 DEF TableLabels
    <3>3. /\ PlacesKept /\ OwnersKept /\ p = running /\ pc[p] \notin RaiseLabels
          /\ \A q \in Contexts : q # p => pc'[q] = pc[q]
      BY <1>1, <3>1, <3>2, TableStepPlaces
    <3>4. pc'[p] # "publish"
      BY <3>1 DEF InterruptInv, InterruptTypes
    <3> QED BY <3>3, <3>4
  <2> QED BY <2>1, <2>2
<1>3. TimerPublish'
  BY <1>1, <1>2 DEF TimerPublish
<1>4. \A r \in Records : record[r].handler = "timer" =>
          vector'[record[r].vector].source = vector[record[r].vector].source
  <2>1. vector \in [Vectors -> VectorStates]
    BY DEF InterruptInv, InterruptTypes
  <2>2. CASE UpdateVectorEnablement(p)
    BY <2>2 DEF UpdateVectorEnablement
  <2>3. CASE Retire(p)
    <3>1. vector' = [vector EXCEPT ![op[p].vector].published = FALSE]
      BY <2>3 DEF Retire
    <3>2. \A v \in Vectors : vector'[v].source = vector[v].source
      BY <2>1, <3>1 DEF VectorStates
    <3> QED BY <3>2, TimerVector
  <2>4. CASE Publish(p)
    <3>1. op[p].vector \in Vectors
      BY <1>2, <2>4 DEF InterruptInv, TablesAgree, PublishShape, Publish
    <3>2. vector' = [vector EXCEPT ![op[p].vector].published = TRUE,
                                   ![op[p].vector].epoch = op[p].life]
      BY <2>4 DEF Publish
    <3>3. \A v \in Vectors : vector'[v].source = vector[v].source
      BY <2>1, <3>1, <3>2 DEF VectorStates
    <3> QED BY <3>3, TimerVector
  <2>5. CASE Unregister(p)
    <3>1. vector' = [vector EXCEPT ![op[p].vector] = FreeVector(op[p].life)]
      BY <2>5 DEF Unregister
    <3>2. Working("unregister", op[p].vector)
      BY <1>2, <2>5 DEF Working, Unregister
    <3> QED BY <2>1, <3>1, <3>2, TimerVector
  <2> QED BY <2>2, <2>3, <2>4, <2>5
<1>5. TimerRecordKept /\ MarkKept
  BY <1>1, <1>4 DEF TimerRecordKept, MarkKept
<1> QED BY <1>1, <1>2, <1>3, <1>5, TaskKept

\* A step of a raising thread concerns the thread, and sets marks.
LEMMA RaiseEffect ==
    ASSUME InterruptInv, NEW p \in Contexts, RaiseStep(p)
    PROVE  /\ pc[p] \in RaiseLabels /\ pc'[p] \in NotBackend
           /\ UNCHANGED <<vector, running, isr, op>>
           /\ \A q \in Contexts : q # p => pc'[q] = pc[q] /\ raise'[q] = raise[q]
           /\ SameRecords
           /\ \A r \in Records : record[r].state.matched => record'[r].state.matched
<1>1. /\ pc[p] \in RaiseLabels /\ InterruptTypes
      /\ UNCHANGED <<vector, running, isr, op>>
  BY DEF RaiseStep, ScanPublication, ScanSource, MarkLoad, MarkSwap, HandleCheck, HandleRead,
         setInterruptPending, RaiseLabels, InterruptInv, tables, cpu
<1>2. /\ \E label \in NotBackend : pc' = [pc EXCEPT ![p] = label]
      /\ \A q \in Contexts : q # p => raise'[q] = raise[q]
  BY <1>1 DEF RaiseStep, ScanPublication, ScanSource, MarkLoad, MarkSwap, HandleCheck, HandleRead,
              setInterruptPending, NextVector, NextRecord, EndRaise, Goto, NotBackend, RaiseLabels,
              InterruptTypes
<1>3. pc'[p] \in NotBackend /\ \A q \in Contexts : q # p => pc'[q] = pc[q]
  BY <1>1, <1>2 DEF InterruptTypes
<1>4. SameRecords /\ \A r \in Records : record[r].state.matched => record'[r].state.matched
  <2>1. CASE record' = record
    BY <2>1 DEF SameRecords
  <2>2. CASE record' # record
    <3>1. MarkSwap(p)
      BY <2>2 DEF RaiseStep, ScanPublication, ScanSource, MarkLoad, HandleCheck, HandleRead,
                  setInterruptPending, tables
    <3>2. record' = [record EXCEPT ![raise[p].record].state.matched = TRUE] /\ pc[p] = "swap"
      BY <2>2, <3>1 DEF MarkSwap
    <3>3. PICK b \in BOOLEAN : b = TRUE
      OBVIOUS
    <3>4. PICK r \in Records : r = raise[p].record
      BY <3>2 DEF InterruptInv, RaiseShape
    <3>5. record' = [record EXCEPT ![r].state.matched = b]
      BY <3>2, <3>3, <3>4
    <3>6. record \in [Records -> RecordStates]
      BY <1>1 DEF InterruptTypes
    <3>7. \A q \in Records :
             /\ record'[q].vector = record[q].vector /\ record'[q].life = record[q].life
             /\ record'[q].filter = record[q].filter /\ record'[q].handler = record[q].handler
             /\ record'[q].state.published = record[q].state.published
             /\ record'[q].state.enabled = record[q].state.enabled
             /\ record'[q].state.matched = IF q = r THEN b ELSE record[q].state.matched
      BY <3>4, <3>5, <3>6, MatchedUpdate
    <3> QED BY <3>3, <3>7 DEF SameRecords
  <2> QED BY <2>1, <2>2
<1> QED BY <1>1, <1>2, <1>3, <1>4

\* A thread raising the timer source does not pass the timer's record over.
LEMMA ScanProgress ==
    ASSUME InterruptInv, TimerInv, initialized, handle' = handle, NEW p \in Contexts,
           ScanPublication(p) \/ ScanSource(p), StillToMark(p)
    PROVE  StillToMark(p)'
<1> DEFINE v == record[handle].vector
           w == raise[p].vector
<1>1. /\ InterruptTypes /\ record' = record /\ vector' = vector
      /\ raise[p].source = TimerSource /\ w \in Nat
  BY DEF ScanPublication, ScanSource, StillToMark, InterruptInv, InterruptTypes, RaiseStates, tables
<1>2. /\ handle \in Records /\ v \in Vectors /\ StillPublished(v, record[handle].life)
      /\ vector[v].source = TimerSource
  BY HandleIs DEF TimerInv
<1>3. handle >= 1 /\ v \in Nat /\ v <= NumVectors /\ NumVectors \in Nat
  BY <1>2, CapacityAssumption DEF Records, Vectors
<1>4. CASE NextVector(p) /\ w < v
  <2>1. /\ raise'[p].source = TimerSource /\ raise'[p].vector = w + 1
    BY <1>1, <1>4, NextVectorUpdate DEF NextVector
  <2>2. pc'[p] = "scan"
    BY <1>1, <1>4 DEF NextVector, Goto, InterruptTypes
  <2>3. w + 1 <= v
    BY <1>1, <1>3, <1>4
  <2> QED BY <1>1, <2>1, <2>2, <2>3 DEF StillToMark
<1>5. CASE ScanPublication(p)
  <2>1. w <= v /\ pc[p] = "scan"
    BY <1>5 DEF StillToMark, ScanPublication
  <2>2. w \in Vectors
    BY <1>1, <1>3, <2>1 DEF InterruptInv, RaiseShape, Vectors
  <2>3. CASE ~vector[w].published
    <3>1. w # v
      BY <1>2, <2>3 DEF StillPublished
    <3>2. w < v
      BY <1>1, <1>3, <2>1, <3>1
    <3>3. NextVector(p)
      BY <1>1, <1>3, <1>5, <2>1, <2>3 DEF ScanPublication
    <3> QED BY <1>4, <3>2, <3>3
  <2>4. CASE vector[w].published
    <3>1. raise' = [raise EXCEPT ![p].life = vector[w].epoch] /\ Goto(p, "source")
      BY <1>1, <1>3, <1>5, <2>1, <2>4 DEF ScanPublication
    <3>2. vector[w].epoch \in 0..MaxVectorEpoch
      BY <1>1, <2>2 DEF InterruptTypes, VectorStates
    <3>3. /\ raise'[p].source = raise[p].source /\ raise'[p].vector = w
          /\ raise'[p].life = vector[w].epoch
      BY <1>1, <3>1, <3>2, LifeUpdate
    <3>4. pc'[p] = "source"
      BY <1>1, <3>1 DEF Goto, InterruptTypes
    <3>5. w < v \/ (w = v /\ raise'[p].life = record[handle].life)
      BY <1>1, <1>2, <1>3, <2>1, <3>3 DEF StillPublished
    <3> QED BY <1>1, <3>3, <3>4, <3>5 DEF StillToMark
  <2> QED BY <2>3, <2>4
<1>6. CASE ScanSource(p)
  <2>1. pc[p] = "source" /\ (w < v \/ (w = v /\ raise[p].life = record[handle].life))
    BY <1>6 DEF StillToMark, ScanSource
  <2>2. w \in Vectors
    BY <2>1 DEF InterruptInv, RaiseShape, RaiseLabels
  <2>3. CASE w < v
    <3>1. w # v
      BY <1>1, <1>3, <2>3
    <3>2. ~(StillPublished(w, raise[p].life) /\ vector[w].source = raise[p].source)
      BY <1>1, <1>2, <2>2, <3>1
         DEF StillPublished, InterruptInv, TablesAgree, OneVectorPerSource, InUse
    <3> QED BY <1>4, <1>6, <2>3, <3>2 DEF ScanSource
  <2>4. CASE w = v /\ raise[p].life = record[handle].life
    <3>1. raise' = [raise EXCEPT ![p].record = 1] /\ Goto(p, "mark")
      BY <1>1, <1>2, <1>6, <2>4 DEF ScanSource
    <3>2. /\ raise'[p].source = raise[p].source /\ raise'[p].vector = w
          /\ raise'[p].life = raise[p].life /\ raise'[p].record = 1
      BY <1>1, <3>1, FirstRecordUpdate
    <3>3. pc'[p] = "mark"
      BY <1>1, <3>1 DEF Goto, InterruptTypes
    <3> QED BY <1>1, <1>3, <2>4, <3>2, <3>3 DEF StillToMark
  <2> QED BY <2>1, <2>3, <2>4
<1> QED BY <1>5, <1>6

LEMMA MarkProgress ==
    ASSUME InterruptInv, TimerInv, initialized, handle' = handle, NEW p \in Contexts,
           MarkLoad(p) \/ MarkSwap(p), StillToMark(p)
    PROVE  StillToMark(p)' \/ record'[handle].state.matched
<1> DEFINE r == raise[p].record
<1>1. /\ InterruptTypes /\ pc[p] \in {"mark", "swap"} /\ pc[p] \in RaiseLabels
      /\ raise[p].source = TimerSource /\ r \in Nat
      /\ raise[p].vector = record[handle].vector /\ raise[p].life = record[handle].life
      /\ r <= handle
  BY DEF MarkLoad, MarkSwap, StillToMark, InterruptInv, InterruptTypes, RaiseStates, RaiseLabels
<1>2. /\ handle \in Records /\ record[handle].state.published /\ record[handle].filter = NoFilter
  BY HandleIs DEF TimerInv
<1>3. handle \in Nat /\ r \in Records /\ ~(r > NumRecords)
  BY <1>1, <1>2, CapacityAssumption DEF Records, InterruptInv, RaiseShape
<1>4. record'[handle].vector = record[handle].vector /\ record'[handle].life = record[handle].life
  BY <1>2, RaiseEffect DEF RaiseStep, SameRecords
<1>5. ASSUME NEW marked \in BOOLEAN, NextRecord(p, marked), r # handle
      PROVE  StillToMark(p)'
  <2>1. /\ raise'[p].source = TimerSource /\ raise'[p].vector = raise[p].vector
        /\ raise'[p].life = raise[p].life /\ raise'[p].record = r + 1
    BY <1>1, <1>5, NextRecordUpdate DEF NextRecord
  <2>2. pc'[p] = "mark"
    BY <1>1, <1>5 DEF NextRecord, Goto, InterruptTypes
  <2>3. r + 1 <= handle
    BY <1>1, <1>3, <1>5
  <2> QED BY <1>1, <1>4, <2>1, <2>2, <2>3 DEF StillToMark
<1>6. ASSUME NEW label \in {"mark", "swap"}, Goto(p, label), raise'[p].source = raise[p].source,
             raise'[p].vector = raise[p].vector, raise'[p].life = raise[p].life,
             raise'[p].record = r
      PROVE  StillToMark(p)'
  <2>1. pc'[p] = label
    BY <1>1, <1>6 DEF Goto, InterruptTypes
  <2> QED BY <1>1, <1>4, <1>6, <2>1 DEF StillToMark
<1>7. CASE MarkLoad(p)
  <2>1. CASE ~record[r].state.published
    <3>1. NextRecord(p, FALSE) /\ r # handle
      BY <1>2, <1>3, <1>7, <2>1 DEF MarkLoad
    <3> QED BY <1>5, <3>1
  <2>2. CASE record[r].state.published
    <3>1. raise' = [raise EXCEPT ![p].seen = record[r].state] /\ Goto(p, "swap")
      BY <1>3, <1>7, <2>2 DEF MarkLoad
    <3>2. record[r].state \in StateWords
      BY <1>1, <1>3 DEF InterruptTypes, RecordStates
    <3>3. /\ raise'[p].source = raise[p].source /\ raise'[p].vector = raise[p].vector
          /\ raise'[p].life = raise[p].life /\ raise'[p].record = r
      BY <1>1, <3>1, <3>2, SeenUpdate
    <3> QED BY <1>6, <3>1, <3>3
  <2> QED BY <2>1, <2>2
<1>8. CASE MarkSwap(p)
  <2>1. CASE Goto(p, "mark") /\ UNCHANGED <<record, raise>>
    BY <1>6, <2>1
  <2>2. CASE r # handle /\ (NextRecord(p, FALSE) \/ NextRecord(p, TRUE))
    BY <1>5, <2>2
  <2>3. CASE r = handle /\ ~(Goto(p, "mark") /\ UNCHANGED <<record, raise>>)
    <3>1. StatusMatches(record[r].filter, raise[p].bits)
      BY <1>2, <2>3 DEF StatusMatches
    <3>2. record' = [record EXCEPT ![r].state.matched = TRUE]
      BY <1>1, <1>8, <2>3, <3>1 DEF MarkSwap
    <3>3. record[r] \in RecordStates /\ record \in [Records -> RecordStates]
      BY <1>1, <1>3 DEF InterruptTypes
    <3>4. PICK b \in BOOLEAN : b = TRUE
      OBVIOUS
    <3>5. record' = [record EXCEPT ![handle].state.matched = b]
      BY <2>3, <3>2, <3>4
    <3>6. record'[handle].state.matched = b
      BY <1>2, <3>3, <3>5, MatchedUpdate
    <3> QED BY <3>4, <3>6
  <2> QED BY <1>8, <2>1, <2>2, <2>3 DEF MarkSwap
<1> QED BY <1>7, <1>8

LEMMA RaiseStepKept ==
    ASSUME InterruptInv, TimerInv, UNCHANGED timerVars, NEW p \in Contexts, RaiseStep(p)
    PROVE  Kept
<1>1. /\ pc[p] \in RaiseLabels /\ pc'[p] \in NotBackend
      /\ UNCHANGED <<vector, running, isr, op>>
      /\ \A q \in Contexts : q # p => pc'[q] = pc[q] /\ raise'[q] = raise[q]
      /\ SameRecords
      /\ \A r \in Records : record[r].state.matched => record'[r].state.matched
  BY RaiseEffect
<1>2. UNCHANGED <<generation, handle, pendingGen, status>>
  BY DEF timerVars, compareVars, expiryVars
<1>3. PlacesKept /\ OwnersKept
  <2>1. NotBackend \cap TableLabels = {} /\ RaiseLabels \subseteq NotBackend
    BY DEF NotBackend, TableLabels, RaiseLabels
  <2>2. Place(p) \in NotBackend /\ Place(p)' \in NotBackend
    BY <1>1, <2>1 DEF Place
  <2>3. \A q \in Contexts : q # p => Place(q)' = Place(q)
    BY <1>1 DEF Place
  <2> QED BY <1>1, <2>2, <2>3 DEF PlacesKept, OwnersKept
<1>4. TimerRecordKept /\ MarkKept
  BY <1>1 DEF TimerRecordKept, MarkKept, SameRecords
<1>5. TimerPublish'
  <2>1. pc'[running] = "publish" => pc[running] = "publish"
    <3>1. running \in Contexts /\ "publish" \notin NotBackend
      BY DEF InterruptInv, InterruptTypes, Contexts, NotBackend, RaiseLabels
    <3> QED BY <1>1, <3>1
  <2> QED BY <1>1, <2>1 DEF TimerPublish, TimerInv
<1>6. initialized /\ Asserted => Asserted'
  <2> SUFFICES ASSUME initialized, Asserted
               PROVE  Asserted'
    OBVIOUS
  <2>1. StillToMark(p) => StillToMark(p)' \/ record'[handle].state.matched
    <3> SUFFICES ASSUME StillToMark(p)
                 PROVE  StillToMark(p)' \/ record'[handle].state.matched
      OBVIOUS
    <3>1. pc[p] \in {"scan", "source", "mark", "swap"}
      BY DEF StillToMark
    <3>2. ScanPublication(p) \/ ScanSource(p) \/ MarkLoad(p) \/ MarkSwap(p)
      BY <3>1 DEF RaiseStep, HandleCheck, HandleRead, setInterruptPending
    <3> QED BY <1>2, <3>2, ScanProgress, MarkProgress
  <2>2. \A q \in Deliverers : \/ StillToMark(q) => StillToMark(q)' \/ record'[handle].state.matched
                              \/ pc'[q] = pc[q] /\ raise'[q] = raise[q]
                              \/ pc[q] \notin RaiseLabels
    BY <1>1, <2>1, TimerAssumption
  <2> QED BY <1>1, <1>2, <1>4, <2>2, AssertedKept
<1> QED BY <1>1, <1>3, <1>4, <1>5, <1>6 DEF Kept

LEMMA raiseInterruptSourceKept ==
    ASSUME InterruptInv, TimerInv, UNCHANGED timerVars, NEW p \in Raisers, raiseInterruptSource(p)
    PROVE  Kept
<1>1. PICK source \in DriverSources, bits \in SUBSET Filters : BeginRaise(p, source, bits)
  BY DEF raiseInterruptSource
<1>2. /\ p \in Contexts /\ pc[p] = "idle" /\ pc' = [pc EXCEPT ![p] = "scan"]
      /\ UNCHANGED <<vector, record, running, isr, op>>
  BY <1>1, ContextsAssumption DEF raiseInterruptSource, BeginRaise, Goto, tables, cpu
<1>3. /\ pc'[p] = "scan" /\ \A q \in Contexts : q # p => pc'[q] = pc[q] /\ raise'[q] = raise[q]
      /\ running \in Contexts
  BY <1>1, <1>2 DEF BeginRaise, InterruptInv, InterruptTypes, Contexts
<1>4. UNCHANGED <<generation, handle, pendingGen, status>>
  BY DEF timerVars, compareVars, expiryVars
<1>5. PlacesKept /\ OwnersKept
  <2>1. Place(p) = "idle" /\ Place(p)' = "scan" /\ \A q \in Contexts : q # p => Place(q)' = Place(q)
    BY <1>2, <1>3 DEF Place, TableLabels
  <2> QED BY <1>2, <2>1 DEF PlacesKept, OwnersKept, NotBackend, RaiseLabels
<1>6. TimerRecordKept /\ MarkKept
  BY <1>2 DEF TimerRecordKept, MarkKept
<1>7. TimerPublish'
  BY <1>2, <1>3 DEF TimerPublish, TimerInv
<1>8. \A q \in Deliverers : (pc'[q] = pc[q] /\ raise'[q] = raise[q]) \/ pc[q] \notin RaiseLabels
  BY <1>2, <1>3, TimerAssumption DEF RaiseLabels
<1>9. initialized /\ Asserted => Asserted'
  BY <1>2, <1>4, <1>6, <1>8, AssertedKept
<1> QED BY <1>2, <1>5, <1>6, <1>7, <1>9 DEF Kept

LEMMA PreemptKept ==
    ASSUME InterruptInv, TimerInv, UNCHANGED timerVars, NEW t \in Tasks, Preempt(t)
    PROVE  Kept
<1>1. UNCHANGED <<vector, record, isr, pc, op, raise>> /\ running' = t /\ t # running
  BY DEF Preempt, tables
<1>2. UNCHANGED <<generation, handle, pendingGen, status>>
  BY DEF timerVars, compareVars, expiryVars
<1>3. PlacesKept /\ OwnersKept /\ TimerRecordKept /\ MarkKept
  BY <1>1 DEF PlacesKept, OwnersKept, TimerRecordKept, MarkKept, Place
<1>4. TimerPublish'
  <2>1. pc[t] # "publish"
    BY <1>1 DEF InterruptInv, TablesAgree, Exclusive, Masked, CriticalLabels, Contexts
  <2> QED BY <1>1, <2>1 DEF TimerPublish
<1>5. initialized /\ Asserted => Asserted'
  BY <1>1, <1>2, <1>3, AssertedKept
<1> QED BY <1>1, <1>3, <1>4, <1>5 DEF Kept

LEMMA InterruptKept ==
    ASSUME InterruptInv, TimerInv, UNCHANGED timerVars, NEW s \in Slots, Interrupt(s)
    PROVE  Kept
<1>1. /\ UNCHANGED <<vector, record, running, pc, op, raise>>
      /\ isr.vector = 0 /\ isr'.stage = "record"
  BY DEF Interrupt
<1>2. isr.stage = "record"
  BY <1>1 DEF InterruptInv, DispatchShape
<1>3. UNCHANGED <<generation, handle, pendingGen, status>>
  BY DEF timerVars, compareVars, expiryVars
<1>4. PlacesKept /\ OwnersKept /\ TimerRecordKept /\ MarkKept
  BY <1>1 DEF PlacesKept, OwnersKept, TimerRecordKept, MarkKept, Place
<1>5. TimerPublish'
  BY <1>1 DEF TimerPublish, TimerInv
<1>6. initialized /\ Asserted => Asserted'
  BY <1>1, <1>2, <1>3, <1>4, AssertedKept
<1> QED BY <1>1, <1>2, <1>4, <1>5, <1>6 DEF Kept

\* The mark of the timer's record is taken when its handler is about to be called.
LEMMA ServeRecordKept ==
    ASSUME InterruptInv, TimerInv, UNCHANGED timerVars, ServeRecord
    PROVE  Kept
<1> DEFINE r == isr.next
           matched == Belongs(r, isr.vector, isr.life) /\ record[r].state.matched
<1>1. /\ UNCHANGED <<vector, running, pc, op, raise>>
      /\ isr.vector # 0 /\ isr.stage = "record" /\ InterruptTypes /\ r \in Records \cup {1}
  BY DEF ServeRecord, InterruptInv, InterruptTypes, DispatchStates
<1>2. UNCHANGED <<generation, handle, pendingGen, status>>
  BY DEF timerVars, compareVars, expiryVars
<1>3. isr'.stage \in {"record", "call"}
  <2>1. AfterRecord => isr'.stage = "record"
    BY <1>1, AfterRecordUpdate
  <2>2. isr' = [isr EXCEPT !.stage = "call"] => isr'.stage = "call"
    BY <1>1 DEF InterruptTypes, DispatchStates
  <2> QED BY <2>1, <2>2 DEF ServeRecord
<1>4. \A q \in Records :
         /\ record'[q].vector = record[q].vector /\ record'[q].life = record[q].life
         /\ record'[q].filter = record[q].filter /\ record'[q].handler = record[q].handler
         /\ record'[q].state.enabled = record[q].state.enabled
         /\ ~(q = r /\ matched) => record'[q].state.matched = record[q].state.matched
  <2>1. CASE ~(matched /\ r \in Records)
    <3>1. record' = record \/ (r \notin Records /\ record' = [record EXCEPT ![r].state.matched = FALSE])
      BY <2>1 DEF ServeRecord
    <3>2. \A q \in Records : record'[q] = record[q]
      BY <1>1, <3>1 DEF InterruptTypes
    <3> QED BY <3>2
  <2>2. CASE matched /\ r \in Records
    <3>1. PICK b \in BOOLEAN : b = FALSE
      OBVIOUS
    <3>2. PICK n \in Records : n = r
      BY <2>2
    <3>3. record' = [record EXCEPT ![n].state.matched = b]
      BY <2>2, <3>1, <3>2 DEF ServeRecord
    <3>4. record \in [Records -> RecordStates]
      BY <1>1 DEF InterruptTypes
    <3>5. \A q \in Records :
             /\ record'[q].vector = record[q].vector /\ record'[q].life = record[q].life
             /\ record'[q].filter = record[q].filter /\ record'[q].handler = record[q].handler
             /\ record'[q].state.enabled = record[q].state.enabled
             /\ record'[q].state.matched = IF q = n THEN b ELSE record[q].state.matched
      BY <3>2, <3>3, <3>4, MatchedUpdate
    <3> HIDE DEF r, matched
    <3> QED BY <2>2, <3>2, <3>5
  <2> QED BY <2>1, <2>2
<1>5. PlacesKept /\ OwnersKept /\ TimerRecordKept
  BY <1>1, <1>4 DEF PlacesKept, OwnersKept, TimerRecordKept, Place
<1>6. TimerPublish'
  BY <1>1 DEF TimerPublish, TimerInv
<1>7. initialized /\ Asserted => Asserted'
  <2> SUFFICES ASSUME initialized, Asserted
               PROVE  Asserted'
    OBVIOUS
  <2>1. handle \in Records /\ record[handle].state.enabled
        /\ \A q \in Records : record[q].handler = "timer" <=> q = handle
    BY HandleIs DEF TimerInv
  <2>2. MarkKept \/ (isr'.vector # 0 /\ isr'.stage = "call" /\ isr'.next = handle)
    <3>1. CASE r = handle /\ matched
      <4>1. isr' = [isr EXCEPT !.stage = "call"]
        BY <2>1, <3>1 DEF ServeRecord
      <4> QED BY <1>1, <3>1, <4>1 DEF InterruptTypes, DispatchStates
    <3>2. CASE ~(r = handle /\ matched)
      <4> HIDE DEF r, matched
      <4> QED BY <1>4, <2>1, <3>2 DEF MarkKept
    <3> QED BY <3>1, <3>2
  <2> QED BY <1>1, <1>2, <1>5, <2>2, AssertedKept
<1> QED BY <1>1, <1>3, <1>5, <1>6, <1>7 DEF Kept

LEMMA DriverHandlerKept ==
    ASSUME InterruptInv, TimerInv, UNCHANGED timerVars, DriverHandler
    PROVE  Kept
<1>1. /\ UNCHANGED <<vector, record, running, pc, op, raise>>
      /\ isr.vector # 0 /\ isr.stage = "call" /\ record[isr.next].handler = "driver" /\ AfterRecord
  BY DEF DriverHandler, tables
<1>2. isr'.stage = "record"
  BY <1>1, AfterRecordUpdate DEF InterruptInv
<1>3. UNCHANGED <<generation, handle, pendingGen, status>>
  BY DEF timerVars, compareVars, expiryVars
<1>4. PlacesKept /\ OwnersKept /\ TimerRecordKept /\ MarkKept
  BY <1>1 DEF PlacesKept, OwnersKept, TimerRecordKept, MarkKept, Place
<1>5. TimerPublish'
  BY <1>1 DEF TimerPublish, TimerInv
<1>6. initialized /\ Asserted => Asserted'
  BY <1>1, <1>3, <1>4, AssertedKept
<1> QED BY <1>1, <1>2, <1>4, <1>5, <1>6 DEF Kept

LEMMA InterruptNextKept ==
    ASSUME InterruptInv, TimerInv, UNCHANGED timerVars, InterruptNext
    PROVE  Kept
BY DriverCallKept, raiseInterruptSourceKept, TableStepKept, RaiseStepKept, PreemptKept,
   InterruptKept, ServeRecordKept, DriverHandlerKept
   DEF InterruptNext

-----------------------------------------------------------------------------
(* Frames *)

\* Owners, places and the timer's record stay: so does what is known of the record.
LEMMA OwnerFrame ==
    ASSUME OneRecord, TimerRecord, TimerRecordKept, UNCHANGED <<initialized, handle>>,
           \A t \in TimerTasks :
              /\ Place(t)' \in OwnerPlaces <=> Place(t) \in OwnerPlaces
              /\ Place(t) \in OwnerPlaces => op'[t].record = op[t].record
              /\ Place(t)' = "initDone" => Place(t) = "initDone"
    PROVE  OneRecord' /\ TimerRecord'
<1>1. \A t \in TimerTasks, r \in Records : OwnsRecord(t, r)' <=> OwnsRecord(t, r)
  BY DEF OwnsRecord
<1>2. OneRecord'
  BY <1>1 DEF OneRecord, TimerRecordKept
<1>3. /\ initialized => handle \in Records /\ record[handle].handler = "timer"
      /\ \A t \in TimerTasks : Place(t) = "initDone" =>
            op[t].record \in Records /\ record[op[t].record].handler = "timer"
  BY DEF OneRecord, OwnsRecord, OwnerPlaces
<1>4. initialized' => record'[handle'].state.enabled
  BY <1>3 DEF TimerRecord, TimerRecordKept
<1>5. \A t \in TimerTasks : Place(t)' = "initDone" => record'[op'[t].record].state.enabled
  <2> SUFFICES ASSUME NEW t \in TimerTasks, Place(t)' = "initDone"
               PROVE  record'[op'[t].record].state.enabled
    OBVIOUS
  <2>1. Place(t) = "initDone" /\ op'[t].record = op[t].record
    BY DEF OwnerPlaces
  <2> QED BY <1>3, <2>1 DEF TimerRecord, TimerRecordKept
<1>6. \A r \in Records : record'[r].handler = "timer" =>
          record'[r].filter = NoFilter /\ vector'[record'[r].vector].source = TimerSource
  BY DEF TimerRecord, TimerRecordKept
<1> QED BY <1>2, <1>4, <1>5, <1>6 DEF TimerRecord

\* An outstanding compare goes on its way from the alarm to the common handler.
LEMMA CompareFrame ==
    ASSUME CompareKept,
           initialized' /\ armed' /\ (\A t \in TimerTasks : Place(t)' \notin RevisionPlaces) =>
              /\ generation' = generation /\ initialized /\ armed
              /\ \A t \in TimerTasks : Place(t) \notin RevisionPlaces
              /\ generation \in alarms => generation \in alarms' \/ Delivering(generation)'
              /\ Delivering(generation) => Delivering(generation)' \/ Asserted'
              /\ Asserted => Asserted' \/ isr'.stage = "upper"
              /\ isr.stage = "upper" => isr'.stage = "upper" \/ generation \in served'
              /\ generation \in served => generation \in served'
    PROVE  CompareKept'
<1> SUFFICES ASSUME initialized' /\ armed' /\ (\A t \in TimerTasks : Place(t)' \notin RevisionPlaces)
             PROVE  CompareKept!2'
  BY DEF CompareKept
<1> QED BY DEF CompareKept, Delivering

\* The alarm being delivered is the same while the callback goes on.
LEMMA DeliveringKept ==
    ASSUME InterruptInv, InterruptInv', arg' = arg,
           \A p \in Contexts : Place(p)' \in DeliveryLabels <=> Place(p) \in DeliveryLabels
    PROVE  \A g : Delivering(g)' <=> Delivering(g)
<1>1. \A p \in Contexts : pc[p] \in DeliveryLabels <=> Place(p) \in DeliveryLabels
  BY PlaceIs DEF InterruptInv, TablesAgree
<1>2. OpShape'
  BY DEF InterruptInv, TablesAgree
<1>3. \A p \in Contexts : op'[p].then \in Continuations
  BY <1>2 DEF OpShape
<1>4. Continuations \cap DeliveryLabels = {} /\ TableLabels \cap DeliveryLabels = {}
  BY DEF Continuations, DeliveryLabels, TableLabels
<1>5. \A p \in Contexts : pc'[p] \in DeliveryLabels <=> Place(p)' \in DeliveryLabels
  BY <1>3, <1>4 DEF Place
<1> QED BY <1>1, <1>5, TimerAssumption DEF Delivering

\* No step of the interrupt tables touches the alarms.
LEMMA PlacesAlarms ==
    ASSUME InterruptInv, InterruptInv', AlarmInv, UNCHANGED timerVars, PlacesKept,
           isr'.stage = "upper" => isr.stage = "upper"
    PROVE  AlarmInv' /\ \A g : Delivering(g)' <=> Delivering(g)
<1>1. TimerTypes /\ Calls /\ LockHeld /\ Initialization
      /\ AlarmsKnown /\ CallKnows /\ ScheduledKnown /\ Generations /\ ExpiryTaken
  BY DEF AlarmInv
<1>2. UNCHANGED <<lock, generation, armed, scheduled, initialized, handle, pendingGen, status, upper,
                  arg, alarms, served>>
  BY DEF timerVars, compareVars, expiryVars
<1>3. NotBackend \cap (TimerLabels \cup DeliveryLabels \cup LockPlaces \cup ClosedPlaces
                       \cup OpenPlaces \cup CancelPlaces) = {}
  BY DEF NotBackend, RaiseLabels, TimerLabels, DeliveryLabels, LockPlaces, ClosedPlaces, OpenPlaces,
         CancelPlaces
<1>4. \A p \in Contexts : Place(p)' \notin NotBackend \/ Place(p) \notin NotBackend =>
          Place(p)' = Place(p)
  BY DEF PlacesKept
<1>5. \A t \in TimerTasks : t \in Contexts
  BY TimerAssumption DEF Contexts
<1>6. \A g : Delivering(g)' <=> Delivering(g)
  <2>1. \A p \in Contexts : Place(p)' \in DeliveryLabels <=> Place(p) \in DeliveryLabels
    BY <1>3, <1>4
  <2> QED BY <1>2, <2>1, DeliveringKept
<1>7. TimerTypes'
  BY <1>1, <1>2 DEF TimerTypes
<1>8. Calls'
  <2>1. \A p \in Contexts : /\ Place(p)' \in TimerLabels <=> Place(p) \in TimerLabels
                            /\ Place(p)' \in DeliveryLabels <=> Place(p) \in DeliveryLabels
    BY <1>3, <1>4
  <2> QED BY <1>1, <2>1 DEF Calls
<1>9. LockHeld'
  BY <1>1, <1>2, <1>3, <1>4 DEF LockHeld
<1>10. Initialization'
  BY <1>1, <1>2, <1>3, <1>4 DEF Initialization
<1>11. AlarmsKnown'
  BY <1>1, <1>2, <1>3, <1>4, <1>5 DEF AlarmsKnown
<1>12. CallKnows'
  <2> SUFFICES ASSUME NEW t \in TimerTasks
               PROVE  CallKnows!(t)'
    BY DEF CallKnows
  <2>1. CASE Place(t)' \notin TimerLabels
    BY <2>1 DEF TimerLabels
  <2>2. CASE Place(t)' \in TimerLabels
    <3>1. Place(t)' = Place(t)
      BY <1>3, <1>4, <1>5, <2>2
    <3>2. CallKnows!(t)
      BY <1>1 DEF CallKnows
    <3> QED BY <1>2, <1>6, <3>1, <3>2
  <2> QED BY <2>1, <2>2
<1>13. ScheduledKnown'
  <2>1. \A t \in TimerTasks : Place(t) = "deinit" => Place(t)' = "deinit"
    BY <1>3, <1>4, <1>5 DEF LockPlaces
  <2> QED BY <1>1, <1>2, <1>6, <2>1 DEF ScheduledKnown
<1>14. Generations'
  <2>1. \A p \in Contexts : Place(p)' \in DeliveryLabels => Place(p) \in DeliveryLabels
    BY <1>3, <1>4
  <2> QED BY <1>1, <1>2, <2>1 DEF Generations
<1>15. ExpiryTaken'
  BY <1>1, <1>2 DEF ExpiryTaken
<1> QED BY <1>6, <1>7, <1>8, <1>9, <1>10, <1>11, <1>12, <1>13, <1>14, <1>15 DEF AlarmInv

LEMMA KeptStep ==
    ASSUME InterruptInv, InterruptInv', BackendInv, UNCHANGED timerVars, Kept
    PROVE  BackendInv'
<1>1. AlarmInv /\ OneRecord /\ TimerRecord /\ TimerPublish /\ CompareKept /\ Initialization
  BY DEF BackendInv, AlarmInv
<1>2. UNCHANGED <<generation, armed, initialized, handle, arg, alarms, served>>
  BY DEF timerVars, compareVars
<1>3. AlarmInv' /\ \A g : Delivering(g)' <=> Delivering(g)
  BY <1>1, PlacesAlarms DEF Kept
<1>4. NotBackend \cap (OwnerPlaces \cup RevisionPlaces) = {}
  BY DEF NotBackend, RaiseLabels, OwnerPlaces, RevisionPlaces
<1>5. \A t \in TimerTasks : /\ Place(t)' \in OwnerPlaces \cup RevisionPlaces
                               \/ Place(t) \in OwnerPlaces \cup RevisionPlaces => Place(t)' = Place(t)
                            /\ Place(t) \in OwnerPlaces => op'[t].record = op[t].record
  BY <1>4, TimerAssumption DEF Kept, PlacesKept, OwnersKept, Contexts
<1>6. OneRecord' /\ TimerRecord'
  <2>1. "initDone" \in OwnerPlaces /\ TimerRecordKept
    BY DEF OwnerPlaces, Kept
  <2>2. \A t \in TimerTasks :
              /\ Place(t)' \in OwnerPlaces <=> Place(t) \in OwnerPlaces
              /\ Place(t) \in OwnerPlaces => op'[t].record = op[t].record
              /\ Place(t)' = "initDone" => Place(t) = "initDone"
    BY <1>5, <2>1
  <2> QED BY <1>1, <1>2, <2>1, <2>2, OwnerFrame
<1>7. CompareKept'
  <2>1. \A t \in TimerTasks : Place(t) \in RevisionPlaces => Place(t)' \in RevisionPlaces
    BY <1>5
  <2>2. initialized /\ Asserted => Asserted'
    BY DEF Kept
  <2>3. isr'.stage = "upper" <=> isr.stage = "upper"
    BY DEF Kept
  <2> QED BY <1>1, <1>2, <1>3, <2>1, <2>2, <2>3, CompareFrame DEF Delivering
<1> QED BY <1>3, <1>6, <1>7 DEF BackendInv, Kept

LEMMA InterruptNextBackend ==
    ASSUME Inv, InterruptNext, UNCHANGED timerVars
    PROVE  Inv'
<1>1. InterruptInv /\ BackendInv /\ TimerInv
  BY DEF Inv, BackendInv, AlarmInv, TimerInv
<1> QED BY <1>1, InterruptNextStep, InterruptNextKept, KeptStep DEF Inv

-----------------------------------------------------------------------------
(* The steps of a call on the tables *)

\* Where esp_timer_impl_init and esp_timer_impl_deinit go on after an operation.
CallGoes(from, to) ==
    \/ from = "init" /\ to = "initEnable"
    \/ from = "initEnable" /\ to = "initDone"
    \/ from = "deinitDisable" /\ to = "deinitFree"
    \/ from = "deinitFree" /\ to = "deinitDone"

LEMMA CallGoesOn ==
    ASSUME InterruptInv, InterruptInv', AlarmInv, UNCHANGED timerVars, isr' = isr,
           NEW t \in TimerTasks, CallGoes(Place(t), Place(t)'),
           \A q \in Contexts : q # t => Place(q)' = Place(q)
    PROVE  /\ AlarmInv' /\ ~initialized
           /\ \A q \in TimerTasks : q # t => Place(q) \notin OwnerPlaces /\ Place(q)' = Place(q)
<1>1. TimerTypes /\ Calls /\ LockHeld /\ Initialization /\ CallKnows
  BY DEF AlarmInv
<1>2. UNCHANGED <<lock, generation, armed, scheduled, initialized, handle, pendingGen, status, upper,
                  arg, alarms, served>>
  BY DEF timerVars, compareVars, expiryVars
<1>3. t \in Contexts /\ \A q \in TimerTasks : q \in Contexts
  BY TimerAssumption DEF Contexts
<1>4. /\ Place(t) \in TimerLabels \ {"setLock", "deinit"} /\ Place(t)' \in TimerLabels
      /\ Place(t) # "idle" /\ Place(t) \in ClosedPlaces /\ Place(t) \notin CancelPlaces
      /\ Place(t)' \in ClosedPlaces /\ Place(t)' \notin OpenPlaces \cup DeliveryLabels
      /\ Place(t)' \notin CancelPlaces /\ Place(t) \notin DeliveryLabels
      /\ Place(t)' \in LockPlaces <=> Place(t) \in LockPlaces
  BY DEF CallGoes, TimerLabels, ClosedPlaces, CancelPlaces, OpenPlaces, DeliveryLabels, LockPlaces
<1>5. ~initialized /\ scheduled = 0
  BY <1>1, <1>3, <1>4 DEF Initialization, CallKnows
<1>6. Calls'
  BY <1>1, <1>3, <1>4, CallsKept
<1>7. LockHeld' /\ lock' \in Contexts \cup {NoContext}
  BY <1>1, <1>2, <1>3, <1>4 DEF LockHeld, TimerTypes
<1>8. CallKnows!(t)'
  BY <1>2, <1>4, <1>5 DEF OpenPlaces
<1>9. \A g : Delivering(g)' <=> Delivering(g)
  <2>1. \A p \in Contexts : Place(p)' \in DeliveryLabels <=> Place(p) \in DeliveryLabels
    BY <1>4
  <2> QED BY <1>2, <2>1, DeliveringKept
<1>10. UNCHANGED <<compareVars, initialized, handle, expiryVars, arg, alarms, served>>
  BY <1>2 DEF compareVars, expiryVars
<1>11. AlarmInv'
  BY <1>3, <1>4, <1>5, <1>6, <1>7, <1>8, <1>9, <1>10, PlaceOnly
<1>12. \A q \in TimerTasks : q # t => Place(q) \notin OwnerPlaces /\ Place(q)' = Place(q)
  <2>1. OwnerPlaces \subseteq TimerLabels
    BY DEF OwnerPlaces, TimerLabels
  <2> QED BY <1>1, <1>3, <1>4, <2>1 DEF Calls
<1> QED BY <1>5, <1>11, <1>12

\* A task in a call, outside the critical sections, may begin an operation.
LEMMA CallCallable ==
    ASSUME NEW t \in TimerTasks, CanRun(t),
           pc[t] \in {"init", "initEnable", "deinitDisable", "deinitFree"}
    PROVE  Callable(t) /\ t \in Contexts
BY TimerAssumption DEF Callable, RaiseLabels, Masked, CriticalLabels, Contexts

LEMMA InitAllocateBackend ==
    ASSUME Inv, NEW t \in TimerTasks, InitAllocate(t)
    PROVE  Inv'
<1>1. /\ CanRun(t) /\ pc[t] = "init" /\ AllocateInterrupt(t, TimerRequest, "initEnable")
      /\ UNCHANGED timerVars /\ "initEnable" \in Continuations
  BY DEF InitAllocate, Continuations
<1>2. InterruptInv /\ AlarmInv /\ OneRecord /\ TimerRecord
  BY DEF Inv, BackendInv
<1>3. Callable(t) /\ t \in Contexts
  BY <1>1, CallCallable
<1>4. TimerRequest \in Requests /\ TimerRequest.handler = "timer"
      /\ TimerRequest.filter = NoFilter /\ TimerRequest.source = TimerSource
  BY RequestTypes DEF TimerRequest
<1>5. InterruptInv'
  BY <1>1, <1>2, <1>3, <1>4, AllocateStep
<1>6. PICK r \in Records :
          /\ record[r].handler = "none" /\ op'[t].record = r
          /\ record'[r].handler = "timer" /\ record'[r].filter = NoFilter
          /\ vector'[record'[r].vector].source = TimerSource
          /\ \A q \in Records : q # r => record'[q] = record[q]
          /\ t = running /\ Place(t) = "init" /\ Place(t)' = "initEnable"
          /\ op'[t].then = "initEnable"
          /\ \A q \in Contexts : q # t => Place(q)' = Place(q)
          /\ UNCHANGED <<running, isr, raise>>
  BY <1>1, <1>2, <1>3, <1>4, AllocateEffect
<1>7. /\ AlarmInv' /\ ~initialized
      /\ \A q \in TimerTasks : q # t => Place(q) \notin OwnerPlaces /\ Place(q)' = Place(q)
  BY <1>1, <1>2, <1>5, <1>6, CallGoesOn DEF CallGoes
<1>8. ~initialized'
  BY <1>1, <1>7 DEF timerVars
<1>9. \A q \in Records : record'[q].handler = "timer" <=> q = r
  <2>1. \A q \in Records : record[q].handler # "timer"
    BY <1>2, <1>6, <1>7 DEF OneRecord, OwnsRecord, OwnerPlaces
  <2> QED BY <1>6, <2>1
<1>10. OneRecord'
  <2>1. \A q \in TimerTasks : Place(q)' \in OwnerPlaces <=> q = t
    BY <1>6, <1>7 DEF OwnerPlaces
  <2>2. \A q \in TimerTasks, n \in Records : OwnsRecord(q, n)' <=> q = t /\ n = r
    BY <1>6, <2>1 DEF OwnsRecord
  <2> QED BY <1>6, <1>8, <1>9, <2>1, <2>2 DEF OneRecord
<1>11. TimerRecord'
  <2>1. \A q \in TimerTasks : Place(q)' # "initDone"
    BY <1>6, <1>7 DEF OwnerPlaces
  <2> QED BY <1>6, <1>8, <1>9, <2>1 DEF TimerRecord
<1>12. TimerPublish'
  BY <1>6 DEF TimerPublish
<1>13. CompareKept'
  BY <1>8 DEF CompareKept
<1> QED BY <1>5, <1>7, <1>10, <1>11, <1>12, <1>13 DEF Inv, BackendInv

\* esp_intr_enable and esp_intr_disable of the timer's record.
LEMMA EnablementBackend ==
    ASSUME Inv, NEW t \in TimerTasks, InitEnable(t) \/ DeinitDisable(t)
    PROVE  Inv'
<1>1. /\ CanRun(t) /\ UNCHANGED timerVars
      /\ \/ pc[t] = "initEnable" /\ SetRecordEnabled(t, op[t].record, TRUE, "initDone")
         \/ pc[t] = "deinitDisable" /\ SetRecordEnabled(t, op[t].record, FALSE, "deinitFree")
  BY DEF InitEnable, DeinitDisable
<1>2. InterruptInv /\ AlarmInv /\ OneRecord /\ TimerRecord
  BY DEF Inv, BackendInv
<1>3. Callable(t) /\ t \in Contexts /\ Place(t) = pc[t] /\ Place(t) \in OwnerPlaces
  BY <1>1, CallCallable DEF Place, TableLabels, OwnerPlaces
<1>4. PICK r \in Records : r = op[t].record /\ record[r].handler = "timer"
  BY <1>2, <1>3 DEF OneRecord, OwnsRecord
<1>5. PICK then \in Continuations :
          /\ CallGoes(pc[t], then) /\ then # "deinitDone"
          /\ SetRecordEnabled(t, r, then = "initDone", then)
  <2>1. CASE pc[t] = "initEnable" /\ SetRecordEnabled(t, op[t].record, TRUE, "initDone")
    <3>1. ("initDone" = "initDone") = TRUE
      OBVIOUS
    <3> QED BY <1>4, <2>1, <3>1 DEF CallGoes, Continuations
  <2>2. CASE pc[t] = "deinitDisable" /\ SetRecordEnabled(t, op[t].record, FALSE, "deinitFree")
    <3>1. ("deinitFree" = "initDone") = FALSE
      OBVIOUS
    <3> QED BY <1>4, <2>2, <3>1 DEF CallGoes, Continuations
  <2> QED BY <1>1, <2>1, <2>2
<1>6. PICK b \in BOOLEAN : b = (then = "initDone")
  OBVIOUS
<1>7. SetRecordEnabled(t, r, b, then)
  BY <1>5, <1>6
<1>8. InterruptInv'
  BY <1>2, <1>3, <1>4, <1>5, <1>7, SetRecordEnabledStep
<1>9. /\ \A q \in Records : q # r => record'[q] = record[q]
      /\ record'[r].vector = record[r].vector
      /\ record'[r].filter = record[r].filter /\ record'[r].handler = record[r].handler
      /\ record'[r].state.enabled = b
      /\ t = running /\ Place(t)' = then
      /\ op'[t].record = r /\ pc'[t] = "enablement"
      /\ \A q \in Contexts : q # t => Place(q)' = Place(q) /\ pc'[q] = pc[q] /\ op'[q] = op[q]
      /\ UNCHANGED <<vector, running, isr, raise>>
  BY <1>2, <1>3, <1>4, <1>7, SetRecordEnabledEffect
<1>10. /\ AlarmInv' /\ ~initialized
       /\ \A q \in TimerTasks : q # t => Place(q) \notin OwnerPlaces /\ Place(q)' = Place(q)
  BY <1>1, <1>2, <1>3, <1>5, <1>8, <1>9, CallGoesOn
<1>11. ~initialized'
  BY <1>1, <1>10 DEF timerVars
<1>12. \A q \in Records : record'[q].handler = "timer" <=> q = r
  <2>1. \A q \in Records : record[q].handler = "timer" => q = r
    BY <1>2, <1>4, <1>10 DEF OneRecord, OwnsRecord
  <2> QED BY <1>4, <1>9, <2>1
<1>13. OneRecord'
  <2>1. \A q \in TimerTasks : Place(q)' \in OwnerPlaces <=> q = t
    BY <1>5, <1>9, <1>10 DEF OwnerPlaces, CallGoes, Continuations
  <2>2. \A q \in TimerTasks, n \in Records : OwnsRecord(q, n)' <=> q = t /\ n = r
    BY <1>9, <2>1 DEF OwnsRecord
  <2> QED BY <1>9, <1>11, <1>12, <2>1, <2>2 DEF OneRecord
<1>14. TimerRecord'
  <2>1. \A q \in TimerTasks : Place(q)' = "initDone" => q = t
    BY <1>10 DEF OwnerPlaces
  <2>2. Place(t)' = "initDone" => record'[op'[t].record].state.enabled
    BY <1>6, <1>9
  <2>3. record'[r].filter = NoFilter /\ vector'[record'[r].vector].source = TimerSource
    BY <1>2, <1>4, <1>9 DEF TimerRecord
  <2> QED BY <1>11, <1>12, <2>1, <2>2, <2>3 DEF TimerRecord
<1>15. TimerPublish'
  BY <1>9 DEF TimerPublish
<1>16. CompareKept'
  BY <1>11 DEF CompareKept
<1> QED BY <1>8, <1>10, <1>13, <1>14, <1>15, <1>16 DEF Inv, BackendInv

LEMMA DeinitFreeBackend ==
    ASSUME Inv, NEW t \in TimerTasks, DeinitFree(t)
    PROVE  Inv'
<1>1. /\ CanRun(t) /\ UNCHANGED timerVars /\ pc[t] = "deinitFree"
      /\ esp_intr_free(t, op[t].record, "deinitDone") /\ "deinitDone" \in Continuations
  BY DEF DeinitFree, Continuations
<1>2. InterruptInv /\ AlarmInv /\ OneRecord /\ TimerRecord
  BY DEF Inv, BackendInv
<1>3. Callable(t) /\ t \in Contexts /\ Place(t) = pc[t] /\ Place(t) \in OwnerPlaces
  BY <1>1, CallCallable DEF Place, TableLabels, OwnerPlaces
<1>4. PICK r \in Records : r = op[t].record
  BY <1>2, <1>3 DEF OneRecord
<1>5. esp_intr_free(t, r, "deinitDone")
  BY <1>1, <1>4
<1>6. InterruptInv'
  BY <1>1, <1>2, <1>3, <1>4, <1>5, FreeStep
<1>7. /\ \A q \in Records : q # r => record'[q] = record[q]
      /\ record'[r].handler = "none"
      /\ t = running /\ Place(t)' = "deinitDone" /\ pc'[t] # "publish"
      /\ \A q \in Contexts : q # t => Place(q)' = Place(q) /\ pc'[q] = pc[q] /\ op'[q] = op[q]
      /\ UNCHANGED <<vector, running, isr, raise>>
  BY <1>2, <1>3, <1>4, <1>5, FreeEffect
<1>8. /\ AlarmInv' /\ ~initialized
      /\ \A q \in TimerTasks : q # t => Place(q) \notin OwnerPlaces /\ Place(q)' = Place(q)
  <2>1. CallGoes(Place(t), Place(t)')
    BY <1>1, <1>3, <1>7 DEF CallGoes
  <2> QED BY <1>1, <1>2, <1>6, <1>7, <2>1, CallGoesOn
<1>9. ~initialized'
  BY <1>1, <1>8 DEF timerVars
<1>10. \A q \in Records : record'[q].handler # "timer"
  <2>1. \A q \in Records : record[q].handler = "timer" => q = r
    BY <1>2, <1>4, <1>8 DEF OneRecord, OwnsRecord
  <2> QED BY <1>7, <2>1
<1>11. \A q \in TimerTasks : Place(q)' \notin OwnerPlaces
  BY <1>7, <1>8 DEF OwnerPlaces
<1>12. OneRecord' /\ TimerRecord'
  BY <1>9, <1>10, <1>11 DEF OneRecord, OwnsRecord, TimerRecord, OwnerPlaces
<1>13. TimerPublish'
  BY <1>7 DEF TimerPublish
<1>14. CompareKept'
  BY <1>9 DEF CompareKept
<1> QED BY <1>6, <1>8, <1>12, <1>13, <1>14 DEF Inv, BackendInv

-----------------------------------------------------------------------------
(* The other steps of a call *)

\* A step off the tables keeps what they hold for the timer.
LEMMA TablesQuiet ==
    ASSUME InterruptInv, TimerPublish, UNCHANGED <<vector, record, running>>,
           NEW p \in Contexts, NEW label, label # "publish", pc' = [pc EXCEPT ![p] = label],
           \A q \in Contexts : q # p => op'[q] = op[q]
    PROVE  TimerRecordKept /\ MarkKept /\ TimerPublish'
<1>1. TimerRecordKept /\ MarkKept
  BY DEF TimerRecordKept, MarkKept
<1>2. running \in Contexts /\ pc \in [Contexts -> Labels]
  BY DEF InterruptInv, InterruptTypes, Contexts
<1>3. pc'[running] = "publish" => running # p /\ pc[running] = "publish"
  BY <1>2
<1>4. TimerPublish'
  BY <1>2, <1>3 DEF TimerPublish
<1> QED BY <1>1, <1>4

\* A step that neither raises nor serves keeps an asserted expiry.
LEMMA AssertedQuiet ==
    ASSUME InterruptInv, Asserted, UNCHANGED <<record, isr, raise>>,
           UNCHANGED <<generation, handle, pendingGen, status>>,
           NEW p \in Contexts, pc[p] \notin RaiseLabels,
           NEW label, pc' = [pc EXCEPT ![p] = label]
    PROVE  Asserted'
<1>1. \A q \in Deliverers : StillToMark(q) => StillToMark(q)'
  <2> SUFFICES ASSUME NEW q \in Deliverers, StillToMark(q)
               PROVE  StillToMark(q)'
    OBVIOUS
  <2>1. pc[q] \in RaiseLabels
    BY DEF StillToMark, RaiseLabels
  <2>2. pc'[q] = pc[q]
    BY <2>1, TimerAssumption DEF InterruptInv, InterruptTypes
  <2> QED BY <2>2 DEF StillToMark
<1> QED BY <1>1 DEF Asserted

\* Most steps keep the record's owner.
LEMMA CallBackend ==
    ASSUME Inv, InterruptInv', AlarmInv', NEW t \in Contexts,
           NEW label, label \notin {"publish", "initDone"}, pc' = [pc EXCEPT ![t] = label],
           Place(t)' = label, \A q \in Contexts : q # t => Place(q)' = Place(q),
           UNCHANGED <<vector, record, running, initialized, handle>>,
           \A q \in Contexts : q # t => op'[q] = op[q],
           label \in OwnerPlaces <=> Place(t) \in OwnerPlaces,
           label \in OwnerPlaces => op' = op,
           CompareKept'
    PROVE  Inv'
<1>1. InterruptInv /\ AlarmInv /\ OneRecord /\ TimerRecord /\ TimerPublish
  BY DEF Inv, BackendInv
<1>2. TimerRecordKept /\ TimerPublish'
  BY <1>1, TablesQuiet
<1>3. \A q \in TimerTasks :
          /\ Place(q)' \in OwnerPlaces <=> Place(q) \in OwnerPlaces
          /\ Place(q) \in OwnerPlaces => op'[q].record = op[q].record
          /\ Place(q)' = "initDone" => Place(q) = "initDone"
  BY TimerAssumption DEF Contexts
<1>4. OneRecord' /\ TimerRecord'
  BY <1>1, <1>2, <1>3, OwnerFrame
<1> QED BY <1>2, <1>4 DEF Inv, BackendInv

LEMMA InitLockBackend ==
    ASSUME Inv, NEW t \in TimerTasks, InitLock(t)
    PROVE  Inv'
<1>1. /\ CanRun(t) /\ pc[t] = "idle" /\ ~initialized /\ pc' = [pc EXCEPT ![t] = "init"]
      /\ Goto(t, "init") /\ UNCHANGED <<tables, cpu, op, raise>> /\ arg' = arg
      /\ UNCHANGED <<vector, record, running, op, initialized, handle>>
  BY DEF InitLock, Goto, tables, cpu
<1>2. InterruptInv /\ AlarmInv
  BY DEF Inv, BackendInv
<1>3. InterruptInv' /\ AlarmInv'
  BY <1>2, InitLockAlarms
<1>4. /\ t \in Contexts /\ Place(t) = "idle" /\ Place(t)' = "init"
      /\ \A q \in Contexts : q # t => Place(q)' = Place(q)
  BY <1>1, <1>2, CallMoves DEF TimerLabels
<1>5. CompareKept'
  BY <1>1 DEF CompareKept
<1>6. "init" \notin OwnerPlaces /\ "idle" \notin OwnerPlaces
  BY DEF OwnerPlaces
<1> QED BY <1>1, <1>3, <1>4, <1>5, <1>6, CallBackend

LEMMA InitFailsBackend ==
    ASSUME Inv, NEW t \in TimerTasks, InitFails(t)
    PROVE  Inv'
<1>1. /\ CanRun(t) /\ pc[t] = "init" /\ pc' = [pc EXCEPT ![t] = "idle"]
      /\ Goto(t, "idle") /\ UNCHANGED <<tables, cpu, op, raise>> /\ arg' = arg
      /\ UNCHANGED <<vector, record, running, op, initialized, handle>>
  BY DEF InitFails, Goto, tables, cpu
<1>2. InterruptInv /\ AlarmInv /\ Initialization
  BY DEF Inv, BackendInv, AlarmInv
<1>3. InterruptInv' /\ AlarmInv'
  BY <1>2, InitFailsAlarms
<1>4. /\ t \in Contexts /\ Place(t) = "init" /\ Place(t)' = "idle"
      /\ \A q \in Contexts : q # t => Place(q)' = Place(q)
  BY <1>1, <1>2, CallMoves DEF TimerLabels
<1>5. CompareKept'
  BY <1>1, <1>2, <1>4 DEF CompareKept, Initialization, ClosedPlaces
<1>6. "init" \notin OwnerPlaces /\ "idle" \notin OwnerPlaces
  BY DEF OwnerPlaces
<1> QED BY <1>1, <1>3, <1>4, <1>5, <1>6, CallBackend

LEMMA DeinitLockBackend ==
    ASSUME Inv, NEW t \in TimerTasks, DeinitLock(t)
    PROVE  Inv'
<1>1. /\ CanRun(t) /\ pc[t] = "idle" /\ pc' = [pc EXCEPT ![t] = "deinit"]
      /\ Goto(t, "deinit") /\ UNCHANGED <<tables, cpu, op, raise>> /\ arg' = arg
      /\ UNCHANGED <<vector, record, running, op, initialized, handle>>
  BY DEF DeinitLock, Goto, tables, cpu
<1>2. InterruptInv /\ AlarmInv
  BY DEF Inv, BackendInv
<1>3. InterruptInv' /\ AlarmInv'
  BY <1>2, DeinitLockAlarms
<1>4. /\ t \in Contexts /\ Place(t) = "idle" /\ Place(t)' = "deinit"
      /\ \A q \in Contexts : q # t => Place(q)' = Place(q)
  BY <1>1, <1>2, CallMoves DEF TimerLabels
<1>5. CompareKept'
  BY <1>4 DEF CompareKept, RevisionPlaces
<1>6. "deinit" \notin OwnerPlaces /\ "idle" \notin OwnerPlaces
  BY DEF OwnerPlaces
<1> QED BY <1>1, <1>3, <1>4, <1>5, <1>6, CallBackend

LEMMA SetAlarmBackend ==
    ASSUME Inv, NEW t \in TimerTasks, SetAlarm(t)
    PROVE  Inv'
<1>1. /\ CanRun(t) /\ pc[t] = "setLock" /\ pc' = [pc EXCEPT ![t] = "cancelOld"]
      /\ Goto(t, "cancelOld") /\ UNCHANGED <<tables, cpu, op, raise>>
      /\ arg' = [arg EXCEPT ![t] = scheduled]
      /\ UNCHANGED <<vector, record, running, op, initialized, handle>>
  BY DEF SetAlarm, Goto, tables, cpu
<1>2. InterruptInv /\ AlarmInv /\ TimerTypes
  BY DEF Inv, BackendInv, AlarmInv
<1>3. InterruptInv' /\ AlarmInv'
  BY <1>2, SetAlarmAlarms
<1>4. /\ t \in Contexts /\ Place(t) = "setLock" /\ Place(t)' = "cancelOld"
      /\ \A q \in Contexts : q # t => Place(q)' = Place(q)
  <2>1. \A q \in Contexts : q # t => arg'[q] = arg[q]
    BY <1>1, <1>2 DEF TimerTypes
  <2> QED BY <1>1, <1>2, <2>1, CallMoves DEF TimerLabels
<1>5. CompareKept'
  BY <1>4 DEF CompareKept, RevisionPlaces
<1>6. "setLock" \notin OwnerPlaces /\ "cancelOld" \notin OwnerPlaces
  BY DEF OwnerPlaces
<1> QED BY <1>1, <1>3, <1>4, <1>5, <1>6, CallBackend

LEMMA DeinitDoneBackend ==
    ASSUME Inv, NEW t \in TimerTasks, DeinitDone(t)
    PROVE  Inv'
<1>1. /\ CanRun(t) /\ pc[t] = "deinitDone" /\ pc' = [pc EXCEPT ![t] = "idle"]
      /\ op' = [op EXCEPT ![t] = NoOp] /\ arg' = arg
      /\ UNCHANGED <<vector, record, controller, running, isr, raise>>
      /\ UNCHANGED <<initialized, handle>>
  BY DEF DeinitDone, Goto, tables, cpu, timerVars
<1>2. InterruptInv /\ AlarmInv /\ Initialization /\ t \in Contexts
  BY TimerAssumption DEF Inv, BackendInv, AlarmInv, Contexts
<1>3. InterruptInv' /\ AlarmInv'
  BY <1>2, DeinitDoneAlarms
<1>4. /\ op' \in [Contexts -> OpStates] /\ op'[t].then = "idle"
      /\ \A q \in Contexts : q # t => op'[q] = op[q]
  <2>1. op \in [Contexts -> OpStates] /\ NoOp.then = "idle"
    BY <1>2 DEF InterruptInv, InterruptTypes, NoOp
  <2> QED BY <1>1, <1>2, <2>1, ConstantTypes
<1>5. /\ Place(t) = "deinitDone" /\ Place(t)' = "idle"
      /\ \A q \in Contexts : q # t => Place(q)' = Place(q)
  BY <1>1, <1>2, <1>4, CallMove DEF TimerLabels
<1>6. CompareKept'
  BY <1>1, <1>2, <1>5 DEF CompareKept, Initialization, ClosedPlaces
<1>7. "deinitDone" \notin OwnerPlaces /\ "idle" \notin OwnerPlaces
  BY DEF OwnerPlaces
<1> QED BY <1>1, <1>2, <1>3, <1>4, <1>5, <1>6, <1>7, CallBackend

LEMMA CallSetAlarmBackend ==
    ASSUME Inv, NEW t \in TimerTasks, CallSetAlarm(t)
    PROVE  Inv'
<1>1. /\ CanRun(t) /\ pc[t] = "idle" /\ pc' = [pc EXCEPT ![t] = "setLock"]
      /\ Goto(t, "setLock") /\ UNCHANGED <<tables, cpu, op, raise>>
      /\ UNCHANGED <<vector, record, running, isr, op, raise>>
      /\ UNCHANGED <<generation, armed, initialized, handle, pendingGen, status, arg, alarms, served>>
  BY DEF CallSetAlarm, Goto, tables, cpu, timerVars, compareVars, expiryVars
<1>2. InterruptInv /\ AlarmInv /\ CompareKept
  BY DEF Inv, BackendInv
<1>3. InterruptInv' /\ AlarmInv'
  BY <1>2, CallSetAlarmAlarms
<1>4. /\ t \in Contexts /\ Place(t) = "idle" /\ Place(t)' = "setLock"
      /\ \A q \in Contexts : q # t => Place(q)' = Place(q)
      /\ \A g : Delivering(g)' <=> Delivering(g)
  BY <1>1, <1>2, CallMoves DEF TimerLabels
<1>5. CompareKept'
  <2>1. \A q \in TimerTasks : Place(q) \in RevisionPlaces => Place(q)' \in RevisionPlaces
    BY <1>4, TimerAssumption DEF RevisionPlaces, Contexts
  <2>2. Asserted => Asserted'
    <3>1. pc[t] \notin RaiseLabels
      BY <1>1 DEF RaiseLabels
    <3> QED BY <1>1, <1>2, <1>4, <3>1, AssertedQuiet
  <2>3. Delivering(generation) => Delivering(generation)'
    BY <1>1, <1>4 DEF Delivering
  <2> QED BY <1>1, <1>2, <2>1, <2>2, <2>3, CompareFrame
<1>6. "setLock" \notin OwnerPlaces /\ "idle" \notin OwnerPlaces
  BY DEF OwnerPlaces
<1> QED BY <1>1, <1>3, <1>4, <1>5, <1>6, CallBackend

LEMMA ScheduleSystemTimeAlarmBackend ==
    ASSUME Inv, NEW t \in TimerTasks, ScheduleSystemTimeAlarm(t)
    PROVE  Inv'
<1>1. /\ CanRun(t) /\ pc[t] = "schedule" /\ pc' = [pc EXCEPT ![t] = "store"]
      /\ Goto(t, "store") /\ UNCHANGED <<tables, cpu, op, raise>>
      /\ arg' = [arg EXCEPT ![t] = generation]
      /\ generation' = generation /\ alarms' = alarms \cup {generation}
      /\ UNCHANGED <<vector, record, running, op, initialized, handle>>
  BY DEF ScheduleSystemTimeAlarm, Goto, tables, cpu, compareVars
<1>2. InterruptInv /\ AlarmInv /\ TimerTypes
  BY DEF Inv, BackendInv, AlarmInv
<1>3. InterruptInv' /\ AlarmInv'
  BY <1>2, ScheduleSystemTimeAlarmAlarms
<1>4. /\ t \in Contexts /\ Place(t) = "schedule" /\ Place(t)' = "store"
      /\ \A q \in Contexts : q # t => Place(q)' = Place(q)
  <2>1. \A q \in Contexts : q # t => arg'[q] = arg[q]
    BY <1>1, <1>2 DEF TimerTypes
  <2> QED BY <1>1, <1>2, <2>1, CallMoves DEF TimerLabels
<1>5. CompareKept'
  BY <1>1 DEF CompareKept
<1>6. "schedule" \notin OwnerPlaces /\ "store" \notin OwnerPlaces
  BY DEF OwnerPlaces
<1> QED BY <1>1, <1>3, <1>4, <1>5, <1>6, CallBackend

LEMMA StoreAlarmBackend ==
    ASSUME Inv, NEW t \in TimerTasks, StoreAlarm(t)
    PROVE  Inv'
<1>1. PICK label \in {"idle", "cancelNew"} : Goto(t, label)
  BY DEF StoreAlarm
<1>2. /\ CanRun(t) /\ pc[t] = "store" /\ pc' = [pc EXCEPT ![t] = label]
      /\ UNCHANGED <<tables, cpu, op, raise>>
      /\ arg' = [arg EXCEPT ![t] = 0] \/ arg' = arg
      /\ UNCHANGED <<vector, record, running, isr, op, raise>>
      /\ UNCHANGED <<generation, armed, initialized, handle, pendingGen, status, alarms, served>>
  BY <1>1 DEF StoreAlarm, Goto, Forget, tables, cpu, expiryVars
<1>3. InterruptInv /\ AlarmInv /\ TimerTypes /\ CompareKept
  BY DEF Inv, BackendInv, AlarmInv
<1>4. InterruptInv' /\ AlarmInv'
  BY <1>3, StoreAlarmAlarms
<1>5. /\ t \in Contexts /\ Place(t) = "store" /\ Place(t)' = label
      /\ \A q \in Contexts : q # t => Place(q)' = Place(q)
      /\ \A g : Delivering(g)' <=> Delivering(g)
  <2>1. \A q \in Contexts : q # t => arg'[q] = arg[q]
    BY <1>2, <1>3 DEF TimerTypes
  <2>2. pc[t] \in TimerLabels \cup {"idle"} /\ label \in TimerLabels \cup {"idle"}
    BY <1>1, <1>2 DEF TimerLabels
  <2> QED BY <1>1, <1>2, <1>3, <2>1, <2>2, CallMoves
<1>6. CompareKept'
  <2>1. \A q \in TimerTasks : Place(q) \in RevisionPlaces => Place(q)' \in RevisionPlaces
    BY <1>5, TimerAssumption DEF RevisionPlaces, Contexts
  <2>2. Asserted => Asserted'
    <3>1. pc[t] \notin RaiseLabels
      BY <1>2 DEF RaiseLabels
    <3> QED BY <1>2, <1>3, <1>5, <3>1, AssertedQuiet
  <2>3. Delivering(generation) => Delivering(generation)'
    BY <1>2, <1>5 DEF Delivering
  <2> QED BY <1>2, <1>3, <2>1, <2>2, <2>3, CompareFrame
<1>7. label \notin OwnerPlaces \cup {"publish", "initDone"} /\ "store" \notin OwnerPlaces
  BY <1>1 DEF OwnerPlaces
<1> QED BY <1>2, <1>4, <1>5, <1>6, <1>7, CallBackend

\* With the compare armed esp_timer_impl_set_alarm_id goes on to register it.
LEMMA CancelBackend ==
    ASSUME Inv, NEW t \in TimerTasks, NEW from, NEW to, CancelGoes(from, to),
           from = "cancelOld" /\ armed => to = "schedule",
           Cancel(t, from, to)
    PROVE  Inv'
<1>1. /\ CanRun(t) /\ pc[t] = from /\ pc' = [pc EXCEPT ![t] = to] /\ Goto(t, to)
      /\ UNCHANGED <<tables, cpu, op, raise>>
      /\ alarms' = alarms \ {arg[t]} /\ arg' = [arg EXCEPT ![t] = 0]
      /\ UNCHANGED <<vector, record, running, isr, op, raise>>
      /\ UNCHANGED <<generation, armed, initialized, handle, pendingGen, status, served>>
  BY DEF Cancel, Forget, Goto, tables, cpu, compareVars, expiryVars
<1>2. InterruptInv /\ AlarmInv /\ TimerTypes /\ Initialization /\ CallKnows /\ Generations
      /\ CompareKept
  BY DEF Inv, BackendInv, AlarmInv
<1>3. InterruptInv' /\ AlarmInv'
  BY <1>2, CancelAlarms
<1>4. /\ t \in Contexts /\ Place(t) = from /\ Place(t)' = to
      /\ \A q \in Contexts : q # t => Place(q)' = Place(q)
      /\ \A g : Delivering(g)' <=> Delivering(g)
  <2>1. \A q \in Contexts : q # t => arg'[q] = arg[q]
    BY <1>1, <1>2 DEF TimerTypes
  <2>2. pc[t] \in TimerLabels \cup {"idle"} /\ to \in TimerLabels \cup {"idle"}
    BY <1>1 DEF TimerLabels, CancelGoes
  <2> QED BY <1>1, <1>2, <2>1, <2>2, CallMoves
<1>5. CompareKept'
  <2>1. CASE from = "deinitCancel"
    BY <1>1, <1>2, <1>4, <2>1 DEF CompareKept, Initialization, ClosedPlaces
  <2>2. CASE from = "cancelOld"
    BY <1>1, <1>4, <2>2 DEF CompareKept, RevisionPlaces
  <2>3. CASE from = "cancelNew"
    <3>1. generation \notin alarms
      BY <1>2, <1>4, <2>3 DEF CallKnows, Generations
    <3>2. \A q \in TimerTasks : Place(q) \in RevisionPlaces => Place(q)' \in RevisionPlaces
      BY <1>4, <2>3, TimerAssumption DEF RevisionPlaces, Contexts
    <3>3. Asserted => Asserted'
      <4>1. pc[t] \notin RaiseLabels
        BY <1>1, <2>3 DEF RaiseLabels
      <4> QED BY <1>1, <1>2, <1>4, <4>1, AssertedQuiet
    <3>4. Delivering(generation) => Delivering(generation)'
      BY <1>1, <1>4 DEF Delivering
    <3> QED BY <1>1, <1>2, <3>1, <3>2, <3>3, <3>4, CompareFrame
  <2> QED BY <2>1, <2>2, <2>3 DEF CancelGoes
<1>6. to \notin {"publish", "initDone"} /\ (to \in OwnerPlaces <=> Place(t) \in OwnerPlaces)
  BY <1>4 DEF CancelGoes, OwnerPlaces
<1> QED BY <1>1, <1>3, <1>4, <1>5, <1>6, CallBackend

LEMMA InitDoneBackend ==
    ASSUME Inv, NEW t \in TimerTasks, InitDone(t)
    PROVE  Inv'
<1>1. /\ CanRun(t) /\ pc[t] = "initDone" /\ pc' = [pc EXCEPT ![t] = "idle"]
      /\ handle' = op[t].record /\ armed' = FALSE /\ initialized' = TRUE
      /\ op' = [op EXCEPT ![t] = NoOp] /\ arg' = arg
      /\ UNCHANGED <<vector, record, controller, running, isr, raise>>
  BY DEF InitDone, Goto, tables, cpu
<1>2. /\ InterruptInv /\ AlarmInv /\ Initialization /\ Calls /\ t \in Contexts
      /\ OneRecord /\ TimerRecord /\ TimerPublish
  BY TimerAssumption DEF Inv, BackendInv, AlarmInv, Contexts
<1>3. InterruptInv' /\ AlarmInv'
  BY <1>2, InitDoneAlarms
<1>4. /\ op' \in [Contexts -> OpStates] /\ op'[t].then = "idle"
      /\ \A q \in Contexts : q # t => op'[q] = op[q]
  <2>1. op \in [Contexts -> OpStates] /\ NoOp.then = "idle"
    BY <1>2 DEF InterruptInv, InterruptTypes, NoOp
  <2> QED BY <1>1, <1>2, <2>1, ConstantTypes
<1>5. /\ Place(t) = "initDone" /\ Place(t)' = "idle"
      /\ \A q \in Contexts : q # t => Place(q)' = Place(q)
  BY <1>1, <1>2, <1>4, CallMove DEF TimerLabels
<1>6. TimerPublish'
  BY <1>1, <1>2, <1>4, TablesQuiet
<1>7. \A q \in TimerTasks : (Place(q) \in OwnerPlaces <=> q = t) /\ Place(q)' \notin OwnerPlaces
  <2>1. Place(t) \in OwnerPlaces /\ Place(t) \in TimerLabels /\ Place(t)' \notin OwnerPlaces
        /\ OwnerPlaces \subseteq TimerLabels
    BY <1>5 DEF OwnerPlaces, TimerLabels
  <2>2. \A q \in TimerTasks : q \in Contexts
    BY TimerAssumption DEF Contexts
  <2> QED BY <1>2, <1>5, <2>1, <2>2 DEF Calls
<1>8. op[t].record \in Records /\ \A r \in Records : record[r].handler = "timer" <=> r = op[t].record
  <2>1. ~initialized
    BY <1>2, <1>5 DEF Initialization, ClosedPlaces
  <2> QED BY <1>2, <1>7, <2>1 DEF OneRecord, OwnsRecord
<1>9. OneRecord'
  BY <1>1, <1>7, <1>8 DEF OneRecord, OwnsRecord
<1>10. TimerRecord'
  <2>1. "initDone" \in OwnerPlaces
    BY DEF OwnerPlaces
  <2> QED BY <1>1, <1>2, <1>5, <1>7, <2>1 DEF TimerRecord
<1>11. CompareKept'
  BY <1>1 DEF CompareKept
<1> QED BY <1>3, <1>6, <1>9, <1>10, <1>11 DEF Inv, BackendInv

LEMMA DeinitBackend ==
    ASSUME Inv, NEW t \in TimerTasks, Deinit(t)
    PROVE  Inv'
<1>1. /\ CanRun(t) /\ pc[t] = "deinit" /\ pc' = [pc EXCEPT ![t] = "deinitCancel"]
      /\ initialized' = FALSE /\ arg' = [arg EXCEPT ![t] = scheduled]
      /\ op' = [op EXCEPT ![t].record = handle]
      /\ UNCHANGED <<vector, record, controller, running, isr, raise>>
  BY DEF Deinit, Goto, tables, cpu
<1>2. /\ InterruptInv /\ AlarmInv /\ Initialization /\ Calls /\ TimerTypes /\ t \in Contexts
      /\ OneRecord /\ TimerRecord /\ TimerPublish
  BY TimerAssumption DEF Inv, BackendInv, AlarmInv, Contexts
<1>3. InterruptInv' /\ AlarmInv'
  BY <1>2, DeinitAlarms
<1>4. op'[t].record = handle /\ \A q \in Contexts : q # t => op'[q] = op[q]
  BY <1>1, <1>2 DEF InterruptInv, InterruptTypes, OpStates
<1>5. /\ Place(t) = "deinit" /\ Place(t)' = "deinitCancel"
      /\ \A q \in Contexts : q # t => Place(q)' = Place(q)
  <2>1. pc'[t] = "deinitCancel" /\ \A q \in Contexts : q # t => pc'[q] = pc[q]
    BY <1>1, <1>2 DEF InterruptInv, InterruptTypes
  <2> QED BY <1>1, <1>4, <2>1 DEF Place, TableLabels
<1>6. TimerPublish'
  BY <1>1, <1>2, <1>4, TablesQuiet
<1>7. initialized
  BY <1>2, <1>5 DEF Initialization, OpenPlaces
<1>8. \A q \in TimerTasks : q \in Contexts /\ Place(q) \notin OwnerPlaces
                            /\ (Place(q)' \in OwnerPlaces <=> q = t)
  <2>1. OwnerPlaces \subseteq ClosedPlaces /\ "deinitCancel" \in OwnerPlaces
    BY DEF OwnerPlaces, ClosedPlaces
  <2>2. \A q \in TimerTasks : q \in Contexts
    BY TimerAssumption DEF Contexts
  <2> QED BY <1>2, <1>5, <1>7, <2>1, <2>2 DEF Initialization
<1>9. handle \in Records /\ \A r \in Records : record[r].handler = "timer" <=> r = handle
  BY <1>2, <1>7, <1>8 DEF OneRecord, OwnsRecord
<1>10. OneRecord'
  BY <1>1, <1>4, <1>8, <1>9 DEF OneRecord, OwnsRecord
<1>11. TimerRecord'
  <2>1. "initDone" \in OwnerPlaces
    BY DEF OwnerPlaces
  <2> QED BY <1>1, <1>2, <1>5, <1>8, <2>1 DEF TimerRecord
<1>12. CompareKept'
  BY <1>1 DEF CompareKept
<1> QED BY <1>3, <1>6, <1>10, <1>11, <1>12 DEF Inv, BackendInv

-----------------------------------------------------------------------------
(* The alarm's callback and the ISR *)

LEMMA ClaimAlarmBackend ==
    ASSUME Inv, NEW p \in Deliverers, ClaimAlarm(p)
    PROVE  Inv'
<1>1. /\ CanRun(p) /\ pc[p] = "idle" /\ \A q \in Deliverers : pc[q] = "idle"
      /\ pc' = [pc EXCEPT ![p] = "deliver"] /\ Goto(p, "deliver")
      /\ UNCHANGED <<tables, cpu, op, raise>>
      /\ UNCHANGED <<vector, record, running, isr, op, raise>>
      /\ UNCHANGED <<generation, armed, initialized, handle, pendingGen, status, served>>
  BY DEF ClaimAlarm, Goto, tables, cpu, compareVars, expiryVars
<1>2. PICK g \in alarms : alarms' = alarms \ {g} /\ arg' = [arg EXCEPT ![p] = g]
  BY DEF ClaimAlarm
<1>3. InterruptInv /\ AlarmInv /\ TimerTypes /\ CompareKept
  BY DEF Inv, BackendInv, AlarmInv
<1>4. InterruptInv' /\ AlarmInv'
  BY <1>3, ClaimAlarmAlarms
<1>5. /\ p \in Contexts /\ Place(p) = "idle" /\ Place(p)' = "deliver"
      /\ \A q \in Contexts : q # p => Place(q)' = Place(q)
  BY <1>1, <1>3, DeliveryMove
<1>6. pc'[p] = "deliver" /\ arg'[p] = g
  BY <1>1, <1>2, <1>3, <1>5 DEF InterruptInv, InterruptTypes, TimerTypes
<1>7. CompareKept'
  <2>1. \A q \in TimerTasks : Place(q) \in RevisionPlaces => Place(q)' \in RevisionPlaces
    BY <1>5, TimerAssumption DEF RevisionPlaces, Contexts
  <2>2. Asserted => Asserted'
    <3>1. pc[p] \notin RaiseLabels
      BY <1>1 DEF RaiseLabels
    <3> QED BY <1>1, <1>3, <1>5, <3>1, AssertedQuiet
  <2>3. ~Delivering(generation)
    BY <1>1 DEF Delivering, DeliveryLabels
  <2>4. generation \in alarms => generation \in alarms' \/ Delivering(generation)'
    BY <1>1, <1>2, <1>6 DEF Delivering, DeliveryLabels
  <2> QED BY <1>1, <1>3, <2>1, <2>2, <2>3, <2>4, CompareFrame
<1>8. "deliver" \notin OwnerPlaces /\ "idle" \notin OwnerPlaces
  BY DEF OwnerPlaces
<1> QED BY <1>1, <1>4, <1>5, <1>7, <1>8, CallBackend

LEMMA DeliverLockBackend ==
    ASSUME Inv, NEW p \in Deliverers, DeliverLock(p)
    PROVE  Inv'
<1>1. /\ CanRun(p) /\ pc[p] = "deliver"
      /\ pc' = [pc EXCEPT ![p] = "delivering"] /\ Goto(p, "delivering")
      /\ UNCHANGED <<tables, cpu, op, raise>>
      /\ UNCHANGED <<vector, record, running, isr, op, raise>>
      /\ UNCHANGED <<generation, armed, initialized, handle, pendingGen, status, arg, alarms, served>>
  BY DEF DeliverLock, Goto, tables, cpu, compareVars, expiryVars
<1>2. InterruptInv /\ AlarmInv /\ CompareKept
  BY DEF Inv, BackendInv
<1>3. InterruptInv' /\ AlarmInv'
  BY <1>2, DeliverLockAlarms
<1>4. /\ p \in Contexts /\ Place(p) = "deliver" /\ Place(p)' = "delivering"
      /\ \A q \in Contexts : q # p => Place(q)' = Place(q)
  BY <1>1, <1>2, DeliveryMove
<1>5. CompareKept'
  <2>1. \A q \in TimerTasks : Place(q) \in RevisionPlaces => Place(q)' \in RevisionPlaces
    BY <1>4, TimerAssumption DEF RevisionPlaces, Contexts
  <2>2. Asserted => Asserted'
    <3>1. pc[p] \notin RaiseLabels
      BY <1>1 DEF RaiseLabels
    <3> QED BY <1>1, <1>2, <1>4, <3>1, AssertedQuiet
  <2>3. Delivering(generation) => Delivering(generation)'
    <3>1. pc'[p] = "delivering" /\ \A q \in Contexts : q # p => pc'[q] = pc[q]
      BY <1>1, <1>2, <1>4 DEF InterruptInv, InterruptTypes
    <3> QED BY <1>1, <3>1, TimerAssumption DEF Delivering, DeliveryLabels
  <2> QED BY <1>1, <1>2, <2>1, <2>2, <2>3, CompareFrame
<1>6. "deliver" \notin OwnerPlaces /\ "delivering" \notin OwnerPlaces
  BY DEF OwnerPlaces
<1> QED BY <1>1, <1>3, <1>4, <1>5, <1>6, CallBackend

\* An expiry of the current compare is asserted: the scan for the timer's vector begins.
LEMMA DeliverCompareBackend ==
    ASSUME Inv, NEW p \in Deliverers, DeliverCompare(p)
    PROVE  Inv'
<1>1. /\ CanRun(p) /\ pc[p] = "delivering" /\ arg' = [arg EXCEPT ![p] = 0] /\ lock' = NoContext
      /\ UNCHANGED <<vector, record, controller, running, isr, op>>
      /\ UNCHANGED <<generation, armed, initialized, handle, alarms, served>>
  BY DEF DeliverCompare, Forget, tables, cpu
<1>2. /\ InterruptInv /\ AlarmInv /\ Calls /\ Initialization /\ OneRecord /\ TimerRecord
      /\ TimerPublish /\ CompareKept /\ InterruptTypes
  BY DEF Inv, BackendInv, AlarmInv, InterruptInv
<1>3. InterruptInv' /\ AlarmInv'
  BY <1>2, DeliverCompareAlarms
<1>4. p \in Contexts /\ Place(p) = "delivering"
  BY <1>1, TimerAssumption DEF Place, TableLabels
<1>5. PICK label \in {"idle", "scan"} : pc' = [pc EXCEPT ![p] = label]
  BY DEF DeliverCompare, BeginRaise, Goto
<1>6. pc'[p] = label /\ \A q \in Contexts : q # p => pc'[q] = pc[q]
  BY <1>2, <1>4, <1>5 DEF InterruptTypes
<1>7. /\ Place(p)' = label /\ \A q \in Contexts : q # p => Place(q)' = Place(q)
      /\ \A g : Delivering(g) <=> g = arg[p]
  <2>1. /\ Place(p)' \in {"idle", "scan"}
        /\ \A q \in Contexts : q # p => Place(q)' = Place(q)
        /\ \A g : Delivering(g) <=> g = arg[p]
    BY <1>1, <1>2, <1>4, <1>5, <1>6, DeliveryEnds
  <2>2. Place(p)' = label
    BY <1>5, <1>6 DEF Place, TableLabels
  <2> QED BY <2>1, <2>2
<1>8. CompareKept'
  <2>1. CASE ~(initialized /\ arg[p] = generation)
    <3>1. pendingGen' = pendingGen /\ status' = status /\ raise' = raise
      BY <2>1 DEF DeliverCompare
    <3>2. \A q \in TimerTasks : Place(q) \in RevisionPlaces => Place(q)' \in RevisionPlaces
      BY <1>4, <1>7, TimerAssumption DEF RevisionPlaces, Contexts
    <3>3. Asserted => Asserted'
      <4>1. pc[p] \notin RaiseLabels
        BY <1>1 DEF RaiseLabels
      <4> QED BY <1>1, <1>2, <1>4, <1>5, <3>1, <4>1, AssertedQuiet
    <3>4. initialized => ~Delivering(generation)
      BY <1>7, <2>1
    <3> QED BY <1>1, <1>2, <3>2, <3>3, <3>4, CompareFrame
  <2>2. CASE initialized /\ arg[p] = generation
    <3>1. BeginRaise(p, TimerSource, {}) /\ pendingGen' = generation /\ status' = TRUE
      BY <2>2 DEF DeliverCompare, PublishExpiry
    <3>2. raise'[p].source = TimerSource /\ raise'[p].vector = 1
      <4>1. TimerSource \in Sources /\ {} \in SUBSET Filters
        BY DEF Sources
      <4> QED BY <1>2, <1>4, <3>1, <4>1, BeginRaiseUpdate
    <3>3. pc'[p] = "scan"
      BY <1>2, <1>4, <3>1 DEF BeginRaise, Goto, InterruptTypes
    <3>4. record[handle].vector \in Vectors
      BY <1>2, <2>2, HandleIs
    <3>5. 1 <= record[handle].vector
      BY <3>4, CapacityAssumption DEF Vectors
    <3>6. StillToMark(p)'
      BY <1>1, <3>2, <3>3, <3>5 DEF StillToMark
    <3>7. Asserted'
      BY <1>1, <3>1, <3>6 DEF Asserted
    <3> QED BY <3>7 DEF CompareKept
  <2> QED BY <2>1, <2>2
<1>9. label \notin OwnerPlaces \cup {"publish", "initDone"} /\ "delivering" \notin OwnerPlaces
  BY <1>5 DEF OwnerPlaces
<1> QED BY <1>1, <1>3, <1>4, <1>5, <1>7, <1>8, <1>9, CallBackend

\* The ISR keeps the tables and moves no context.
LEMMA HandlerBackend ==
    ASSUME Inv, InterruptInv', AlarmInv', CompareKept',
           UNCHANGED <<vector, record, running, pc, op, initialized, handle>>
    PROVE  Inv'
<1>1. OneRecord /\ TimerRecord /\ TimerPublish
  BY DEF Inv, BackendInv
<1>2. \A t \in TimerTasks : Place(t)' = Place(t)
  BY DEF Place
<1>3. TimerRecordKept
  BY DEF TimerRecordKept
<1>4. OneRecord' /\ TimerRecord'
  BY <1>1, <1>2, <1>3, OwnerFrame
<1>5. TimerPublish'
  BY <1>1 DEF TimerPublish
<1> QED BY <1>4, <1>5 DEF Inv, BackendInv

LEMMA TimerInterruptBackend ==
    ASSUME Inv, TimerInterrupt
    PROVE  Inv'
<1>1. /\ isr.vector # 0 /\ isr.stage = "call" /\ record[isr.next].handler = "timer"
      /\ UNCHANGED <<vector, record, running, pc, op, raise>>
      /\ UNCHANGED <<generation, armed, initialized, handle, pendingGen, arg, alarms, served>>
  BY DEF TimerInterrupt, tables, compareVars
<1>2. InterruptInv /\ AlarmInv /\ Initialization /\ CompareKept
  BY DEF Inv, BackendInv, AlarmInv
<1>3. InterruptInv' /\ AlarmInv'
  BY <1>2, TimerInterruptAlarms
<1>4. CompareKept'
  <2>1. \A t \in TimerTasks : Place(t)' = Place(t)
    BY <1>1 DEF Place
  <2>2. initialized /\ Asserted => isr'.stage = "upper"
    <3> SUFFICES ASSUME initialized, Asserted
                 PROVE  isr'.stage = "upper"
      OBVIOUS
    <3>1. isr' = [isr EXCEPT !.stage = "upper"]
      BY <1>2 DEF Asserted, Initialization, TimerInterrupt, ExpiryIsCurrent
    <3> QED BY <1>2, <3>1 DEF InterruptInv, InterruptTypes, DispatchStates
  <2>3. Delivering(generation) => Delivering(generation)'
    BY <1>1 DEF Delivering
  <2> QED BY <1>1, <1>2, <2>1, <2>2, <2>3, CompareFrame
<1> QED BY <1>1, <1>3, <1>4, HandlerBackend

LEMMA UpperHandlerBackend ==
    ASSUME Inv, UpperHandler
    PROVE  Inv'
<1>1. /\ UNCHANGED <<vector, record, running, pc, op, generation, initialized, handle>>
      /\ served' = served \cup {generation}
  BY DEF UpperHandler, tables, compareVars
<1>2. InterruptInv /\ AlarmInv
  BY DEF Inv, BackendInv
<1>3. InterruptInv' /\ AlarmInv'
  BY <1>2, UpperHandlerAlarms
<1>4. CompareKept'
  BY <1>1 DEF CompareKept
<1> QED BY <1>1, <1>3, <1>4, HandlerBackend

-----------------------------------------------------------------------------
(* The invariant holds *)

LEMMA InitInv ==
    ASSUME Init
    PROVE  Inv
<1>1. /\ lock = NoContext /\ generation = 0 /\ armed = FALSE /\ scheduled = 0
      /\ initialized = FALSE /\ handle = 0 /\ pendingGen = 0 /\ status = FALSE /\ upper = FALSE
      /\ arg = [p \in Contexts |-> 0] /\ alarms = {} /\ served = {}
      /\ isr.stage = "record"
      /\ \A p \in Contexts : pc[p] = "idle"
      /\ \A r \in Records : record[r].handler = "none"
  BY DEF Init, InterruptInit, NoDispatch, FreeRecord
<1>2. InterruptInv /\ running \in Contexts
  BY InterruptInitHolds DEF Init, InterruptInv, InterruptTypes, Contexts
<1>3. \A p \in Contexts : Place(p) = "idle"
  BY <1>1 DEF Place, TableLabels
<1>4. \A t \in TimerTasks : Place(t) = "idle"
  BY <1>3, TimerAssumption DEF Contexts
<1>5. TimerTypes
  BY <1>1 DEF TimerTypes
<1>6. Calls
  BY <1>3 DEF Calls, TimerLabels, DeliveryLabels
<1>7. LockHeld
  BY <1>1, <1>3, TimerAssumption DEF LockHeld, LockPlaces
<1>8. Initialization
  BY <1>1, <1>3 DEF Initialization, ClosedPlaces, OpenPlaces
<1>9. AlarmsKnown /\ ScheduledKnown /\ ExpiryTaken
  BY <1>1 DEF AlarmsKnown, ScheduledKnown, ExpiryTaken
<1>10. CallKnows
  BY <1>4 DEF CallKnows, TimerLabels
<1>11. Generations
  BY <1>1, <1>3 DEF Generations, DeliveryLabels
<1>12. OneRecord /\ TimerRecord
  BY <1>1, <1>4 DEF OneRecord, OwnsRecord, TimerRecord, OwnerPlaces
<1>13. TimerPublish
  BY <1>1, <1>2 DEF TimerPublish
<1>14. CompareKept
  BY <1>1 DEF CompareKept
<1> QED BY <1>2, <1>5, <1>6, <1>7, <1>8, <1>9, <1>10, <1>11, <1>12, <1>13, <1>14
        DEF Inv, BackendInv, AlarmInv

LEMMA TimerStepKeeps ==
    ASSUME Inv, NEW t \in TimerTasks, TimerStep(t)
    PROVE  Inv'
<1>1. CASE Cancel(t, "deinitCancel", "deinitDisable")
  <2>1. CancelGoes("deinitCancel", "deinitDisable")
    BY DEF CancelGoes
  <2> QED BY <1>1, <2>1, CancelBackend
<1>2. CASE Cancel(t, "cancelOld", IF armed THEN "schedule" ELSE "idle")
  <2>1. CASE armed
    <3>1. Cancel(t, "cancelOld", "schedule") /\ CancelGoes("cancelOld", "schedule")
      BY <1>2, <2>1 DEF CancelGoes
    <3> QED BY <3>1, CancelBackend
  <2>2. CASE ~armed
    <3>1. Cancel(t, "cancelOld", "idle") /\ CancelGoes("cancelOld", "idle")
      BY <1>2, <2>2 DEF CancelGoes
    <3> QED BY <2>2, <3>1, CancelBackend
  <2> QED BY <2>1, <2>2
<1>3. CASE Cancel(t, "cancelNew", "idle")
  <2>1. CancelGoes("cancelNew", "idle")
    BY DEF CancelGoes
  <2> QED BY <1>3, <2>1, CancelBackend
<1>4. CASE InitLock(t) \/ InitAllocate(t) \/ InitFails(t) \/ InitEnable(t) \/ InitDone(t)
  BY <1>4, InitLockBackend, InitAllocateBackend, InitFailsBackend, EnablementBackend,
     InitDoneBackend
<1>5. CASE DeinitLock(t) \/ Deinit(t) \/ DeinitDisable(t) \/ DeinitFree(t) \/ DeinitDone(t)
  BY <1>5, DeinitLockBackend, DeinitBackend, EnablementBackend, DeinitFreeBackend,
     DeinitDoneBackend
<1>6. CASE CallSetAlarm(t) \/ SetAlarm(t) \/ ScheduleSystemTimeAlarm(t) \/ StoreAlarm(t)
  BY <1>6, CallSetAlarmBackend, SetAlarmBackend, ScheduleSystemTimeAlarmBackend,
     StoreAlarmBackend
<1> QED BY <1>1, <1>2, <1>3, <1>4, <1>5, <1>6 DEF TimerStep

LEMMA NextInv ==
    ASSUME Inv, Next
    PROVE  Inv'
BY InterruptNextBackend, TimerStepKeeps, ClaimAlarmBackend, DeliverLockBackend,
   DeliverCompareBackend, TimerInterruptBackend, UpperHandlerBackend DEF Next

LEMMA StutterInv ==
    ASSUME Inv, UNCHANGED vars
    PROVE  Inv'
<1>1. /\ UNCHANGED <<interruptVars, timerVars>>
      /\ UNCHANGED <<vector, record, running, isr, pc, op, raise>>
  BY DEF vars, interruptVars, tables, cpu
<1>2. InterruptInv /\ BackendInv /\ TimerPublish
  BY DEF Inv, BackendInv
<1>3. InterruptInv'
  BY <1>1, <1>2, UnchangedStep
<1>4. PlacesKept /\ OwnersKept /\ TimerRecordKept
  BY <1>1 DEF PlacesKept, OwnersKept, TimerRecordKept, Place
<1>5. TimerPublish'
  BY <1>1, <1>2 DEF TimerPublish
<1>6. Asserted => Asserted'
  BY <1>1 DEF Asserted, StillToMark, timerVars, compareVars, expiryVars
<1>7. Kept
  BY <1>1, <1>4, <1>5, <1>6 DEF Kept
<1> QED BY <1>1, <1>2, <1>3, <1>7, KeptStep DEF Inv

\* The inductive invariant holds in every behaviour of the backend, the drivers, the
\* native threads and the ISR.
THEOREM InvariantHolds == Spec => []Inv
<1>1. Inv /\ [Next]_vars => Inv'
  BY NextInv, StutterInv
<1> QED BY <1>1, InitInv, PTL DEF Spec

-----------------------------------------------------------------------------
(* What the run checks *)

\* TypeOK: no operation on the tables, the backend or a raise leaves its types; no vector
\* or record is taken past kMaxVectorEpoch or kMaxRecordEpoch.
THEOREM TypeCorrect == Spec => []TypeOK
<1>1. Inv => TypeOK
  BY DEF Inv, BackendInv, AlarmInv, InterruptInv, InterruptTypes, TimerTypes, VectorStates,
         RecordStates, SlotStates, DispatchStates, OpStates, RaiseStates, TypeOK
<1> QED BY <1>1, InvariantHolds, PTL

\* MatchedIsServed: the record that raiseInterruptSource marked is served, whatever is
\* allocated, enabled and freed meanwhile: its marker goes on to set the interrupt
\* pending, it is pending, or DispatchSourceVector has yet to come to the record.
THEOREM MatchesAreServed == Spec => []MatchedIsServed
<1>1. Inv => MatchedIsServed
  BY InterruptConsequences DEF Inv
<1> QED BY <1>1, InvariantHolds, PTL

\* EnablementAgrees: between the critical sections of esp_intr_alloc, esp_intr_enable,
\* esp_intr_disable and esp_intr_free, the controller's interrupt of a vector is on
\* exactly when one of its records is.
THEOREM EnablementIsKept == Spec => []EnablementAgrees
<1>1. Inv => EnablementAgrees
  BY InterruptConsequences DEF Inv
<1> QED BY <1>1, InvariantHolds, PTL

\* AssertsOwnVector: a handle LoadVectorControllerHandle returned sets no interrupt pending
\* but that of the vector life its thread found, however the slot is used again.
THEOREM StaleHandlesDoNothing == Spec => []AssertsOwnVector
<1>1. Inv => AssertsOwnVector
  BY InterruptConsequences DEF Inv
<1> QED BY <1>1, InvariantHolds, PTL

\* AlarmsAccountedFor: between calls esp_timer_impl_init, esp_timer_impl_deinit and
\* esp_timer_impl_set_alarm_id leave at most the alarm in scheduled_alarm, still to be
\* delivered, and the timer's interrupt allocated exactly while initialized.
THEOREM NoStrayAlarms == Spec => []AlarmsAccountedFor
<1>1. Inv => AlarmsAccountedFor
  <2> SUFFICES ASSUME Inv, TimerIsIdle
               PROVE  /\ alarms \subseteq {scheduled}
                      /\ scheduled # 0 => /\ initialized /\ scheduled = generation
                                          /\ scheduled \in alarms \/ Delivering(scheduled)
                      /\ initialized <=> \E r \in Records : record[r].handler = "timer"
    BY DEF AlarmsAccountedFor
  <2>1. InterruptInv /\ Initialization /\ AlarmsKnown /\ ScheduledKnown /\ OneRecord
    BY DEF Inv, BackendInv, AlarmInv
  <2>2. \A t \in TimerTasks : Place(t) \notin TimerLabels
    BY <2>1, TimerIsIdleIs
  <2>3. \A t \in TimerTasks :
            Place(t) \notin CancelPlaces /\ Place(t) # "deinit" /\ Place(t) \notin OwnerPlaces
    BY <2>2 DEF TimerLabels, CancelPlaces, OwnerPlaces
  <2>4. alarms \subseteq {scheduled}
    BY <2>1, <2>3 DEF AlarmsKnown
  <2>5. scheduled # 0 => /\ initialized /\ scheduled = generation
                         /\ scheduled \in alarms \/ Delivering(scheduled)
    BY <2>1, <2>3 DEF ScheduledKnown, Initialization
  <2>6. initialized <=> \E r \in Records : record[r].handler = "timer"
    BY <2>1, <2>3 DEF OneRecord, OwnsRecord
  <2> QED BY <2>4, <2>5, <2>6
<1> QED BY <1>1, InvariantHolds, PTL

\* CompareNotLost: a compare esp_timer_impl_set_alarm_id requested is registered, claimed,
\* asserted through the source vector, about to be served or served: no re-arming, early
\* expiry or use of the tables by drivers loses it.
THEOREM ComparesAreKept == Spec => []CompareNotLost
<1>1. Inv => CompareNotLost
  <2> SUFFICES ASSUME Inv, TimerIsIdle, initialized, armed
               PROVE  \/ generation \in alarms
                      \/ Delivering(generation)
                      \/ Asserted
                      \/ isr.vector # 0 /\ isr.stage = "upper"
                      \/ generation \in served
    BY DEF CompareNotLost
  <2>1. InterruptInv /\ CompareKept
    BY DEF Inv, BackendInv
  <2>2. \A t \in TimerTasks : Place(t) \notin RevisionPlaces
    BY <2>1, TimerIsIdleIs DEF TimerLabels, RevisionPlaces
  <2>3. isr.stage = "upper" => isr.vector # 0
    BY <2>1 DEF InterruptInv, DispatchShape
  <2> QED BY <2>1, <2>2, <2>3 DEF CompareKept
<1> QED BY <1>1, InvariantHolds, PTL

\* ServedOnce: TimerInterrupt calls the common handler at most once for a compare, while
\* the backend is initialized, and never for a compare that has been replaced.
THEOREM ComparesAreServedOnce == Spec => ServedOnce
<1>1. Inv => (isr.stage = "upper" /\ isr' # isr => initialized /\ generation \notin served)
  BY DEF Inv, BackendInv, AlarmInv, ExpiryTaken
<1> QED BY <1>1, InvariantHolds, PTL DEF ServedOnce

-----------------------------------------------------------------------------
(* The backend implements OneShotTimer *)

\* Something of the current compare is on its way to the common handler.
CompareLive ==
    \/ generation \in alarms
    \/ Delivering(generation)
    \/ status /\ pendingGen = generation
    \/ isr.stage = "upper"

\* Only an armed compare of an open timer is on its way, and only such a one is registered.
ArmedShape ==
    /\ CompareLive => initialized /\ armed /\ ~Closing
    /\ armed => initialized
    /\ \A t \in TimerTasks : Place(t) = "schedule" => armed

Refines == Timer!Next \/ UNCHANGED Timer!vars

\* One context's move leaves a deinitialization where it is.
LEMMA ClosingQuiet ==
    ASSUME InterruptInv, NEW p \in Contexts, NEW label, pc' = [pc EXCEPT ![p] = label],
           pc[p] # "deinit", label # "deinit"
    PROVE  \A t \in TimerTasks : pc'[t] = "deinit" <=> pc[t] = "deinit"
BY TimerAssumption DEF InterruptInv, InterruptTypes, Contexts

LEMMA ClosingIs ==
    ASSUME InterruptInv, NEW t \in TimerTasks
    PROVE  pc[t] = "deinit" <=> Place(t) = "deinit"
<1>1. t \in Contexts /\ op[t].then # "deinit"
  BY TimerAssumption DEF Contexts, InterruptInv, TablesAgree, OpShape, Continuations
<1> QED BY <1>1 DEF Place, TableLabels

\* A generation that is still to come has nothing on its way.
LEMMA FreshGeneration ==
    ASSUME InterruptInv, AlarmInv
    PROVE  /\ generation + 1 \notin alarms /\ pendingGen # generation + 1
           /\ ~Delivering(generation + 1)
<1>1. TimerTypes /\ Generations
  BY DEF AlarmInv
<1>2. generation \in Nat /\ pendingGen \in Nat /\ alarms \in SUBSET Nat /\ arg \in [Contexts -> Nat]
  BY <1>1 DEF TimerTypes
<1>3. \A p \in Deliverers : Place(p) \in DeliveryLabels => arg[p] # generation + 1
  BY <1>1, <1>2, TimerAssumption DEF Generations
<1>4. ~Delivering(generation + 1)
  BY <1>3, DeliveringIs DEF InterruptInv, TablesAgree
<1> QED BY <1>1, <1>2, <1>4 DEF Generations

\* A step that puts nothing on its way.
LEMMA LiveFrame ==
    ASSUME UNCHANGED <<generation, pendingGen>>, alarms' \subseteq alarms, status' => status,
           \A g : Delivering(g)' <=> Delivering(g),
           isr'.stage = "upper" => isr.stage = "upper"
    PROVE  CompareLive' => CompareLive
<1>1. Delivering(generation)' => Delivering(generation)
  BY DEF Delivering
<1> QED BY <1>1 DEF CompareLive

\* Most steps are none of the abstract timer's.
LEMMA QuietRefines ==
    ASSUME Inv, Inv', ArmedShape, UNCHANGED <<initialized, generation, armed, served>>,
           CompareLive' => CompareLive,
           \A t \in TimerTasks : pc'[t] = "deinit" <=> pc[t] = "deinit",
           ~initialized \/ \A t \in TimerTasks : Place(t)' = "schedule" =>
                               Place(t) = "schedule" \/ armed
    PROVE  ArmedShape' /\ Refines
<1>1. Closing' <=> Closing
  BY DEF Closing
<1>2. \A t \in TimerTasks : Place(t)' = "schedule" => armed
  <2>1. CASE ~initialized
    <3>1. \A t \in TimerTasks : Place(t)' # "schedule"
      BY <2>1, TimerAssumption DEF Inv, BackendInv, AlarmInv, Initialization, OpenPlaces, Contexts
    <3> QED BY <3>1
  <2>2. CASE \A t \in TimerTasks : Place(t)' = "schedule" => Place(t) = "schedule" \/ armed
    BY <2>2 DEF ArmedShape
  <2> QED BY <2>1, <2>2
<1>3. ArmedShape'
  BY <1>1, <1>2 DEF ArmedShape
<1>4. UNCHANGED Timer!vars
  BY <1>1 DEF Timer!vars
<1> QED BY <1>3, <1>4 DEF Refines

\* The steps of the interrupt tables, of the drivers and of a raise.
LEMMA InterruptNextRefines ==
    ASSUME Inv, Inv', ArmedShape, InterruptNext, UNCHANGED timerVars
    PROVE  ArmedShape' /\ Refines
<1>1. InterruptInv /\ InterruptInv' /\ AlarmInv /\ TimerInv
  BY DEF Inv, BackendInv, AlarmInv, TimerInv
<1>2. PlacesKept /\ (isr'.stage = "upper" => isr.stage = "upper")
  BY <1>1, InterruptNextKept DEF Kept
<1>3. /\ UNCHANGED <<generation, pendingGen, alarms, status>>
      /\ UNCHANGED <<initialized, armed, served>>
  BY DEF timerVars, compareVars, expiryVars
<1>4. \A g : Delivering(g)' <=> Delivering(g)
  BY <1>1, <1>2, PlacesAlarms
<1>5. \A t \in TimerTasks : Place(t)' \in {"deinit", "schedule"} \/ Place(t) = "deinit" =>
          Place(t)' = Place(t)
  BY <1>2, TimerAssumption DEF PlacesKept, NotBackend, RaiseLabels, Contexts
<1>6. \A t \in TimerTasks : pc'[t] = "deinit" <=> pc[t] = "deinit"
  <2> SUFFICES ASSUME NEW t \in TimerTasks
               PROVE  pc'[t] = "deinit" <=> pc[t] = "deinit"
    OBVIOUS
  <2>1. pc[t] = "deinit" <=> Place(t) = "deinit"
    BY <1>1, ClosingIs
  <2>2. op'[t].then # "deinit"
    BY <1>1, TimerAssumption DEF InterruptInv, TablesAgree, OpShape, Continuations, Contexts
  <2>3. pc'[t] = "deinit" <=> Place(t)' = "deinit"
    BY <2>2 DEF Place, TableLabels
  <2> QED BY <1>5, <2>1, <2>3
<1>7. CompareLive' => CompareLive
  BY <1>2, <1>3, <1>4, LiveFrame
<1> QED BY <1>3, <1>5, <1>6, <1>7, QuietRefines

\* esp_timer_impl_init and esp_timer_impl_deinit at the interrupt tables.
LEMMA TableCallRefines ==
    ASSUME Inv, Inv', ArmedShape, NEW t \in TimerTasks,
           InitAllocate(t) \/ InitEnable(t) \/ DeinitDisable(t) \/ DeinitFree(t)
    PROVE  ArmedShape' /\ Refines
<1>1. PICK label \in TableLabels : pc' = [pc EXCEPT ![t] = label]
  BY DEF InitAllocate, InitEnable, DeinitDisable, DeinitFree, AllocateInterrupt, JoinVector,
         NewVector, SetRecordEnabled, esp_intr_free, AfterUnpublish, Goto, TableLabels
<1>2. /\ pc[t] \in {"init", "initEnable", "deinitDisable", "deinitFree"}
      /\ isr' = isr
      /\ UNCHANGED <<generation, pendingGen, alarms, status, arg>>
      /\ UNCHANGED <<initialized, armed, served>>
  BY DEF InitAllocate, InitEnable, DeinitDisable, DeinitFree, AllocateInterrupt, JoinVector,
         NewVector, SetRecordEnabled, esp_intr_free, cpu, timerVars, compareVars, expiryVars
<1>3. InterruptInv /\ Initialization /\ t \in Contexts /\ pc \in [Contexts -> Labels]
  BY TimerAssumption DEF Inv, BackendInv, AlarmInv, Contexts, InterruptInv, InterruptTypes
<1>4. ~initialized
  <2>1. Place(t) = pc[t]
    BY <1>2 DEF Place, TableLabels
  <2> QED BY <1>2, <1>3, <2>1 DEF Initialization, ClosedPlaces
<1>5. \A g : Delivering(g)' <=> Delivering(g)
  <2>1. label \notin DeliveryLabels /\ pc[t] \notin DeliveryLabels
    BY <1>1, <1>2 DEF TableLabels, DeliveryLabels
  <2> QED BY <1>1, <1>2, <1>3, <2>1, TimerAssumption DEF Delivering
<1>6. \A q \in TimerTasks : pc'[q] = "deinit" <=> pc[q] = "deinit"
  <2>1. pc[t] # "deinit" /\ label # "deinit"
    BY <1>1, <1>2 DEF TableLabels
  <2> QED BY <1>1, <1>3, <2>1, ClosingQuiet
<1>7. CompareLive' => CompareLive
  BY <1>2, <1>5, LiveFrame
<1> QED BY <1>2, <1>4, <1>6, <1>7, QuietRefines

\* A call that moves and puts nothing on its way.
LEMMA CallRefines ==
    ASSUME Inv, Inv', ArmedShape, NEW t \in TimerTasks, CanRun(t),
           pc[t] \in TimerLabels \cup {"idle"}, pc[t] # "deinit",
           NEW label \in TimerLabels \cup {"idle"}, label # "deinit",
           label = "schedule" => armed,
           pc' = [pc EXCEPT ![t] = label],
           UNCHANGED <<vector, record, controller, running, isr, raise>>,
           op' \in [Contexts -> OpStates], op'[t].then = "idle",
           \A q \in Contexts : q # t => op'[q] = op[q],
           \A q \in Contexts : q # t => arg'[q] = arg[q],
           UNCHANGED <<initialized, generation, armed, served, pendingGen, status>>,
           alarms' \subseteq alarms
    PROVE  ArmedShape' /\ Refines
<1>1. InterruptInv
  BY DEF Inv
<1>2. /\ t \in Contexts /\ Place(t)' = label
      /\ \A q \in Contexts : q # t => Place(q)' = Place(q)
      /\ \A g : Delivering(g)' <=> Delivering(g)
  BY <1>1, CallMove
<1>3. \A q \in TimerTasks : pc'[q] = "deinit" <=> pc[q] = "deinit"
  BY <1>1, <1>2, ClosingQuiet
<1>4. CompareLive' => CompareLive
  BY <1>2, LiveFrame
<1>5. \A q \in TimerTasks : Place(q)' = "schedule" => Place(q) = "schedule" \/ armed
  BY <1>2, TimerAssumption DEF Contexts
<1> QED BY <1>3, <1>4, <1>5, QuietRefines

\* The same with the locals of the operation on the tables kept.
LEMMA CallStepRefines ==
    ASSUME Inv, Inv', ArmedShape, NEW t \in TimerTasks, CanRun(t),
           pc[t] \in TimerLabels \cup {"idle"}, pc[t] # "deinit",
           NEW label \in TimerLabels \cup {"idle"}, label # "deinit",
           label = "schedule" => armed,
           Goto(t, label), UNCHANGED <<tables, cpu, op, raise>>,
           arg' = arg \/ \E n : arg' = [arg EXCEPT ![t] = n],
           UNCHANGED <<initialized, generation, armed, served, pendingGen, status>>,
           alarms' \subseteq alarms
    PROVE  ArmedShape' /\ Refines
<1>1. t \in Contexts /\ InterruptTypes /\ OpShape /\ arg \in [Contexts -> Nat]
  BY TimerAssumption DEF Contexts, Inv, InterruptInv, TablesAgree, BackendInv, AlarmInv, TimerTypes
<1>2. UNCHANGED <<vector, record, controller, running, isr, raise, op>>
  BY DEF tables, cpu
<1>3. op' \in [Contexts -> OpStates] /\ op'[t].then = "idle"
  <2>1. pc[t] \notin TableLabels
    BY DEF TimerLabels, TableLabels
  <2> QED BY <1>1, <1>2, <2>1 DEF InterruptTypes, OpShape
<1>4. \A q \in Contexts : q # t => arg'[q] = arg[q]
  BY <1>1
<1>5. pc' = [pc EXCEPT ![t] = label]
  BY DEF Goto
<1> QED BY <1>2, <1>3, <1>4, <1>5, CallRefines

LEMMA CallStepsRefine ==
    ASSUME Inv, Inv', ArmedShape, NEW t \in TimerTasks,
           InitLock(t) \/ InitFails(t) \/ CallSetAlarm(t)
    PROVE  ArmedShape' /\ Refines
<1>1. PICK label \in {"idle", "init", "setLock"} : Goto(t, label)
  BY DEF InitLock, InitFails, CallSetAlarm
<1>2. CanRun(t) /\ pc[t] \in {"idle", "init"} /\ UNCHANGED <<tables, cpu, op, raise>>
  BY DEF InitLock, InitFails, CallSetAlarm
<1>3. UNCHANGED <<initialized, generation, armed, served, pendingGen, status, arg, alarms>>
  BY DEF InitLock, InitFails, CallSetAlarm, timerVars, compareVars, expiryVars
<1>4. /\ label \in TimerLabels \cup {"idle"} /\ pc[t] \in TimerLabels \cup {"idle"}
      /\ label \notin {"deinit", "schedule"} /\ pc[t] # "deinit"
  BY <1>1, <1>2 DEF TimerLabels
<1> QED BY <1>1, <1>2, <1>3, <1>4, CallStepRefines

LEMMA StoreAlarmRefines ==
    ASSUME Inv, Inv', ArmedShape, NEW t \in TimerTasks, StoreAlarm(t)
    PROVE  ArmedShape' /\ Refines
<1>1. PICK label \in {"idle", "cancelNew"} : Goto(t, label)
  BY DEF StoreAlarm
<1>2. CanRun(t) /\ pc[t] = "store" /\ UNCHANGED <<tables, cpu, op, raise>>
  BY DEF StoreAlarm
<1>3. UNCHANGED <<initialized, generation, armed, served, pendingGen, status, alarms>>
  BY DEF StoreAlarm, expiryVars
<1>4. arg' = arg \/ \E n : arg' = [arg EXCEPT ![t] = n]
  BY DEF StoreAlarm, Forget
<1>5. /\ label \in TimerLabels \cup {"idle"} /\ pc[t] \in TimerLabels \cup {"idle"}
      /\ label \notin {"deinit", "schedule"} /\ pc[t] # "deinit"
  BY <1>1, <1>2 DEF TimerLabels
<1> QED BY <1>1, <1>2, <1>3, <1>4, <1>5, CallStepRefines

LEMMA CancelRefines ==
    ASSUME Inv, Inv', ArmedShape, NEW t \in TimerTasks, NEW from, NEW to, CancelGoes(from, to),
           to = "schedule" => armed, Cancel(t, from, to)
    PROVE  ArmedShape' /\ Refines
<1>1. PICK label \in TimerLabels \cup {"idle"} : label = to /\ label # "deinit"
  BY DEF CancelGoes, TimerLabels
<1>2. CanRun(t) /\ pc[t] = from /\ UNCHANGED <<tables, cpu, op, raise>> /\ Goto(t, label)
  BY <1>1 DEF Cancel
<1>3. /\ UNCHANGED <<initialized, generation, armed, served, pendingGen, status>>
      /\ alarms' \subseteq alarms
  BY DEF Cancel, expiryVars, compareVars
<1>4. \E n : arg' = [arg EXCEPT ![t] = n]
  BY DEF Cancel, Forget
<1>5. pc[t] \in TimerLabels \cup {"idle"} /\ pc[t] # "deinit"
  BY <1>2 DEF TimerLabels, CancelGoes
<1> QED BY <1>1, <1>2, <1>3, <1>4, <1>5, CallStepRefines

LEMMA DeinitDoneRefines ==
    ASSUME Inv, Inv', ArmedShape, NEW t \in TimerTasks, DeinitDone(t)
    PROVE  ArmedShape' /\ Refines
<1>1. /\ CanRun(t) /\ pc[t] = "deinitDone" /\ pc' = [pc EXCEPT ![t] = "idle"]
      /\ op' = [op EXCEPT ![t] = NoOp]
      /\ UNCHANGED <<vector, record, controller, running, isr, raise>>
      /\ UNCHANGED <<initialized, generation, armed, served, pendingGen, status, alarms, arg>>
  BY DEF DeinitDone, Goto, tables, cpu, timerVars, compareVars, expiryVars
<1>2. /\ op' \in [Contexts -> OpStates] /\ op'[t].then = "idle"
      /\ \A q \in Contexts : q # t => op'[q] = op[q]
  <2>1. op \in [Contexts -> OpStates] /\ NoOp.then = "idle" /\ t \in Contexts
    BY TimerAssumption DEF Contexts, Inv, InterruptInv, InterruptTypes, NoOp
  <2> QED BY <1>1, <2>1, ConstantTypes
<1>3. /\ pc[t] \in TimerLabels \cup {"idle"} /\ pc[t] # "deinit"
      /\ "idle" \in TimerLabels \cup {"idle"} /\ "idle" # "deinit" /\ "idle" # "schedule"
  BY <1>1 DEF TimerLabels
<1> QED BY <1>1, <1>2, <1>3, CallRefines

\* The steps that are the abstract timer's, and those that put something on its way.
LEMMA InitDoneRefines ==
    ASSUME Inv, Inv', ArmedShape, NEW t \in TimerTasks, InitDone(t)
    PROVE  ArmedShape' /\ Refines
<1>1. /\ CanRun(t) /\ pc[t] = "initDone" /\ pc' = [pc EXCEPT ![t] = "idle"]
      /\ armed' = FALSE /\ initialized' = TRUE /\ status' = FALSE
      /\ op' = [op EXCEPT ![t] = NoOp]
      /\ UNCHANGED <<vector, record, controller, running, isr, raise>>
      /\ UNCHANGED <<generation, served, pendingGen, alarms, arg>>
  BY DEF InitDone, Goto, tables, cpu
<1>2. InterruptInv /\ Initialization /\ Calls /\ TimerTypes
  BY DEF Inv, BackendInv, AlarmInv
<1>3. /\ op' \in [Contexts -> OpStates] /\ op'[t].then = "idle"
      /\ \A q \in Contexts : q # t => op'[q] = op[q]
  <2>1. op \in [Contexts -> OpStates] /\ NoOp.then = "idle" /\ t \in Contexts
    BY <1>2, TimerAssumption DEF Contexts, InterruptInv, InterruptTypes, NoOp
  <2> QED BY <1>1, <2>1, ConstantTypes
<1>4. /\ t \in Contexts /\ Place(t) = "initDone" /\ Place(t)' = "idle"
      /\ \A q \in Contexts : q # t => Place(q)' = Place(q)
      /\ \A g : Delivering(g)' <=> Delivering(g)
  BY <1>1, <1>2, <1>3, CallMove DEF TimerLabels
<1>5. ~initialized
  BY <1>2, <1>4 DEF Initialization, ClosedPlaces
<1>6. ~CompareLive'
  <2>1. CompareLive' => CompareLive
    BY <1>1, <1>4, LiveFrame
  <2> QED BY <1>5, <2>1 DEF ArmedShape
<1>7. \A q \in TimerTasks : Place(q)' # "schedule" /\ Place(q) # "deinit"
  BY <1>2, <1>4, <1>5, TimerAssumption DEF Initialization, OpenPlaces, Contexts
<1>8. \A q \in TimerTasks : pc[q] # "deinit" /\ pc'[q] # "deinit"
  <2>1. \A q \in TimerTasks : pc[q] # "deinit"
    BY <1>2, <1>7, ClosingIs
  <2> QED BY <1>1, <1>2, <1>4, <2>1, ClosingQuiet
<1>9. ArmedShape'
  BY <1>1, <1>6, <1>7 DEF ArmedShape
<1>10. Timer!Open
  <2>1. ~Closing /\ ~Closing'
    BY <1>8 DEF Closing
  <2>2. ~armed
    BY <1>5 DEF ArmedShape
  <2> QED BY <1>1, <1>2, <1>5, <2>1, <2>2 DEF Timer!Open, TimerTypes
<1> QED BY <1>9, <1>10 DEF Refines, Timer!Next

LEMMA DeinitLockRefines ==
    ASSUME Inv, Inv', ArmedShape, NEW t \in TimerTasks, DeinitLock(t)
    PROVE  ArmedShape' /\ Refines
<1>1. /\ CanRun(t) /\ pc[t] = "idle" /\ TimerIsIdle /\ initialized
      /\ pc' = [pc EXCEPT ![t] = "deinit"] /\ Goto(t, "deinit")
      /\ UNCHANGED <<tables, cpu, op, raise>> /\ generation' = generation + 1
      /\ UNCHANGED <<initialized, armed, served, pendingGen, status, alarms, arg>>
  BY DEF DeinitLock, Goto, compareVars, expiryVars
<1>2. InterruptInv /\ AlarmInv /\ TimerTypes
  BY DEF Inv, BackendInv, AlarmInv
<1>3. /\ t \in Contexts /\ Place(t) = "idle" /\ Place(t)' = "deinit" /\ isr' = isr
      /\ isr.stage = "record" /\ \A q \in Contexts : q # t => Place(q)' = Place(q)
      /\ \A g : Delivering(g)' <=> Delivering(g)
  BY <1>1, <1>2, CallMoves DEF TimerLabels
<1>4. ~CompareLive'
  <2>1. /\ generation + 1 \notin alarms /\ pendingGen # generation + 1
        /\ ~Delivering(generation + 1)
    BY <1>2, FreshGeneration
  <2>2. ~Delivering(generation)'
    BY <1>1, <1>3, <2>1 DEF Delivering
  <2> QED BY <1>1, <1>3, <2>1, <2>2 DEF CompareLive
<1>5. \A q \in TimerTasks : Place(q) \notin TimerLabels
  BY <1>1, <1>2, TimerIsIdleIs
<1>6. \A q \in TimerTasks : Place(q)' # "schedule"
  BY <1>3, <1>5, TimerAssumption DEF TimerLabels, Contexts
<1>7. ArmedShape'
  BY <1>1, <1>4, <1>6 DEF ArmedShape
<1>8. Timer!Close
  <2>1. ~Closing
    BY <1>2, <1>5, ClosingIs DEF Closing, TimerLabels
  <2>2. Closing'
    BY <1>1, <1>2, <1>3 DEF Closing, InterruptInv, InterruptTypes
  <2> QED BY <1>1, <2>1, <2>2 DEF Timer!Close
<1> QED BY <1>7, <1>8 DEF Refines, Timer!Next

\* The rest of the deinitialization closes nothing that is open.
LEMMA DeinitRefines ==
    ASSUME Inv, Inv', ArmedShape, NEW t \in TimerTasks, Deinit(t)
    PROVE  ArmedShape' /\ Refines
<1>1. /\ CanRun(t) /\ pc[t] = "deinit" /\ pc' = [pc EXCEPT ![t] = "deinitCancel"]
      /\ initialized' = FALSE /\ armed' = FALSE /\ status' = FALSE
      /\ UNCHANGED <<isr, generation, served, pendingGen, alarms>>
      /\ arg' = [arg EXCEPT ![t] = scheduled]
  BY DEF Deinit, Goto, tables, cpu
<1>2. InterruptInv /\ Initialization /\ Calls /\ TimerTypes /\ t \in Contexts
  BY TimerAssumption DEF Inv, BackendInv, AlarmInv, Contexts
<1>3. Closing
  BY <1>1 DEF Closing
<1>4. \A g : Delivering(g)' <=> Delivering(g)
  <2>1. /\ pc'[t] = "deinitCancel"
        /\ \A q \in Contexts : q # t => pc'[q] = pc[q] /\ arg'[q] = arg[q]
    BY <1>1, <1>2 DEF InterruptInv, InterruptTypes, TimerTypes
  <2> QED BY <1>1, <2>1, TimerAssumption DEF Delivering, DeliveryLabels
<1>5. ~CompareLive'
  <2>1. CompareLive' => CompareLive
    BY <1>1, <1>4, LiveFrame
  <2> QED BY <1>3, <2>1 DEF ArmedShape
<1>6. \A q \in TimerTasks : Place(q)' # "schedule"
  BY <1>1, TimerAssumption DEF Inv, BackendInv, AlarmInv, Initialization, OpenPlaces, Contexts
<1>7. ArmedShape'
  BY <1>1, <1>5, <1>6 DEF ArmedShape
<1>8. UNCHANGED Timer!vars
  BY <1>1, <1>3 DEF Timer!vars
<1> QED BY <1>7, <1>8 DEF Refines

LEMMA SetAlarmRefines ==
    ASSUME Inv, Inv', ArmedShape, NEW t \in TimerTasks, SetAlarm(t)
    PROVE  ArmedShape' /\ Refines
<1>1. /\ CanRun(t) /\ pc[t] = "setLock" /\ pc' = [pc EXCEPT ![t] = "cancelOld"]
      /\ Goto(t, "cancelOld") /\ UNCHANGED <<tables, cpu, op, raise>>
      /\ generation' = generation + 1 /\ armed' \in BOOLEAN /\ status' = FALSE
      /\ arg' = [arg EXCEPT ![t] = scheduled]
      /\ UNCHANGED <<initialized, served, pendingGen, alarms>>
  BY DEF SetAlarm, Goto
<1>2. InterruptInv /\ AlarmInv /\ TimerTypes /\ Initialization /\ Calls
  BY DEF Inv, BackendInv, AlarmInv
<1>3. /\ t \in Contexts /\ Place(t) = "setLock" /\ Place(t)' = "cancelOld" /\ isr' = isr
      /\ isr.stage = "record" /\ \A q \in Contexts : q # t => Place(q)' = Place(q)
      /\ \A g : Delivering(g)' <=> Delivering(g)
  <2>1. \A q \in Contexts : q # t => arg'[q] = arg[q]
    BY <1>1, <1>2 DEF TimerTypes
  <2> QED BY <1>1, <1>2, <2>1, CallMoves DEF TimerLabels
<1>4. initialized
  BY <1>2, <1>3 DEF Initialization, OpenPlaces
<1>5. ~CompareLive'
  <2>1. generation + 1 \notin alarms /\ ~Delivering(generation + 1)
    BY <1>2, FreshGeneration
  <2>2. ~Delivering(generation)'
    BY <1>1, <1>3, <2>1 DEF Delivering
  <2> QED BY <1>1, <1>3, <2>1, <2>2 DEF CompareLive
<1>6. \A q \in TimerTasks : Place(q)' # "schedule" /\ Place(q) # "deinit"
  <2>1. \A q \in TimerTasks : q # t => Place(q) \notin TimerLabels
    BY <1>2, <1>3, TimerAssumption DEF Calls, TimerLabels, Contexts
  <2> QED BY <1>3, <2>1, TimerAssumption DEF TimerLabels, Contexts
<1>7. ArmedShape'
  BY <1>1, <1>4, <1>5, <1>6 DEF ArmedShape
<1>8. Timer!Write
  <2>1. \A q \in TimerTasks : pc[q] # "deinit"
    BY <1>2, <1>6, ClosingIs
  <2>2. \A q \in TimerTasks : pc'[q] # "deinit"
    BY <1>1, <1>2, <1>3, <2>1, ClosingQuiet
  <2>3. ~Closing /\ ~Closing'
    BY <2>1, <2>2 DEF Closing
  <2> QED BY <1>1, <1>4, <2>3 DEF Timer!Write
<1> QED BY <1>7, <1>8 DEF Refines, Timer!Next

LEMMA ScheduleSystemTimeAlarmRefines ==
    ASSUME Inv, Inv', ArmedShape, NEW t \in TimerTasks, ScheduleSystemTimeAlarm(t)
    PROVE  ArmedShape' /\ Refines
<1>1. /\ CanRun(t) /\ pc[t] = "schedule" /\ pc' = [pc EXCEPT ![t] = "store"]
      /\ Goto(t, "store") /\ UNCHANGED <<tables, cpu, op, raise>>
      /\ arg' = [arg EXCEPT ![t] = generation]
      /\ UNCHANGED <<initialized, generation, armed, served>>
  BY DEF ScheduleSystemTimeAlarm, Goto, compareVars
<1>2. InterruptInv /\ TimerTypes /\ Initialization /\ Calls
  BY DEF Inv, BackendInv, AlarmInv
<1>3. /\ t \in Contexts /\ Place(t) = "schedule" /\ Place(t)' = "store"
      /\ \A q \in Contexts : q # t => Place(q)' = Place(q)
  <2>1. \A q \in Contexts : q # t => arg'[q] = arg[q]
    BY <1>1, <1>2 DEF TimerTypes
  <2> QED BY <1>1, <1>2, <2>1, CallMoves DEF TimerLabels
<1>4. initialized /\ armed
  BY <1>2, <1>3 DEF Initialization, OpenPlaces, ArmedShape
<1>5. \A q \in TimerTasks : pc[q] # "deinit" /\ pc'[q] # "deinit"
  <2>1. \A q \in TimerTasks : Place(q) # "deinit"
    BY <1>2, <1>3, TimerAssumption DEF Calls, TimerLabels, Contexts
  <2>2. \A q \in TimerTasks : pc[q] # "deinit"
    BY <1>2, <2>1, ClosingIs
  <2> QED BY <1>1, <1>2, <1>3, <2>2, ClosingQuiet
<1>6. ~Closing /\ ~Closing'
  BY <1>5 DEF Closing
<1>7. ArmedShape'
  BY <1>1, <1>4, <1>6 DEF ArmedShape
<1>8. UNCHANGED Timer!vars
  BY <1>1, <1>6 DEF Timer!vars
<1> QED BY <1>7, <1>8 DEF Refines

LEMMA DeliveryRefines ==
    ASSUME Inv, Inv', ArmedShape, NEW p \in Deliverers,
           ClaimAlarm(p) \/ DeliverLock(p) \/ DeliverCompare(p)
    PROVE  ArmedShape' /\ Refines
<1>1. PICK label \in {"idle", "deliver", "delivering", "scan"} : pc' = [pc EXCEPT ![p] = label]
  BY DEF ClaimAlarm, DeliverLock, DeliverCompare, BeginRaise, Goto
<1>2. /\ pc[p] \in {"idle", "deliver", "delivering"}
      /\ UNCHANGED <<isr, op, initialized, generation, armed, served>>
  BY DEF ClaimAlarm, DeliverLock, DeliverCompare, cpu, compareVars
<1>3. p \in Contexts /\ InterruptInv /\ InterruptTypes /\ TimerTypes
  BY TimerAssumption DEF Inv, InterruptInv, BackendInv, AlarmInv
<1>4. pc'[p] = label /\ \A q \in Contexts : q # p => pc'[q] = pc[q]
  BY <1>1, <1>3 DEF InterruptTypes
<1>5. \A q \in TimerTasks : pc'[q] = "deinit" <=> pc[q] = "deinit"
  BY <1>1, <1>2, <1>3, ClosingQuiet
<1>6. \A q \in TimerTasks : Place(q)' = "schedule" => Place(q) = "schedule"
  BY <1>1, <1>2, <1>4, TimerAssumption DEF Place, TableLabels, Contexts
<1>7. CompareLive' => CompareLive
  <2>1. CASE ClaimAlarm(p)
    <3>1. PICK g \in alarms : alarms' = alarms \ {g} /\ arg' = [arg EXCEPT ![p] = g]
      BY <2>1 DEF ClaimAlarm
    <3>2. UNCHANGED <<pendingGen, status>>
      BY <2>1 DEF ClaimAlarm, expiryVars
    <3>3. arg'[p] = g /\ \A q \in Contexts : q # p => arg'[q] = arg[q]
      BY <1>3, <3>1 DEF TimerTypes
    <3>4. Delivering(generation)' => generation = g \/ Delivering(generation)
      BY <1>2, <1>4, <3>3, TimerAssumption DEF Delivering
    <3> QED BY <1>2, <3>1, <3>2, <3>4 DEF CompareLive
  <2>2. CASE DeliverLock(p)
    <3>1. UNCHANGED <<pendingGen, status, alarms, arg>> /\ pc[p] = "deliver"
      BY <2>2 DEF DeliverLock, expiryVars
    <3>2. Delivering(generation)' => Delivering(generation)
      BY <1>2, <1>4, <3>1, TimerAssumption DEF Delivering, DeliveryLabels
    <3> QED BY <1>2, <3>1, <3>2 DEF CompareLive
  <2>3. CASE DeliverCompare(p)
    <3>1. alarms' = alarms /\ arg' = [arg EXCEPT ![p] = 0] /\ pc[p] = "delivering"
      BY <2>3 DEF DeliverCompare, Forget
    <3>2. CASE initialized /\ arg[p] = generation
      <4>1. Delivering(generation)
        BY <3>1, <3>2 DEF Delivering, DeliveryLabels
      <4> QED BY <4>1 DEF CompareLive
    <3>3. CASE ~(initialized /\ arg[p] = generation)
      <4>1. UNCHANGED <<pendingGen, status>> /\ Goto(p, "idle")
        BY <2>3, <3>3 DEF DeliverCompare
      <4>2. pc'[p] = "idle" /\ \A q \in Contexts : q # p => arg'[q] = arg[q]
        BY <1>3, <3>1, <4>1 DEF Goto, InterruptTypes, TimerTypes
      <4>3. Delivering(generation)' => Delivering(generation)
        BY <1>2, <1>4, <4>2, TimerAssumption DEF Delivering, DeliveryLabels
      <4> QED BY <1>2, <3>1, <4>1, <4>3 DEF CompareLive
    <3> QED BY <3>2, <3>3
  <2> QED BY <2>1, <2>2, <2>3
<1> QED BY <1>2, <1>5, <1>6, <1>7, QuietRefines

LEMMA TimerInterruptRefines ==
    ASSUME Inv, Inv', ArmedShape, TimerInterrupt
    PROVE  ArmedShape' /\ Refines
<1>1. /\ isr.vector # 0 /\ status' = FALSE
      /\ UNCHANGED <<pc, op, generation, armed, initialized, pendingGen, arg, alarms, served>>
  BY DEF TimerInterrupt, TakeStatus, compareVars
<1>2. isr'.stage = "upper" => status /\ pendingGen = generation
  <2>1. AfterRecord => isr'.stage = "record"
    BY <1>1, AfterRecordUpdate DEF Inv, InterruptInv
  <2> QED BY <2>1 DEF TimerInterrupt, ExpiryIsCurrent
<1>3. Delivering(generation)' => Delivering(generation)
  BY <1>1 DEF Delivering
<1>4. CompareLive' => CompareLive
  BY <1>1, <1>2, <1>3 DEF CompareLive
<1>5. \A t \in TimerTasks : Place(t)' = Place(t)
  BY <1>1 DEF Place
<1> QED BY <1>1, <1>4, <1>5, QuietRefines

LEMMA UpperHandlerRefines ==
    ASSUME Inv, Inv', ArmedShape, UpperHandler
    PROVE  ArmedShape' /\ Refines
<1>1. /\ isr.stage = "upper" /\ served' = served \cup {generation}
      /\ UNCHANGED <<pc, op, generation, armed, initialized>>
  BY DEF UpperHandler, compareVars
<1>2. initialized /\ armed /\ ~Closing
  BY <1>1 DEF ArmedShape, CompareLive
<1>3. Closing' <=> Closing
  BY <1>1 DEF Closing
<1>4. \A t \in TimerTasks : Place(t)' = Place(t)
  BY <1>1 DEF Place
<1>5. ArmedShape'
  BY <1>1, <1>2, <1>3, <1>4 DEF ArmedShape
<1>6. generation \notin served
  BY <1>1 DEF Inv, BackendInv, AlarmInv, ExpiryTaken
<1>7. Timer!Serve
  BY <1>1, <1>2, <1>3, <1>6 DEF Timer!Serve
<1> QED BY <1>5, <1>7 DEF Refines, Timer!Next

LEMMA TimerStepRefines ==
    ASSUME Inv, Inv', ArmedShape, NEW t \in TimerTasks, TimerStep(t)
    PROVE  ArmedShape' /\ Refines
<1>1. CASE Cancel(t, "deinitCancel", "deinitDisable")
  <2>1. CancelGoes("deinitCancel", "deinitDisable")
    BY DEF CancelGoes
  <2> QED BY <1>1, <2>1, CancelRefines
<1>2. CASE Cancel(t, "cancelOld", IF armed THEN "schedule" ELSE "idle")
  <2>1. CASE armed
    <3>1. Cancel(t, "cancelOld", "schedule") /\ CancelGoes("cancelOld", "schedule")
      BY <1>2, <2>1 DEF CancelGoes
    <3> QED BY <2>1, <3>1, CancelRefines
  <2>2. CASE ~armed
    <3>1. Cancel(t, "cancelOld", "idle") /\ CancelGoes("cancelOld", "idle")
      BY <1>2, <2>2 DEF CancelGoes
    <3> QED BY <3>1, CancelRefines
  <2> QED BY <2>1, <2>2
<1>3. CASE Cancel(t, "cancelNew", "idle")
  <2>1. CancelGoes("cancelNew", "idle")
    BY DEF CancelGoes
  <2> QED BY <1>3, <2>1, CancelRefines
<1>4. CASE InitAllocate(t) \/ InitEnable(t) \/ DeinitDisable(t) \/ DeinitFree(t)
  BY <1>4, TableCallRefines
<1>5. CASE InitLock(t) \/ InitFails(t) \/ CallSetAlarm(t)
  BY <1>5, CallStepsRefine
<1>6. CASE InitDone(t) \/ DeinitLock(t) \/ Deinit(t) \/ DeinitDone(t)
  BY <1>6, InitDoneRefines, DeinitLockRefines, DeinitRefines, DeinitDoneRefines
<1>7. CASE SetAlarm(t) \/ ScheduleSystemTimeAlarm(t) \/ StoreAlarm(t)
  BY <1>7, SetAlarmRefines, ScheduleSystemTimeAlarmRefines, StoreAlarmRefines
<1> QED BY <1>1, <1>2, <1>3, <1>4, <1>5, <1>6, <1>7 DEF TimerStep

LEMMA StepRefines ==
    ASSUME Inv, Inv', ArmedShape, [Next]_vars
    PROVE  ArmedShape' /\ Refines
<1>1. CASE Next
  BY <1>1, InterruptNextRefines, TimerStepRefines, DeliveryRefines, TimerInterruptRefines,
     UpperHandlerRefines DEF Next
<1>2. CASE UNCHANGED vars
  <2>1. UNCHANGED <<isr, pc, op, generation, armed, initialized, pendingGen, status, arg, alarms,
                    served>>
    BY <1>2 DEF vars, interruptVars, cpu, timerVars, compareVars, expiryVars
  <2>2. Delivering(generation)' => Delivering(generation)
    BY <2>1 DEF Delivering
  <2>3. CompareLive' => CompareLive
    BY <2>1, <2>2 DEF CompareLive
  <2>4. \A t \in TimerTasks : Place(t)' = Place(t)
    BY <2>1 DEF Place
  <2> QED BY <2>1, <2>3, <2>4, QuietRefines
<1> QED BY <1>1, <1>2

LEMMA InitRefines ==
    ASSUME Init
    PROVE  ArmedShape /\ Timer!Init
<1>1. /\ generation = 0 /\ armed = FALSE /\ initialized = FALSE /\ status = FALSE
      /\ alarms = {} /\ served = {} /\ isr.stage = "record"
      /\ \A p \in Contexts : pc[p] = "idle"
  BY DEF Init, InterruptInit, NoDispatch
<1>2. ~Delivering(generation)
  BY <1>1, TimerAssumption DEF Delivering, DeliveryLabels
<1>3. \A t \in TimerTasks : Place(t) # "schedule"
  BY <1>1, TimerAssumption DEF Place, TableLabels, Contexts
<1>4. ArmedShape
  BY <1>1, <1>2, <1>3 DEF ArmedShape, CompareLive
<1>5. Timer!Init
  BY <1>1 DEF Timer!Init
<1> QED BY <1>4, <1>5

\* ImplementsOneShotTimer: whatever tasks, native threads, alarms and the ISR do, the
\* common handler is called as one compare register would call it: for the compare written
\* last, only if it was armed, and not once esp_timer_impl_deinit has begun.
THEOREM ImplementsAbstract == Spec => ImplementsOneShotTimer
<1>1. Init => ArmedShape /\ Timer!Init
  BY InitRefines
<1>2. Inv /\ Inv' /\ ArmedShape /\ [Next]_vars => ArmedShape' /\ [Timer!Next]_(Timer!vars)
  BY StepRefines DEF Refines
<1> QED BY <1>1, <1>2, InvariantHolds, PTL DEF Spec, Timer!Spec, ImplementsOneShotTimer
=============================================================================
