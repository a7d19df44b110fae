---------------------------- MODULE EspInterrupts ----------------------------
(***************************************************************************)
(* ESP interrupt allocation (esp_interrupts.cpp): source vectors and       *)
(* registration records in two static tables, published by epoch.  Tasks   *)
(* change the tables inside a critical section; native threads assert a    *)
(* source without any lock, and the emulated ISR serves what they marked.  *)
(*                                                                         *)
(* One task is selected at a time.  Inside a critical section it is        *)
(* neither preempted nor interrupted, so only native threads interleave    *)
(* there, and a step is what they can see in one load.  Fields of a vector *)
(* or a record change only while it is unpublished: reading them together  *)
(* with the check that the publication is still the same is one step.      *)
(* Memory is sequentially consistent (on x86 these stores and loads are    *)
(* not reordered); flags are abstracted to shared or exclusive.            *)
(***************************************************************************)
EXTENDS Integers

CONSTANTS
    Tasks,          \* FreeRTOS tasks
    Natives,        \* host threads that FreeRTOS does not schedule
    FirstTask,      \* the task selected first
    DriverTasks,    \* tasks of drivers that allocate and free interrupts
    Raisers,        \* contexts in which drivers assert a source
    DriverSources,  \* the sources of those drivers
    DriverRequests, \* what they allocate
    Filters,        \* status bits a shared handler may be registered for
    NumVectors,        \* kVectorCapacity
    NumRecords,        \* kRegistrationCapacity
    MaxVectorEpoch,    \* kMaxVectorEpoch
    MaxSlotGeneration, \* kMaxGeneration of the generic controller
    MaxRecordEpoch     \* kMaxRecordEpoch

Vectors == 1..NumVectors
Records == 1..NumRecords
Slots == Vectors     \* interrupt slots of the generic controller
NoSource == "no source"
NoFilter == "no filter"
Contexts == Tasks \cup Natives

ASSUME ContextsAssumption ==
    /\ FirstTask \in Tasks
    /\ Tasks \cap Natives = {}
    /\ DriverTasks \subseteq Tasks
    /\ Raisers \subseteq Contexts
    /\ DriverRequests \subseteq
          [source : DriverSources, shared : BOOLEAN, enabled : BOOLEAN,
           filter : Filters \cup {NoFilter}, handler : {"driver"}]

ASSUME CapacityAssumption ==
    /\ NumVectors \in Nat
    /\ NumRecords \in Nat
    /\ MaxVectorEpoch \in Nat \ {0}
    /\ MaxSlotGeneration \in Nat
    /\ MaxRecordEpoch \in Nat \ {0}

VARIABLES
    vector,      \* source_vectors
    record,      \* registrations
    controller,  \* the generic interrupt controller's slots
    running,     \* the selected task
    isr,         \* the dispatch under way on its thread
    pc,          \* where each context is
    op,          \* locals of each task's allocation, free or enablement
    raise        \* locals of each context's raiseInterruptSource

tables == <<vector, record, controller>>
cpu == <<running, isr>>
interruptVars == <<tables, cpu, pc, op, raise>>

NoState == [epoch |-> 0, published |-> FALSE, enabled |-> FALSE, matched |-> FALSE]
FreeRecord(e) ==
    [state |-> [NoState EXCEPT !.epoch = e], vector |-> 0, life |-> 0,
     filter |-> NoFilter, handler |-> "none"]
FreeVector(e) ==
    [epoch |-> e, published |-> FALSE, source |-> NoSource, slot |-> 0, generation |-> 0,
     shared |-> FALSE]
NoOp == [record |-> 0, vector |-> 0, life |-> 0, then |-> "idle"]
NoRaise ==
    [source |-> NoSource, bits |-> {}, vector |-> 1, life |-> 0, record |-> 1,
     seen |-> NoState, matched |-> FALSE, slot |-> 0, generation |-> 0]
NoDispatch == [vector |-> 0, life |-> 0, next |-> 1, stage |-> "record"]

InterruptInit ==
    /\ vector = [v \in Vectors |-> FreeVector(0)]
    /\ record = [r \in Records |-> FreeRecord(0)]
    /\ controller = [s \in Slots |-> [generation |-> 0, live |-> FALSE, enabled |-> FALSE,
                                      pending |-> FALSE, vector |-> 0]]
    /\ running = FirstTask
    /\ isr = NoDispatch
    /\ pc = [p \in Contexts |-> "idle"]
    /\ op = [p \in Contexts |-> NoOp]
    /\ raise = [p \in Contexts |-> NoRaise]

Goto(p, label) == pc' = [pc EXCEPT ![p] = label]

\* Inside portENTER_CRITICAL: the allocator's own sections, and (from "setLock" on)
\* esp_timer_impl_set_alarm_id, which is called with the timer list lock held
CriticalLabels == {"publish", "enablement", "retire", "unregister",
                   "setLock", "cancelOld", "schedule", "store", "cancelNew"}
Masked(p) == pc[p] \in CriticalLabels

\* Native threads always run; the selected task runs unless an ISR is on its thread
CanRun(p) == p \in Natives \/ (p = running /\ isr.vector = 0)

\* The tick or an ISR that wakes a task hands the processor over
Preempt(t) ==
    /\ isr.vector = 0 /\ ~Masked(running) /\ t # running
    /\ running' = t
    /\ UNCHANGED <<tables, isr, pc, op, raise>>

\* Definitions named ..._Slip are not part of the model: each is the variant of
\* the definition below it that a plausible coding slip would give, kept to
\* show that the properties tell the two apart.

-----------------------------------------------------------------------------
(* Operations of tasks *)

HasNextEpoch_Slip(e, max) == e <= max

\* A vector or record at its last epoch is never used again
HasNextEpoch(e, max) == e < max

FreeRecords ==
    {r \in Records : /\ ~record[r].state.published
                     /\ HasNextEpoch(record[r].state.epoch, MaxRecordEpoch)}
FreeVectors ==
    {v \in Vectors : ~vector[v].published /\ HasNextEpoch(vector[v].epoch, MaxVectorEpoch)}

\* Free slots of the controller; one that has used its last generation is retired
FreeSlots ==
    {s \in Slots : ~controller[s].live /\ controller[s].generation < MaxSlotGeneration}

SourceVectors(source) == {v \in Vectors : vector[v].published /\ vector[v].source = source}

\* The tables are searched from the front
IsFirst(x, S) == x \in S /\ \A y \in S : x <= y

\* RecordBelongsTo, for a published record
Belongs(r, v, life) ==
    record[r].state.published /\ record[r].vector = v /\ record[r].life = life
AnyEnabledRecord(v, life) == \E r \in Records : Belongs(r, v, life) /\ record[r].state.enabled

PublishRecord(r, v, life, a) ==
    record' = [record EXCEPT ![r] =
        [state |-> [epoch |-> record[r].state.epoch + 1, published |-> TRUE,
                    enabled |-> a.enabled, matched |-> FALSE],
         vector |-> v, life |-> life, filter |-> a.filter, handler |-> a.handler]]

JoinVector(p, a, r, v, then) ==
    /\ IsFirst(v, SourceVectors(a.source))
    /\ vector[v].shared /\ a.shared
    /\ PublishRecord(r, v, vector[v].epoch, a)
    /\ op' = [op EXCEPT ![p] = [record |-> r, vector |-> v, life |-> vector[v].epoch,
                                then |-> then]]
    /\ Goto(p, "enablement")
    /\ UNCHANGED <<vector, controller, cpu, raise>>

\* registerInterrupt, the vector's fields and the record, published before the vector
NewVector(p, a, r, v, s, then) ==
    /\ SourceVectors(a.source) = {}
    /\ IsFirst(v, FreeVectors)
    /\ IsFirst(s, FreeSlots)
    /\ controller' = [controller EXCEPT ![s] =
          [generation |-> controller[s].generation + 1, live |-> TRUE, enabled |-> FALSE,
           pending |-> FALSE, vector |-> v]]
    /\ vector' = [vector EXCEPT ![v].source = a.source, ![v].slot = s,
                                ![v].generation = controller[s].generation + 1,
                                ![v].shared = a.shared]
    /\ PublishRecord(r, v, vector[v].epoch + 1, a)
    /\ op' = [op EXCEPT ![p] = [record |-> r, vector |-> v, life |-> vector[v].epoch + 1,
                                then |-> then]]
    /\ Goto(p, "publish")
    /\ UNCHANGED <<cpu, raise>>

AllocateInterrupt(p, a, then) ==
    \E r \in Records :
        /\ IsFirst(r, FreeRecords)
        /\ \E v \in Vectors :
              \/ JoinVector(p, a, r, v, then)
              \/ \E s \in Slots : NewVector(p, a, r, v, s, then)

\* Back to the caller, which knows the handle
Return(p) ==
    /\ Goto(p, op[p].then)
    /\ op' = [op EXCEPT ![p] = [NoOp EXCEPT !.record = IF op[p].then = "idle" THEN 0
                                                       ELSE op[p].record]]

CanAllocate(a) ==
    /\ FreeRecords # {}
    /\ IF SourceVectors(a.source) = {}
       THEN FreeVectors # {} /\ FreeSlots # {}
       ELSE a.shared /\ \A v \in SourceVectors(a.source) : vector[v].shared

Publish(p) ==
    /\ CanRun(p) /\ pc[p] = "publish"
    /\ vector' = [vector EXCEPT ![op[p].vector].published = TRUE,
                                ![op[p].vector].epoch = op[p].life]
    /\ Goto(p, "enablement")
    /\ UNCHANGED <<record, controller, cpu, op, raise>>

UpdateVectorEnablement(p) ==
    LET v == op[p].vector IN
    /\ CanRun(p) /\ pc[p] = "enablement"
    /\ controller' = [controller EXCEPT
                        ![vector[v].slot].enabled = AnyEnabledRecord(v, op[p].life)]
    /\ Return(p)
    /\ UNCHANGED <<vector, record, cpu, raise>>

SetRecordEnabled(p, r, enabled, then) ==
    /\ record[r].state.published
    /\ record' = [record EXCEPT ![r].state.enabled = enabled]
    /\ op' = [op EXCEPT ![p] = [record |-> r, vector |-> record[r].vector,
                                life |-> record[r].life, then |-> then]]
    /\ Goto(p, "enablement")
    /\ UNCHANGED <<vector, controller, cpu, raise>>

OtherRecordLives(r) ==
    \E q \in Records \ {r} : Belongs(q, record[r].vector, record[r].life)

AfterUnpublish_Slip(r, then) == IF OtherRecordLives(r) THEN then ELSE "retire"

\* The last record of a vector takes the vector with it
AfterUnpublish(r, then) == IF OtherRecordLives(r) THEN "enablement" ELSE "retire"

esp_intr_free(p, r, then) ==
    /\ record[r].state.published
    /\ record' = [record EXCEPT ![r] = FreeRecord(record[r].state.epoch)]
    /\ op' = [op EXCEPT ![p] = [record |-> r, vector |-> record[r].vector,
                                life |-> record[r].life, then |-> then]]
    /\ Goto(p, AfterUnpublish(r, then))
    /\ UNCHANGED <<vector, controller, cpu, raise>>

Retire(p) ==
    /\ CanRun(p) /\ pc[p] = "retire"
    /\ vector' = [vector EXCEPT ![op[p].vector].published = FALSE]
    /\ Goto(p, "unregister")
    /\ UNCHANGED <<record, controller, cpu, op, raise>>

\* unregisterInterrupt; then the retired vector's fields are cleared
Unregister(p) ==
    LET v == op[p].vector IN
    /\ CanRun(p) /\ pc[p] = "unregister"
    /\ controller' = [controller EXCEPT ![vector[v].slot].live = FALSE,
                                        ![vector[v].slot].enabled = FALSE,
                                        ![vector[v].slot].pending = FALSE]
    /\ vector' = [vector EXCEPT ![v] = FreeVector(op[p].life)]
    /\ Return(p)
    /\ UNCHANGED <<record, cpu, raise>>

-----------------------------------------------------------------------------
(* raiseInterruptSource, in any context *)

BeginRaise(p, source, bits) ==
    /\ raise' = [raise EXCEPT ![p] = [NoRaise EXCEPT !.source = source, !.bits = bits]]
    /\ Goto(p, "scan")

EndRaise(p) == raise' = [raise EXCEPT ![p] = NoRaise] /\ Goto(p, "idle")

NextVector(p) ==
    /\ raise' = [raise EXCEPT ![p].vector = @ + 1, ![p].life = 0]
    /\ Goto(p, "scan")

ScanPublication(p) ==
    LET v == raise[p].vector IN
    /\ CanRun(p) /\ pc[p] = "scan"
    /\ \/ v > NumVectors /\ EndRaise(p)
       \/ v \in Vectors /\ ~vector[v].published /\ NextVector(p)
       \/ /\ v \in Vectors /\ vector[v].published
          /\ raise' = [raise EXCEPT ![p].life = vector[v].epoch]
          /\ Goto(p, "source")
    /\ UNCHANGED <<tables, cpu, op>>

\* The publication loaded earlier is still the vector's
StillPublished(v, life) == vector[v].published /\ vector[v].epoch = life

ScanSource(p) ==
    LET v == raise[p].vector IN
    /\ CanRun(p) /\ pc[p] = "source"
    /\ IF StillPublished(v, raise[p].life) /\ vector[v].source = raise[p].source
       THEN /\ raise' = [raise EXCEPT ![p].record = 1]
            /\ Goto(p, "mark")
       ELSE NextVector(p)
    /\ UNCHANGED <<tables, cpu, op>>

StatusMatches(filter, bits) == filter = NoFilter \/ filter \in bits

MatchedSoFar_Slip(p, marked) == marked

MatchedSoFar(p, marked) == marked \/ raise[p].matched

NextRecord(p, marked) ==
    /\ raise' = [raise EXCEPT ![p].record = @ + 1, ![p].seen = NoState,
                               ![p].matched = MatchedSoFar(p, marked)]
    /\ Goto(p, "mark")

\* MarkRecordMatched loads the state of the next record
MarkLoad(p) ==
    LET r == raise[p].record IN
    /\ CanRun(p) /\ pc[p] = "mark"
    /\ \/ r > NumRecords /\ raise[p].matched /\ Goto(p, "handle") /\ UNCHANGED raise
       \/ r > NumRecords /\ ~raise[p].matched /\ EndRaise(p)
       \/ r \in Records /\ ~record[r].state.published /\ NextRecord(p, FALSE)
       \/ /\ r \in Records /\ record[r].state.published
          /\ raise' = [raise EXCEPT ![p].seen = record[r].state]
          /\ Goto(p, "swap")
    /\ UNCHANGED <<tables, cpu, op>>

\* and swaps the matched bit in if nothing has changed, else loads again
MarkSwap(p) ==
    LET r == raise[p].record
        mine == /\ record[r].vector = raise[p].vector
                /\ record[r].life = raise[p].life
                /\ StatusMatches(record[r].filter, raise[p].bits)
    IN
    /\ CanRun(p) /\ pc[p] = "swap"
    /\ \/ ~mine /\ NextRecord(p, FALSE) /\ UNCHANGED record
       \/ /\ mine /\ record[r].state = raise[p].seen
          /\ record' = [record EXCEPT ![r].state.matched = TRUE]
          /\ NextRecord(p, TRUE)
       \/ /\ mine /\ record[r].state # raise[p].seen
          /\ Goto(p, "mark")
          /\ UNCHANGED <<record, raise>>
    /\ UNCHANGED <<vector, controller, cpu, op>>

\* LoadVectorControllerHandle: the first look at the publication ...
HandleCheck(p) ==
    /\ CanRun(p) /\ pc[p] = "handle"
    /\ IF StillPublished(raise[p].vector, raise[p].life)
       THEN Goto(p, "read") /\ UNCHANGED raise
       ELSE EndRaise(p)
    /\ UNCHANGED <<tables, cpu, op>>

HandleIsCurrent_Slip(p) == TRUE

HandleIsCurrent(p) == StillPublished(raise[p].vector, raise[p].life)

\* ... and the handle, used only if the publication has not changed since
HandleRead(p) ==
    /\ CanRun(p) /\ pc[p] = "read"
    /\ IF HandleIsCurrent(p)
       THEN /\ raise' = [raise EXCEPT ![p].slot = vector[raise[p].vector].slot,
                                      ![p].generation = vector[raise[p].vector].generation]
            /\ Goto(p, "pend")
       ELSE EndRaise(p)
    /\ UNCHANGED <<tables, cpu, op>>

\* The controller ignores a handle of an earlier registration of the slot
HandleIsLive(p) ==
    /\ raise[p].slot \in Slots
    /\ controller[raise[p].slot].live
    /\ controller[raise[p].slot].generation = raise[p].generation

setInterruptPending(p) ==
    /\ CanRun(p) /\ pc[p] = "pend"
    /\ controller' = IF HandleIsLive(p)
                     THEN [controller EXCEPT ![raise[p].slot].pending = TRUE]
                     ELSE controller
    /\ EndRaise(p)
    /\ UNCHANGED <<vector, record, cpu, op>>

RaiseStep(p) ==
    \/ ScanPublication(p) \/ ScanSource(p) \/ MarkLoad(p) \/ MarkSwap(p)
    \/ HandleCheck(p) \/ HandleRead(p) \/ setInterruptPending(p)

-----------------------------------------------------------------------------
(* The emulated ISR, on the selected task's thread *)

\* DispatchSourceVector begins.  With no task masked the vector of a live slot is
\* published, so the dispatch never returns early
Interrupt(s) ==
    /\ isr.vector = 0 /\ ~Masked(running)
    /\ controller[s].live /\ controller[s].enabled /\ controller[s].pending
    /\ controller' = [controller EXCEPT ![s].pending = FALSE]
    /\ isr' = [vector |-> controller[s].vector, life |-> vector[controller[s].vector].epoch,
               next |-> 1, stage |-> "record"]
    /\ UNCHANGED <<vector, record, running, pc, op, raise>>

AfterRecord ==
    isr' = IF isr.next < NumRecords THEN [isr EXCEPT !.next = @ + 1, !.stage = "record"]
           ELSE NoDispatch

\* One record of DispatchSourceVector: a match is cleared even if the handler is off
ServeRecord ==
    LET r == isr.next
        matched == Belongs(r, isr.vector, isr.life) /\ record[r].state.matched
    IN
    /\ isr.vector # 0 /\ isr.stage = "record"
    /\ record' = IF matched THEN [record EXCEPT ![r].state.matched = FALSE] ELSE record
    /\ IF matched /\ record[r].state.enabled THEN isr' = [isr EXCEPT !.stage = "call"]
       ELSE AfterRecord
    /\ UNCHANGED <<vector, controller, running, pc, op, raise>>

\* A driver's handler
DriverHandler ==
    /\ isr.vector # 0 /\ isr.stage = "call" /\ record[isr.next].handler = "driver"
    /\ AfterRecord
    /\ UNCHANGED <<tables, running, pc, op, raise>>

-----------------------------------------------------------------------------
(* Drivers *)

DriverCall(p) ==
    /\ CanRun(p) /\ pc[p] = "idle"
    /\ \/ \E a \in DriverRequests : AllocateInterrupt(p, a, "idle")
       \/ \E r \in Records :
             /\ record[r].handler = "driver"
             /\ \/ esp_intr_free(p, r, "idle")
                \/ \E enabled \in BOOLEAN : SetRecordEnabled(p, r, enabled, "idle")

raiseInterruptSource(p) ==
    /\ CanRun(p) /\ pc[p] = "idle"
    /\ \E source \in DriverSources, bits \in SUBSET Filters : BeginRaise(p, source, bits)
    /\ UNCHANGED <<tables, cpu, op>>

InterruptNext ==
    \/ \E p \in DriverTasks : DriverCall(p)
    \/ \E p \in Raisers : raiseInterruptSource(p)
    \/ \E p \in Contexts :
          \/ Publish(p) \/ UpdateVectorEnablement(p) \/ Retire(p) \/ Unregister(p)
          \/ RaiseStep(p)
    \/ \E t \in Tasks : Preempt(t)
    \/ \E s \in Slots : Interrupt(s)
    \/ ServeRecord
    \/ DriverHandler

-----------------------------------------------------------------------------
(* Properties *)

Marking(p) == pc[p] \in {"mark", "swap", "handle", "read", "pend"} /\ raise[p].matched

\* A record marked by an assertion is served: a thread that marked a record of this
\* vector has still to set the interrupt pending, or it is pending, or the dispatch
\* under way has yet to come to the record.  In particular no enablement, free or
\* reuse of the tables loses a mark between the native thread and the ISR
MatchedIsServed ==
    \A r \in Records : record[r].state.published /\ record[r].state.matched =>
        \/ \E p \in Contexts : /\ Marking(p)
                               /\ raise[p].vector = record[r].vector
                               /\ raise[p].life = record[r].life
        \/ controller[vector[record[r].vector].slot].pending
        \/ isr.vector = record[r].vector /\ (isr.next < r \/ (isr.next = r /\ isr.stage = "record"))

\* Outside the critical sections the controller's interrupt is on exactly when some
\* record of the published vector is on: no sequence of shared allocations, frees
\* and enablements leaves an enabled handler without its interrupt
EnablementAgrees ==
    (\A t \in Tasks : ~Masked(t)) =>
        \A v \in Vectors : vector[v].published =>
            (controller[vector[v].slot].enabled <=> AnyEnabledRecord(v, vector[v].epoch))

\* An assertion sets pending only the interrupt of the vector life it found its source
\* in: when that life is retired and its slot used again meanwhile, for whatever
\* source, the stale handle does nothing
AssertsOwnVector ==
    \A p \in Contexts : pc[p] = "pend" /\ HandleIsLive(p) =>
        /\ controller[raise[p].slot].vector = raise[p].vector
        /\ vector[raise[p].vector].epoch = raise[p].life
=============================================================================
