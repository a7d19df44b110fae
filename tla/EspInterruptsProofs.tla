------------------------ MODULE EspInterruptsProofs ------------------------
(* Proofs about the interrupt tables under the specification of EspTimer, for every     *)
(* set of tasks, host threads, drivers and sources and every capacity and last epoch.   *)
EXTENDS EspTimer, TLAPS

-----------------------------------------------------------------------------
(* The inductive invariant *)

TableLabels == {"publish", "enablement", "retire", "unregister"}
RaiseLabels == {"scan", "source", "mark", "swap", "handle", "read", "pend"}
Continuations == {"idle", "initEnable", "initDone", "deinitFree", "deinitDone"}

\* A critical section runs on the selected task, with no ISR on its thread.
Exclusive == \A p \in Contexts : Masked(p) => p = running /\ isr.vector = 0

\* Where an operation on the tables goes on after its critical section.
OpShape ==
    \A p \in Contexts : /\ op[p].then \in Continuations
                        /\ op[p].then # "idle" => pc[p] \in TableLabels

\* The selected task is between two steps of its operation on vector v.
Working(label, v) == pc[running] = label /\ op[running].vector = v

\* What each step of an operation finds.
PublishShape ==
    pc[running] = "publish" =>
        LET v == op[running].vector IN
        /\ v \in Vectors /\ ~vector[v].published
        /\ op[running].life = vector[v].epoch + 1 /\ op[running].life <= MaxVectorEpoch
        /\ op[running].record \in Records
        /\ Belongs(op[running].record, v, op[running].life)

EnablementShape ==
    pc[running] \in {"enablement", "retire"} =>
        /\ op[running].vector \in Vectors
        /\ StillPublished(op[running].vector, op[running].life)

RetireShape ==
    pc[running] = "retire" =>
        \A r \in Records : ~Belongs(r, op[running].vector, op[running].life)

UnregisterShape ==
    pc[running] = "unregister" =>
        LET v == op[running].vector IN
        v \in Vectors /\ ~vector[v].published /\ vector[v].epoch = op[running].life

\* A published record names a published vector's life, or the one being published.
RecordsNameVectors ==
    \A r \in Records :
        IF record[r].state.published
        THEN /\ record[r].vector \in Vectors
             /\ \/ StillPublished(record[r].vector, record[r].life)
                \/ Working("publish", record[r].vector) /\ record[r].life = op[running].life
        ELSE record[r].handler = "none"

\* Vectors in use and live slots of the controller name each other.
InUse(v) == vector[v].published \/ Working("publish", v) \/ Working("unregister", v)

VectorsNameSlots ==
    \A v \in Vectors : InUse(v) =>
        LET s == vector[v].slot IN
        /\ s \in Slots /\ controller[s].live /\ controller[s].vector = v
        /\ controller[s].generation = vector[v].generation

SlotsNameVectors ==
    \A s \in Slots : controller[s].live =>
        LET v == controller[s].vector IN
        v \in Vectors /\ InUse(v) /\ vector[v].slot = s

\* A source has one vector.
OneVectorPerSource ==
    \A v, w \in Vectors : InUse(v) /\ InUse(w) /\ vector[v].source = vector[w].source => v = w

\* The dispatch under way is of a published life, and no critical section is open.
DispatchShape ==
    /\ isr.vector # 0 => /\ isr.vector \in Vectors /\ StillPublished(isr.vector, isr.life)
                         /\ ~Masked(running)
    /\ isr.vector = 0 => isr.stage = "record"

\* A raising thread never knows a life that is still to come, and never goes below the
\* first vector and record.
RaiseShape ==
    \A p \in Contexts :
        /\ raise[p].vector >= 1 /\ raise[p].record >= 1
        /\ pc[p] \in RaiseLabels \ {"scan"} =>
              raise[p].vector \in Vectors /\ raise[p].life <= vector[raise[p].vector].epoch
        /\ pc[p] = "swap" => raise[p].record \in Records

\* While its publication lasts, the handle a thread has read is the vector's.
HandleIsVectors ==
    \A p \in Contexts :
        pc[p] = "pend" /\ StillPublished(raise[p].vector, raise[p].life) =>
            /\ raise[p].slot = vector[raise[p].vector].slot
            /\ raise[p].generation = vector[raise[p].vector].generation

\* A handle is no newer than its slot's registration; when it is that registration's, the
\* slot serves the vector life the thread found, which is published or just retired.
HandleIsKnown ==
    \A p \in Contexts : pc[p] = "pend" =>
        /\ raise[p].slot \in Slots
        /\ raise[p].generation <= controller[raise[p].slot].generation
        /\ HandleIsLive(p) =>
              LET v == raise[p].vector IN
              /\ controller[raise[p].slot].vector = v
              /\ vector[v].epoch = raise[p].life
              /\ vector[v].published \/ Working("unregister", v)

\* EnablementAgrees between the steps of an operation: every other vector agrees.
EnablementKnown ==
    \A v \in Vectors : vector[v].published =>
        \/ Working("enablement", v) \/ Working("retire", v)
        \/ controller[vector[v].slot].enabled <=> AnyEnabledRecord(v, vector[v].epoch)

TablesAgree ==
    /\ Exclusive /\ OpShape
    /\ PublishShape /\ EnablementShape /\ RetireShape /\ UnregisterShape
    /\ RecordsNameVectors /\ VectorsNameSlots /\ SlotsNameVectors /\ OneVectorPerSource

VectorStates ==
    [epoch : 0..MaxVectorEpoch, published : BOOLEAN, source : Sources, slot : Slots \cup {0},
     generation : Nat, shared : BOOLEAN]
RecordStates ==
    [state : StateWords, vector : Vectors \cup {0}, life : 0..MaxVectorEpoch,
     filter : Filters \cup {NoFilter}, handler : {"none", "driver", "timer"}]
SlotStates ==
    [generation : Nat, live : BOOLEAN, enabled : BOOLEAN, pending : BOOLEAN,
     vector : Vectors \cup {0}]
DispatchStates ==
    [vector : Vectors \cup {0}, life : 0..MaxVectorEpoch, next : Records \cup {1},
     stage : {"record", "call", "upper"}]
OpStates ==
    [record : Records \cup {0}, vector : Vectors \cup {0}, life : 0..MaxVectorEpoch,
     then : Labels]
RaiseStates ==
    [source : Sources, bits : SUBSET Filters, vector : Nat, life : 0..MaxVectorEpoch,
     record : Nat, seen : StateWords, matched : BOOLEAN, slot : Slots \cup {0},
     generation : Nat]

\* TypeOK's part about the interrupt tables.
InterruptTypes ==
    /\ vector \in [Vectors -> VectorStates]
    /\ record \in [Records -> RecordStates]
    /\ controller \in [Slots -> SlotStates]
    /\ running \in Tasks
    /\ isr \in DispatchStates
    /\ pc \in [Contexts -> Labels]
    /\ op \in [Contexts -> OpStates]
    /\ raise \in [Contexts -> RaiseStates]

InterruptInv ==
    /\ InterruptTypes /\ TablesAgree /\ DispatchShape
    /\ RaiseShape /\ HandleIsVectors /\ HandleIsKnown
    /\ EnablementKnown /\ MatchedIsServed

-----------------------------------------------------------------------------
(* Types *)

\* A task may begin an operation on the tables.
Callable(p) ==
    /\ p \in Tasks /\ CanRun(p)
    /\ pc[p] \notin RaiseLabels /\ ~Masked(p)

Requests ==
    [source : DriverSources \cup {TimerSource}, shared : BOOLEAN, enabled : BOOLEAN,
     filter : Filters \cup {NoFilter}, handler : {"driver", "timer"}]

LEMMA ConstantTypes ==
    /\ NoState \in StateWords
    /\ NoRaise \in RaiseStates
    /\ NoOp \in OpStates
    /\ NoDispatch \in DispatchStates
    /\ \A e \in 0..MaxRecordEpoch :
          FreeRecord(e) \in RecordStates
    /\ \A e \in 0..MaxVectorEpoch :
          FreeVector(e) \in VectorStates
<1>1. 0 \in 0..MaxVectorEpoch /\ 0 \in 0..MaxRecordEpoch
  BY CapacityAssumption
<1>2. NoState \in StateWords
  BY <1>1 DEF NoState, StateWords
<1>3. "idle" \in Labels /\ NoSource \in Sources
  BY DEF Labels, Sources
<1>4. \A e \in 0..MaxRecordEpoch : [NoState EXCEPT !.epoch = e] \in StateWords
  BY DEF NoState, StateWords
<1> QED
  BY <1>1, <1>2, <1>3, <1>4
     DEF NoRaise, NoOp, NoDispatch, FreeRecord, FreeVector, RaiseStates, OpStates,
         DispatchStates, RecordStates, VectorStates

LEMMA PublishRecordTypes ==
    ASSUME InterruptTypes, NEW r \in FreeRecords, NEW v \in Vectors,
           NEW life \in 0..MaxVectorEpoch, NEW a \in Requests, PublishRecord(r, v, life, a)
    PROVE  record' \in [Records -> RecordStates]
<1>1. r \in Records /\ record[r].state.epoch + 1 \in 0..MaxRecordEpoch
  BY CapacityAssumption DEF FreeRecords, HasNextEpoch, InterruptTypes, RecordStates, StateWords
<1>2. [epoch |-> record[r].state.epoch + 1, published |-> TRUE, enabled |-> a.enabled,
       matched |-> FALSE] \in StateWords
  BY <1>1 DEF StateWords, Requests
<1>3. a.filter \in Filters \cup {NoFilter} /\ a.handler \in {"none", "driver", "timer"}
  BY DEF Requests
<1> QED BY <1>1, <1>2, <1>3 DEF PublishRecord, InterruptTypes, RecordStates

\* The steps that change several fields of a vector or a slot, as one update each.
LEMMA NewVectorUpdate ==
    ASSUME InterruptTypes, NEW p, NEW a \in Requests, NEW r, NEW v \in Vectors,
           NEW s \in Slots, NEW then, NewVector(p, a, r, v, s, then)
    PROVE  vector' = [vector EXCEPT ![v] =
              [epoch |-> vector[v].epoch, published |-> vector[v].published,
               source |-> a.source, slot |-> s,
               generation |-> controller[s].generation + 1, shared |-> a.shared]]
<1> DEFINE g == controller[s].generation + 1
           new == [epoch |-> vector[v].epoch, published |-> vector[v].published,
                   source |-> a.source, slot |-> s, generation |-> g, shared |-> a.shared]
<1>1. g \in Nat
  BY DEF InterruptTypes, SlotStates
<1>2. vector' = [vector EXCEPT ![v].source = a.source, ![v].slot = s, ![v].generation = g,
                               ![v].shared = a.shared]
  BY DEF NewVector
<1>3. vector \in [Vectors -> VectorStates]
  BY DEF InterruptTypes
<1> HIDE DEF g
<1>4. vector'[v] = new
  BY <1>2, <1>3 DEF VectorStates
<1>5. vector' = [vector EXCEPT ![v] = vector'[v]]
  BY <1>2, <1>3
<1> QED BY <1>4, <1>5 DEF g

LEMMA PublishUpdate ==
    ASSUME InterruptTypes, NEW p, Publish(p), op[p].vector \in Vectors
    PROVE  LET v == op[p].vector IN
           vector' = [vector EXCEPT ![v] =
              [epoch |-> op[p].life, published |-> TRUE, source |-> vector[v].source,
               slot |-> vector[v].slot, generation |-> vector[v].generation,
               shared |-> vector[v].shared]]
<1> DEFINE v == op[p].vector
           l == op[p].life
           new == [epoch |-> l, published |-> TRUE, source |-> vector[v].source,
                   slot |-> vector[v].slot, generation |-> vector[v].generation,
                   shared |-> vector[v].shared]
<1>1. v \in Vectors
  OBVIOUS
<1>2. vector' = [vector EXCEPT ![v].published = TRUE, ![v].epoch = l]
  BY DEF Publish
<1>3. vector \in [Vectors -> VectorStates]
  BY DEF InterruptTypes
<1> HIDE DEF v, l
<1>4. vector'[v] = new
  BY <1>1, <1>2, <1>3 DEF VectorStates
<1>5. vector' = [vector EXCEPT ![v] = vector'[v]]
  BY <1>1, <1>2, <1>3
<1> QED BY <1>4, <1>5 DEF v, l

LEMMA UnregisterUpdate ==
    ASSUME InterruptTypes, NEW p, Unregister(p), op[p].vector \in Vectors,
           vector[op[p].vector].slot \in Slots
    PROVE  LET v == op[p].vector
               s == vector[v].slot IN
           controller' = [controller EXCEPT ![s] =
              [generation |-> controller[s].generation, live |-> FALSE, enabled |-> FALSE,
               pending |-> FALSE, vector |-> controller[s].vector]]
<1> DEFINE s == vector[op[p].vector].slot
           new == [generation |-> controller[s].generation, live |-> FALSE, enabled |-> FALSE,
                   pending |-> FALSE, vector |-> controller[s].vector]
<1>1. s \in Slots
  OBVIOUS
<1>2. controller' = [controller EXCEPT ![s].live = FALSE, ![s].enabled = FALSE,
                                       ![s].pending = FALSE]
  BY DEF Unregister
<1>3. controller \in [Slots -> SlotStates]
  BY DEF InterruptTypes
<1> HIDE DEF s
<1>4. controller'[s] = new
  BY <1>1, <1>2, <1>3 DEF SlotStates
<1>5. controller' = [controller EXCEPT ![s] = controller'[s]]
  BY <1>1, <1>2, <1>3
<1> QED BY <1>4, <1>5 DEF s

\* A record's flag changes and nothing else of it, nor any other record.
LEMMA EnabledUpdate ==
    ASSUME NEW before \in [Records -> RecordStates], NEW r \in Records, NEW b \in BOOLEAN,
           NEW after, after = [before EXCEPT ![r].state.enabled = b]
    PROVE  /\ after \in [Records -> RecordStates]
           /\ \A q \in Records : q # r => after[q] = before[q]
           /\ \A q \in Records :
                 /\ after[q].vector = before[q].vector /\ after[q].life = before[q].life
                 /\ after[q].filter = before[q].filter /\ after[q].handler = before[q].handler
                 /\ after[q].state.epoch = before[q].state.epoch
                 /\ after[q].state.published = before[q].state.published
                 /\ after[q].state.matched = before[q].state.matched
                 /\ after[q].state.enabled = IF q = r THEN b ELSE before[q].state.enabled
<1> DEFINE x == before[r]
           word == [epoch |-> x.state.epoch, published |-> x.state.published,
                    enabled |-> b, matched |-> x.state.matched]
           new == [state |-> word, vector |-> x.vector, life |-> x.life, filter |-> x.filter,
                   handler |-> x.handler]
<1>1. x \in RecordStates
  OBVIOUS
<1>2. x.state \in StateWords
  BY <1>1 DEF RecordStates
<1>3. word \in StateWords /\ word = [x.state EXCEPT !.enabled = b]
  BY <1>2 DEF StateWords
<1>4. after = [before EXCEPT ![r] = [x EXCEPT !.state = [x.state EXCEPT !.enabled = b]]]
  OBVIOUS
<1> HIDE DEF x, word
<1>5. new \in RecordStates /\ new = [x EXCEPT !.state = word]
  BY <1>1, <1>3 DEF RecordStates
<1>6. after = [before EXCEPT ![r] = new]
  BY <1>3, <1>4, <1>5 DEF x
<1>7. after[r] = new /\ \A q \in Records : q # r => after[q] = before[q]
  BY <1>6
<1>8. after \in [Records -> RecordStates]
  BY <1>5, <1>6
<1>9. ASSUME NEW q \in Records
      PROVE  /\ after[q].vector = before[q].vector /\ after[q].life = before[q].life
             /\ after[q].filter = before[q].filter /\ after[q].handler = before[q].handler
             /\ after[q].state.epoch = before[q].state.epoch
             /\ after[q].state.published = before[q].state.published
             /\ after[q].state.matched = before[q].state.matched
             /\ after[q].state.enabled = IF q = r THEN b ELSE before[q].state.enabled
  <2>1. CASE q = r
    <3>1. after[r].state = word /\ after[r].vector = x.vector /\ after[r].life = x.life
          /\ after[r].filter = x.filter /\ after[r].handler = x.handler
      BY <1>7
    <3> QED BY <2>1, <3>1 DEF x, word
  <2>2. CASE q # r
    BY <1>7, <2>2
  <2> QED BY <2>1, <2>2
<1> QED BY <1>7, <1>8, <1>9

LEMMA MatchedUpdate ==
    ASSUME NEW before \in [Records -> RecordStates], NEW r \in Records, NEW b \in BOOLEAN,
           NEW after, after = [before EXCEPT ![r].state.matched = b]
    PROVE  /\ after \in [Records -> RecordStates]
           /\ \A q \in Records : q # r => after[q] = before[q]
           /\ \A q \in Records :
                 /\ after[q].vector = before[q].vector /\ after[q].life = before[q].life
                 /\ after[q].filter = before[q].filter /\ after[q].handler = before[q].handler
                 /\ after[q].state.epoch = before[q].state.epoch
                 /\ after[q].state.published = before[q].state.published
                 /\ after[q].state.enabled = before[q].state.enabled
                 /\ after[q].state.matched = IF q = r THEN b ELSE before[q].state.matched
<1> DEFINE x == before[r]
           word == [epoch |-> x.state.epoch, published |-> x.state.published,
                    enabled |-> x.state.enabled, matched |-> b]
           new == [state |-> word, vector |-> x.vector, life |-> x.life, filter |-> x.filter,
                   handler |-> x.handler]
<1>1. x \in RecordStates
  OBVIOUS
<1>2. x.state \in StateWords
  BY <1>1 DEF RecordStates
<1>3. word \in StateWords /\ word = [x.state EXCEPT !.matched = b]
  BY <1>2 DEF StateWords
<1>4. after = [before EXCEPT ![r] = [x EXCEPT !.state = [x.state EXCEPT !.matched = b]]]
  OBVIOUS
<1> HIDE DEF x, word
<1>5. new \in RecordStates /\ new = [x EXCEPT !.state = word]
  BY <1>1, <1>3 DEF RecordStates
<1>6. after = [before EXCEPT ![r] = new]
  BY <1>3, <1>4, <1>5 DEF x
<1>7. after[r] = new /\ \A q \in Records : q # r => after[q] = before[q]
  BY <1>6
<1>8. after \in [Records -> RecordStates]
  BY <1>5, <1>6
<1>9. ASSUME NEW q \in Records
      PROVE  /\ after[q].vector = before[q].vector /\ after[q].life = before[q].life
             /\ after[q].filter = before[q].filter /\ after[q].handler = before[q].handler
             /\ after[q].state.epoch = before[q].state.epoch
             /\ after[q].state.published = before[q].state.published
             /\ after[q].state.enabled = before[q].state.enabled
             /\ after[q].state.matched = IF q = r THEN b ELSE before[q].state.matched
  <2>1. CASE q = r
    <3>1. after[r].state = word /\ after[r].vector = x.vector /\ after[r].life = x.life
          /\ after[r].filter = x.filter /\ after[r].handler = x.handler
      BY <1>7
    <3> QED BY <2>1, <3>1 DEF x, word
  <2>2. CASE q # r
    BY <1>7, <2>2
  <2> QED BY <2>1, <2>2
<1> QED BY <1>7, <1>8, <1>9

LEMMA SlotEnabledUpdate ==
    ASSUME NEW before \in [Slots -> SlotStates], NEW s \in Slots, NEW b \in BOOLEAN,
           NEW after, after = [before EXCEPT ![s].enabled = b]
    PROVE  /\ after \in [Slots -> SlotStates]
           /\ \A t \in Slots :
                 /\ after[t].generation = before[t].generation
                 /\ after[t].live = before[t].live /\ after[t].vector = before[t].vector
                 /\ after[t].pending = before[t].pending
                 /\ after[t].enabled = IF t = s THEN b ELSE before[t].enabled
<1> DEFINE y == [generation |-> before[s].generation, live |-> before[s].live,
                  enabled |-> b, pending |-> before[s].pending, vector |-> before[s].vector]
<1>1. y \in SlotStates
  BY DEF SlotStates
<1>2. after[s] = y
  BY DEF SlotStates
<1>3. after = [before EXCEPT ![s] = after[s]]
  OBVIOUS
<1> HIDE DEF y
<1>4. after = [before EXCEPT ![s] = y]
  BY <1>2, <1>3
<1>5. after \in [Slots -> SlotStates] /\ after[s] = y /\ \A t \in Slots : t # s => after[t] = before[t]
  BY <1>1, <1>4
<1> QED BY <1>5 DEF y

LEMMA SlotPendingUpdate ==
    ASSUME NEW before \in [Slots -> SlotStates], NEW s \in Slots, NEW b \in BOOLEAN,
           NEW after, after = [before EXCEPT ![s].pending = b]
    PROVE  /\ after \in [Slots -> SlotStates]
           /\ \A t \in Slots :
                 /\ after[t].generation = before[t].generation
                 /\ after[t].live = before[t].live /\ after[t].vector = before[t].vector
                 /\ after[t].enabled = before[t].enabled
                 /\ after[t].pending = IF t = s THEN b ELSE before[t].pending
<1> DEFINE y == [generation |-> before[s].generation, live |-> before[s].live,
                  enabled |-> before[s].enabled, pending |-> b, vector |-> before[s].vector]
<1>1. y \in SlotStates
  BY DEF SlotStates
<1>2. after[s] = y
  BY DEF SlotStates
<1>3. after = [before EXCEPT ![s] = after[s]]
  OBVIOUS
<1> HIDE DEF y
<1>4. after = [before EXCEPT ![s] = y]
  BY <1>2, <1>3
<1>5. after \in [Slots -> SlotStates] /\ after[s] = y /\ \A t \in Slots : t # s => after[t] = before[t]
  BY <1>1, <1>4
<1> QED BY <1>5 DEF y

LEMMA JoinVectorTypes ==
    ASSUME InterruptTypes, NEW p \in Tasks, NEW a \in Requests, NEW r \in FreeRecords,
           NEW v \in Vectors, NEW then \in Labels, JoinVector(p, a, r, v, then)
    PROVE  InterruptTypes'
<1>1. vector[v].epoch \in 0..MaxVectorEpoch /\ r \in Records /\ "enablement" \in Labels
  BY DEF InterruptTypes, VectorStates, FreeRecords, Labels
<1>2. record' \in [Records -> RecordStates]
  BY <1>1, PublishRecordTypes DEF JoinVector
<1> QED BY <1>1, <1>2 DEF JoinVector, InterruptTypes, OpStates, Goto, cpu

LEMMA NewVectorTypes ==
    ASSUME InterruptTypes, NEW p \in Tasks, NEW a \in Requests, NEW r \in FreeRecords,
           NEW v \in Vectors, NEW s \in Slots, NEW then \in Labels,
           NewVector(p, a, r, v, s, then)
    PROVE  InterruptTypes'
<1>1. vector[v].epoch + 1 \in 0..MaxVectorEpoch /\ r \in Records /\ "publish" \in Labels
  BY CapacityAssumption
     DEF NewVector, IsFirst, FreeVectors, HasNextEpoch, InterruptTypes, VectorStates,
         FreeRecords, Labels
<1>2. record' \in [Records -> RecordStates]
  BY <1>1, PublishRecordTypes DEF NewVector
<1>3. controller[s].generation + 1 \in Nat
  BY DEF InterruptTypes, SlotStates
<1>4. [epoch |-> vector[v].epoch, published |-> vector[v].published, source |-> a.source,
       slot |-> s, generation |-> controller[s].generation + 1, shared |-> a.shared]
         \in VectorStates
  BY <1>3 DEF Requests, Sources, InterruptTypes, VectorStates
<1>5. vector' \in [Vectors -> VectorStates]
  BY <1>4, NewVectorUpdate DEF InterruptTypes
<1>6. controller' \in [Slots -> SlotStates]
  BY <1>3 DEF NewVector, InterruptTypes, SlotStates
<1>7. op' \in [Contexts -> OpStates]
  BY <1>1 DEF NewVector, InterruptTypes, OpStates
<1>8. pc' \in [Contexts -> Labels]
  BY <1>1 DEF NewVector, Goto, InterruptTypes
<1>9. UNCHANGED <<running, isr, raise>>
  BY DEF NewVector, cpu
<1> QED BY <1>2, <1>5, <1>6, <1>7, <1>8, <1>9 DEF InterruptTypes

LEMMA PublishTypes ==
    ASSUME InterruptTypes, NEW p \in Contexts, Publish(p), op[p].vector \in Vectors
    PROVE  InterruptTypes'
<1>1. "enablement" \in Labels
  BY DEF Labels
<1>2. vector' \in [Vectors -> VectorStates]
  <2> DEFINE v == op[p].vector
             new == [epoch |-> op[p].life, published |-> TRUE, source |-> vector[v].source,
                     slot |-> vector[v].slot, generation |-> vector[v].generation,
                     shared |-> vector[v].shared]
  <2>1. new \in VectorStates
    BY DEF InterruptTypes, VectorStates, OpStates
  <2> QED BY <2>1, PublishUpdate DEF InterruptTypes
<1> QED BY <1>1, <1>2 DEF Publish, Goto, InterruptTypes, cpu

LEMMA ReturnTypes ==
    ASSUME InterruptTypes, NEW p \in Contexts, Return(p)
    PROVE  /\ pc' \in [Contexts -> Labels]
           /\ op' \in [Contexts -> OpStates]
<1>1. "idle" \in Labels /\ 0 \in 0..MaxVectorEpoch
  BY CapacityAssumption DEF Labels
<1> QED BY <1>1 DEF Return, Goto, NoOp, InterruptTypes, OpStates

LEMMA UpdateVectorEnablementTypes ==
    ASSUME InterruptTypes, NEW p \in Contexts, UpdateVectorEnablement(p)
    PROVE  InterruptTypes'
<1>1. AnyEnabledRecord(op[p].vector, op[p].life) \in BOOLEAN
  BY DEF AnyEnabledRecord
<1>2. controller' \in [Slots -> SlotStates]
  BY <1>1 DEF UpdateVectorEnablement, InterruptTypes, SlotStates
<1> QED
  BY <1>2, ReturnTypes DEF UpdateVectorEnablement, InterruptTypes, cpu

LEMMA SetRecordEnabledTypes ==
    ASSUME InterruptTypes, NEW p \in Contexts, NEW r \in Records, NEW enabled \in BOOLEAN,
           NEW then \in Labels, SetRecordEnabled(p, r, enabled, then)
    PROVE  InterruptTypes'
<1>1. "enablement" \in Labels
  BY DEF Labels
<1>2. record' \in [Records -> RecordStates]
  BY EnabledUpdate DEF SetRecordEnabled, InterruptTypes
<1>3. op' \in [Contexts -> OpStates]
  BY DEF SetRecordEnabled, InterruptTypes, OpStates, RecordStates
<1> QED BY <1>1, <1>2, <1>3 DEF SetRecordEnabled, Goto, InterruptTypes, cpu

LEMMA FreeTypes ==
    ASSUME InterruptTypes, NEW p \in Contexts, NEW r \in Records, NEW then \in Labels,
           esp_intr_free(p, r, then)
    PROVE  InterruptTypes'
<1>1. AfterUnpublish(r, then) \in Labels
  BY DEF AfterUnpublish, Labels
<1>2. record[r].state.epoch \in 0..MaxRecordEpoch
  BY DEF InterruptTypes, RecordStates, StateWords
<1>3. record' \in [Records -> RecordStates]
  BY <1>2, ConstantTypes DEF esp_intr_free, InterruptTypes
<1>4. op' \in [Contexts -> OpStates]
  BY DEF esp_intr_free, InterruptTypes, OpStates, RecordStates
<1> QED BY <1>1, <1>3, <1>4 DEF esp_intr_free, Goto, InterruptTypes, cpu

LEMMA RetireTypes ==
    ASSUME InterruptTypes, NEW p \in Contexts, Retire(p)
    PROVE  InterruptTypes'
<1>1. "unregister" \in Labels
  BY DEF Labels
<1>2. vector' \in [Vectors -> VectorStates]
  BY DEF Retire, InterruptTypes, VectorStates
<1> QED BY <1>1, <1>2 DEF Retire, Goto, InterruptTypes, cpu

LEMMA UnregisterTypes ==
    ASSUME InterruptTypes, NEW p \in Contexts, Unregister(p), op[p].vector \in Vectors,
           vector[op[p].vector].slot \in Slots
    PROVE  InterruptTypes'
<1>1. op[p].life \in 0..MaxVectorEpoch
  BY DEF InterruptTypes, OpStates
<1>2. controller' \in [Slots -> SlotStates]
  <2> DEFINE s == vector[op[p].vector].slot
             new == [generation |-> controller[s].generation, live |-> FALSE,
                     enabled |-> FALSE, pending |-> FALSE, vector |-> controller[s].vector]
  <2>1. new \in SlotStates
    BY DEF InterruptTypes, SlotStates
  <2> QED BY <2>1, UnregisterUpdate DEF InterruptTypes
<1>3. vector' \in [Vectors -> VectorStates]
  BY <1>1, ConstantTypes DEF Unregister, InterruptTypes
<1> QED BY <1>2, <1>3, ReturnTypes DEF Unregister, InterruptTypes, cpu

\* The locals of a raising thread: each update changes its fields and no other thread's.
LEMMA BeginRaiseUpdate ==
    ASSUME InterruptTypes, NEW p \in Contexts, NEW source \in Sources,
           NEW bits \in SUBSET Filters, BeginRaise(p, source, bits)
    PROVE  /\ raise' \in [Contexts -> RaiseStates]
           /\ \A q \in Contexts : q # p => raise'[q] = raise[q]
           /\ raise'[p].source = source /\ raise'[p].vector = 1 /\ raise'[p].record = 1
           /\ pc' = [pc EXCEPT ![p] = "scan"]
<1> DEFINE y == [NoRaise EXCEPT !.source = source, !.bits = bits]
<1>1. y \in RaiseStates /\ y.source = source /\ y.vector = 1 /\ y.record = 1
  BY ConstantTypes DEF NoRaise, RaiseStates
<1>2. raise' = [raise EXCEPT ![p] = y]
  BY DEF BeginRaise
<1> HIDE DEF y
<1> QED BY <1>1, <1>2 DEF InterruptTypes, BeginRaise, Goto

LEMMA EndRaiseUpdate ==
    ASSUME InterruptTypes, NEW p \in Contexts, EndRaise(p)
    PROVE  /\ raise' \in [Contexts -> RaiseStates]
           /\ \A q \in Contexts : q # p => raise'[q] = raise[q]
           /\ raise'[p].vector = 1 /\ raise'[p].record = 1
           /\ pc' = [pc EXCEPT ![p] = "idle"]
<1>1. NoRaise.vector = 1 /\ NoRaise.record = 1
  BY DEF NoRaise
<1> QED BY <1>1, ConstantTypes DEF InterruptTypes, EndRaise, Goto

LEMMA NextVectorUpdate ==
    ASSUME InterruptTypes, NEW p \in Contexts,
           raise' = [raise EXCEPT ![p].vector = @ + 1, ![p].life = 0]
    PROVE  /\ raise' \in [Contexts -> RaiseStates]
           /\ \A q \in Contexts : q # p => raise'[q] = raise[q]
           /\ raise'[p].source = raise[p].source /\ raise'[p].bits = raise[p].bits
           /\ raise'[p].vector = raise[p].vector + 1 /\ raise'[p].life = 0
           /\ raise'[p].record = raise[p].record /\ raise'[p].seen = raise[p].seen
           /\ raise'[p].matched = raise[p].matched /\ raise'[p].slot = raise[p].slot
           /\ raise'[p].generation = raise[p].generation
<1> DEFINE y == [source |-> raise[p].source, bits |-> raise[p].bits, vector |-> raise[p].vector + 1,
                 life |-> 0, record |-> raise[p].record, seen |-> raise[p].seen,
                 matched |-> raise[p].matched, slot |-> raise[p].slot, generation |-> raise[p].generation]
<1>1. raise[p] \in RaiseStates
  BY DEF InterruptTypes
<1>2. raise[p].vector + 1 \in Nat /\ 0 \in 0..MaxVectorEpoch
  BY <1>1, CapacityAssumption DEF RaiseStates
<1>3. y \in RaiseStates
  BY <1>1, <1>2 DEF RaiseStates
<1>4. raise'[p] = y
  BY <1>2 DEF InterruptTypes, RaiseStates
<1>5. raise' = [raise EXCEPT ![p] = raise'[p]]
  BY DEF InterruptTypes
<1> HIDE DEF y
<1>6. raise' = [raise EXCEPT ![p] = y]
  BY <1>4, <1>5
<1>7. raise' \in [Contexts -> RaiseStates] /\ raise'[p] = y
      /\ \A q \in Contexts : q # p => raise'[q] = raise[q]
  BY <1>3, <1>6 DEF InterruptTypes
<1> QED BY <1>7 DEF y

LEMMA LifeUpdate ==
    ASSUME InterruptTypes, NEW p \in Contexts, NEW life \in 0..MaxVectorEpoch,
           raise' = [raise EXCEPT ![p].life = life]
    PROVE  /\ raise' \in [Contexts -> RaiseStates]
           /\ \A q \in Contexts : q # p => raise'[q] = raise[q]
           /\ raise'[p].source = raise[p].source /\ raise'[p].bits = raise[p].bits
           /\ raise'[p].vector = raise[p].vector /\ raise'[p].life = life
           /\ raise'[p].record = raise[p].record /\ raise'[p].seen = raise[p].seen
           /\ raise'[p].matched = raise[p].matched /\ raise'[p].slot = raise[p].slot
           /\ raise'[p].generation = raise[p].generation
<1> DEFINE y == [source |-> raise[p].source, bits |-> raise[p].bits, vector |-> raise[p].vector,
                 life |-> life, record |-> raise[p].record, seen |-> raise[p].seen,
                 matched |-> raise[p].matched, slot |-> raise[p].slot, generation |-> raise[p].generation]
<1>1. raise[p] \in RaiseStates
  BY DEF InterruptTypes
<1>2. life \in 0..MaxVectorEpoch
  BY <1>1
<1>3. y \in RaiseStates
  BY <1>1, <1>2 DEF RaiseStates
<1>4. raise'[p] = y
  BY <1>2 DEF InterruptTypes, RaiseStates
<1>5. raise' = [raise EXCEPT ![p] = raise'[p]]
  BY DEF InterruptTypes
<1> HIDE DEF y
<1>6. raise' = [raise EXCEPT ![p] = y]
  BY <1>4, <1>5
<1>7. raise' \in [Contexts -> RaiseStates] /\ raise'[p] = y
      /\ \A q \in Contexts : q # p => raise'[q] = raise[q]
  BY <1>3, <1>6 DEF InterruptTypes
<1> QED BY <1>7 DEF y

LEMMA FirstRecordUpdate ==
    ASSUME InterruptTypes, NEW p \in Contexts,
           raise' = [raise EXCEPT ![p].record = 1]
    PROVE  /\ raise' \in [Contexts -> RaiseStates]
           /\ \A q \in Contexts : q # p => raise'[q] = raise[q]
           /\ raise'[p].source = raise[p].source /\ raise'[p].bits = raise[p].bits
           /\ raise'[p].vector = raise[p].vector /\ raise'[p].life = raise[p].life
           /\ raise'[p].record = 1 /\ raise'[p].seen = raise[p].seen
           /\ raise'[p].matched = raise[p].matched /\ raise'[p].slot = raise[p].slot
           /\ raise'[p].generation = raise[p].generation
<1> DEFINE y == [source |-> raise[p].source, bits |-> raise[p].bits, vector |-> raise[p].vector,
                 life |-> raise[p].life, record |-> 1, seen |-> raise[p].seen,
                 matched |-> raise[p].matched, slot |-> raise[p].slot, generation |-> raise[p].generation]
<1>1. raise[p] \in RaiseStates
  BY DEF InterruptTypes
<1>2. 1 \in Nat
  BY <1>1
<1>3. y \in RaiseStates
  BY <1>1, <1>2 DEF RaiseStates
<1>4. raise'[p] = y
  BY <1>2 DEF InterruptTypes, RaiseStates
<1>5. raise' = [raise EXCEPT ![p] = raise'[p]]
  BY DEF InterruptTypes
<1> HIDE DEF y
<1>6. raise' = [raise EXCEPT ![p] = y]
  BY <1>4, <1>5
<1>7. raise' \in [Contexts -> RaiseStates] /\ raise'[p] = y
      /\ \A q \in Contexts : q # p => raise'[q] = raise[q]
  BY <1>3, <1>6 DEF InterruptTypes
<1> QED BY <1>7 DEF y

LEMMA NextRecordUpdate ==
    ASSUME InterruptTypes, NEW p \in Contexts, NEW marked \in BOOLEAN,
           raise' = [raise EXCEPT ![p].record = @ + 1, ![p].seen = NoState,
                                     ![p].matched = MatchedSoFar(p, marked)]
    PROVE  /\ raise' \in [Contexts -> RaiseStates]
           /\ \A q \in Contexts : q # p => raise'[q] = raise[q]
           /\ raise'[p].source = raise[p].source /\ raise'[p].bits = raise[p].bits
           /\ raise'[p].vector = raise[p].vector /\ raise'[p].life = raise[p].life
           /\ raise'[p].record = raise[p].record + 1 /\ raise'[p].seen = NoState
           /\ raise'[p].matched = MatchedSoFar(p, marked) /\ raise'[p].slot = raise[p].slot
           /\ raise'[p].generation = raise[p].generation
<1> DEFINE y == [source |-> raise[p].source, bits |-> raise[p].bits, vector |-> raise[p].vector,
                 life |-> raise[p].life, record |-> raise[p].record + 1, seen |-> NoState,
                 matched |-> MatchedSoFar(p, marked), slot |-> raise[p].slot, generation |-> raise[p].generation]
<1>1. raise[p] \in RaiseStates
  BY DEF InterruptTypes
<1>2. raise[p].record + 1 \in Nat /\ NoState \in StateWords /\ MatchedSoFar(p, marked) \in BOOLEAN
  BY <1>1, ConstantTypes DEF MatchedSoFar, RaiseStates
<1>3. y \in RaiseStates
  BY <1>1, <1>2 DEF RaiseStates
<1>4. raise'[p] = y
  BY <1>2 DEF InterruptTypes, RaiseStates
<1>5. raise' = [raise EXCEPT ![p] = raise'[p]]
  BY DEF InterruptTypes
<1> HIDE DEF y
<1>6. raise' = [raise EXCEPT ![p] = y]
  BY <1>4, <1>5
<1>7. raise' \in [Contexts -> RaiseStates] /\ raise'[p] = y
      /\ \A q \in Contexts : q # p => raise'[q] = raise[q]
  BY <1>3, <1>6 DEF InterruptTypes
<1> QED BY <1>7 DEF y

LEMMA SeenUpdate ==
    ASSUME InterruptTypes, NEW p \in Contexts, NEW seen \in StateWords,
           raise' = [raise EXCEPT ![p].seen = seen]
    PROVE  /\ raise' \in [Contexts -> RaiseStates]
           /\ \A q \in Contexts : q # p => raise'[q] = raise[q]
           /\ raise'[p].source = raise[p].source /\ raise'[p].bits = raise[p].bits
           /\ raise'[p].vector = raise[p].vector /\ raise'[p].life = raise[p].life
           /\ raise'[p].record = raise[p].record /\ raise'[p].seen = seen
           /\ raise'[p].matched = raise[p].matched /\ raise'[p].slot = raise[p].slot
           /\ raise'[p].generation = raise[p].generation
<1> DEFINE y == [source |-> raise[p].source, bits |-> raise[p].bits, vector |-> raise[p].vector,
                 life |-> raise[p].life, record |-> raise[p].record, seen |-> seen,
                 matched |-> raise[p].matched, slot |-> raise[p].slot, generation |-> raise[p].generation]
<1>1. raise[p] \in RaiseStates
  BY DEF InterruptTypes
<1>2. seen \in StateWords
  BY <1>1
<1>3. y \in RaiseStates
  BY <1>1, <1>2 DEF RaiseStates
<1>4. raise'[p] = y
  BY <1>2 DEF InterruptTypes, RaiseStates
<1>5. raise' = [raise EXCEPT ![p] = raise'[p]]
  BY DEF InterruptTypes
<1> HIDE DEF y
<1>6. raise' = [raise EXCEPT ![p] = y]
  BY <1>4, <1>5
<1>7. raise' \in [Contexts -> RaiseStates] /\ raise'[p] = y
      /\ \A q \in Contexts : q # p => raise'[q] = raise[q]
  BY <1>3, <1>6 DEF InterruptTypes
<1> QED BY <1>7 DEF y

LEMMA HandleUpdate ==
    ASSUME InterruptTypes, NEW p \in Contexts, NEW slot \in Slots, NEW g \in Nat,
           raise' = [raise EXCEPT ![p].slot = slot, ![p].generation = g]
    PROVE  /\ raise' \in [Contexts -> RaiseStates]
           /\ \A q \in Contexts : q # p => raise'[q] = raise[q]
           /\ raise'[p] =
                 [source |-> raise[p].source, bits |-> raise[p].bits, vector |-> raise[p].vector,
                  life |-> raise[p].life, record |-> raise[p].record, seen |-> raise[p].seen,
                  matched |-> raise[p].matched, slot |-> slot, generation |-> g]
<1> DEFINE y == [source |-> raise[p].source, bits |-> raise[p].bits, vector |-> raise[p].vector,
                 life |-> raise[p].life, record |-> raise[p].record, seen |-> raise[p].seen,
                 matched |-> raise[p].matched, slot |-> slot, generation |-> g]
<1>1. raise[p] \in RaiseStates
  BY DEF InterruptTypes
<1>2. slot \in Slots /\ g \in Nat
  BY <1>1
<1>3. y \in RaiseStates
  BY <1>1, <1>2 DEF RaiseStates
<1>4. raise'[p] = y
  BY <1>2 DEF InterruptTypes, RaiseStates
<1>5. raise' = [raise EXCEPT ![p] = raise'[p]]
  BY DEF InterruptTypes
<1> HIDE DEF y
<1>6. raise' = [raise EXCEPT ![p] = y]
  BY <1>4, <1>5
<1>7. raise' \in [Contexts -> RaiseStates] /\ raise'[p] = y
      /\ \A q \in Contexts : q # p => raise'[q] = raise[q]
  BY <1>3, <1>6 DEF InterruptTypes
<1> QED BY <1>7 DEF y


-----------------------------------------------------------------------------
(* Steps outside the critical sections: only flags of the tables change *)

SameRecords ==
    \A r \in Records :
        /\ record'[r].vector = record[r].vector /\ record'[r].life = record[r].life
        /\ record'[r].filter = record[r].filter /\ record'[r].handler = record[r].handler
        /\ record'[r].state.published = record[r].state.published
        /\ record'[r].state.enabled = record[r].state.enabled

SameSlots ==
    \A s \in Slots :
        /\ controller'[s].generation = controller[s].generation
        /\ controller'[s].live = controller[s].live
        /\ controller'[s].enabled = controller[s].enabled
        /\ controller'[s].vector = controller[s].vector

LEMMA TablesFrame ==
    ASSUME InterruptTypes, TablesAgree, NEW p \in Contexts, NEW label,
           pc' = [pc EXCEPT ![p] = label],
           pc[p] \notin TableLabels, label \notin TableLabels,
           label \in CriticalLabels => p = running /\ isr'.vector = 0,
           OpShape', \A q \in Contexts : pc[q] \in TableLabels => op'[q] = op[q],
           UNCHANGED <<vector, running>>, isr' = isr \/ ~Masked(running),
           SameRecords, SameSlots
    PROVE  TablesAgree' /\ (EnablementKnown => EnablementKnown')
<1>1. \A q \in Contexts : pc[q] \in TableLabels \/ pc'[q] \in TableLabels =>
                              pc'[q] = pc[q] /\ op'[q] = op[q]
  BY DEF InterruptTypes
<1>2. running \in Contexts
  BY DEF InterruptTypes, Contexts
<1>3. /\ pc[running] \in TableLabels => pc'[running] = pc[running] /\ op'[running] = op[running]
      /\ pc'[running] \in TableLabels => pc'[running] = pc[running] /\ op'[running] = op[running]
  BY <1>1, <1>2
<1>4. Exclusive'
  <2> SUFFICES ASSUME NEW q \in Contexts, pc'[q] \in CriticalLabels
               PROVE  q = running' /\ isr'.vector = 0
    BY DEF Exclusive, Masked
  <2>1. CASE q = p
    BY <2>1 DEF InterruptTypes
  <2>2. CASE q # p
    <3>1. q = running /\ isr.vector = 0 /\ Masked(running)
      BY <2>2 DEF InterruptTypes, TablesAgree, Exclusive, Masked
    <3> QED BY <3>1
  <2> QED BY <2>1, <2>2
<1>5. \A l \in TableLabels : \A v : Working(l, v)' <=> Working(l, v)
  BY <1>3 DEF Working
<1>6. \A r \in Records : \A v, life : Belongs(r, v, life)' <=> Belongs(r, v, life)
  BY DEF SameRecords, Belongs
<1>7. PublishShape'
  BY <1>3, <1>6 DEF TablesAgree, PublishShape, TableLabels
<1>8. EnablementShape' /\ UnregisterShape'
  BY <1>3 DEF TablesAgree, EnablementShape, UnregisterShape, StillPublished, TableLabels
<1>9. RetireShape'
  BY <1>3, <1>6 DEF TablesAgree, RetireShape, TableLabels
<1>10. RecordsNameVectors'
  BY <1>3, <1>5 DEF TablesAgree, RecordsNameVectors, SameRecords, StillPublished, Working, TableLabels
<1>11. \A v : InUse(v)' <=> InUse(v)
  BY <1>5 DEF InUse, TableLabels
<1>12. VectorsNameSlots'
  BY <1>11 DEF TablesAgree, VectorsNameSlots, SameSlots
<1>13. SlotsNameVectors'
  BY <1>11 DEF TablesAgree, SlotsNameVectors, SameSlots
<1>14. OneVectorPerSource'
  BY <1>11 DEF TablesAgree, OneVectorPerSource
<1>15. EnablementKnown => EnablementKnown'
  <2> SUFFICES ASSUME EnablementKnown, NEW v \in Vectors, vector[v].published
               PROVE  EnablementKnown!(v)'
    BY DEF EnablementKnown
  <2>1. vector[v].slot \in Slots
    BY DEF TablesAgree, VectorsNameSlots, InUse
  <2>2. AnyEnabledRecord(v, vector[v].epoch)' <=> AnyEnabledRecord(v, vector[v].epoch)
    BY <1>6 DEF AnyEnabledRecord, SameRecords
  <2> QED BY <1>5, <2>1, <2>2 DEF EnablementKnown, SameSlots, TableLabels
<1> QED
  BY <1>4, <1>7, <1>8, <1>9, <1>10, <1>12, <1>13, <1>14, <1>15 DEF TablesAgree

-----------------------------------------------------------------------------
(* Operations on the tables *)

\* The caller is the selected task, and no operation is under way.
LEMMA CallerRuns ==
    ASSUME InterruptTypes, TablesAgree, NEW p, Callable(p)
    PROVE  /\ p = running /\ p \in Contexts /\ isr.vector = 0
           /\ pc[running] \notin TableLabels
           /\ \A l \in TableLabels : \A v : ~Working(l, v)
           /\ \A v : InUse(v) <=> vector[v].published
           /\ \A q \in Contexts : q # p => pc[q] \notin TableLabels
<1>1. p = running /\ p \in Contexts /\ isr.vector = 0
  BY ContextsAssumption DEF Callable, CanRun, Contexts
<1>2. pc[running] \notin TableLabels
  BY <1>1 DEF Callable, Masked, CriticalLabels, TableLabels
<1>3. \A l \in TableLabels : \A v : ~Working(l, v)
  BY <1>2 DEF Working
<1> QED
  BY <1>1, <1>2, <1>3 DEF InUse, TableLabels, TablesAgree, Exclusive, Masked, CriticalLabels

\* A step of an operation is one of the selected task.
LEMMA WorkerRuns ==
    ASSUME InterruptTypes, TablesAgree, NEW p \in Contexts, pc[p] \in TableLabels
    PROVE  /\ p = running /\ isr.vector = 0
           /\ \A q \in Contexts : q # p => ~Masked(q)
           /\ op[p].then \in Continuations
BY DEF TablesAgree, Exclusive, OpShape, Masked, CriticalLabels, TableLabels

\* What every table operation of the selected task leaves alone.
LEMMA OtherShapes ==
    ASSUME InterruptInv, NEW p \in Contexts, p = running, isr.vector = 0, NEW label,
           label \notin RaiseLabels, pc[p] \notin RaiseLabels,
           pc' = [pc EXCEPT ![p] = label],
           UNCHANGED <<running, isr, raise>>,
           \A v \in Vectors : vector[v].epoch <= vector'[v].epoch,
           \A v \in Vectors : vector[v].epoch \in Nat /\ vector'[v].epoch \in Nat
    PROVE  /\ DispatchShape' /\ RaiseShape'
           /\ \A q \in Contexts : q # p => pc'[q] = pc[q]
           /\ \A q \in Contexts : pc'[q] \in RaiseLabels => pc'[q] = pc[q]
           /\ \A q \in Contexts : Marking(q)' <=> Marking(q)
<1>1. \A q \in Contexts : q # p => pc'[q] = pc[q]
  BY DEF InterruptInv, InterruptTypes
<1>2. pc'[p] = label
  BY DEF InterruptInv, InterruptTypes
<1>3. \A q \in Contexts : pc'[q] \in RaiseLabels => pc'[q] = pc[q]
  BY <1>1, <1>2
<1>4. DispatchShape'
  BY DEF InterruptInv, DispatchShape
<1>5. \A q \in Contexts : raise[q].life \in Nat
  BY DEF InterruptInv, InterruptTypes, RaiseStates
<1>6. RaiseShape'
  <2> SUFFICES ASSUME NEW q \in Contexts
               PROVE  RaiseShape!(q)'
    BY DEF RaiseShape
  <2>1. RaiseShape!(q)
    BY DEF InterruptInv, RaiseShape
  <2> QED BY <1>3, <1>5, <2>1 DEF RaiseLabels
<1>7. \A q \in Contexts : Marking(q)' <=> Marking(q)
  BY <1>1, <1>2 DEF Marking, RaiseLabels
<1> QED BY <1>1, <1>3, <1>4, <1>6, <1>7

LEMMA ContinuationsAreLabels ==
    Continuations \subseteq Labels /\ Continuations \cap TableLabels = {}
    /\ Continuations \cap RaiseLabels = {} /\ Continuations \cap CriticalLabels = {}
BY DEF Continuations, Labels, TimerLabels, TableLabels, RaiseLabels, CriticalLabels

\* The record published by an allocation.
LEMMA PublishRecordUpdate ==
    ASSUME InterruptTypes, NEW r \in FreeRecords, NEW v \in Vectors,
           NEW life \in 0..MaxVectorEpoch, NEW a \in Requests, PublishRecord(r, v, life, a)
    PROVE  /\ r \in Records /\ ~record[r].state.published
           /\ record' \in [Records -> RecordStates]
           /\ \A q \in Records : q # r => record'[q] = record[q]
           /\ record'[r].state.published /\ ~record'[r].state.matched
           /\ record'[r].state.enabled = a.enabled
           /\ record'[r].vector = v /\ record'[r].life = life
           /\ record'[r].filter = a.filter /\ record'[r].handler = a.handler
<1>1. r \in Records /\ ~record[r].state.published
  BY DEF FreeRecords
<1>2. record' \in [Records -> RecordStates]
  BY PublishRecordTypes
<1>3. record'[r] = [state |-> [epoch |-> record[r].state.epoch + 1, published |-> TRUE,
                               enabled |-> a.enabled, matched |-> FALSE],
                    vector |-> v, life |-> life, filter |-> a.filter, handler |-> a.handler]
      /\ \A q \in Records : q # r => record'[q] = record[q]
  BY <1>1 DEF PublishRecord, InterruptTypes
<1> QED BY <1>1, <1>2, <1>3

\* Changes of records only, on the way to "enablement" or "retire" of the same vector: the
\* rest of the tables and the raising threads are as before.
LEMMA RecordStep ==
    ASSUME InterruptInv, NEW p, Callable(p), NEW v \in Vectors, NEW life,
           StillPublished(v, life), NEW label \in {"enablement", "retire"},
           UNCHANGED <<vector, controller, running, isr, raise>>,
           pc' = [pc EXCEPT ![p] = label], NEW then \in Continuations, NEW r,
           op' = [op EXCEPT ![p] = [record |-> r, vector |-> v, life |-> life, then |-> then]],
           \A q \in Records, w \in Vectors : \A l :
              w # v => (Belongs(q, w, l)' <=> Belongs(q, w, l)) /\
                       (Belongs(q, w, l) => record'[q] = record[q])
    PROVE  /\ Exclusive' /\ OpShape' /\ PublishShape' /\ EnablementShape' /\ UnregisterShape'
           /\ VectorsNameSlots' /\ SlotsNameVectors' /\ OneVectorPerSource'
           /\ DispatchShape' /\ RaiseShape' /\ HandleIsVectors' /\ HandleIsKnown'
           /\ EnablementKnown'
           /\ \A q \in Contexts : Marking(q)' <=> Marking(q)
<1>1. InterruptTypes /\ TablesAgree /\ p \in Tasks
  BY DEF InterruptInv, Callable
<1>2. /\ p = running /\ p \in Contexts /\ isr.vector = 0
      /\ \A l \in TableLabels : \A w : ~Working(l, w)
      /\ \A w : InUse(w) <=> vector[w].published
      /\ \A q \in Contexts : q # p => pc[q] \notin TableLabels
      /\ pc[p] \notin RaiseLabels
  BY <1>1, CallerRuns DEF Callable
<1>3. /\ pc'[running] = label /\ op'[running].vector = v
      /\ op'[running].life = life /\ op'[running].then = then
      /\ \A q \in Contexts : q # p => pc'[q] = pc[q] /\ op'[q] = op[q]
  BY <1>1, <1>2 DEF InterruptTypes
<1>4. /\ DispatchShape' /\ RaiseShape'
      /\ \A q \in Contexts : pc'[q] \in RaiseLabels => pc'[q] = pc[q]
      /\ \A q \in Contexts : Marking(q)' <=> Marking(q)
  <2>1. \A w \in Vectors : vector[w].epoch \in Nat /\ vector[w].epoch <= vector[w].epoch
    BY <1>1 DEF InterruptTypes, VectorStates
  <2> QED BY <1>2, <2>1, OtherShapes DEF RaiseLabels
<1>5. Exclusive' /\ OpShape'
  BY <1>1, <1>2, <1>3 DEF TablesAgree, Exclusive, OpShape, Masked, TableLabels
<1>6. PublishShape' /\ EnablementShape' /\ UnregisterShape'
  BY <1>3 DEF PublishShape, EnablementShape, UnregisterShape, StillPublished
<1>7. \A w : InUse(w)' <=> InUse(w)
  BY <1>2, <1>3 DEF InUse, Working
<1>8. VectorsNameSlots' /\ SlotsNameVectors' /\ OneVectorPerSource'
  BY <1>1, <1>7 DEF TablesAgree, VectorsNameSlots, SlotsNameVectors, OneVectorPerSource
<1>9. HandleIsVectors'
  BY <1>4 DEF InterruptInv, HandleIsVectors, StillPublished, RaiseLabels
<1>10. HandleIsKnown'
  <2>1. \A w : ~Working("unregister", w)
    BY <1>2 DEF TableLabels
  <2> QED BY <1>4, <2>1 DEF InterruptInv, HandleIsKnown, HandleIsLive, RaiseLabels
<1>11. EnablementKnown'
  <2> SUFFICES ASSUME NEW w \in Vectors, vector[w].published, w # v
               PROVE  controller[vector[w].slot].enabled
                          <=> AnyEnabledRecord(w, vector[w].epoch)'
    BY <1>3 DEF EnablementKnown, Working
  <2>1. AnyEnabledRecord(w, vector[w].epoch)' <=> AnyEnabledRecord(w, vector[w].epoch)
    BY DEF AnyEnabledRecord
  <2> QED BY <1>2, <2>1 DEF InterruptInv, EnablementKnown, TableLabels
<1> QED BY <1>4, <1>5, <1>6, <1>8, <1>9, <1>10, <1>11

LEMMA JoinVectorStep ==
    ASSUME InterruptInv, NEW p, Callable(p), NEW a \in Requests, NEW r \in FreeRecords,
           NEW v \in Vectors, NEW then \in Continuations, JoinVector(p, a, r, v, then)
    PROVE  InterruptInv'
<1> DEFINE life == vector[v].epoch
<1>1. InterruptTypes /\ TablesAgree /\ p \in Tasks
  BY DEF InterruptInv, Callable
<1>2. \A l \in TableLabels : \A w : ~Working(l, w)
  BY <1>1, CallerRuns
<1>3. InterruptTypes'
  BY <1>1, JoinVectorTypes, ContinuationsAreLabels
<1>4. /\ StillPublished(v, life) /\ life \in 0..MaxVectorEpoch
      /\ PublishRecord(r, v, life, a)
      /\ UNCHANGED <<vector, controller, running, isr, raise>>
      /\ pc' = [pc EXCEPT ![p] = "enablement"]
      /\ op' = [op EXCEPT ![p] = [record |-> r, vector |-> v, life |-> life, then |-> then]]
  BY <1>1
     DEF JoinVector, IsFirst, SourceVectors, InterruptTypes, VectorStates, StillPublished, Goto,
         cpu
<1>5. /\ r \in Records /\ ~record[r].state.published
      /\ \A q \in Records : q # r => record'[q] = record[q]
      /\ record'[r].state.published /\ ~record'[r].state.matched
      /\ record'[r].vector = v /\ record'[r].life = life
  BY <1>1, <1>4, PublishRecordUpdate
<1> HIDE DEF life
<1>6. \A q \in Records, w \in Vectors : \A l :
          w # v => (Belongs(q, w, l)' <=> Belongs(q, w, l)) /\
                   (Belongs(q, w, l) => record'[q] = record[q])
  BY <1>5 DEF Belongs
<1>7. /\ Exclusive' /\ OpShape' /\ PublishShape' /\ EnablementShape' /\ UnregisterShape'
      /\ VectorsNameSlots' /\ SlotsNameVectors' /\ OneVectorPerSource'
      /\ DispatchShape' /\ RaiseShape' /\ HandleIsVectors' /\ HandleIsKnown'
      /\ EnablementKnown'
      /\ \A q \in Contexts : Marking(q)' <=> Marking(q)
  BY <1>4, <1>6, RecordStep
<1>8. RecordsNameVectors'
  BY <1>1, <1>2, <1>4, <1>5 DEF TablesAgree, RecordsNameVectors, StillPublished, TableLabels
<1>9. RetireShape'
  <2>1. pc'[running'] # "retire"
    BY <1>1, <1>4, CallerRuns DEF InterruptTypes
  <2> QED BY <2>1 DEF RetireShape
<1>10. MatchedIsServed'
  <2> SUFFICES ASSUME NEW q \in Records, record'[q].state.published, record'[q].state.matched
               PROVE  MatchedIsServed!(q)!2'
    BY DEF MatchedIsServed
  <2>1. q # r /\ record'[q] = record[q]
    BY <1>5
  <2> QED BY <1>4, <1>7, <2>1 DEF InterruptInv, MatchedIsServed
<1> QED BY <1>3, <1>7, <1>8, <1>9, <1>10 DEF InterruptInv, TablesAgree

LEMMA NewVectorStep ==
    ASSUME InterruptInv, NEW p, Callable(p), NEW a \in Requests, NEW r \in FreeRecords,
           NEW v \in Vectors, NEW s \in Slots, NEW then \in Continuations,
           NewVector(p, a, r, v, s, then)
    PROVE  InterruptInv'
<1> DEFINE life == vector[v].epoch + 1
           g == controller[s].generation + 1
<1>1. InterruptTypes /\ TablesAgree /\ p \in Tasks
  BY DEF InterruptInv, Callable
<1>2. /\ p = running /\ p \in Contexts /\ isr.vector = 0
      /\ \A l \in TableLabels : \A w : ~Working(l, w)
      /\ \A w : InUse(w) <=> vector[w].published
      /\ \A q \in Contexts : q # p => pc[q] \notin TableLabels
      /\ pc[p] \notin RaiseLabels
  BY <1>1, CallerRuns DEF Callable
<1>3. InterruptTypes'
  BY <1>1, NewVectorTypes, ContinuationsAreLabels
<1>4. /\ ~vector[v].published /\ life \in 1..MaxVectorEpoch
      /\ ~controller[s].live /\ g \in Nat
      /\ SourceVectors(a.source) = {}
  BY <1>1, CapacityAssumption
     DEF NewVector, IsFirst, FreeVectors, FreeSlots, HasNextEpoch, InterruptTypes, VectorStates,
         SlotStates
<1>5. /\ PublishRecord(r, v, life, a)
      /\ UNCHANGED <<running, isr, raise>>
      /\ pc' = [pc EXCEPT ![p] = "publish"]
      /\ op' = [op EXCEPT ![p] = [record |-> r, vector |-> v, life |-> life, then |-> then]]
  BY DEF NewVector, Goto, cpu
<1>6. /\ r \in Records /\ ~record[r].state.published
      /\ \A q \in Records : q # r => record'[q] = record[q]
      /\ record'[r].state.published /\ ~record'[r].state.matched
      /\ record'[r].vector = v /\ record'[r].life = life
  <2>1. life \in 0..MaxVectorEpoch
    BY <1>4
  <2> QED BY <1>1, <1>5, <2>1, PublishRecordUpdate
<1>7. /\ running' = running /\ pc'[running] = "publish"
      /\ op'[running].vector = v /\ op'[running].record = r
      /\ op'[running].life = life /\ op'[running].then = then
      /\ \A q \in Contexts : q # p => pc'[q] = pc[q] /\ op'[q] = op[q]
  BY <1>1, <1>2, <1>5 DEF InterruptTypes
<1>8. /\ \A w \in Vectors : w # v => vector'[w] = vector[w]
      /\ vector'[v].epoch = vector[v].epoch /\ vector'[v].published = vector[v].published
      /\ vector'[v].source = a.source /\ vector'[v].slot = s /\ vector'[v].generation = g
  <2> HIDE DEF g
  <2>1. vector' = [vector EXCEPT ![v] =
              [epoch |-> vector[v].epoch, published |-> vector[v].published,
               source |-> a.source, slot |-> s, generation |-> g, shared |-> a.shared]]
    BY <1>1, NewVectorUpdate DEF g
  <2> QED BY <1>1, <2>1 DEF InterruptTypes
<1>9. /\ \A t \in Slots : t # s => controller'[t] = controller[t]
      /\ controller'[s].generation = g /\ controller'[s].live /\ controller'[s].vector = v
  BY <1>1 DEF NewVector, InterruptTypes
<1> HIDE DEF life, g
<1>10. /\ DispatchShape' /\ RaiseShape'
       /\ \A q \in Contexts : pc'[q] \in RaiseLabels => pc'[q] = pc[q]
       /\ \A q \in Contexts : Marking(q)' <=> Marking(q)
  <2>1. \A w \in Vectors : vector[w].epoch \in Nat /\ vector'[w].epoch = vector[w].epoch
                           /\ vector[w].epoch <= vector'[w].epoch
    BY <1>1, <1>8 DEF InterruptTypes, VectorStates
  <2> QED BY <1>2, <1>5, <2>1, OtherShapes DEF RaiseLabels
<1>11. Exclusive' /\ OpShape'
  BY <1>1, <1>2, <1>5, <1>7 DEF TablesAgree, Exclusive, OpShape, Masked, TableLabels
<1>12. PublishShape'
  BY <1>4, <1>6, <1>7, <1>8 DEF PublishShape, Belongs, life
<1>13. EnablementShape' /\ RetireShape' /\ UnregisterShape'
  BY <1>7 DEF EnablementShape, RetireShape, UnregisterShape
<1>14. \A w \in Vectors : InUse(w)' <=> InUse(w) \/ w = v
  BY <1>2, <1>7, <1>8 DEF InUse, Working
<1>15. \A w \in Vectors : \A l : StillPublished(w, l)' <=> StillPublished(w, l)
  BY <1>8 DEF StillPublished
<1>16. RecordsNameVectors'
  <2> SUFFICES ASSUME NEW q \in Records
               PROVE  RecordsNameVectors!(q)'
    BY DEF RecordsNameVectors
  <2>1. CASE q = r
    BY <1>6, <1>7, <2>1 DEF Working
  <2>2. CASE q # r
    BY <1>1, <1>2, <1>6, <1>15, <2>2 DEF TablesAgree, RecordsNameVectors, TableLabels
  <2> QED BY <2>1, <2>2
<1>17. \A w \in Vectors : InUse(w) => w # v /\ vector[w].slot \in Slots /\ vector[w].slot # s
  BY <1>1, <1>2, <1>4 DEF TablesAgree, VectorsNameSlots
<1>18. VectorsNameSlots'
  <2> SUFFICES ASSUME NEW w \in Vectors, InUse(w)'
               PROVE  VectorsNameSlots!(w)!2'
    BY DEF VectorsNameSlots
  <2>1. CASE w = v
    BY <1>8, <1>9, <2>1
  <2>2. CASE w # v
    <3>1. InUse(w)
      BY <1>14, <2>2
    <3> QED BY <1>1, <1>8, <1>9, <1>17, <2>2, <3>1 DEF TablesAgree, VectorsNameSlots
  <2> QED BY <2>1, <2>2
<1>19. SlotsNameVectors'
  <2> SUFFICES ASSUME NEW t \in Slots, controller'[t].live
               PROVE  SlotsNameVectors!(t)!2'
    BY DEF SlotsNameVectors
  <2>1. CASE t = s
    BY <1>8, <1>9, <1>14, <2>1
  <2>2. CASE t # s
    BY <1>1, <1>8, <1>9, <1>14, <1>17, <2>2 DEF TablesAgree, SlotsNameVectors
  <2> QED BY <2>1, <2>2
<1>20. OneVectorPerSource'
  <2>1. \A w \in Vectors : InUse(w) => vector[w].source # a.source
    BY <1>2, <1>4 DEF SourceVectors
  <2> QED BY <1>1, <1>8, <1>14, <1>17, <2>1 DEF TablesAgree, OneVectorPerSource
<1>21. HandleIsVectors'
  BY <1>5, <1>8, <1>10, <1>4, <1>15
     DEF InterruptInv, HandleIsVectors, StillPublished, RaiseShape, RaiseLabels
<1>22. HandleIsKnown'
  <2> SUFFICES ASSUME NEW q \in Contexts, pc'[q] = "pend"
               PROVE  HandleIsKnown!(q)!2'
    BY DEF HandleIsKnown
  <2>1. HandleIsKnown!(q)!2
    BY <1>10 DEF InterruptInv, HandleIsKnown, RaiseLabels
  <2>2. raise[q].generation \in Nat /\ controller[s].generation \in Nat
    BY <1>1 DEF InterruptTypes, RaiseStates, SlotStates
  <2>3. raise[q].generation <= controller'[raise[q].slot].generation
    BY <1>9, <2>1, <2>2 DEF g
  <2>4. ASSUME HandleIsLive(q)'
        PROVE  raise[q].slot # s /\ HandleIsLive(q) /\ vector[raise[q].vector].published
               /\ raise[q].vector # v /\ raise[q].vector \in Vectors
    <3>1. raise[q].slot # s
      BY <1>5, <1>9, <2>1, <2>2, <2>4 DEF HandleIsLive, g
    <3>2. HandleIsLive(q)
      BY <1>5, <1>9, <2>1, <2>4, <3>1 DEF HandleIsLive
    <3>3. vector[raise[q].vector].published
      BY <1>2, <2>1, <3>2 DEF TableLabels
    <3>4. raise[q].vector \in Vectors
      BY <1>10 DEF InterruptInv, RaiseShape, RaiseLabels
    <3> QED BY <1>4, <3>1, <3>2, <3>3, <3>4
  <2> QED BY <1>5, <1>8, <1>9, <2>1, <2>3, <2>4
<1>23. EnablementKnown'
  <2> SUFFICES ASSUME NEW w \in Vectors, vector'[w].published
               PROVE  controller'[vector'[w].slot].enabled
                          <=> AnyEnabledRecord(w, vector[w].epoch)'
    BY DEF EnablementKnown
  <2>1. w # v /\ vector'[w] = vector[w] /\ InUse(w)
    BY <1>2, <1>4, <1>8
  <2>2. \A q \in Records : \A l : Belongs(q, w, l)' <=> Belongs(q, w, l)
    BY <1>6, <2>1 DEF Belongs
  <2>3. AnyEnabledRecord(w, vector[w].epoch)' <=> AnyEnabledRecord(w, vector[w].epoch)
    BY <1>6, <1>8, <2>1, <2>2 DEF AnyEnabledRecord, Belongs
  <2> QED BY <1>2, <1>9, <1>17, <2>1, <2>3 DEF InterruptInv, EnablementKnown, TableLabels
<1>24. MatchedIsServed'
  <2> SUFFICES ASSUME NEW q \in Records, record'[q].state.published, record'[q].state.matched
               PROVE  MatchedIsServed!(q)!2'
    BY DEF MatchedIsServed
  <2>1. q # r /\ record'[q] = record[q]
    BY <1>6
  <2>2. record[q].vector \in Vectors /\ InUse(record[q].vector)
    BY <1>1, <1>2, <2>1 DEF TablesAgree, RecordsNameVectors, StillPublished, TableLabels
  <2>3. /\ controller'[vector'[record[q].vector].slot] = controller[vector[record[q].vector].slot]
    BY <1>8, <1>9, <1>17, <2>2
  <2> QED BY <1>5, <1>10, <2>1, <2>3 DEF InterruptInv, MatchedIsServed
<1> QED
  BY <1>3, <1>10, <1>11, <1>12, <1>13, <1>16, <1>18, <1>19, <1>20, <1>21, <1>22, <1>23, <1>24
     DEF InterruptInv, TablesAgree

LEMMA PublishStep ==
    ASSUME InterruptInv, NEW p \in Contexts, Publish(p)
    PROVE  InterruptInv'
<1> DEFINE v == op[p].vector
           life == op[p].life
<1>1. InterruptTypes /\ TablesAgree /\ pc[p] = "publish"
  BY DEF InterruptInv, Publish
<1>2. /\ p = running /\ isr.vector = 0
      /\ \A q \in Contexts : q # p => ~Masked(q)
  BY <1>1, WorkerRuns DEF TableLabels
<1>3. /\ v \in Vectors /\ ~vector[v].published /\ life = vector[v].epoch + 1
      /\ op[p].record \in Records /\ Belongs(op[p].record, v, life)
  BY <1>1, <1>2 DEF TablesAgree, PublishShape
<1>4. InterruptTypes'
  BY <1>1, <1>3, PublishTypes
<1>5. /\ UNCHANGED <<record, controller, running, isr, op, raise>>
      /\ pc' = [pc EXCEPT ![p] = "enablement"]
  BY DEF Publish, Goto, cpu
<1>6. /\ pc'[running'] = "enablement"
      /\ \A q \in Contexts : q # p => pc'[q] = pc[q]
  BY <1>1, <1>2, <1>5 DEF InterruptTypes
<1>7. /\ \A w \in Vectors : w # v => vector'[w] = vector[w]
      /\ vector'[v].epoch = life /\ vector'[v].published
      /\ vector'[v].source = vector[v].source /\ vector'[v].slot = vector[v].slot
      /\ vector'[v].generation = vector[v].generation
  <2>1. vector' = [vector EXCEPT ![v] =
              [epoch |-> life, published |-> TRUE, source |-> vector[v].source,
               slot |-> vector[v].slot, generation |-> vector[v].generation,
               shared |-> vector[v].shared]]
    BY <1>1, <1>3, PublishUpdate
  <2> QED BY <1>1, <1>3, <2>1 DEF InterruptTypes
<1> HIDE DEF life, v
<1>8. /\ DispatchShape' /\ RaiseShape'
      /\ \A q \in Contexts : pc'[q] \in RaiseLabels => pc'[q] = pc[q]
      /\ \A q \in Contexts : Marking(q)' <=> Marking(q)
  <2>1. \A w \in Vectors : vector[w].epoch \in Nat /\ vector'[w].epoch \in Nat
    BY <1>1, <1>4 DEF InterruptTypes, VectorStates
  <2>2. \A w \in Vectors : vector[w].epoch <= vector'[w].epoch
    BY <1>3, <1>7, <2>1
  <2> QED BY <1>1, <1>2, <1>5, <2>1, <2>2, OtherShapes DEF RaiseLabels
<1>9. \A w : Working("publish", w) <=> w = v
  BY <1>1, <1>2 DEF Working, v
<1>10. \A w : /\ Working("enablement", w)' <=> w = v
              /\ \A l \in {"publish", "retire", "unregister"} : ~Working(l, w)'
              /\ \A l \in {"enablement", "retire", "unregister"} : ~Working(l, w)
  BY <1>1, <1>2, <1>5, <1>6 DEF Working, v
<1>11. Exclusive' /\ OpShape'
  BY <1>1, <1>2, <1>5, <1>6 DEF TablesAgree, Exclusive, OpShape, Masked, TableLabels
<1>12. PublishShape' /\ EnablementShape' /\ RetireShape' /\ UnregisterShape'
  BY <1>2, <1>3, <1>5, <1>6, <1>7
     DEF PublishShape, EnablementShape, RetireShape, UnregisterShape, StillPublished, v, life
<1>13. \A w \in Vectors : InUse(w)' <=> InUse(w)
  BY <1>3, <1>7, <1>9, <1>10 DEF InUse
<1>14. \A w \in Vectors : w # v =>
          \A l : StillPublished(w, l)' <=> StillPublished(w, l)
  BY <1>7 DEF StillPublished
<1>15. RecordsNameVectors'
  <2> SUFFICES ASSUME NEW q \in Records
               PROVE  RecordsNameVectors!(q)'
    BY DEF RecordsNameVectors
  <2>1. RecordsNameVectors!(q)
    BY <1>1 DEF TablesAgree, RecordsNameVectors
  <2>2. CASE record[q].vector = v
    BY <1>2, <1>3, <1>5, <1>7, <2>1, <2>2 DEF StillPublished, life
  <2>3. CASE record[q].vector # v
    BY <1>5, <1>9, <1>14, <2>1, <2>3
  <2> QED BY <2>2, <2>3
<1>16. VectorsNameSlots' /\ SlotsNameVectors' /\ OneVectorPerSource'
  <2>1. \A w \in Vectors : /\ vector'[w].slot = vector[w].slot
                           /\ vector'[w].source = vector[w].source
                           /\ vector'[w].generation = vector[w].generation
    BY <1>7
  <2> QED BY <1>1, <1>5, <1>13, <2>1
          DEF TablesAgree, VectorsNameSlots, SlotsNameVectors, OneVectorPerSource
<1>17. HandleIsVectors'
  <2> SUFFICES ASSUME NEW q \in Contexts, pc'[q] = "pend",
                      StillPublished(raise[q].vector, raise[q].life)'
               PROVE  HandleIsVectors!(q)!2'
    BY <1>5 DEF HandleIsVectors
  <2>1. /\ pc[q] = "pend" /\ raise[q].vector \in Vectors
        /\ raise[q].life <= vector[raise[q].vector].epoch /\ raise[q].life \in Nat
    BY <1>1, <1>8 DEF InterruptInv, RaiseShape, RaiseLabels, InterruptTypes, RaiseStates
  <2>2. raise[q].vector # v
    <3>1. vector[v].epoch \in Nat
      BY <1>1, <1>3 DEF InterruptTypes, VectorStates
    <3> QED BY <1>3, <1>5, <1>7, <2>1, <3>1 DEF StillPublished
  <2> QED BY <1>5, <1>7, <1>14, <2>1, <2>2 DEF InterruptInv, HandleIsVectors
<1>18. HandleIsKnown'
  <2> SUFFICES ASSUME NEW q \in Contexts, pc'[q] = "pend"
               PROVE  HandleIsKnown!(q)!2'
    BY DEF HandleIsKnown
  <2>1. HandleIsKnown!(q)!2 /\ raise[q].vector \in Vectors
    BY <1>8 DEF InterruptInv, HandleIsKnown, RaiseShape, RaiseLabels
  <2>2. HandleIsLive(q)' <=> HandleIsLive(q)
    BY <1>5 DEF HandleIsLive
  <2>3. HandleIsLive(q) => raise[q].vector # v
    BY <1>3, <1>10, <2>1
  <2> QED BY <1>5, <1>7, <1>10, <2>1, <2>2, <2>3
<1>19. EnablementKnown'
  <2> SUFFICES ASSUME NEW w \in Vectors, vector'[w].published, w # v
               PROVE  controller'[vector'[w].slot].enabled
                          <=> AnyEnabledRecord(w, vector[w].epoch)'
    BY <1>10 DEF EnablementKnown
  <2>1. vector'[w] = vector[w]
    BY <1>7
  <2>2. AnyEnabledRecord(w, vector[w].epoch)' <=> AnyEnabledRecord(w, vector[w].epoch)
    BY <1>5, <2>1 DEF AnyEnabledRecord, Belongs
  <2> QED BY <1>5, <1>10, <2>1, <2>2 DEF InterruptInv, EnablementKnown
<1>20. MatchedIsServed'
  <2>1. \A q \in Records : record[q].state.published =>
            vector'[record[q].vector].slot = vector[record[q].vector].slot
    BY <1>1, <1>7 DEF TablesAgree, RecordsNameVectors
  <2> QED BY <1>5, <1>8, <2>1 DEF InterruptInv, MatchedIsServed
<1> QED
  BY <1>4, <1>8, <1>11, <1>12, <1>15, <1>16, <1>17, <1>18, <1>19, <1>20
     DEF InterruptInv, TablesAgree


LEMMA SetRecordEnabledStep ==
    ASSUME InterruptInv, NEW p, Callable(p), NEW r \in Records, NEW enabled \in BOOLEAN,
           NEW then \in Continuations, SetRecordEnabled(p, r, enabled, then)
    PROVE  InterruptInv'
<1> DEFINE v == record[r].vector
           life == record[r].life
<1>1. InterruptTypes /\ TablesAgree /\ p \in Contexts
  BY DEF InterruptInv, Callable, Contexts
<1>2. \A l \in TableLabels : \A w : ~Working(l, w)
  BY <1>1, CallerRuns
<1>3. InterruptTypes'
  BY <1>1, SetRecordEnabledTypes, ContinuationsAreLabels
<1>4. /\ record[r].state.published
      /\ UNCHANGED <<vector, controller, running, isr, raise>>
      /\ pc' = [pc EXCEPT ![p] = "enablement"]
      /\ op' = [op EXCEPT ![p] = [record |-> r, vector |-> v, life |-> life, then |-> then]]
  BY DEF SetRecordEnabled, Goto, cpu
<1>5. v \in Vectors /\ StillPublished(v, life)
  BY <1>1, <1>2, <1>4 DEF TablesAgree, RecordsNameVectors, TableLabels
<1>6. /\ \A q \in Records : q # r => record'[q] = record[q]
      /\ \A q \in Records :
            /\ record'[q].vector = record[q].vector /\ record'[q].life = record[q].life
            /\ record'[q].handler = record[q].handler
            /\ record'[q].state.published = record[q].state.published
            /\ record'[q].state.matched = record[q].state.matched
  <2>1. record \in [Records -> RecordStates]
        /\ record' = [record EXCEPT ![r].state.enabled = enabled]
    BY <1>1 DEF InterruptTypes, SetRecordEnabled
  <2> QED BY <2>1, EnabledUpdate
<1>7. \A q \in Records, w \in Vectors : \A l :
          w # v => (Belongs(q, w, l)' <=> Belongs(q, w, l)) /\
                   (Belongs(q, w, l) => record'[q] = record[q])
  BY <1>6 DEF Belongs
<1> HIDE DEF v, life
<1>8. /\ Exclusive' /\ OpShape' /\ PublishShape' /\ EnablementShape' /\ UnregisterShape'
      /\ VectorsNameSlots' /\ SlotsNameVectors' /\ OneVectorPerSource'
      /\ DispatchShape' /\ RaiseShape' /\ HandleIsVectors' /\ HandleIsKnown'
      /\ EnablementKnown'
      /\ \A q \in Contexts : Marking(q)' <=> Marking(q)
  BY <1>4, <1>5, <1>7, RecordStep
<1>9. RecordsNameVectors'
  BY <1>1, <1>2, <1>4, <1>6 DEF TablesAgree, RecordsNameVectors, StillPublished, TableLabels
<1>10. RetireShape'
  <2>1. pc'[running'] # "retire"
    BY <1>1, <1>4, CallerRuns DEF InterruptTypes
  <2> QED BY <2>1 DEF RetireShape
<1>11. MatchedIsServed'
  BY <1>4, <1>6, <1>8 DEF InterruptInv, MatchedIsServed
<1> QED BY <1>3, <1>8, <1>9, <1>10, <1>11 DEF InterruptInv, TablesAgree

LEMMA FreeStep ==
    ASSUME InterruptInv, NEW p, Callable(p), NEW r \in Records, NEW then \in Continuations,
           esp_intr_free(p, r, then)
    PROVE  InterruptInv'
<1> DEFINE v == record[r].vector
           life == record[r].life
           label == AfterUnpublish(r, then)
<1>1. InterruptTypes /\ TablesAgree /\ p \in Contexts
  BY DEF InterruptInv, Callable, Contexts
<1>2. p = running /\ \A l \in TableLabels : \A w : ~Working(l, w)
  BY <1>1, CallerRuns
<1>3. InterruptTypes'
  BY <1>1, FreeTypes, ContinuationsAreLabels
<1>4. /\ record[r].state.published
      /\ UNCHANGED <<vector, controller, running, isr, raise>>
      /\ pc' = [pc EXCEPT ![p] = label]
      /\ op' = [op EXCEPT ![p] = [record |-> r, vector |-> v, life |-> life, then |-> then]]
  BY DEF esp_intr_free, Goto, cpu
<1>5. v \in Vectors /\ StillPublished(v, life)
  BY <1>1, <1>2, <1>4 DEF TablesAgree, RecordsNameVectors, TableLabels
<1>6. /\ \A q \in Records : q # r => record'[q] = record[q]
      /\ ~record'[r].state.published /\ record'[r].handler = "none"
  BY <1>1 DEF esp_intr_free, FreeRecord, NoState, InterruptTypes
<1>7. \A q \in Records : \A w, l :
          Belongs(q, w, l)' <=> Belongs(q, w, l) /\ q # r
  BY <1>6 DEF Belongs
<1>8. \A w, l : Belongs(r, w, l) => w = v
  BY DEF Belongs
<1>9. label \in {"enablement", "retire"} /\ (label = "retire" => ~OtherRecordLives(r))
  BY DEF AfterUnpublish
<1>10. RetireShape'
  <2>1. pc'[running'] = label /\ op'[running'].vector = v /\ op'[running'].life = life
    BY <1>1, <1>2, <1>4 DEF InterruptTypes
  <2>2. ASSUME label = "retire", NEW q \in Records, NEW w, NEW l, w = v, l = life
        PROVE  ~Belongs(q, w, l)'
    BY <1>7, <1>9, <2>2 DEF OtherRecordLives
  <2> HIDE DEF v, life, label
  <2> QED BY <2>1, <2>2 DEF RetireShape
<1>11. \A q \in Records, w \in Vectors : \A l :
          w # v => (Belongs(q, w, l)' <=> Belongs(q, w, l)) /\
                   (Belongs(q, w, l) => record'[q] = record[q])
  BY <1>6, <1>7, <1>8
<1> HIDE DEF v, life, label
<1>12. /\ Exclusive' /\ OpShape' /\ PublishShape' /\ EnablementShape' /\ UnregisterShape'
       /\ VectorsNameSlots' /\ SlotsNameVectors' /\ OneVectorPerSource'
       /\ DispatchShape' /\ RaiseShape' /\ HandleIsVectors' /\ HandleIsKnown'
       /\ EnablementKnown'
       /\ \A q \in Contexts : Marking(q)' <=> Marking(q)
  BY <1>4, <1>5, <1>9, <1>11, RecordStep
<1>13. RecordsNameVectors'
  BY <1>1, <1>2, <1>4, <1>6 DEF TablesAgree, RecordsNameVectors, StillPublished, TableLabels
<1>14. MatchedIsServed'
  <2> SUFFICES ASSUME NEW q \in Records, record'[q].state.published, record'[q].state.matched
               PROVE  MatchedIsServed!(q)!2'
    BY DEF MatchedIsServed
  <2>1. q # r /\ record'[q] = record[q]
    BY <1>6
  <2> QED BY <1>4, <1>12, <2>1 DEF InterruptInv, MatchedIsServed
<1> QED BY <1>3, <1>10, <1>12, <1>13, <1>14 DEF InterruptInv, TablesAgree

\* The critical section ends: no operation is under way.
LEMMA ReturnStep ==
    ASSUME InterruptTypes, TablesAgree, NEW p \in Contexts, pc[p] \in TableLabels, Return(p),
           UNCHANGED <<running, isr>>
    PROVE  /\ pc' = [pc EXCEPT ![p] = op[p].then] /\ op[p].then \in Continuations
           /\ Exclusive' /\ OpShape'
           /\ PublishShape' /\ EnablementShape' /\ RetireShape' /\ UnregisterShape'
           /\ \A l \in TableLabels : \A w : ~Working(l, w)'
<1>1. p = running /\ \A q \in Contexts : q # p => ~Masked(q)
  BY WorkerRuns
<1>2. op[p].then \in Continuations
  BY WorkerRuns
<1>3. pc' = [pc EXCEPT ![p] = op[p].then]
  BY DEF Return, Goto
<1>4. /\ pc'[p] = op[p].then /\ op'[p].then = "idle"
      /\ \A q \in Contexts : q # p => pc'[q] = pc[q] /\ op'[q] = op[q]
  BY <1>3 DEF InterruptTypes, Return, NoOp
<1>5. pc'[running'] \notin TableLabels
  BY <1>1, <1>2, <1>4, ContinuationsAreLabels
<1>6. Exclusive'
  BY <1>1, <1>2, <1>4, ContinuationsAreLabels DEF Exclusive, Masked
<1>7. OpShape'
  BY <1>1, <1>4 DEF TablesAgree, OpShape, Continuations, TableLabels
<1> QED
  BY <1>2, <1>3, <1>5, <1>6, <1>7
     DEF PublishShape, EnablementShape, RetireShape, UnregisterShape, Working, TableLabels

LEMMA UpdateVectorEnablementStep ==
    ASSUME InterruptInv, NEW p \in Contexts, UpdateVectorEnablement(p)
    PROVE  InterruptInv'
<1> DEFINE v == op[p].vector
           s == vector[v].slot
           on == AnyEnabledRecord(v, op[p].life)
<1>1. InterruptTypes /\ TablesAgree /\ pc[p] = "enablement"
  BY DEF InterruptInv, UpdateVectorEnablement
<1>2. p = running /\ isr.vector = 0
  BY <1>1, WorkerRuns DEF TableLabels
<1>3. v \in Vectors /\ vector[v].published /\ vector[v].epoch = op[p].life
  BY <1>1, <1>2 DEF TablesAgree, EnablementShape, StillPublished
<1>4. controller' = [controller EXCEPT ![s].enabled = on]
  BY DEF UpdateVectorEnablement
<1>5. UNCHANGED <<vector, record, running, isr, raise>>
  BY DEF UpdateVectorEnablement, cpu
<1>6. InterruptTypes'
  BY <1>1, UpdateVectorEnablementTypes
<1>7. /\ pc' = [pc EXCEPT ![p] = op[p].then] /\ op[p].then \in Continuations
      /\ Exclusive' /\ OpShape'
      /\ PublishShape' /\ EnablementShape' /\ RetireShape' /\ UnregisterShape'
      /\ \A l \in TableLabels : \A w : ~Working(l, w)'
  BY <1>1, <1>5, ReturnStep DEF UpdateVectorEnablement, TableLabels
<1>8. /\ DispatchShape' /\ RaiseShape'
      /\ \A q \in Contexts : pc'[q] \in RaiseLabels => pc'[q] = pc[q]
      /\ \A q \in Contexts : Marking(q)' <=> Marking(q)
  <2>1. \A w \in Vectors : vector[w].epoch \in Nat /\ vector[w].epoch <= vector[w].epoch
    BY <1>1 DEF InterruptTypes, VectorStates
  <2>2. op[p].then \notin RaiseLabels /\ pc[p] \notin RaiseLabels
    BY <1>1, <1>7, ContinuationsAreLabels DEF RaiseLabels
  <2> QED BY <1>2, <1>5, <1>7, <2>1, <2>2, OtherShapes
<1>9. \A l \in {"publish", "retire", "unregister"} : \A w : ~Working(l, w)
  BY <1>1, <1>2 DEF Working
<1>10. \A w : InUse(w)' <=> InUse(w)
  BY <1>5, <1>7, <1>9 DEF InUse, TableLabels
<1>11. s \in Slots /\ \A w \in Vectors : InUse(w) /\ w # v => vector[w].slot # s
  BY <1>1, <1>3 DEF TablesAgree, VectorsNameSlots, InUse
<1>12. \A t \in Slots :
          /\ controller'[t].generation = controller[t].generation
          /\ controller'[t].live = controller[t].live
          /\ controller'[t].vector = controller[t].vector
          /\ controller'[t].pending = controller[t].pending
          /\ controller'[t].enabled = IF t = s THEN on ELSE controller[t].enabled
  <2>1. controller \in [Slots -> SlotStates] /\ on \in BOOLEAN
    BY <1>1 DEF InterruptTypes, AnyEnabledRecord
  <2> HIDE DEF s, on
  <2> QED BY <1>4, <1>11, <2>1, SlotEnabledUpdate
<1> HIDE DEF v, s, on
<1>13. RecordsNameVectors'
  BY <1>1, <1>5, <1>9 DEF TablesAgree, RecordsNameVectors, StillPublished
<1>14. VectorsNameSlots' /\ SlotsNameVectors' /\ OneVectorPerSource'
  BY <1>1, <1>5, <1>10, <1>12
     DEF TablesAgree, VectorsNameSlots, SlotsNameVectors, OneVectorPerSource
<1>15. HandleIsVectors'
  BY <1>5, <1>8 DEF InterruptInv, HandleIsVectors, StillPublished, RaiseLabels
<1>16. HandleIsKnown'
  BY <1>5, <1>8, <1>9, <1>12 DEF InterruptInv, HandleIsKnown, HandleIsLive, RaiseLabels
<1>17. EnablementKnown'
  <2> SUFFICES ASSUME NEW w \in Vectors, vector[w].published
               PROVE  controller'[vector[w].slot].enabled
                          <=> AnyEnabledRecord(w, vector[w].epoch)'
    BY <1>5 DEF EnablementKnown
  <2>1. AnyEnabledRecord(w, vector[w].epoch)' <=> AnyEnabledRecord(w, vector[w].epoch)
    BY <1>5 DEF AnyEnabledRecord, Belongs
  <2>2. CASE w = v
    <3>1. AnyEnabledRecord(w, vector[w].epoch) <=> on
      BY <1>3, <2>2 DEF v, on
    <3>2. vector[w].slot = s
      BY <2>2 DEF v, s
    <3>3. controller'[s].enabled = on
      BY <1>11, <1>12
    <3> QED BY <2>1, <3>1, <3>2, <3>3, Zenon
  <2>3. CASE w # v
    <3>1. InUse(w) /\ vector[w].slot \in Slots /\ vector[w].slot # s
      BY <1>1, <1>11, <2>3 DEF InUse, TablesAgree, VectorsNameSlots
    <3>2. ~Working("enablement", w) /\ ~Working("retire", w)
      BY <1>2, <1>9, <2>3 DEF Working, v
    <3> QED BY <1>12, <2>1, <3>1, <3>2 DEF InterruptInv, EnablementKnown
  <2> QED BY <2>2, <2>3
<1>18. MatchedIsServed'
  <2>1. \A q \in Records : record[q].state.published =>
            vector[record[q].vector].slot \in Slots
    BY <1>1, <1>9
       DEF TablesAgree, RecordsNameVectors, VectorsNameSlots, StillPublished, InUse
  <2> QED BY <1>5, <1>8, <1>12, <2>1 DEF InterruptInv, MatchedIsServed
<1> QED
  BY <1>6, <1>7, <1>8, <1>13, <1>14, <1>15, <1>16, <1>17, <1>18 DEF InterruptInv, TablesAgree

LEMMA RetireStep ==
    ASSUME InterruptInv, NEW p \in Contexts, Retire(p)
    PROVE  InterruptInv'
<1> DEFINE v == op[p].vector
<1>1. InterruptTypes /\ TablesAgree /\ pc[p] = "retire"
  BY DEF InterruptInv, Retire
<1>2. p = running /\ isr.vector = 0 /\ \A q \in Contexts : q # p => ~Masked(q)
  BY <1>1, WorkerRuns DEF TableLabels
<1>3. /\ v \in Vectors /\ vector[v].published /\ vector[v].epoch = op[p].life
      /\ \A q \in Records : ~Belongs(q, v, op[p].life)
  BY <1>1, <1>2 DEF TablesAgree, EnablementShape, RetireShape, StillPublished
<1>4. /\ UNCHANGED <<record, controller, running, isr, op, raise>>
      /\ pc' = [pc EXCEPT ![p] = "unregister"]
  BY DEF Retire, Goto, cpu
<1>5. InterruptTypes'
  BY <1>1, RetireTypes
<1>6. /\ pc'[running'] = "unregister"
      /\ \A q \in Contexts : q # p => pc'[q] = pc[q]
  BY <1>1, <1>2, <1>4 DEF InterruptTypes
<1>7. /\ \A w \in Vectors : w # v => vector'[w] = vector[w]
      /\ ~vector'[v].published /\ vector'[v].epoch = vector[v].epoch
      /\ vector'[v].source = vector[v].source /\ vector'[v].slot = vector[v].slot
      /\ vector'[v].generation = vector[v].generation
  BY <1>1, <1>3 DEF Retire, InterruptTypes, VectorStates
<1> HIDE DEF v
<1>8. /\ DispatchShape' /\ RaiseShape'
      /\ \A q \in Contexts : pc'[q] \in RaiseLabels => pc'[q] = pc[q]
      /\ \A q \in Contexts : Marking(q)' <=> Marking(q)
  <2>1. \A w \in Vectors : vector[w].epoch \in Nat /\ vector'[w].epoch = vector[w].epoch
                           /\ vector[w].epoch <= vector'[w].epoch
    BY <1>1, <1>7 DEF InterruptTypes, VectorStates
  <2> QED BY <1>1, <1>2, <1>4, <2>1, OtherShapes DEF RaiseLabels
<1>9. \A w : /\ Working("retire", w) <=> w = v
             /\ Working("unregister", w)' <=> w = v
             /\ \A l \in {"publish", "enablement", "retire"} : ~Working(l, w)'
             /\ \A l \in {"publish", "enablement", "unregister"} : ~Working(l, w)
  BY <1>1, <1>2, <1>4, <1>6 DEF Working, v
<1>10. Exclusive' /\ OpShape'
  BY <1>1, <1>2, <1>4, <1>6 DEF TablesAgree, Exclusive, OpShape, Masked, TableLabels
<1>11. PublishShape' /\ EnablementShape' /\ RetireShape' /\ UnregisterShape'
  BY <1>2, <1>3, <1>4, <1>6, <1>7
     DEF PublishShape, EnablementShape, RetireShape, UnregisterShape, v
<1>12. \A w \in Vectors : InUse(w)' <=> InUse(w)
  BY <1>3, <1>7, <1>9 DEF InUse
<1>13. \A q \in Records : record[q].state.published =>
          record[q].vector \in Vectors \ {v} /\ StillPublished(record[q].vector, record[q].life)
  BY <1>1, <1>3, <1>9 DEF TablesAgree, RecordsNameVectors, StillPublished, Belongs
<1>14. RecordsNameVectors'
  BY <1>1, <1>4, <1>7, <1>13 DEF TablesAgree, RecordsNameVectors, StillPublished
<1>15. VectorsNameSlots' /\ SlotsNameVectors' /\ OneVectorPerSource'
  <2>1. \A w \in Vectors : /\ vector'[w].slot = vector[w].slot
                           /\ vector'[w].source = vector[w].source
                           /\ vector'[w].generation = vector[w].generation
    BY <1>7
  <2> QED BY <1>1, <1>4, <1>12, <2>1
          DEF TablesAgree, VectorsNameSlots, SlotsNameVectors, OneVectorPerSource
<1>16. HandleIsVectors'
  <2> SUFFICES ASSUME NEW q \in Contexts, pc'[q] = "pend",
                      StillPublished(raise[q].vector, raise[q].life)'
               PROVE  HandleIsVectors!(q)!2'
    BY <1>4 DEF HandleIsVectors
  <2>1. pc[q] = "pend" /\ raise[q].vector \in Vectors /\ raise[q].vector # v
    BY <1>4, <1>7, <1>8 DEF InterruptInv, RaiseShape, RaiseLabels, StillPublished
  <2> QED BY <1>4, <1>7, <2>1 DEF InterruptInv, HandleIsVectors, StillPublished
<1>17. HandleIsKnown'
  <2> SUFFICES ASSUME NEW q \in Contexts, pc'[q] = "pend"
               PROVE  HandleIsKnown!(q)!2'
    BY DEF HandleIsKnown
  <2>1. HandleIsKnown!(q)!2 /\ raise[q].vector \in Vectors
    BY <1>8 DEF InterruptInv, HandleIsKnown, RaiseShape, RaiseLabels
  <2>2. HandleIsLive(q)' <=> HandleIsLive(q)
    BY <1>4 DEF HandleIsLive
  <2> QED BY <1>4, <1>7, <1>9, <2>1, <2>2
<1>18. EnablementKnown'
  <2> SUFFICES ASSUME NEW w \in Vectors, vector'[w].published
               PROVE  controller'[vector'[w].slot].enabled
                          <=> AnyEnabledRecord(w, vector[w].epoch)'
    BY DEF EnablementKnown
  <2>1. vector'[w] = vector[w] /\ w # v
    BY <1>7
  <2>2. AnyEnabledRecord(w, vector[w].epoch)' <=> AnyEnabledRecord(w, vector[w].epoch)
    BY <1>4, <2>1 DEF AnyEnabledRecord, Belongs
  <2> QED BY <1>4, <1>9, <2>1, <2>2 DEF InterruptInv, EnablementKnown
<1>19. MatchedIsServed'
  BY <1>4, <1>7, <1>8, <1>13 DEF InterruptInv, MatchedIsServed
<1> QED
  BY <1>5, <1>8, <1>10, <1>11, <1>14, <1>15, <1>16, <1>17, <1>18, <1>19
     DEF InterruptInv, TablesAgree

LEMMA UnregisterStep ==
    ASSUME InterruptInv, NEW p \in Contexts, Unregister(p)
    PROVE  InterruptInv'
<1> DEFINE v == op[p].vector
           s == vector[v].slot
<1>1. InterruptTypes /\ TablesAgree /\ pc[p] = "unregister"
  BY DEF InterruptInv, Unregister
<1>2. p = running /\ isr.vector = 0
  BY <1>1, WorkerRuns DEF TableLabels
<1>3. v \in Vectors /\ ~vector[v].published /\ vector[v].epoch = op[p].life /\ InUse(v)
  BY <1>1, <1>2 DEF TablesAgree, UnregisterShape, InUse, Working
<1>4. s \in Slots
  BY <1>1, <1>3 DEF TablesAgree, VectorsNameSlots
<1>5. UNCHANGED <<record, running, isr, raise>>
  BY DEF Unregister, cpu
<1>6. InterruptTypes'
  BY <1>1, <1>3, <1>4, UnregisterTypes
<1>7. /\ pc' = [pc EXCEPT ![p] = op[p].then] /\ op[p].then \in Continuations
      /\ Exclusive' /\ OpShape'
      /\ PublishShape' /\ EnablementShape' /\ RetireShape' /\ UnregisterShape'
      /\ \A l \in TableLabels : \A w : ~Working(l, w)'
  BY <1>1, <1>5, ReturnStep DEF Unregister, TableLabels
<1>8. /\ \A w \in Vectors : w # v => vector'[w] = vector[w]
      /\ ~vector'[v].published /\ vector'[v].epoch = vector[v].epoch
  BY <1>1, <1>3 DEF Unregister, FreeVector, InterruptTypes
<1>9. /\ \A t \in Slots : t # s => controller'[t] = controller[t]
      /\ controller'[s].generation = controller[s].generation
      /\ ~controller'[s].live
  <2>1. controller' = [controller EXCEPT ![s] =
              [generation |-> controller[s].generation, live |-> FALSE, enabled |-> FALSE,
               pending |-> FALSE, vector |-> controller[s].vector]]
    BY <1>1, <1>3, <1>4, UnregisterUpdate
  <2> HIDE DEF s
  <2> QED BY <1>1, <1>4, <2>1 DEF InterruptTypes
<1>10. \A w : /\ Working("unregister", w) <=> w = v
              /\ \A l \in {"publish", "enablement", "retire"} : ~Working(l, w)
  BY <1>1, <1>2 DEF Working
<1>11. \A w \in Vectors : InUse(w) /\ w # v => vector[w].slot \in Slots /\ vector[w].slot # s
  BY <1>1, <1>3 DEF TablesAgree, VectorsNameSlots
<1>12. \A t \in Slots : controller[t].live /\ controller[t].vector = v => t = s
  BY <1>1 DEF TablesAgree, SlotsNameVectors
<1> HIDE DEF v, s
<1>13. /\ DispatchShape' /\ RaiseShape'
       /\ \A q \in Contexts : pc'[q] \in RaiseLabels => pc'[q] = pc[q]
       /\ \A q \in Contexts : Marking(q)' <=> Marking(q)
  <2>1. \A w \in Vectors : vector[w].epoch \in Nat /\ vector'[w].epoch = vector[w].epoch
                           /\ vector[w].epoch <= vector'[w].epoch
    BY <1>1, <1>8 DEF InterruptTypes, VectorStates
  <2>2. op[p].then \notin RaiseLabels /\ pc[p] \notin RaiseLabels
    BY <1>1, <1>7, ContinuationsAreLabels DEF RaiseLabels
  <2> QED BY <1>2, <1>5, <1>7, <2>1, <2>2, OtherShapes
<1>14. \A w \in Vectors : InUse(w)' <=> InUse(w) /\ w # v
  BY <1>3, <1>7, <1>8, <1>10 DEF InUse, TableLabels
<1>15. \A q \in Records : record[q].state.published =>
          record[q].vector \in Vectors \ {v} /\ StillPublished(record[q].vector, record[q].life)
  BY <1>1, <1>3, <1>10 DEF TablesAgree, RecordsNameVectors, StillPublished
<1>16. RecordsNameVectors'
  BY <1>1, <1>5, <1>8, <1>15 DEF TablesAgree, RecordsNameVectors, StillPublished
<1>17. VectorsNameSlots' /\ SlotsNameVectors' /\ OneVectorPerSource'
  <2>1. VectorsNameSlots'
    BY <1>1, <1>8, <1>9, <1>11, <1>14 DEF TablesAgree, VectorsNameSlots
  <2>2. SlotsNameVectors'
    BY <1>1, <1>3, <1>4, <1>8, <1>9, <1>12, <1>14 DEF TablesAgree, SlotsNameVectors, v, s
  <2>3. OneVectorPerSource'
    BY <1>1, <1>8, <1>14 DEF TablesAgree, OneVectorPerSource
  <2> QED BY <2>1, <2>2, <2>3
<1>18. HandleIsVectors'
  <2> SUFFICES ASSUME NEW q \in Contexts, pc'[q] = "pend",
                      StillPublished(raise[q].vector, raise[q].life)'
               PROVE  HandleIsVectors!(q)!2'
    BY <1>5 DEF HandleIsVectors
  <2>1. pc[q] = "pend" /\ raise[q].vector \in Vectors /\ raise[q].vector # v
    BY <1>5, <1>8, <1>13 DEF InterruptInv, RaiseShape, RaiseLabels, StillPublished
  <2> QED BY <1>5, <1>8, <2>1 DEF InterruptInv, HandleIsVectors, StillPublished
<1>19. HandleIsKnown'
  <2> SUFFICES ASSUME NEW q \in Contexts, pc'[q] = "pend"
               PROVE  HandleIsKnown!(q)!2'
    BY DEF HandleIsKnown
  <2>1. HandleIsKnown!(q)!2 /\ raise[q].vector \in Vectors
    BY <1>13 DEF InterruptInv, HandleIsKnown, RaiseShape, RaiseLabels
  <2>2. ASSUME HandleIsLive(q)'
        PROVE  raise[q].slot # s /\ HandleIsLive(q)
    BY <1>5, <1>9, <2>1, <2>2 DEF HandleIsLive
  <2>3. HandleIsLive(q)' => raise[q].vector # v
    BY <1>12, <2>1, <2>2 DEF HandleIsLive
  <2>4. raise[q].generation <= controller'[raise[q].slot].generation
    BY <1>9, <2>1
  <2> QED BY <1>5, <1>8, <1>9, <1>10, <2>1, <2>2, <2>3, <2>4
<1>20. EnablementKnown'
  <2> SUFFICES ASSUME NEW w \in Vectors, vector'[w].published
               PROVE  controller'[vector'[w].slot].enabled
                          <=> AnyEnabledRecord(w, vector[w].epoch)'
    BY DEF EnablementKnown
  <2>1. vector'[w] = vector[w] /\ w # v /\ InUse(w)
    BY <1>8 DEF InUse
  <2>2. AnyEnabledRecord(w, vector[w].epoch)' <=> AnyEnabledRecord(w, vector[w].epoch)
    BY <1>5, <2>1 DEF AnyEnabledRecord, Belongs
  <2> QED BY <1>8, <1>9, <1>10, <1>11, <2>1, <2>2 DEF InterruptInv, EnablementKnown
<1>21. MatchedIsServed'
  <2>1. \A q \in Records : record[q].state.published =>
            controller'[vector'[record[q].vector].slot] = controller[vector[record[q].vector].slot]
    BY <1>8, <1>9, <1>11, <1>15 DEF StillPublished, InUse
  <2> QED BY <1>5, <1>13, <2>1 DEF InterruptInv, MatchedIsServed
<1> QED
  BY <1>6, <1>7, <1>13, <1>16, <1>17, <1>18, <1>19, <1>20, <1>21 DEF InterruptInv, TablesAgree

-----------------------------------------------------------------------------
(* Raising threads *)

\* A step of a raising thread p changes flags of the tables and its own locals.
LEMMA RaiseFrame ==
    ASSUME InterruptInv, InterruptTypes', NEW p \in Contexts, NEW label,
           label \notin CriticalLabels, pc[p] \notin CriticalLabels,
           pc' = [pc EXCEPT ![p] = label],
           UNCHANGED <<vector, running, isr, op>>, SameRecords, SameSlots,
           \A q \in Contexts : q # p => raise'[q] = raise[q],
           RaiseShape!(p)', HandleIsVectors!(p)', HandleIsKnown!(p)'
    PROVE  /\ TablesAgree' /\ DispatchShape' /\ RaiseShape'
           /\ HandleIsVectors' /\ HandleIsKnown' /\ EnablementKnown'
<1>1. InterruptTypes /\ TablesAgree
  BY DEF InterruptInv
<1>2. /\ pc[p] \notin TableLabels /\ label \notin TableLabels
      /\ \A q \in Contexts : q # p => pc'[q] = pc[q]
  BY <1>1 DEF TableLabels, CriticalLabels, InterruptTypes
<1>3. OpShape'
  BY <1>1, <1>2 DEF TablesAgree, OpShape
<1>4. TablesAgree' /\ EnablementKnown'
  BY <1>1, <1>2, <1>3, TablesFrame DEF InterruptInv
<1>5. DispatchShape'
  <2>1. Masked(running)' => Masked(running)
    BY <1>1, <1>2 DEF Masked, InterruptTypes
  <2> QED BY <2>1 DEF InterruptInv, DispatchShape, StillPublished
<1>6. \A w : Working("unregister", w)' <=> Working("unregister", w)
  BY <1>1, <1>2 DEF Working, InterruptTypes, TableLabels
<1>7. RaiseShape'
  <2> SUFFICES ASSUME NEW q \in Contexts, q # p
               PROVE  RaiseShape!(q)'
    BY DEF RaiseShape
  <2>1. RaiseShape!(q)
    BY DEF InterruptInv, RaiseShape
  <2> QED BY <1>2, <2>1
<1>8. HandleIsVectors'
  <2> SUFFICES ASSUME NEW q \in Contexts, q # p
               PROVE  HandleIsVectors!(q)'
    BY DEF HandleIsVectors
  <2>1. HandleIsVectors!(q)
    BY DEF InterruptInv, HandleIsVectors
  <2> QED BY <1>2, <2>1 DEF StillPublished
<1>9. HandleIsKnown'
  <2> SUFFICES ASSUME NEW q \in Contexts, q # p
               PROVE  HandleIsKnown!(q)'
    BY DEF HandleIsKnown
  <2>1. HandleIsKnown!(q)
    BY DEF InterruptInv, HandleIsKnown
  <2> QED BY <1>2, <1>6, <2>1 DEF HandleIsLive, SameSlots
<1> QED BY <1>4, <1>5, <1>7, <1>8, <1>9

\* The record's mark is on its way to the ISR with the thread, in the controller, or taken.
LEMMA MarksKept ==
    ASSUME InterruptInv, NEW p \in Contexts, SameRecords, UNCHANGED <<vector, isr>>,
           \A q \in Contexts : q # p => raise'[q] = raise[q] /\ pc'[q] = pc[q],
           \A r \in Records : record'[r].state.matched =>
              \/ record[r].state.matched
              \/ Marking(p)' /\ raise'[p].vector = record[r].vector
                             /\ raise'[p].life = record[r].life,
           \A s \in Slots : controller[s].pending => controller'[s].pending,
           Marking(p) =>
              \/ Marking(p)' /\ raise'[p].vector = raise[p].vector /\ raise'[p].life = raise[p].life
              \/ \A r \in Records : ~Belongs(r, raise[p].vector, raise[p].life)
              \/ controller'[vector[raise[p].vector].slot].pending
    PROVE  MatchedIsServed'
<1>1. InterruptTypes /\ TablesAgree /\ MatchedIsServed
  BY DEF InterruptInv
<1> SUFFICES ASSUME NEW r \in Records, record'[r].state.published, record'[r].state.matched
             PROVE  MatchedIsServed!(r)!2'
  BY DEF MatchedIsServed
<1>2. record[r].state.published /\ record'[r].vector = record[r].vector
      /\ record'[r].life = record[r].life
  BY DEF SameRecords
<1>3. CASE ~record[r].state.matched
  BY <1>2, <1>3
<1>4. CASE record[r].state.matched
  <2>1. vector[record[r].vector].slot \in Slots
    BY <1>1, <1>2 DEF TablesAgree, RecordsNameVectors, VectorsNameSlots, InUse, StillPublished
  <2>2. CASE Marking(p) /\ raise[p].vector = record[r].vector /\ raise[p].life = record[r].life
    BY <1>2, <2>2 DEF Belongs
  <2>3. ASSUME NEW q \in Contexts, q # p, Marking(q), raise[q].vector = record[r].vector,
               raise[q].life = record[r].life
        PROVE  MatchedIsServed!(r)!2'
    BY <1>2, <2>3 DEF Marking
  <2>4. CASE controller[vector[record[r].vector].slot].pending
    BY <1>2, <2>1, <2>4
  <2>5. CASE isr.vector = record[r].vector /\ (isr.next < r \/ (isr.next = r /\ isr.stage = "record"))
    BY <1>2, <2>5
  <2> QED BY <1>1, <1>2, <1>4, <2>2, <2>3, <2>4, <2>5 DEF MatchedIsServed
<1> QED BY <1>3, <1>4

LEMMA UnchangedFlags ==
    ASSUME UNCHANGED <<record, controller>>
    PROVE  /\ SameRecords /\ SameSlots
           /\ \A r \in Records : record'[r].state.matched => record[r].state.matched
           /\ \A s \in Slots : controller[s].pending => controller'[s].pending
BY DEF SameRecords, SameSlots

\* A step within the scan of the vectors: nothing is marked yet.
LEMMA ScanFrame ==
    ASSUME InterruptInv, NEW p \in Contexts, NEW label \in {"idle", "scan", "source"},
           pc[p] \notin CriticalLabels, ~Marking(p), pc' = [pc EXCEPT ![p] = label],
           UNCHANGED <<vector, record, controller, running, isr, op>>,
           raise' \in [Contexts -> RaiseStates],
           \A q \in Contexts : q # p => raise'[q] = raise[q],
           raise'[p].vector >= 1, raise'[p].record >= 1,
           label = "source" => raise'[p].vector \in Vectors
                               /\ raise'[p].life <= vector[raise'[p].vector].epoch
    PROVE  InterruptInv'
<1>1. InterruptTypes /\ TablesAgree
  BY DEF InterruptInv
<1>2. pc'[p] = label /\ \A q \in Contexts : q # p => pc'[q] = pc[q]
  BY <1>1 DEF InterruptTypes
<1>3. InterruptTypes'
  <2>1. label \in Labels
    BY DEF Labels
  <2> QED BY <1>1, <2>1 DEF InterruptTypes
<1>4. RaiseShape!(p)' /\ HandleIsVectors!(p)' /\ HandleIsKnown!(p)'
  BY <1>2 DEF RaiseLabels
<1>5. label \notin CriticalLabels
  BY DEF CriticalLabels
<1>6. MatchedIsServed'
  BY <1>2, UnchangedFlags, MarksKept
<1> QED BY <1>3, <1>4, <1>5, <1>6, RaiseFrame, UnchangedFlags DEF InterruptInv

LEMMA BeginRaiseStep ==
    ASSUME InterruptInv, NEW p \in Contexts, NEW source \in Sources, NEW bits \in SUBSET Filters,
           pc[p] \notin CriticalLabels, pc[p] \notin RaiseLabels, BeginRaise(p, source, bits),
           UNCHANGED <<vector, record, controller, running, isr, op>>
    PROVE  InterruptInv'
<1>1. InterruptTypes /\ ~Marking(p)
  BY DEF InterruptInv, Marking, RaiseLabels
<1>2. /\ raise' \in [Contexts -> RaiseStates]
      /\ \A q \in Contexts : q # p => raise'[q] = raise[q]
      /\ raise'[p].vector = 1 /\ raise'[p].record = 1
      /\ pc' = [pc EXCEPT ![p] = "scan"]
  BY <1>1, BeginRaiseUpdate
<1>3. raise'[p].vector >= 1 /\ raise'[p].record >= 1
  BY <1>2
<1> QED BY <1>1, <1>2, <1>3, ScanFrame

LEMMA EndScanStep ==
    ASSUME InterruptInv, NEW p \in Contexts, pc[p] \notin CriticalLabels, ~Marking(p),
           EndRaise(p), UNCHANGED <<vector, record, controller, running, isr, op>>
    PROVE  InterruptInv'
<1>1. InterruptTypes
  BY DEF InterruptInv
<1>2. /\ raise' \in [Contexts -> RaiseStates]
      /\ \A q \in Contexts : q # p => raise'[q] = raise[q]
      /\ raise'[p].vector = 1 /\ raise'[p].record = 1
      /\ pc' = [pc EXCEPT ![p] = "idle"]
  BY <1>1, EndRaiseUpdate
<1>3. raise'[p].vector >= 1 /\ raise'[p].record >= 1
  BY <1>2
<1> QED BY <1>1, <1>2, <1>3, ScanFrame

LEMMA NextVectorStep ==
    ASSUME InterruptInv, NEW p \in Contexts, pc[p] \in {"scan", "source"}, NextVector(p),
           UNCHANGED <<vector, record, controller, running, isr, op>>
    PROVE  InterruptInv'
<1>1. InterruptTypes /\ pc[p] \notin CriticalLabels /\ ~Marking(p)
  BY DEF InterruptInv, CriticalLabels, Marking
<1>2. pc' = [pc EXCEPT ![p] = "scan"]
  BY DEF NextVector, Goto
<1>3. /\ raise' \in [Contexts -> RaiseStates]
      /\ \A q \in Contexts : q # p => raise'[q] = raise[q]
      /\ raise'[p].vector = raise[p].vector + 1 /\ raise'[p].record = raise[p].record
  BY <1>1, NextVectorUpdate DEF NextVector
<1>4. raise[p].vector >= 1 /\ raise[p].record >= 1 /\ raise[p].vector \in Nat
  BY <1>1 DEF InterruptInv, RaiseShape, InterruptTypes, RaiseStates
<1>5. raise'[p].vector >= 1 /\ raise'[p].record >= 1
  BY <1>3, <1>4
<1> QED BY <1>1, <1>2, <1>3, <1>5, ScanFrame

LEMMA ScanPublicationStep ==
    ASSUME InterruptInv, NEW p \in Contexts, ScanPublication(p)
    PROVE  InterruptInv'
<1> DEFINE v == raise[p].vector
<1>1. /\ pc[p] = "scan" /\ InterruptTypes /\ ~Marking(p) /\ pc[p] \notin CriticalLabels
      /\ UNCHANGED <<vector, record, controller, running, isr, op>>
  BY DEF ScanPublication, InterruptInv, Marking, CriticalLabels, tables, cpu
<1>2. CASE EndRaise(p)
  BY <1>1, <1>2, EndScanStep
<1>3. CASE NextVector(p)
  BY <1>1, <1>3, NextVectorStep
<1>4. CASE /\ v \in Vectors /\ vector[v].published
           /\ raise' = [raise EXCEPT ![p].life = vector[v].epoch]
           /\ Goto(p, "source")
  <2>1. vector[v].epoch \in 0..MaxVectorEpoch
    BY <1>1, <1>4 DEF InterruptTypes, VectorStates
  <2>2. /\ raise' \in [Contexts -> RaiseStates]
        /\ \A q \in Contexts : q # p => raise'[q] = raise[q]
        /\ raise'[p].vector = v /\ raise'[p].record = raise[p].record
        /\ raise'[p].life = vector[v].epoch
    BY <1>1, <1>4, <2>1, LifeUpdate
  <2>3. raise[p].vector >= 1 /\ raise[p].record >= 1
    BY DEF InterruptInv, RaiseShape
  <2>4. vector[v].epoch <= vector[v].epoch
    BY <2>1
  <2> QED BY <1>1, <1>4, <2>2, <2>3, <2>4, ScanFrame DEF Goto
<1> QED BY <1>2, <1>3, <1>4 DEF ScanPublication

\* A step within the life the thread found: what it marks, it carries on.
LEMMA MarkFrame ==
    ASSUME InterruptInv, NEW p \in Contexts, NEW label \in {"mark", "swap", "handle", "read"},
           pc[p] \in RaiseLabels \ {"scan"}, pc' = [pc EXCEPT ![p] = label],
           UNCHANGED <<vector, controller, running, isr, op>>,
           record' \in [Records -> RecordStates], SameRecords,
           raise' \in [Contexts -> RaiseStates],
           \A q \in Contexts : q # p => raise'[q] = raise[q],
           raise'[p].vector = raise[p].vector, raise'[p].life = raise[p].life,
           raise'[p].record >= 1, label = "swap" => raise'[p].record \in Records,
           Marking(p) => raise'[p].matched,
           \A r \in Records : record'[r].state.matched =>
              \/ record[r].state.matched
              \/ raise'[p].matched /\ raise'[p].vector = record[r].vector
                                   /\ raise'[p].life = record[r].life
    PROVE  InterruptInv'
<1>1. InterruptTypes /\ TablesAgree
  BY DEF InterruptInv
<1>2. pc'[p] = label /\ \A q \in Contexts : q # p => pc'[q] = pc[q]
  BY <1>1 DEF InterruptTypes
<1>3. InterruptTypes'
  <2>1. label \in Labels
    BY DEF Labels
  <2> QED BY <1>1, <2>1 DEF InterruptTypes
<1>4. RaiseShape!(p)' /\ HandleIsVectors!(p)' /\ HandleIsKnown!(p)'
  <2>1. RaiseShape!(p)
    BY DEF InterruptInv, RaiseShape
  <2> QED BY <1>2, <2>1 DEF RaiseLabels
<1>5. label \notin CriticalLabels /\ pc[p] \notin CriticalLabels
  BY DEF CriticalLabels, RaiseLabels
<1>6. raise'[p].matched => Marking(p)'
  BY <1>2 DEF Marking
<1>7. MatchedIsServed'
  BY <1>2, <1>6, MarksKept
<1>8. SameSlots
  BY DEF SameSlots
<1> QED BY <1>3, <1>4, <1>5, <1>7, <1>8, RaiseFrame DEF InterruptInv

LEMMA ScanSourceStep ==
    ASSUME InterruptInv, NEW p \in Contexts, ScanSource(p)
    PROVE  InterruptInv'
<1>1. /\ pc[p] = "source" /\ InterruptTypes
      /\ UNCHANGED <<vector, record, controller, running, isr, op>>
  BY DEF ScanSource, InterruptInv, tables, cpu
<1>2. CASE NextVector(p)
  BY <1>1, <1>2, NextVectorStep
<1>3. CASE raise' = [raise EXCEPT ![p].record = 1] /\ Goto(p, "mark")
  <2>1. /\ raise' \in [Contexts -> RaiseStates]
        /\ \A q \in Contexts : q # p => raise'[q] = raise[q]
        /\ raise'[p].vector = raise[p].vector /\ raise'[p].life = raise[p].life
        /\ raise'[p].record = 1
    BY <1>1, <1>3, FirstRecordUpdate
  <2>2. pc[p] \in RaiseLabels \ {"scan"} /\ ~Marking(p)
    BY <1>1 DEF RaiseLabels, Marking
  <2>3. raise'[p].record >= 1 /\ record' \in [Records -> RecordStates]
    BY <1>1, <2>1 DEF InterruptTypes
  <2> QED BY <1>1, <1>3, <2>1, <2>2, <2>3, MarkFrame, UnchangedFlags DEF Goto
<1> QED BY <1>2, <1>3 DEF ScanSource

\* The thread is done with a life: nothing waits for it any more.
LEMMA EndMarkStep ==
    ASSUME InterruptInv, NEW p \in Contexts, pc[p] \in RaiseLabels, EndRaise(p),
           UNCHANGED <<vector, record, controller, running, isr, op>>,
           Marking(p) => \A r \in Records : ~Belongs(r, raise[p].vector, raise[p].life)
    PROVE  InterruptInv'
<1>1. InterruptTypes
  BY DEF InterruptInv
<1>2. /\ raise' \in [Contexts -> RaiseStates]
      /\ \A q \in Contexts : q # p => raise'[q] = raise[q]
      /\ raise'[p].vector = 1 /\ raise'[p].record = 1
      /\ pc' = [pc EXCEPT ![p] = "idle"]
  BY <1>1, EndRaiseUpdate
<1>3. pc'[p] = "idle" /\ \A q \in Contexts : q # p => pc'[q] = pc[q]
  BY <1>1, <1>2 DEF InterruptTypes
<1>4. InterruptTypes'
  <2>1. "idle" \in Labels
    BY DEF Labels
  <2> QED BY <1>1, <1>2, <2>1 DEF InterruptTypes
<1>5. RaiseShape!(p)' /\ HandleIsVectors!(p)' /\ HandleIsKnown!(p)'
  BY <1>2, <1>3 DEF RaiseLabels
<1>6. "idle" \notin CriticalLabels /\ pc[p] \notin CriticalLabels
  BY DEF CriticalLabels, RaiseLabels
<1>7. MatchedIsServed'
  BY <1>2, <1>3, UnchangedFlags, MarksKept
<1> QED BY <1>2, <1>4, <1>5, <1>6, <1>7, RaiseFrame, UnchangedFlags DEF InterruptInv

LEMMA NextRecordStep ==
    ASSUME InterruptInv, NEW p \in Contexts, pc[p] \in {"mark", "swap"},
           NEW marked \in BOOLEAN, NextRecord(p, marked),
           UNCHANGED <<vector, controller, running, isr, op>>,
           record' \in [Records -> RecordStates], SameRecords,
           \A r \in Records : record'[r].state.matched =>
              \/ record[r].state.matched
              \/ marked /\ raise[p].vector = record[r].vector /\ raise[p].life = record[r].life
    PROVE  InterruptInv'
<1>1. InterruptTypes /\ pc[p] \in RaiseLabels \ {"scan"}
  BY DEF InterruptInv, RaiseLabels
<1>2. /\ raise' \in [Contexts -> RaiseStates]
      /\ \A q \in Contexts : q # p => raise'[q] = raise[q]
      /\ raise'[p].vector = raise[p].vector /\ raise'[p].life = raise[p].life
      /\ raise'[p].record = raise[p].record + 1
      /\ raise'[p].matched = MatchedSoFar(p, marked)
  BY <1>1, NextRecordUpdate DEF NextRecord
<1>3. raise[p].record >= 1 /\ raise[p].record \in Nat
  BY <1>1 DEF InterruptInv, RaiseShape, InterruptTypes, RaiseStates
<1>4. raise'[p].record >= 1
  BY <1>2, <1>3
<1>5. (Marking(p) => raise'[p].matched) /\ (marked => raise'[p].matched)
  BY <1>2 DEF Marking, MatchedSoFar
<1> QED BY <1>1, <1>2, <1>4, <1>5, MarkFrame DEF NextRecord, Goto

LEMMA MarkLoadStep ==
    ASSUME InterruptInv, NEW p \in Contexts, MarkLoad(p)
    PROVE  InterruptInv'
<1> DEFINE r == raise[p].record
<1>1. /\ pc[p] = "mark" /\ InterruptTypes /\ pc[p] \in RaiseLabels \ {"scan"}
      /\ UNCHANGED <<vector, record, controller, running, isr, op>>
  BY DEF MarkLoad, InterruptInv, tables, cpu, RaiseLabels
<1>2. record' \in [Records -> RecordStates] /\ raise[p].record >= 1
  BY <1>1 DEF InterruptTypes, InterruptInv, RaiseShape
<1>3. CASE raise[p].matched /\ Goto(p, "handle") /\ UNCHANGED raise
  <2>1. raise' \in [Contexts -> RaiseStates] /\ raise'[p].record >= 1
    BY <1>1, <1>2, <1>3 DEF InterruptTypes
  <2> QED BY <1>1, <1>2, <1>3, <2>1, MarkFrame, UnchangedFlags DEF Goto
<1>4. CASE ~raise[p].matched /\ EndRaise(p)
  <2>1. ~Marking(p) /\ pc[p] \notin CriticalLabels
    BY <1>1, <1>4 DEF Marking, CriticalLabels
  <2> QED BY <1>1, <1>4, <2>1, EndScanStep
<1>5. CASE NextRecord(p, FALSE)
  BY <1>1, <1>2, <1>5, NextRecordStep, UnchangedFlags
<1>6. CASE /\ r \in Records /\ record[r].state.published
           /\ raise' = [raise EXCEPT ![p].seen = record[r].state]
           /\ Goto(p, "swap")
  <2>1. record[r].state \in StateWords
    BY <1>1, <1>6 DEF InterruptTypes, RecordStates
  <2>2. /\ raise' \in [Contexts -> RaiseStates]
        /\ \A q \in Contexts : q # p => raise'[q] = raise[q]
        /\ raise'[p].vector = raise[p].vector /\ raise'[p].life = raise[p].life
        /\ raise'[p].record = r /\ raise'[p].matched = raise[p].matched
    BY <1>1, <1>6, <2>1, SeenUpdate
  <2>3. Marking(p) => raise'[p].matched
    BY <2>2 DEF Marking
  <2> QED BY <1>1, <1>2, <1>6, <2>2, <2>3, MarkFrame, UnchangedFlags DEF Goto
<1> QED BY <1>3, <1>4, <1>5, <1>6 DEF MarkLoad

LEMMA MarkSwapStep ==
    ASSUME InterruptInv, NEW p \in Contexts, MarkSwap(p)
    PROVE  InterruptInv'
<1> DEFINE r == raise[p].record
<1>1. /\ pc[p] = "swap" /\ InterruptTypes /\ pc[p] \in RaiseLabels \ {"scan"}
      /\ UNCHANGED <<vector, controller, running, isr, op>>
  BY DEF MarkSwap, InterruptInv, cpu, RaiseLabels
<1>2. r \in Records /\ raise[p].record >= 1
  BY <1>1 DEF InterruptInv, RaiseShape
<1>3. CASE NextRecord(p, FALSE) /\ UNCHANGED record
  <2>1. record' \in [Records -> RecordStates]
    BY <1>1, <1>3 DEF InterruptTypes
  <2>2. SameRecords /\ \A q \in Records : record'[q].state.matched => record[q].state.matched
    BY <1>3 DEF SameRecords
  <2> QED BY <1>1, <1>3, <2>1, <2>2, NextRecordStep
<1>4. CASE /\ record[r].vector = raise[p].vector /\ record[r].life = raise[p].life
           /\ record' = [record EXCEPT ![r].state.matched = TRUE]
           /\ NextRecord(p, TRUE)
  <2>1. record \in [Records -> RecordStates]
    BY <1>1 DEF InterruptTypes
  <2>2. /\ record' \in [Records -> RecordStates] /\ SameRecords
        /\ \A q \in Records : record'[q].state.matched => record[q].state.matched \/ q = r
    <3>1. PICK b \in BOOLEAN : b = TRUE
      OBVIOUS
    <3> HIDE DEF r
    <3>3. record' = [record EXCEPT ![r].state.matched = b]
      BY <1>4, <3>1
    <3>2. /\ record' \in [Records -> RecordStates]
          /\ \A q \in Records : q # r => record'[q] = record[q]
          /\ \A q \in Records :
                /\ record'[q].vector = record[q].vector /\ record'[q].life = record[q].life
                /\ record'[q].filter = record[q].filter /\ record'[q].handler = record[q].handler
                /\ record'[q].state.published = record[q].state.published
                /\ record'[q].state.enabled = record[q].state.enabled
      BY <1>2, <2>1, <3>3, MatchedUpdate
    <3> QED BY <3>2 DEF SameRecords
  <2>3. \A q \in Records : record'[q].state.matched =>
              \/ record[q].state.matched
              \/ raise[p].vector = record[q].vector /\ raise[p].life = record[q].life
    BY <1>4, <2>2
  <2> QED BY <1>1, <1>4, <2>2, <2>3, NextRecordStep
<1>5. CASE Goto(p, "mark") /\ UNCHANGED <<record, raise>>
  <2>1. /\ raise' \in [Contexts -> RaiseStates] /\ raise'[p].record >= 1
        /\ record' \in [Records -> RecordStates]
    BY <1>1, <1>2, <1>5 DEF InterruptTypes
  <2>2. Marking(p) => raise'[p].matched
    BY <1>5 DEF Marking
  <2>3. SameRecords /\ \A q \in Records : record'[q].state.matched => record[q].state.matched
    BY <1>5 DEF SameRecords
  <2> QED BY <1>1, <1>5, <2>1, <2>2, <2>3, MarkFrame DEF Goto
<1> QED BY <1>3, <1>4, <1>5 DEF MarkSwap

\* A life that is over has no record left.
LEMMA LifeIsOver ==
    ASSUME InterruptInv, NEW v \in Vectors, NEW life, life <= vector[v].epoch,
           ~StillPublished(v, life), NEW r \in Records
    PROVE  ~Belongs(r, v, life)
<1>1. vector[v].epoch \in Nat
  BY CapacityAssumption DEF InterruptInv, InterruptTypes, VectorStates
<1>2. Working("publish", v) => op[running].life = vector[v].epoch + 1
  BY DEF InterruptInv, TablesAgree, PublishShape, Working
<1>3. CASE Working("publish", v) /\ life = op[running].life
  BY <1>1, <1>2, <1>3
<1> QED BY <1>3 DEF InterruptInv, TablesAgree, RecordsNameVectors, Belongs

LEMMA HandleCheckStep ==
    ASSUME InterruptInv, NEW p \in Contexts, HandleCheck(p)
    PROVE  InterruptInv'
<1>1. /\ pc[p] = "handle" /\ InterruptTypes /\ pc[p] \in RaiseLabels \ {"scan"}
      /\ UNCHANGED <<vector, record, controller, running, isr, op>>
  BY DEF HandleCheck, InterruptInv, tables, cpu, RaiseLabels
<1>2. /\ raise[p].vector \in Vectors /\ raise[p].life <= vector[raise[p].vector].epoch
      /\ raise[p].record >= 1
  BY <1>1 DEF InterruptInv, RaiseShape
<1>3. CASE Goto(p, "read") /\ UNCHANGED raise
  <2>1. /\ raise' \in [Contexts -> RaiseStates] /\ raise'[p].record >= 1
        /\ record' \in [Records -> RecordStates]
    BY <1>1, <1>2, <1>3 DEF InterruptTypes
  <2>2. Marking(p) => raise'[p].matched
    BY <1>3 DEF Marking
  <2> QED BY <1>1, <1>3, <2>1, <2>2, MarkFrame, UnchangedFlags DEF Goto
<1>4. CASE ~StillPublished(raise[p].vector, raise[p].life) /\ EndRaise(p)
  BY <1>1, <1>2, <1>4, LifeIsOver, EndMarkStep
<1> QED BY <1>3, <1>4 DEF HandleCheck

LEMMA HandleReadStep ==
    ASSUME InterruptInv, NEW p \in Contexts, HandleRead(p)
    PROVE  InterruptInv'
<1> DEFINE v == raise[p].vector
           life == raise[p].life
<1>1. /\ pc[p] = "read" /\ InterruptTypes /\ TablesAgree
      /\ UNCHANGED <<vector, record, controller, running, isr, op>>
      /\ pc[p] \in RaiseLabels /\ pc[p] \notin CriticalLabels
  BY DEF HandleRead, InterruptInv, tables, cpu, RaiseLabels, CriticalLabels
<1>2. v \in Vectors /\ life <= vector[v].epoch /\ raise[p].record >= 1 /\ v >= 1
  BY <1>1 DEF InterruptInv, RaiseShape, RaiseLabels
<1>3. CASE ~HandleIsCurrent(p) /\ EndRaise(p)
  <2>1. ~StillPublished(v, life)
    BY <1>3 DEF HandleIsCurrent
  <2> QED BY <1>1, <1>2, <1>3, <2>1, LifeIsOver, EndMarkStep
<1>4. CASE /\ HandleIsCurrent(p)
           /\ raise' = [raise EXCEPT ![p].slot = vector[v].slot,
                                     ![p].generation = vector[v].generation]
           /\ Goto(p, "pend")
  <2>1. StillPublished(v, life) /\ vector[v].published /\ vector[v].epoch = life /\ InUse(v)
    BY <1>4 DEF HandleIsCurrent, StillPublished, InUse
  <2>2. /\ vector[v].slot \in Slots /\ controller[vector[v].slot].vector = v
        /\ controller[vector[v].slot].generation = vector[v].generation
    BY <1>1, <1>2, <2>1 DEF TablesAgree, VectorsNameSlots
  <2>3. vector[v].generation \in Nat
    BY <1>1, <1>2 DEF InterruptTypes, VectorStates
  <2>4. /\ raise' \in [Contexts -> RaiseStates]
        /\ \A q \in Contexts : q # p => raise'[q] = raise[q]
        /\ raise'[p].vector = v /\ raise'[p].life = life
        /\ raise'[p].record = raise[p].record /\ raise'[p].matched = raise[p].matched
        /\ raise'[p].slot = vector[v].slot /\ raise'[p].generation = vector[v].generation
    <3> DEFINE slot == vector[v].slot
               g == vector[v].generation
    <3>1. raise' = [raise EXCEPT ![p].slot = slot, ![p].generation = g]
      BY <1>4
    <3>2. slot \in Slots /\ g \in Nat
      BY <2>2, <2>3
    <3> HIDE DEF slot, g
    <3>3. /\ raise' \in [Contexts -> RaiseStates]
          /\ \A q \in Contexts : q # p => raise'[q] = raise[q]
          /\ raise'[p].vector = raise[p].vector /\ raise'[p].life = raise[p].life
          /\ raise'[p].record = raise[p].record /\ raise'[p].matched = raise[p].matched
          /\ raise'[p].slot = slot /\ raise'[p].generation = g
      <4>1. InterruptTypes
        BY <1>1
      <4> DEFINE y == [source |-> raise[p].source, bits |-> raise[p].bits,
                       vector |-> raise[p].vector, life |-> raise[p].life,
                       record |-> raise[p].record, seen |-> raise[p].seen,
                       matched |-> raise[p].matched, slot |-> slot, generation |-> g]
      <4>2. /\ raise' \in [Contexts -> RaiseStates]
            /\ \A q \in Contexts : q # p => raise'[q] = raise[q]
            /\ raise'[p] = y
        BY <3>1, <3>2, <4>1, HandleUpdate
      <4> QED BY <4>2
    <3> QED BY <3>3 DEF slot, g
  <2>5. pc' = [pc EXCEPT ![p] = "pend"] /\ pc'[p] = "pend"
        /\ \A q \in Contexts : q # p => pc'[q] = pc[q]
    BY <1>1, <1>4 DEF Goto, InterruptTypes
  <2>6. InterruptTypes'
    <3>1. "pend" \in Labels
      BY DEF Labels
    <3> QED BY <1>1, <2>4, <2>5, <3>1 DEF InterruptTypes
  <2>7. RaiseShape!(p)'
    BY <1>1, <1>2, <2>4, <2>5
  <2>8. HandleIsVectors!(p)'
    BY <1>1, <2>4, <2>5
  <2>9. HandleIsKnown!(p)'
    <3>1. raise'[p].slot \in Slots
          /\ raise'[p].generation <= controller'[raise'[p].slot].generation
      BY <1>1, <2>2, <2>3, <2>4
    <3> QED BY <1>1, <2>1, <2>2, <2>4, <3>1
  <2>10. MatchedIsServed'
    <3>1. Marking(p) => Marking(p)'
      BY <2>4, <2>5 DEF Marking
    <3> QED BY <1>1, <2>4, <2>5, <3>1, UnchangedFlags, MarksKept
  <2>11. "pend" \notin CriticalLabels
    BY DEF CriticalLabels
  <2> QED BY <1>1, <2>4, <2>5, <2>6, <2>7, <2>8, <2>9, <2>10, <2>11, RaiseFrame, UnchangedFlags
             DEF InterruptInv
<1> QED BY <1>3, <1>4 DEF HandleRead

LEMMA setInterruptPendingStep ==
    ASSUME InterruptInv, NEW p \in Contexts, setInterruptPending(p)
    PROVE  InterruptInv'
<1> DEFINE v == raise[p].vector
           life == raise[p].life
           s == raise[p].slot
<1>1. /\ pc[p] = "pend" /\ InterruptTypes /\ TablesAgree /\ EndRaise(p)
      /\ UNCHANGED <<vector, record, running, isr, op>>
      /\ pc[p] \in RaiseLabels \ {"scan"} /\ pc[p] \notin CriticalLabels
  BY DEF setInterruptPending, InterruptInv, cpu, RaiseLabels, CriticalLabels
<1>2. v \in Vectors /\ life <= vector[v].epoch /\ s \in Slots
  BY <1>1 DEF InterruptInv, RaiseShape, HandleIsKnown
<1>3. CASE ~HandleIsLive(p)
  <2>1. ~StillPublished(v, life)
    <3>1. StillPublished(v, life) => InUse(v)
      BY DEF StillPublished, InUse
    <3> QED BY <1>1, <1>2, <1>3, <3>1
           DEF InterruptInv, HandleIsVectors, HandleIsLive, TablesAgree, VectorsNameSlots
  <2>2. UNCHANGED controller
    BY <1>3 DEF setInterruptPending
  <2> QED BY <1>1, <1>2, <2>1, <2>2, LifeIsOver, EndMarkStep
<1>4. CASE HandleIsLive(p)
  <2>1. /\ raise' \in [Contexts -> RaiseStates]
        /\ \A q \in Contexts : q # p => raise'[q] = raise[q]
        /\ raise'[p].vector = 1 /\ raise'[p].record = 1
        /\ pc' = [pc EXCEPT ![p] = "idle"]
    BY <1>1, EndRaiseUpdate
  <2>2. pc'[p] = "idle" /\ \A q \in Contexts : q # p => pc'[q] = pc[q]
    BY <1>1, <2>1 DEF InterruptTypes
  <2>3. controller \in [Slots -> SlotStates] /\ controller' = [controller EXCEPT ![s].pending = TRUE]
    BY <1>1, <1>4 DEF InterruptTypes, setInterruptPending
  <2>4. /\ controller' \in [Slots -> SlotStates] /\ SameSlots
        /\ \A t \in Slots : controller'[t].pending = IF t = s THEN TRUE ELSE controller[t].pending
    <3>1. PICK b \in BOOLEAN : b = TRUE
      OBVIOUS
    <3> HIDE DEF s
    <3>3. controller' = [controller EXCEPT ![s].pending = b]
      BY <2>3, <3>1
    <3>2. /\ controller' \in [Slots -> SlotStates]
          /\ \A t \in Slots :
                /\ controller'[t].generation = controller[t].generation
                /\ controller'[t].live = controller[t].live
                /\ controller'[t].vector = controller[t].vector
                /\ controller'[t].enabled = controller[t].enabled
                /\ controller'[t].pending = IF t = s THEN b ELSE controller[t].pending
      <4>1. controller \in [Slots -> SlotStates] /\ s \in Slots /\ b \in BOOLEAN
        BY <1>2, <2>3, <3>1
      <4>2. controller' \in [Slots -> SlotStates]
        BY <3>3, <4>1 DEF SlotStates
      <4> QED BY <3>3, <4>1, <4>2, SlotPendingUpdate
    <3> QED BY <3>1, <3>2 DEF SameSlots
  <2>5. InterruptTypes'
    <3>1. "idle" \in Labels
      BY DEF Labels
    <3> QED BY <1>1, <2>1, <2>4, <3>1 DEF InterruptTypes
  <2>6. RaiseShape!(p)' /\ HandleIsVectors!(p)' /\ HandleIsKnown!(p)'
    BY <2>1, <2>2 DEF RaiseLabels
  <2>7. "idle" \notin CriticalLabels
    BY DEF CriticalLabels
  <2>8. SameRecords /\ \A r \in Records : record'[r].state.matched => record[r].state.matched
    BY <1>1 DEF SameRecords
  <2>9. \A t \in Slots : controller[t].pending => controller'[t].pending
    BY <2>4
  <2>10. controller'[vector[v].slot].pending \/ ~StillPublished(v, life)
    BY <1>1, <1>2, <2>4 DEF InterruptInv, HandleIsVectors
  <2>11. MatchedIsServed'
    BY <1>1, <1>2, <2>1, <2>2, <2>8, <2>9, <2>10, LifeIsOver, MarksKept
  <2> QED BY <1>1, <2>1, <2>4, <2>5, <2>6, <2>7, <2>8, <2>11, RaiseFrame DEF InterruptInv
<1> QED BY <1>3, <1>4

LEMMA RaiseStepKeeps ==
    ASSUME InterruptInv, NEW p \in Contexts, RaiseStep(p)
    PROVE  InterruptInv'
BY ScanPublicationStep, ScanSourceStep, MarkLoadStep, MarkSwapStep, HandleCheckStep,
   HandleReadStep, setInterruptPendingStep DEF RaiseStep

-----------------------------------------------------------------------------
(* Task switches and the ISR *)

LEMMA PreemptStep ==
    ASSUME InterruptInv, NEW t \in Tasks, Preempt(t)
    PROVE  InterruptInv'
<1>1. /\ InterruptTypes /\ TablesAgree /\ isr.vector = 0 /\ ~Masked(running) /\ running' = t
      /\ UNCHANGED <<vector, record, controller, isr, pc, op, raise>>
  BY DEF Preempt, InterruptInv, tables
<1>2. InterruptTypes'
  BY <1>1 DEF InterruptTypes
<1>3. \A p \in Contexts : ~Masked(p)
  BY <1>1 DEF TablesAgree, Exclusive
<1>4. t \in Contexts /\ pc[t] \notin TableLabels /\ pc[running] \notin TableLabels
  BY <1>1, <1>3 DEF Contexts, Masked, CriticalLabels, TableLabels
<1>5. /\ \A l \in TableLabels : \A v : ~Working(l, v) /\ ~Working(l, v)'
      /\ pc'[running'] \notin TableLabels
  BY <1>1, <1>4 DEF Working
<1>6. \A v : InUse(v)' <=> InUse(v)
  BY <1>1, <1>5 DEF InUse, TableLabels
<1>7. Exclusive'
  BY <1>1, <1>3 DEF Exclusive, Masked
<1>8. OpShape' /\ PublishShape' /\ EnablementShape' /\ RetireShape' /\ UnregisterShape'
  BY <1>1, <1>5 DEF TablesAgree, OpShape, PublishShape, EnablementShape, RetireShape,
                    UnregisterShape, TableLabels
<1>9. RecordsNameVectors'
  BY <1>1, <1>5 DEF TablesAgree, RecordsNameVectors, StillPublished, TableLabels
<1>10. VectorsNameSlots' /\ SlotsNameVectors' /\ OneVectorPerSource'
  BY <1>1, <1>6 DEF TablesAgree, VectorsNameSlots, SlotsNameVectors, OneVectorPerSource
<1>11. DispatchShape' /\ RaiseShape' /\ HandleIsVectors'
  BY <1>1 DEF InterruptInv, DispatchShape, RaiseShape, HandleIsVectors, StillPublished
<1>12. HandleIsKnown'
  BY <1>1, <1>5 DEF InterruptInv, HandleIsKnown, HandleIsLive, TableLabels
<1>13. EnablementKnown'
  <2> SUFFICES ASSUME NEW w \in Vectors, vector[w].published
               PROVE  controller[vector[w].slot].enabled <=> AnyEnabledRecord(w, vector[w].epoch)'
    BY <1>1 DEF EnablementKnown
  <2>1. AnyEnabledRecord(w, vector[w].epoch)' <=> AnyEnabledRecord(w, vector[w].epoch)
    BY <1>1 DEF AnyEnabledRecord, Belongs
  <2> QED BY <1>5, <2>1 DEF InterruptInv, EnablementKnown, TableLabels
<1>14. MatchedIsServed'
  BY <1>1 DEF InterruptInv, MatchedIsServed, Marking
<1> QED
  BY <1>2, <1>7, <1>8, <1>9, <1>10, <1>11, <1>12, <1>13, <1>14 DEF InterruptInv, TablesAgree

\* A step of the ISR changes its dispatch and flags of the tables.
LEMMA DispatchFrame ==
    ASSUME InterruptInv, InterruptTypes', ~Masked(running),
           UNCHANGED <<vector, running, pc, op, raise>>, SameRecords, SameSlots
    PROVE  /\ TablesAgree' /\ EnablementKnown'
           /\ RaiseShape' /\ HandleIsVectors' /\ HandleIsKnown'
<1>1. InterruptTypes /\ TablesAgree
  BY DEF InterruptInv
<1>2. running \in Contexts /\ pc[running] \notin CriticalLabels
      /\ pc[running] \notin TableLabels
  BY <1>1 DEF InterruptTypes, Contexts, Masked, CriticalLabels, TableLabels
<1>3. pc' = [pc EXCEPT ![running] = pc[running]]
  BY <1>1, <1>2 DEF InterruptTypes
<1>4. OpShape'
  BY <1>1 DEF TablesAgree, OpShape
<1>5. TablesAgree' /\ EnablementKnown'
  BY <1>1, <1>2, <1>3, <1>4, TablesFrame DEF InterruptInv
<1>6. RaiseShape' /\ HandleIsVectors'
  BY DEF InterruptInv, RaiseShape, HandleIsVectors, StillPublished
<1>7. HandleIsKnown'
  <2> SUFFICES ASSUME NEW q \in Contexts
               PROVE  HandleIsKnown!(q)'
    BY DEF HandleIsKnown
  <2>1. HandleIsKnown!(q)
    BY DEF InterruptInv, HandleIsKnown
  <2>2. \A w : Working("unregister", w)' <=> Working("unregister", w)
    BY DEF Working
  <2> QED BY <2>1, <2>2 DEF HandleIsLive, SameSlots
<1> QED BY <1>5, <1>6, <1>7

LEMMA InterruptStep ==
    ASSUME InterruptInv, NEW s \in Slots, Interrupt(s)
    PROVE  InterruptInv'
<1> DEFINE v == controller[s].vector
<1>1. /\ InterruptTypes /\ TablesAgree /\ isr.vector = 0 /\ ~Masked(running)
      /\ controller[s].live
      /\ controller' = [controller EXCEPT ![s].pending = FALSE]
      /\ UNCHANGED <<vector, record, running, pc, op, raise>>
  BY DEF Interrupt, InterruptInv
<1>2. \A l \in TableLabels : \A w : ~Working(l, w)
  BY <1>1 DEF Working, Masked, CriticalLabels, TableLabels
<1>3. v \in Vectors /\ vector[v].published /\ vector[v].slot = s
  BY <1>1, <1>2 DEF TablesAgree, SlotsNameVectors, InUse, TableLabels
<1>4. /\ isr' = [vector |-> v, life |-> vector[v].epoch, next |-> 1, stage |-> "record"]
      /\ vector[v].epoch \in 0..MaxVectorEpoch
  BY <1>1, <1>3 DEF Interrupt, InterruptTypes, VectorStates
<1>5. /\ controller' \in [Slots -> SlotStates] /\ SameSlots
      /\ \A t \in Slots : t # s => controller'[t].pending = controller[t].pending
  <2>1. PICK b \in BOOLEAN : b = FALSE
    OBVIOUS
  <2>2. controller' = [controller EXCEPT ![s].pending = b] /\ controller \in [Slots -> SlotStates]
    BY <1>1, <2>1 DEF InterruptTypes
  <2>3. b \in BOOLEAN
    BY <2>1
  <2>4. controller' \in [Slots -> SlotStates]
    BY <2>2, <2>3 DEF SlotStates
  <2> QED BY <2>2, <2>3, <2>4, SlotPendingUpdate DEF SameSlots
<1> HIDE DEF v
<1>6. InterruptTypes'
  <2>1. isr' \in DispatchStates
    BY <1>3, <1>4 DEF DispatchStates
  <2> QED BY <1>1, <1>5, <2>1 DEF InterruptTypes
<1>7. SameRecords
  BY <1>1 DEF SameRecords
<1>8. DispatchShape'
  BY <1>1, <1>3, <1>4 DEF DispatchShape, StillPublished, Masked, Vectors
<1>9. MatchedIsServed'
  <2> SUFFICES ASSUME NEW r \in Records, record[r].state.published, record[r].state.matched
               PROVE  MatchedIsServed!(r)!2'
    BY <1>1 DEF MatchedIsServed
  <2> DEFINE w == record[r].vector
  <2>1. w \in Vectors /\ vector[w].published /\ w # 0
    BY <1>1, <1>2 DEF TablesAgree, RecordsNameVectors, StillPublished, TableLabels, Vectors
  <2>2. vector[w].slot \in Slots /\ controller[vector[w].slot].vector = w
    BY <1>1, <2>1 DEF TablesAgree, VectorsNameSlots, InUse
  <2>3. CASE vector[w].slot = s
    <3>1. isr'.vector = w /\ isr'.next = 1 /\ isr'.stage = "record"
      BY <1>4, <2>2, <2>3 DEF v
    <3>2. 1 < r \/ 1 = r
      BY DEF Records
    <3> QED BY <1>1, <3>1, <3>2
  <2>4. CASE vector[w].slot # s
    <3>1. MatchedIsServed!(r)!2
      BY DEF InterruptInv, MatchedIsServed
    <3>2. controller[vector[w].slot].pending => controller'[vector'[record'[r].vector].slot].pending
      BY <1>1, <1>5, <2>2, <2>4
    <3> QED BY <1>1, <2>1, <3>1, <3>2 DEF Marking
  <2> QED BY <2>3, <2>4
<1> QED BY <1>1, <1>5, <1>6, <1>7, <1>8, <1>9, DispatchFrame DEF InterruptInv

\* The dispatch goes on to the next record or ends after the last.
LEMMA AfterRecordUpdate ==
    ASSUME InterruptTypes, isr.vector # 0, AfterRecord
    PROVE  /\ isr' \in DispatchStates
           /\ isr'.vector # 0 => isr'.vector = isr.vector /\ isr'.life = isr.life
           /\ isr'.stage = "record"
           /\ \A q \in Records : isr.next < q =>
                 isr'.vector = isr.vector /\ (isr'.next < q \/ isr'.next = q)
<1>1. isr \in DispatchStates /\ NumRecords \in Nat
  BY CapacityAssumption DEF InterruptTypes
<1>2. CASE isr.next < NumRecords
  <2>1. isr' = [isr EXCEPT !.next = isr.next + 1, !.stage = "record"]
    BY <1>2 DEF AfterRecord
  <2>2. isr.next \in Int /\ isr.next + 1 \in Records
    BY <1>1, <1>2 DEF DispatchStates, Records
  <2>3. isr' = [vector |-> isr.vector, life |-> isr.life, next |-> isr.next + 1,
                stage |-> "record"]
    BY <1>1, <2>1 DEF DispatchStates
  <2>4. isr' \in DispatchStates
    BY <1>1, <2>2, <2>3 DEF DispatchStates
  <2>5. \A q \in Records : isr.next < q => isr.next + 1 < q \/ isr.next + 1 = q
    BY <1>1, <2>2 DEF Records
  <2> QED BY <2>3, <2>4, <2>5
<1>3. CASE ~(isr.next < NumRecords)
  <2>1. isr' = NoDispatch /\ isr'.vector = 0 /\ isr'.stage = "record"
    BY <1>3 DEF AfterRecord, NoDispatch
  <2>2. isr.next \in Int
    BY <1>1 DEF DispatchStates, Records
  <2>3. \A q \in Records : ~(isr.next < q)
    BY <1>1, <1>3, <2>2 DEF Records
  <2> QED BY <2>1, <2>3, ConstantTypes
<1> QED BY <1>2, <1>3

LEMMA ServeRecordStep ==
    ASSUME InterruptInv, ServeRecord
    PROVE  InterruptInv'
<1> DEFINE r == isr.next
           matched == Belongs(r, isr.vector, isr.life) /\ record[r].state.matched
<1>1. /\ InterruptTypes /\ TablesAgree /\ isr.vector # 0 /\ isr.stage = "record"
      /\ UNCHANGED <<vector, controller, running, pc, op, raise>>
  BY DEF ServeRecord, InterruptInv
<1>2. /\ isr.vector \in Vectors /\ StillPublished(isr.vector, isr.life) /\ ~Masked(running)
      /\ \A l \in TableLabels : \A w : ~Working(l, w)
  BY <1>1 DEF InterruptInv, DispatchShape, Working, Masked, CriticalLabels, TableLabels
<1>3. /\ record' \in [Records -> RecordStates] /\ SameRecords
      /\ \A q \in Records : record'[q].state.matched =>
            record[q].state.matched /\ ~(q = r /\ matched)
  <2>0. record \in [Records -> RecordStates]
    BY <1>1 DEF InterruptTypes
  <2>1. CASE matched /\ r \in Records
    <3>1. PICK b \in BOOLEAN : b = FALSE
      OBVIOUS
    <3>2. record' = [record EXCEPT ![r].state.matched = b] /\ b \in BOOLEAN
      BY <2>1, <3>1 DEF ServeRecord
    <3> HIDE DEF r
    <3>3. record' \in [Records -> RecordStates]
      BY <2>0, <2>1, <3>2 DEF RecordStates, StateWords
    <3>4. /\ \A q \in Records :
                /\ record'[q].vector = record[q].vector /\ record'[q].life = record[q].life
                /\ record'[q].filter = record[q].filter /\ record'[q].handler = record[q].handler
                /\ record'[q].state.published = record[q].state.published
                /\ record'[q].state.enabled = record[q].state.enabled
                /\ record'[q].state.matched = IF q = r THEN b ELSE record[q].state.matched
      BY <2>0, <2>1, <3>2, <3>3, MatchedUpdate
    <3> HIDE DEF matched
    <3> QED BY <3>1, <3>3, <3>4 DEF SameRecords
  <2>2. CASE ~matched
    BY <2>0, <2>2 DEF ServeRecord, SameRecords
  <2>3. CASE matched /\ r \notin Records
    BY <2>0, <2>3 DEF ServeRecord, SameRecords
  <2> QED BY <2>1, <2>2, <2>3
<1>4. /\ isr' \in DispatchStates
      /\ isr'.vector # 0 => isr'.vector = isr.vector /\ isr'.life = isr.life
      /\ isr'.vector = 0 => isr'.stage = "record"
      /\ \A q \in Records : isr.next < q =>
            isr'.vector = isr.vector /\ (isr'.next < q \/ (isr'.next = q /\ isr'.stage = "record"))
  <2>1. CASE AfterRecord
    BY <1>1, <2>1, AfterRecordUpdate
  <2>2. CASE isr' = [isr EXCEPT !.stage = "call"]
    <3>1. isr' = [vector |-> isr.vector, life |-> isr.life, next |-> isr.next, stage |-> "call"]
          /\ isr' \in DispatchStates
      BY <1>1, <2>2 DEF InterruptTypes, DispatchStates
    <3> QED BY <1>1, <3>1
  <2> QED BY <2>1, <2>2 DEF ServeRecord
<1>5. InterruptTypes'
  BY <1>1, <1>3, <1>4 DEF InterruptTypes
<1>6. SameSlots
  BY <1>1 DEF SameSlots
<1>7. DispatchShape'
  BY <1>1, <1>2, <1>4 DEF DispatchShape, StillPublished, Masked
<1>8. MatchedIsServed'
  <2> SUFFICES ASSUME NEW q \in Records, record'[q].state.published, record'[q].state.matched
               PROVE  MatchedIsServed!(q)!2'
    BY DEF MatchedIsServed
  <2>1. /\ record[q].state.published /\ record[q].state.matched
        /\ record'[q].vector = record[q].vector /\ record'[q].life = record[q].life
        /\ ~(q = r /\ matched)
    BY <1>3 DEF SameRecords
  <2>2. MatchedIsServed!(q)!2
    BY <2>1 DEF InterruptInv, MatchedIsServed
  <2>3. ~(isr.vector = record[q].vector /\ isr.next = q)
    <3>1. StillPublished(record[q].vector, record[q].life)
      BY <1>1, <1>2, <2>1 DEF TablesAgree, RecordsNameVectors, TableLabels
    <3> QED BY <1>2, <2>1, <3>1 DEF StillPublished, Belongs
  <2> QED BY <1>1, <1>4, <2>1, <2>2, <2>3 DEF Marking
<1> QED BY <1>1, <1>2, <1>3, <1>5, <1>6, <1>7, <1>8, DispatchFrame DEF InterruptInv

\* A handler returns, or TimerInterrupt goes on to the common layer's.
LEMMA HandlerStep ==
    ASSUME InterruptInv, isr.vector # 0, isr.stage # "record",
           AfterRecord \/ isr' = [isr EXCEPT !.stage = "upper"],
           UNCHANGED <<vector, record, controller, running, pc, op, raise>>
    PROVE  InterruptInv'
<1>1. InterruptTypes /\ TablesAgree
  BY DEF InterruptInv
<1>2. StillPublished(isr.vector, isr.life) /\ ~Masked(running)
  BY DEF InterruptInv, DispatchShape
<1>3. /\ isr' \in DispatchStates
      /\ isr'.vector # 0 => isr'.vector = isr.vector /\ isr'.life = isr.life
      /\ isr'.vector = 0 => isr'.stage = "record"
      /\ \A q \in Records : isr.next < q =>
            isr'.vector = isr.vector /\ (isr'.next < q \/ (isr'.next = q /\ isr'.stage = "record"))
  <2>1. CASE AfterRecord
    BY <1>1, <2>1, AfterRecordUpdate
  <2>2. CASE isr' = [isr EXCEPT !.stage = "upper"]
    <3>1. isr' = [vector |-> isr.vector, life |-> isr.life, next |-> isr.next, stage |-> "upper"]
          /\ isr' \in DispatchStates
      BY <1>1, <2>2 DEF InterruptTypes, DispatchStates
    <3> QED BY <3>1
  <2> QED BY <2>1, <2>2
<1>4. InterruptTypes'
  BY <1>1, <1>3 DEF InterruptTypes
<1>5. DispatchShape'
  BY <1>2, <1>3 DEF InterruptInv, DispatchShape, StillPublished, Masked
<1>6. MatchedIsServed'
  BY <1>3 DEF InterruptInv, MatchedIsServed, Marking
<1> QED BY <1>2, <1>4, <1>5, <1>6, UnchangedFlags, DispatchFrame DEF InterruptInv

-----------------------------------------------------------------------------
(* Steps of the code around the tables *)

\* A step outside the operations on the tables and outside the assertion of a source.
LEMMA QuietStep ==
    ASSUME InterruptInv, NEW p \in Contexts, CanRun(p),
           pc[p] \notin TableLabels \cup RaiseLabels,
           NEW label \in Labels, label \notin TableLabels \cup RaiseLabels,
           label \in CriticalLabels => p \in Tasks,
           pc' = [pc EXCEPT ![p] = label],
           UNCHANGED <<vector, record, controller, running, isr, raise>>,
           op' \in [Contexts -> OpStates], op'[p].then = "idle",
           \A q \in Contexts : q # p => op'[q] = op[q]
    PROVE  InterruptInv'
<1>1. InterruptTypes /\ TablesAgree
  BY DEF InterruptInv
<1>2. pc'[p] = label /\ \A q \in Contexts : q # p => pc'[q] = pc[q]
  BY <1>1 DEF InterruptTypes
<1>3. InterruptTypes'
  BY <1>1 DEF InterruptTypes
<1>4. OpShape'
  BY <1>1, <1>2 DEF TablesAgree, OpShape, Continuations
<1>5. label \in CriticalLabels => p = running /\ isr'.vector = 0
  BY ContextsAssumption DEF CanRun
<1>6. TablesAgree' /\ EnablementKnown'
  BY <1>1, <1>4, <1>5, UnchangedFlags, TablesFrame DEF InterruptInv
<1>7. DispatchShape'
  <2>1. isr.vector # 0 => running # p
    BY <1>1, ContextsAssumption DEF CanRun, InterruptTypes
  <2>2. running \in Contexts
    BY <1>1 DEF InterruptTypes, Contexts
  <2> QED BY <1>2, <2>1, <2>2 DEF InterruptInv, DispatchShape, StillPublished, Masked
<1>8. \A q \in Contexts : pc'[q] \in RaiseLabels => pc'[q] = pc[q]
  BY <1>2
<1>9. RaiseShape' /\ HandleIsVectors'
  BY <1>8 DEF InterruptInv, RaiseShape, HandleIsVectors, StillPublished, RaiseLabels
<1>10. HandleIsKnown'
  <2> SUFFICES ASSUME NEW q \in Contexts, pc'[q] = "pend"
               PROVE  HandleIsKnown!(q)!2'
    BY DEF HandleIsKnown
  <2>1. HandleIsKnown!(q)!2
    BY <1>8 DEF InterruptInv, HandleIsKnown, RaiseLabels
  <2>2. \A w : Working("unregister", w) => Working("unregister", w)'
    <3>1. running \in Contexts
      BY <1>1 DEF InterruptTypes, Contexts
    <3> QED BY <1>2, <3>1 DEF Working, TableLabels
  <2> QED BY <2>1, <2>2 DEF HandleIsLive
<1>11. MatchedIsServed'
  <2>1. \A q \in Contexts : Marking(q) => Marking(q)'
    BY <1>2 DEF Marking, RaiseLabels
  <2> QED BY <2>1 DEF InterruptInv, MatchedIsServed
<1> QED BY <1>3, <1>6, <1>7, <1>9, <1>10, <1>11 DEF InterruptInv

LEMMA UnchangedStep ==
    ASSUME InterruptInv, UNCHANGED interruptVars
    PROVE  InterruptInv'
<1>1. UNCHANGED <<vector, record, controller, running, isr, pc, op, raise>>
  BY DEF interruptVars, tables, cpu
<1>2. InterruptTypes' /\ DispatchShape' /\ RaiseShape' /\ HandleIsVectors' /\ MatchedIsServed'
  BY <1>1 DEF InterruptInv, InterruptTypes, DispatchShape, StillPublished, Masked, RaiseShape,
              HandleIsVectors, MatchedIsServed, Marking
<1>3. Exclusive' /\ OpShape' /\ PublishShape' /\ EnablementShape' /\ RetireShape'
      /\ UnregisterShape'
  BY <1>1 DEF InterruptInv, TablesAgree, Exclusive, OpShape, PublishShape, EnablementShape,
              RetireShape, UnregisterShape, Masked, StillPublished, Belongs
<1>4. RecordsNameVectors' /\ VectorsNameSlots' /\ SlotsNameVectors' /\ OneVectorPerSource'
  BY <1>1 DEF InterruptInv, TablesAgree, RecordsNameVectors, VectorsNameSlots, SlotsNameVectors,
              OneVectorPerSource, InUse, Working, StillPublished
<1>5. HandleIsKnown'
  BY <1>1 DEF InterruptInv, HandleIsKnown, HandleIsLive, Working
<1>6. EnablementKnown'
  BY <1>1 DEF InterruptInv, EnablementKnown, AnyEnabledRecord, Belongs, Working
<1> QED BY <1>2, <1>3, <1>4, <1>5, <1>6 DEF InterruptInv, TablesAgree

LEMMA AllocateStep ==
    ASSUME InterruptInv, NEW p, Callable(p), NEW a \in Requests, NEW then \in Continuations,
           AllocateInterrupt(p, a, then)
    PROVE  InterruptInv'
<1>1. PICK r \in Records :
         /\ IsFirst(r, FreeRecords)
         /\ \E v \in Vectors :
               \/ JoinVector(p, a, r, v, then)
               \/ \E s \in Slots : NewVector(p, a, r, v, s, then)
  BY DEF AllocateInterrupt
<1>2. r \in FreeRecords
  BY <1>1 DEF IsFirst
<1> QED BY <1>1, <1>2, JoinVectorStep, NewVectorStep

\* What drivers and the timer ask for.
LEMMA RequestTypes ==
    DriverRequests \subseteq Requests /\ TimerRequest \in Requests
BY ContextsAssumption DEF Requests, TimerRequest

LEMMA DriverCallStep ==
    ASSUME InterruptInv, NEW p \in DriverTasks, DriverCall(p)
    PROVE  InterruptInv'
<1>1. Callable(p)
  BY ContextsAssumption DEF DriverCall, Callable, RaiseLabels, Masked, CriticalLabels
<1>2. "idle" \in Continuations
  BY DEF Continuations
<1>3. ASSUME NEW a \in DriverRequests, AllocateInterrupt(p, a, "idle")
      PROVE  InterruptInv'
  BY <1>1, <1>2, <1>3, RequestTypes, AllocateStep
<1> QED BY <1>1, <1>2, <1>3, FreeStep, SetRecordEnabledStep DEF DriverCall

LEMMA InterruptNextStep ==
    ASSUME InterruptInv, InterruptNext
    PROVE  InterruptInv'
<1>1. ASSUME NEW p \in Raisers, raiseInterruptSource(p)
      PROVE  InterruptInv'
  <2>1. PICK source \in DriverSources, bits \in SUBSET Filters : BeginRaise(p, source, bits)
    BY <1>1 DEF raiseInterruptSource
  <2>2. source \in Sources /\ p \in Contexts
    BY ContextsAssumption DEF Sources
  <2>3. pc[p] \notin CriticalLabels /\ pc[p] \notin RaiseLabels
    BY <1>1 DEF raiseInterruptSource, CriticalLabels, RaiseLabels
  <2>4. UNCHANGED <<vector, record, controller, running, isr, op>>
    BY <1>1 DEF raiseInterruptSource, tables, cpu
  <2> QED BY <2>1, <2>2, <2>3, <2>4, BeginRaiseStep
<1>2. ASSUME DriverHandler
      PROVE  InterruptInv'
  BY <1>2, HandlerStep DEF DriverHandler, tables
<1> QED
  BY <1>1, <1>2, DriverCallStep, PublishStep, UpdateVectorEnablementStep, RetireStep,
     UnregisterStep, RaiseStepKeeps, PreemptStep, InterruptStep, ServeRecordStep
     DEF InterruptNext

LEMMA InterruptInitHolds ==
    ASSUME InterruptInit
    PROVE  InterruptInv
<1>1. /\ \A v \in Vectors : vector[v] = FreeVector(0)
      /\ \A r \in Records : record[r] = FreeRecord(0)
      /\ \A s \in Slots : controller[s] = [generation |-> 0, live |-> FALSE, enabled |-> FALSE,
                                           pending |-> FALSE, vector |-> 0]
      /\ running = FirstTask /\ isr = NoDispatch
      /\ \A p \in Contexts : pc[p] = "idle" /\ op[p] = NoOp /\ raise[p] = NoRaise
  BY DEF InterruptInit
<1>2. running \in Contexts
  BY <1>1, ContextsAssumption DEF Contexts
<1>3. /\ \A v \in Vectors : ~vector[v].published
      /\ \A r \in Records : ~record[r].state.published /\ record[r].handler = "none"
      /\ \A s \in Slots : ~controller[s].live
  BY <1>1 DEF FreeVector, FreeRecord, NoState
<1>4. \A l \in TableLabels : \A v : ~Working(l, v)
  BY <1>1, <1>2 DEF Working, TableLabels
<1>5. InterruptTypes
  <2>1. 0 \in 0..MaxVectorEpoch /\ 0 \in 0..MaxRecordEpoch
    BY CapacityAssumption
  <2>2. /\ FreeVector(0) \in VectorStates /\ FreeRecord(0) \in RecordStates
        /\ NoDispatch \in DispatchStates /\ NoOp \in OpStates /\ NoRaise \in RaiseStates
    BY <2>1, ConstantTypes
  <2>3. [generation |-> 0, live |-> FALSE, enabled |-> FALSE, pending |-> FALSE, vector |-> 0]
          \in SlotStates
    BY DEF SlotStates
  <2>4. "idle" \in Labels /\ FirstTask \in Tasks
    BY ContextsAssumption DEF Labels
  <2> QED BY <2>2, <2>3, <2>4 DEF InterruptInit, InterruptTypes
<1>6. Exclusive /\ OpShape /\ PublishShape /\ EnablementShape /\ RetireShape /\ UnregisterShape
  BY <1>1, <1>2 DEF Exclusive, OpShape, PublishShape, EnablementShape, RetireShape,
                    UnregisterShape, Masked, CriticalLabels, Continuations, NoOp
<1>7. RecordsNameVectors /\ VectorsNameSlots /\ SlotsNameVectors /\ OneVectorPerSource
  BY <1>3, <1>4 DEF RecordsNameVectors, VectorsNameSlots, SlotsNameVectors, OneVectorPerSource,
                    InUse, TableLabels
<1>8. DispatchShape
  BY <1>1 DEF DispatchShape, NoDispatch
<1>9. RaiseShape /\ HandleIsVectors /\ HandleIsKnown
  BY <1>1 DEF RaiseShape, HandleIsVectors, HandleIsKnown, NoRaise, RaiseLabels
<1>10. EnablementKnown /\ MatchedIsServed
  BY <1>3 DEF EnablementKnown, MatchedIsServed
<1> QED BY <1>5, <1>6, <1>7, <1>8, <1>9, <1>10 DEF InterruptInv, TablesAgree

\* What the run checks of the tables follows from the invariant.
LEMMA InterruptConsequences ==
    ASSUME InterruptInv
    PROVE  MatchedIsServed /\ EnablementAgrees /\ AssertsOwnVector
<1>1. MatchedIsServed
  BY DEF InterruptInv
<1>2. EnablementAgrees
  <2> SUFFICES ASSUME \A t \in Tasks : ~Masked(t), NEW v \in Vectors, vector[v].published
               PROVE  controller[vector[v].slot].enabled <=> AnyEnabledRecord(v, vector[v].epoch)
    BY DEF EnablementAgrees
  <2>1. ~Masked(running)
    BY DEF InterruptInv, InterruptTypes
  <2>2. ~Working("enablement", v) /\ ~Working("retire", v)
    BY <2>1 DEF Working, Masked, CriticalLabels
  <2> QED BY <2>2 DEF InterruptInv, EnablementKnown
<1>3. AssertsOwnVector
  BY DEF InterruptInv, HandleIsKnown, AssertsOwnVector
<1> QED BY <1>1, <1>2, <1>3
=============================================================================
