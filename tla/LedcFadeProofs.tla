--------------------------- MODULE LedcFadeProofs ---------------------------
(* Proofs about LedcFade, for every set of threads, channels and requests. *)
EXTENDS LedcFade, SequenceTheorems, TLAPS

-----------------------------------------------------------------------------
(* Arithmetic of Materialize *)

\* The interpolated step is a natural number no larger than the whole way.
LEMMA StepBounded ==
    ASSUME NEW delta \in Nat, NEW elapsed \in Nat, NEW duration \in Nat,
           duration > 0, elapsed <= duration
    PROVE  (delta * elapsed) \div duration \in 0..delta
<1> DEFINE q == (delta * elapsed) \div duration
<1>1. delta * elapsed \in Nat /\ delta * elapsed <= delta * duration
  BY Z3
<1>2. q \in Int /\ duration * q <= delta * elapsed
  BY <1>1, Z3
<1>3. q >= 0
  BY <1>1, Z3
<1>4. q <= delta
  BY <1>1, <1>2, <1>3, Z3
<1> QED BY <1>2, <1>3, <1>4

\* A duty computed for a request is a natural number.
LEMMA MaterializeType ==
    ASSUME NEW r \in RequestValues, NEW elapsed \in Int
    PROVE  Materialize(r, elapsed) \in Nat
<1>1. r.start \in Nat /\ r.target \in Nat /\ r.duration \in Nat
  BY DEF RequestValues
<1>2. CASE r.duration = 0 \/ elapsed <= 0 \/ elapsed >= r.duration
  BY <1>1, <1>2 DEF Materialize
<1>3. CASE r.duration # 0 /\ elapsed > 0 /\ elapsed < r.duration
  <2>1. elapsed \in Nat /\ elapsed <= r.duration /\ r.duration > 0
    BY <1>1, <1>3
  <2>2. CASE r.target >= r.start
    <3>1. ((r.target - r.start) * elapsed) \div r.duration \in 0..(r.target - r.start)
      BY <1>1, <2>1, <2>2, StepBounded
    <3>2. Materialize(r, elapsed) =
             r.start + ((r.target - r.start) * elapsed) \div r.duration
      BY <1>1, <1>3, <2>2 DEF Materialize, Interpolated
    <3> QED BY <1>1, <2>2, <3>1, <3>2
  <2>3. CASE ~(r.target >= r.start)
    <3>1. r.start - r.target \in Nat
      BY <1>1, <2>3
    <3>2. ((r.start - r.target) * elapsed) \div r.duration \in 0..(r.start - r.target)
      BY <1>1, <2>1, <3>1, StepBounded
    <3>3. Materialize(r, elapsed) =
             r.start - ((r.start - r.target) * elapsed) \div r.duration
      BY <1>1, <1>3, <2>3 DEF Materialize, Interpolated
    <3> QED BY <1>1, <2>3, <3>2, <3>3
  <2> QED BY <2>2, <2>3
<1> QED BY <1>1, <1>2, <1>3

\* The interpolated step grows with time.
LEMMA StepMonotone ==
    ASSUME NEW delta \in Nat, NEW elapsed \in Nat, NEW duration \in Nat, duration > 0
    PROVE  (delta * elapsed) \div duration <= (delta * (elapsed + 1)) \div duration
<1>1. PICK x \in Nat : x = delta * elapsed
  BY Z3
<1>2. PICK y \in Nat : y = delta * (elapsed + 1)
  BY Z3
<1>3. x <= y
  BY <1>1, <1>2, Z3
<1>4. PICK a \in Int : a = x \div duration
  BY Z3
<1>5. PICK b \in Int : b = y \div duration
  BY Z3
<1>6. duration * a <= x
  BY <1>4, Z3
<1>7. y < duration * b + duration
  BY <1>5, Z3
<1>8. a > b => duration * a >= duration * b + duration
  BY Z3
<1>9. duration * a \in Int /\ duration * b \in Int
  BY Z3
<1>10. a <= b
  BY <1>3, <1>6, <1>7, <1>8, <1>9
<1> QED BY <1>1, <1>2, <1>4, <1>5, <1>10

\* A duty computed for a request is between start and target, and time moves it towards
\* the target.
LEMMA MaterializeMoves ==
    ASSUME NEW r \in RequestValues, NEW elapsed \in Int
    PROVE  \/ /\ Materialize(r, elapsed) <= Materialize(r, elapsed + 1)
              /\ Materialize(r, elapsed + 1) <= r.target
              /\ Materialize(r, elapsed) <= r.target
           \/ /\ Materialize(r, elapsed) >= Materialize(r, elapsed + 1)
              /\ Materialize(r, elapsed + 1) >= r.target
              /\ Materialize(r, elapsed) >= r.target
<1>1. r.start \in Nat /\ r.target \in Nat /\ r.duration \in Nat
  BY DEF RequestValues
<1> DEFINE M(e) == Materialize(r, e)
<1>2. CASE r.duration = 0
  BY <1>1, <1>2 DEF Materialize
<1>3. CASE r.duration # 0
  <2>0. r.duration > 0
    BY <1>1, <1>3
  <2>1. CASE r.target >= r.start
    <3>1. PICK delta \in Nat : delta = r.target - r.start
      BY <1>1, <2>1
    <3>2. ASSUME NEW e \in Int
          PROVE  M(e) \in Int /\ r.start <= M(e) /\ M(e) <= r.target
      <4>1. CASE e <= 0 \/ e >= r.duration
        BY <1>1, <2>1, <4>1 DEF Materialize
      <4>2. CASE e > 0 /\ e < r.duration
        <5>1. (delta * e) \div r.duration \in 0..delta
          BY <1>1, <2>0, <4>2, StepBounded
        <5>2. M(e) = r.start + (delta * e) \div r.duration
          BY <1>1, <1>3, <2>1, <3>1, <4>2 DEF Materialize, Interpolated
        <5> QED BY <1>1, <3>1, <5>1, <5>2
      <4> QED BY <1>1, <4>1, <4>2
    <3>3. M(elapsed) <= M(elapsed + 1)
      <4>1. CASE elapsed <= 0
        BY <1>1, <1>3, <3>2, <4>1 DEF Materialize
      <4>2. CASE elapsed + 1 >= r.duration
        <5>1. M(elapsed + 1) = r.target \/ elapsed <= 0
          BY <1>1, <1>3, <4>2 DEF Materialize
        <5> QED BY <3>2, <4>1, <5>1
      <4>3. CASE elapsed > 0 /\ elapsed + 1 < r.duration
        <5>1. PICK a \in 0..delta : a = (delta * elapsed) \div r.duration
          BY <1>1, <2>0, <4>3, StepBounded
        <5>2. PICK b \in 0..delta : b = (delta * (elapsed + 1)) \div r.duration
          BY <1>1, <2>0, <4>3, StepBounded
        <5>3. M(elapsed) = r.start + a /\ M(elapsed + 1) = r.start + b
          BY <1>1, <1>3, <2>1, <3>1, <4>3, <5>1, <5>2 DEF Materialize, Interpolated
        <5>4. a <= b
          BY <1>1, <2>0, <4>3, <5>1, <5>2, StepMonotone
        <5> QED BY <1>1, <5>3, <5>4
      <4> QED BY <1>1, <4>1, <4>2, <4>3
    <3>4. M(elapsed + 1) <= r.target /\ M(elapsed) <= r.target
      BY <3>2
    <3> QED BY <3>3, <3>4
  <2>2. CASE ~(r.target >= r.start)
    <3>1. PICK delta \in Nat : delta = r.start - r.target
      BY <1>1, <2>2
    <3>2. ASSUME NEW e \in Int
          PROVE  M(e) \in Int /\ r.target <= M(e) /\ M(e) <= r.start
      <4>1. CASE e <= 0 \/ e >= r.duration
        BY <1>1, <2>2, <4>1 DEF Materialize
      <4>2. CASE e > 0 /\ e < r.duration
        <5>1. (delta * e) \div r.duration \in 0..delta
          BY <1>1, <2>0, <4>2, StepBounded
        <5>2. M(e) = r.start - (delta * e) \div r.duration
          BY <1>1, <1>3, <2>2, <3>1, <4>2 DEF Materialize, Interpolated
        <5> QED BY <1>1, <3>1, <5>1, <5>2
      <4> QED BY <1>1, <4>1, <4>2
    <3>3. M(elapsed) >= M(elapsed + 1)
      <4>1. CASE elapsed <= 0
        BY <1>1, <1>3, <3>2, <4>1 DEF Materialize
      <4>2. CASE elapsed + 1 >= r.duration
        <5>1. M(elapsed + 1) = r.target \/ elapsed <= 0
          BY <1>1, <1>3, <4>2 DEF Materialize
        <5> QED BY <3>2, <4>1, <5>1
      <4>3. CASE elapsed > 0 /\ elapsed + 1 < r.duration
        <5>1. PICK a \in 0..delta : a = (delta * elapsed) \div r.duration
          BY <1>1, <2>0, <4>3, StepBounded
        <5>2. PICK b \in 0..delta : b = (delta * (elapsed + 1)) \div r.duration
          BY <1>1, <2>0, <4>3, StepBounded
        <5>3. M(elapsed) = r.start - a /\ M(elapsed + 1) = r.start - b
          BY <1>1, <1>3, <2>2, <3>1, <4>3, <5>1, <5>2 DEF Materialize, Interpolated
        <5>4. a <= b
          BY <1>1, <2>0, <4>3, <5>1, <5>2, StepMonotone
        <5> QED BY <1>1, <5>3, <5>4
      <4> QED BY <1>1, <4>1, <4>2, <4>3
    <3>4. M(elapsed + 1) >= r.target /\ M(elapsed) >= r.target
      BY <3>2
    <3> QED BY <3>3, <3>4
  <2> QED BY <2>1, <2>2
<1> QED BY <1>2, <1>3

-----------------------------------------------------------------------------
(* Types *)

USE DEF mailbox, time, engineVars

ChannelValues ==
    [state : States, request : RequestValues, generation : Nat, duty : Nat, fadeStart : Nat,
     alarm : Nat]
CallValues ==
    [channel : Channels, request : RequestValues, at : Nat, generation : Nat, alarm : Nat,
     drain : BOOLEAN]

\* Appending items keeps the queue a sequence of items.
LEMMA EnqueueType ==
    ASSUME NEW items \in Seq(Items), TypeOK, Enqueue(items)
    PROVE  delivery' \in Seq(Items) /\ draining' = TRUE
BY DEF TypeOK, Enqueue

\* Sequences of one and of two elements.
LEMMA ShortSequences ==
    ASSUME NEW S, NEW a \in S, NEW b \in S
    PROVE  <<a>> \in Seq(S) /\ <<a, b>> \in Seq(S)
OBVIOUS

\* An item, a signal and an empty call have their types.
LEMMA ItemType ==
    ASSUME NEW s \in Signals, NEW f \in BOOLEAN, NEW c \in Channels, NEW g \in Nat
    PROVE  Item(s, f, c, g) \in Items
BY DEF Item, Items

\* Every signal the engine drives is a signal.
LEMMA SignalTypes ==
    /\ ConstantZero \in Signals
    /\ \A d \in Nat : Steady(d) \in Signals
    /\ \A r \in RequestValues : Envelope(r) \in Signals
BY DEF ConstantZero, Steady, Envelope, Signals, RequestValues

\* The locals of a thread that makes no call.
LEMMA NoCallType ==
    ASSUME NEW c \in Channels
    PROVE  NoCall(c) \in CallValues
BY DEF NoCall, NoRequest, CallValues, RequestValues

LEMMA ForgetType ==
    ASSUME call \in [Threads -> CallValues], NEW p \in Threads, Forget(p)
    PROVE  call' \in [Threads -> CallValues]
<1>1. call[p].channel \in Channels
  BY DEF CallValues
<1>2. NoCall(call[p].channel) \in CallValues
  BY <1>1, NoCallType
<1> QED BY <1>2 DEF Forget

\* The locals of Cancel.
LEMMA CancelCallType ==
    ASSUME NEW c \in Channels, NEW g \in Nat, NEW a \in Nat, NEW b \in BOOLEAN
    PROVE  [NoCall(c) EXCEPT !.generation = g, !.alarm = a, !.drain = b] \in CallValues
BY DEF NoCall, NoRequest, CallValues, RequestValues

\* The initial state has the types.
LEMMA InitTypes == Init => TypeOK
<1> SUFFICES ASSUME Init PROVE TypeOK
  OBVIOUS
<1> DEFINE c0 == CHOOSE c \in Channels : TRUE
<1>1. c0 \in Channels
  BY RequestsAssumption
<1>2. NewChannel \in ChannelValues
  BY DEF NewChannel, NoRequest, ChannelValues, RequestValues, States
<1>3. Item(ConstantZero, FALSE, c0, 0) \in Items /\ NoCall(c0) \in CallValues
  BY <1>1, ItemType, SignalTypes, NoCallType
<1> HIDE DEF c0
<1>4. call \in [Threads -> CallValues] /\ hand \in [Threads -> Items]
  BY <1>3 DEF Init, c0
<1>5. channel \in [Channels -> ChannelValues]
  BY <1>2 DEF Init
<1>6. gpio \in [Channels -> Signals]
  BY SignalTypes DEF Init
<1>7. delivery \in Seq(Items) /\ pc \in [Threads -> Labels]
  BY DEF Init, Labels
<1> QED BY <1>4, <1>5, <1>6, <1>7 DEF Init, TypeOK, ChannelValues, CallValues

\* Every step keeps the types.
LEMMA NextTypes ==
    ASSUME TypeOK, Next
    PROVE  TypeOK'
<1>t. /\ channel \in [Channels -> ChannelValues] /\ call \in [Threads -> CallValues]
      /\ pc \in [Threads -> Labels] /\ hand \in [Threads -> Items]
  BY DEF TypeOK, ChannelValues, CallValues
<1>1. ASSUME NEW p \in Threads, NEW c \in Channels, NEW r \in Requests, CallStart(p, c, r)
      PROVE  TypeOK'
  <2>1. r \in RequestValues /\ now \in Nat
    BY RequestsAssumption DEF RequestValues, TypeOK
  <2>2. [NoCall(c) EXCEPT !.request = r, !.at = now] \in CallValues
    BY <2>1 DEF CallValues, NoCall, NoRequest, RequestValues
  <2>3. call' \in [Threads -> CallValues] /\ pc' \in [Threads -> Labels]
    BY <1>1, <1>t, <2>2 DEF CallStart, Goto, Labels
  <2> QED BY <1>1, <2>3 DEF CallStart, TypeOK, CallValues
<1>2. ASSUME NEW p \in Threads, Start(p)
      PROVE  TypeOK'
  <2> DEFINE c == call[p].channel
             r == call[p].request
             g == channel[c].generation + 1
             envelope == Item(Envelope(r), FALSE, c, g)
             finalizer == Item(Steady(r.target), TRUE, c, g)
             items == IF Immediate(r) THEN <<envelope, finalizer>> ELSE <<envelope>>
  <2>1. c \in Channels /\ r \in RequestValues /\ call[p].at \in Nat
    BY <1>t DEF CallValues
  <2>2. channel[c] \in ChannelValues /\ g \in Nat /\ r.target \in Nat /\ r.start \in Nat
    BY <1>t, <2>1 DEF ChannelValues, RequestValues
  <2>3. CASE AcceptsStart(c) /\ channel[c].generation < MaxGeneration
    <3>1. envelope \in Items /\ finalizer \in Items
      BY <2>1, <2>2, ItemType, SignalTypes
    <3>2. items \in Seq(Items)
      BY <3>1, ShortSequences
    <3>3. Started(p, c, r) \in ChannelValues
      BY <2>1, <2>2 DEF Started, ChannelValues, States
    <3>4. Enqueue(items)
      BY <1>2, <2>3 DEF Start
    <3>5. delivery' \in Seq(Items) /\ draining' = TRUE
      BY <3>2, <3>4, EnqueueType
    <3>6. channel' \in [Channels -> ChannelValues]
      BY <1>2, <1>t, <2>3, <3>3 DEF Start
    <3>7. BecomesOwner \in BOOLEAN
      BY DEF BecomesOwner, TypeOK
    <3>8. call' \in [Threads -> CallValues]
      <4>1. CASE Immediate(r)
        BY <1>2, <1>t, <2>3, <4>1, ForgetType DEF Start
      <4>2. CASE ~Immediate(r)
        BY <1>2, <1>t, <2>2, <2>3, <3>7, <4>2 DEF Start, CallValues
      <4> QED BY <4>1, <4>2
    <3>9. pc' \in [Threads -> Labels]
      BY <1>2, <1>t, <2>3 DEF Start, Goto, Labels
    <3> QED BY <1>2, <3>5, <3>6, <3>8, <3>9
            DEF Start, TypeOK, ChannelValues, CallValues
  <2>4. CASE ~(AcceptsStart(c) /\ channel[c].generation < MaxGeneration)
    <3>1. pc' \in [Threads -> Labels] /\ UNCHANGED engineVars /\ Forget(p)
      BY <1>2, <1>t, <2>4 DEF Start, Goto, Labels
    <3>2. call' \in [Threads -> CallValues]
      BY <1>t, <3>1, ForgetType
    <3> QED BY <1>2, <3>1, <3>2 DEF Start, TypeOK, CallValues
  <2> QED BY <2>3, <2>4
<1>3. ASSUME NEW p \in Threads, ScheduleSystemTimeAlarm(p)
      PROVE  TypeOK'
  <2>1. call[p] \in CallValues
    BY <1>t
  <2>2. call[p].at + call[p].request.duration \in Nat
    BY <2>1 DEF CallValues, RequestValues
  <2>3. pc' \in [Threads -> Labels]
    BY <1>3, <1>t DEF ScheduleSystemTimeAlarm, Goto, Labels
  <2>4. alarms' \in SUBSET [channel : Channels, generation : Nat, deadline : Nat]
    <3>1. [channel |-> call[p].channel, generation |-> call[p].generation,
           deadline |-> call[p].at + call[p].request.duration]
             \in [channel : Channels, generation : Nat, deadline : Nat]
      BY <2>1, <2>2 DEF CallValues
    <3> QED BY <1>3, <3>1 DEF ScheduleSystemTimeAlarm, TypeOK
  <2> QED BY <1>3, <2>3, <2>4 DEF ScheduleSystemTimeAlarm, TypeOK
<1>4. ASSUME NEW p \in Threads, StoreAlarm(p)
      PROVE  TypeOK'
  <2>1. call[p] \in CallValues
    BY <1>t
  <2>2. channel' \in [Channels -> ChannelValues]
    BY <1>4, <1>t, <2>1 DEF StoreAlarm, CallValues, ChannelValues
  <2>3. pc' \in [Threads -> Labels]
    BY <1>4, <1>t DEF StoreAlarm, Leave, Goto, Labels
  <2>4. call' \in [Threads -> CallValues]
    BY <1>4, <1>t, ForgetType DEF StoreAlarm
  <2> QED BY <1>4, <2>2, <2>3, <2>4 DEF StoreAlarm, TypeOK, ChannelValues, CallValues
<1>5. ASSUME NEW p \in Threads, NEW c \in Channels, Cancel(p, c)
      PROVE  TypeOK'
  <2> DEFINE duty == Materialize(channel[c].request, now - channel[c].fadeStart)
             g == channel[c].generation
             new == [NoCall(c) EXCEPT !.generation = g + 1, !.alarm = channel[c].alarm,
                                      !.drain = BecomesOwner]
  <2>1. channel[c] \in ChannelValues /\ g \in Nat /\ now \in Nat
    BY <1>t DEF ChannelValues, TypeOK
  <2>2. duty \in Nat
    BY <2>1, MaterializeType DEF ChannelValues
  <2>3. Item(Steady(duty), FALSE, c, g + 1) \in Items
    <3>1. Steady(duty) \in Signals /\ g + 1 \in Nat
      BY <2>1, <2>2, SignalTypes
    <3> QED BY <3>1, ItemType
  <2>4. delivery' \in Seq(Items) /\ draining' = TRUE
    <3>1. <<Item(Steady(duty), FALSE, c, g + 1)>> \in Seq(Items)
      BY <2>3, ShortSequences
    <3> QED BY <1>5, <3>1, EnqueueType DEF Cancel
  <2> HIDE DEF duty
  <2>5. channel' \in [Channels -> ChannelValues]
    BY <1>5, <1>t, <2>1, <2>2 DEF Cancel, duty, ChannelValues, States
  <2>6. new \in CallValues
    <3>1. BecomesOwner \in BOOLEAN
      BY DEF BecomesOwner, TypeOK
    <3>2. channel[c].alarm \in Nat /\ g + 1 \in Nat
      BY <2>1 DEF ChannelValues
    <3> QED BY <3>1, <3>2, CancelCallType
  <2>7. call' \in [Threads -> CallValues] /\ pc' \in [Threads -> Labels]
    BY <1>5, <1>t, <2>6 DEF Cancel, Goto, Labels
  <2>8. ended' \in SUBSET (Channels \X Nat)
    <3>1. <<c, g>> \in Channels \X Nat
      BY <2>1
    <3> QED BY <1>5, <3>1 DEF Cancel, TypeOK
  <2> QED BY <1>5, <2>4, <2>5, <2>7, <2>8 DEF Cancel, TypeOK, ChannelValues, CallValues
<1>6. ASSUME NEW p \in Threads, CancelSystemTimeAlarm(p)
      PROVE  TypeOK'
  <2>1. pc' \in [Threads -> Labels]
    BY <1>6, <1>t DEF CancelSystemTimeAlarm, Leave, Goto, Labels
  <2>2. alarms' \in SUBSET [channel : Channels, generation : Nat, deadline : Nat]
    BY <1>6 DEF CancelSystemTimeAlarm, Unregistered, TypeOK
  <2>3. call' \in [Threads -> CallValues]
    BY <1>6, <1>t, ForgetType DEF CancelSystemTimeAlarm
  <2> QED BY <1>6, <2>1, <2>2, <2>3 DEF CancelSystemTimeAlarm, TypeOK, CallValues
<1>7. ASSUME NEW p \in Threads, ClaimAlarm(p)
      PROVE  TypeOK'
  <2>1. PICK a \in alarms :
           /\ alarms' = alarms \ {a}
           /\ call' = [call EXCEPT ![p] = [NoCall(a.channel) EXCEPT
                                              !.generation = a.generation]]
    BY <1>7 DEF ClaimAlarm
  <2>2. a.channel \in Channels /\ a.generation \in Nat
    BY DEF TypeOK
  <2>3. [NoCall(a.channel) EXCEPT !.generation = a.generation] \in CallValues
    BY <2>2, NoCallType DEF CallValues
  <2>4. call' \in [Threads -> CallValues] /\ pc' \in [Threads -> Labels]
    BY <1>7, <1>t, <2>1, <2>3 DEF ClaimAlarm, Goto, Labels
  <2> QED BY <1>7, <2>1, <2>4 DEF ClaimAlarm, TypeOK, CallValues
<1>8. ASSUME NEW p \in Threads, deadline(p)
      PROVE  TypeOK'
  <2> DEFINE c == call[p].channel
             g == call[p].generation
  <2>1. c \in Channels /\ g \in Nat /\ channel[c] \in ChannelValues
    BY <1>t DEF CallValues
  <2>2. pc' \in [Threads -> Labels] /\ alarmOwner' \in Threads \cup {NoThread}
    BY <1>8, <1>t DEF deadline, Returns, Goto, Labels
  <2>5. call' \in [Threads -> CallValues]
    BY <1>8, <1>t, ForgetType DEF deadline
  <2>3. CASE DeadlineIsCurrent(c, g)
    <3>1. channel[c].request.target \in Nat
      BY <2>1 DEF ChannelValues, RequestValues
    <3>2. DeadlineItems(c, g) \in Seq(Items)
      <4>1. Steady(channel[c].request.target) \in Signals
        BY <3>1, SignalTypes
      <4>2. /\ Item(Steady(channel[c].request.target), FALSE, c, g) \in Items
            /\ Item(Steady(channel[c].request.target), TRUE, c, g) \in Items
        BY <2>1, <4>1, ItemType
      <4> QED BY <4>2, ShortSequences DEF DeadlineItems
    <3>3. delivery' \in Seq(Items) /\ draining' = TRUE
      BY <1>8, <2>3, <3>2, EnqueueType DEF deadline
    <3>4. channel' \in [Channels -> ChannelValues]
      BY <1>8, <1>t, <2>1, <2>3, <3>1 DEF deadline, ChannelValues, States
    <3> QED BY <1>8, <2>2, <2>5, <3>3, <3>4 DEF deadline, TypeOK, ChannelValues, CallValues
  <2>4. CASE ~DeadlineIsCurrent(c, g)
    BY <1>8, <2>2, <2>4, <2>5 DEF deadline, TypeOK, CallValues
  <2> QED BY <2>3, <2>4
<1>9. ASSUME NEW p \in Threads, Pop(p)
      PROVE  TypeOK'
  <2>1. pc' \in [Threads -> Labels]
    BY <1>9, <1>t DEF Pop, Goto, Labels
  <2>2. delivery' \in Seq(Items) /\ hand' \in [Threads -> Items]
    <3>1. CASE ~draining \/ delivery = <<>>
      BY <1>9, <3>1 DEF Pop, TypeOK
    <3>2. CASE ~(~draining \/ delivery = <<>>)
      <4>1. Head(delivery) \in Items /\ Tail(delivery) \in Seq(Items)
        BY <3>2 DEF TypeOK
      <4> QED BY <1>9, <1>t, <3>2, <4>1 DEF Pop
    <3> QED BY <3>1, <3>2
  <2> QED BY <1>9, <2>1, <2>2 DEF Pop, TypeOK
<1>10. ASSUME NEW p \in Threads, WriteGpio(p)
       PROVE  TypeOK'
  <2>1. hand[p] \in Items /\ pc' \in [Threads -> Labels]
    BY <1>10, <1>t DEF WriteGpio, Goto, Labels
  <2>2. gpio' \in [Channels -> Signals]
    BY <1>10, <2>1 DEF WriteGpio, Items, TypeOK
  <2> QED BY <1>10, <2>1, <2>2 DEF WriteGpio, TypeOK
<1>11. ASSUME NEW p \in Threads, Finalize(p)
       PROVE  TypeOK'
  <2>1. hand[p].channel \in Channels /\ hand[p].generation \in Nat
        /\ pc' \in [Threads -> Labels]
    BY <1>11, <1>t DEF Finalize, Goto, Labels, Items
  <2>2. channel' \in [Channels -> ChannelValues]
    BY <1>11, <1>t, <2>1 DEF Finalize, ChannelValues, States
  <2> QED BY <1>11, <2>1, <2>2 DEF Finalize, TypeOK, ChannelValues
<1>12. ASSUME NEW p \in Threads, Notify(p)
       PROVE  TypeOK'
  BY <1>12 DEF Notify, Goto, Labels, TypeOK
<1>13. ASSUME NEW p \in Threads, Release(p)
       PROVE  TypeOK'
  BY <1>13 DEF Release, Goto, Labels, TypeOK
<1>14. ASSUME NEW installed \in BOOLEAN, SetCompletionNotifier(installed)
       PROVE  TypeOK'
  BY <1>14 DEF SetCompletionNotifier, TypeOK
<1>15. ASSUME LedcInterrupt \/ Tick
       PROVE  TypeOK'
  <2>1. CASE LedcInterrupt
    BY <2>1 DEF LedcInterrupt, TypeOK
  <2>2. CASE Tick
    BY <2>2 DEF Tick, TypeOK
  <2> QED BY <1>15, <2>1, <2>2
<1>16. ASSUME NEW c \in Channels, TakeCompletion(c)
       PROVE  TypeOK'
  <2>1. channel' \in [Channels -> ChannelValues]
    BY <1>16, <1>t DEF TakeCompletion, ChannelValues, States
  <2>2. ended' \in SUBSET (Channels \X Nat)
    <3>1. <<c, channel[c].generation>> \in Channels \X Nat
      BY <1>t DEF ChannelValues
    <3>2. ended' = ended \/ ended' = ended \cup {<<c, channel[c].generation>>}
      BY <1>16 DEF TakeCompletion
    <3>3. ended \in SUBSET (Channels \X Nat)
      BY DEF TypeOK
    <3> QED BY <3>1, <3>2, <3>3
  <2> QED BY <1>16, <2>1, <2>2 DEF TakeCompletion, TypeOK, ChannelValues
<1>17. ASSUME NEW p \in Threads, OtherEngineDrains(p) \/ OtherEngineReleases(p)
       PROVE  TypeOK'
  BY <1>17 DEF OtherEngineDrains, OtherEngineReleases, Goto, Labels, TypeOK
<1> QED
  BY <1>1, <1>2, <1>3, <1>4, <1>5, <1>6, <1>7, <1>8, <1>9, <1>10, <1>11, <1>12, <1>13,
     <1>14, <1>15, <1>16, <1>17, SMTT(30) DEF Next, Proceed, DrainSteps

-----------------------------------------------------------------------------
(* One thread delivers *)

\* No step gives the queue a second owner, or clears draining under the one it has.
LEMMA OwnerStep ==
    ASSUME TypeOK, SingleDeliverer, Next
    PROVE  SingleDeliverer'
<1>t. pc \in [Threads -> Labels] /\ call \in [Threads -> CallValues] /\ draining \in BOOLEAN
  BY DEF TypeOK, CallValues
<1>1. ASSUME NEW p \in Threads, NEW c \in Channels, NEW r \in Requests, CallStart(p, c, r)
      PROVE  SingleDeliverer'
  BY <1>1, <1>t DEF CallStart, Goto, SingleDeliverer, Owns, Drains
<1>2. ASSUME NEW p \in Threads, Start(p)
      PROVE  SingleDeliverer'
  <2>1. ~Owns(p) /\ \A q \in Threads \ {p} : Owns(q)' <=> Owns(q)
    BY <1>2, <1>t DEF Start, Goto, Forget, Owns, Drains
  <2>2. CASE draining' = draining /\ pc'[p] = "idle"
    BY <1>t, <2>1, <2>2 DEF SingleDeliverer, Owns, Drains
  <2>3. CASE draining' = TRUE /\ (Owns(p)' <=> ~draining)
    BY <1>t, <2>1, <2>3 DEF SingleDeliverer
  <2>4. CASE AcceptsStart(call[p].channel)
             /\ channel[call[p].channel].generation < MaxGeneration
    <3>1. draining' = TRUE
          /\ (~Immediate(call[p].request) => call'[p].drain = ~draining)
          /\ pc'[p] = IF ~Immediate(call[p].request) THEN "schedule"
                      ELSE IF ~draining THEN "drain" ELSE "idle"
      BY <1>2, <1>t, <2>4 DEF Start, Enqueue, BecomesOwner, Goto, CallValues
    <3>2. Owns(p)' <=> ~draining
      BY <1>t, <3>1 DEF Owns, Drains
    <3> QED BY <2>3, <3>1, <3>2
  <2>5. CASE ~(AcceptsStart(call[p].channel)
               /\ channel[call[p].channel].generation < MaxGeneration)
    BY <1>2, <1>t, <2>2, <2>5 DEF Start, Goto
  <2> QED BY <2>4, <2>5
<1>3. ASSUME NEW p \in Threads, ScheduleSystemTimeAlarm(p)
      PROVE  SingleDeliverer'
  BY <1>3, <1>t DEF ScheduleSystemTimeAlarm, Goto, SingleDeliverer, Owns, Drains
<1>4. ASSUME NEW p \in Threads, StoreAlarm(p)
      PROVE  SingleDeliverer'
  BY <1>4, <1>t DEF StoreAlarm, Leave, Goto, Forget, SingleDeliverer, Owns, Drains
<1>5. ASSUME NEW p \in Threads, NEW c \in Channels, Cancel(p, c)
      PROVE  SingleDeliverer'
  <2>1. ~Owns(p) /\ \A q \in Threads \ {p} : Owns(q)' <=> Owns(q)
    BY <1>5, <1>t DEF Cancel, Goto, Owns, Drains
  <2>2. draining' = TRUE /\ pc'[p] = "unregister" /\ call'[p].drain = ~draining
    BY <1>5, <1>t DEF Cancel, Enqueue, Goto, BecomesOwner, NoCall
  <2> QED BY <1>t, <2>1, <2>2 DEF SingleDeliverer, Owns, Drains
<1>6. ASSUME NEW p \in Threads, CancelSystemTimeAlarm(p)
      PROVE  SingleDeliverer'
  BY <1>6, <1>t DEF CancelSystemTimeAlarm, Leave, Goto, Forget, SingleDeliverer, Owns,
     Drains
<1>7. ASSUME NEW p \in Threads, ClaimAlarm(p)
      PROVE  SingleDeliverer'
  <2>1. \A q \in Threads : Owns(q)' <=> Owns(q)
    BY <1>7, <1>t DEF ClaimAlarm, Goto, Owns, Drains
  <2> QED BY <1>7, <2>1 DEF ClaimAlarm, SingleDeliverer
<1>8. ASSUME NEW p \in Threads, deadline(p)
      PROVE  SingleDeliverer'
  <2>1. \A q \in Threads \ {p} : Owns(q)' <=> Owns(q)
    <3>1. /\ \E label \in Labels : pc' = [pc EXCEPT ![p] = label]
          /\ call' = [call EXCEPT ![p] = NoCall(@.channel)]
      BY <1>8, <1>t DEF deadline, Returns, Goto, Forget, Labels
    <3> QED BY <1>t, <3>1 DEF Owns, Drains
  <2>2. CASE pc[p] = "nested"
    <3>1. Owns(p) /\ draining /\ draining' /\ pc'[p] = "write"
      BY <1>8, <1>t, <2>2 DEF deadline, Returns, Enqueue, Goto, BecomesOwner, DeliveryActive,
         SingleDeliverer, Owns, Drains
    <3> QED BY <1>t, <2>1, <3>1 DEF SingleDeliverer, Owns, Drains
  <2>3. CASE pc[p] \in {"callback", "foreign"}
    <3>1. ~Owns(p)
      BY <2>3 DEF Owns, Drains
    <3>2. \/ draining' = draining /\ pc'[p] \in {"idle", "elsewhere"}
          \/ draining' = TRUE /\ \/ pc'[p] = "drain" /\ ~draining
                                 \/ pc'[p] \in {"idle", "elsewhere"}
      BY <1>8, <1>t, <2>3
         DEF deadline, Returns, Enqueue, Goto, BecomesOwner, DeliveryActive, Drains, DrainsOther
    <3> QED BY <1>t, <2>1, <3>1, <3>2 DEF SingleDeliverer, Owns, Drains
  <2> QED BY <1>8, <2>2, <2>3 DEF deadline
<1>9. ASSUME NEW p \in Threads, Pop(p) \/ WriteGpio(p) \/ Finalize(p) \/ Notify(p)
      PROVE  SingleDeliverer'
  <2>1. \A q \in Threads : Owns(q)' <=> Owns(q)
    BY <1>9, <1>t DEF Pop, WriteGpio, Finalize, Notify, Goto, Owns, Drains
  <2> QED BY <1>9, <2>1 DEF Pop, WriteGpio, Finalize, Notify, SingleDeliverer
<1>10. ASSUME NEW p \in Threads, Release(p)
       PROVE  SingleDeliverer'
  <2>1. Owns(p) /\ ~Owns(p)' /\ draining' = FALSE
    BY <1>10, <1>t DEF Release, Goto, Owns, Drains
  <2>2. ASSUME NEW q \in Threads \ {p} PROVE ~Owns(q)'
    <3>1. ~Owns(q)
      BY <2>1 DEF SingleDeliverer
    <3> QED BY <1>10, <1>t, <3>1 DEF Release, Goto, Owns, Drains
  <2>3. \A q \in Threads : ~Owns(q)'
    BY <2>1, <2>2
  <2> QED BY <2>1, <2>3 DEF SingleDeliverer, Owns, Drains
<1>11. ASSUME \/ Tick \/ LedcInterrupt
              \/ \E installed \in BOOLEAN : SetCompletionNotifier(installed)
              \/ \E c \in Channels : TakeCompletion(c)
       PROVE  SingleDeliverer'
  <2>1. UNCHANGED <<pc, call, draining>>
    BY <1>11 DEF Tick, LedcInterrupt, SetCompletionNotifier, TakeCompletion
  <2> QED BY <2>1 DEF SingleDeliverer, Owns, Drains
<1>12. ASSUME NEW p \in Threads, OtherEngineDrains(p) \/ OtherEngineReleases(p)
       PROVE  SingleDeliverer'
  <2>1. \A q \in Threads : Owns(q)' <=> Owns(q)
    BY <1>12, <1>t DEF OtherEngineDrains, OtherEngineReleases, Goto, Owns, Drains
  <2> QED BY <1>12, <2>1 DEF OtherEngineDrains, OtherEngineReleases, SingleDeliverer
<1> QED
  BY <1>1, <1>2, <1>3, <1>4, <1>5, <1>6, <1>7, <1>8, <1>9, <1>10, <1>11, <1>12
     DEF Next, Proceed, DrainSteps

\* A generation that has ended is behind the channel, or is the one whose
\* completion was taken and that no Start has followed.
EndedShape ==
    \A e \in ended :
        \/ e[2] < channel[e[1]].generation
        \/ e[2] = channel[e[1]].generation /\ channel[e[1]].state = "idle"

\* What ended stays ended.
LEMMA EndedStep ==
    ASSUME TypeOK, EndedShape, Next
    PROVE  EndedShape'
<1>t. /\ channel \in [Channels -> ChannelValues] /\ call \in [Threads -> CallValues]
      /\ hand \in [Threads -> Items] /\ ended \in SUBSET (Channels \X Nat)
  BY DEF TypeOK, ChannelValues, CallValues
<1>e. \A e \in ended : e[1] \in Channels /\ e[2] \in Nat
  BY <1>t
<1>1. ASSUME UNCHANGED ended,
             \A c \in Channels : /\ channel'[c].generation = channel[c].generation
                                 /\ channel'[c].state = channel[c].state
      PROVE  EndedShape'
  BY <1>1, <1>e DEF EndedShape
<1>2. ASSUME NEW p \in Threads, Start(p)
      PROVE  EndedShape'
  <2> DEFINE c == call[p].channel
  <2>1. c \in Channels /\ channel[c] \in ChannelValues
    BY <1>t DEF CallValues
  <2>2. CASE AcceptsStart(c) /\ channel[c].generation < MaxGeneration
    <3>1. channel' = [channel EXCEPT ![c] = Started(p, c, call[p].request)]
      BY <1>2, <2>2 DEF Start
    <3>2. Started(p, c, call[p].request).generation = channel[c].generation + 1
      BY <2>1 DEF Started, ChannelValues
    <3>3. channel'[c].generation = channel[c].generation + 1
          /\ \A d \in Channels : d # c => channel'[d] = channel[d]
      BY <1>t, <2>1, <3>1, <3>2
    <3>4. channel[c].generation \in Nat
      BY <2>1 DEF ChannelValues
    <3> QED BY <1>2, <1>e, <3>3, <3>4 DEF Start, EndedShape
  <2>3. CASE ~(AcceptsStart(c) /\ channel[c].generation < MaxGeneration)
    BY <1>1, <1>2, <2>3 DEF Start
  <2> QED BY <2>2, <2>3
<1>3. ASSUME NEW p \in Threads, StoreAlarm(p)
      PROVE  EndedShape'
  <2>1. call[p].channel \in Channels
    BY <1>t DEF CallValues
  <2>2. \A c \in Channels : /\ channel'[c].generation = channel[c].generation
                            /\ channel'[c].state = channel[c].state
    BY <1>3, <1>t, <2>1 DEF StoreAlarm, ChannelValues
  <2> QED BY <1>1, <1>3, <2>2 DEF StoreAlarm
<1>4. ASSUME NEW p \in Threads, NEW c \in Channels, Cancel(p, c)
      PROVE  EndedShape'
  <2>1. channel[c].generation \in Nat
    BY <1>t DEF ChannelValues
  <2>2. channel'[c].generation = channel[c].generation + 1
        /\ \A d \in Channels : d # c => channel'[d] = channel[d]
    BY <1>4, <1>t DEF Cancel, ChannelValues
  <2>3. ended' = ended \cup {<<c, channel[c].generation>>}
    BY <1>4 DEF Cancel
  <2> QED BY <1>e, <2>1, <2>2, <2>3 DEF EndedShape
<1>5. ASSUME NEW p \in Threads, deadline(p)
      PROVE  EndedShape'
  <2> DEFINE c == call[p].channel
  <2>1. c \in Channels
    BY <1>t DEF CallValues
  <2>2. CASE DeadlineIsCurrent(c, call[p].generation)
    <3>1. channel[c].state = "armed" /\ channel'[c].generation = channel[c].generation
          /\ \A d \in Channels : d # c => channel'[d] = channel[d]
      BY <1>5, <1>t, <2>1, <2>2 DEF deadline, DeadlineIsCurrent, ChannelValues
    <3> QED BY <1>5, <1>e, <3>1 DEF deadline, EndedShape
  <2>3. CASE ~DeadlineIsCurrent(c, call[p].generation)
    BY <1>1, <1>5, <2>3 DEF deadline
  <2> QED BY <2>2, <2>3
<1>6. ASSUME NEW p \in Threads, Finalize(p)
      PROVE  EndedShape'
  <2> DEFINE c == hand[p].channel
  <2>1. c \in Channels
    BY <1>t DEF Items
  <2>2. CASE FinalizerIsCurrent(hand[p])
    <3>1. /\ channel[c].generation = hand[p].generation
          /\ channel'[c].generation = channel[c].generation
          /\ channel[c].state = "queued"
          /\ \A d \in Channels : d # c => channel'[d] = channel[d]
          /\ ended' = ended
      BY <1>6, <1>t, <2>1, <2>2 DEF Finalize, FinalizerIsCurrent, Stale, ChannelValues
    <3> QED BY <1>e, <2>1, <3>1 DEF EndedShape
  <2>3. CASE ~FinalizerIsCurrent(hand[p])
    BY <1>1, <1>6, <2>3 DEF Finalize
  <2> QED BY <2>2, <2>3
<1>7. ASSUME NEW c \in Channels, TakeCompletion(c)
      PROVE  EndedShape'
  <2>1. CASE channel[c].state = "pending"
    <3>1. /\ channel'[c].generation = channel[c].generation
          /\ channel'[c].state = "idle"
          /\ \A d \in Channels : d # c => channel'[d] = channel[d]
          /\ ended' = ended \cup {<<c, channel[c].generation>>}
      BY <1>7, <1>t, <2>1 DEF TakeCompletion, ChannelValues
    <3> QED BY <1>e, <3>1 DEF EndedShape
  <2>2. CASE channel[c].state # "pending"
    BY <1>1, <1>7, <2>2 DEF TakeCompletion
  <2> QED BY <2>1, <2>2
<1>8. CASE UNCHANGED <<channel, ended>>
  BY <1>1, <1>8
<1> QED
  BY <1>2, <1>3, <1>4, <1>5, <1>6, <1>7, <1>8
     DEF Next, Proceed, DrainSteps, CallStart, ScheduleSystemTimeAlarm,
         CancelSystemTimeAlarm, ClaimAlarm, Pop, WriteGpio, Notify, Release,
         SetCompletionNotifier, Tick, LedcInterrupt, OtherEngineDrains, OtherEngineReleases

-----------------------------------------------------------------------------
(* What is queued and what is in hand *)

Current(item, c) == item.channel = c /\ item.generation = channel[c].generation
InHand(p) == pc[p] \in {"write", "nested", "finalize"}

\* The signal the latest Start, deadline or Cancel asked for.
Wanted(c) ==
    IF channel[c].state = "armed" THEN Envelope(channel[c].request)
    ELSE Steady(channel[c].duty)

\* A channel that was started has a generation; one whose fade is over has its target.
ChannelShape ==
    \A c \in Channels :
        /\ channel[c].state # "idle" => channel[c].generation > 0
        /\ channel[c].state \in {"queued", "pending"} =>
              channel[c].duty = channel[c].request.target

\* No item is from the future; an item of the current generation is of a fade that is
\* still to complete, and its finalizer is there only once the fade is queued.
ItemShape(item) ==
    /\ item.generation <= channel[item.channel].generation
    /\ Current(item, item.channel) =>
          /\ channel[item.channel].state \in {"armed", "queued", "cancelled"}
          /\ item.finalize => channel[item.channel].state = "queued"

QueueShape == \A i \in 1..Len(delivery) : ItemShape(delivery[i])

\* A current finalizer is the last current item of its channel, in the queue and in hand.
FinalizerIsLast ==
    \A i, j \in 1..Len(delivery) : \A c \in Channels :
        i < j /\ Current(delivery[i], c) /\ Current(delivery[j], c) => ~delivery[i].finalize

HandShape ==
    \A p \in Threads : InHand(p) =>
        /\ ItemShape(hand[p])
        /\ \A c \in Channels : Current(hand[p], c) /\ hand[p].finalize =>
              \A i \in 1..Len(delivery) : ~Current(delivery[i], c)

FinalizeIsMarked == \A p \in Threads : pc[p] = "finalize" => hand[p].finalize

\* The last write that is still to come for a channel, or else the pin, is what is wanted.
LastCurrent(i, c) ==
    /\ i \in 1..Len(delivery)
    /\ Current(delivery[i], c)
    /\ \A j \in 1..Len(delivery) : j > i => ~Current(delivery[j], c)

Settles(c) ==
    \/ \E i \in 1..Len(delivery) : LastCurrent(i, c) /\ delivery[i].signal = Wanted(c)
    \/ /\ \A i \in 1..Len(delivery) : ~Current(delivery[i], c)
       /\ \/ \E p \in Threads :
                 Writing(p, c) /\ Current(hand[p], c) /\ hand[p].signal = Wanted(c)
          \/ gpio[c] = Wanted(c) /\ \A p \in Threads : ~Writing(p, c)

SettleShape == \A c \in Channels : channel[c].generation > 0 => Settles(c)

DeliveryInv ==
    /\ ChannelShape /\ QueueShape /\ FinalizerIsLast /\ HandShape /\ FinalizeIsMarked
    /\ QueuedHasFinalizer /\ SettleShape

\* What is queued and what is in hand are items, of channels of the engine.
LEMMA ItemsAreTyped ==
    ASSUME TypeOK
    PROVE  /\ hand \in [Threads -> Items]
           /\ \A i \in 1..Len(delivery) : delivery[i] \in Items /\ delivery[i].channel \in Channels
           /\ \A p \in Threads : hand[p] \in Items /\ hand[p].channel \in Channels
           /\ Len(delivery) \in Nat
<1>1. hand \in [Threads -> Items] /\ delivery \in Seq(Items)
  BY DEF TypeOK
<1>2. \A i \in 1..Len(delivery) : delivery[i] \in Items
  BY <1>1
<1>3. \A item \in Items : item.channel \in Channels
  BY DEF Items
<1> QED BY <1>1, <1>2, <1>3

\* A step that leaves the queue, the pins and what is in hand alone, and of a channel
\* changes at most its alarm, or takes its completion, keeps the invariant.
LEMMA QuietStep ==
    ASSUME TypeOK, DeliveryInv,
           delivery' = delivery, hand' = hand, gpio' = gpio,
           \A c \in Channels :
              /\ channel'[c].request = channel[c].request
              /\ channel'[c].generation = channel[c].generation
              /\ channel'[c].duty = channel[c].duty
              /\ \/ channel'[c].state = channel[c].state
                 \/ channel[c].state = "pending" /\ channel'[c].state = "idle",
           \A p \in Threads :
              /\ pc'[p] \in {"write", "nested"} <=> pc[p] \in {"write", "nested"}
              /\ pc'[p] = "finalize" <=> pc[p] = "finalize"
    PROVE  DeliveryInv'
<1>t. /\ \A i \in 1..Len(delivery) : delivery[i] \in Items
      /\ \A p \in Threads : hand[p] \in Items
  BY ItemsAreTyped
<1>1. \A item, c : c \in Channels => (Current(item, c)' <=> Current(item, c))
  BY DEF Current
<1>2. \A p \in Threads : InHand(p)' <=> InHand(p)
  BY DEF InHand
<1>3. \A p \in Threads, c \in Channels : Writing(p, c)' <=> Writing(p, c)
  BY DEF Writing
<1>4. \A c \in Channels : Wanted(c)' = Wanted(c)
  BY DEF Wanted, Envelope
<1>5. ChannelShape'
  BY DEF DeliveryInv, ChannelShape
<1>6. ASSUME NEW item \in Items, ItemShape(item) PROVE ItemShape(item)'
  <2>1. item.channel \in Channels
    BY DEF Items
  <2> QED BY <1>6, <2>1 DEF ItemShape, Current
<1>7. QueueShape'
  BY <1>6, <1>t DEF DeliveryInv, QueueShape
<1>8. FinalizerIsLast'
  BY <1>1 DEF DeliveryInv, FinalizerIsLast
<1>9. HandShape'
  BY <1>1, <1>2, <1>6, <1>t DEF DeliveryInv, HandShape
<1>10. QueuedHasFinalizer'
  BY DEF DeliveryInv, QueuedHasFinalizer, IsFinalizer
<1>11. SettleShape'
  <2> SUFFICES ASSUME NEW c \in Channels, channel[c].generation > 0
               PROVE  Settles(c)'
    BY DEF SettleShape
  <2>1. Settles(c)
    BY DEF DeliveryInv, SettleShape
  <2>2. \A i : LastCurrent(i, c)' <=> LastCurrent(i, c)
    BY <1>1 DEF LastCurrent
  <2> QED BY <1>1, <1>3, <1>4, <2>1, <2>2 DEF Settles
<1>12. FinalizeIsMarked'
  BY DEF DeliveryInv, FinalizeIsMarked
<1> QED BY <1>5, <1>7, <1>8, <1>9, <1>10, <1>11, <1>12 DEF DeliveryInv

\* A critical section that puts items of one channel on the queue keeps the invariant: the
\* channel has a new generation, or was armed and becomes queued; the items are of the
\* channel's new generation; the last carries what the channel now wants; and there is a
\* finalizer, the second of two, exactly when the channel becomes queued.
LEMMA ProduceStep ==
    ASSUME TypeOK, DeliveryInv, NEW c \in Channels, NEW new \in ChannelValues,
           NEW items \in Seq(Items),
           channel' = [channel EXCEPT ![c] = new],
           delivery' = delivery \o items, hand' = hand, gpio' = gpio,
           \A p \in Threads :
              /\ pc'[p] \in {"write", "nested"} <=> pc[p] \in {"write", "nested"}
              /\ pc'[p] = "finalize" <=> pc[p] = "finalize",
           new.state \in {"armed", "queued", "cancelled"},
           new.generation > 0,
           new.state = "queued" => new.duty = new.request.target,
           \/ new.generation = channel[c].generation + 1
           \/ new.generation = channel[c].generation /\ channel[c].state = "armed",
           Len(items) = IF new.state = "queued" THEN 2 ELSE 1,
           \A k \in 1..Len(items) :
              /\ items[k].channel = c
              /\ items[k].generation = new.generation
              /\ items[k].finalize <=> k = 2,
           items[Len(items)].signal =
              IF new.state = "armed" THEN Envelope(new.request) ELSE Steady(new.duty)
    PROVE  DeliveryInv'
<1> DEFINE m == Len(items)
<1>n0. PICK n \in Nat : n = Len(delivery)
  BY ItemsAreTyped
<1>t. /\ hand \in [Threads -> Items] /\ n \in Nat /\ m \in {1, 2}
      /\ \A i \in 1..n : delivery[i] \in Items /\ delivery[i].channel \in Channels
      /\ \A p \in Threads : hand[p] \in Items /\ hand[p].channel \in Channels
  BY <1>n0, ItemsAreTyped
<1>i. \A k \in 1..m : /\ items[k].channel = c /\ items[k].generation = new.generation
                      /\ items[k].finalize <=> k = 2
  OBVIOUS
<1>g. channel[c].generation \in Nat /\ new.generation \in Nat
  BY DEF TypeOK, ChannelValues
<1>c. channel'[c] = new /\ \A d \in Channels : d # c => channel'[d] = channel[d]
  BY DEF TypeOK
<1>d. /\ Len(delivery') = n + m
      /\ \A i \in 1..n : delivery'[i] = delivery[i]
      /\ \A k \in 1..m : delivery'[n + k] = items[k]
  <2>1. delivery \in Seq(Items)
    BY DEF TypeOK
  <2>2. Len(delivery \o items) = n + m
    BY <1>n0, <2>1
  <2>3. \A i \in 1..n : (delivery \o items)[i] = delivery[i]
    BY <1>n0, <2>1
  <2>4. \A k \in 1..m : (delivery \o items)[n + k] = items[k]
    BY <1>n0, <2>1, <1>t
  <2> QED BY <2>2, <2>3, <2>4
<1>e. /\ \A i \in 1..n : i \in 1..Len(delivery')
      /\ \A k \in 1..m : n + k \in 1..Len(delivery') /\ n + k > n
      /\ \A i \in 1..Len(delivery') : i \in 1..n \/ \E k \in 1..m : i = n + k
  <2>1. \A i \in 1..(n + m) : i \in 1..n \/ i = n + 1 \/ (m = 2 /\ i = n + 2)
    BY <1>t
  <2>2. \A i \in 1..(n + m) : i \in 1..n \/ \E k \in 1..m : i = n + k
    BY <1>t, <2>1
  <2>3. \A i \in 1..n : i \in 1..(n + m)
    BY <1>t
  <2>4. \A k \in 1..m : n + k \in 1..(n + m) /\ n + k > n
    BY <1>t
  <2> QED BY <1>d, <2>2, <2>3, <2>4
<1> HIDE DEF m
\* the other channels
<1>o. /\ \A i \in 1..n, d \in Channels :
            d # c => (Current(delivery[i], d)' <=> Current(delivery[i], d))
      /\ \A p \in Threads, d \in Channels :
            d # c => (Current(hand[p], d)' <=> Current(hand[p], d))
  BY <1>c, <1>d DEF Current
<1>n. \A k \in 1..m, d \in Channels : Current(delivery[n + k], d)' <=> d = c
  <2> SUFFICES ASSUME NEW k \in 1..m, NEW d \in Channels
               PROVE  Current(delivery[n + k], d)' <=> d = c
    OBVIOUS
  <2>1. delivery'[n + k] = items[k]
    BY <1>d
  <2>2. items[k].channel = c /\ items[k].generation = new.generation
    BY <1>i
  <2>3. channel'[c] = new
    BY <1>c
  <2> QED BY <2>1, <2>2, <2>3 DEF Current
<1>w. \A d \in Channels : d # c => Wanted(d)' = Wanted(d)
  BY <1>c DEF Wanted
<1>w2. Wanted(c)' = items[m].signal
  BY <1>c DEF Wanted, m
<1>h. \A p \in Threads : InHand(p)' <=> InHand(p)
  BY DEF InHand
<1>r. \A p \in Threads, d \in Channels : Writing(p, d)' <=> Writing(p, d)
  BY DEF Writing
\* an old item of c is stale, or is no finalizer
<1>5. ASSUME NEW item \in Items, ItemShape(item)
      PROVE  /\ ItemShape(item)'
             /\ Current(item, c)' => ~item.finalize
  <2>1. item.channel \in Channels /\ item.generation \in Nat
    BY DEF Items
  <2>2. CASE item.channel = c
    BY <1>5, <1>c, <1>g, <2>1, <2>2 DEF ItemShape, Current
  <2>3. CASE item.channel # c
    BY <1>5, <1>c, <2>1, <2>3 DEF ItemShape, Current
  <2> QED BY <2>2, <2>3
<1>6. ChannelShape'
  BY <1>c DEF DeliveryInv, ChannelShape
<1>7. \A k \in 1..m : ItemShape(items[k])'
  BY <1>c, <1>g, <1>i, <1>t DEF ItemShape, Current, m
<1>8. \A i \in 1..n : ItemShape(delivery[i])
  BY <1>n0 DEF DeliveryInv, QueueShape
<1>9. QueueShape'
  <2> SUFFICES ASSUME NEW i \in 1..Len(delivery')
               PROVE  ItemShape(delivery[i])'
    BY DEF QueueShape
  <2>1. CASE i \in 1..n
    <3>1. PICK item \in Items :
             item = delivery[i] /\ ItemShape(item) /\ delivery'[i] = item
      BY <1>8, <1>d, <1>t, <2>1
    <3>2. ItemShape(item)'
      BY <1>5, <3>1
    <3> QED BY <3>1, <3>2 DEF ItemShape, Current
  <2>2. ASSUME NEW k \in 1..m, i = n + k
        PROVE  ItemShape(delivery[i])'
    BY <1>7, <1>d, <2>2
  <2> QED BY <1>e, <2>1, <2>2
<1>10. FinalizerIsLast'
  <2> SUFFICES ASSUME NEW i \in 1..Len(delivery'), NEW j \in 1..Len(delivery'),
                      NEW d \in Channels, i < j,
                      Current(delivery[i], d)', Current(delivery[j], d)'
               PROVE  ~delivery'[i].finalize
    BY DEF FinalizerIsLast
  <2>1. CASE i \in 1..n /\ d = c
    BY <1>5, <1>8, <1>d, <1>t, <2>1
  <2>2. CASE i \in 1..n /\ d # c
    <3>1. Current(delivery[i], d)
      BY <1>d, <1>o, <2>2
    <3>2. ~(\E k \in 1..m : j = n + k)
      BY <1>d, <1>n, <2>2
    <3>3. j \in 1..n /\ Current(delivery[j], d)
      BY <1>d, <1>e, <1>o, <2>2, <3>2
    <3> QED BY <1>n0, <1>d, <2>2, <3>1, <3>3 DEF DeliveryInv, FinalizerIsLast
  <2>3. CASE i \notin 1..n
    <3>1. PICK k \in 1..m : i = n + k
      BY <1>e, <2>3
    <3>2. j \notin 1..n
      BY <1>t, <3>1
    <3>3. PICK l \in 1..m : j = n + l
      BY <1>e, <3>2
    <3>4. k = 1
      BY <1>t, <3>1, <3>3
    <3>5. delivery'[i] = items[k] /\ (items[k].finalize <=> k = 2)
      BY <1>d, <3>1 DEF m
    <3> QED BY <3>4, <3>5
  <2> QED BY <2>1, <2>2, <2>3
<1>11. HandShape'
  <2> SUFFICES ASSUME NEW p \in Threads, InHand(p)
               PROVE  /\ ItemShape(hand[p])'
                      /\ \A d \in Channels : Current(hand[p], d)' /\ hand[p].finalize =>
                            \A i \in 1..Len(delivery') : ~Current(delivery[i], d)'
    BY <1>h DEF HandShape
  <2>1. ItemShape(hand[p])
    BY DEF DeliveryInv, HandShape
  <2>2. ItemShape(hand[p])' /\ (Current(hand[p], c)' => ~hand[p].finalize)
    BY <1>5, <1>t, <2>1
  <2>3. ASSUME NEW d \in Channels, Current(hand[p], d)', hand[p].finalize,
               NEW i \in 1..Len(delivery'), Current(delivery[i], d)'
        PROVE  FALSE
    <3>1. d # c /\ Current(hand[p], d)
      BY <1>o, <2>2, <2>3
    <3>2. i \in 1..n
      BY <1>e, <1>n, <2>3, <3>1
    <3>3. Current(delivery[i], d)
      BY <1>o, <2>3, <3>1, <3>2
    <3> QED BY <1>n0, <2>3, <3>1, <3>2, <3>3 DEF DeliveryInv, HandShape
  <2> QED BY <2>2, <2>3
<1>12. QueuedHasFinalizer'
  <2> SUFFICES ASSUME NEW d \in Channels, channel'[d].state = "queued"
               PROVE  \/ \E i \in 1..Len(delivery') : IsFinalizer(delivery[i], d)'
                      \/ \E p \in Threads : InHand(p)' /\ IsFinalizer(hand[p], d)'
    BY DEF QueuedHasFinalizer, InHand
  <2>1. CASE d = c
    <3>1. m = 2 /\ 2 \in 1..m /\ items[2].finalize
      BY <1>c, <1>t, <2>1 DEF m
    <3>2. /\ delivery'[n + 2] = items[2] /\ n + 2 \in 1..Len(delivery')
          /\ items[2].channel = c /\ items[2].generation = channel'[c].generation
      BY <1>c, <1>d, <1>e, <1>i, <3>1
    <3>3. IsFinalizer(delivery[n + 2], c)'
      BY <3>1, <3>2 DEF IsFinalizer
    <3> QED BY <2>1, <3>2, <3>3
  <2>2. CASE d # c
    <3>1. \/ \E i \in 1..n : IsFinalizer(delivery[i], d)
          \/ \E p \in Threads : InHand(p) /\ IsFinalizer(hand[p], d)
      BY <1>n0, <1>c, <2>2 DEF DeliveryInv, QueuedHasFinalizer, InHand
    <3> QED BY <1>c, <1>d, <1>e, <1>h, <2>2, <3>1 DEF IsFinalizer
  <2> QED BY <2>1, <2>2
<1>13. SettleShape'
  <2> SUFFICES ASSUME NEW d \in Channels, channel'[d].generation > 0
               PROVE  Settles(d)'
    BY DEF SettleShape
  <2>1. CASE d = c
    <3>1. m \in 1..m /\ n + m \in 1..Len(delivery')
      BY <1>d, <1>e, <1>t
    <3>2. Current(delivery[n + m], c)' /\ delivery'[n + m].signal = Wanted(c)'
      BY <1>d, <1>n, <1>w2, <3>1
    <3>3. \A j \in 1..Len(delivery') : ~(j > n + m)
      BY <1>d, <1>t
    <3>4. LastCurrent(n + m, c)'
      BY <3>1, <3>2, <3>3 DEF LastCurrent
    <3> QED BY <2>1, <3>1, <3>2, <3>4 DEF Settles
  <2>2. CASE d # c
    <3>1. Settles(d)
      BY <1>c, <2>2 DEF DeliveryInv, SettleShape
    <3>2. ASSUME NEW i \in 1..n, LastCurrent(i, d)
          PROVE  LastCurrent(i, d)'
      <4>1. Current(delivery[i], d)' /\ i \in 1..Len(delivery')
        BY <1>d, <1>e, <1>o, <2>2, <3>2 DEF LastCurrent
      <4>2. ASSUME NEW j \in 1..Len(delivery'), j > i, Current(delivery[j], d)'
            PROVE  FALSE
        <5>1. j \in 1..n /\ Current(delivery[j], d)
          BY <1>d, <1>e, <1>n, <1>o, <2>2, <4>2
        <5> QED BY <1>n0, <3>2, <4>2, <5>1 DEF LastCurrent
      <4> QED BY <4>1, <4>2 DEF LastCurrent
    <3>3. CASE \E i \in 1..n : LastCurrent(i, d) /\ delivery[i].signal = Wanted(d)
      <4>1. PICK i \in 1..n : LastCurrent(i, d) /\ delivery[i].signal = Wanted(d)
        BY <3>3
      <4>2. i \in 1..Len(delivery') /\ LastCurrent(i, d)' /\ delivery'[i].signal = Wanted(d)'
        BY <1>d, <1>e, <1>w, <2>2, <3>2, <4>1
      <4> QED BY <4>2 DEF Settles
    <3>4. CASE /\ \A i \in 1..n : ~Current(delivery[i], d)
               /\ \/ \E p \in Threads :
                        Writing(p, d) /\ Current(hand[p], d) /\ hand[p].signal = Wanted(d)
                  \/ gpio[d] = Wanted(d) /\ \A p \in Threads : ~Writing(p, d)
      <4>1. \A i \in 1..Len(delivery') : ~Current(delivery[i], d)'
        BY <1>d, <1>e, <1>n, <1>o, <2>2, <3>4
      <4>2. \/ \E p \in Threads :
                  Writing(p, d)' /\ Current(hand[p], d)' /\ hand'[p].signal = Wanted(d)'
            \/ gpio'[d] = Wanted(d)' /\ \A p \in Threads : ~Writing(p, d)'
        BY <1>o, <1>r, <1>w, <2>2, <3>4
      <4> QED BY <4>1, <4>2 DEF Settles
    <3> QED BY <1>n0, <3>1, <3>3, <3>4 DEF Settles
  <2> QED BY <2>1, <2>2
<1>14. FinalizeIsMarked'
  BY DEF DeliveryInv, FinalizeIsMarked
<1> QED BY <1>6, <1>9, <1>10, <1>11, <1>12, <1>13, <1>14 DEF DeliveryInv

\* Taking an item off the queue keeps the invariant: a current item goes into the hand of
\* the thread that drains, a stale one is dropped.
LEMMA PopStep ==
    ASSUME TypeOK, SingleDeliverer, DeliveryInv, NEW p \in Threads, Pop(p)
    PROVE  DeliveryInv'
<1>t. /\ pc \in [Threads -> Labels] /\ hand \in [Threads -> Items]
      /\ \A i \in 1..Len(delivery) : delivery[i] \in Items /\ delivery[i].channel \in Channels
      /\ delivery \in Seq(Items) /\ channel' = channel /\ gpio' = gpio
  BY ItemsAreTyped DEF TypeOK, Pop
<1>p. \A q \in Threads : ~InHand(q) /\ \A d \in Channels : ~Writing(q, d)
  <2>1. Owns(p) /\ pc[p] = "drain"
    BY DEF Pop, Owns, Drains
  <2>2. \A q \in Threads : q # p => ~Owns(q)
    BY <2>1 DEF SingleDeliverer
  <2> QED BY <2>1, <2>2 DEF Owns, Drains, InHand, Writing
<1>1. CASE ~draining \/ delivery = <<>>
  <2>1. delivery' = delivery /\ hand' = hand /\ pc' = [pc EXCEPT ![p] = "release"]
    BY <1>1 DEF Pop, Goto
  <2>2. pc[p] = "drain"
    BY DEF Pop
  <2> QED BY <1>t, <2>1, <2>2, QuietStep
<1>2. CASE draining /\ delivery # <<>>
  <2> DEFINE h == delivery[1]
  <2>n. PICK n \in Nat : n = Len(delivery) - 1 /\ Len(delivery) = n + 1
    BY <1>2, <1>t
  <2>1. /\ delivery' = Tail(delivery) /\ hand' = [hand EXCEPT ![p] = h]
        /\ pc' = [pc EXCEPT ![p] = IF Stale(h) THEN "drain" ELSE "write"]
    BY <1>2, <1>t DEF Pop, Goto
  <2>2. Len(delivery') = n /\ \A i \in 1..n : delivery'[i] = delivery[i + 1]
    BY <1>2, <1>t, <2>1, <2>n
  <2>3. h \in Items /\ h.channel \in Channels /\ 1 \in 1..Len(delivery)
    BY <1>t, <2>n
  <2>4. \A i \in 1..n : i + 1 \in 1..Len(delivery) /\ i + 1 > 1
    BY <2>n
  <2>5. \A q \in Threads : (InHand(q)' <=> q = p /\ ~Stale(h))
                           /\ (InHand(q)' => hand'[q] = h)
    BY <1>p, <1>t, <2>1 DEF InHand
  <2>6. \A q \in Threads, d \in Channels :
           Writing(q, d)' <=> q = p /\ ~Stale(h) /\ h.channel = d
    BY <1>p, <1>t, <2>1 DEF Writing
  <2>7. \A i \in 1..n, d \in Channels :
           Current(delivery[i], d)' <=> Current(delivery[i + 1], d)
    BY <1>t, <2>2 DEF Current
  <2>8. ~Stale(h) <=> Current(h, h.channel)
    BY DEF Stale, Current
  <2>9. ItemShape(h) /\ \A i \in 1..n : ItemShape(delivery[i + 1])
    BY <2>3, <2>4 DEF DeliveryInv, QueueShape
  <2>10. ChannelShape'
    BY <1>t DEF DeliveryInv, ChannelShape
  <2>11. QueueShape'
    BY <1>t, <2>2, <2>9 DEF QueueShape, ItemShape, Current
  <2>12. FinalizerIsLast'
    <3> SUFFICES ASSUME NEW i \in 1..n, NEW j \in 1..n, NEW d \in Channels, i < j,
                        Current(delivery[i + 1], d), Current(delivery[j + 1], d)
                 PROVE  ~delivery[i + 1].finalize
      BY <2>2, <2>7 DEF FinalizerIsLast
    <3>1. i + 1 < j + 1
      OBVIOUS
    <3> QED BY <2>4, <3>1 DEF DeliveryInv, FinalizerIsLast
  <2>13. HandShape'
    <3> SUFFICES ASSUME ~Stale(h)
                 PROVE  /\ ItemShape(h)
                        /\ \A c \in Channels : Current(h, c) /\ h.finalize =>
                              \A i \in 1..n : ~Current(delivery[i + 1], c)
      BY <1>t, <2>2, <2>5, <2>7 DEF HandShape, ItemShape, Current
    <3> QED BY <2>3, <2>4, <2>9 DEF DeliveryInv, FinalizerIsLast
  <2>14. QueuedHasFinalizer'
    <3> SUFFICES ASSUME NEW c \in Channels, channel[c].state = "queued"
                 PROVE  \/ \E i \in 1..n : IsFinalizer(delivery[i + 1], c)
                        \/ ~Stale(h) /\ IsFinalizer(h, c)
      BY <1>t, <2>1, <2>2 DEF QueuedHasFinalizer, IsFinalizer
    <3>1. PICK i \in 1..Len(delivery) : IsFinalizer(delivery[i], c)
      BY <1>p DEF DeliveryInv, QueuedHasFinalizer, InHand
    <3>2. CASE i = 1
      BY <3>1, <3>2 DEF IsFinalizer, Stale
    <3>3. CASE i # 1
      <4>1. i - 1 \in 1..n /\ (i - 1) + 1 = i
        BY <2>n, <3>3
      <4> QED BY <3>1, <4>1
    <3> QED BY <3>2, <3>3
  <2>15. SettleShape'
    <3> SUFFICES ASSUME NEW c \in Channels, channel[c].generation > 0
                 PROVE  Settles(c)'
      BY <1>t DEF SettleShape
    <3>w. Wanted(c)' = Wanted(c)
      BY <1>t DEF Wanted
    <3>1. Settles(c)
      BY DEF DeliveryInv, SettleShape
    <3>2. CASE \E i \in 1..Len(delivery) : LastCurrent(i, c) /\ delivery[i].signal = Wanted(c)
      <4>1. PICK i \in 1..Len(delivery) : LastCurrent(i, c) /\ delivery[i].signal = Wanted(c)
        BY <3>2
      <4>2. CASE i = 1
        <5>1. Current(h, c) /\ h.channel = c /\ ~Stale(h)
          BY <4>1, <4>2 DEF LastCurrent, Current, Stale
        <5>2. \A j \in 1..n : ~Current(delivery[j + 1], c)
          BY <2>4, <4>1, <4>2 DEF LastCurrent
        <5>3. Writing(p, c)' /\ Current(hand[p], c)' /\ hand'[p].signal = Wanted(c)'
          BY <1>t, <2>1, <2>6, <3>w, <4>1, <4>2, <5>1 DEF Current
        <5> QED BY <2>2, <2>7, <5>2, <5>3 DEF Settles
      <4>3. CASE i # 1
        <5>1. i - 1 \in 1..n /\ (i - 1) + 1 = i
          BY <2>n, <4>3
        <5>2. PICK k \in 1..n : k + 1 = i
          BY <5>1
        <5>3. Current(delivery[k], c)' /\ delivery'[k].signal = Wanted(c)'
          BY <2>2, <2>7, <3>w, <4>1, <5>2 DEF LastCurrent
        <5>4. ASSUME NEW j \in 1..n, j > k PROVE ~Current(delivery[j], c)'
          <6>1. j + 1 > i
            BY <5>2, <5>4
          <6> QED BY <2>4, <2>7, <4>1, <6>1 DEF LastCurrent
        <5>5. LastCurrent(k, c)'
          BY <2>2, <5>3, <5>4 DEF LastCurrent
        <5> QED BY <2>2, <5>3, <5>5 DEF Settles
      <4> QED BY <4>2, <4>3
    <3>3. CASE /\ \A i \in 1..Len(delivery) : ~Current(delivery[i], c)
               /\ gpio[c] = Wanted(c)
      <4>1. \A q \in Threads : ~Writing(q, c)'
        BY <2>3, <2>6, <2>8, <3>3
      <4>2. \A i \in 1..n : ~Current(delivery[i], c)'
        BY <2>4, <2>7, <3>3
      <4> QED BY <1>t, <2>2, <3>w, <3>3, <4>1, <4>2 DEF Settles
    <3> QED BY <1>p, <3>1, <3>2, <3>3 DEF Settles
  <2>16. FinalizeIsMarked'
    <3>1. \A q \in Threads : pc'[q] # "finalize"
      BY <1>p, <1>t, <2>1 DEF InHand
    <3> QED BY <3>1 DEF FinalizeIsMarked
  <2> QED BY <2>10, <2>11, <2>12, <2>13, <2>14, <2>15, <2>16 DEF DeliveryInv
<1> QED BY <1>1, <1>2, <1>t DEF TypeOK

\* A GPIO write keeps the invariant: it is the write of the only thread that delivers.
LEMMA WriteStep ==
    ASSUME TypeOK, SingleDeliverer, DeliveryInv, NEW p \in Threads, WriteGpio(p)
    PROVE  DeliveryInv'
<1> DEFINE h == hand[p]
<1>t. /\ pc \in [Threads -> Labels] /\ hand \in [Threads -> Items]
      /\ gpio \in [Channels -> Signals]
      /\ channel' = channel /\ delivery' = delivery /\ hand' = hand
      /\ pc[p] = "write" /\ pc' = [pc EXCEPT ![p] = IF h.finalize THEN "finalize" ELSE "drain"]
      /\ gpio' = [gpio EXCEPT ![h.channel] = h.signal]
  BY DEF TypeOK, WriteGpio, Goto
<1>h. h.channel \in Channels
  BY <1>t DEF Items
<1>p. \A q \in Threads : q # p => ~InHand(q) /\ pc[q] # "finalize"
                               /\ \A d \in Channels : ~Writing(q, d)
  <2>1. Owns(p)
    BY <1>t DEF Owns, Drains
  <2>2. \A q \in Threads : q # p => ~Owns(q)
    BY <2>1 DEF SingleDeliverer
  <2> QED BY <2>2 DEF Owns, Drains, InHand, Writing
<1>1. \A q \in Threads : InHand(q)' <=> q = p /\ h.finalize
  BY <1>p, <1>t DEF InHand
<1>2. \A q \in Threads, d \in Channels : ~Writing(q, d)'
  BY <1>p, <1>t DEF Writing
<1>3. InHand(p)
  BY <1>t DEF InHand
<1>4. ChannelShape' /\ QueueShape' /\ FinalizerIsLast'
  BY <1>t DEF DeliveryInv, ChannelShape, QueueShape, FinalizerIsLast, ItemShape, Current
<1>5. HandShape'
  BY <1>1, <1>3, <1>t DEF DeliveryInv, HandShape, ItemShape, Current
<1>6. QueuedHasFinalizer'
  <2> SUFFICES ASSUME NEW c \in Channels, channel[c].state = "queued"
               PROVE  \/ \E i \in 1..Len(delivery) : IsFinalizer(delivery[i], c)
                      \/ h.finalize /\ IsFinalizer(h, c)
    BY <1>t DEF QueuedHasFinalizer, IsFinalizer
  <2>1. CASE \E i \in 1..Len(delivery) : IsFinalizer(delivery[i], c)
    BY <2>1
  <2>2. CASE \E q \in Threads : InHand(q) /\ IsFinalizer(hand[q], c)
    BY <1>p, <2>2 DEF IsFinalizer
  <2> QED BY <2>1, <2>2 DEF DeliveryInv, QueuedHasFinalizer, InHand
<1>7. SettleShape'
  <2> SUFFICES ASSUME NEW c \in Channels, channel[c].generation > 0
               PROVE  Settles(c)'
    BY <1>t DEF SettleShape
  <2>w. Wanted(c)' = Wanted(c)
    BY <1>t DEF Wanted
  <2>0. \A i \in 1..Len(delivery) : Current(delivery[i], c)' <=> Current(delivery[i], c)
    BY <1>t DEF Current
  <2>1. Settles(c)
    BY DEF DeliveryInv, SettleShape
  <2>2. CASE \E i \in 1..Len(delivery) : LastCurrent(i, c) /\ delivery[i].signal = Wanted(c)
    <3>1. PICK i \in 1..Len(delivery) : LastCurrent(i, c) /\ delivery[i].signal = Wanted(c)
      BY <2>2
    <3>2. LastCurrent(i, c)'
      BY <1>t, <2>0, <3>1 DEF LastCurrent
    <3> QED BY <1>t, <2>w, <3>1, <3>2 DEF Settles
  <2>3. CASE /\ \A i \in 1..Len(delivery) : ~Current(delivery[i], c)
             /\ \E q \in Threads :
                   Writing(q, c) /\ Current(hand[q], c) /\ hand[q].signal = Wanted(c)
    <3>1. h.channel = c /\ h.signal = Wanted(c)
      BY <1>p, <2>3 DEF Current
    <3>2. gpio'[c] = Wanted(c)'
      BY <1>t, <2>w, <3>1
    <3> QED BY <1>2, <1>t, <2>0, <2>3, <3>2 DEF Settles
  <2>4. CASE /\ \A i \in 1..Len(delivery) : ~Current(delivery[i], c)
             /\ gpio[c] = Wanted(c) /\ \A q \in Threads : ~Writing(q, c)
    <3>1. h.channel # c
      BY <1>t, <2>4 DEF Writing
    <3>2. gpio'[c] = Wanted(c)'
      BY <1>h, <1>t, <2>4, <2>w, <3>1
    <3> QED BY <1>2, <1>t, <2>0, <2>4, <3>2 DEF Settles
  <2> QED BY <2>1, <2>2, <2>3, <2>4 DEF Settles
<1>8. FinalizeIsMarked'
  BY <1>p, <1>t DEF FinalizeIsMarked
<1> QED BY <1>4, <1>5, <1>6, <1>7, <1>8 DEF DeliveryInv

\* A finalizer completes its fade, or finds the fade gone; either keeps the invariant.
LEMMA FinalizeStep ==
    ASSUME TypeOK, SingleDeliverer, DeliveryInv, NEW p \in Threads, Finalize(p)
    PROVE  DeliveryInv'
<1> DEFINE h == hand[p]
           c == h.channel
<1>t. /\ pc \in [Threads -> Labels] /\ hand \in [Threads -> Items]
      /\ channel \in [Channels -> ChannelValues]
      /\ delivery' = delivery /\ hand' = hand /\ gpio' = gpio
      /\ pc[p] = "finalize" /\ pc' \in {[pc EXCEPT ![p] = "notify"], [pc EXCEPT ![p] = "drain"]}
  BY DEF TypeOK, Finalize, Goto, ChannelValues
<1>h. /\ c \in Channels
      /\ \A i \in 1..Len(delivery) : delivery[i] \in Items /\ delivery[i].channel \in Channels
  BY ItemsAreTyped
<1>p. \A q \in Threads : q # p => ~InHand(q)
  <2>1. Owns(p)
    BY <1>t DEF Owns, Drains
  <2>2. \A q \in Threads : q # p => ~Owns(q)
    BY <2>1 DEF SingleDeliverer
  <2> QED BY <2>2 DEF Owns, Drains, InHand
<1>q. \A q \in Threads, d \in Channels : ~Writing(q, d) /\ ~Writing(q, d)'
  BY <1>p, <1>t DEF InHand, Writing
<1>r. \A q \in Threads : ~InHand(q)'
  BY <1>p, <1>t DEF InHand
<1>c. /\ \A d \in Channels : d # c => channel'[d] = channel[d]
      /\ \A d \in Channels : /\ channel'[d].request = channel[d].request
                             /\ channel'[d].generation = channel[d].generation
                             /\ channel'[d].duty = channel[d].duty
      /\ IF FinalizerIsCurrent(h)
         THEN channel[c].state = "queued" /\ channel'[c].state = "pending"
         ELSE channel' = channel
  <2>1. CASE FinalizerIsCurrent(h)
    <3>1. channel' = [channel EXCEPT ![c].state = "pending"] /\ channel[c].state = "queued"
      BY <2>1 DEF Finalize, FinalizerIsCurrent
    <3> QED BY <1>h, <1>t, <2>1, <3>1 DEF ChannelValues
  <2>2. CASE ~FinalizerIsCurrent(h)
    BY <2>2 DEF Finalize
  <2> QED BY <2>1, <2>2
<1>u. \A i \in 1..Len(delivery), d \in Channels :
         Current(delivery[i], d)' <=> Current(delivery[i], d)
  BY <1>c, <1>t DEF Current
<1>w. \A d \in Channels : Wanted(d)' = Wanted(d)
  BY <1>c DEF Wanted, Envelope
\* a current finalizer leaves no current item of its channel behind
<1>e. FinalizerIsCurrent(h) /\ h.finalize => \A i \in 1..Len(delivery) : ~Current(delivery[i], c)
  BY <1>h, <1>t DEF FinalizerIsCurrent, Stale, DeliveryInv, HandShape, InHand, Current
<1>f. FinalizerIsCurrent(h) => h.finalize
  BY <1>t DEF DeliveryInv, FinalizeIsMarked
<1>1. ChannelShape'
  BY <1>c DEF DeliveryInv, ChannelShape
<1>2. QueueShape'
  <2> SUFFICES ASSUME NEW i \in 1..Len(delivery)
               PROVE  ItemShape(delivery[i])'
    BY <1>t DEF QueueShape
  <2>1. ItemShape(delivery[i]) /\ delivery[i].channel \in Channels
    BY <1>h DEF DeliveryInv, QueueShape
  <2>2. Current(delivery[i], delivery[i].channel) =>
           channel'[delivery[i].channel] = channel[delivery[i].channel]
    BY <1>c, <1>e, <1>f, <2>1
  <2> QED BY <1>c, <1>t, <2>1, <2>2 DEF ItemShape, Current
<1>3. FinalizerIsLast'
  BY <1>t, <1>u DEF DeliveryInv, FinalizerIsLast
<1>4. HandShape' /\ FinalizeIsMarked'
  <2>1. \A q \in Threads : pc'[q] # "finalize"
    BY <1>r DEF InHand
  <2> QED BY <1>r, <2>1 DEF HandShape, FinalizeIsMarked
<1>5. QueuedHasFinalizer'
  <2> SUFFICES ASSUME NEW d \in Channels, channel'[d].state = "queued"
               PROVE  \E i \in 1..Len(delivery) : IsFinalizer(delivery[i], d)
    BY <1>c, <1>t DEF QueuedHasFinalizer, IsFinalizer
  <2>1. channel[d].state = "queued"
    BY <1>c
  <2>2. ASSUME NEW q \in Threads, InHand(q), IsFinalizer(hand[q], d)
        PROVE  FALSE
    <3>1. q = p /\ FinalizerIsCurrent(h) /\ d = c
      BY <1>p, <2>1, <2>2 DEF IsFinalizer, FinalizerIsCurrent, Stale
    <3> QED BY <1>c, <3>1
  <2> QED BY <2>1, <2>2 DEF DeliveryInv, QueuedHasFinalizer, InHand
<1>6. SettleShape'
  <2> SUFFICES ASSUME NEW d \in Channels, channel[d].generation > 0
               PROVE  Settles(d)'
    BY <1>c DEF SettleShape
  <2>1. Settles(d)
    BY DEF DeliveryInv, SettleShape
  <2>2. \A i \in 1..Len(delivery) : LastCurrent(i, d)' <=> LastCurrent(i, d)
    BY <1>t, <1>u DEF LastCurrent
  <2> QED BY <1>q, <1>t, <1>u, <1>w, <2>1, <2>2 DEF Settles
<1> QED BY <1>1, <1>2, <1>3, <1>4, <1>5, <1>6 DEF DeliveryInv

\* Start keeps the invariant.
LEMMA StartStep ==
    ASSUME TypeOK, DeliveryInv, NEW p \in Threads, Start(p)
    PROVE  DeliveryInv'
<1> DEFINE c == call[p].channel
           r == call[p].request
<1>t. /\ channel \in [Channels -> ChannelValues] /\ pc \in [Threads -> Labels]
      /\ call[p] \in CallValues /\ c \in Channels /\ r \in RequestValues /\ call[p].at \in Nat
      /\ channel[c] \in ChannelValues /\ channel[c].generation \in Nat
  BY DEF TypeOK, ChannelValues, CallValues
<1>p. pc[p] = "start" /\ hand' = hand /\ gpio' = gpio
  BY DEF Start
<1>1. CASE AcceptsStart(c) /\ channel[c].generation < MaxGeneration
  <2>0. PICK g \in Nat : g = channel[c].generation + 1
    BY <1>t
  <2>1. PICK new \in ChannelValues :
           /\ new = Started(p, c, r)
           /\ new.request = r /\ new.generation = g
           /\ new.state = IF Immediate(r) THEN "queued" ELSE "armed"
           /\ new.duty = IF Immediate(r) THEN r.target ELSE r.start
    <3>1. r.target \in Nat /\ r.start \in Nat
      BY <1>t DEF RequestValues
    <3>2. Started(p, c, r) \in ChannelValues
      <4>1. channel[c].generation + 1 \in Nat
        BY <1>t
      <4> QED BY <1>t, <3>1, <4>1 DEF Started, ChannelValues, States
    <3>3. /\ Started(p, c, r).request = r /\ Started(p, c, r).generation = g
          /\ Started(p, c, r).state = IF Immediate(r) THEN "queued" ELSE "armed"
          /\ Started(p, c, r).duty = IF Immediate(r) THEN r.target ELSE r.start
      BY <1>t, <2>0 DEF Started, ChannelValues
    <3> QED BY <3>2, <3>3
  <2> DEFINE envelope == Item(Envelope(r), FALSE, c, g)
             finalizer == Item(Steady(r.target), TRUE, c, g)
  <2>2. envelope \in Items /\ finalizer \in Items
    <3>1. Envelope(r) \in Signals /\ Steady(r.target) \in Signals
      BY <1>t, SignalTypes DEF RequestValues
    <3> QED BY <1>t, <3>1, ItemType
  <2>3. /\ envelope.channel = c /\ envelope.generation = g /\ envelope.finalize = FALSE
        /\ finalizer.channel = c /\ finalizer.generation = g /\ finalizer.finalize = TRUE
        /\ envelope.signal = Envelope(r) /\ finalizer.signal = Steady(r.target)
    BY DEF Item
  <2> HIDE DEF envelope, finalizer
  <2>4. PICK items \in Seq(Items) :
           items = IF Immediate(r) THEN <<envelope, finalizer>> ELSE <<envelope>>
    BY <2>2, ShortSequences
  <2>5. /\ channel' = [channel EXCEPT ![c] = new] /\ delivery' = delivery \o items
        /\ \E label \in {"schedule", "drain", "idle"} : pc' = [pc EXCEPT ![p] = label]
    BY <1>1, <2>0, <2>1, <2>4 DEF Start, Enqueue, Goto, envelope, finalizer
  <2>6. \A q \in Threads :
              /\ pc'[q] \in {"write", "nested"} <=> pc[q] \in {"write", "nested"}
              /\ pc'[q] = "finalize" <=> pc[q] = "finalize"
    BY <1>p, <1>t, <2>5
  <2>7. /\ new.state \in {"armed", "queued", "cancelled"} /\ new.generation > 0
        /\ new.state = "queued" => new.duty = new.request.target
        /\ new.generation = channel[c].generation + 1
    BY <1>t, <2>0, <2>1
  <2>8. CASE Immediate(r)
    <3>1. items = <<envelope, finalizer>> /\ Len(items) = 2
          /\ items[1] = envelope /\ items[2] = finalizer
      BY <2>4, <2>8
    <3>2. \A k \in 1..Len(items) : /\ items[k].channel = c
                                   /\ items[k].generation = new.generation
                                   /\ items[k].finalize <=> k = 2
      BY <2>1, <2>3, <3>1
    <3>3. /\ Len(items) = IF new.state = "queued" THEN 2 ELSE 1
          /\ items[Len(items)].signal =
                IF new.state = "armed" THEN Envelope(new.request) ELSE Steady(new.duty)
      BY <2>1, <2>3, <2>8, <3>1
    <3> QED BY <1>p, <1>t, <2>5, <2>6, <2>7, <3>2, <3>3, ProduceStep
  <2>9. CASE ~Immediate(r)
    <3>1. items = <<envelope>> /\ Len(items) = 1 /\ items[1] = envelope
      BY <2>4, <2>9
    <3>2. \A k \in 1..Len(items) : /\ items[k].channel = c
                                   /\ items[k].generation = new.generation
                                   /\ items[k].finalize <=> k = 2
      BY <2>1, <2>3, <3>1
    <3>3. /\ Len(items) = IF new.state = "queued" THEN 2 ELSE 1
          /\ items[Len(items)].signal =
                IF new.state = "armed" THEN Envelope(new.request) ELSE Steady(new.duty)
      BY <2>1, <2>3, <2>9, <3>1
    <3> QED BY <1>p, <1>t, <2>5, <2>6, <2>7, <3>2, <3>3, ProduceStep
  <2> QED BY <2>8, <2>9
<1>2. CASE ~(AcceptsStart(c) /\ channel[c].generation < MaxGeneration)
  <2>1. UNCHANGED <<channel, delivery>> /\ pc' = [pc EXCEPT ![p] = "idle"]
    BY <1>2 DEF Start, Goto
  <2> QED BY <1>p, <1>t, <2>1, QuietStep
<1> QED BY <1>1, <1>2

\* Cancel keeps the invariant.
LEMMA CancelStep ==
    ASSUME TypeOK, DeliveryInv, NEW p \in Threads, NEW c \in Channels, Cancel(p, c)
    PROVE  DeliveryInv'
<1>t. /\ channel \in [Channels -> ChannelValues] /\ pc \in [Threads -> Labels]
      /\ channel[c] \in ChannelValues /\ channel[c].generation \in Nat /\ now \in Nat
      /\ channel[c].request \in RequestValues /\ channel[c].fadeStart \in Nat
  BY DEF TypeOK, ChannelValues
<1>p. pc[p] = "idle" /\ hand' = hand /\ gpio' = gpio /\ pc' = [pc EXCEPT ![p] = "unregister"]
  BY DEF Cancel, Goto
<1>1. PICK g \in Nat : g = channel[c].generation + 1
  BY <1>t
<1>2. PICK d \in Nat : d = Materialize(channel[c].request, now - channel[c].fadeStart)
  BY <1>t, MaterializeType
<1>3. PICK new \in ChannelValues :
         /\ new = [channel[c] EXCEPT !.duty = d, !.state = "cancelled", !.generation = g]
         /\ new.state = "cancelled" /\ new.generation = g /\ new.duty = d
  <2> DEFINE e == [channel[c] EXCEPT !.duty = d, !.state = "cancelled", !.generation = g]
  <2>1. e \in ChannelValues
    BY <1>t DEF ChannelValues, States
  <2>2. e.state = "cancelled" /\ e.generation = g /\ e.duty = d
    BY <1>t DEF ChannelValues
  <2> QED BY <2>1, <2>2
<1>4. channel' = [channel EXCEPT ![c] = new]
  BY <1>1, <1>2, <1>3, <1>t DEF Cancel, ChannelValues
<1>5. PICK item \in Items :
         /\ item = Item(Steady(d), FALSE, c, g)
         /\ item.channel = c /\ item.generation = g /\ item.finalize = FALSE
         /\ item.signal = Steady(d)
  <2>1. Item(Steady(d), FALSE, c, g) \in Items
    BY SignalTypes, ItemType
  <2> QED BY <2>1 DEF Item
<1>6. PICK items \in Seq(Items) : items = <<item>> /\ Len(items) = 1 /\ items[1] = item
  <2>1. <<item>> \in Seq(Items)
    BY ShortSequences
  <2> QED BY <2>1
<1>7. delivery' = delivery \o items
  BY <1>1, <1>2, <1>5, <1>6 DEF Cancel, Enqueue
<1>8. \A k \in 1..Len(items) : /\ items[k].channel = c
                               /\ items[k].generation = new.generation
                               /\ items[k].finalize <=> k = 2
  <2>1. \A k \in 1..Len(items) : k = 1
    BY <1>6
  <2>2. items[1].channel = c /\ items[1].generation = new.generation /\ ~items[1].finalize
    BY <1>3, <1>5, <1>6
  <2> QED BY <2>1, <2>2
<1>10. /\ Len(items) = IF new.state = "queued" THEN 2 ELSE 1
       /\ items[Len(items)].signal =
             IF new.state = "armed" THEN Envelope(new.request) ELSE Steady(new.duty)
       /\ new.state \in {"armed", "queued", "cancelled"}
       /\ new.state = "queued" => new.duty = new.request.target
  BY <1>3, <1>5, <1>6
<1>11. new.generation > 0 /\ new.generation = channel[c].generation + 1
  BY <1>1, <1>3, <1>t
<1>9. \A q \in Threads :
              /\ pc'[q] \in {"write", "nested"} <=> pc[q] \in {"write", "nested"}
              /\ pc'[q] = "finalize" <=> pc[q] = "finalize"
  BY <1>p, <1>t
<1> QED BY <1>4, <1>7, <1>8, <1>9, <1>10, <1>11, <1>p, ProduceStep

\* The deadline keeps the invariant.
LEMMA DeadlineStep ==
    ASSUME TypeOK, DeliveryInv, NEW p \in Threads, deadline(p)
    PROVE  DeliveryInv'
<1> DEFINE c == call[p].channel
<1>t. /\ channel \in [Channels -> ChannelValues] /\ pc \in [Threads -> Labels]
      /\ call[p] \in CallValues /\ c \in Channels
      /\ channel[c] \in ChannelValues /\ channel[c].generation \in Nat
      /\ channel[c].request.target \in Nat
  BY DEF TypeOK, ChannelValues, CallValues, RequestValues
<1>p. /\ pc[p] \in {"callback", "nested", "foreign"} /\ hand' = hand /\ gpio' = gpio
      /\ IF pc[p] = "nested" THEN pc' = [pc EXCEPT ![p] = "write"]
         ELSE \E label \in {"drain", "idle", "elsewhere"} : pc' = [pc EXCEPT ![p] = label]
  BY DEF deadline, Returns, Goto, DeliveryActive, Drains
<1>q. \A q \in Threads :
              /\ pc'[q] \in {"write", "nested"} <=> pc[q] \in {"write", "nested"}
              /\ pc'[q] = "finalize" <=> pc[q] = "finalize"
  BY <1>p, <1>t
<1>1. CASE DeadlineIsCurrent(c, call[p].generation)
  <2>1. PICK g \in Nat : g = call[p].generation /\ g = channel[c].generation
                         /\ channel[c].state = "armed"
    BY <1>1, <1>t DEF DeadlineIsCurrent
  <2>2. PICK d \in Nat : d = channel[c].request.target
    BY <1>t
  <2>3. PICK new \in ChannelValues :
           /\ new = [channel[c] EXCEPT !.duty = d, !.state = "queued"]
           /\ new.state = "queued" /\ new.duty = d /\ new.generation = g
           /\ new.request.target = d
    <3> DEFINE e == [channel[c] EXCEPT !.duty = d, !.state = "queued"]
    <3>1. e \in ChannelValues
      BY <1>t, <2>2 DEF ChannelValues, States
    <3>2. e.state = "queued" /\ e.duty = d /\ e.generation = g /\ e.request.target = d
      BY <1>t, <2>1, <2>2 DEF ChannelValues
    <3> QED BY <3>1, <3>2
  <2>4. channel' = [channel EXCEPT ![c] = new]
    BY <1>1, <1>t, <2>2, <2>3 DEF deadline, ChannelValues
  <2> DEFINE steady == Item(Steady(d), FALSE, c, g)
             finalizer == Item(Steady(d), TRUE, c, g)
  <2>5. steady \in Items /\ finalizer \in Items
    BY <1>t, SignalTypes, ItemType
  <2>6. /\ steady.channel = c /\ steady.generation = g /\ steady.finalize = FALSE
        /\ finalizer.channel = c /\ finalizer.generation = g /\ finalizer.finalize = TRUE
        /\ finalizer.signal = Steady(d)
    BY DEF Item
  <2> HIDE DEF steady, finalizer
  <2>7. PICK items \in Seq(Items) :
           /\ items = <<steady, finalizer>>
           /\ Len(items) = 2 /\ items[1] = steady /\ items[2] = finalizer
    <3>1. <<steady, finalizer>> \in Seq(Items)
      BY <2>5, ShortSequences
    <3> QED BY <3>1
  <2>8. delivery' = delivery \o items
    BY <1>1, <2>1, <2>2, <2>7 DEF deadline, Enqueue, DeadlineItems, steady, finalizer
  <2>9. \A k \in 1..Len(items) : /\ items[k].channel = c
                                 /\ items[k].generation = new.generation
                                 /\ items[k].finalize <=> k = 2
    BY <2>3, <2>6, <2>7
  <2>10. g > 0
    BY <1>t, <2>1 DEF DeliveryInv, ChannelShape
  <2>11. /\ Len(items) = IF new.state = "queued" THEN 2 ELSE 1
         /\ items[Len(items)].signal =
               IF new.state = "armed" THEN Envelope(new.request) ELSE Steady(new.duty)
         /\ new.state \in {"armed", "queued", "cancelled"} /\ new.generation > 0
         /\ new.state = "queued" => new.duty = new.request.target
         /\ new.generation = channel[c].generation /\ channel[c].state = "armed"
    BY <2>1, <2>3, <2>6, <2>7, <2>10
  <2> QED BY <1>p, <1>q, <1>t, <2>4, <2>8, <2>9, <2>11, ProduceStep
<1>2. CASE ~DeadlineIsCurrent(c, call[p].generation)
  <2>1. UNCHANGED <<channel, delivery>>
    BY <1>2 DEF deadline
  <2> QED BY <1>p, <1>q, <2>1, QuietStep
<1> QED BY <1>1, <1>2

\* Every step keeps the invariant.
LEMMA DeliveryStep ==
    ASSUME TypeOK, SingleDeliverer, DeliveryInv, Next
    PROVE  DeliveryInv'
<1>t. pc \in [Threads -> Labels] /\ channel \in [Channels -> ChannelValues]
      /\ \A p \in Threads : call[p].channel \in Channels
  BY DEF TypeOK, ChannelValues
<1>1. ASSUME NEW p \in Threads, NEW c \in Channels, NEW r \in Requests, CallStart(p, c, r)
      PROVE  DeliveryInv'
  BY <1>1, <1>t, QuietStep DEF CallStart, Goto
<1>2. ASSUME NEW p \in Threads,
             \/ ScheduleSystemTimeAlarm(p) \/ CancelSystemTimeAlarm(p) \/ ClaimAlarm(p)
             \/ Notify(p) \/ Release(p)
      PROVE  DeliveryInv'
  <2>1. UNCHANGED <<channel, delivery, hand, gpio>>
    BY <1>2 DEF ScheduleSystemTimeAlarm, CancelSystemTimeAlarm, ClaimAlarm, Notify, Release
  <2>2. \A q \in Threads :
              /\ pc'[q] \in {"write", "nested"} <=> pc[q] \in {"write", "nested"}
              /\ pc'[q] = "finalize" <=> pc[q] = "finalize"
    BY <1>2, <1>t DEF ScheduleSystemTimeAlarm, CancelSystemTimeAlarm, ClaimAlarm, Notify,
       Release, Goto, Leave
  <2> QED BY <2>1, <2>2, QuietStep
<1>3. ASSUME NEW p \in Threads, StoreAlarm(p)
      PROVE  DeliveryInv'
  <2>1. UNCHANGED <<delivery, hand, gpio>>
    BY <1>3 DEF StoreAlarm
  <2>2. \A c \in Channels :
              /\ channel'[c].request = channel[c].request
              /\ channel'[c].generation = channel[c].generation
              /\ channel'[c].duty = channel[c].duty
              /\ channel'[c].state = channel[c].state
    BY <1>3, <1>t DEF StoreAlarm, ChannelValues
  <2>3. \A q \in Threads :
              /\ pc'[q] \in {"write", "nested"} <=> pc[q] \in {"write", "nested"}
              /\ pc'[q] = "finalize" <=> pc[q] = "finalize"
    BY <1>3, <1>t DEF StoreAlarm, Leave, Goto
  <2> QED BY <2>1, <2>2, <2>3, QuietStep
<1>4. ASSUME NEW c \in Channels, TakeCompletion(c)
      PROVE  DeliveryInv'
  <2>1. UNCHANGED <<delivery, hand, gpio, pc>>
    BY <1>4 DEF TakeCompletion
  <2>2. \A d \in Channels :
              /\ channel'[d].request = channel[d].request
              /\ channel'[d].generation = channel[d].generation
              /\ channel'[d].duty = channel[d].duty
              /\ \/ channel'[d].state = channel[d].state
                 \/ channel[d].state = "pending" /\ channel'[d].state = "idle"
    BY <1>4, <1>t DEF TakeCompletion, ChannelValues
  <2> QED BY <2>1, <2>2, QuietStep
<1>5. ASSUME \/ Tick \/ LedcInterrupt
             \/ \E installed \in BOOLEAN : SetCompletionNotifier(installed)
      PROVE  DeliveryInv'
  <2>1. UNCHANGED <<channel, delivery, hand, gpio, pc>>
    BY <1>5 DEF Tick, LedcInterrupt, SetCompletionNotifier
  <2> QED BY <2>1, QuietStep
<1>6. ASSUME NEW p \in Threads, OtherEngineDrains(p) \/ OtherEngineReleases(p)
      PROVE  DeliveryInv'
  <2>1. /\ UNCHANGED <<channel, delivery, hand, gpio>>
        /\ \A q \in Threads :
              /\ pc'[q] \in {"write", "nested"} <=> pc[q] \in {"write", "nested"}
              /\ pc'[q] = "finalize" <=> pc[q] = "finalize"
    BY <1>6, <1>t DEF OtherEngineDrains, OtherEngineReleases, Goto
  <2> QED BY <2>1, QuietStep
<1> QED
  BY <1>1, <1>2, <1>3, <1>4, <1>5, <1>6, StartStep, CancelStep, DeadlineStep, PopStep, WriteStep,
     FinalizeStep DEF Next, Proceed, DrainSteps

-----------------------------------------------------------------------------
(* Theorems *)

\* The types hold in every reachable state of ledc_fade_engine.cpp.
THEOREM TypesHold == Spec => []TypeOK
<1>1. Init => TypeOK
  BY InitTypes
<1>2. TypeOK /\ [Next]_vars => TypeOK'
  <2>1. ASSUME TypeOK, UNCHANGED vars PROVE TypeOK'
    BY <2>1 DEF vars, TypeOK
  <2> QED BY <2>1, NextTypes
<1> QED BY <1>1, <1>2, PTL DEF Spec

\* At most one thread is committed to draining the queue of ledc_fade_engine.cpp, and
\* draining is set as long as one is, also when the callbacks of the engine run inside the
\* drain of the other engine.
THEOREM OneThreadDelivers == Spec => []SingleDeliverer
<1>1. Init => SingleDeliverer
  BY DEF Init, SingleDeliverer, Owns, Drains
<1>2. TypeOK /\ SingleDeliverer /\ [Next]_vars => SingleDeliverer'
  <2>1. ASSUME SingleDeliverer, UNCHANGED vars PROVE SingleDeliverer'
    BY <2>1 DEF vars, SingleDeliverer, Owns, Drains
  <2> QED BY <2>1, OwnerStep
<1> QED BY <1>1, <1>2, TypesHold, PTL DEF Spec

\* A generation that ended stays behind the channel.
THEOREM EndedIsBehind == Spec => []EndedShape
<1>1. Init => EndedShape
  BY DEF Init, EndedShape
<1>2. TypeOK /\ EndedShape /\ [Next]_vars => EndedShape'
  <2>1. ASSUME EndedShape, UNCHANGED vars PROVE EndedShape'
    BY <2>1 DEF vars, EndedShape
  <2> QED BY <2>1, EndedStep
<1> QED BY <1>1, <1>2, TypesHold, PTL DEF Spec

\* The delivery invariant holds in every reachable state.
THEOREM DeliveryInvariant == Spec => []DeliveryInv
<1>1. Init => DeliveryInv
  <2> SUFFICES ASSUME Init PROVE DeliveryInv
    OBVIOUS
  <2>1. Len(delivery) = 0 /\ 1..Len(delivery) = {}
    BY DEF Init
  <2>2. \A c \in Channels : channel[c].state = "idle" /\ channel[c].generation = 0
    BY DEF Init, NewChannel
  <2>3. \A p \in Threads : pc[p] = "idle"
    BY DEF Init
  <2> QED BY <2>1, <2>2, <2>3 DEF DeliveryInv, ChannelShape, QueueShape, FinalizerIsLast,
          HandShape, FinalizeIsMarked, QueuedHasFinalizer, SettleShape, InHand
<1>2. TypeOK /\ SingleDeliverer /\ DeliveryInv /\ [Next]_vars => DeliveryInv'
  <2>1. ASSUME TypeOK, DeliveryInv, UNCHANGED vars PROVE DeliveryInv'
    BY <2>1, QuietStep DEF vars
  <2> QED BY <2>1, DeliveryStep
<1> QED BY <1>1, <1>2, TypesHold, OneThreadDelivers, PTL DEF Spec

\* No deadline, cancellation or restart leaves a fade queued with no finalizer to complete
\* it in the queue or in the drainer's hand.
THEOREM QueuedFadesComplete == Spec => []QueuedHasFinalizer
<1>1. DeliveryInv => QueuedHasFinalizer
  BY DEF DeliveryInv
<1> QED BY <1>1, DeliveryInvariant, PTL

\* When nothing is queued or being written, each pin shows the latest Start or Cancel.
THEOREM PinsSettle == Spec => []OutputSettles
<1>1. TypeOK /\ DeliveryInv => OutputSettles
  <2> SUFFICES ASSUME TypeOK, DeliveryInv, NEW c \in Channels, channel[c].generation > 0,
                      delivery = <<>>, \A p \in Threads : ~Writing(p, c)
               PROVE  gpio[c] = Wanted(c)
    BY DEF OutputSettles, Wanted
  <2>1. Settles(c) /\ 1..Len(delivery) = {}
    BY DEF DeliveryInv, SettleShape
  <2> QED BY <2>1 DEF Settles
<1> QED BY <1>1, TypesHold, DeliveryInvariant, PTL

\* While a completion is observable the pin shows the target of the fade.
THEOREM CompletionIsVisible == Spec => []PendingShowsTarget
<1>1. TypeOK /\ DeliveryInv => PendingShowsTarget
  <2> SUFFICES ASSUME TypeOK, DeliveryInv, NEW c \in Channels, channel[c].state = "pending"
               PROVE  gpio[c] = Steady(channel[c].request.target)
    BY DEF PendingShowsTarget
  <2>1. Wanted(c) = Steady(channel[c].request.target) /\ Settles(c)
    BY DEF DeliveryInv, ChannelShape, SettleShape, Wanted
  <2>2. \A i \in 1..Len(delivery) : ~Current(delivery[i], c)
    BY DEF DeliveryInv, QueueShape, ItemShape, Current
  <2>3. \A p \in Threads : Writing(p, c) => ~Current(hand[p], c)
    BY DEF DeliveryInv, HandShape, InHand, Writing, ItemShape, Current
  <2> QED BY <2>1, <2>2, <2>3 DEF Settles, LastCurrent
<1> QED BY <1>1, TypesHold, DeliveryInvariant, PTL

\* A step that completes or cancels a fade, or takes its completion, finds it active.
LEMMA EndsFromActive ==
    ASSUME TypeOK, Next, NEW c \in Channels,
           channel'[c].state \in {"idle", "pending", "cancelled"},
           channel'[c].state # channel[c].state
    PROVE  Active(c)
<1>t. /\ channel \in [Channels -> ChannelValues] /\ call \in [Threads -> CallValues]
      /\ hand \in [Threads -> Items]
  BY DEF TypeOK, ChannelValues, CallValues
<1>1. ASSUME NEW p \in Threads, Start(p)
      PROVE  FALSE
  <2>1. call[p].channel \in Channels /\ channel[call[p].channel] \in ChannelValues
    BY <1>t DEF CallValues
  <2>2. Started(p, call[p].channel, call[p].request).state \in {"queued", "armed"}
    BY <2>1 DEF Started, ChannelValues
  <2> QED BY <1>1, <1>t, <2>1, <2>2 DEF Start
<1>2. ASSUME NEW p \in Threads, StoreAlarm(p)
      PROVE  FALSE
  <2>1. call[p].channel \in Channels
    BY <1>t DEF CallValues
  <2> QED BY <1>2, <1>t, <2>1 DEF StoreAlarm, ChannelValues
<1>3. ASSUME NEW p \in Threads, NEW d \in Channels, Cancel(p, d)
      PROVE  Active(c)
  BY <1>3, <1>t DEF Cancel, Cancellable, Active, ChannelValues
<1>4. ASSUME NEW p \in Threads, deadline(p)
      PROVE  FALSE
  <2>1. call[p].channel \in Channels
    BY <1>t DEF CallValues
  <2> QED BY <1>4, <1>t, <2>1 DEF deadline, ChannelValues
<1>5. ASSUME NEW p \in Threads, Finalize(p)
      PROVE  Active(c)
  <2>1. hand[p].channel \in Channels
    BY <1>t DEF Items
  <2> QED BY <1>5, <1>t, <2>1 DEF Finalize, FinalizerIsCurrent, Active, ChannelValues
<1>6. ASSUME NEW d \in Channels, TakeCompletion(d)
      PROVE  Active(c)
  BY <1>6, <1>t DEF TakeCompletion, Active, ChannelValues
<1> QED
  BY <1>1, <1>2, <1>3, <1>4, <1>5, <1>6
     DEF Next, Proceed, DrainSteps, CallStart, ScheduleSystemTimeAlarm,
         CancelSystemTimeAlarm, ClaimAlarm, Pop, WriteGpio, Notify, Release,
         SetCompletionNotifier, Tick, LedcInterrupt, OtherEngineDrains, OtherEngineReleases

\* No generation of a fade that was cancelled, or whose completion was taken, completes,
\* is taken or is cancelled again.
THEOREM FadesEndOnce == Spec => EndsOnce
<1> DEFINE A == \A c \in Channels :
                  (channel'[c].state \in {"idle", "pending", "cancelled"}
                     /\ channel'[c].state # channel[c].state)
                  => <<c, channel[c].generation>> \notin ended
<1>1. ASSUME TypeOK, EndedShape, Next PROVE A
  <2> SUFFICES ASSUME NEW c \in Channels,
                      channel'[c].state \in {"idle", "pending", "cancelled"},
                      channel'[c].state # channel[c].state,
                      <<c, channel[c].generation>> \in ended
               PROVE  FALSE
    OBVIOUS
  <2>1. channel[c].state # "idle"
    BY <1>1, EndsFromActive DEF Active
  <2>2. channel[c].generation \in Nat
    BY <1>1 DEF TypeOK
  <2> DEFINE e == <<c, channel[c].generation>>
  <2>3. \/ e[2] < channel[e[1]].generation
        \/ e[2] = channel[e[1]].generation /\ channel[e[1]].state = "idle"
    BY <1>1 DEF EndedShape
  <2> QED BY <2>1, <2>2, <2>3
<1>2. TypeOK /\ EndedShape /\ [Next]_vars => [A]_vars
  BY <1>1
<1> QED BY <1>2, TypesHold, EndedIsBehind, PTL DEF Spec, EndsOnce

\* The duty read back, the request's target, and their order as ReadbackMonotone has it.
Moves(x, y, target) == (x <= y /\ y <= target) \/ (x >= y /\ y >= target)

\* A step that keeps a fade active and in its generation moves the duty read back towards
\* the target.
LEMMA ReadbackStep ==
    ASSUME TypeOK, ChannelShape, Next, NEW c \in Channels, Active(c), Active(c)',
           channel'[c].generation = channel[c].generation
    PROVE  Moves(Readback(c), Readback(c)', channel[c].request.target)
<1>t. /\ channel \in [Channels -> ChannelValues] /\ call \in [Threads -> CallValues]
      /\ hand \in [Threads -> Items] /\ now \in Nat
  BY DEF TypeOK, ChannelValues, CallValues
<1>c. /\ channel[c] \in ChannelValues /\ channel[c].request \in RequestValues
      /\ channel[c].duty \in Nat /\ channel[c].fadeStart \in Nat
      /\ channel[c].generation \in Nat /\ channel[c].request.target \in Nat
      /\ now - channel[c].fadeStart \in Int
  BY <1>t DEF ChannelValues, RequestValues
<1>r. Readback(c) \in Nat
  BY <1>c, MaterializeType DEF Readback
<1>s. ASSUME Readback(c)' = Readback(c)
      PROVE  Moves(Readback(c), Readback(c)', channel[c].request.target)
  BY <1>c, <1>r, <1>s DEF Moves
\* what does not touch the channel or the time
<1>k. ASSUME now' = now, channel'[c].request = channel[c].request,
             channel'[c].duty = channel[c].duty, channel'[c].fadeStart = channel[c].fadeStart,
             channel'[c].state = "armed" <=> channel[c].state = "armed"
      PROVE  Moves(Readback(c), Readback(c)', channel[c].request.target)
  <2>1. Readback(c)' = Readback(c)
    BY <1>k DEF Readback, Materialize, Interpolated
  <2> QED BY <1>s, <2>1
<1>1. ASSUME NEW p \in Threads, Start(p)
      PROVE  Moves(Readback(c), Readback(c)', channel[c].request.target)
  <2> DEFINE d == call[p].channel
  <2>1. d \in Channels /\ channel[d] \in ChannelValues /\ now' = now
    BY <1>1, <1>t DEF Start, CallValues
  <2>2. channel'[c] = channel[c]
    <3>1. CASE AcceptsStart(d) /\ channel[d].generation < MaxGeneration
      <4>1. channel' = [channel EXCEPT ![d] = Started(p, d, call[p].request)]
        BY <1>1, <3>1 DEF Start
      <4>2. c # d
        BY <3>1 DEF AcceptsStart, Active
      <4> QED BY <1>t, <2>1, <4>1, <4>2
    <3>2. CASE ~(AcceptsStart(d) /\ channel[d].generation < MaxGeneration)
      BY <1>1, <3>2 DEF Start
    <3> QED BY <3>1, <3>2
  <2> QED BY <1>k, <2>1, <2>2
<1>2. ASSUME NEW p \in Threads, StoreAlarm(p)
      PROVE  Moves(Readback(c), Readback(c)', channel[c].request.target)
  <2>1. call[p].channel \in Channels
    BY <1>t DEF CallValues
  <2>2. /\ channel'[c].request = channel[c].request /\ channel'[c].duty = channel[c].duty
        /\ channel'[c].fadeStart = channel[c].fadeStart
        /\ channel'[c].state = channel[c].state /\ now' = now
    BY <1>2, <1>t, <2>1 DEF StoreAlarm, ChannelValues
  <2> QED BY <1>k, <2>2
<1>3. ASSUME NEW p \in Threads, NEW d \in Channels, Cancel(p, d)
      PROVE  Moves(Readback(c), Readback(c)', channel[c].request.target)
  <2>1. channel[d].generation \in Nat
    BY <1>t DEF ChannelValues
  <2>2. channel'[d].generation = channel[d].generation + 1
        /\ (c # d => channel'[c] = channel[c]) /\ now' = now
    BY <1>3, <1>t DEF Cancel, ChannelValues
  <2>3. c # d
    BY <2>1, <2>2
  <2> QED BY <1>k, <2>2, <2>3
<1>4. ASSUME NEW p \in Threads, deadline(p)
      PROVE  Moves(Readback(c), Readback(c)', channel[c].request.target)
  <2> DEFINE d == call[p].channel
  <2>1. d \in Channels /\ now' = now
    BY <1>4, <1>t DEF deadline, CallValues
  <2>2. CASE DeadlineIsCurrent(d, call[p].generation) /\ d = c
    <3>1. /\ channel[c].state = "armed" /\ channel'[c].state = "queued"
          /\ channel'[c].duty = channel[c].request.target
      BY <1>4, <1>t, <2>1, <2>2 DEF deadline, DeadlineIsCurrent, ChannelValues
    <3>2. Readback(c)' = channel[c].request.target
          /\ Readback(c) = Materialize(channel[c].request, now - channel[c].fadeStart)
      BY <3>1 DEF Readback
    <3>3. Readback(c) <= channel[c].request.target \/ Readback(c) >= channel[c].request.target
      BY <1>c, <1>r
    <3> QED BY <1>c, <3>2, <3>3 DEF Moves
  <2>3. CASE ~DeadlineIsCurrent(d, call[p].generation) \/ d # c
    <3>1. channel'[c] = channel[c]
      BY <1>4, <1>t, <2>1, <2>3 DEF deadline
    <3> QED BY <1>k, <2>1, <3>1
  <2> QED BY <2>2, <2>3
<1>5. ASSUME NEW p \in Threads, Finalize(p)
      PROVE  Moves(Readback(c), Readback(c)', channel[c].request.target)
  <2>1. hand[p].channel \in Channels /\ now' = now
    BY <1>5, <1>t DEF Finalize, Items
  <2>2. /\ channel'[c].request = channel[c].request /\ channel'[c].duty = channel[c].duty
        /\ channel'[c].fadeStart = channel[c].fadeStart
        /\ channel'[c].state = "armed" <=> channel[c].state = "armed"
    BY <1>5, <1>t, <2>1 DEF Finalize, FinalizerIsCurrent, ChannelValues
  <2> QED BY <1>k, <2>1, <2>2
<1>6. ASSUME NEW d \in Channels, TakeCompletion(d)
      PROVE  Moves(Readback(c), Readback(c)', channel[c].request.target)
  <2>1. channel'[c] = channel[c] /\ now' = now
    BY <1>6, <1>t DEF TakeCompletion, Active, ChannelValues
  <2> QED BY <1>k, <2>1
<1>7. ASSUME Tick
      PROVE  Moves(Readback(c), Readback(c)', channel[c].request.target)
  <2>1. channel' = channel /\ now' = now + 1
    BY <1>7 DEF Tick
  <2>2. CASE channel[c].state = "armed"
    <3>1. PICK e \in Int : e = now - channel[c].fadeStart
      BY <1>c
    <3>2. now' - channel'[c].fadeStart = e + 1
      BY <1>c, <1>t, <2>1, <3>1
    <3>3. Readback(c) = Materialize(channel[c].request, e)
      BY <2>2, <3>1 DEF Readback
    <3>4. Readback(c)' = Materialize(channel[c].request, e + 1)
      BY <2>1, <2>2, <3>2 DEF Readback, Materialize, Interpolated
    <3> QED BY <1>c, <3>3, <3>4, MaterializeMoves DEF Moves
  <2>3. CASE channel[c].state # "armed"
    <3>1. Readback(c)' = Readback(c)
      BY <2>1, <2>3 DEF Readback
    <3> QED BY <1>s, <3>1
  <2> QED BY <2>2, <2>3
<1>8. CASE channel' = channel /\ now' = now
  BY <1>k, <1>8
<1> QED
  BY <1>1, <1>2, <1>3, <1>4, <1>5, <1>6, <1>7, <1>8
     DEF Next, Proceed, DrainSteps, CallStart, ScheduleSystemTimeAlarm,
         CancelSystemTimeAlarm, ClaimAlarm, Pop, WriteGpio, Notify, Release,
         SetCompletionNotifier, LedcInterrupt, OtherEngineDrains, OtherEngineReleases

\* The duty that snapshot() reports during a fade only moves towards the target.
THEOREM ReadbackMoves == Spec => ReadbackMonotone
<1> DEFINE A == \A c \in Channels :
                  (Active(c) /\ Active(c)' /\ channel'[c].generation = channel[c].generation) =>
                    \/ Readback(c) <= Readback(c)' /\ Readback(c)' <= channel[c].request.target
                    \/ Readback(c) >= Readback(c)' /\ Readback(c)' >= channel[c].request.target
<1>1. ASSUME TypeOK, DeliveryInv, Next PROVE A
  BY <1>1, ReadbackStep DEF DeliveryInv, Moves
<1>2. TypeOK /\ DeliveryInv /\ [Next]_vars => [A]_vars
  BY <1>1
<1> QED BY <1>2, TypesHold, DeliveryInvariant, PTL DEF Spec, ReadbackMonotone
=============================================================================
