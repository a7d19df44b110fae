------------------------------ MODULE LedcFade ------------------------------
(***************************************************************************)
(* The LEDC fade engine (ledc_fade_engine.cpp): a state per channel, one   *)
(* FIFO of GPIO writes and completion finalizers, and one thread at a time *)
(* that owns the FIFO and drains it with the lock released.                *)
(*                                                                         *)
(* The engine's lock masks signals while it is held, so a critical section *)
(* is one step; GPIO writes, the notifier and the calls into the alarm     *)
(* service are steps of their own.  An item already popped, an alarm       *)
(* already claimed and an alarm identity not yet stored are therefore in   *)
(* a thread's hands while the others run.                                  *)
(*                                                                         *)
(* The program has two engines, the one of the IDF driver and the one of   *)
(* the Arduino driver, that share the alarm service and the flag           *)
(* kLedcDeliveryActive of each thread.  This module is one of them; of the *)
(* other it keeps that a thread may be inside its drain.                   *)
(***************************************************************************)
EXTENDS Integers, Sequences

CONSTANTS
    Threads,         \* tasks and native threads that call the engine
    NoThread,
    Channels,        \* the channels of one engine
    Requests,        \* the fades asked for: start, target and duration
    MaxGeneration,   \* bound: generations of a channel
    MaxNow           \* bound: fake uptime stops here

ASSUME ThreadsAssumption == NoThread \notin Threads

ASSUME RequestsAssumption ==
    /\ Channels # {}
    /\ Requests \subseteq [start : Nat, target : Nat, duration : Nat]
    /\ MaxGeneration \in Nat
    /\ MaxNow \in Nat

VARIABLES
    channel,     \* Impl::channels
    delivery,    \* Impl::delivery
    draining,    \* Impl::draining
    notifier,    \* a completion notifier is installed
    raised,      \* the notifier has asserted the LEDC interrupt source
    unpolled,    \* the channels LedcInterrupt has yet to ask for a completion
    pc,          \* where each thread is
    call,        \* the locals of each thread's Start, Cancel or deadline
    hand,        \* the item each thread has popped
    now,         \* fake uptime
    alarms,      \* deadlines registered with the alarm service
    alarmOwner,  \* the thread that runs alarm callbacks
    gpio,        \* the signal on each channel's pin
    ended        \* history: fades cancelled, or their completion taken

engineVars == <<channel, delivery, draining>>
mailbox == <<notifier, raised, unpolled>>
time == <<now, alarms, alarmOwner>>
vars == <<engineVars, mailbox, pc, call, hand, time, gpio, ended>>

\* An alarm is named by the generation whose deadline it is; 0 is no alarm
NoRequest == [start |-> 0, target |-> 0, duration |-> 0]
NewChannel == [state |-> "idle", request |-> NoRequest, generation |-> 0, duty |-> 0,
               fadeStart |-> 0, alarm |-> 0]
NoCall(c) == [channel |-> c, request |-> NoRequest, at |-> 0, generation |-> 0,
              alarm |-> 0, drain |-> FALSE]

\* A signal: no carrier, a steady duty, or the envelope towards a duty
ConstantZero == [shape |-> "constant", duty |-> 0]
Steady(d) == [shape |-> "steady", duty |-> d]
Envelope(r) == [shape |-> "fade", duty |-> r.target]
Item(s, final, c, g) == [signal |-> s, finalize |-> final, channel |-> c, generation |-> g]

Init ==
    /\ channel = [c \in Channels |-> NewChannel]
    /\ delivery = <<>> /\ draining = FALSE
    /\ notifier = FALSE /\ raised = FALSE /\ unpolled = {}
    /\ pc = [p \in Threads |-> "idle"]
    /\ call = [p \in Threads |-> NoCall(CHOOSE c \in Channels : TRUE)]
    /\ hand = [p \in Threads |-> Item(ConstantZero, FALSE, CHOOSE c \in Channels : TRUE, 0)]
    /\ now = 0 /\ alarms = {} /\ alarmOwner = NoThread
    /\ gpio = [c \in Channels |-> ConstantZero]
    /\ ended = {}

Goto(p, label) == pc' = [pc EXCEPT ![p] = label]

\* The locals of a call are gone when it returns or begins to drain
Forget(p) == call' = [call EXCEPT ![p] = NoCall(@.channel)]

\* The thread is inside drain() of this engine, and inside that of the other one
Drains(p) == pc[p] \in {"drain", "write", "nested", "finalize", "notify", "release"}
DrainsOther(p) == pc[p] \in {"elsewhere", "foreign"}

\* kLedcDeliveryActive of the thread, one flag for both engines
DeliveryActive(p) == Drains(p) \/ DrainsOther(p)

\* Definitions named ..._Slip are not part of the model: each is the variant of
\* the definition below it that a plausible coding slip would give, kept to
\* show that the properties tell the two apart.

Interpolated_Slip(r, elapsed) ==
    IF r.target >= r.start
    THEN r.start + ((r.target - r.start) * elapsed) \div r.duration
    ELSE r.target - ((r.start - r.target) * elapsed) \div r.duration

Interpolated(r, elapsed) ==
    IF r.target >= r.start
    THEN r.start + ((r.target - r.start) * elapsed) \div r.duration
    ELSE r.start - ((r.start - r.target) * elapsed) \div r.duration

Materialize(r, elapsed) ==
    IF r.duration = 0 \/ elapsed <= 0 THEN r.start
    ELSE IF elapsed >= r.duration THEN r.target
    ELSE Interpolated(r, elapsed)

\* The duty snapshot() reports
Readback(c) ==
    IF channel[c].state = "armed"
    THEN Materialize(channel[c].request, now - channel[c].fadeStart)
    ELSE channel[c].duty

Immediate(r) == r.duration = 0 \/ r.start = r.target

Enqueue_Slip(items) == delivery' = items \o delivery /\ draining' = TRUE

\* What every producer does last in its critical section
Enqueue(items) == delivery' = delivery \o items /\ draining' = TRUE

BecomesOwner_Slip == TRUE

BecomesOwner == ~draining

-----------------------------------------------------------------------------
(* Start and Cancel *)

\* A call from a thread that delivers returns false, and so does nothing
CallStart(p, c, r) ==
    /\ pc[p] = "idle"
    /\ channel[c].generation < MaxGeneration
    /\ call' = [call EXCEPT ![p] = [NoCall(c) EXCEPT !.request = r, !.at = now]]
    /\ Goto(p, "start")
    /\ UNCHANGED <<engineVars, mailbox, hand, time, gpio, ended>>

AcceptsStart(c) == channel[c].state \in {"idle", "cancelled"}

Started(p, c, r) ==
    [channel[c] EXCEPT !.request = r,
                       !.duty = IF Immediate(r) THEN r.target ELSE r.start,
                       !.fadeStart = call[p].at,
                       !.state = IF Immediate(r) THEN "queued" ELSE "armed",
                       !.generation = @ + 1]

\* The bound on generations is tested here too: two calls may be under way
Start(p) ==
    LET c == call[p].channel
        r == call[p].request
        g == channel[c].generation + 1
        envelope == Item(Envelope(r), FALSE, c, g)
        finalizer == Item(Steady(r.target), TRUE, c, g)
    IN
    /\ pc[p] = "start"
    /\ IF AcceptsStart(c) /\ channel[c].generation < MaxGeneration
       THEN /\ channel' = [channel EXCEPT ![c] = Started(p, c, r)]
            /\ Enqueue(IF Immediate(r) THEN <<envelope, finalizer>> ELSE <<envelope>>)
            /\ IF Immediate(r) THEN Forget(p)
               ELSE call' = [call EXCEPT ![p].generation = g, ![p].drain = BecomesOwner]
            /\ Goto(p, IF ~Immediate(r) THEN "schedule"
                       ELSE IF BecomesOwner THEN "drain" ELSE "idle")
       ELSE /\ Goto(p, "idle") /\ Forget(p)
            /\ UNCHANGED engineVars
    /\ UNCHANGED <<mailbox, hand, time, gpio, ended>>

Leave_Slip(p) == Goto(p, "idle")

\* Drain if the critical section made this thread the owner
Leave(p) == Goto(p, IF call[p].drain THEN "drain" ELSE "idle")

ScheduleSystemTimeAlarm(p) ==
    /\ pc[p] = "schedule"
    /\ alarms' = alarms \cup {[channel |-> call[p].channel,
                               generation |-> call[p].generation,
                               deadline |-> call[p].at + call[p].request.duration]}
    /\ Goto(p, "store")
    /\ UNCHANGED <<engineVars, mailbox, call, hand, now, alarmOwner, gpio, ended>>

StoreAlarm(p) ==
    /\ pc[p] = "store"
    /\ channel' = IF channel[call[p].channel].generation = call[p].generation
                  THEN [channel EXCEPT ![call[p].channel].alarm = call[p].generation]
                  ELSE channel
    /\ Leave(p) /\ Forget(p)
    /\ UNCHANGED <<delivery, draining, mailbox, hand, time, gpio, ended>>

Cancellable_Slip(c) == channel[c].state # "cancelled"

Cancellable(c) == channel[c].state \in {"armed", "queued"}

Cancel(p, c) ==
    LET duty == Materialize(channel[c].request, now - channel[c].fadeStart)
        g == channel[c].generation
    IN
    /\ pc[p] = "idle"
    /\ Cancellable(c)
    /\ g < MaxGeneration
    /\ channel' = [channel EXCEPT ![c].duty = duty, ![c].state = "cancelled",
                                  ![c].generation = g + 1]
    /\ Enqueue(<<Item(Steady(duty), FALSE, c, g + 1)>>)
    /\ call' = [call EXCEPT ![p] = [NoCall(c) EXCEPT !.generation = g + 1,
                                                     !.alarm = channel[c].alarm,
                                                     !.drain = BecomesOwner]]
    /\ ended' = ended \cup {<<c, g>>}
    /\ Goto(p, "unregister")
    /\ UNCHANGED <<mailbox, hand, time, gpio>>

Unregistered_Slip(p) == {a \in alarms : a.channel # call[p].channel}

Unregistered(p) ==
    {a \in alarms : a.channel # call[p].channel \/ a.generation # call[p].alarm}

CancelSystemTimeAlarm(p) ==
    /\ pc[p] = "unregister"
    /\ alarms' = Unregistered(p)
    /\ Leave(p) /\ Forget(p)
    /\ UNCHANGED <<engineVars, mailbox, hand, now, alarmOwner, gpio, ended>>

-----------------------------------------------------------------------------
(* The deadline.  The alarm service runs one callback at a time, the         *)
(* earliest first, on an idle thread or inside a GPIO write whose sink       *)
(* advances time, be it a write of this engine ("nested") or of the other    *)
(* one ("foreign").                                                          *)

ClaimAlarm(p) ==
    /\ alarmOwner = NoThread
    /\ pc[p] \in {"idle", "write", "elsewhere"}
    /\ \E a \in alarms :
          /\ a.deadline <= now
          /\ \A b \in alarms : a.deadline <= b.deadline
          /\ alarms' = alarms \ {a}
          /\ call' = [call EXCEPT ![p] = [NoCall(a.channel) EXCEPT
                                              !.generation = a.generation]]
    /\ alarmOwner' = p
    /\ Goto(p, CASE pc[p] = "idle" -> "callback"
                 [] pc[p] = "write" -> "nested"
                 [] pc[p] = "elsewhere" -> "foreign")
    /\ UNCHANGED <<engineVars, mailbox, hand, now, gpio, ended>>

DeadlineIsCurrent_Slip(c, g) == channel[c].state = "armed"

DeadlineIsCurrent(c, g) == channel[c].generation = g /\ channel[c].state = "armed"

DeadlineItems_Slip(c, g) ==
    <<Item(Steady(channel[c].request.target), FALSE, c, g), Item(ConstantZero, TRUE, c, g)>>

DeadlineItems(c, g) ==
    <<Item(Steady(channel[c].request.target), FALSE, c, g),
      Item(Steady(channel[c].request.target), TRUE, c, g)>>

\* Where a callback that does not drain returns to
Returns(p) == Goto(p, CASE pc[p] = "callback" -> "idle"
                        [] pc[p] = "nested" -> "write"
                        [] pc[p] = "foreign" -> "elsewhere")

\* A callback inside a drain appends its pair, and takes the queue over if it
\* has no owner; but drain() then returns at once
deadline(p) ==
    LET c == call[p].channel
        g == call[p].generation
        drains == DeadlineIsCurrent(c, g) /\ BecomesOwner /\ ~DeliveryActive(p)
    IN
    /\ pc[p] \in {"callback", "nested", "foreign"}
    /\ IF DeadlineIsCurrent(c, g)
       THEN /\ channel' = [channel EXCEPT ![c].duty = channel[c].request.target,
                                          ![c].state = "queued"]
            /\ Enqueue(DeadlineItems(c, g))
       ELSE UNCHANGED engineVars
    /\ IF drains THEN Goto(p, "drain") ELSE Returns(p)
    /\ alarmOwner' = IF drains THEN p ELSE NoThread
    /\ Forget(p)
    /\ UNCHANGED <<mailbox, hand, now, alarms, gpio, ended>>

-----------------------------------------------------------------------------
(* drain *)

Stale(item) == channel[item.channel].generation # item.generation

Pop(p) ==
    /\ pc[p] = "drain"
    /\ IF ~draining \/ delivery = <<>>
       THEN Goto(p, "release") /\ UNCHANGED <<delivery, hand>>
       ELSE /\ delivery' = Tail(delivery)
            /\ hand' = [hand EXCEPT ![p] = Head(delivery)]
            /\ Goto(p, IF Stale(Head(delivery)) THEN "drain" ELSE "write")
    /\ UNCHANGED <<channel, draining, mailbox, call, time, gpio, ended>>

WriteGpio(p) ==
    /\ pc[p] = "write"
    /\ gpio' = [gpio EXCEPT ![hand[p].channel] = hand[p].signal]
    /\ Goto(p, IF hand[p].finalize THEN "finalize" ELSE "drain")
    /\ UNCHANGED <<engineVars, mailbox, call, hand, time, ended>>

FinalizerIsCurrent(item) == ~Stale(item) /\ channel[item.channel].state = "queued"

Finalize(p) ==
    LET item == hand[p] IN
    /\ pc[p] = "finalize"
    /\ IF FinalizerIsCurrent(item)
       THEN /\ channel' = [channel EXCEPT ![item.channel].state = "pending"]
            /\ Goto(p, IF notifier THEN "notify" ELSE "drain")
       ELSE Goto(p, "drain") /\ UNCHANGED channel
    /\ UNCHANGED <<delivery, draining, mailbox, call, hand, time, gpio, ended>>

\* RaiseLedcInterrupt
Notify(p) ==
    /\ pc[p] = "notify"
    /\ raised' = TRUE
    /\ Goto(p, "drain")
    /\ UNCHANGED <<engineVars, notifier, unpolled, call, hand, time, gpio, ended>>

\* ~DeliveryContextGuard, in a critical section after the one that found no work
Release(p) ==
    /\ pc[p] = "release"
    /\ draining' = FALSE
    /\ alarmOwner' = IF alarmOwner = p THEN NoThread ELSE alarmOwner
    /\ Goto(p, "idle")
    /\ UNCHANGED <<channel, delivery, mailbox, call, hand, now, alarms, gpio, ended>>

-----------------------------------------------------------------------------
(* The completion mailbox *)

SetCompletionNotifier(installed) ==
    /\ notifier' = installed
    /\ UNCHANGED <<engineVars, raised, unpolled, pc, call, hand, time, gpio, ended>>

\* LedcInterrupt asks every channel, whichever of them raised it
LedcInterrupt ==
    /\ raised /\ unpolled = {}
    /\ raised' = FALSE
    /\ unpolled' = Channels
    /\ UNCHANGED <<engineVars, notifier, pc, call, hand, time, gpio, ended>>

\* The code asks them in the order of their indices
TakeCompletion(c) ==
    /\ c \in unpolled
    /\ unpolled' = unpolled \ {c}
    /\ IF channel[c].state = "pending"
       THEN /\ channel' = [channel EXCEPT ![c].state = "idle", ![c].alarm = 0]
            /\ ended' = ended \cup {<<c, channel[c].generation>>}
       ELSE UNCHANGED <<channel, ended>>
    /\ UNCHANGED <<delivery, draining, notifier, raised, pc, call, hand, time, gpio>>

-----------------------------------------------------------------------------
(* The other engine: a thread enters its drain between two calls, and leaves it *)

OtherEngineDrains(p) ==
    /\ pc[p] = "idle"
    /\ Goto(p, "elsewhere")
    /\ UNCHANGED <<engineVars, mailbox, call, hand, time, gpio, ended>>

OtherEngineReleases(p) ==
    /\ pc[p] = "elsewhere"
    /\ Goto(p, "idle")
    /\ UNCHANGED <<engineVars, mailbox, call, hand, time, gpio, ended>>

Tick ==
    /\ now < MaxNow
    /\ now' = now + 1
    /\ UNCHANGED <<engineVars, mailbox, pc, call, hand, alarms, alarmOwner, gpio, ended>>
-----------------------------------------------------------------------------
DrainSteps(p) == Pop(p) \/ WriteGpio(p) \/ Finalize(p) \/ Notify(p) \/ Release(p)

\* A step that takes a call or a callback that has begun to its end
Proceed(p) ==
    \/ Start(p) \/ ScheduleSystemTimeAlarm(p) \/ StoreAlarm(p)
    \/ CancelSystemTimeAlarm(p) \/ deadline(p) \/ DrainSteps(p)
    \/ OtherEngineReleases(p)

Next ==
    \/ \E p \in Threads :
          \/ Proceed(p)
          \/ ClaimAlarm(p) \/ OtherEngineDrains(p)
          \/ \E c \in Channels : Cancel(p, c) \/ \E r \in Requests : CallStart(p, c, r)
    \/ \E installed \in BOOLEAN : SetCompletionNotifier(installed)
    \/ LedcInterrupt
    \/ \E c \in Channels : TakeCompletion(c)
    \/ Tick

Spec == Init /\ [][Next]_vars

\* A thread inside the engine runs on.  The alarm service has a worker of its own
\* for what is due; the threads here do its work between their calls, so its
\* fairness is the strong one
FairSpec ==
    /\ Spec
    /\ \A p \in Threads : WF_vars(Proceed(p))
    /\ SF_vars(\E p \in Threads : ClaimAlarm(p))

-----------------------------------------------------------------------------
(* Properties *)

States == {"idle", "armed", "queued", "pending", "cancelled"}
Labels == {"idle", "start", "schedule", "store", "unregister", "callback", "drain",
           "write", "nested", "finalize", "notify", "release", "elsewhere", "foreign"}
RequestValues == [start : Nat, target : Nat, duration : Nat]
Signals == [shape : {"constant", "steady", "fade"}, duty : Nat]
Items == [signal : Signals, finalize : BOOLEAN, channel : Channels, generation : Nat]

\* Every variable holds a value of its type
TypeOK ==
    /\ channel \in [Channels -> [state : States, request : RequestValues,
                                 generation : Nat, duty : Nat, fadeStart : Nat,
                                 alarm : Nat]]
    /\ delivery \in Seq(Items)
    /\ draining \in BOOLEAN /\ notifier \in BOOLEAN /\ raised \in BOOLEAN
    /\ unpolled \in SUBSET Channels
    /\ pc \in [Threads -> Labels]
    /\ call \in [Threads -> [channel : Channels, request : RequestValues, at : Nat,
                             generation : Nat, alarm : Nat, drain : BOOLEAN]]
    /\ hand \in [Threads -> Items]
    /\ now \in Nat
    /\ alarms \in SUBSET [channel : Channels, generation : Nat, deadline : Nat]
    /\ alarmOwner \in Threads \cup {NoThread}
    /\ gpio \in [Channels -> Signals]
    /\ ended \in SUBSET (Channels \X Nat)

\* The thread that took the queue over when it set draining
Owns(p) ==
    \/ Drains(p)
    \/ pc[p] \in {"schedule", "store", "unregister"} /\ call[p].drain

\* At most one thread drains, so GPIO writes happen in queue order: draining is
\* set from the moment a thread takes the queue over until it leaves it, so no
\* other thread takes it over in between
SingleDeliverer ==
    /\ \A p, q \in Threads : Owns(p) /\ Owns(q) => p = q
    /\ (\E p \in Threads : Owns(p)) => draining

\* "A scope guard always releases delivery ownership": draining is not left set
\* with no thread to clear it, which would block every later delivery
OwnershipIsHeld == draining => \E p \in Threads : Owns(p)

\* "Relinquishing drainer ownership and observing an empty queue are one locked
\* operation, so concurrent work is not stranded"
WorkNotStranded == delivery # <<>> => draining

IsFinalizer(item, c) ==
    item.finalize /\ item.channel = c /\ item.generation = channel[c].generation

\* A fade in kQueued still has the finalizer of its own generation ahead of it,
\* in the queue or in the drainer's hand: no deadline, cancellation or restart
\* leaves a channel in kQueued for good
QueuedHasFinalizer ==
    \A c \in Channels : channel[c].state = "queued" =>
        \/ \E i \in 1..Len(delivery) : IsFinalizer(delivery[i], c)
        \/ \E p \in Threads :
              pc[p] \in {"write", "nested", "finalize"} /\ IsFinalizer(hand[p], c)

\* While a completion is observable the pin shows the fade's steady target: the
\* last GPIO write came before it and no older write comes after it
PendingShowsTarget ==
    \A c \in Channels : channel[c].state = "pending" =>
        gpio[c] = Steady(channel[c].request.target)

Writing(p, c) == pc[p] \in {"write", "nested"} /\ hand[p].channel = c

\* When nothing is queued or being written, every channel that was ever started
\* shows the latest Start or Cancel, whichever threads ran them and drained
OutputSettles ==
    \A c \in Channels :
        channel[c].generation > 0 /\ delivery = <<>> /\ (\A p \in Threads : ~Writing(p, c)) =>
            gpio[c] = IF channel[c].state = "armed" THEN Envelope(channel[c].request)
                      ELSE Steady(channel[c].duty)

\* A fade ends once: after its cancellation, or once its completion was taken,
\* it does not complete, is not taken and is not cancelled again, however late
\* its alarm and its finalizer are
EndsOnce ==
    [][\A c \in Channels :
          (channel'[c].state \in {"idle", "pending", "cancelled"}
           /\ channel'[c].state # channel[c].state)
              => <<c, channel[c].generation>> \notin ended]_vars

Active(c) == channel[c].state \in {"armed", "queued", "pending"}

\* The duty read back during a fade only moves towards the target
ReadbackMonotone ==
    [][\A c \in Channels :
          (Active(c) /\ Active(c)' /\ channel'[c].generation = channel[c].generation) =>
              \/ Readback(c) <= Readback(c)' /\ Readback(c)' <= channel[c].request.target
              \/ Readback(c) >= Readback(c)' /\ Readback(c)' >= channel[c].request.target]_vars

Due(c) ==
    /\ channel[c].state = "armed"
    /\ now >= channel[c].fadeStart + channel[c].request.duration

\* A fade whose deadline has come leaves kArmed: no cancellation of an earlier
\* fade and no late bookkeeping of alarm identities takes its alarm away
DueFadeIsQueued == \A c \in Channels : Due(c) ~> ~Due(c)

\* A queued fade is finalized or cancelled while the queue has an owner that has
\* not yet taken its last look at it: a pair appended beside the owner's writes,
\* or before it has stored its alarm, is drained by it
QueuedIsDrained ==
    \A c \in Channels :
        (channel[c].state = "queued" /\ \E p \in Threads : Owns(p) /\ pc[p] # "release")
            ~> channel[c].state # "queued"
=============================================================================
