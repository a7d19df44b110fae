----------------------- MODULE SystemTimeAlarmsProofs -----------------------
(* Proofs about SystemTimeAlarms, for every value of its constants. *)
EXTENDS SystemTimeAlarms, TLAPS

\* Contexts come in pairs, a thread's calls and the calls of its callback.
LEMMA CtxFacts ==
    /\ W \in Ctx
    /\ CallOf(W) = W
    /\ \A c \in Ctx : /\ CallOf(c) \in Ctx
                      /\ CallbackOf(c) \in Ctx
                      /\ CallOf(c) # CallbackOf(c)
                      /\ c = CallOf(c) \/ c = CallbackOf(c)
                      /\ CallOf(CallOf(c)) = CallOf(c)
                      /\ CallOf(CallbackOf(c)) = CallOf(c)
                      /\ CallbackOf(CallOf(c)) = CallbackOf(c)
                      /\ CallbackOf(CallbackOf(c)) = CallbackOf(c)
BY DEF W, Ctx, Threads, CallOf, CallbackOf

\* The unit conversion stays within the integers, and within the naturals.
LEMMA NanosType ==
    /\ \A m \in Int : AlarmMicrosToNanos(m) \in Int
    /\ \A m \in Nat : AlarmMicrosToNanos(m) \in Nat
BY NumbersAssumption DEF AlarmMicrosToNanos

\* When the queue has a first alarm, First is it.
LEMMA FirstIsFirst ==
    ASSUME NEW a, IsFirst(a)
    PROVE  First \in alarms /\ IsFirst(First)
BY DEF First, IsFirst

\* Reading never lowers the published uptime.
LEMMA ReadFacts ==
    ASSUME TypeOK
    PROVE  Read \in Nat /\ Read >= uptime
BY ModeAssumption DEF TypeOK, Read, Max2

\* A round of the delivery loop moves time forward only, and to the target of
\* a delay unless it stops at a deadline that is then due.
LEMMA AdvancedFacts ==
    ASSUME TypeOK, NEW c \in Ctx
    PROVE  /\ Advanced(c) \in Nat
           /\ Advanced(c) >= uptime
           /\ \/ target[c] = NoTarget
              \/ Advanced(c) >= target[c]
              \/ \E a \in alarms : Due(a, Advanced(c))
<1>1. Read \in Nat /\ Read >= uptime /\ uptime \in Nat /\ target[c] \in Int
  BY ReadFacts DEF TypeOK
<1>2. CASE target[c] # NoTarget /\ Read < target[c]
  <2>1. CASE \E a \in alarms : IsFirst(a) /\ ~Due(a, Read) /\ Due(a, target[c])
    <3>1. PICK a \in alarms : IsFirst(a) /\ ~Due(a, Read) /\ Due(a, target[c])
      BY <2>1
    <3>2. First \in alarms /\ IsFirst(First)
      BY <3>1, FirstIsFirst
    <3>3. a.deadline \in Int /\ First.deadline \in Int /\ First.deadline = a.deadline
      BY <3>1, <3>2 DEF TypeOK, Alarm, IsFirst, NotAfter
    <3>4. Advanced(c) = AlarmMicrosToNanos(First.deadline)
      BY <1>2, <2>1 DEF Advanced
    <3>5. AlarmMicrosToNanos(First.deadline) \in Int /\ ~(AlarmMicrosToNanos(First.deadline) <= Read)
      BY <3>1, <3>3, NanosType DEF Due
    <3> QED BY <1>1, <3>2, <3>4, <3>5 DEF Due
  <2>2. CASE ~\E a \in alarms : IsFirst(a) /\ ~Due(a, Read) /\ Due(a, target[c])
    <3>1. Advanced(c) = target[c]
      BY <1>2, <2>2 DEF Advanced
    <3> QED BY <1>1, <1>2, <3>1
  <2> QED BY <2>1, <2>2
<1>3. CASE ~(target[c] # NoTarget /\ Read < target[c])
  <2>1. Advanced(c) = Read
    BY <1>3 DEF Advanced
  <2> QED BY <1>1, <1>3, <2>1
<1> QED BY <1>2, <1>3

\* Every step keeps every variable in its type.
LEMMA TypeStep ==
    ASSUME TypeOK, Next
    PROVE  TypeOK'
<1>1. ASSUME NEW c \in Ctx, NEW deadline \in Deadlines, ScheduleSystemTimeAlarm(c, deadline)
      PROVE  TypeOK'
  BY <1>1, CtxFacts, ReadFacts, NumbersAssumption, InputsAssumption DEF
     ScheduleSystemTimeAlarm, TypeOK, NoTarget, Labels, Alarm, NextAlarmId,
     clockVars, wakeVars
<1>2. ASSUME NEW c \in Ctx, NEW id \in index, CancelSystemTimeAlarm(c, id)
      PROVE  TypeOK'
  BY <1>2, CtxFacts, ReadFacts, NumbersAssumption, InputsAssumption DEF
     CancelSystemTimeAlarm, TypeOK, NoTarget, Goto, Labels, Alarm, clockVars,
     stateVars, wakeVars
<1>3. ASSUME NEW c \in Ctx, ProcessSystemTimeAlarms(c)
      PROVE  TypeOK'
  BY <1>3, CtxFacts, ReadFacts, NumbersAssumption, InputsAssumption DEF
     ProcessSystemTimeAlarms, TypeOK, NoTarget, Goto, Labels, Alarm, Max2,
     queueVars, stateVars, wakeVars
<1>4. ASSUME NEW c \in Ctx, NEW duration \in Durations, system_time_delay_micros(c, duration)
      PROVE  TypeOK'
  BY <1>4, CtxFacts, ReadFacts, NanosType, NumbersAssumption, InputsAssumption
     DEF system_time_delay_micros, TypeOK, NoTarget, Goto, Labels, Alarm,
     Max2, queueVars, stateVars, wakeVars, Reservation
<1>5. ASSUME NEW c \in Ctx, NEW ns \in Lags, system_time_lag_ns(c, ns)
      PROVE  TypeOK'
  BY <1>5, CtxFacts, ReadFacts, InputsAssumption, ModeAssumption DEF
     system_time_lag_ns, TypeOK, NoTarget, Goto, Labels, Alarm, Max2,
     queueVars, stateVars, wakeVars, Lagged
<1>6. ASSUME NEW c \in Ctx, system_time_get_micros(c)
      PROVE  TypeOK'
  BY <1>6, CtxFacts, ReadFacts, NumbersAssumption, InputsAssumption DEF
     system_time_get_micros, TypeOK, NoTarget, Labels, Alarm, Max2, queueVars,
     stateVars, wakeVars, ctxVars
<1>7. ASSUME NEW c \in Ctx, system_time_sync(c)
      PROVE  TypeOK'
  BY <1>7, CtxFacts, ReadFacts, NumbersAssumption, InputsAssumption DEF
     system_time_sync, TypeOK, NoTarget, Goto, Labels, Alarm, clockVars,
     queueVars, stateVars, wakeVars
<1>8. ASSUME NEW c \in Ctx, TryBeginSystemTimeServiceShutdownForHost(c)
      PROVE  TypeOK'
  BY <1>8, CtxFacts, ReadFacts, NumbersAssumption, InputsAssumption DEF
     TryBeginSystemTimeServiceShutdownForHost, TypeOK, NoTarget, Goto, Labels,
     Alarm, clockVars, queueVars, wakeVars
<1>9. ASSUME NEW c \in Ctx, CheckFails(c)
      PROVE  TypeOK'
  BY <1>9, CtxFacts, ReadFacts, NumbersAssumption, InputsAssumption DEF
     CheckFails, TypeOK, NoTarget, Labels, Alarm, Max2, clockVars, queueVars,
     stateVars, wakeVars, ctxVars
<1>10. ASSUME NEW c \in Ctx, DeliveryRefused(c)
      PROVE  TypeOK'
  BY <1>10, CtxFacts, ReadFacts, NumbersAssumption, InputsAssumption DEF
     DeliveryRefused, TypeOK, NoTarget, Goto, Home, AfterDelivery, Labels,
     Alarm, Max2, queueVars, stateVars, wakeVars
<1>11. ASSUME NEW c \in Ctx, ClaimOwnership(c)
      PROVE  TypeOK'
  BY <1>11, CtxFacts, ReadFacts, NumbersAssumption, InputsAssumption DEF
     ClaimOwnership, TypeOK, NoTarget, Goto, Labels, Alarm, clockVars,
     queueVars, wakeVars
<1>12. ASSUME NEW c \in Ctx, NEW a \in alarms, ClaimAlarm(c, a)
      PROVE  TypeOK'
  BY <1>12, CtxFacts, AdvancedFacts DEF ClaimAlarm, TypeOK, NoTarget, Goto,
     Labels, Alarm, Max2, stateVars, wakeVars, AlarmsAfterClaim,
     IndexAfterClaim
<1>13. ASSUME NEW c \in Ctx, NoDueWork(c)
      PROVE  TypeOK'
  BY <1>13, CtxFacts, AdvancedFacts DEF NoDueWork, TypeOK, NoTarget, Goto,
     Labels, Alarm, Max2, queueVars, stateVars, wakeVars
<1>14. ASSUME NEW c \in Ctx, CallbackReturns(c)
      PROVE  TypeOK'
  BY <1>14, CtxFacts, ReadFacts, NumbersAssumption, InputsAssumption DEF
     CallbackReturns, TypeOK, NoTarget, Goto, Labels, Alarm, clockVars,
     queueVars, stateVars, wakeVars
<1>15. ASSUME NEW c \in Ctx, CallbackThrows(c)
      PROVE  TypeOK'
  <2>1. CASE c = W
    BY <1>15, <2>1 DEF CallbackThrows, TypeOK, clockVars, queueVars, stateVars,
       wakeVars, ctxVars
  <2>2. CASE c # W
    BY <1>15, <2>2 DEF CallbackThrows, TypeOK, Goto, Labels, NoTarget, clockVars,
       queueVars, stateVars, wakeVars
  <2> QED BY <2>1, <2>2
<1>16. ASSUME NEW c \in Ctx, ReleaseDeliveryOwnership(c)
      PROVE  TypeOK'
  BY <1>16, CtxFacts, ReadFacts, NumbersAssumption, InputsAssumption DEF
     ReleaseDeliveryOwnership, TypeOK, NoTarget, Goto, Labels, Alarm,
     clockVars, queueVars, wakeVars
<1>17. ASSUME NEW c \in Ctx, NotifyAlarmWorker(c)
      PROVE  TypeOK'
  BY <1>17, CtxFacts, ReadFacts, NumbersAssumption, InputsAssumption DEF
     NotifyAlarmWorker, TypeOK, NoTarget, Home, Labels, Alarm, clockVars,
     queueVars, stateVars
<1>18. ASSUME NEW c \in Ctx, PaceAutoSync(c)
      PROVE  TypeOK'
  BY <1>18, CtxFacts, ReadFacts, NumbersAssumption, InputsAssumption DEF
     PaceAutoSync, TypeOK, NoTarget, Goto, Labels, Alarm, Max2, queueVars,
     stateVars, wakeVars
<1>19. ASSUME NEW c \in Ctx, PacingSleepEnds(c)
      PROVE  TypeOK'
  BY <1>19, CtxFacts, ReadFacts, NumbersAssumption, InputsAssumption DEF
     PacingSleepEnds, TypeOK, NoTarget, Goto, Labels, Alarm, Max2, queueVars,
     stateVars, wakeVars
<1>20. ASSUME NEW c \in Ctx, JoinAlarmWorker(c)
      PROVE  TypeOK'
  BY <1>20, CtxFacts, ReadFacts, NumbersAssumption, InputsAssumption DEF
     JoinAlarmWorker, TypeOK, NoTarget, Goto, Labels, Alarm, clockVars,
     queueVars, stateVars, wakeVars
<1>21. ASSUME NEW c \in Ctx, FinishSystemTimeServiceShutdownForHost(c)
      PROVE  TypeOK'
  BY <1>21, CtxFacts, ReadFacts, NumbersAssumption, InputsAssumption DEF
     FinishSystemTimeServiceShutdownForHost, TypeOK, NoTarget, Goto, Labels,
     Alarm, clockVars, wakeVars
<1>22. ASSUME RunAlarmWorker
      PROVE  TypeOK'
  <2>1. pc' \in [Ctx -> Labels]
    BY <1>22, CtxFacts DEF RunAlarmWorker, TypeOK, Goto, Labels
  <2>2. {a.deadline : a \in {b \in alarms : IsFirst(b)}} \subseteq Int
    BY DEF TypeOK, Alarm
  <2>3. armed' \subseteq Int
    BY <1>22, <2>2 DEF RunAlarmWorker, TypeOK, wakeVars
  <2>4. stale' \in BOOLEAN /\ uptime' \in Nat
    BY <1>22, ReadFacts DEF RunAlarmWorker, TypeOK, wakeVars
  <2> QED BY <1>22, <2>1, <2>3, <2>4 DEF RunAlarmWorker, TypeOK, queueVars, stateVars
<1>23. ASSUME CompareGeneration
      PROVE  TypeOK'
  BY <1>23, CtxFacts, ReadFacts, NumbersAssumption, InputsAssumption DEF
     CompareGeneration, TypeOK, NoTarget, Goto, Labels, Alarm, clockVars,
     queueVars, stateVars
<1>24. ASSUME BeginWait
      PROVE  TypeOK'
  BY <1>24, CtxFacts, ReadFacts, NumbersAssumption, InputsAssumption DEF
     BeginWait, TypeOK, NoTarget, Goto, Labels, Alarm, clockVars, queueVars,
     stateVars, wakeVars
<1>25. ASSUME Wake
      PROVE  TypeOK'
  BY <1>25, CtxFacts, ReadFacts, NumbersAssumption, InputsAssumption DEF Wake,
     TypeOK, NoTarget, Goto, Labels, Alarm, clockVars, queueVars, stateVars
<1>26. ASSUME HostTick
      PROVE  TypeOK'
  BY <1>26, CtxFacts, ReadFacts, NumbersAssumption, InputsAssumption DEF
     HostTick, TypeOK, NoTarget, Labels, Alarm, queueVars, stateVars,
     wakeVars, ctxVars
<1>27. ASSUME UNCHANGED vars
      PROVE  TypeOK'
  BY <1>27, CtxFacts, ReadFacts, NumbersAssumption, InputsAssumption DEF
     TypeOK, NoTarget, Labels, Alarm, clockVars, queueVars, stateVars,
     wakeVars, ctxVars, vars
<1> QED
  BY <1>1, <1>2, <1>3, <1>4, <1>5, <1>6, <1>7, <1>8, <1>9, <1>10, <1>11,
     <1>12, <1>13, <1>14, <1>15, <1>16, <1>17, <1>18, <1>19, <1>20, <1>21,
     <1>22, <1>23, <1>24, <1>25, <1>26, <1>27 DEF Next, Call, Proceed,
     WorkerStep, TimedWaitExpires, SpuriousWake, Aborted

\* The initial values have their types.
LEMMA TypeInit ==
    ASSUME Init
    PROVE  TypeOK
<1>1. pc \in [Ctx -> Labels] /\ target \in [Ctx -> Int]
  BY DEF Init, Labels, NoTarget
<1>2. claim \in [Ctx -> SUBSET Alarm] /\ alarms \subseteq Alarm
  BY DEF Init
<1>3. nextId \in 0..MaxAlarmId
  BY NumbersAssumption DEF Init
<1> QED BY <1>1, <1>2, <1>3 DEF Init, TypeOK

-----------------------------------------------------------------------------
(* Delivery ownership *)

WorkerLabels == {"off", "top", "check", "commit", "asleep", "exited", "deliver",
                 "loop", "notifyCallback", "callback", "release", "notify"}

\* What makes SingleOwner inductive: a callback context is busy only while its
\* thread is inside the callback, the worker stays at labels of its own loop
\* and never advances time, and it exists from the first registration on.
ContextShape ==
    /\ \A c \in Ctx : pc[CallbackOf(c)] # "idle" => pc[CallOf(c)] = "callback"
    /\ pc[W] \in WorkerLabels
    /\ ~workerStarted => pc[W] = "off"
    /\ target[W] = NoTarget

\* Every step keeps a callback context inside a running callback of its thread.
LEMMA ShapeStep ==
    ASSUME TypeOK, ContextShape, Next
    PROVE  ContextShape'
<1>1. ASSUME NEW c \in Ctx, NEW deadline \in Deadlines, ScheduleSystemTimeAlarm(c, deadline)
      PROVE  ContextShape'
  BY <1>1, CtxFacts DEF ScheduleSystemTimeAlarm, ContextShape, TypeOK,
     WorkerLabels, CanCall, At, clockVars, wakeVars
<1>2. ASSUME NEW c \in Ctx, NEW id \in index, CancelSystemTimeAlarm(c, id)
      PROVE  ContextShape'
  BY <1>2, CtxFacts DEF CancelSystemTimeAlarm, ContextShape, TypeOK,
     WorkerLabels, CanCall, At, Goto, clockVars, stateVars, wakeVars
<1>3. ASSUME NEW c \in Ctx, ProcessSystemTimeAlarms(c)
      PROVE  ContextShape'
  BY <1>3, CtxFacts DEF ProcessSystemTimeAlarms, ContextShape, TypeOK,
     WorkerLabels, CanCall, At, Goto, queueVars, stateVars, wakeVars
<1>4. ASSUME NEW c \in Ctx, NEW duration \in Durations, system_time_delay_micros(c, duration)
      PROVE  ContextShape'
  BY <1>4, CtxFacts DEF system_time_delay_micros, ContextShape, TypeOK,
     WorkerLabels, CanCall, At, Goto, queueVars, stateVars, wakeVars
<1>5. ASSUME NEW c \in Ctx, NEW ns \in Lags, system_time_lag_ns(c, ns)
      PROVE  ContextShape'
  BY <1>5, CtxFacts DEF system_time_lag_ns, ContextShape, TypeOK,
     WorkerLabels, CanCall, At, Goto, queueVars, stateVars, wakeVars
<1>6. ASSUME NEW c \in Ctx, system_time_get_micros(c)
      PROVE  ContextShape'
  BY <1>6, CtxFacts DEF system_time_get_micros, ContextShape, TypeOK,
     WorkerLabels, CanCall, At, queueVars, stateVars, wakeVars, ctxVars
<1>7. ASSUME NEW c \in Ctx, system_time_sync(c)
      PROVE  ContextShape'
  BY <1>7, CtxFacts DEF system_time_sync, ContextShape, TypeOK, WorkerLabels,
     CanCall, At, Goto, clockVars, queueVars, stateVars, wakeVars
<1>8. ASSUME NEW c \in Ctx, TryBeginSystemTimeServiceShutdownForHost(c)
      PROVE  ContextShape'
  BY <1>8, CtxFacts DEF TryBeginSystemTimeServiceShutdownForHost,
     ContextShape, TypeOK, WorkerLabels, CanCall, At, Goto, clockVars,
     queueVars, wakeVars
<1>9. ASSUME NEW c \in Ctx, CheckFails(c)
      PROVE  ContextShape'
  BY <1>9, CtxFacts DEF CheckFails, ContextShape, TypeOK, WorkerLabels,
     CanCall, At, clockVars, queueVars, stateVars, wakeVars, ctxVars
<1>10. ASSUME NEW c \in Ctx, DeliveryRefused(c)
      PROVE  ContextShape'
  BY <1>10, CtxFacts DEF DeliveryRefused, ContextShape, TypeOK, WorkerLabels,
     At, Goto, Home, AfterDelivery, queueVars, stateVars, wakeVars
<1>11. ASSUME NEW c \in Ctx, ClaimOwnership(c)
      PROVE  ContextShape'
  BY <1>11, CtxFacts DEF ClaimOwnership, ContextShape, TypeOK, WorkerLabels,
     At, Goto, clockVars, queueVars, wakeVars
<1>12. ASSUME NEW c \in Ctx, NEW a \in alarms, ClaimAlarm(c, a)
      PROVE  ContextShape'
  BY <1>12, CtxFacts DEF ClaimAlarm, ContextShape, TypeOK, WorkerLabels, At,
     Goto, stateVars, wakeVars
<1>13. ASSUME NEW c \in Ctx, NoDueWork(c)
      PROVE  ContextShape'
  BY <1>13, CtxFacts DEF NoDueWork, ContextShape, TypeOK, WorkerLabels, At,
     Goto, queueVars, stateVars, wakeVars
<1>14. ASSUME NEW c \in Ctx, CallbackReturns(c)
      PROVE  ContextShape'
  BY <1>14, CtxFacts DEF CallbackReturns, ContextShape, TypeOK, WorkerLabels,
     At, Goto, clockVars, queueVars, stateVars, wakeVars
<1>15. ASSUME NEW c \in Ctx, CallbackThrows(c)
      PROVE  ContextShape'
  BY <1>15, CtxFacts DEF CallbackThrows, ContextShape, TypeOK, WorkerLabels,
     At, Goto, clockVars, queueVars, stateVars, wakeVars, ctxVars
<1>16. ASSUME NEW c \in Ctx, ReleaseDeliveryOwnership(c)
      PROVE  ContextShape'
  BY <1>16, CtxFacts DEF ReleaseDeliveryOwnership, ContextShape, TypeOK,
     WorkerLabels, At, Goto, clockVars, queueVars, wakeVars
<1>17. ASSUME NEW c \in Ctx, NotifyAlarmWorker(c)
      PROVE  ContextShape'
  BY <1>17, CtxFacts DEF NotifyAlarmWorker, ContextShape, TypeOK,
     WorkerLabels, Home, clockVars, queueVars, stateVars
<1>18. ASSUME NEW c \in Ctx, PaceAutoSync(c)
      PROVE  ContextShape'
  BY <1>18, CtxFacts DEF PaceAutoSync, ContextShape, TypeOK, WorkerLabels, At,
     Goto, queueVars, stateVars, wakeVars
<1>19. ASSUME NEW c \in Ctx, PacingSleepEnds(c)
      PROVE  ContextShape'
  BY <1>19, CtxFacts DEF PacingSleepEnds, ContextShape, TypeOK, WorkerLabels,
     At, Goto, queueVars, stateVars, wakeVars
<1>20. ASSUME NEW c \in Ctx, JoinAlarmWorker(c)
      PROVE  ContextShape'
  BY <1>20, CtxFacts DEF JoinAlarmWorker, ContextShape, TypeOK, WorkerLabels,
     At, Goto, clockVars, queueVars, stateVars, wakeVars
<1>21. ASSUME NEW c \in Ctx, FinishSystemTimeServiceShutdownForHost(c)
      PROVE  ContextShape'
  BY <1>21, CtxFacts DEF FinishSystemTimeServiceShutdownForHost, ContextShape,
     TypeOK, WorkerLabels, At, Goto, clockVars, wakeVars
<1>22. ASSUME RunAlarmWorker
      PROVE  ContextShape'
  BY <1>22, CtxFacts DEF RunAlarmWorker, ContextShape, TypeOK, WorkerLabels,
     At, Goto, queueVars, stateVars, wakeVars
<1>23. ASSUME CompareGeneration
      PROVE  ContextShape'
  BY <1>23, CtxFacts DEF CompareGeneration, ContextShape, TypeOK,
     WorkerLabels, At, Goto, clockVars, queueVars, stateVars
<1>24. ASSUME BeginWait
      PROVE  ContextShape'
  BY <1>24, CtxFacts DEF BeginWait, ContextShape, TypeOK, WorkerLabels, At,
     Goto, clockVars, queueVars, stateVars, wakeVars
<1>25. ASSUME Wake
      PROVE  ContextShape'
  BY <1>25, CtxFacts DEF Wake, ContextShape, TypeOK, WorkerLabels, At, Goto,
     clockVars, queueVars, stateVars
<1>26. ASSUME HostTick
      PROVE  ContextShape'
  BY <1>26, CtxFacts DEF HostTick, ContextShape, TypeOK, WorkerLabels,
     queueVars, stateVars, wakeVars, ctxVars
<1>27. ASSUME UNCHANGED vars
      PROVE  ContextShape'
  BY <1>27, CtxFacts DEF ContextShape, TypeOK, WorkerLabels, clockVars,
     queueVars, stateVars, wakeVars, ctxVars, vars
<1> QED
  BY <1>1, <1>2, <1>3, <1>4, <1>5, <1>6, <1>7, <1>8, <1>9, <1>10, <1>11,
     <1>12, <1>13, <1>14, <1>15, <1>16, <1>17, <1>18, <1>19, <1>20, <1>21,
     <1>22, <1>23, <1>24, <1>25, <1>26, <1>27 DEF Next, Call, Proceed,
     WorkerStep, TimedWaitExpires, SpuriousWake, Aborted

\* No step makes a second owner, or an owner the flag does not know of.
LEMMA OwnerStep ==
    ASSUME TypeOK, ContextShape, SingleOwner, Next
    PROVE  SingleOwner'
<1>1. ASSUME NEW c \in Ctx, NEW deadline \in Deadlines, ScheduleSystemTimeAlarm(c, deadline)
      PROVE  SingleOwner'
  BY <1>1, CtxFacts DEF ScheduleSystemTimeAlarm, SingleOwner, Delivering,
     ContextShape, TypeOK, WorkerLabels, CanCall, At, MayOwnDelivery,
     clockVars, wakeVars
<1>2. ASSUME NEW c \in Ctx, NEW id \in index, CancelSystemTimeAlarm(c, id)
      PROVE  SingleOwner'
  BY <1>2, CtxFacts DEF CancelSystemTimeAlarm, SingleOwner, Delivering,
     ContextShape, TypeOK, WorkerLabels, CanCall, At, Goto, MayOwnDelivery,
     clockVars, stateVars, wakeVars
<1>3. ASSUME NEW c \in Ctx, ProcessSystemTimeAlarms(c)
      PROVE  SingleOwner'
  BY <1>3, CtxFacts DEF ProcessSystemTimeAlarms, SingleOwner, Delivering,
     ContextShape, TypeOK, WorkerLabels, CanCall, At, Goto, MayOwnDelivery,
     queueVars, stateVars, wakeVars
<1>4. ASSUME NEW c \in Ctx, NEW duration \in Durations, system_time_delay_micros(c, duration)
      PROVE  SingleOwner'
  BY <1>4, CtxFacts DEF system_time_delay_micros, SingleOwner, Delivering,
     ContextShape, TypeOK, WorkerLabels, CanCall, At, Goto, MayOwnDelivery,
     queueVars, stateVars, wakeVars
<1>5. ASSUME NEW c \in Ctx, NEW ns \in Lags, system_time_lag_ns(c, ns)
      PROVE  SingleOwner'
  BY <1>5, CtxFacts DEF system_time_lag_ns, SingleOwner, Delivering,
     ContextShape, TypeOK, WorkerLabels, CanCall, At, Goto, MayOwnDelivery,
     queueVars, stateVars, wakeVars
<1>6. ASSUME NEW c \in Ctx, system_time_get_micros(c)
      PROVE  SingleOwner'
  BY <1>6, CtxFacts DEF system_time_get_micros, SingleOwner, Delivering,
     ContextShape, TypeOK, WorkerLabels, CanCall, At, MayOwnDelivery,
     queueVars, stateVars, wakeVars, ctxVars
<1>7. ASSUME NEW c \in Ctx, system_time_sync(c)
      PROVE  SingleOwner'
  BY <1>7, CtxFacts DEF system_time_sync, SingleOwner, Delivering,
     ContextShape, TypeOK, WorkerLabels, CanCall, At, Goto, MayOwnDelivery,
     clockVars, queueVars, stateVars, wakeVars
<1>8. ASSUME NEW c \in Ctx, TryBeginSystemTimeServiceShutdownForHost(c)
      PROVE  SingleOwner'
  BY <1>8, CtxFacts DEF TryBeginSystemTimeServiceShutdownForHost, SingleOwner,
     Delivering, ContextShape, TypeOK, WorkerLabels, CanCall, At, Goto,
     MayOwnDelivery, clockVars, queueVars, wakeVars
<1>9. ASSUME NEW c \in Ctx, CheckFails(c)
      PROVE  SingleOwner'
  BY <1>9, CtxFacts DEF CheckFails, SingleOwner, Delivering, ContextShape,
     TypeOK, WorkerLabels, CanCall, At, MayOwnDelivery, clockVars, queueVars,
     stateVars, wakeVars, ctxVars
<1>10. ASSUME NEW c \in Ctx, DeliveryRefused(c)
      PROVE  SingleOwner'
  BY <1>10, CtxFacts DEF DeliveryRefused, SingleOwner, Delivering,
     ContextShape, TypeOK, WorkerLabels, At, Goto, Home, AfterDelivery,
     MayOwnDelivery, queueVars, stateVars, wakeVars
<1>11. ASSUME NEW c \in Ctx, ClaimOwnership(c)
      PROVE  SingleOwner'
  BY <1>11, CtxFacts DEF ClaimOwnership, SingleOwner, Delivering,
     ContextShape, TypeOK, WorkerLabels, At, Goto, MayOwnDelivery, clockVars,
     queueVars, wakeVars
<1>12. ASSUME NEW c \in Ctx, NEW a \in alarms, ClaimAlarm(c, a)
      PROVE  SingleOwner'
  BY <1>12, CtxFacts DEF ClaimAlarm, SingleOwner, Delivering, ContextShape,
     TypeOK, WorkerLabels, At, Goto, MayOwnDelivery, stateVars, wakeVars
<1>13. ASSUME NEW c \in Ctx, NoDueWork(c)
      PROVE  SingleOwner'
  BY <1>13, CtxFacts DEF NoDueWork, SingleOwner, Delivering, ContextShape,
     TypeOK, WorkerLabels, At, Goto, MayOwnDelivery, queueVars, stateVars,
     wakeVars
<1>14. ASSUME NEW c \in Ctx, CallbackReturns(c)
      PROVE  SingleOwner'
  BY <1>14, CtxFacts DEF CallbackReturns, SingleOwner, Delivering,
     ContextShape, TypeOK, WorkerLabels, At, Goto, MayOwnDelivery, clockVars,
     queueVars, stateVars, wakeVars
<1>15. ASSUME NEW c \in Ctx, CallbackThrows(c)
      PROVE  SingleOwner'
  BY <1>15, CtxFacts DEF CallbackThrows, SingleOwner, Delivering,
     ContextShape, TypeOK, WorkerLabels, At, Goto, MayOwnDelivery, clockVars,
     queueVars, stateVars, wakeVars, ctxVars
<1>16. ASSUME NEW c \in Ctx, ReleaseDeliveryOwnership(c)
      PROVE  SingleOwner'
  BY <1>16, CtxFacts DEF ReleaseDeliveryOwnership, SingleOwner, Delivering,
     ContextShape, TypeOK, WorkerLabels, At, Goto, MayOwnDelivery, clockVars,
     queueVars, wakeVars
<1>17. ASSUME NEW c \in Ctx, NotifyAlarmWorker(c)
      PROVE  SingleOwner'
  BY <1>17, CtxFacts DEF NotifyAlarmWorker, SingleOwner, Delivering,
     ContextShape, TypeOK, WorkerLabels, Home, MayOwnDelivery, clockVars,
     queueVars, stateVars
<1>18. ASSUME NEW c \in Ctx, PaceAutoSync(c)
      PROVE  SingleOwner'
  BY <1>18, CtxFacts DEF PaceAutoSync, SingleOwner, Delivering, ContextShape,
     TypeOK, WorkerLabels, At, Goto, MayOwnDelivery, queueVars, stateVars,
     wakeVars
<1>19. ASSUME NEW c \in Ctx, PacingSleepEnds(c)
      PROVE  SingleOwner'
  BY <1>19, CtxFacts DEF PacingSleepEnds, SingleOwner, Delivering,
     ContextShape, TypeOK, WorkerLabels, At, Goto, MayOwnDelivery, queueVars,
     stateVars, wakeVars
<1>20. ASSUME NEW c \in Ctx, JoinAlarmWorker(c)
      PROVE  SingleOwner'
  BY <1>20, CtxFacts DEF JoinAlarmWorker, SingleOwner, Delivering,
     ContextShape, TypeOK, WorkerLabels, At, Goto, MayOwnDelivery, clockVars,
     queueVars, stateVars, wakeVars
<1>21. ASSUME NEW c \in Ctx, FinishSystemTimeServiceShutdownForHost(c)
      PROVE  SingleOwner'
  BY <1>21, CtxFacts DEF FinishSystemTimeServiceShutdownForHost, SingleOwner,
     Delivering, ContextShape, TypeOK, WorkerLabels, At, Goto, MayOwnDelivery,
     clockVars, wakeVars
<1>22. ASSUME RunAlarmWorker
      PROVE  SingleOwner'
  BY <1>22, CtxFacts DEF RunAlarmWorker, SingleOwner, Delivering,
     ContextShape, TypeOK, WorkerLabels, At, Goto, MayOwnDelivery, queueVars,
     stateVars, wakeVars
<1>23. ASSUME CompareGeneration
      PROVE  SingleOwner'
  BY <1>23, CtxFacts DEF CompareGeneration, SingleOwner, Delivering,
     ContextShape, TypeOK, WorkerLabels, At, Goto, MayOwnDelivery, clockVars,
     queueVars, stateVars
<1>24. ASSUME BeginWait
      PROVE  SingleOwner'
  BY <1>24, CtxFacts DEF BeginWait, SingleOwner, Delivering, ContextShape,
     TypeOK, WorkerLabels, At, Goto, MayOwnDelivery, clockVars, queueVars,
     stateVars, wakeVars
<1>25. ASSUME Wake
      PROVE  SingleOwner'
  BY <1>25, CtxFacts DEF Wake, SingleOwner, Delivering, ContextShape, TypeOK,
     WorkerLabels, At, Goto, MayOwnDelivery, clockVars, queueVars, stateVars
<1>26. ASSUME HostTick
      PROVE  SingleOwner'
  BY <1>26, CtxFacts DEF HostTick, SingleOwner, Delivering, ContextShape,
     TypeOK, WorkerLabels, MayOwnDelivery, queueVars, stateVars, wakeVars,
     ctxVars
<1>27. ASSUME UNCHANGED vars
      PROVE  SingleOwner'
  BY <1>27, CtxFacts DEF SingleOwner, Delivering, ContextShape, TypeOK,
     WorkerLabels, MayOwnDelivery, clockVars, queueVars, stateVars, wakeVars,
     ctxVars, vars
<1> QED
  BY <1>1, <1>2, <1>3, <1>4, <1>5, <1>6, <1>7, <1>8, <1>9, <1>10, <1>11,
     <1>12, <1>13, <1>14, <1>15, <1>16, <1>17, <1>18, <1>19, <1>20, <1>21,
     <1>22, <1>23, <1>24, <1>25, <1>26, <1>27 DEF Next, Call, Proceed,
     WorkerStep, TimedWaitExpires, SpuriousWake, Aborted

-----------------------------------------------------------------------------
(* The queue, the index and the claimed callback *)

\* The ids handed out: registration adds the current one, nothing removes any.
LEMMA UsedIdsFacts ==
    ASSUME TypeOK
    PROVE  /\ UsedIds \subseteq 1..MaxAlarmId
           /\ nextId \notin UsedIds
           /\ nextId # 0 /\ nextId' = NextAlarmId(nextId)
                => UsedIds' = UsedIds \cup {nextId}
BY NumbersAssumption DEF TypeOK, UsedIds, NextAlarmId

\* A context holds a callback only between claiming it and its return, and
\* holds one at a time.
ClaimShape ==
    \A c \in Ctx : /\ claim[c] # {} => pc[c] \in {"notifyCallback", "callback"}
                   /\ \A a, b \in claim[c] : a = b

\* Registration, cancellation and delivery change queue and index together.
LEMMA IndexStep ==
    ASSUME TypeOK, IndexConsistent, Next
    PROVE  IndexConsistent'
<1>1. ASSUME NEW c \in Ctx, NEW deadline \in Deadlines, ScheduleSystemTimeAlarm(c, deadline)
      PROVE  IndexConsistent'
  <2> DEFINE new == [id |-> nextId, deadline |-> deadline]
  <2>1. /\ alarms' = alarms \cup {new} /\ index' = index \cup {nextId}
        /\ nextId # 0 /\ nextId' = NextAlarmId(nextId)
    BY <1>1 DEF ScheduleSystemTimeAlarm, ScheduleChecks
  <2>2. UsedIds' = UsedIds \cup {nextId} /\ nextId \notin UsedIds
    BY <2>1, UsedIdsFacts
  <2>3. \A a \in alarms : a.id # nextId
    BY <2>2 DEF IndexConsistent
  <2>4. new.id = nextId
    OBVIOUS
  <2>5. index' = {a.id : a \in alarms'}
    BY <2>1, <2>4 DEF IndexConsistent
  <2>6. \A a, b \in alarms' : a.id = b.id => a = b
    BY <2>1, <2>3, <2>4 DEF IndexConsistent
  <2>7. index' \subseteq UsedIds'
    BY <2>1, <2>2 DEF IndexConsistent
  <2> QED BY <2>5, <2>6, <2>7 DEF IndexConsistent
<1>2. ASSUME NEW c \in Ctx, NEW id \in index, CancelSystemTimeAlarm(c, id)
      PROVE  IndexConsistent'
  <2>1. index' = {a.id : a \in alarms'}
    BY <1>2 DEF CancelSystemTimeAlarm, IndexConsistent
  <2>2. UsedIds' = UsedIds
    BY <1>2 DEF CancelSystemTimeAlarm, UsedIds
  <2> QED BY <1>2, <2>1, <2>2 DEF CancelSystemTimeAlarm, IndexConsistent
<1>3. ASSUME NEW c \in Ctx, ProcessSystemTimeAlarms(c)
      PROVE  IndexConsistent'
  BY <1>3 DEF ProcessSystemTimeAlarms, IndexConsistent, UsedIds, queueVars,
     stateVars, wakeVars
<1>4. ASSUME NEW c \in Ctx, NEW duration \in Durations, system_time_delay_micros(c, duration)
      PROVE  IndexConsistent'
  BY <1>4 DEF system_time_delay_micros, IndexConsistent, UsedIds, queueVars,
     stateVars, wakeVars
<1>5. ASSUME NEW c \in Ctx, NEW ns \in Lags, system_time_lag_ns(c, ns)
      PROVE  IndexConsistent'
  BY <1>5 DEF system_time_lag_ns, IndexConsistent, UsedIds, queueVars,
     stateVars, wakeVars
<1>6. ASSUME NEW c \in Ctx, system_time_get_micros(c)
      PROVE  IndexConsistent'
  BY <1>6 DEF system_time_get_micros, IndexConsistent, UsedIds, queueVars,
     stateVars, wakeVars, ctxVars
<1>7. ASSUME NEW c \in Ctx, system_time_sync(c)
      PROVE  IndexConsistent'
  BY <1>7 DEF system_time_sync, IndexConsistent, UsedIds, clockVars,
     queueVars, stateVars, wakeVars
<1>8. ASSUME NEW c \in Ctx, TryBeginSystemTimeServiceShutdownForHost(c)
      PROVE  IndexConsistent'
  BY <1>8 DEF TryBeginSystemTimeServiceShutdownForHost, IndexConsistent,
     UsedIds, clockVars, queueVars, wakeVars
<1>9. ASSUME NEW c \in Ctx, CheckFails(c)
      PROVE  IndexConsistent'
  BY <1>9 DEF CheckFails, IndexConsistent, UsedIds, clockVars, queueVars,
     stateVars, wakeVars, ctxVars
<1>10. ASSUME NEW c \in Ctx, DeliveryRefused(c)
      PROVE  IndexConsistent'
  BY <1>10 DEF DeliveryRefused, IndexConsistent, UsedIds, queueVars,
     stateVars, wakeVars
<1>11. ASSUME NEW c \in Ctx, ClaimOwnership(c)
      PROVE  IndexConsistent'
  BY <1>11 DEF ClaimOwnership, IndexConsistent, UsedIds, clockVars, queueVars,
     wakeVars
<1>12. ASSUME NEW c \in Ctx, NEW a \in alarms, ClaimAlarm(c, a)
      PROVE  IndexConsistent'
  <2>1. alarms' = alarms \ {a} /\ index' = index \ {a.id} /\ UsedIds' = UsedIds
    BY <1>12 DEF ClaimAlarm, AlarmsAfterClaim, IndexAfterClaim, UsedIds
  <2>2. index' = {b.id : b \in alarms'}
    BY <2>1 DEF IndexConsistent
  <2> QED BY <2>1, <2>2 DEF IndexConsistent
<1>13. ASSUME NEW c \in Ctx, NoDueWork(c)
      PROVE  IndexConsistent'
  BY <1>13 DEF NoDueWork, IndexConsistent, UsedIds, queueVars, stateVars,
     wakeVars
<1>14. ASSUME NEW c \in Ctx, CallbackReturns(c)
      PROVE  IndexConsistent'
  BY <1>14 DEF CallbackReturns, IndexConsistent, UsedIds, clockVars,
     queueVars, stateVars, wakeVars
<1>15. ASSUME NEW c \in Ctx, CallbackThrows(c)
      PROVE  IndexConsistent'
  BY <1>15 DEF CallbackThrows, IndexConsistent, UsedIds, clockVars, queueVars,
     stateVars, wakeVars, ctxVars
<1>16. ASSUME NEW c \in Ctx, ReleaseDeliveryOwnership(c)
      PROVE  IndexConsistent'
  BY <1>16 DEF ReleaseDeliveryOwnership, IndexConsistent, UsedIds, clockVars,
     queueVars, wakeVars
<1>17. ASSUME NEW c \in Ctx, NotifyAlarmWorker(c)
      PROVE  IndexConsistent'
  BY <1>17 DEF NotifyAlarmWorker, IndexConsistent, UsedIds, clockVars,
     queueVars, stateVars
<1>18. ASSUME NEW c \in Ctx, PaceAutoSync(c)
      PROVE  IndexConsistent'
  BY <1>18 DEF PaceAutoSync, IndexConsistent, UsedIds, queueVars, stateVars,
     wakeVars
<1>19. ASSUME NEW c \in Ctx, PacingSleepEnds(c)
      PROVE  IndexConsistent'
  BY <1>19 DEF PacingSleepEnds, IndexConsistent, UsedIds, queueVars,
     stateVars, wakeVars
<1>20. ASSUME NEW c \in Ctx, JoinAlarmWorker(c)
      PROVE  IndexConsistent'
  BY <1>20 DEF JoinAlarmWorker, IndexConsistent, UsedIds, clockVars,
     queueVars, stateVars, wakeVars
<1>21. ASSUME NEW c \in Ctx, FinishSystemTimeServiceShutdownForHost(c)
      PROVE  IndexConsistent'
  BY <1>21 DEF FinishSystemTimeServiceShutdownForHost, IndexConsistent,
     UsedIds, clockVars, wakeVars
<1>22. ASSUME RunAlarmWorker
      PROVE  IndexConsistent'
  BY <1>22 DEF RunAlarmWorker, IndexConsistent, UsedIds, queueVars, stateVars,
     wakeVars
<1>23. ASSUME CompareGeneration
      PROVE  IndexConsistent'
  BY <1>23 DEF CompareGeneration, IndexConsistent, UsedIds, clockVars,
     queueVars, stateVars
<1>24. ASSUME BeginWait
      PROVE  IndexConsistent'
  BY <1>24 DEF BeginWait, IndexConsistent, UsedIds, clockVars, queueVars,
     stateVars, wakeVars
<1>25. ASSUME Wake
      PROVE  IndexConsistent'
  BY <1>25 DEF Wake, IndexConsistent, UsedIds, clockVars, queueVars, stateVars
<1>26. ASSUME HostTick
      PROVE  IndexConsistent'
  BY <1>26 DEF HostTick, IndexConsistent, UsedIds, queueVars, stateVars,
     wakeVars, ctxVars
<1>27. ASSUME UNCHANGED vars
      PROVE  IndexConsistent'
  BY <1>27 DEF IndexConsistent, UsedIds, clockVars, queueVars, stateVars,
     wakeVars, ctxVars, vars
<1> QED
  BY <1>1, <1>2, <1>3, <1>4, <1>5, <1>6, <1>7, <1>8, <1>9, <1>10, <1>11,
     <1>12, <1>13, <1>14, <1>15, <1>16, <1>17, <1>18, <1>19, <1>20, <1>21,
     <1>22, <1>23, <1>24, <1>25, <1>26, <1>27 DEF Next, Call, Proceed,
     WorkerStep, TimedWaitExpires, SpuriousWake, Aborted

\* Only a context that runs or is about to run a callback holds a claim.
LEMMA ClaimShapeStep ==
    ASSUME TypeOK, ContextShape, ClaimShape, Next
    PROVE  ClaimShape'
<1>1. ASSUME NEW c \in Ctx, NEW deadline \in Deadlines, ScheduleSystemTimeAlarm(c, deadline)
      PROVE  ClaimShape'
  BY <1>1, CtxFacts DEF ScheduleSystemTimeAlarm, ClaimShape, ContextShape,
     WorkerLabels, TypeOK, CanCall, At, clockVars, wakeVars
<1>2. ASSUME NEW c \in Ctx, NEW id \in index, CancelSystemTimeAlarm(c, id)
      PROVE  ClaimShape'
  BY <1>2, CtxFacts DEF CancelSystemTimeAlarm, ClaimShape, ContextShape,
     WorkerLabels, TypeOK, CanCall, At, Goto, clockVars, stateVars, wakeVars
<1>3. ASSUME NEW c \in Ctx, ProcessSystemTimeAlarms(c)
      PROVE  ClaimShape'
  BY <1>3, CtxFacts DEF ProcessSystemTimeAlarms, ClaimShape, ContextShape,
     WorkerLabels, TypeOK, CanCall, At, Goto, queueVars, stateVars, wakeVars
<1>4. ASSUME NEW c \in Ctx, NEW duration \in Durations, system_time_delay_micros(c, duration)
      PROVE  ClaimShape'
  BY <1>4, CtxFacts DEF system_time_delay_micros, ClaimShape, ContextShape,
     WorkerLabels, TypeOK, CanCall, At, Goto, queueVars, stateVars, wakeVars
<1>5. ASSUME NEW c \in Ctx, NEW ns \in Lags, system_time_lag_ns(c, ns)
      PROVE  ClaimShape'
  BY <1>5, CtxFacts DEF system_time_lag_ns, ClaimShape, ContextShape,
     WorkerLabels, TypeOK, CanCall, At, Goto, queueVars, stateVars, wakeVars
<1>6. ASSUME NEW c \in Ctx, system_time_get_micros(c)
      PROVE  ClaimShape'
  BY <1>6, CtxFacts DEF system_time_get_micros, ClaimShape, ContextShape,
     WorkerLabels, TypeOK, CanCall, At, queueVars, stateVars, wakeVars,
     ctxVars
<1>7. ASSUME NEW c \in Ctx, system_time_sync(c)
      PROVE  ClaimShape'
  BY <1>7, CtxFacts DEF system_time_sync, ClaimShape, ContextShape,
     WorkerLabels, TypeOK, CanCall, At, Goto, clockVars, queueVars, stateVars,
     wakeVars
<1>8. ASSUME NEW c \in Ctx, TryBeginSystemTimeServiceShutdownForHost(c)
      PROVE  ClaimShape'
  BY <1>8, CtxFacts DEF TryBeginSystemTimeServiceShutdownForHost, ClaimShape,
     ContextShape, WorkerLabels, TypeOK, CanCall, At, Goto, clockVars,
     queueVars, wakeVars
<1>9. ASSUME NEW c \in Ctx, CheckFails(c)
      PROVE  ClaimShape'
  BY <1>9, CtxFacts DEF CheckFails, ClaimShape, ContextShape, WorkerLabels,
     TypeOK, CanCall, At, clockVars, queueVars, stateVars, wakeVars, ctxVars
<1>10. ASSUME NEW c \in Ctx, DeliveryRefused(c)
      PROVE  ClaimShape'
  BY <1>10, CtxFacts DEF DeliveryRefused, ClaimShape, ContextShape,
     WorkerLabels, TypeOK, At, Goto, Home, AfterDelivery, queueVars,
     stateVars, wakeVars
<1>11. ASSUME NEW c \in Ctx, ClaimOwnership(c)
      PROVE  ClaimShape'
  BY <1>11, CtxFacts DEF ClaimOwnership, ClaimShape, ContextShape,
     WorkerLabels, TypeOK, At, Goto, clockVars, queueVars, wakeVars
<1>12. ASSUME NEW c \in Ctx, NEW a \in alarms, ClaimAlarm(c, a)
      PROVE  ClaimShape'
  BY <1>12, CtxFacts DEF ClaimAlarm, ClaimShape, ContextShape, WorkerLabels,
     TypeOK, At, Goto, stateVars, wakeVars
<1>13. ASSUME NEW c \in Ctx, NoDueWork(c)
      PROVE  ClaimShape'
  BY <1>13, CtxFacts DEF NoDueWork, ClaimShape, ContextShape, WorkerLabels,
     TypeOK, At, Goto, queueVars, stateVars, wakeVars
<1>14. ASSUME NEW c \in Ctx, CallbackReturns(c)
      PROVE  ClaimShape'
  BY <1>14, CtxFacts DEF CallbackReturns, ClaimShape, ContextShape,
     WorkerLabels, TypeOK, At, Goto, clockVars, queueVars, stateVars, wakeVars
<1>15. ASSUME NEW c \in Ctx, CallbackThrows(c)
      PROVE  ClaimShape'
  BY <1>15, CtxFacts DEF CallbackThrows, ClaimShape, ContextShape,
     WorkerLabels, TypeOK, At, Goto, clockVars, queueVars, stateVars,
     wakeVars, ctxVars
<1>16. ASSUME NEW c \in Ctx, ReleaseDeliveryOwnership(c)
      PROVE  ClaimShape'
  BY <1>16, CtxFacts DEF ReleaseDeliveryOwnership, ClaimShape, ContextShape,
     WorkerLabels, TypeOK, At, Goto, clockVars, queueVars, wakeVars
<1>17. ASSUME NEW c \in Ctx, NotifyAlarmWorker(c)
      PROVE  ClaimShape'
  BY <1>17, CtxFacts DEF NotifyAlarmWorker, ClaimShape, ContextShape,
     WorkerLabels, TypeOK, Home, clockVars, queueVars, stateVars
<1>18. ASSUME NEW c \in Ctx, PaceAutoSync(c)
      PROVE  ClaimShape'
  BY <1>18, CtxFacts DEF PaceAutoSync, ClaimShape, ContextShape, WorkerLabels,
     TypeOK, At, Goto, queueVars, stateVars, wakeVars
<1>19. ASSUME NEW c \in Ctx, PacingSleepEnds(c)
      PROVE  ClaimShape'
  BY <1>19, CtxFacts DEF PacingSleepEnds, ClaimShape, ContextShape,
     WorkerLabels, TypeOK, At, Goto, queueVars, stateVars, wakeVars
<1>20. ASSUME NEW c \in Ctx, JoinAlarmWorker(c)
      PROVE  ClaimShape'
  BY <1>20, CtxFacts DEF JoinAlarmWorker, ClaimShape, ContextShape,
     WorkerLabels, TypeOK, At, Goto, clockVars, queueVars, stateVars, wakeVars
<1>21. ASSUME NEW c \in Ctx, FinishSystemTimeServiceShutdownForHost(c)
      PROVE  ClaimShape'
  BY <1>21, CtxFacts DEF FinishSystemTimeServiceShutdownForHost, ClaimShape,
     ContextShape, WorkerLabels, TypeOK, At, Goto, clockVars, wakeVars
<1>22. ASSUME RunAlarmWorker
      PROVE  ClaimShape'
  BY <1>22, CtxFacts DEF RunAlarmWorker, ClaimShape, ContextShape,
     WorkerLabels, TypeOK, At, Goto, queueVars, stateVars, wakeVars
<1>23. ASSUME CompareGeneration
      PROVE  ClaimShape'
  BY <1>23, CtxFacts DEF CompareGeneration, ClaimShape, ContextShape,
     WorkerLabels, TypeOK, At, Goto, clockVars, queueVars, stateVars
<1>24. ASSUME BeginWait
      PROVE  ClaimShape'
  BY <1>24, CtxFacts DEF BeginWait, ClaimShape, ContextShape, WorkerLabels,
     TypeOK, At, Goto, clockVars, queueVars, stateVars, wakeVars
<1>25. ASSUME Wake
      PROVE  ClaimShape'
  BY <1>25, CtxFacts DEF Wake, ClaimShape, ContextShape, WorkerLabels, TypeOK,
     At, Goto, clockVars, queueVars, stateVars
<1>26. ASSUME HostTick
      PROVE  ClaimShape'
  BY <1>26, CtxFacts DEF HostTick, ClaimShape, ContextShape, WorkerLabels,
     TypeOK, queueVars, stateVars, wakeVars, ctxVars
<1>27. ASSUME UNCHANGED vars
      PROVE  ClaimShape'
  BY <1>27, CtxFacts DEF ClaimShape, ContextShape, WorkerLabels, TypeOK,
     clockVars, queueVars, stateVars, wakeVars, ctxVars, vars
<1> QED
  BY <1>1, <1>2, <1>3, <1>4, <1>5, <1>6, <1>7, <1>8, <1>9, <1>10, <1>11,
     <1>12, <1>13, <1>14, <1>15, <1>16, <1>17, <1>18, <1>19, <1>20, <1>21,
     <1>22, <1>23, <1>24, <1>25, <1>26, <1>27 DEF Next, Call, Proceed,
     WorkerStep, TimedWaitExpires, SpuriousWake, Aborted

\* No step lowers the published uptime.
LEMMA UptimeStep ==
    ASSUME TypeOK, Next
    PROVE  uptime' \in Nat /\ uptime' >= uptime
<1>1. ASSUME NEW c \in Ctx, NEW deadline \in Deadlines, ScheduleSystemTimeAlarm(c, deadline)
      PROVE  uptime' \in Nat /\ uptime' >= uptime
  BY <1>1, ReadFacts DEF ScheduleSystemTimeAlarm, TypeOK, clockVars, wakeVars
<1>2. ASSUME NEW c \in Ctx, NEW id \in index, CancelSystemTimeAlarm(c, id)
      PROVE  uptime' \in Nat /\ uptime' >= uptime
  BY <1>2, ReadFacts DEF CancelSystemTimeAlarm, TypeOK, clockVars, stateVars,
     wakeVars
<1>3. ASSUME NEW c \in Ctx, ProcessSystemTimeAlarms(c)
      PROVE  uptime' \in Nat /\ uptime' >= uptime
  BY <1>3, ReadFacts DEF ProcessSystemTimeAlarms, TypeOK, Max2, queueVars,
     stateVars, wakeVars
<1>4. ASSUME NEW c \in Ctx, NEW duration \in Durations, system_time_delay_micros(c, duration)
      PROVE  uptime' \in Nat /\ uptime' >= uptime
  BY <1>4, ReadFacts DEF system_time_delay_micros, TypeOK, Max2, queueVars,
     stateVars, wakeVars
<1>5. ASSUME NEW c \in Ctx, NEW ns \in Lags, system_time_lag_ns(c, ns)
      PROVE  uptime' \in Nat /\ uptime' >= uptime
  BY <1>5, InputsAssumption, ModeAssumption DEF system_time_lag_ns, TypeOK,
     Lagged, Max2
<1>6. ASSUME NEW c \in Ctx, system_time_get_micros(c)
      PROVE  uptime' \in Nat /\ uptime' >= uptime
  BY <1>6, ReadFacts DEF system_time_get_micros, TypeOK, Max2, queueVars,
     stateVars, wakeVars, ctxVars
<1>7. ASSUME NEW c \in Ctx, system_time_sync(c)
      PROVE  uptime' \in Nat /\ uptime' >= uptime
  BY <1>7, ReadFacts DEF system_time_sync, TypeOK, clockVars, queueVars,
     stateVars, wakeVars
<1>8. ASSUME NEW c \in Ctx, TryBeginSystemTimeServiceShutdownForHost(c)
      PROVE  uptime' \in Nat /\ uptime' >= uptime
  BY <1>8, ReadFacts DEF TryBeginSystemTimeServiceShutdownForHost, TypeOK,
     clockVars, queueVars, wakeVars
<1>9. ASSUME NEW c \in Ctx, CheckFails(c)
      PROVE  uptime' \in Nat /\ uptime' >= uptime
  BY <1>9, ReadFacts DEF CheckFails, TypeOK, Max2, clockVars, queueVars,
     stateVars, wakeVars, ctxVars
<1>10. ASSUME NEW c \in Ctx, DeliveryRefused(c)
      PROVE  uptime' \in Nat /\ uptime' >= uptime
  BY <1>10, ReadFacts DEF DeliveryRefused, TypeOK, Max2, queueVars, stateVars,
     wakeVars
<1>11. ASSUME NEW c \in Ctx, ClaimOwnership(c)
      PROVE  uptime' \in Nat /\ uptime' >= uptime
  BY <1>11, ReadFacts DEF ClaimOwnership, TypeOK, clockVars, queueVars,
     wakeVars
<1>12. ASSUME NEW c \in Ctx, NEW a \in alarms, ClaimAlarm(c, a)
      PROVE  uptime' \in Nat /\ uptime' >= uptime
  BY <1>12, AdvancedFacts DEF ClaimAlarm
<1>13. ASSUME NEW c \in Ctx, NoDueWork(c)
      PROVE  uptime' \in Nat /\ uptime' >= uptime
  BY <1>13, AdvancedFacts DEF NoDueWork
<1>14. ASSUME NEW c \in Ctx, CallbackReturns(c)
      PROVE  uptime' \in Nat /\ uptime' >= uptime
  BY <1>14, ReadFacts DEF CallbackReturns, TypeOK, clockVars, queueVars,
     stateVars, wakeVars
<1>15. ASSUME NEW c \in Ctx, CallbackThrows(c)
      PROVE  uptime' \in Nat /\ uptime' >= uptime
  BY <1>15, ReadFacts DEF CallbackThrows, TypeOK, clockVars, queueVars,
     stateVars, wakeVars, ctxVars
<1>16. ASSUME NEW c \in Ctx, ReleaseDeliveryOwnership(c)
      PROVE  uptime' \in Nat /\ uptime' >= uptime
  BY <1>16, ReadFacts DEF ReleaseDeliveryOwnership, TypeOK, clockVars,
     queueVars, wakeVars
<1>17. ASSUME NEW c \in Ctx, NotifyAlarmWorker(c)
      PROVE  uptime' \in Nat /\ uptime' >= uptime
  BY <1>17, ReadFacts DEF NotifyAlarmWorker, TypeOK, clockVars, queueVars,
     stateVars
<1>18. ASSUME NEW c \in Ctx, PaceAutoSync(c)
      PROVE  uptime' \in Nat /\ uptime' >= uptime
  BY <1>18, ReadFacts DEF PaceAutoSync, TypeOK, Max2, queueVars, stateVars,
     wakeVars
<1>19. ASSUME NEW c \in Ctx, PacingSleepEnds(c)
      PROVE  uptime' \in Nat /\ uptime' >= uptime
  BY <1>19, ReadFacts DEF PacingSleepEnds, TypeOK, Max2, queueVars, stateVars,
     wakeVars
<1>20. ASSUME NEW c \in Ctx, JoinAlarmWorker(c)
      PROVE  uptime' \in Nat /\ uptime' >= uptime
  BY <1>20, ReadFacts DEF JoinAlarmWorker, TypeOK, clockVars, queueVars,
     stateVars, wakeVars
<1>21. ASSUME NEW c \in Ctx, FinishSystemTimeServiceShutdownForHost(c)
      PROVE  uptime' \in Nat /\ uptime' >= uptime
  BY <1>21, ReadFacts DEF FinishSystemTimeServiceShutdownForHost, TypeOK,
     clockVars, wakeVars
<1>22. ASSUME RunAlarmWorker
      PROVE  uptime' \in Nat /\ uptime' >= uptime
  BY <1>22, ReadFacts DEF RunAlarmWorker, TypeOK, Max2, queueVars, stateVars,
     wakeVars
<1>23. ASSUME CompareGeneration
      PROVE  uptime' \in Nat /\ uptime' >= uptime
  BY <1>23, ReadFacts DEF CompareGeneration, TypeOK, clockVars, queueVars,
     stateVars
<1>24. ASSUME BeginWait
      PROVE  uptime' \in Nat /\ uptime' >= uptime
  BY <1>24, ReadFacts DEF BeginWait, TypeOK, clockVars, queueVars, stateVars,
     wakeVars
<1>25. ASSUME Wake
      PROVE  uptime' \in Nat /\ uptime' >= uptime
  BY <1>25, ReadFacts DEF Wake, TypeOK, clockVars, queueVars, stateVars
<1>26. ASSUME HostTick
      PROVE  uptime' \in Nat /\ uptime' >= uptime
  BY <1>26, ReadFacts DEF HostTick, TypeOK, queueVars, stateVars, wakeVars,
     ctxVars
<1>27. ASSUME UNCHANGED vars
      PROVE  uptime' \in Nat /\ uptime' >= uptime
  BY <1>27, ReadFacts DEF TypeOK, clockVars, queueVars, stateVars, wakeVars,
     ctxVars, vars
<1> QED
  BY <1>1, <1>2, <1>3, <1>4, <1>5, <1>6, <1>7, <1>8, <1>9, <1>10, <1>11,
     <1>12, <1>13, <1>14, <1>15, <1>16, <1>17, <1>18, <1>19, <1>20, <1>21,
     <1>22, <1>23, <1>24, <1>25, <1>26, <1>27 DEF Next, Call, Proceed,
     WorkerStep, TimedWaitExpires, SpuriousWake, Aborted

\* Claimed alarms stay due and out of the index as long as time does not go
\* back, no context claims and no id returns to the index.
LEMMA ClaimsStayGood ==
    ASSUME TypeOK, ClaimedIsDueAndGone,
           uptime' \in Nat, uptime' >= uptime,
           \A c \in Ctx : claim'[c] \subseteq claim[c],
           UsedIds \subseteq UsedIds', index' \cap UsedIds \subseteq index
    PROVE  ClaimedIsDueAndGone'
<1> SUFFICES ASSUME NEW c \in Ctx, NEW a \in claim'[c]
             PROVE  AlarmMicrosToNanos(a.deadline) <= uptime' /\ a.id \in UsedIds' \ index'
  BY DEF ClaimedIsDueAndGone, AlarmMicrosToNanos
<1>1. a \in claim[c] /\ a \in Alarm /\ a.deadline \in Int
  BY DEF TypeOK, Alarm
<1>2. AlarmMicrosToNanos(a.deadline) <= uptime /\ a.id \in UsedIds \ index
  BY <1>1 DEF ClaimedIsDueAndGone
<1>3. AlarmMicrosToNanos(a.deadline) \in Int /\ uptime \in Nat
  BY <1>1, NanosType DEF TypeOK
<1> QED BY <1>2, <1>3

\* A claimed alarm stays due and out of the index.
LEMMA ClaimedStep ==
    ASSUME TypeOK, IndexConsistent, ClaimedIsDueAndGone, Next
    PROVE  ClaimedIsDueAndGone'
<1>u. uptime' \in Nat /\ uptime' >= uptime
  BY UptimeStep
<1>1. ASSUME NEW c \in Ctx, NEW deadline \in Deadlines, ScheduleSystemTimeAlarm(c, deadline)
      PROVE  ClaimedIsDueAndGone'
  <2>1. /\ index' = index \cup {nextId} /\ UNCHANGED claim
        /\ nextId # 0 /\ nextId' = NextAlarmId(nextId)
    BY <1>1 DEF ScheduleSystemTimeAlarm, ScheduleChecks
  <2>2. UsedIds' = UsedIds \cup {nextId} /\ nextId \notin UsedIds
    BY <2>1, UsedIdsFacts
  <2> QED BY <1>u, <2>1, <2>2, ClaimsStayGood
<1>2. ASSUME NEW c \in Ctx, NEW id \in index, CancelSystemTimeAlarm(c, id)
      PROVE  ClaimedIsDueAndGone'
  BY <1>2, <1>u, ClaimsStayGood DEF CancelSystemTimeAlarm, TypeOK, UsedIds,
     clockVars, stateVars, wakeVars
<1>3. ASSUME NEW c \in Ctx, ProcessSystemTimeAlarms(c)
      PROVE  ClaimedIsDueAndGone'
  BY <1>3, <1>u, ClaimsStayGood DEF ProcessSystemTimeAlarms, TypeOK, UsedIds,
     queueVars, stateVars, wakeVars
<1>4. ASSUME NEW c \in Ctx, NEW duration \in Durations, system_time_delay_micros(c, duration)
      PROVE  ClaimedIsDueAndGone'
  BY <1>4, <1>u, ClaimsStayGood DEF system_time_delay_micros, TypeOK, UsedIds,
     queueVars, stateVars, wakeVars
<1>5. ASSUME NEW c \in Ctx, NEW ns \in Lags, system_time_lag_ns(c, ns)
      PROVE  ClaimedIsDueAndGone'
  BY <1>5, <1>u, ClaimsStayGood DEF system_time_lag_ns, TypeOK, UsedIds,
     queueVars, stateVars, wakeVars
<1>6. ASSUME NEW c \in Ctx, system_time_get_micros(c)
      PROVE  ClaimedIsDueAndGone'
  BY <1>6, <1>u, ClaimsStayGood DEF system_time_get_micros, TypeOK, UsedIds,
     queueVars, stateVars, wakeVars, ctxVars
<1>7. ASSUME NEW c \in Ctx, system_time_sync(c)
      PROVE  ClaimedIsDueAndGone'
  BY <1>7, <1>u, ClaimsStayGood DEF system_time_sync, TypeOK, UsedIds,
     clockVars, queueVars, stateVars, wakeVars
<1>8. ASSUME NEW c \in Ctx, TryBeginSystemTimeServiceShutdownForHost(c)
      PROVE  ClaimedIsDueAndGone'
  BY <1>8, <1>u, ClaimsStayGood DEF TryBeginSystemTimeServiceShutdownForHost,
     TypeOK, UsedIds, clockVars, queueVars, wakeVars
<1>9. ASSUME NEW c \in Ctx, CheckFails(c)
      PROVE  ClaimedIsDueAndGone'
  BY <1>9, <1>u, ClaimsStayGood DEF CheckFails, TypeOK, UsedIds, clockVars,
     queueVars, stateVars, wakeVars, ctxVars
<1>10. ASSUME NEW c \in Ctx, DeliveryRefused(c)
      PROVE  ClaimedIsDueAndGone'
  BY <1>10, <1>u, ClaimsStayGood DEF DeliveryRefused, TypeOK, UsedIds,
     queueVars, stateVars, wakeVars
<1>11. ASSUME NEW c \in Ctx, ClaimOwnership(c)
      PROVE  ClaimedIsDueAndGone'
  BY <1>11, <1>u, ClaimsStayGood DEF ClaimOwnership, TypeOK, UsedIds,
     clockVars, queueVars, wakeVars
<1>12. ASSUME NEW c \in Ctx, NEW a \in alarms, ClaimAlarm(c, a)
      PROVE  ClaimedIsDueAndGone'
  <2>1. /\ IsFirst(a) /\ Due(a, uptime') /\ claim' = [claim EXCEPT ![c] = {a}]
        /\ index' = index \ {a.id} /\ UsedIds' = UsedIds
    BY <1>12 DEF ClaimAlarm, IndexAfterClaim, UsedIds
  <2>2. a.id \in UsedIds
    BY DEF IndexConsistent
  <2>3. claim' \in [Ctx -> SUBSET Alarm] /\ claim \in [Ctx -> SUBSET Alarm]
    BY TypeStep DEF TypeOK
  <2>4. ASSUME NEW d \in Ctx, NEW b \in claim'[d]
        PROVE  AlarmMicrosToNanos(b.deadline) <= uptime' /\ b.id \in UsedIds' \ index'
    <3>1. CASE d = c
      BY <2>1, <2>2, <2>3, <3>1 DEF Due
    <3>2. CASE d # c
      <4>1. b \in claim[d] /\ b.deadline \in Int
        BY <2>1, <2>3, <3>2 DEF Alarm
      <4>2. AlarmMicrosToNanos(b.deadline) <= uptime /\ b.id \in UsedIds \ index
        BY <4>1 DEF ClaimedIsDueAndGone
      <4>3. AlarmMicrosToNanos(b.deadline) \in Int /\ uptime \in Nat
        BY <4>1, NanosType DEF TypeOK
      <4> QED BY <1>u, <2>1, <4>2, <4>3
    <3> QED BY <3>1, <3>2
  <2> QED BY <2>4 DEF ClaimedIsDueAndGone, AlarmMicrosToNanos
<1>13. ASSUME NEW c \in Ctx, NoDueWork(c)
      PROVE  ClaimedIsDueAndGone'
  BY <1>13, <1>u, ClaimsStayGood DEF NoDueWork, TypeOK, UsedIds, queueVars,
     stateVars, wakeVars
<1>14. ASSUME NEW c \in Ctx, CallbackReturns(c)
      PROVE  ClaimedIsDueAndGone'
  BY <1>14, <1>u, ClaimsStayGood DEF CallbackReturns, TypeOK, UsedIds,
     clockVars, queueVars, stateVars, wakeVars
<1>15. ASSUME NEW c \in Ctx, CallbackThrows(c)
      PROVE  ClaimedIsDueAndGone'
  BY <1>15, <1>u, ClaimsStayGood DEF CallbackThrows, TypeOK, UsedIds,
     clockVars, queueVars, stateVars, wakeVars, ctxVars
<1>16. ASSUME NEW c \in Ctx, ReleaseDeliveryOwnership(c)
      PROVE  ClaimedIsDueAndGone'
  BY <1>16, <1>u, ClaimsStayGood DEF ReleaseDeliveryOwnership, TypeOK,
     UsedIds, clockVars, queueVars, wakeVars
<1>17. ASSUME NEW c \in Ctx, NotifyAlarmWorker(c)
      PROVE  ClaimedIsDueAndGone'
  BY <1>17, <1>u, ClaimsStayGood DEF NotifyAlarmWorker, TypeOK, UsedIds,
     clockVars, queueVars, stateVars
<1>18. ASSUME NEW c \in Ctx, PaceAutoSync(c)
      PROVE  ClaimedIsDueAndGone'
  BY <1>18, <1>u, ClaimsStayGood DEF PaceAutoSync, TypeOK, UsedIds, queueVars,
     stateVars, wakeVars
<1>19. ASSUME NEW c \in Ctx, PacingSleepEnds(c)
      PROVE  ClaimedIsDueAndGone'
  BY <1>19, <1>u, ClaimsStayGood DEF PacingSleepEnds, TypeOK, UsedIds,
     queueVars, stateVars, wakeVars
<1>20. ASSUME NEW c \in Ctx, JoinAlarmWorker(c)
      PROVE  ClaimedIsDueAndGone'
  BY <1>20, <1>u, ClaimsStayGood DEF JoinAlarmWorker, TypeOK, UsedIds,
     clockVars, queueVars, stateVars, wakeVars
<1>21. ASSUME NEW c \in Ctx, FinishSystemTimeServiceShutdownForHost(c)
      PROVE  ClaimedIsDueAndGone'
  BY <1>21, <1>u, ClaimsStayGood DEF FinishSystemTimeServiceShutdownForHost,
     TypeOK, UsedIds, clockVars, wakeVars
<1>22. ASSUME RunAlarmWorker
      PROVE  ClaimedIsDueAndGone'
  BY <1>22, <1>u, ClaimsStayGood DEF RunAlarmWorker, TypeOK, UsedIds,
     queueVars, stateVars, wakeVars
<1>23. ASSUME CompareGeneration
      PROVE  ClaimedIsDueAndGone'
  BY <1>23, <1>u, ClaimsStayGood DEF CompareGeneration, TypeOK, UsedIds,
     clockVars, queueVars, stateVars
<1>24. ASSUME BeginWait
      PROVE  ClaimedIsDueAndGone'
  BY <1>24, <1>u, ClaimsStayGood DEF BeginWait, TypeOK, UsedIds, clockVars,
     queueVars, stateVars, wakeVars
<1>25. ASSUME Wake
      PROVE  ClaimedIsDueAndGone'
  BY <1>25, <1>u, ClaimsStayGood DEF Wake, TypeOK, UsedIds, clockVars,
     queueVars, stateVars
<1>26. ASSUME HostTick
      PROVE  ClaimedIsDueAndGone'
  BY <1>26, <1>u, ClaimsStayGood DEF HostTick, TypeOK, UsedIds, queueVars,
     stateVars, wakeVars, ctxVars
<1>27. ASSUME UNCHANGED vars
      PROVE  ClaimedIsDueAndGone'
  BY <1>27, <1>u, ClaimsStayGood DEF TypeOK, UsedIds, clockVars, queueVars,
     stateVars, wakeVars, ctxVars, vars
<1> QED
  BY <1>1, <1>2, <1>3, <1>4, <1>5, <1>6, <1>7, <1>8, <1>9, <1>10, <1>11,
     <1>12, <1>13, <1>14, <1>15, <1>16, <1>17, <1>18, <1>19, <1>20, <1>21,
     <1>22, <1>23, <1>24, <1>25, <1>26, <1>27 DEF Next, Call, Proceed,
     WorkerStep, TimedWaitExpires, SpuriousWake, Aborted

-----------------------------------------------------------------------------
(* Shutdown *)

Finishing(c) == pc[c] \in {"notifyFinish", "finish", "discard"}

\* Between TryBegin and the end of Finish there is one finisher, no owner, and
\* a worker that is gone by the time the queue is discarded.
CloseShape ==
    /\ service # "running" => ~deliveryActive
    /\ \A c \in Ctx : Finishing(c) => service = "closing"
    /\ \A c, d \in Ctx : Finishing(c) /\ Finishing(d) => c = d
    /\ \A c \in Ctx : pc[c] = "discard" => pc[W] \in {"off", "exited"}
    /\ service = "stopped" => alarms = {} /\ pc[W] \in {"off", "exited"}

\* Closing keeps its shape: no delivery begins and the worker can only end.
LEMMA CloseStep ==
    ASSUME TypeOK, ContextShape, CloseShape, Next
    PROVE  CloseShape'
<1>1. ASSUME NEW c \in Ctx, NEW deadline \in Deadlines, ScheduleSystemTimeAlarm(c, deadline)
      PROVE  CloseShape'
  BY <1>1, CtxFacts DEF ScheduleSystemTimeAlarm, CloseShape, Finishing,
     ContextShape, WorkerLabels, TypeOK, CanCall, At, clockVars, wakeVars,
     ScheduleChecks
<1>2. ASSUME NEW c \in Ctx, NEW id \in index, CancelSystemTimeAlarm(c, id)
      PROVE  CloseShape'
  BY <1>2, CtxFacts DEF CancelSystemTimeAlarm, CloseShape, Finishing,
     ContextShape, WorkerLabels, TypeOK, CanCall, At, Goto, clockVars,
     stateVars, wakeVars
<1>3. ASSUME NEW c \in Ctx, ProcessSystemTimeAlarms(c)
      PROVE  CloseShape'
  BY <1>3, CtxFacts DEF ProcessSystemTimeAlarms, CloseShape, Finishing,
     ContextShape, WorkerLabels, TypeOK, CanCall, At, Goto, queueVars,
     stateVars, wakeVars
<1>4. ASSUME NEW c \in Ctx, NEW duration \in Durations, system_time_delay_micros(c, duration)
      PROVE  CloseShape'
  BY <1>4, CtxFacts DEF system_time_delay_micros, CloseShape, Finishing,
     ContextShape, WorkerLabels, TypeOK, CanCall, At, Goto, queueVars,
     stateVars, wakeVars
<1>5. ASSUME NEW c \in Ctx, NEW ns \in Lags, system_time_lag_ns(c, ns)
      PROVE  CloseShape'
  BY <1>5, CtxFacts DEF system_time_lag_ns, CloseShape, Finishing,
     ContextShape, WorkerLabels, TypeOK, CanCall, At, Goto, queueVars,
     stateVars, wakeVars
<1>6. ASSUME NEW c \in Ctx, system_time_get_micros(c)
      PROVE  CloseShape'
  BY <1>6, CtxFacts DEF system_time_get_micros, CloseShape, Finishing,
     ContextShape, WorkerLabels, TypeOK, CanCall, At, queueVars, stateVars,
     wakeVars, ctxVars
<1>7. ASSUME NEW c \in Ctx, system_time_sync(c)
      PROVE  CloseShape'
  BY <1>7, CtxFacts DEF system_time_sync, CloseShape, Finishing, ContextShape,
     WorkerLabels, TypeOK, CanCall, At, Goto, clockVars, queueVars, stateVars,
     wakeVars
<1>8. ASSUME NEW c \in Ctx, TryBeginSystemTimeServiceShutdownForHost(c)
      PROVE  CloseShape'
  BY <1>8, CtxFacts DEF TryBeginSystemTimeServiceShutdownForHost, CloseShape,
     Finishing, ContextShape, WorkerLabels, TypeOK, CanCall, At, Goto,
     clockVars, queueVars, wakeVars, MayClose
<1>9. ASSUME NEW c \in Ctx, CheckFails(c)
      PROVE  CloseShape'
  BY <1>9, CtxFacts DEF CheckFails, CloseShape, Finishing, ContextShape,
     WorkerLabels, TypeOK, CanCall, At, clockVars, queueVars, stateVars,
     wakeVars, ctxVars
<1>10. ASSUME NEW c \in Ctx, DeliveryRefused(c)
      PROVE  CloseShape'
  BY <1>10, CtxFacts DEF DeliveryRefused, CloseShape, Finishing, ContextShape,
     WorkerLabels, TypeOK, At, Goto, Home, AfterDelivery, queueVars,
     stateVars, wakeVars
<1>11. ASSUME NEW c \in Ctx, ClaimOwnership(c)
      PROVE  CloseShape'
  BY <1>11, CtxFacts DEF ClaimOwnership, CloseShape, Finishing, ContextShape,
     WorkerLabels, TypeOK, At, Goto, clockVars, queueVars, wakeVars,
     MayOwnDelivery
<1>12. ASSUME NEW c \in Ctx, NEW a \in alarms, ClaimAlarm(c, a)
      PROVE  CloseShape'
  BY <1>12, CtxFacts DEF ClaimAlarm, CloseShape, Finishing, ContextShape,
     WorkerLabels, TypeOK, At, Goto, stateVars, wakeVars, AlarmsAfterClaim
<1>13. ASSUME NEW c \in Ctx, NoDueWork(c)
      PROVE  CloseShape'
  BY <1>13, CtxFacts DEF NoDueWork, CloseShape, Finishing, ContextShape,
     WorkerLabels, TypeOK, At, Goto, queueVars, stateVars, wakeVars
<1>14. ASSUME NEW c \in Ctx, CallbackReturns(c)
      PROVE  CloseShape'
  BY <1>14, CtxFacts DEF CallbackReturns, CloseShape, Finishing, ContextShape,
     WorkerLabels, TypeOK, At, Goto, clockVars, queueVars, stateVars, wakeVars
<1>15. ASSUME NEW c \in Ctx, CallbackThrows(c)
      PROVE  CloseShape'
  BY <1>15, CtxFacts DEF CallbackThrows, CloseShape, Finishing, ContextShape,
     WorkerLabels, TypeOK, At, Goto, clockVars, queueVars, stateVars,
     wakeVars, ctxVars
<1>16. ASSUME NEW c \in Ctx, ReleaseDeliveryOwnership(c)
      PROVE  CloseShape'
  BY <1>16, CtxFacts DEF ReleaseDeliveryOwnership, CloseShape, Finishing,
     ContextShape, WorkerLabels, TypeOK, At, Goto, clockVars, queueVars,
     wakeVars
<1>17. ASSUME NEW c \in Ctx, NotifyAlarmWorker(c)
      PROVE  CloseShape'
  BY <1>17, CtxFacts DEF NotifyAlarmWorker, CloseShape, Finishing,
     ContextShape, WorkerLabels, TypeOK, Home, clockVars, queueVars, stateVars
<1>18. ASSUME NEW c \in Ctx, PaceAutoSync(c)
      PROVE  CloseShape'
  BY <1>18, CtxFacts DEF PaceAutoSync, CloseShape, Finishing, ContextShape,
     WorkerLabels, TypeOK, At, Goto, queueVars, stateVars, wakeVars
<1>19. ASSUME NEW c \in Ctx, PacingSleepEnds(c)
      PROVE  CloseShape'
  BY <1>19, CtxFacts DEF PacingSleepEnds, CloseShape, Finishing, ContextShape,
     WorkerLabels, TypeOK, At, Goto, queueVars, stateVars, wakeVars
<1>20. ASSUME NEW c \in Ctx, JoinAlarmWorker(c)
      PROVE  CloseShape'
  BY <1>20, CtxFacts DEF JoinAlarmWorker, CloseShape, Finishing, ContextShape,
     WorkerLabels, TypeOK, At, Goto, clockVars, queueVars, stateVars,
     wakeVars, WorkerJoined
<1>21. ASSUME NEW c \in Ctx, FinishSystemTimeServiceShutdownForHost(c)
      PROVE  CloseShape'
  BY <1>21, CtxFacts DEF FinishSystemTimeServiceShutdownForHost, CloseShape,
     Finishing, ContextShape, WorkerLabels, TypeOK, At, Goto, clockVars,
     wakeVars
<1>22. ASSUME RunAlarmWorker
      PROVE  CloseShape'
  BY <1>22, CtxFacts DEF RunAlarmWorker, CloseShape, Finishing, ContextShape,
     WorkerLabels, TypeOK, At, Goto, queueVars, stateVars, wakeVars
<1>23. ASSUME CompareGeneration
      PROVE  CloseShape'
  BY <1>23, CtxFacts DEF CompareGeneration, CloseShape, Finishing,
     ContextShape, WorkerLabels, TypeOK, At, Goto, clockVars, queueVars,
     stateVars
<1>24. ASSUME BeginWait
      PROVE  CloseShape'
  BY <1>24, CtxFacts DEF BeginWait, CloseShape, Finishing, ContextShape,
     WorkerLabels, TypeOK, At, Goto, clockVars, queueVars, stateVars, wakeVars
<1>25. ASSUME Wake
      PROVE  CloseShape'
  BY <1>25, CtxFacts DEF Wake, CloseShape, Finishing, ContextShape,
     WorkerLabels, TypeOK, At, Goto, clockVars, queueVars, stateVars
<1>26. ASSUME HostTick
      PROVE  CloseShape'
  BY <1>26, CtxFacts DEF HostTick, CloseShape, Finishing, ContextShape,
     WorkerLabels, TypeOK, queueVars, stateVars, wakeVars, ctxVars
<1>27. ASSUME UNCHANGED vars
      PROVE  CloseShape'
  BY <1>27, CtxFacts DEF CloseShape, Finishing, ContextShape, WorkerLabels,
     TypeOK, clockVars, queueVars, stateVars, wakeVars, ctxVars, vars
<1> QED
  BY <1>1, <1>2, <1>3, <1>4, <1>5, <1>6, <1>7, <1>8, <1>9, <1>10, <1>11,
     <1>12, <1>13, <1>14, <1>15, <1>16, <1>17, <1>18, <1>19, <1>20, <1>21,
     <1>22, <1>23, <1>24, <1>25, <1>26, <1>27 DEF Next, Call, Proceed,
     WorkerStep, TimedWaitExpires, SpuriousWake, Aborted

\* A closed service neither delivers nor holds a claimed callback.
LEMMA QuietFromShapes ==
    ASSUME TypeOK, SingleOwner, ClaimShape, CloseShape
    PROVE  QuietAfterClose
BY DEF TypeOK, SingleOwner, Delivering, ClaimShape, CloseShape, QuietAfterClose

-----------------------------------------------------------------------------
(* Delays *)

\* The target of a delay is set for the length of the call, lies within the
\* reservation, and has been reached when the delivery loop finds nothing due.
DelayShape ==
    \A c \in Ctx :
        /\ pc[c] \in {"idle", "notify", "notifyFinish", "finish", "discard"}
             => target[c] = NoTarget
        /\ InDelay(c) => target[c] <= reserved
        /\ (pc[c] \in {"release", "notifyPace", "pace"} /\ target[c] # NoTarget)
             => uptime >= target[c] \/ service # "running"

\* A delay on its way out of the loop keeps its target published.
LEMMA DelayStep ==
    ASSUME TypeOK, ContextShape, DelayShape, Next
    PROVE  DelayShape'
<1>u. uptime \in Nat /\ uptime' \in Nat /\ uptime' >= uptime
  BY UptimeStep DEF TypeOK
<1>1. ASSUME NEW c \in Ctx, NEW deadline \in Deadlines, ScheduleSystemTimeAlarm(c, deadline)
      PROVE  DelayShape'
  BY <1>1, <1>u, CtxFacts DEF ScheduleSystemTimeAlarm, DelayShape, InDelay,
     ContextShape, WorkerLabels, TypeOK, CanCall, At, clockVars, wakeVars
<1>2. ASSUME NEW c \in Ctx, NEW id \in index, CancelSystemTimeAlarm(c, id)
      PROVE  DelayShape'
  BY <1>2, <1>u, CtxFacts DEF CancelSystemTimeAlarm, DelayShape, InDelay,
     ContextShape, WorkerLabels, TypeOK, CanCall, At, Goto, clockVars,
     stateVars, wakeVars
<1>3. ASSUME NEW c \in Ctx, ProcessSystemTimeAlarms(c)
      PROVE  DelayShape'
  BY <1>3, <1>u, CtxFacts DEF ProcessSystemTimeAlarms, DelayShape, InDelay,
     ContextShape, WorkerLabels, TypeOK, CanCall, At, Goto, queueVars,
     stateVars, wakeVars
<1>4. ASSUME NEW c \in Ctx, NEW duration \in Durations, system_time_delay_micros(c, duration)
      PROVE  DelayShape'
  BY <1>4, <1>u, CtxFacts, ReadFacts, NanosType, InputsAssumption DEF
     system_time_delay_micros, DelayShape, InDelay, ContextShape,
     WorkerLabels, TypeOK, CanCall, At, Goto, queueVars, stateVars, wakeVars,
     Reservation, Max2
<1>5. ASSUME NEW c \in Ctx, NEW ns \in Lags, system_time_lag_ns(c, ns)
      PROVE  DelayShape'
  BY <1>5, <1>u, CtxFacts, InputsAssumption DEF system_time_lag_ns,
     DelayShape, InDelay, ContextShape, WorkerLabels, TypeOK, CanCall, At,
     Goto, queueVars, stateVars, wakeVars, Lagged, Max2
<1>6. ASSUME NEW c \in Ctx, system_time_get_micros(c)
      PROVE  DelayShape'
  BY <1>6, <1>u, CtxFacts DEF system_time_get_micros, DelayShape, InDelay,
     ContextShape, WorkerLabels, TypeOK, CanCall, At, queueVars, stateVars,
     wakeVars, ctxVars
<1>7. ASSUME NEW c \in Ctx, system_time_sync(c)
      PROVE  DelayShape'
  BY <1>7, <1>u, CtxFacts DEF system_time_sync, DelayShape, InDelay,
     ContextShape, WorkerLabels, TypeOK, CanCall, At, Goto, clockVars,
     queueVars, stateVars, wakeVars
<1>8. ASSUME NEW c \in Ctx, TryBeginSystemTimeServiceShutdownForHost(c)
      PROVE  DelayShape'
  BY <1>8, <1>u, CtxFacts DEF TryBeginSystemTimeServiceShutdownForHost,
     DelayShape, InDelay, ContextShape, WorkerLabels, TypeOK, CanCall, At,
     Goto, clockVars, queueVars, wakeVars, MayClose
<1>9. ASSUME NEW c \in Ctx, CheckFails(c)
      PROVE  DelayShape'
  BY <1>9, <1>u, CtxFacts DEF CheckFails, DelayShape, InDelay, ContextShape,
     WorkerLabels, TypeOK, CanCall, At, clockVars, queueVars, stateVars,
     wakeVars, ctxVars
<1>10. ASSUME NEW c \in Ctx, DeliveryRefused(c)
      PROVE  DelayShape'
  BY <1>10, <1>u, CtxFacts DEF DeliveryRefused, DelayShape, InDelay,
     ContextShape, WorkerLabels, TypeOK, At, Goto, Home, AfterDelivery,
     queueVars, stateVars, wakeVars, MayOwnDelivery, Max2
<1>11. ASSUME NEW c \in Ctx, ClaimOwnership(c)
      PROVE  DelayShape'
  BY <1>11, <1>u, CtxFacts DEF ClaimOwnership, DelayShape, InDelay,
     ContextShape, WorkerLabels, TypeOK, At, Goto, clockVars, queueVars,
     wakeVars
<1>12. ASSUME NEW c \in Ctx, NEW a \in alarms, ClaimAlarm(c, a)
      PROVE  DelayShape'
  BY <1>12, <1>u, CtxFacts DEF ClaimAlarm, DelayShape, InDelay, ContextShape,
     WorkerLabels, TypeOK, At, Goto, stateVars, wakeVars
<1>13. ASSUME NEW c \in Ctx, NoDueWork(c)
      PROVE  DelayShape'
  BY <1>13, <1>u, CtxFacts, AdvancedFacts DEF NoDueWork, DelayShape, InDelay,
     ContextShape, WorkerLabels, TypeOK, At, Goto, queueVars, stateVars,
     wakeVars
<1>14. ASSUME NEW c \in Ctx, CallbackReturns(c)
      PROVE  DelayShape'
  BY <1>14, <1>u, CtxFacts DEF CallbackReturns, DelayShape, InDelay,
     ContextShape, WorkerLabels, TypeOK, At, Goto, clockVars, queueVars,
     stateVars, wakeVars
<1>15. ASSUME NEW c \in Ctx, CallbackThrows(c)
      PROVE  DelayShape'
  BY <1>15, <1>u, CtxFacts DEF CallbackThrows, DelayShape, InDelay,
     ContextShape, WorkerLabels, TypeOK, At, Goto, clockVars, queueVars,
     stateVars, wakeVars, ctxVars
<1>16. ASSUME NEW c \in Ctx, ReleaseDeliveryOwnership(c)
      PROVE  DelayShape'
  BY <1>16, <1>u, CtxFacts DEF ReleaseDeliveryOwnership, DelayShape, InDelay,
     ContextShape, WorkerLabels, TypeOK, At, Goto, clockVars, queueVars,
     wakeVars
<1>17. ASSUME NEW c \in Ctx, NotifyAlarmWorker(c)
      PROVE  DelayShape'
  BY <1>17, <1>u, CtxFacts DEF NotifyAlarmWorker, DelayShape, InDelay,
     ContextShape, WorkerLabels, TypeOK, Home, clockVars, queueVars, stateVars
<1>18. ASSUME NEW c \in Ctx, PaceAutoSync(c)
      PROVE  DelayShape'
  BY <1>18, <1>u, CtxFacts DEF PaceAutoSync, DelayShape, InDelay,
     ContextShape, WorkerLabels, TypeOK, At, Goto, queueVars, stateVars,
     wakeVars
<1>19. ASSUME NEW c \in Ctx, PacingSleepEnds(c)
      PROVE  DelayShape'
  BY <1>19, <1>u, CtxFacts DEF PacingSleepEnds, DelayShape, InDelay,
     ContextShape, WorkerLabels, TypeOK, At, Goto, queueVars, stateVars,
     wakeVars
<1>20. ASSUME NEW c \in Ctx, JoinAlarmWorker(c)
      PROVE  DelayShape'
  BY <1>20, <1>u, CtxFacts DEF JoinAlarmWorker, DelayShape, InDelay,
     ContextShape, WorkerLabels, TypeOK, At, Goto, clockVars, queueVars,
     stateVars, wakeVars
<1>21. ASSUME NEW c \in Ctx, FinishSystemTimeServiceShutdownForHost(c)
      PROVE  DelayShape'
  BY <1>21, <1>u, CtxFacts DEF FinishSystemTimeServiceShutdownForHost,
     DelayShape, InDelay, ContextShape, WorkerLabels, TypeOK, At, Goto,
     clockVars, wakeVars
<1>22. ASSUME RunAlarmWorker
      PROVE  DelayShape'
  BY <1>22, <1>u, CtxFacts DEF RunAlarmWorker, DelayShape, InDelay,
     ContextShape, WorkerLabels, TypeOK, At, Goto, queueVars, stateVars,
     wakeVars
<1>23. ASSUME CompareGeneration
      PROVE  DelayShape'
  BY <1>23, <1>u, CtxFacts DEF CompareGeneration, DelayShape, InDelay,
     ContextShape, WorkerLabels, TypeOK, At, Goto, clockVars, queueVars,
     stateVars
<1>24. ASSUME BeginWait
      PROVE  DelayShape'
  BY <1>24, <1>u, CtxFacts DEF BeginWait, DelayShape, InDelay, ContextShape,
     WorkerLabels, TypeOK, At, Goto, clockVars, queueVars, stateVars, wakeVars
<1>25. ASSUME Wake
      PROVE  DelayShape'
  BY <1>25, <1>u, CtxFacts DEF Wake, DelayShape, InDelay, ContextShape,
     WorkerLabels, TypeOK, At, Goto, clockVars, queueVars, stateVars
<1>26. ASSUME HostTick
      PROVE  DelayShape'
  BY <1>26, <1>u, CtxFacts DEF HostTick, DelayShape, InDelay, ContextShape,
     WorkerLabels, TypeOK, queueVars, stateVars, wakeVars, ctxVars
<1>27. ASSUME UNCHANGED vars
      PROVE  DelayShape'
  BY <1>27, <1>u, CtxFacts DEF DelayShape, InDelay, ContextShape,
     WorkerLabels, TypeOK, clockVars, queueVars, stateVars, wakeVars, ctxVars,
     vars
<1> QED
  BY <1>1, <1>2, <1>3, <1>4, <1>5, <1>6, <1>7, <1>8, <1>9, <1>10, <1>11,
     <1>12, <1>13, <1>14, <1>15, <1>16, <1>17, <1>18, <1>19, <1>20, <1>21,
     <1>22, <1>23, <1>24, <1>25, <1>26, <1>27 DEF Next, Call, Proceed,
     WorkerStep, TimedWaitExpires, SpuriousWake, Aborted

-----------------------------------------------------------------------------
(* The inductive invariant, and what follows from it *)

IInv ==
    /\ TypeOK /\ ContextShape /\ SingleOwner
    /\ IndexConsistent /\ ClaimShape /\ ClaimedIsDueAndGone
    /\ CloseShape /\ DelayShape

\* The strengthened invariant holds initially.
LEMMA IInvInit ==
    ASSUME Init
    PROVE  IInv
<1>1. \A c \in Ctx : pc[c] = IF c = W THEN "off" ELSE "idle"
  BY DEF Init
<1>2. \A c \in Ctx : claim[c] = {} /\ target[c] = NoTarget
  BY DEF Init
<1>3. TypeOK
  BY TypeInit
<1>4. ContextShape
  BY <1>1, <1>2, CtxFacts DEF Init, ContextShape, WorkerLabels
<1>5. SingleOwner
  BY <1>1 DEF Init, SingleOwner, Delivering
<1>6. IndexConsistent
  BY DEF Init, IndexConsistent
<1>7. ClaimShape /\ ClaimedIsDueAndGone
  BY <1>2 DEF ClaimShape, ClaimedIsDueAndGone
<1>8. CloseShape
  BY <1>1 DEF Init, CloseShape, Finishing
<1>9. DelayShape
  BY <1>1, <1>2 DEF DelayShape, InDelay
<1> QED BY <1>3, <1>4, <1>5, <1>6, <1>7, <1>8, <1>9 DEF IInv

\* Every step preserves the strengthened invariant.
LEMMA IInvStep ==
    ASSUME IInv, [Next]_vars
    PROVE  IInv'
<1>1. CASE Next
  BY <1>1, TypeStep, ShapeStep, OwnerStep, IndexStep, ClaimShapeStep, ClaimedStep,
     CloseStep, DelayStep DEF IInv
<1>2. CASE UNCHANGED vars
  <2> USE <1>2 DEF vars, clockVars, queueVars, stateVars, wakeVars, ctxVars, IInv
  <2>1. TypeOK' /\ ContextShape' /\ SingleOwner'
    BY DEF TypeOK, ContextShape, SingleOwner, Delivering
  <2>2. IndexConsistent' /\ ClaimShape' /\ ClaimedIsDueAndGone'
    BY DEF IndexConsistent, ClaimShape, ClaimedIsDueAndGone, UsedIds, AlarmMicrosToNanos
  <2>3. CloseShape' /\ DelayShape'
    BY DEF CloseShape, Finishing, DelayShape, InDelay
  <2> QED BY <2>1, <2>2, <2>3
<1> QED BY <1>1, <1>2

\* The strengthening holds in every reachable state.
THEOREM InvariantHolds == Spec => []IInv
BY IInvInit, IInvStep, PTL DEF Spec

\* Every variable keeps its type.
THEOREM TypeCorrect == Spec => []TypeOK
<1>1. IInv => TypeOK
  BY DEF IInv
<1> QED BY <1>1, InvariantHolds, PTL

\* At most one context delivers alarms, kDeliveryActive tells whether one does,
\* and it is never a callback: delivery does not nest.
THEOREM DeliveryIsExclusive == Spec => []SingleOwner
<1>1. IInv => SingleOwner
  BY DEF IInv
<1> QED BY <1>1, InvariantHolds, PTL

\* The id index and the alarm queue name the same alarms, ids are not reused.
THEOREM IndexMatchesQueue == Spec => []IndexConsistent
<1>1. IInv => IndexConsistent
  BY DEF IInv
<1> QED BY <1>1, InvariantHolds, PTL

\* No callback runs before its deadline, and a claimed alarm cannot be
\* cancelled or claimed again.
THEOREM NeverEarlyNeverTwice == Spec => []ClaimedIsDueAndGone
<1>1. IInv => ClaimedIsDueAndGone
  BY DEF IInv
<1> QED BY <1>1, InvariantHolds, PTL

\* After a successful TryBegin nothing is delivered, after Finish nothing is
\* queued and the worker has ended.
THEOREM ShutdownIsQuiet == Spec => []QuietAfterClose
<1>1. IInv => QuietAfterClose
  BY QuietFromShapes DEF IInv
<1> QED BY <1>1, InvariantHolds, PTL

\* A delay that leaves the delivery loop of a running service is at its target.
THEOREM DelaysReachTheirTarget == Spec => []DelayReachesTarget
<1>1. IInv => DelayReachesTarget
  BY DEF IInv, DelayShape, DelayReachesTarget
<1> QED BY <1>1, InvariantHolds, PTL

\* No step lowers the reservation, which bounds every pending target.
LEMMA ReservedStep ==
    ASSUME TypeOK, Next
    PROVE  reserved' >= reserved
<1>1. ASSUME NEW c \in Ctx, NEW deadline \in Deadlines, ScheduleSystemTimeAlarm(c, deadline)
      PROVE  reserved' >= reserved
  BY <1>1 DEF ScheduleSystemTimeAlarm, TypeOK, clockVars, wakeVars
<1>2. ASSUME NEW c \in Ctx, NEW id \in index, CancelSystemTimeAlarm(c, id)
      PROVE  reserved' >= reserved
  BY <1>2 DEF CancelSystemTimeAlarm, TypeOK, clockVars, stateVars, wakeVars
<1>3. ASSUME NEW c \in Ctx, ProcessSystemTimeAlarms(c)
      PROVE  reserved' >= reserved
  BY <1>3 DEF ProcessSystemTimeAlarms, TypeOK, queueVars, stateVars, wakeVars
<1>4. ASSUME NEW c \in Ctx, NEW duration \in Durations, system_time_delay_micros(c, duration)
      PROVE  reserved' >= reserved
  BY <1>4, ReadFacts, NanosType, InputsAssumption DEF
     system_time_delay_micros, TypeOK, Reservation, Max2
<1>5. ASSUME NEW c \in Ctx, NEW ns \in Lags, system_time_lag_ns(c, ns)
      PROVE  reserved' >= reserved
  BY <1>5, ReadFacts, ModeAssumption, InputsAssumption DEF system_time_lag_ns,
     TypeOK, Lagged, Max2
<1>6. ASSUME NEW c \in Ctx, system_time_get_micros(c)
      PROVE  reserved' >= reserved
  BY <1>6 DEF system_time_get_micros, TypeOK, queueVars, stateVars, wakeVars,
     ctxVars
<1>7. ASSUME NEW c \in Ctx, system_time_sync(c)
      PROVE  reserved' >= reserved
  BY <1>7 DEF system_time_sync, TypeOK, clockVars, queueVars, stateVars,
     wakeVars
<1>8. ASSUME NEW c \in Ctx, TryBeginSystemTimeServiceShutdownForHost(c)
      PROVE  reserved' >= reserved
  BY <1>8 DEF TryBeginSystemTimeServiceShutdownForHost, TypeOK, clockVars,
     queueVars, wakeVars
<1>9. ASSUME NEW c \in Ctx, CheckFails(c)
      PROVE  reserved' >= reserved
  BY <1>9 DEF CheckFails, TypeOK, clockVars, queueVars, stateVars, wakeVars,
     ctxVars
<1>10. ASSUME NEW c \in Ctx, DeliveryRefused(c)
      PROVE  reserved' >= reserved
  BY <1>10 DEF DeliveryRefused, TypeOK, queueVars, stateVars, wakeVars
<1>11. ASSUME NEW c \in Ctx, ClaimOwnership(c)
      PROVE  reserved' >= reserved
  BY <1>11 DEF ClaimOwnership, TypeOK, clockVars, queueVars, wakeVars
<1>12. ASSUME NEW c \in Ctx, NEW a \in alarms, ClaimAlarm(c, a)
      PROVE  reserved' >= reserved
  BY <1>12 DEF ClaimAlarm, TypeOK, stateVars, wakeVars
<1>13. ASSUME NEW c \in Ctx, NoDueWork(c)
      PROVE  reserved' >= reserved
  BY <1>13 DEF NoDueWork, TypeOK, queueVars, stateVars, wakeVars
<1>14. ASSUME NEW c \in Ctx, CallbackReturns(c)
      PROVE  reserved' >= reserved
  BY <1>14 DEF CallbackReturns, TypeOK, clockVars, queueVars, stateVars,
     wakeVars
<1>15. ASSUME NEW c \in Ctx, CallbackThrows(c)
      PROVE  reserved' >= reserved
  BY <1>15 DEF CallbackThrows, TypeOK, clockVars, queueVars, stateVars,
     wakeVars, ctxVars
<1>16. ASSUME NEW c \in Ctx, ReleaseDeliveryOwnership(c)
      PROVE  reserved' >= reserved
  BY <1>16 DEF ReleaseDeliveryOwnership, TypeOK, clockVars, queueVars,
     wakeVars
<1>17. ASSUME NEW c \in Ctx, NotifyAlarmWorker(c)
      PROVE  reserved' >= reserved
  BY <1>17 DEF NotifyAlarmWorker, TypeOK, clockVars, queueVars, stateVars
<1>18. ASSUME NEW c \in Ctx, PaceAutoSync(c)
      PROVE  reserved' >= reserved
  BY <1>18 DEF PaceAutoSync, TypeOK, queueVars, stateVars, wakeVars
<1>19. ASSUME NEW c \in Ctx, PacingSleepEnds(c)
      PROVE  reserved' >= reserved
  BY <1>19 DEF PacingSleepEnds, TypeOK, queueVars, stateVars, wakeVars
<1>20. ASSUME NEW c \in Ctx, JoinAlarmWorker(c)
      PROVE  reserved' >= reserved
  BY <1>20 DEF JoinAlarmWorker, TypeOK, clockVars, queueVars, stateVars,
     wakeVars
<1>21. ASSUME NEW c \in Ctx, FinishSystemTimeServiceShutdownForHost(c)
      PROVE  reserved' >= reserved
  BY <1>21 DEF FinishSystemTimeServiceShutdownForHost, TypeOK, clockVars,
     wakeVars
<1>22. ASSUME RunAlarmWorker
      PROVE  reserved' >= reserved
  BY <1>22 DEF RunAlarmWorker, TypeOK, queueVars, stateVars, wakeVars
<1>23. ASSUME CompareGeneration
      PROVE  reserved' >= reserved
  BY <1>23 DEF CompareGeneration, TypeOK, clockVars, queueVars, stateVars
<1>24. ASSUME BeginWait
      PROVE  reserved' >= reserved
  BY <1>24 DEF BeginWait, TypeOK, clockVars, queueVars, stateVars, wakeVars
<1>25. ASSUME Wake
      PROVE  reserved' >= reserved
  BY <1>25 DEF Wake, TypeOK, clockVars, queueVars, stateVars
<1>26. ASSUME HostTick
      PROVE  reserved' >= reserved
  BY <1>26 DEF HostTick, TypeOK, queueVars, stateVars, wakeVars, ctxVars
<1>27. ASSUME UNCHANGED vars
      PROVE  reserved' >= reserved
  BY <1>27 DEF TypeOK, clockVars, queueVars, stateVars, wakeVars, ctxVars,
     vars
<1> QED
  BY <1>1, <1>2, <1>3, <1>4, <1>5, <1>6, <1>7, <1>8, <1>9, <1>10, <1>11,
     <1>12, <1>13, <1>14, <1>15, <1>16, <1>17, <1>18, <1>19, <1>20, <1>21,
     <1>22, <1>23, <1>24, <1>25, <1>26, <1>27 DEF Next, Call, Proceed,
     WorkerStep, TimedWaitExpires, SpuriousWake, Aborted

\* Neither the published uptime nor the reservation ever moves back.
THEOREM TimeIsMonotone == Spec => TimeNeverGoesBack
<1>1. ASSUME IInv, [Next]_vars
      PROVE  [uptime' >= uptime /\ reserved' >= reserved]_vars
  BY <1>1, UptimeStep, ReservedStep DEF IInv
<1> QED BY <1>1, InvariantHolds, PTL DEF Spec, TimeNeverGoesBack

\* Of all steps only the start of a delay gives a context a delay target, and
\* that target lies one duration beyond everything reserved.
LEMMA NewTargetStep ==
    ASSUME TypeOK, ContextShape, DelayShape, Next, NEW e \in Ctx, ~InDelay(e), InDelay(e)'
    PROVE  \E duration \in Durations :
               target'[e] >= reserved + AlarmMicrosToNanos(duration)
<1>1. ASSUME NEW c \in Ctx, NEW deadline \in Deadlines, ScheduleSystemTimeAlarm(c, deadline)
      PROVE  \E duration \in Durations :
                 target'[e] >= reserved + AlarmMicrosToNanos(duration)
  BY <1>1, CtxFacts DEF ScheduleSystemTimeAlarm, InDelay, NoTarget,
     DelayShape, ContextShape, WorkerLabels, TypeOK, CanCall, At, clockVars,
     wakeVars
<1>2. ASSUME NEW c \in Ctx, NEW id \in index, CancelSystemTimeAlarm(c, id)
      PROVE  \E duration \in Durations :
                 target'[e] >= reserved + AlarmMicrosToNanos(duration)
  BY <1>2, CtxFacts DEF CancelSystemTimeAlarm, InDelay, NoTarget, DelayShape,
     ContextShape, WorkerLabels, TypeOK, CanCall, At, Goto, clockVars,
     stateVars, wakeVars
<1>3. ASSUME NEW c \in Ctx, ProcessSystemTimeAlarms(c)
      PROVE  \E duration \in Durations :
                 target'[e] >= reserved + AlarmMicrosToNanos(duration)
  BY <1>3, CtxFacts DEF ProcessSystemTimeAlarms, InDelay, NoTarget,
     DelayShape, ContextShape, WorkerLabels, TypeOK, CanCall, At, Goto,
     queueVars, stateVars, wakeVars
<1>4. ASSUME NEW c \in Ctx, NEW d \in Durations, system_time_delay_micros(c, d)
      PROVE  \E duration \in Durations :
                 target'[e] >= reserved + AlarmMicrosToNanos(duration)
  BY <1>4, CtxFacts, ReadFacts, NanosType, InputsAssumption DEF
     system_time_delay_micros, InDelay, NoTarget, DelayShape, ContextShape,
     WorkerLabels, TypeOK, CanCall, At, Goto, queueVars, stateVars, wakeVars,
     Reservation, Max2
<1>5. ASSUME NEW c \in Ctx, NEW ns \in Lags, system_time_lag_ns(c, ns)
      PROVE  \E duration \in Durations :
                 target'[e] >= reserved + AlarmMicrosToNanos(duration)
  BY <1>5, CtxFacts DEF system_time_lag_ns, InDelay, NoTarget, DelayShape,
     ContextShape, WorkerLabels, TypeOK, CanCall, At, Goto, queueVars,
     stateVars, wakeVars
<1>6. ASSUME NEW c \in Ctx, system_time_get_micros(c)
      PROVE  \E duration \in Durations :
                 target'[e] >= reserved + AlarmMicrosToNanos(duration)
  BY <1>6, CtxFacts DEF system_time_get_micros, InDelay, NoTarget, DelayShape,
     ContextShape, WorkerLabels, TypeOK, CanCall, At, queueVars, stateVars,
     wakeVars, ctxVars
<1>7. ASSUME NEW c \in Ctx, system_time_sync(c)
      PROVE  \E duration \in Durations :
                 target'[e] >= reserved + AlarmMicrosToNanos(duration)
  BY <1>7, CtxFacts DEF system_time_sync, InDelay, NoTarget, DelayShape,
     ContextShape, WorkerLabels, TypeOK, CanCall, At, Goto, clockVars,
     queueVars, stateVars, wakeVars
<1>8. ASSUME NEW c \in Ctx, TryBeginSystemTimeServiceShutdownForHost(c)
      PROVE  \E duration \in Durations :
                 target'[e] >= reserved + AlarmMicrosToNanos(duration)
  BY <1>8, CtxFacts DEF TryBeginSystemTimeServiceShutdownForHost, InDelay,
     NoTarget, DelayShape, ContextShape, WorkerLabels, TypeOK, CanCall, At,
     Goto, clockVars, queueVars, wakeVars
<1>9. ASSUME NEW c \in Ctx, CheckFails(c)
      PROVE  \E duration \in Durations :
                 target'[e] >= reserved + AlarmMicrosToNanos(duration)
  BY <1>9, CtxFacts DEF CheckFails, InDelay, NoTarget, DelayShape,
     ContextShape, WorkerLabels, TypeOK, CanCall, At, clockVars, queueVars,
     stateVars, wakeVars, ctxVars
<1>10. ASSUME NEW c \in Ctx, DeliveryRefused(c)
      PROVE  \E duration \in Durations :
                 target'[e] >= reserved + AlarmMicrosToNanos(duration)
  BY <1>10, CtxFacts DEF DeliveryRefused, InDelay, NoTarget, DelayShape,
     ContextShape, WorkerLabels, TypeOK, At, Goto, Home, AfterDelivery,
     queueVars, stateVars, wakeVars
<1>11. ASSUME NEW c \in Ctx, ClaimOwnership(c)
      PROVE  \E duration \in Durations :
                 target'[e] >= reserved + AlarmMicrosToNanos(duration)
  BY <1>11, CtxFacts DEF ClaimOwnership, InDelay, NoTarget, DelayShape,
     ContextShape, WorkerLabels, TypeOK, At, Goto, clockVars, queueVars,
     wakeVars
<1>12. ASSUME NEW c \in Ctx, NEW a \in alarms, ClaimAlarm(c, a)
      PROVE  \E duration \in Durations :
                 target'[e] >= reserved + AlarmMicrosToNanos(duration)
  BY <1>12, CtxFacts DEF ClaimAlarm, InDelay, NoTarget, DelayShape,
     ContextShape, WorkerLabels, TypeOK, At, Goto, stateVars, wakeVars
<1>13. ASSUME NEW c \in Ctx, NoDueWork(c)
      PROVE  \E duration \in Durations :
                 target'[e] >= reserved + AlarmMicrosToNanos(duration)
  BY <1>13, CtxFacts DEF NoDueWork, InDelay, NoTarget, DelayShape,
     ContextShape, WorkerLabels, TypeOK, At, Goto, queueVars, stateVars,
     wakeVars
<1>14. ASSUME NEW c \in Ctx, CallbackReturns(c)
      PROVE  \E duration \in Durations :
                 target'[e] >= reserved + AlarmMicrosToNanos(duration)
  BY <1>14, CtxFacts DEF CallbackReturns, InDelay, NoTarget, DelayShape,
     ContextShape, WorkerLabels, TypeOK, At, Goto, clockVars, queueVars,
     stateVars, wakeVars
<1>15. ASSUME NEW c \in Ctx, CallbackThrows(c)
      PROVE  \E duration \in Durations :
                 target'[e] >= reserved + AlarmMicrosToNanos(duration)
  BY <1>15, CtxFacts DEF CallbackThrows, InDelay, NoTarget, DelayShape,
     ContextShape, WorkerLabels, TypeOK, At, Goto, clockVars, queueVars,
     stateVars, wakeVars, ctxVars
<1>16. ASSUME NEW c \in Ctx, ReleaseDeliveryOwnership(c)
      PROVE  \E duration \in Durations :
                 target'[e] >= reserved + AlarmMicrosToNanos(duration)
  BY <1>16, CtxFacts DEF ReleaseDeliveryOwnership, InDelay, NoTarget,
     DelayShape, ContextShape, WorkerLabels, TypeOK, At, Goto, clockVars,
     queueVars, wakeVars
<1>17. ASSUME NEW c \in Ctx, NotifyAlarmWorker(c)
      PROVE  \E duration \in Durations :
                 target'[e] >= reserved + AlarmMicrosToNanos(duration)
  BY <1>17, CtxFacts DEF NotifyAlarmWorker, InDelay, NoTarget, DelayShape,
     ContextShape, WorkerLabels, TypeOK, Home, clockVars, queueVars, stateVars
<1>18. ASSUME NEW c \in Ctx, PaceAutoSync(c)
      PROVE  \E duration \in Durations :
                 target'[e] >= reserved + AlarmMicrosToNanos(duration)
  BY <1>18, CtxFacts DEF PaceAutoSync, InDelay, NoTarget, DelayShape,
     ContextShape, WorkerLabels, TypeOK, At, Goto, queueVars, stateVars,
     wakeVars
<1>19. ASSUME NEW c \in Ctx, PacingSleepEnds(c)
      PROVE  \E duration \in Durations :
                 target'[e] >= reserved + AlarmMicrosToNanos(duration)
  BY <1>19, CtxFacts DEF PacingSleepEnds, InDelay, NoTarget, DelayShape,
     ContextShape, WorkerLabels, TypeOK, At, Goto, queueVars, stateVars,
     wakeVars
<1>20. ASSUME NEW c \in Ctx, JoinAlarmWorker(c)
      PROVE  \E duration \in Durations :
                 target'[e] >= reserved + AlarmMicrosToNanos(duration)
  BY <1>20, CtxFacts DEF JoinAlarmWorker, InDelay, NoTarget, DelayShape,
     ContextShape, WorkerLabels, TypeOK, At, Goto, clockVars, queueVars,
     stateVars, wakeVars
<1>21. ASSUME NEW c \in Ctx, FinishSystemTimeServiceShutdownForHost(c)
      PROVE  \E duration \in Durations :
                 target'[e] >= reserved + AlarmMicrosToNanos(duration)
  BY <1>21, CtxFacts DEF FinishSystemTimeServiceShutdownForHost, InDelay,
     NoTarget, DelayShape, ContextShape, WorkerLabels, TypeOK, At, Goto,
     clockVars, wakeVars
<1>22. ASSUME RunAlarmWorker
      PROVE  \E duration \in Durations :
                 target'[e] >= reserved + AlarmMicrosToNanos(duration)
  BY <1>22, CtxFacts DEF RunAlarmWorker, InDelay, NoTarget, DelayShape,
     ContextShape, WorkerLabels, TypeOK, At, Goto, queueVars, stateVars,
     wakeVars
<1>23. ASSUME CompareGeneration
      PROVE  \E duration \in Durations :
                 target'[e] >= reserved + AlarmMicrosToNanos(duration)
  BY <1>23, CtxFacts DEF CompareGeneration, InDelay, NoTarget, DelayShape,
     ContextShape, WorkerLabels, TypeOK, At, Goto, clockVars, queueVars,
     stateVars
<1>24. ASSUME BeginWait
      PROVE  \E duration \in Durations :
                 target'[e] >= reserved + AlarmMicrosToNanos(duration)
  BY <1>24, CtxFacts DEF BeginWait, InDelay, NoTarget, DelayShape,
     ContextShape, WorkerLabels, TypeOK, At, Goto, clockVars, queueVars,
     stateVars, wakeVars
<1>25. ASSUME Wake
      PROVE  \E duration \in Durations :
                 target'[e] >= reserved + AlarmMicrosToNanos(duration)
  BY <1>25, CtxFacts DEF Wake, InDelay, NoTarget, DelayShape, ContextShape,
     WorkerLabels, TypeOK, At, Goto, clockVars, queueVars, stateVars
<1>26. ASSUME HostTick
      PROVE  \E duration \in Durations :
                 target'[e] >= reserved + AlarmMicrosToNanos(duration)
  BY <1>26, CtxFacts DEF HostTick, InDelay, NoTarget, DelayShape,
     ContextShape, WorkerLabels, TypeOK, queueVars, stateVars, wakeVars,
     ctxVars
<1>27. ASSUME UNCHANGED vars
      PROVE  \E duration \in Durations :
                 target'[e] >= reserved + AlarmMicrosToNanos(duration)
  BY <1>27, CtxFacts DEF InDelay, NoTarget, DelayShape, ContextShape,
     WorkerLabels, TypeOK, clockVars, queueVars, stateVars, wakeVars, ctxVars,
     vars
<1> QED
  BY <1>1, <1>2, <1>3, <1>4, <1>5, <1>6, <1>7, <1>8, <1>9, <1>10, <1>11,
     <1>12, <1>13, <1>14, <1>15, <1>16, <1>17, <1>18, <1>19, <1>20, <1>21,
     <1>22, <1>23, <1>24, <1>25, <1>26, <1>27 DEF Next, Call, Proceed,
     WorkerStep, TimedWaitExpires, SpuriousWake, Aborted

\* Concurrent delays add up.
THEOREM ConcurrentDelaysAddUp == Spec => DelaysAddUp
<1> DEFINE Apart ==
      \A c, d \in Ctx :
          (InDelay(d) /\ ~InDelay(c) /\ InDelay(c)') =>
              \E duration \in Durations :
                  target'[c] >= target[d] + AlarmMicrosToNanos(duration)
<1>1. ASSUME IInv, Next PROVE Apart
  <2> SUFFICES ASSUME NEW c \in Ctx, NEW d \in Ctx, InDelay(d), ~InDelay(c), InDelay(c)'
               PROVE  \E duration \in Durations :
                          target'[c] >= target[d] + AlarmMicrosToNanos(duration)
    OBVIOUS
  <2>1. PICK duration \in Durations :
            target'[c] >= reserved + AlarmMicrosToNanos(duration)
    BY <1>1, NewTargetStep DEF IInv
  <2>2. target[d] <= reserved
    BY <1>1 DEF IInv, DelayShape
  <2>3. /\ target[d] \in Int /\ reserved \in Nat /\ target'[c] \in Int
        /\ AlarmMicrosToNanos(duration) \in Nat
    BY <1>1, TypeStep, NanosType, InputsAssumption DEF IInv, TypeOK
  <2> QED BY <2>1, <2>2, <2>3
<1>2. ASSUME IInv, [Next]_vars PROVE [Apart]_vars
  BY <1>1, <1>2
<1> QED BY <1>2, InvariantHolds, PTL DEF Spec, DelaysAddUp

-----------------------------------------------------------------------------
(* The service implements AlarmService *)

\* While delivery is idle, or its owner is between two callbacks, no alarm
\* counts as running.
LEMMA NothingClaimed ==
    ASSUME IInv
    PROVE  /\ ~deliveryActive => Claimed = {}
           /\ \A c \in Ctx : pc[c] = "loop" => Claimed = {}
           /\ \A c, d \in Ctx : (pc[c] = "callback" /\ d # c) => claim[d] = {}
BY DEF IInv, SingleOwner, Delivering, ClaimShape, Claimed

\* Steps that leave the queue, the claims and the service state alone only let
\* time pass.
LEMMA QuietStepElapses ==
    ASSUME UNCHANGED <<alarms, nextId, claim, service>>, uptime' >= uptime
    PROVE  Abstract!Next
BY DEF Abstract!Next, Abstract!Advances, Abstract!Elapse, UsedIds, Claimed

\* Every step is a step of the abstract service, or leaves it alone.
LEMMA RefinementStep ==
    ASSUME IInv, Next
    PROVE  Abstract!Next
<1>u. uptime' \in Nat /\ uptime' >= uptime
  BY UptimeStep DEF IInv
<1>t. TypeOK /\ IndexConsistent
  BY DEF IInv
<1>1. ASSUME NEW c \in Ctx, NEW deadline \in Deadlines, ScheduleSystemTimeAlarm(c, deadline)
      PROVE  Abstract!Next
  <2>1. /\ alarms' = alarms \cup {[id |-> nextId, deadline |-> deadline]}
        /\ nextId # 0 /\ nextId' = NextAlarmId(nextId) /\ UNCHANGED <<claim, service>>
        /\ service = "running"
    BY <1>1 DEF ScheduleSystemTimeAlarm, ScheduleChecks
  <2>2. UsedIds' = UsedIds \cup {nextId} /\ nextId \notin UsedIds
    BY <1>t, <2>1, UsedIdsFacts
  <2>3. nextId \in 1..MaxAlarmId
    BY <1>t, <2>1, NumbersAssumption DEF TypeOK
  <2>4. Abstract!Register(nextId, deadline)
    BY <2>1, <2>2 DEF Abstract!Register, Claimed
  <2> QED BY <1>u, <2>3, <2>4 DEF Abstract!Next, Abstract!Advances
<1>2. ASSUME NEW c \in Ctx, NEW id \in index, CancelSystemTimeAlarm(c, id)
      PROVE  Abstract!Next
  <2>1. /\ alarms' = {a \in alarms : a.id # id}
        /\ UNCHANGED <<nextId, claim, service>>
    BY <1>2 DEF CancelSystemTimeAlarm, stateVars
  <2>2. PICK a \in alarms : a.id = id
    BY <1>t DEF IndexConsistent
  <2>3. alarms' = alarms \ {a}
    BY <1>t, <2>1, <2>2 DEF IndexConsistent
  <2>4. Abstract!Withdraw(a)
    BY <2>1, <2>3 DEF Abstract!Withdraw, Claimed, UsedIds
  <2> QED BY <1>u, <2>4 DEF Abstract!Next, Abstract!Advances
<1>3. ASSUME NEW c \in Ctx, ProcessSystemTimeAlarms(c)
      PROVE  Abstract!Next
  BY <1>3, <1>u, QuietStepElapses DEF ProcessSystemTimeAlarms, queueVars,
     stateVars, wakeVars
<1>4. ASSUME NEW c \in Ctx, NEW duration \in Durations, system_time_delay_micros(c, duration)
      PROVE  Abstract!Next
  BY <1>4, <1>u, QuietStepElapses DEF system_time_delay_micros, queueVars,
     stateVars, wakeVars
<1>5. ASSUME NEW c \in Ctx, NEW ns \in Lags, system_time_lag_ns(c, ns)
      PROVE  Abstract!Next
  BY <1>5, <1>u, QuietStepElapses DEF system_time_lag_ns, queueVars,
     stateVars, wakeVars
<1>6. ASSUME NEW c \in Ctx, system_time_get_micros(c)
      PROVE  Abstract!Next
  BY <1>6, <1>u, QuietStepElapses DEF system_time_get_micros, queueVars,
     stateVars, wakeVars, ctxVars
<1>7. ASSUME NEW c \in Ctx, system_time_sync(c)
      PROVE  Abstract!Next
  BY <1>7, <1>u, QuietStepElapses DEF system_time_sync, clockVars, queueVars,
     stateVars, wakeVars
<1>8. ASSUME NEW c \in Ctx, TryBeginSystemTimeServiceShutdownForHost(c)
      PROVE  Abstract!Next
  <2>1. /\ ~deliveryActive /\ service = "running" /\ service' = "closing"
        /\ UNCHANGED <<alarms, nextId, claim>>
    BY <1>8 DEF TryBeginSystemTimeServiceShutdownForHost, MayClose, queueVars
  <2>2. Claimed = {}
    BY <2>1, NothingClaimed
  <2>3. Abstract!Close
    BY <2>1, <2>2 DEF Abstract!Close, Claimed, UsedIds
  <2> QED BY <1>u, <2>3 DEF Abstract!Next, Abstract!Advances
<1>9. ASSUME NEW c \in Ctx, CheckFails(c)
      PROVE  Abstract!Next
  BY <1>9, <1>u, QuietStepElapses DEF CheckFails, clockVars, queueVars,
     stateVars, wakeVars, ctxVars
<1>10. ASSUME NEW c \in Ctx, DeliveryRefused(c)
      PROVE  Abstract!Next
  BY <1>10, <1>u, QuietStepElapses DEF DeliveryRefused, queueVars, stateVars,
     wakeVars
<1>11. ASSUME NEW c \in Ctx, ClaimOwnership(c)
      PROVE  Abstract!Next
  BY <1>11, <1>u, QuietStepElapses DEF ClaimOwnership, clockVars, queueVars,
     wakeVars
<1>12. ASSUME NEW c \in Ctx, NEW a \in alarms, ClaimAlarm(c, a)
      PROVE  Abstract!Next
  <2>1. /\ pc[c] = "loop" /\ IsFirst(a) /\ Due(a, uptime')
        /\ alarms' = alarms \ {a} /\ claim' = [claim EXCEPT ![c] = {a}]
        /\ UNCHANGED <<nextId, service>>
    BY <1>12 DEF ClaimAlarm, AlarmsAfterClaim, At, stateVars
  <2>2. Claimed = {}
    BY <2>1, NothingClaimed
  <2>3. \A d \in Ctx : claim[d] = {}
    BY <2>2 DEF Claimed
  <2>4. Claimed' = {a}
    BY <1>t, <2>1, <2>3 DEF Claimed, TypeOK
  <2>5. service = "running"
    BY <2>1 DEF IInv, SingleOwner, Delivering, CloseShape
  <2>6. \A b \in alarms : Abstract!NotAfter(a, b)
    BY <2>1 DEF IsFirst, NotAfter, Abstract!NotAfter
  <2>7. Abstract!Run(a)
    BY <2>1, <2>2, <2>4, <2>5, <2>6 DEF Abstract!Run, Due, UsedIds
  <2> QED BY <1>u, <2>7 DEF Abstract!Next, Abstract!Advances
<1>13. ASSUME NEW c \in Ctx, NoDueWork(c)
      PROVE  Abstract!Next
  BY <1>13, <1>u, QuietStepElapses DEF NoDueWork, queueVars, stateVars,
     wakeVars
<1>14. ASSUME NEW c \in Ctx, CallbackReturns(c)
      PROVE  Abstract!Next
  <2>1. /\ pc[c] = "callback" /\ claim' = [claim EXCEPT ![c] = {}]
        /\ UNCHANGED <<alarms, nextId, service>>
    BY <1>14 DEF CallbackReturns, At, queueVars, stateVars
  <2>2. \A d \in Ctx : claim'[d] = {}
    BY <1>t, <2>1, NothingClaimed DEF TypeOK
  <2>3. Claimed' = {} /\ UNCHANGED UsedIds
    BY <2>1, <2>2 DEF Claimed, UsedIds
  <2>4. Abstract!Return \/ Abstract!Elapse
    BY <2>1, <2>3 DEF Abstract!Return, Abstract!Elapse
  <2> QED BY <1>u, <2>4 DEF Abstract!Next, Abstract!Advances
<1>15. ASSUME NEW c \in Ctx, CallbackThrows(c)
      PROVE  Abstract!Next
  <2>a. CASE c = W
    BY <1>15, <1>u, <2>a, QuietStepElapses DEF CallbackThrows, queueVars, stateVars,
       ctxVars
  <2>b. CASE c # W
    <3>1. /\ pc[c] = "callback" /\ claim' = [claim EXCEPT ![c] = {}]
          /\ UNCHANGED <<alarms, nextId, service>>
      BY <1>15, <2>b DEF CallbackThrows, At, queueVars, stateVars
    <3>2. \A d \in Ctx : claim'[d] = {}
      BY <1>t, <3>1, NothingClaimed DEF TypeOK
    <3>3. Claimed' = {} /\ UNCHANGED UsedIds
      BY <3>1, <3>2 DEF Claimed, UsedIds
    <3>4. Abstract!Return \/ Abstract!Elapse
      BY <3>1, <3>3 DEF Abstract!Return, Abstract!Elapse
    <3> QED BY <1>u, <3>4 DEF Abstract!Next, Abstract!Advances
  <2> QED BY <2>a, <2>b
<1>16. ASSUME NEW c \in Ctx, ReleaseDeliveryOwnership(c)
      PROVE  Abstract!Next
  BY <1>16, <1>u, QuietStepElapses DEF ReleaseDeliveryOwnership, clockVars,
     queueVars, wakeVars
<1>17. ASSUME NEW c \in Ctx, NotifyAlarmWorker(c)
      PROVE  Abstract!Next
  BY <1>17, <1>u, QuietStepElapses DEF NotifyAlarmWorker, clockVars,
     queueVars, stateVars
<1>18. ASSUME NEW c \in Ctx, PaceAutoSync(c)
      PROVE  Abstract!Next
  BY <1>18, <1>u, QuietStepElapses DEF PaceAutoSync, queueVars, stateVars,
     wakeVars
<1>19. ASSUME NEW c \in Ctx, PacingSleepEnds(c)
      PROVE  Abstract!Next
  BY <1>19, <1>u, QuietStepElapses DEF PacingSleepEnds, queueVars, stateVars,
     wakeVars
<1>20. ASSUME NEW c \in Ctx, JoinAlarmWorker(c)
      PROVE  Abstract!Next
  BY <1>20, <1>u, QuietStepElapses DEF JoinAlarmWorker, clockVars, queueVars,
     stateVars, wakeVars
<1>21. ASSUME NEW c \in Ctx, FinishSystemTimeServiceShutdownForHost(c)
      PROVE  Abstract!Next
  <2>1. /\ pc[c] = "discard" /\ service' = "stopped" /\ alarms' = {}
        /\ UNCHANGED <<nextId, claim>>
    BY <1>21 DEF FinishSystemTimeServiceShutdownForHost, At
  <2>2. service = "closing"
    BY <2>1 DEF IInv, CloseShape, Finishing
  <2>3. Abstract!Stop
    BY <2>1, <2>2 DEF Abstract!Stop, Claimed, UsedIds
  <2> QED BY <1>u, <2>3 DEF Abstract!Next, Abstract!Advances
<1>22. ASSUME RunAlarmWorker
      PROVE  Abstract!Next
  BY <1>22, <1>u, QuietStepElapses DEF RunAlarmWorker, queueVars, stateVars,
     wakeVars
<1>23. ASSUME CompareGeneration
      PROVE  Abstract!Next
  BY <1>23, <1>u, QuietStepElapses DEF CompareGeneration, clockVars,
     queueVars, stateVars
<1>24. ASSUME BeginWait
      PROVE  Abstract!Next
  BY <1>24, <1>u, QuietStepElapses DEF BeginWait, clockVars, queueVars,
     stateVars, wakeVars
<1>25. ASSUME Wake
      PROVE  Abstract!Next
  BY <1>25, <1>u, QuietStepElapses DEF Wake, clockVars, queueVars, stateVars
<1>26. ASSUME HostTick
      PROVE  Abstract!Next
  BY <1>26, <1>u, QuietStepElapses DEF HostTick, queueVars, stateVars,
     wakeVars, ctxVars
<1>27. ASSUME UNCHANGED vars
      PROVE  Abstract!Next
  BY <1>27, <1>u, QuietStepElapses DEF clockVars, queueVars, stateVars,
     wakeVars, ctxVars, vars
<1> QED
  BY <1>1, <1>2, <1>3, <1>4, <1>5, <1>6, <1>7, <1>8, <1>9, <1>10, <1>11,
     <1>12, <1>13, <1>14, <1>15, <1>16, <1>17, <1>18, <1>19, <1>20, <1>21,
     <1>22, <1>23, <1>24, <1>25, <1>26, <1>27 DEF Next, Call, Proceed,
     WorkerStep, TimedWaitExpires, SpuriousWake, Aborted

\* Every behaviour of the threads, the worker and the host clock is one the
\* abstract alarm service allows: one-shot alarms, one at a time, in order,
\* never early, none after the service has closed.
THEOREM ImplementsAbstract == Spec => ImplementsAlarmService
<1>1. Init => Abstract!Init
  BY DEF Init, Abstract!Init, UsedIds, Claimed
<1>2. ASSUME IInv, [Next]_vars
      PROVE  [Abstract!Next]_(Abstract!vars)
  <2>1. CASE Next
    BY <1>2, <2>1, RefinementStep
  <2>2. CASE UNCHANGED vars
    BY <2>2 DEF vars, clockVars, queueVars, stateVars, ctxVars, Abstract!vars, UsedIds,
       Claimed
  <2> QED BY <1>2, <2>1, <2>2
<1> QED BY <1>1, <1>2, InvariantHolds, PTL DEF Spec, Abstract!Spec, ImplementsAlarmService
=============================================================================
