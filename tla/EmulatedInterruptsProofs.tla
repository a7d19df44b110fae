---------------------- MODULE EmulatedInterruptsProofs ----------------------
(* Proofs about EmulatedInterrupts, for every set of threads and every limit. *)
EXTENDS EmulatedInterrupts, TLAPS

-----------------------------------------------------------------------------
(* The selected thread *)

\* One thread executes, or the event of the selected one is set and none does.
ThreadShape ==
    /\ \A t, u \in Tasks : Executing(t) /\ Executing(u) => t = u
    /\ \A t \in Tasks : Executing(t) => event = {} /\ (t = current <=> pc[t] # "resume")
    /\ event \subseteq {current}
    /\ \A t \in Tasks : pc[t] = "ended" <=> ended /\ t = current
    /\ ended \/ hRunningThread = current \/ \E t \in Tasks : pc[t] = "resume"
    /\ hRunningThread = NoThread => ended

\* The counters of the thread that executes are its own, those of the others
\* are on their stacks.
NestShape ==
    /\ NestingDescribesTask
    /\ \A t \in Tasks :
           /\ pc[t] \in InDispatch \cup {"isrExit", "resume", "suspend"} => t \in masked
           /\ pc[t] \in {"resume", "suspend"} =>
                  \/ after[t] = "yield" /\ saved[t] = <<depth[t] + 1, 0>>
                  \/ after[t] = "tick" /\ saved[t] = <<1, 1>> /\ depth[t] = 0
                  \/ after[t] \in {"start", "isr"} /\ saved[t] = <<0, 0>> /\ depth[t] = 0

\* A slot's handler is that of its registration, which is gone once the slot is
\* free; retired handles lie behind; a claim belongs to the dispatching thread.
SlotShape ==
    /\ \A s \in Slots :
           IF slot[s].allocated
           THEN slot[s].generation >= 1 /\ slot[s].handler = slot[s].generation
           ELSE slot[s].handler = 0 /\ ~slot[s].pending /\ ~slot[s].enabled
    /\ \A h \in retired : /\ h[2] <= slot[h[1]].generation
                          /\ h[2] = slot[h[1]].generation => ~slot[h[1]].allocated
    /\ held # {} => \E t \in Tasks : pc[t] \in {"claimed", "handler"}
    /\ \A t \in Tasks : pc[t] \in {"claimed", "handler"} => cursor \in Slots
    /\ \A t \in Tasks : pc[t] = "claimed" => held = {<<cursor, slot[cursor].generation>>}

\* Requests: a signal goes to a thread, a handler's request belongs to the
\* handler that runs, a task's kick to its handoff; without delayed stores no
\* store is late, and nothing is requested before the dispatcher is installed.
RequestShape ==
    /\ \A p \in Producers : rpc[p] = "kill" => target[p] \in Tasks
    /\ rpc[Isr] \in {"none", "store"}
    /\ rpc[Isr] = "store" => \E t \in Tasks : pc[t] = "handler"
    /\ \A t \in Tasks : rpc[t] # "store" /\ (rpc[t] # "none" => pc[t] = "suspend")
    /\ WeakOrder \/ buffered = {}
    /\ (\E s \in Slots : slot[s].generation # 0) => dispatcher
    /\ (\E p \in Producers : rpc[p] = "store") => dispatcher
    /\ irqPending \/ buffered # {} => dispatcher

-----------------------------------------------------------------------------
(* Types *)

\* Every step keeps slots, claim and histories in their types.
LEMMA SlotTypesStep ==
    ASSUME TypeOK, SlotShape, Next
    PROVE  SlotTypes'
<1>1. ASSUME NEW t \in Tasks, NEW s \in Slots, NEW enabled \in BOOLEAN,
             registerInterrupt(t, s, enabled)
      PROVE  SlotTypes'
  BY <1>1, LimitsAssumption DEF registerInterrupt, Free, HasUnusedGeneration,
     InTaskContext, nestVars, scanVars, switchVars, TypeOK, SlotTypes, Slots,
     SlotState
<1>2. ASSUME NEW t \in Tasks, NEW h \in Handles, unregisterInterrupt(t, h)
      PROVE  SlotTypes'
  <2>1. h[1] \in Slots /\ h[2] \in 0..MaxGeneration
    BY LimitsAssumption DEF Handles
  <2>2. AfterUnregister(h) = [generation |-> h[2], allocated |-> FALSE,
            enabled |-> FALSE, pending |-> FALSE, handler |-> 0]
    BY DEF AfterUnregister, FreeSlot
  <2>3. AfterUnregister(h) \in SlotState
    BY <2>1, <2>2, LimitsAssumption DEF SlotState
  <2>4. slot' \in [Slots -> SlotState]
    BY <1>2, <2>1, <2>3 DEF unregisterInterrupt, TypeOK, SlotTypes
  <2> QED BY <1>2, <2>4 DEF unregisterInterrupt, scanVars, TypeOK, SlotTypes
<1>3. ASSUME NEW t \in Tasks, vPortEnterCritical(t)
      PROVE  SlotTypes'
  BY <1>3, LimitsAssumption DEF vPortEnterCritical, InTaskContext, requestVars,
     scanVars, slotVars, switchVars, TypeOK, SlotTypes, Slots
<1>4. ASSUME NEW t \in Tasks, vPortExitCritical(t)
      PROVE  SlotTypes'
  BY <1>4, LimitsAssumption DEF vPortExitCritical, InTaskContext, Lowered,
     requestVars, scanVars, slotVars, switchVars, TypeOK, SlotTypes, Slots
<1>5. ASSUME NEW t \in Tasks, NEW next \in Tasks, vPortYield(t, next)
      PROVE  SlotTypes'
  BY <1>5, LimitsAssumption DEF vPortYield, BeginSwitch, Goto, InTaskContext,
     requestVars, scanVars, slotVars, TypeOK, SlotTypes, Slots
<1>6. ASSUME NEW t \in Tasks, NEW next \in Tasks, vPortSystemTickHandler(t, next)
      PROVE  SlotTypes'
  BY <1>6, LimitsAssumption DEF vPortSystemTickHandler, BeginSwitch, Goto,
     requestVars, scanVars, slotVars, TypeOK, SlotTypes, Slots
<1>7. ASSUME NEW t \in Tasks, vPortEndScheduler(t)
      PROVE  SlotTypes'
  BY <1>7, LimitsAssumption DEF vPortEndScheduler, Goto, InTaskContext, nestVars,
     scanVars, slotVars, TypeOK, SlotTypes, Slots
<1>8. ASSUME NEW t \in Tasks, prvResumeThread(t)
      PROVE  SlotTypes'
  BY <1>8, LimitsAssumption DEF prvResumeThread, Goto, KickAtHandoff, Request,
     nestVars, scanVars, slotVars, TypeOK, SlotTypes, Slots
<1>9. ASSUME NEW t \in Tasks, Resume(t)
      PROVE  SlotTypes'
  BY <1>9, LimitsAssumption DEF Resume, EventAfterWait, Goto, Lowered,
     RestoredNesting, requestVars, scanVars, slotVars, TypeOK, SlotTypes, Slots
<1>10. ASSUME NEW t \in Tasks, vPortSimulatedInterruptHandler(t)
      PROVE  SlotTypes'
  <2>1. cursor' = cursor \/ cursor' = 1
    BY <1>10 DEF vPortSimulatedInterruptHandler
  <2>2. dispatched' \in BOOLEAN
    BY <1>10 DEF vPortSimulatedInterruptHandler, TypeOK, SlotTypes
  <2>3. cursor' \in 1..(NumSlots + 1)
    BY <2>1, LimitsAssumption DEF TypeOK, SlotTypes
  <2>4. UNCHANGED <<slotVars, held>>
    BY <1>10 DEF vPortSimulatedInterruptHandler
  <2> QED BY <2>2, <2>3, <2>4 DEF TypeOK, SlotTypes, slotVars
<1>11. ASSUME NEW t \in Tasks, ClaimPending(t)
      PROVE  SlotTypes'
  <2>1. slot[cursor] \in SlotState
    BY <1>11 DEF ClaimPending, TypeOK, SlotTypes
  <2>2. slot' \in [Slots -> SlotState]
    BY <1>11, <2>1 DEF ClaimPending, TypeOK, SlotTypes, SlotState
  <2>3. slot[cursor].generation \in 1..MaxGeneration
    BY <1>11, <2>1, LimitsAssumption DEF ClaimPending, Claimable, SlotShape, SlotState
  <2> QED BY <1>11, <2>2, <2>3 DEF ClaimPending, TypeOK, SlotTypes, Handles
<1>12. ASSUME NEW t \in Tasks, SkipSlot(t)
      PROVE  SlotTypes'
  BY <1>12, LimitsAssumption DEF SkipSlot, Claimable, nestVars, requestVars,
     slotVars, switchVars, TypeOK, SlotTypes, Slots
<1>13. ASSUME NEW t \in Tasks, EndPass(t)
      PROVE  SlotTypes'
  <2>1. cursor' = cursor \/ cursor' = 1
    BY <1>13 DEF EndPass
  <2>2. dispatched' \in BOOLEAN
    BY <1>13 DEF EndPass, TypeOK, SlotTypes
  <2>3. cursor' \in 1..(NumSlots + 1)
    BY <2>1, LimitsAssumption DEF TypeOK, SlotTypes
  <2>4. UNCHANGED <<slotVars, held>>
    BY <1>13 DEF EndPass
  <2> QED BY <2>2, <2>3, <2>4 DEF TypeOK, SlotTypes, slotVars
<1>14. ASSUME NEW t \in Tasks, LoadHandler(t)
      PROVE  SlotTypes'
  <2>1. cursor \in Slots
    BY <1>14 DEF LoadHandler, SlotShape
  <2>2. slot[cursor] \in SlotState
    BY <2>1 DEF TypeOK, SlotTypes
  <2>3. slot[cursor].handler # 0 => slot[cursor].handler \in 1..MaxGeneration
    BY <2>2, LimitsAssumption DEF SlotState
  <2>4. cursor + 1 \in 1..(NumSlots + 1)
    BY <2>1, LimitsAssumption DEF Slots
  <2> QED BY <1>14, <2>1, <2>3, <2>4 DEF LoadHandler, slotVars, TypeOK, SlotTypes, Handles
<1>15. ASSUME NEW t \in Tasks, DrainAgain(t)
      PROVE  SlotTypes'
  BY <1>15, LimitsAssumption DEF DrainAgain, AfterDispatch, Goto, nestVars,
     scanVars, slotVars, switchVars, TypeOK, SlotTypes, Slots
<1>16. ASSUME NEW t \in Tasks, ReturnFromInterrupt(t)
      PROVE  SlotTypes'
  BY <1>16, LimitsAssumption DEF ReturnFromInterrupt, Goto, requestVars, scanVars,
     slotVars, switchVars, TypeOK, SlotTypes, Slots
<1>17. ASSUME NEW t \in Tasks, HandlerYields(t)
      PROVE  SlotTypes'
  BY <1>17, LimitsAssumption DEF HandlerYields, requestVars, scanVars, slotVars,
     switchVars, TypeOK, SlotTypes, Slots
<1>18. ASSUME NEW t \in Tasks, HandlerReturns(t)
      PROVE  SlotTypes'
  BY <1>18, LimitsAssumption DEF HandlerReturns, Goto, nestVars, requestVars,
     slotVars, switchVars, TypeOK, SlotTypes, Slots, SlotShape
<1>19. ASSUME NEW t \in Tasks, NEW next \in Tasks, YieldFromInterrupt(t, next)
      PROVE  SlotTypes'
  BY <1>19, LimitsAssumption DEF YieldFromInterrupt, BeginSwitch, Goto, requestVars,
     scanVars, slotVars, TypeOK, SlotTypes, Slots
<1>20. ASSUME NEW p \in Producers, NEW h \in Handles, setInterruptPending(p, h)
      PROVE  SlotTypes'
  <2>1. h[1] \in Slots /\ slot[h[1]] \in SlotState
    BY DEF TypeOK, SlotTypes, Handles
  <2>2. slot' \in [Slots -> SlotState]
    BY <1>20, <2>1 DEF setInterruptPending, TypeOK, SlotTypes, SlotState
  <2> QED BY <1>20, <2>2 DEF setInterruptPending, scanVars, TypeOK, SlotTypes
<1>21. ASSUME NEW p \in Producers, NEW h \in Handles, enableInterrupt(p, h)
      PROVE  SlotTypes'
  <2>1. h[1] \in Slots /\ slot[h[1]] \in SlotState
    BY DEF TypeOK, SlotTypes, Handles
  <2>2. slot' \in [Slots -> SlotState]
    BY <1>21, <2>1 DEF enableInterrupt, TypeOK, SlotTypes, SlotState
  <2> QED BY <1>21, <2>2 DEF enableInterrupt, scanVars, TypeOK, SlotTypes
<1>22. ASSUME NEW p \in Producers, NEW h \in Handles, disableInterrupt(p, h)
      PROVE  SlotTypes'
  <2>1. h[1] \in Slots /\ slot[h[1]] \in SlotState
    BY DEF TypeOK, SlotTypes, Handles
  <2>2. slot' \in [Slots -> SlotState]
    BY <1>22, <2>1 DEF disableInterrupt, TypeOK, SlotTypes, SlotState
  <2> QED BY <1>22, <2>2 DEF disableInterrupt, scanVars, TypeOK, SlotTypes
<1>23. ASSUME NEW p \in Producers, StorePending(p)
      PROVE  SlotTypes'
  BY <1>23, LimitsAssumption DEF StorePending, Request, nestVars, scanVars,
     slotVars, switchVars, TypeOK, SlotTypes, Slots
<1>24. ASSUME NEW p \in Producers, Drain(p)
      PROVE  SlotTypes'
  BY <1>24, LimitsAssumption DEF Drain, nestVars, scanVars, slotVars, switchVars,
     TypeOK, SlotTypes, Slots
<1>25. ASSUME NEW p \in Producers, CheckPending(p)
      PROVE  SlotTypes'
  BY <1>25, LimitsAssumption DEF CheckPending, Request, nestVars, scanVars,
     slotVars, switchVars, TypeOK, SlotTypes, Slots
<1>26. ASSUME NEW p \in Producers, LoadRunning(p)
      PROVE  SlotTypes'
  BY <1>26, LimitsAssumption DEF LoadRunning, Request, nestVars, scanVars, slotVars,
     switchVars, TypeOK, SlotTypes, Slots
<1>27. ASSUME NEW p \in Producers, Kill(p)
      PROVE  SlotTypes'
  BY <1>27, LimitsAssumption DEF Kill, Request, nestVars, scanVars, slotVars,
     switchVars, TypeOK, SlotTypes, Slots
<1>28. ASSUME RequestFromHandler
      PROVE  SlotTypes'
  BY <1>28, LimitsAssumption DEF RequestFromHandler, Request, nestVars, scanVars,
     slotVars, switchVars, TypeOK, SlotTypes, Slots
<1>29. ASSUME UNCHANGED vars
      PROVE  SlotTypes'
  BY <1>29, LimitsAssumption DEF vars, nestVars, requestVars, scanVars, slotVars,
     switchVars, TypeOK, SlotTypes, Slots
<1> QED
  BY <1>1, <1>2, <1>3, <1>4, <1>5, <1>6, <1>7, <1>8, <1>9, <1>10, <1>11, <1>12,
     <1>13, <1>14, <1>15, <1>16, <1>17, <1>18, <1>19, <1>20, <1>21, <1>22, <1>23,
     <1>24, <1>25, <1>26, <1>27, <1>28, <1>29 DEF Next, TaskCall, ControllerCall,
     RequestStep, SwitchStep, DispatchStep, Stopped

\* Every step keeps requests and signals in their types.
LEMMA RequestTypesStep ==
    ASSUME TypeOK, RequestShape, Next
    PROVE  RequestTypes'
<1>1. ASSUME NEW t \in Tasks, NEW s \in Slots, NEW enabled \in BOOLEAN,
             registerInterrupt(t, s, enabled)
      PROVE  RequestTypes'
  BY <1>1 DEF registerInterrupt, Free, HasUnusedGeneration, InTaskContext, nestVars,
     scanVars, switchVars, TypeOK, RequestTypes, ThreadTypes, RequestShape,
     Producers
<1>2. ASSUME NEW t \in Tasks, NEW h \in Handles, unregisterInterrupt(t, h)
      PROVE  RequestTypes'
  BY <1>2 DEF unregisterInterrupt, AfterUnregister, FreeSlot, InTaskContext,
     Matches, nestVars, requestVars, scanVars, switchVars, TypeOK, RequestTypes,
     ThreadTypes, RequestShape, Producers
<1>3. ASSUME NEW t \in Tasks, vPortEnterCritical(t)
      PROVE  RequestTypes'
  BY <1>3 DEF vPortEnterCritical, InTaskContext, requestVars, scanVars, slotVars,
     switchVars, TypeOK, RequestTypes, ThreadTypes, RequestShape, Producers
<1>4. ASSUME NEW t \in Tasks, vPortExitCritical(t)
      PROVE  RequestTypes'
  BY <1>4 DEF vPortExitCritical, InTaskContext, Lowered, requestVars, scanVars,
     slotVars, switchVars, TypeOK, RequestTypes, ThreadTypes, RequestShape,
     Producers
<1>5. ASSUME NEW t \in Tasks, NEW next \in Tasks, vPortYield(t, next)
      PROVE  RequestTypes'
  BY <1>5 DEF vPortYield, BeginSwitch, Goto, InTaskContext, requestVars, scanVars,
     slotVars, TypeOK, RequestTypes, ThreadTypes, RequestShape, Producers
<1>6. ASSUME NEW t \in Tasks, NEW next \in Tasks, vPortSystemTickHandler(t, next)
      PROVE  RequestTypes'
  BY <1>6 DEF vPortSystemTickHandler, BeginSwitch, Goto, requestVars, scanVars,
     slotVars, TypeOK, RequestTypes, ThreadTypes, RequestShape, Producers
<1>7. ASSUME NEW t \in Tasks, vPortEndScheduler(t)
      PROVE  RequestTypes'
  BY <1>7 DEF vPortEndScheduler, Goto, InTaskContext, nestVars, scanVars, slotVars,
     TypeOK, RequestTypes, ThreadTypes, RequestShape, Producers
<1>8. ASSUME NEW t \in Tasks, prvResumeThread(t)
      PROVE  RequestTypes'
  BY <1>8 DEF prvResumeThread, Goto, KickAtHandoff, Request, nestVars, scanVars,
     slotVars, TypeOK, RequestTypes, ThreadTypes, RequestShape, Producers
<1>9. ASSUME NEW t \in Tasks, Resume(t)
      PROVE  RequestTypes'
  BY <1>9 DEF Resume, EventAfterWait, Goto, Lowered, RestoredNesting, requestVars,
     scanVars, slotVars, TypeOK, RequestTypes, ThreadTypes, RequestShape, Producers
<1>10. ASSUME NEW t \in Tasks, vPortSimulatedInterruptHandler(t)
      PROVE  RequestTypes'
  BY <1>10 DEF vPortSimulatedInterruptHandler, Goto, slotVars, switchVars, TypeOK,
     RequestTypes, ThreadTypes, RequestShape, Producers
<1>11. ASSUME NEW t \in Tasks, ClaimPending(t)
      PROVE  RequestTypes'
  BY <1>11 DEF ClaimPending, Claimable, Goto, nestVars, requestVars, switchVars,
     TypeOK, RequestTypes, ThreadTypes, RequestShape, Producers
<1>12. ASSUME NEW t \in Tasks, SkipSlot(t)
      PROVE  RequestTypes'
  BY <1>12 DEF SkipSlot, Claimable, nestVars, requestVars, slotVars, switchVars,
     TypeOK, RequestTypes, ThreadTypes, RequestShape, Producers
<1>13. ASSUME NEW t \in Tasks, EndPass(t)
      PROVE  RequestTypes'
  BY <1>13 DEF EndPass, Goto, nestVars, requestVars, slotVars, switchVars, TypeOK,
     RequestTypes, ThreadTypes, RequestShape, Producers
<1>14. ASSUME NEW t \in Tasks, LoadHandler(t)
      PROVE  RequestTypes'
  BY <1>14 DEF LoadHandler, Goto, nestVars, requestVars, slotVars, switchVars,
     TypeOK, RequestTypes, ThreadTypes, RequestShape, Producers
<1>15. ASSUME NEW t \in Tasks, DrainAgain(t)
      PROVE  RequestTypes'
  BY <1>15 DEF DrainAgain, AfterDispatch, Goto, nestVars, scanVars, slotVars,
     switchVars, TypeOK, RequestTypes, ThreadTypes, RequestShape, Producers
<1>16. ASSUME NEW t \in Tasks, ReturnFromInterrupt(t)
      PROVE  RequestTypes'
  BY <1>16 DEF ReturnFromInterrupt, Goto, requestVars, scanVars, slotVars,
     switchVars, TypeOK, RequestTypes, ThreadTypes, RequestShape, Producers
<1>17. ASSUME NEW t \in Tasks, HandlerYields(t)
      PROVE  RequestTypes'
  BY <1>17 DEF HandlerYields, requestVars, scanVars, slotVars, switchVars, TypeOK,
     RequestTypes, ThreadTypes, RequestShape, Producers
<1>18. ASSUME NEW t \in Tasks, HandlerReturns(t)
      PROVE  RequestTypes'
  BY <1>18 DEF HandlerReturns, Goto, nestVars, requestVars, slotVars, switchVars,
     TypeOK, RequestTypes, ThreadTypes, RequestShape, Producers
<1>19. ASSUME NEW t \in Tasks, NEW next \in Tasks, YieldFromInterrupt(t, next)
      PROVE  RequestTypes'
  BY <1>19 DEF YieldFromInterrupt, BeginSwitch, Goto, requestVars, scanVars,
     slotVars, TypeOK, RequestTypes, ThreadTypes, RequestShape, Producers
<1>20. ASSUME NEW p \in Producers, NEW h \in Handles, setInterruptPending(p, h)
      PROVE  RequestTypes'
  BY <1>20 DEF setInterruptPending, CanRequest, Matches, Request, nestVars,
     scanVars, switchVars, TypeOK, RequestTypes, ThreadTypes, RequestShape,
     Producers
<1>21. ASSUME NEW p \in Producers, NEW h \in Handles, enableInterrupt(p, h)
      PROVE  RequestTypes'
  BY <1>21 DEF enableInterrupt, CanRequest, EnableRequests, Matches, Request,
     nestVars, scanVars, switchVars, TypeOK, RequestTypes, ThreadTypes,
     RequestShape, Producers
<1>22. ASSUME NEW p \in Producers, NEW h \in Handles, disableInterrupt(p, h)
      PROVE  RequestTypes'
  BY <1>22 DEF disableInterrupt, CanRequest, Matches, nestVars, requestVars,
     scanVars, switchVars, TypeOK, RequestTypes, ThreadTypes, RequestShape,
     Producers
<1>23. ASSUME NEW p \in Producers, StorePending(p)
      PROVE  RequestTypes'
  BY <1>23 DEF StorePending, Request, nestVars, scanVars, slotVars, switchVars,
     TypeOK, RequestTypes, ThreadTypes, RequestShape, Producers
<1>24. ASSUME NEW p \in Producers, Drain(p)
      PROVE  RequestTypes'
  BY <1>24 DEF Drain, nestVars, scanVars, slotVars, switchVars, TypeOK,
     RequestTypes, ThreadTypes, RequestShape, Producers
<1>25. ASSUME NEW p \in Producers, CheckPending(p)
      PROVE  RequestTypes'
  BY <1>25 DEF CheckPending, Request, nestVars, scanVars, slotVars, switchVars,
     TypeOK, RequestTypes, ThreadTypes, RequestShape, Producers
<1>26. ASSUME NEW p \in Producers, LoadRunning(p)
      PROVE  RequestTypes'
  BY <1>26 DEF LoadRunning, Request, nestVars, scanVars, slotVars, switchVars,
     TypeOK, RequestTypes, ThreadTypes, RequestShape, Producers
<1>27. ASSUME NEW p \in Producers, Kill(p)
      PROVE  RequestTypes'
  BY <1>27 DEF Kill, Request, nestVars, scanVars, slotVars, switchVars, TypeOK,
     RequestTypes, ThreadTypes, RequestShape, Producers
<1>28. ASSUME RequestFromHandler
      PROVE  RequestTypes'
  BY <1>28 DEF RequestFromHandler, Request, nestVars, scanVars, slotVars,
     switchVars, TypeOK, RequestTypes, ThreadTypes, RequestShape, Producers
<1>29. ASSUME UNCHANGED vars
      PROVE  RequestTypes'
  BY <1>29 DEF vars, nestVars, requestVars, scanVars, slotVars, switchVars, TypeOK,
     RequestTypes, ThreadTypes, RequestShape, Producers
<1> QED
  BY <1>1, <1>2, <1>3, <1>4, <1>5, <1>6, <1>7, <1>8, <1>9, <1>10, <1>11, <1>12,
     <1>13, <1>14, <1>15, <1>16, <1>17, <1>18, <1>19, <1>20, <1>21, <1>22, <1>23,
     <1>24, <1>25, <1>26, <1>27, <1>28, <1>29 DEF Next, TaskCall, ControllerCall,
     RequestStep, SwitchStep, DispatchStep, Stopped

\* Every step keeps the state of the threads in its type.
LEMMA ThreadTypesStep ==
    ASSUME TypeOK, Next
    PROVE  ThreadTypes'
<1>1. ASSUME NEW t \in Tasks, NEW s \in Slots, NEW enabled \in BOOLEAN,
             registerInterrupt(t, s, enabled)
      PROVE  ThreadTypes'
  BY <1>1 DEF registerInterrupt, Free, HasUnusedGeneration, InTaskContext, nestVars,
     scanVars, switchVars, TypeOK, ThreadTypes, Labels
<1>2. ASSUME NEW t \in Tasks, NEW h \in Handles, unregisterInterrupt(t, h)
      PROVE  ThreadTypes'
  BY <1>2 DEF unregisterInterrupt, AfterUnregister, FreeSlot, InTaskContext,
     Matches, nestVars, requestVars, scanVars, switchVars, TypeOK, ThreadTypes,
     Labels
<1>3. ASSUME NEW t \in Tasks, vPortEnterCritical(t)
      PROVE  ThreadTypes'
  BY <1>3 DEF vPortEnterCritical, InTaskContext, requestVars, scanVars, slotVars,
     switchVars, TypeOK, ThreadTypes, Labels
<1>4. ASSUME NEW t \in Tasks, vPortExitCritical(t)
      PROVE  ThreadTypes'
  BY <1>4 DEF vPortExitCritical, InTaskContext, Lowered, requestVars, scanVars,
     slotVars, switchVars, TypeOK, ThreadTypes, Labels
<1>5. ASSUME NEW t \in Tasks, NEW next \in Tasks, vPortYield(t, next)
      PROVE  ThreadTypes'
  BY <1>5 DEF vPortYield, BeginSwitch, Goto, InTaskContext, requestVars, scanVars,
     slotVars, TypeOK, ThreadTypes, Labels
<1>6. ASSUME NEW t \in Tasks, NEW next \in Tasks, vPortSystemTickHandler(t, next)
      PROVE  ThreadTypes'
  BY <1>6 DEF vPortSystemTickHandler, BeginSwitch, Goto, requestVars, scanVars,
     slotVars, TypeOK, ThreadTypes, Labels
<1>7. ASSUME NEW t \in Tasks, vPortEndScheduler(t)
      PROVE  ThreadTypes'
  BY <1>7 DEF vPortEndScheduler, Goto, InTaskContext, nestVars, scanVars, slotVars,
     TypeOK, ThreadTypes, Labels
<1>8. ASSUME NEW t \in Tasks, prvResumeThread(t)
      PROVE  ThreadTypes'
  BY <1>8 DEF prvResumeThread, Goto, KickAtHandoff, Request, nestVars, scanVars,
     slotVars, TypeOK, ThreadTypes, Labels
<1>9. ASSUME NEW t \in Tasks, Resume(t)
      PROVE  ThreadTypes'
  BY <1>9 DEF Resume, EventAfterWait, Goto, Lowered, RestoredNesting, requestVars,
     scanVars, slotVars, TypeOK, ThreadTypes, Labels
<1>10. ASSUME NEW t \in Tasks, vPortSimulatedInterruptHandler(t)
      PROVE  ThreadTypes'
  BY <1>10 DEF vPortSimulatedInterruptHandler, Goto, slotVars, switchVars, TypeOK,
     ThreadTypes, Labels
<1>11. ASSUME NEW t \in Tasks, ClaimPending(t)
      PROVE  ThreadTypes'
  BY <1>11 DEF ClaimPending, Claimable, Goto, nestVars, requestVars, switchVars,
     TypeOK, ThreadTypes, Labels
<1>12. ASSUME NEW t \in Tasks, SkipSlot(t)
      PROVE  ThreadTypes'
  BY <1>12 DEF SkipSlot, Claimable, nestVars, requestVars, slotVars, switchVars,
     TypeOK, ThreadTypes, Labels
<1>13. ASSUME NEW t \in Tasks, EndPass(t)
      PROVE  ThreadTypes'
  BY <1>13 DEF EndPass, Goto, nestVars, requestVars, slotVars, switchVars, TypeOK,
     ThreadTypes, Labels
<1>14. ASSUME NEW t \in Tasks, LoadHandler(t)
      PROVE  ThreadTypes'
  BY <1>14 DEF LoadHandler, Goto, nestVars, requestVars, slotVars, switchVars,
     TypeOK, ThreadTypes, Labels
<1>15. ASSUME NEW t \in Tasks, DrainAgain(t)
      PROVE  ThreadTypes'
  BY <1>15 DEF DrainAgain, AfterDispatch, Goto, nestVars, scanVars, slotVars,
     switchVars, TypeOK, ThreadTypes, Labels
<1>16. ASSUME NEW t \in Tasks, ReturnFromInterrupt(t)
      PROVE  ThreadTypes'
  BY <1>16 DEF ReturnFromInterrupt, Goto, requestVars, scanVars, slotVars,
     switchVars, TypeOK, ThreadTypes, Labels
<1>17. ASSUME NEW t \in Tasks, HandlerYields(t)
      PROVE  ThreadTypes'
  BY <1>17 DEF HandlerYields, requestVars, scanVars, slotVars, switchVars, TypeOK,
     ThreadTypes, Labels
<1>18. ASSUME NEW t \in Tasks, HandlerReturns(t)
      PROVE  ThreadTypes'
  BY <1>18 DEF HandlerReturns, Goto, nestVars, requestVars, slotVars, switchVars,
     TypeOK, ThreadTypes, Labels
<1>19. ASSUME NEW t \in Tasks, NEW next \in Tasks, YieldFromInterrupt(t, next)
      PROVE  ThreadTypes'
  BY <1>19 DEF YieldFromInterrupt, BeginSwitch, Goto, requestVars, scanVars,
     slotVars, TypeOK, ThreadTypes, Labels
<1>20. ASSUME NEW p \in Producers, NEW h \in Handles, setInterruptPending(p, h)
      PROVE  ThreadTypes'
  BY <1>20 DEF setInterruptPending, CanRequest, Matches, Request, nestVars,
     scanVars, switchVars, TypeOK, ThreadTypes, Labels
<1>21. ASSUME NEW p \in Producers, NEW h \in Handles, enableInterrupt(p, h)
      PROVE  ThreadTypes'
  BY <1>21 DEF enableInterrupt, CanRequest, EnableRequests, Matches, Request,
     nestVars, scanVars, switchVars, TypeOK, ThreadTypes, Labels
<1>22. ASSUME NEW p \in Producers, NEW h \in Handles, disableInterrupt(p, h)
      PROVE  ThreadTypes'
  BY <1>22 DEF disableInterrupt, CanRequest, Matches, nestVars, requestVars,
     scanVars, switchVars, TypeOK, ThreadTypes, Labels
<1>23. ASSUME NEW p \in Producers, StorePending(p)
      PROVE  ThreadTypes'
  BY <1>23 DEF StorePending, Request, nestVars, scanVars, slotVars, switchVars,
     TypeOK, ThreadTypes, Labels
<1>24. ASSUME NEW p \in Producers, Drain(p)
      PROVE  ThreadTypes'
  BY <1>24 DEF Drain, nestVars, scanVars, slotVars, switchVars, TypeOK, ThreadTypes,
     Labels
<1>25. ASSUME NEW p \in Producers, CheckPending(p)
      PROVE  ThreadTypes'
  BY <1>25 DEF CheckPending, Request, nestVars, scanVars, slotVars, switchVars,
     TypeOK, ThreadTypes, Labels
<1>26. ASSUME NEW p \in Producers, LoadRunning(p)
      PROVE  ThreadTypes'
  BY <1>26 DEF LoadRunning, Request, nestVars, scanVars, slotVars, switchVars,
     TypeOK, ThreadTypes, Labels
<1>27. ASSUME NEW p \in Producers, Kill(p)
      PROVE  ThreadTypes'
  BY <1>27 DEF Kill, Request, nestVars, scanVars, slotVars, switchVars, TypeOK,
     ThreadTypes, Labels
<1>28. ASSUME RequestFromHandler
      PROVE  ThreadTypes'
  BY <1>28 DEF RequestFromHandler, Request, nestVars, scanVars, slotVars,
     switchVars, TypeOK, ThreadTypes, Labels
<1>29. ASSUME UNCHANGED vars
      PROVE  ThreadTypes'
  BY <1>29 DEF vars, nestVars, requestVars, scanVars, slotVars, switchVars, TypeOK,
     ThreadTypes, Labels
<1> QED
  BY <1>1, <1>2, <1>3, <1>4, <1>5, <1>6, <1>7, <1>8, <1>9, <1>10, <1>11, <1>12,
     <1>13, <1>14, <1>15, <1>16, <1>17, <1>18, <1>19, <1>20, <1>21, <1>22, <1>23,
     <1>24, <1>25, <1>26, <1>27, <1>28, <1>29 DEF Next, TaskCall, ControllerCall,
     RequestStep, SwitchStep, DispatchStep, Stopped

\* Every step keeps the nesting counters in their types.
LEMMA NestTypesStep ==
    ASSUME TypeOK, NestShape, Next
    PROVE  NestTypes'
<1>1. ASSUME NEW t \in Tasks, NEW s \in Slots, NEW enabled \in BOOLEAN,
             registerInterrupt(t, s, enabled)
      PROVE  NestTypes'
  BY <1>1 DEF registerInterrupt, Free, HasUnusedGeneration, InTaskContext, nestVars,
     scanVars, switchVars, TypeOK, NestTypes
<1>2. ASSUME NEW t \in Tasks, NEW h \in Handles, unregisterInterrupt(t, h)
      PROVE  NestTypes'
  BY <1>2 DEF unregisterInterrupt, AfterUnregister, FreeSlot, InTaskContext,
     Matches, nestVars, requestVars, scanVars, switchVars, TypeOK, NestTypes
<1>3. ASSUME NEW t \in Tasks, vPortEnterCritical(t)
      PROVE  NestTypes'
  BY <1>3 DEF vPortEnterCritical, InTaskContext, requestVars, scanVars, slotVars,
     switchVars, TypeOK, NestTypes
<1>4. ASSUME NEW t \in Tasks, vPortExitCritical(t)
      PROVE  NestTypes'
  BY <1>4 DEF vPortExitCritical, InTaskContext, Lowered, requestVars, scanVars,
     slotVars, switchVars, TypeOK, NestTypes
<1>5. ASSUME NEW t \in Tasks, NEW next \in Tasks, vPortYield(t, next)
      PROVE  NestTypes'
  BY <1>5 DEF vPortYield, BeginSwitch, Goto, InTaskContext, requestVars, scanVars,
     slotVars, TypeOK, NestTypes
<1>6. ASSUME NEW t \in Tasks, NEW next \in Tasks, vPortSystemTickHandler(t, next)
      PROVE  NestTypes'
  <2>1. critNest' \in Nat /\ isrNest' \in Nat
    BY <1>6 DEF vPortSystemTickHandler, BeginSwitch, TypeOK, NestTypes
  <2>2. yieldPending' \in BOOLEAN
    BY <1>6 DEF vPortSystemTickHandler, TypeOK, NestTypes
  <2>3. saved' \in [Tasks -> Nat \X Nat] /\ masked' \subseteq Tasks
    BY <1>6, <2>1 DEF vPortSystemTickHandler, BeginSwitch, TypeOK, NestTypes
  <2>4. depth' = depth
    BY <1>6 DEF vPortSystemTickHandler
  <2> QED BY <2>1, <2>2, <2>3, <2>4 DEF TypeOK, NestTypes
<1>7. ASSUME NEW t \in Tasks, vPortEndScheduler(t)
      PROVE  NestTypes'
  BY <1>7 DEF vPortEndScheduler, Goto, InTaskContext, nestVars, scanVars, slotVars,
     TypeOK, NestTypes
<1>8. ASSUME NEW t \in Tasks, prvResumeThread(t)
      PROVE  NestTypes'
  BY <1>8 DEF prvResumeThread, Goto, KickAtHandoff, Request, nestVars, scanVars,
     slotVars, TypeOK, NestTypes
<1>9. ASSUME NEW t \in Tasks, Resume(t)
      PROVE  NestTypes'
  <2>1. critNest' \in Nat /\ isrNest' \in Nat
    BY <1>9 DEF Resume, RestoredNesting, Lowered, TypeOK, NestTypes
  <2>2. yieldPending' \in BOOLEAN
    BY <1>9 DEF Resume, TypeOK, NestTypes
  <2>3. saved' \in [Tasks -> Nat \X Nat] /\ masked' \subseteq Tasks
    BY <1>9, <2>1 DEF Resume, TypeOK, NestTypes
  <2>4. depth' = depth
    BY <1>9 DEF Resume
  <2> QED BY <2>1, <2>2, <2>3, <2>4 DEF TypeOK, NestTypes
<1>10. ASSUME NEW t \in Tasks, vPortSimulatedInterruptHandler(t)
      PROVE  NestTypes'
  BY <1>10 DEF vPortSimulatedInterruptHandler, Goto, slotVars, switchVars, TypeOK,
     NestTypes
<1>11. ASSUME NEW t \in Tasks, ClaimPending(t)
      PROVE  NestTypes'
  BY <1>11 DEF ClaimPending, Claimable, Goto, nestVars, requestVars, switchVars,
     TypeOK, NestTypes
<1>12. ASSUME NEW t \in Tasks, SkipSlot(t)
      PROVE  NestTypes'
  BY <1>12 DEF SkipSlot, Claimable, nestVars, requestVars, slotVars, switchVars,
     TypeOK, NestTypes
<1>13. ASSUME NEW t \in Tasks, EndPass(t)
      PROVE  NestTypes'
  BY <1>13 DEF EndPass, Goto, nestVars, requestVars, slotVars, switchVars, TypeOK,
     NestTypes
<1>14. ASSUME NEW t \in Tasks, LoadHandler(t)
      PROVE  NestTypes'
  BY <1>14 DEF LoadHandler, Goto, nestVars, requestVars, slotVars, switchVars,
     TypeOK, NestTypes
<1>15. ASSUME NEW t \in Tasks, DrainAgain(t)
      PROVE  NestTypes'
  BY <1>15 DEF DrainAgain, AfterDispatch, Goto, nestVars, scanVars, slotVars,
     switchVars, TypeOK, NestTypes
<1>16. ASSUME NEW t \in Tasks, ReturnFromInterrupt(t)
      PROVE  NestTypes'
  <2>1. critNest' \in Nat /\ isrNest' \in Nat
    BY <1>16 DEF ReturnFromInterrupt, NestShape, NestingDescribesTask, InDispatch, TypeOK, NestTypes
  <2>2. yieldPending' \in BOOLEAN
    BY <1>16 DEF ReturnFromInterrupt, TypeOK, NestTypes
  <2>3. saved' \in [Tasks -> Nat \X Nat] /\ masked' \subseteq Tasks
    BY <1>16, <2>1 DEF ReturnFromInterrupt, switchVars, TypeOK, NestTypes
  <2>4. depth' = depth
    BY <1>16 DEF ReturnFromInterrupt
  <2> QED BY <2>1, <2>2, <2>3, <2>4 DEF TypeOK, NestTypes
<1>17. ASSUME NEW t \in Tasks, HandlerYields(t)
      PROVE  NestTypes'
  BY <1>17 DEF HandlerYields, requestVars, scanVars, slotVars, switchVars, TypeOK,
     NestTypes
<1>18. ASSUME NEW t \in Tasks, HandlerReturns(t)
      PROVE  NestTypes'
  BY <1>18 DEF HandlerReturns, Goto, nestVars, requestVars, slotVars, switchVars,
     TypeOK, NestTypes
<1>19. ASSUME NEW t \in Tasks, NEW next \in Tasks, YieldFromInterrupt(t, next)
      PROVE  NestTypes'
  <2>1. critNest' \in Nat /\ isrNest' \in Nat
    BY <1>19 DEF YieldFromInterrupt, BeginSwitch, NestShape, NestingDescribesTask, InDispatch, TypeOK, NestTypes
  <2>2. yieldPending' \in BOOLEAN
    BY <1>19 DEF YieldFromInterrupt, TypeOK, NestTypes
  <2>3. saved' \in [Tasks -> Nat \X Nat] /\ masked' \subseteq Tasks
    BY <1>19, <2>1 DEF YieldFromInterrupt, BeginSwitch, TypeOK, NestTypes
  <2>4. depth' = depth
    BY <1>19 DEF YieldFromInterrupt
  <2> QED BY <2>1, <2>2, <2>3, <2>4 DEF TypeOK, NestTypes
<1>20. ASSUME NEW p \in Producers, NEW h \in Handles, setInterruptPending(p, h)
      PROVE  NestTypes'
  BY <1>20 DEF setInterruptPending, CanRequest, Matches, Request, nestVars,
     scanVars, switchVars, TypeOK, NestTypes
<1>21. ASSUME NEW p \in Producers, NEW h \in Handles, enableInterrupt(p, h)
      PROVE  NestTypes'
  BY <1>21 DEF enableInterrupt, CanRequest, EnableRequests, Matches, Request,
     nestVars, scanVars, switchVars, TypeOK, NestTypes
<1>22. ASSUME NEW p \in Producers, NEW h \in Handles, disableInterrupt(p, h)
      PROVE  NestTypes'
  BY <1>22 DEF disableInterrupt, CanRequest, Matches, nestVars, requestVars,
     scanVars, switchVars, TypeOK, NestTypes
<1>23. ASSUME NEW p \in Producers, StorePending(p)
      PROVE  NestTypes'
  BY <1>23 DEF StorePending, Request, nestVars, scanVars, slotVars, switchVars,
     TypeOK, NestTypes
<1>24. ASSUME NEW p \in Producers, Drain(p)
      PROVE  NestTypes'
  BY <1>24 DEF Drain, nestVars, scanVars, slotVars, switchVars, TypeOK, NestTypes
<1>25. ASSUME NEW p \in Producers, CheckPending(p)
      PROVE  NestTypes'
  BY <1>25 DEF CheckPending, Request, nestVars, scanVars, slotVars, switchVars,
     TypeOK, NestTypes
<1>26. ASSUME NEW p \in Producers, LoadRunning(p)
      PROVE  NestTypes'
  BY <1>26 DEF LoadRunning, Request, nestVars, scanVars, slotVars, switchVars,
     TypeOK, NestTypes
<1>27. ASSUME NEW p \in Producers, Kill(p)
      PROVE  NestTypes'
  BY <1>27 DEF Kill, Request, nestVars, scanVars, slotVars, switchVars, TypeOK,
     NestTypes
<1>28. ASSUME RequestFromHandler
      PROVE  NestTypes'
  BY <1>28 DEF RequestFromHandler, Request, nestVars, scanVars, slotVars,
     switchVars, TypeOK, NestTypes
<1>29. ASSUME UNCHANGED vars
      PROVE  NestTypes'
  BY <1>29 DEF vars, nestVars, requestVars, scanVars, slotVars, switchVars, TypeOK,
     NestTypes
<1> QED
  BY <1>1, <1>2, <1>3, <1>4, <1>5, <1>6, <1>7, <1>8, <1>9, <1>10, <1>11, <1>12,
     <1>13, <1>14, <1>15, <1>16, <1>17, <1>18, <1>19, <1>20, <1>21, <1>22, <1>23,
     <1>24, <1>25, <1>26, <1>27, <1>28, <1>29 DEF Next, TaskCall, ControllerCall,
     RequestStep, SwitchStep, DispatchStep, Stopped

\* Every step keeps the handoff exclusive.
LEMMA ThreadStep ==
    ASSUME TypeOK, ThreadShape, Next
    PROVE  ThreadShape'
<1>1. ASSUME NEW t \in Tasks, NEW s \in Slots, NEW enabled \in BOOLEAN,
             registerInterrupt(t, s, enabled)
      PROVE  ThreadShape'
  BY <1>1, ThreadsAssumption DEF registerInterrupt, Free, HasUnusedGeneration,
     InTaskContext, nestVars, scanVars, switchVars, TypeOK, ThreadTypes,
     ThreadShape, Executing, Labels, InDispatch
<1>2. ASSUME NEW t \in Tasks, NEW h \in Handles, unregisterInterrupt(t, h)
      PROVE  ThreadShape'
  BY <1>2, ThreadsAssumption DEF unregisterInterrupt, AfterUnregister, FreeSlot,
     InTaskContext, Matches, nestVars, requestVars, scanVars, switchVars, TypeOK,
     ThreadTypes, ThreadShape, Executing, Labels, InDispatch
<1>3. ASSUME NEW t \in Tasks, vPortEnterCritical(t)
      PROVE  ThreadShape'
  BY <1>3, ThreadsAssumption DEF vPortEnterCritical, InTaskContext, requestVars,
     scanVars, slotVars, switchVars, TypeOK, ThreadTypes, ThreadShape, Executing,
     Labels, InDispatch
<1>4. ASSUME NEW t \in Tasks, vPortExitCritical(t)
      PROVE  ThreadShape'
  BY <1>4, ThreadsAssumption DEF vPortExitCritical, InTaskContext, Lowered,
     requestVars, scanVars, slotVars, switchVars, TypeOK, ThreadTypes, ThreadShape,
     Executing, Labels, InDispatch
<1>5. ASSUME NEW t \in Tasks, NEW next \in Tasks, vPortYield(t, next)
      PROVE  ThreadShape'
  BY <1>5, ThreadsAssumption DEF vPortYield, BeginSwitch, Goto, InTaskContext,
     requestVars, scanVars, slotVars, TypeOK, ThreadTypes, ThreadShape, Executing,
     Labels, InDispatch
<1>6. ASSUME NEW t \in Tasks, NEW next \in Tasks, vPortSystemTickHandler(t, next)
      PROVE  ThreadShape'
  BY <1>6, ThreadsAssumption DEF vPortSystemTickHandler, BeginSwitch, Goto,
     requestVars, scanVars, slotVars, TypeOK, ThreadTypes, ThreadShape, Executing,
     Labels, InDispatch
<1>7. ASSUME NEW t \in Tasks, vPortEndScheduler(t)
      PROVE  ThreadShape'
  BY <1>7, ThreadsAssumption DEF vPortEndScheduler, Goto, InTaskContext, nestVars,
     scanVars, slotVars, TypeOK, ThreadTypes, ThreadShape, Executing, Labels,
     InDispatch
<1>8. ASSUME NEW t \in Tasks, prvResumeThread(t)
      PROVE  ThreadShape'
  BY <1>8, ThreadsAssumption DEF prvResumeThread, Goto, KickAtHandoff, Request,
     nestVars, scanVars, slotVars, TypeOK, ThreadTypes, ThreadShape, Executing,
     Labels, InDispatch
<1>9. ASSUME NEW t \in Tasks, Resume(t)
      PROVE  ThreadShape'
  BY <1>9, ThreadsAssumption DEF Resume, EventAfterWait, Goto, Lowered,
     RestoredNesting, requestVars, scanVars, slotVars, TypeOK, ThreadTypes,
     ThreadShape, Executing, Labels, InDispatch
<1>10. ASSUME NEW t \in Tasks, vPortSimulatedInterruptHandler(t)
      PROVE  ThreadShape'
  BY <1>10, ThreadsAssumption DEF vPortSimulatedInterruptHandler, Goto, slotVars,
     switchVars, TypeOK, ThreadTypes, ThreadShape, Executing, Labels, InDispatch
<1>11. ASSUME NEW t \in Tasks, ClaimPending(t)
      PROVE  ThreadShape'
  BY <1>11, ThreadsAssumption DEF ClaimPending, Claimable, Goto, nestVars,
     requestVars, switchVars, TypeOK, ThreadTypes, ThreadShape, Executing, Labels,
     InDispatch
<1>12. ASSUME NEW t \in Tasks, SkipSlot(t)
      PROVE  ThreadShape'
  BY <1>12, ThreadsAssumption DEF SkipSlot, Claimable, nestVars, requestVars,
     slotVars, switchVars, TypeOK, ThreadTypes, ThreadShape, Executing, Labels,
     InDispatch
<1>13. ASSUME NEW t \in Tasks, EndPass(t)
      PROVE  ThreadShape'
  BY <1>13, ThreadsAssumption DEF EndPass, Goto, nestVars, requestVars, slotVars,
     switchVars, TypeOK, ThreadTypes, ThreadShape, Executing, Labels, InDispatch
<1>14. ASSUME NEW t \in Tasks, LoadHandler(t)
      PROVE  ThreadShape'
  BY <1>14, ThreadsAssumption DEF LoadHandler, Goto, nestVars, requestVars,
     slotVars, switchVars, TypeOK, ThreadTypes, ThreadShape, Executing, Labels,
     InDispatch
<1>15. ASSUME NEW t \in Tasks, DrainAgain(t)
      PROVE  ThreadShape'
  BY <1>15, ThreadsAssumption DEF DrainAgain, AfterDispatch, Goto, nestVars,
     scanVars, slotVars, switchVars, TypeOK, ThreadTypes, ThreadShape, Executing,
     Labels, InDispatch
<1>16. ASSUME NEW t \in Tasks, ReturnFromInterrupt(t)
      PROVE  ThreadShape'
  BY <1>16, ThreadsAssumption DEF ReturnFromInterrupt, Goto, requestVars, scanVars,
     slotVars, switchVars, TypeOK, ThreadTypes, ThreadShape, Executing, Labels,
     InDispatch
<1>17. ASSUME NEW t \in Tasks, HandlerYields(t)
      PROVE  ThreadShape'
  BY <1>17, ThreadsAssumption DEF HandlerYields, requestVars, scanVars, slotVars,
     switchVars, TypeOK, ThreadTypes, ThreadShape, Executing, Labels, InDispatch
<1>18. ASSUME NEW t \in Tasks, HandlerReturns(t)
      PROVE  ThreadShape'
  BY <1>18, ThreadsAssumption DEF HandlerReturns, Goto, nestVars, requestVars,
     slotVars, switchVars, TypeOK, ThreadTypes, ThreadShape, Executing, Labels,
     InDispatch
<1>19. ASSUME NEW t \in Tasks, NEW next \in Tasks, YieldFromInterrupt(t, next)
      PROVE  ThreadShape'
  BY <1>19, ThreadsAssumption DEF YieldFromInterrupt, BeginSwitch, Goto,
     requestVars, scanVars, slotVars, TypeOK, ThreadTypes, ThreadShape, Executing,
     Labels, InDispatch
<1>20. ASSUME NEW p \in Producers, NEW h \in Handles, setInterruptPending(p, h)
      PROVE  ThreadShape'
  BY <1>20, ThreadsAssumption DEF setInterruptPending, CanRequest, Matches, Request,
     nestVars, scanVars, switchVars, TypeOK, ThreadTypes, ThreadShape, Executing,
     Labels, InDispatch
<1>21. ASSUME NEW p \in Producers, NEW h \in Handles, enableInterrupt(p, h)
      PROVE  ThreadShape'
  BY <1>21, ThreadsAssumption DEF enableInterrupt, CanRequest, EnableRequests,
     Matches, Request, nestVars, scanVars, switchVars, TypeOK, ThreadTypes,
     ThreadShape, Executing, Labels, InDispatch
<1>22. ASSUME NEW p \in Producers, NEW h \in Handles, disableInterrupt(p, h)
      PROVE  ThreadShape'
  BY <1>22, ThreadsAssumption DEF disableInterrupt, CanRequest, Matches, nestVars,
     requestVars, scanVars, switchVars, TypeOK, ThreadTypes, ThreadShape, Executing,
     Labels, InDispatch
<1>23. ASSUME NEW p \in Producers, StorePending(p)
      PROVE  ThreadShape'
  BY <1>23, ThreadsAssumption DEF StorePending, Request, nestVars, scanVars,
     slotVars, switchVars, TypeOK, ThreadTypes, ThreadShape, Executing, Labels,
     InDispatch
<1>24. ASSUME NEW p \in Producers, Drain(p)
      PROVE  ThreadShape'
  BY <1>24, ThreadsAssumption DEF Drain, nestVars, scanVars, slotVars, switchVars,
     TypeOK, ThreadTypes, ThreadShape, Executing, Labels, InDispatch
<1>25. ASSUME NEW p \in Producers, CheckPending(p)
      PROVE  ThreadShape'
  BY <1>25, ThreadsAssumption DEF CheckPending, Request, nestVars, scanVars,
     slotVars, switchVars, TypeOK, ThreadTypes, ThreadShape, Executing, Labels,
     InDispatch
<1>26. ASSUME NEW p \in Producers, LoadRunning(p)
      PROVE  ThreadShape'
  BY <1>26, ThreadsAssumption DEF LoadRunning, Request, nestVars, scanVars,
     slotVars, switchVars, TypeOK, ThreadTypes, ThreadShape, Executing, Labels,
     InDispatch
<1>27. ASSUME NEW p \in Producers, Kill(p)
      PROVE  ThreadShape'
  BY <1>27, ThreadsAssumption DEF Kill, Request, nestVars, scanVars, slotVars,
     switchVars, TypeOK, ThreadTypes, ThreadShape, Executing, Labels, InDispatch
<1>28. ASSUME RequestFromHandler
      PROVE  ThreadShape'
  BY <1>28, ThreadsAssumption DEF RequestFromHandler, Request, nestVars, scanVars,
     slotVars, switchVars, TypeOK, ThreadTypes, ThreadShape, Executing, Labels,
     InDispatch
<1>29. ASSUME UNCHANGED vars
      PROVE  ThreadShape'
  BY <1>29, ThreadsAssumption DEF vars, nestVars, requestVars, scanVars, slotVars,
     switchVars, TypeOK, ThreadTypes, ThreadShape, Executing, Labels, InDispatch
<1> QED
  BY <1>1, <1>2, <1>3, <1>4, <1>5, <1>6, <1>7, <1>8, <1>9, <1>10, <1>11, <1>12,
     <1>13, <1>14, <1>15, <1>16, <1>17, <1>18, <1>19, <1>20, <1>21, <1>22, <1>23,
     <1>24, <1>25, <1>26, <1>27, <1>28, <1>29 DEF Next, TaskCall, ControllerCall,
     RequestStep, SwitchStep, DispatchStep, Stopped

\* Every step keeps the counters those of the thread that executes.
LEMMA NestStep ==
    ASSUME TypeOK, ThreadShape, NestShape, Next
    PROVE  NestShape'
<1>1. ASSUME NEW t \in Tasks, NEW s \in Slots, NEW enabled \in BOOLEAN,
             registerInterrupt(t, s, enabled)
      PROVE  NestShape'
  BY <1>1 DEF registerInterrupt, Free, HasUnusedGeneration, InTaskContext, nestVars,
     scanVars, switchVars, TypeOK, ThreadTypes, NestTypes, ThreadShape, Executing,
     InDispatch, NestShape, NestingDescribesTask
<1>2. ASSUME NEW t \in Tasks, NEW h \in Handles, unregisterInterrupt(t, h)
      PROVE  NestShape'
  BY <1>2 DEF unregisterInterrupt, AfterUnregister, FreeSlot, InTaskContext,
     Matches, nestVars, requestVars, scanVars, switchVars, TypeOK, ThreadTypes,
     NestTypes, ThreadShape, Executing, InDispatch, NestShape, NestingDescribesTask
<1>3. ASSUME NEW t \in Tasks, vPortEnterCritical(t)
      PROVE  NestShape'
  BY <1>3 DEF vPortEnterCritical, InTaskContext, requestVars, scanVars, slotVars,
     switchVars, TypeOK, ThreadTypes, NestTypes, ThreadShape, Executing, InDispatch,
     NestShape, NestingDescribesTask
<1>4. ASSUME NEW t \in Tasks, vPortExitCritical(t)
      PROVE  NestShape'
  BY <1>4 DEF vPortExitCritical, InTaskContext, Lowered, requestVars, scanVars,
     slotVars, switchVars, TypeOK, ThreadTypes, NestTypes, ThreadShape, Executing,
     InDispatch, NestShape, NestingDescribesTask
<1>5. ASSUME NEW t \in Tasks, NEW next \in Tasks, vPortYield(t, next)
      PROVE  NestShape'
  BY <1>5 DEF vPortYield, BeginSwitch, Goto, InTaskContext, requestVars, scanVars,
     slotVars, TypeOK, ThreadTypes, NestTypes, ThreadShape, Executing, InDispatch,
     NestShape, NestingDescribesTask
<1>6. ASSUME NEW t \in Tasks, NEW next \in Tasks, vPortSystemTickHandler(t, next)
      PROVE  NestShape'
  BY <1>6 DEF vPortSystemTickHandler, BeginSwitch, Goto, requestVars, scanVars,
     slotVars, TypeOK, ThreadTypes, NestTypes, ThreadShape, Executing, InDispatch,
     NestShape, NestingDescribesTask
<1>7. ASSUME NEW t \in Tasks, vPortEndScheduler(t)
      PROVE  NestShape'
  BY <1>7 DEF vPortEndScheduler, Goto, InTaskContext, nestVars, scanVars, slotVars,
     TypeOK, ThreadTypes, NestTypes, ThreadShape, Executing, InDispatch, NestShape,
     NestingDescribesTask
<1>8. ASSUME NEW t \in Tasks, prvResumeThread(t)
      PROVE  NestShape'
  BY <1>8 DEF prvResumeThread, Goto, KickAtHandoff, Request, nestVars, scanVars,
     slotVars, TypeOK, ThreadTypes, NestTypes, ThreadShape, Executing, InDispatch,
     NestShape, NestingDescribesTask
<1>9. ASSUME NEW t \in Tasks, Resume(t)
      PROVE  NestShape'
  BY <1>9 DEF Resume, EventAfterWait, Goto, Lowered, RestoredNesting, requestVars,
     scanVars, slotVars, TypeOK, ThreadTypes, NestTypes, ThreadShape, Executing,
     InDispatch, NestShape, NestingDescribesTask
<1>10. ASSUME NEW t \in Tasks, vPortSimulatedInterruptHandler(t)
      PROVE  NestShape'
  BY <1>10 DEF vPortSimulatedInterruptHandler, Goto, slotVars, switchVars, TypeOK,
     ThreadTypes, NestTypes, ThreadShape, Executing, InDispatch, NestShape,
     NestingDescribesTask
<1>11. ASSUME NEW t \in Tasks, ClaimPending(t)
      PROVE  NestShape'
  BY <1>11 DEF ClaimPending, Claimable, Goto, nestVars, requestVars, switchVars,
     TypeOK, ThreadTypes, NestTypes, ThreadShape, Executing, InDispatch, NestShape,
     NestingDescribesTask
<1>12. ASSUME NEW t \in Tasks, SkipSlot(t)
      PROVE  NestShape'
  BY <1>12 DEF SkipSlot, Claimable, nestVars, requestVars, slotVars, switchVars,
     TypeOK, ThreadTypes, NestTypes, ThreadShape, Executing, InDispatch, NestShape,
     NestingDescribesTask
<1>13. ASSUME NEW t \in Tasks, EndPass(t)
      PROVE  NestShape'
  BY <1>13 DEF EndPass, Goto, nestVars, requestVars, slotVars, switchVars, TypeOK,
     ThreadTypes, NestTypes, ThreadShape, Executing, InDispatch, NestShape,
     NestingDescribesTask
<1>14. ASSUME NEW t \in Tasks, LoadHandler(t)
      PROVE  NestShape'
  BY <1>14 DEF LoadHandler, Goto, nestVars, requestVars, slotVars, switchVars,
     TypeOK, ThreadTypes, NestTypes, ThreadShape, Executing, InDispatch, NestShape,
     NestingDescribesTask
<1>15. ASSUME NEW t \in Tasks, DrainAgain(t)
      PROVE  NestShape'
  BY <1>15 DEF DrainAgain, AfterDispatch, Goto, nestVars, scanVars, slotVars,
     switchVars, TypeOK, ThreadTypes, NestTypes, ThreadShape, Executing, InDispatch,
     NestShape, NestingDescribesTask
<1>16. ASSUME NEW t \in Tasks, ReturnFromInterrupt(t)
      PROVE  NestShape'
  BY <1>16 DEF ReturnFromInterrupt, Goto, requestVars, scanVars, slotVars,
     switchVars, TypeOK, ThreadTypes, NestTypes, ThreadShape, Executing, InDispatch,
     NestShape, NestingDescribesTask
<1>17. ASSUME NEW t \in Tasks, HandlerYields(t)
      PROVE  NestShape'
  BY <1>17 DEF HandlerYields, requestVars, scanVars, slotVars, switchVars, TypeOK,
     ThreadTypes, NestTypes, ThreadShape, Executing, InDispatch, NestShape,
     NestingDescribesTask
<1>18. ASSUME NEW t \in Tasks, HandlerReturns(t)
      PROVE  NestShape'
  BY <1>18 DEF HandlerReturns, Goto, nestVars, requestVars, slotVars, switchVars,
     TypeOK, ThreadTypes, NestTypes, ThreadShape, Executing, InDispatch, NestShape,
     NestingDescribesTask
<1>19. ASSUME NEW t \in Tasks, NEW next \in Tasks, YieldFromInterrupt(t, next)
      PROVE  NestShape'
  BY <1>19 DEF YieldFromInterrupt, BeginSwitch, Goto, requestVars, scanVars,
     slotVars, TypeOK, ThreadTypes, NestTypes, ThreadShape, Executing, InDispatch,
     NestShape, NestingDescribesTask
<1>20. ASSUME NEW p \in Producers, NEW h \in Handles, setInterruptPending(p, h)
      PROVE  NestShape'
  BY <1>20 DEF setInterruptPending, CanRequest, Matches, Request, nestVars,
     scanVars, switchVars, TypeOK, ThreadTypes, NestTypes, ThreadShape, Executing,
     InDispatch, NestShape, NestingDescribesTask
<1>21. ASSUME NEW p \in Producers, NEW h \in Handles, enableInterrupt(p, h)
      PROVE  NestShape'
  BY <1>21 DEF enableInterrupt, CanRequest, EnableRequests, Matches, Request,
     nestVars, scanVars, switchVars, TypeOK, ThreadTypes, NestTypes, ThreadShape,
     Executing, InDispatch, NestShape, NestingDescribesTask
<1>22. ASSUME NEW p \in Producers, NEW h \in Handles, disableInterrupt(p, h)
      PROVE  NestShape'
  BY <1>22 DEF disableInterrupt, CanRequest, Matches, nestVars, requestVars,
     scanVars, switchVars, TypeOK, ThreadTypes, NestTypes, ThreadShape, Executing,
     InDispatch, NestShape, NestingDescribesTask
<1>23. ASSUME NEW p \in Producers, StorePending(p)
      PROVE  NestShape'
  BY <1>23 DEF StorePending, Request, nestVars, scanVars, slotVars, switchVars,
     TypeOK, ThreadTypes, NestTypes, ThreadShape, Executing, InDispatch, NestShape,
     NestingDescribesTask
<1>24. ASSUME NEW p \in Producers, Drain(p)
      PROVE  NestShape'
  BY <1>24 DEF Drain, nestVars, scanVars, slotVars, switchVars, TypeOK, ThreadTypes,
     NestTypes, ThreadShape, Executing, InDispatch, NestShape, NestingDescribesTask
<1>25. ASSUME NEW p \in Producers, CheckPending(p)
      PROVE  NestShape'
  BY <1>25 DEF CheckPending, Request, nestVars, scanVars, slotVars, switchVars,
     TypeOK, ThreadTypes, NestTypes, ThreadShape, Executing, InDispatch, NestShape,
     NestingDescribesTask
<1>26. ASSUME NEW p \in Producers, LoadRunning(p)
      PROVE  NestShape'
  BY <1>26 DEF LoadRunning, Request, nestVars, scanVars, slotVars, switchVars,
     TypeOK, ThreadTypes, NestTypes, ThreadShape, Executing, InDispatch, NestShape,
     NestingDescribesTask
<1>27. ASSUME NEW p \in Producers, Kill(p)
      PROVE  NestShape'
  BY <1>27 DEF Kill, Request, nestVars, scanVars, slotVars, switchVars, TypeOK,
     ThreadTypes, NestTypes, ThreadShape, Executing, InDispatch, NestShape,
     NestingDescribesTask
<1>28. ASSUME RequestFromHandler
      PROVE  NestShape'
  BY <1>28 DEF RequestFromHandler, Request, nestVars, scanVars, slotVars,
     switchVars, TypeOK, ThreadTypes, NestTypes, ThreadShape, Executing, InDispatch,
     NestShape, NestingDescribesTask
<1>29. ASSUME UNCHANGED vars
      PROVE  NestShape'
  BY <1>29 DEF vars, nestVars, requestVars, scanVars, slotVars, switchVars, TypeOK,
     ThreadTypes, NestTypes, ThreadShape, Executing, InDispatch, NestShape,
     NestingDescribesTask
<1> QED
  BY <1>1, <1>2, <1>3, <1>4, <1>5, <1>6, <1>7, <1>8, <1>9, <1>10, <1>11, <1>12,
     <1>13, <1>14, <1>15, <1>16, <1>17, <1>18, <1>19, <1>20, <1>21, <1>22, <1>23,
     <1>24, <1>25, <1>26, <1>27, <1>28, <1>29 DEF Next, TaskCall, ControllerCall,
     RequestStep, SwitchStep, DispatchStep, Stopped

\* Every step keeps slots, handlers, retired handles and the claim consistent.
LEMMA SlotStep ==
    ASSUME TypeOK, ThreadShape, SlotShape, Next
    PROVE  SlotShape'
<1>1. ASSUME NEW t \in Tasks, NEW s \in Slots, NEW enabled \in BOOLEAN,
             registerInterrupt(t, s, enabled)
      PROVE  SlotShape'
  BY <1>1, LimitsAssumption DEF registerInterrupt, Free, HasUnusedGeneration,
     InTaskContext, nestVars, scanVars, switchVars, TypeOK, SlotTypes, ThreadTypes,
     SlotState, Handles, ThreadShape, Executing, InDispatch, SlotShape
<1>2. ASSUME NEW t \in Tasks, NEW h \in Handles, unregisterInterrupt(t, h)
      PROVE  SlotShape'
  BY <1>2, LimitsAssumption DEF unregisterInterrupt, AfterUnregister, FreeSlot,
     InTaskContext, Matches, nestVars, requestVars, scanVars, switchVars, TypeOK,
     SlotTypes, ThreadTypes, SlotState, Handles, ThreadShape, Executing, InDispatch,
     SlotShape
<1>3. ASSUME NEW t \in Tasks, vPortEnterCritical(t)
      PROVE  SlotShape'
  BY <1>3, LimitsAssumption DEF vPortEnterCritical, InTaskContext, requestVars,
     scanVars, slotVars, switchVars, TypeOK, SlotTypes, ThreadTypes, SlotState,
     Handles, ThreadShape, Executing, InDispatch, SlotShape
<1>4. ASSUME NEW t \in Tasks, vPortExitCritical(t)
      PROVE  SlotShape'
  BY <1>4, LimitsAssumption DEF vPortExitCritical, InTaskContext, Lowered,
     requestVars, scanVars, slotVars, switchVars, TypeOK, SlotTypes, ThreadTypes,
     SlotState, Handles, ThreadShape, Executing, InDispatch, SlotShape
<1>5. ASSUME NEW t \in Tasks, NEW next \in Tasks, vPortYield(t, next)
      PROVE  SlotShape'
  BY <1>5, LimitsAssumption DEF vPortYield, BeginSwitch, Goto, InTaskContext,
     requestVars, scanVars, slotVars, TypeOK, SlotTypes, ThreadTypes, SlotState,
     Handles, ThreadShape, Executing, InDispatch, SlotShape
<1>6. ASSUME NEW t \in Tasks, NEW next \in Tasks, vPortSystemTickHandler(t, next)
      PROVE  SlotShape'
  BY <1>6, LimitsAssumption DEF vPortSystemTickHandler, BeginSwitch, Goto,
     requestVars, scanVars, slotVars, TypeOK, SlotTypes, ThreadTypes, SlotState,
     Handles, ThreadShape, Executing, InDispatch, SlotShape
<1>7. ASSUME NEW t \in Tasks, vPortEndScheduler(t)
      PROVE  SlotShape'
  BY <1>7, LimitsAssumption DEF vPortEndScheduler, Goto, InTaskContext, nestVars,
     scanVars, slotVars, TypeOK, SlotTypes, ThreadTypes, SlotState, Handles,
     ThreadShape, Executing, InDispatch, SlotShape
<1>8. ASSUME NEW t \in Tasks, prvResumeThread(t)
      PROVE  SlotShape'
  BY <1>8, LimitsAssumption DEF prvResumeThread, Goto, KickAtHandoff, Request,
     nestVars, scanVars, slotVars, TypeOK, SlotTypes, ThreadTypes, SlotState,
     Handles, ThreadShape, Executing, InDispatch, SlotShape
<1>9. ASSUME NEW t \in Tasks, Resume(t)
      PROVE  SlotShape'
  BY <1>9, LimitsAssumption DEF Resume, EventAfterWait, Goto, Lowered,
     RestoredNesting, requestVars, scanVars, slotVars, TypeOK, SlotTypes,
     ThreadTypes, SlotState, Handles, ThreadShape, Executing, InDispatch, SlotShape
<1>10. ASSUME NEW t \in Tasks, vPortSimulatedInterruptHandler(t)
      PROVE  SlotShape'
  BY <1>10, LimitsAssumption DEF vPortSimulatedInterruptHandler, Goto, slotVars,
     switchVars, TypeOK, SlotTypes, ThreadTypes, SlotState, Handles, ThreadShape,
     Executing, InDispatch, SlotShape
<1>11. ASSUME NEW t \in Tasks, ClaimPending(t)
      PROVE  SlotShape'
  BY <1>11, LimitsAssumption DEF ClaimPending, Claimable, Goto, nestVars,
     requestVars, switchVars, TypeOK, SlotTypes, ThreadTypes, SlotState, Handles,
     ThreadShape, Executing, InDispatch, SlotShape
<1>12. ASSUME NEW t \in Tasks, SkipSlot(t)
      PROVE  SlotShape'
  BY <1>12, LimitsAssumption DEF SkipSlot, Claimable, nestVars, requestVars,
     slotVars, switchVars, TypeOK, SlotTypes, ThreadTypes, SlotState, Handles,
     ThreadShape, Executing, InDispatch, SlotShape
<1>13. ASSUME NEW t \in Tasks, EndPass(t)
      PROVE  SlotShape'
  BY <1>13, LimitsAssumption DEF EndPass, Goto, nestVars, requestVars, slotVars,
     switchVars, TypeOK, SlotTypes, ThreadTypes, SlotState, Handles, ThreadShape,
     Executing, InDispatch, SlotShape
<1>14. ASSUME NEW t \in Tasks, LoadHandler(t)
      PROVE  SlotShape'
  BY <1>14, LimitsAssumption DEF LoadHandler, Goto, nestVars, requestVars, slotVars,
     switchVars, TypeOK, SlotTypes, ThreadTypes, SlotState, Handles, ThreadShape,
     Executing, InDispatch, SlotShape
<1>15. ASSUME NEW t \in Tasks, DrainAgain(t)
      PROVE  SlotShape'
  BY <1>15, LimitsAssumption DEF DrainAgain, AfterDispatch, Goto, nestVars,
     scanVars, slotVars, switchVars, TypeOK, SlotTypes, ThreadTypes, SlotState,
     Handles, ThreadShape, Executing, InDispatch, SlotShape
<1>16. ASSUME NEW t \in Tasks, ReturnFromInterrupt(t)
      PROVE  SlotShape'
  BY <1>16, LimitsAssumption DEF ReturnFromInterrupt, Goto, requestVars, scanVars,
     slotVars, switchVars, TypeOK, SlotTypes, ThreadTypes, SlotState, Handles,
     ThreadShape, Executing, InDispatch, SlotShape
<1>17. ASSUME NEW t \in Tasks, HandlerYields(t)
      PROVE  SlotShape'
  BY <1>17, LimitsAssumption DEF HandlerYields, requestVars, scanVars, slotVars,
     switchVars, TypeOK, SlotTypes, ThreadTypes, SlotState, Handles, ThreadShape,
     Executing, InDispatch, SlotShape
<1>18. ASSUME NEW t \in Tasks, HandlerReturns(t)
      PROVE  SlotShape'
  BY <1>18, LimitsAssumption DEF HandlerReturns, Goto, nestVars, requestVars,
     slotVars, switchVars, TypeOK, SlotTypes, ThreadTypes, SlotState, Handles,
     ThreadShape, Executing, InDispatch, SlotShape
<1>19. ASSUME NEW t \in Tasks, NEW next \in Tasks, YieldFromInterrupt(t, next)
      PROVE  SlotShape'
  BY <1>19, LimitsAssumption DEF YieldFromInterrupt, BeginSwitch, Goto, requestVars,
     scanVars, slotVars, TypeOK, SlotTypes, ThreadTypes, SlotState, Handles,
     ThreadShape, Executing, InDispatch, SlotShape
<1>20. ASSUME NEW p \in Producers, NEW h \in Handles, setInterruptPending(p, h)
      PROVE  SlotShape'
  BY <1>20, LimitsAssumption DEF setInterruptPending, CanRequest, Matches, Request,
     nestVars, scanVars, switchVars, TypeOK, SlotTypes, ThreadTypes, SlotState,
     Handles, ThreadShape, Executing, InDispatch, SlotShape
<1>21. ASSUME NEW p \in Producers, NEW h \in Handles, enableInterrupt(p, h)
      PROVE  SlotShape'
  BY <1>21, LimitsAssumption DEF enableInterrupt, CanRequest, EnableRequests,
     Matches, Request, nestVars, scanVars, switchVars, TypeOK, SlotTypes,
     ThreadTypes, SlotState, Handles, ThreadShape, Executing, InDispatch, SlotShape
<1>22. ASSUME NEW p \in Producers, NEW h \in Handles, disableInterrupt(p, h)
      PROVE  SlotShape'
  BY <1>22, LimitsAssumption DEF disableInterrupt, CanRequest, Matches, nestVars,
     requestVars, scanVars, switchVars, TypeOK, SlotTypes, ThreadTypes, SlotState,
     Handles, ThreadShape, Executing, InDispatch, SlotShape
<1>23. ASSUME NEW p \in Producers, StorePending(p)
      PROVE  SlotShape'
  BY <1>23, LimitsAssumption DEF StorePending, Request, nestVars, scanVars,
     slotVars, switchVars, TypeOK, SlotTypes, ThreadTypes, SlotState, Handles,
     ThreadShape, Executing, InDispatch, SlotShape
<1>24. ASSUME NEW p \in Producers, Drain(p)
      PROVE  SlotShape'
  BY <1>24, LimitsAssumption DEF Drain, nestVars, scanVars, slotVars, switchVars,
     TypeOK, SlotTypes, ThreadTypes, SlotState, Handles, ThreadShape, Executing,
     InDispatch, SlotShape
<1>25. ASSUME NEW p \in Producers, CheckPending(p)
      PROVE  SlotShape'
  BY <1>25, LimitsAssumption DEF CheckPending, Request, nestVars, scanVars,
     slotVars, switchVars, TypeOK, SlotTypes, ThreadTypes, SlotState, Handles,
     ThreadShape, Executing, InDispatch, SlotShape
<1>26. ASSUME NEW p \in Producers, LoadRunning(p)
      PROVE  SlotShape'
  BY <1>26, LimitsAssumption DEF LoadRunning, Request, nestVars, scanVars, slotVars,
     switchVars, TypeOK, SlotTypes, ThreadTypes, SlotState, Handles, ThreadShape,
     Executing, InDispatch, SlotShape
<1>27. ASSUME NEW p \in Producers, Kill(p)
      PROVE  SlotShape'
  BY <1>27, LimitsAssumption DEF Kill, Request, nestVars, scanVars, slotVars,
     switchVars, TypeOK, SlotTypes, ThreadTypes, SlotState, Handles, ThreadShape,
     Executing, InDispatch, SlotShape
<1>28. ASSUME RequestFromHandler
      PROVE  SlotShape'
  BY <1>28, LimitsAssumption DEF RequestFromHandler, Request, nestVars, scanVars,
     slotVars, switchVars, TypeOK, SlotTypes, ThreadTypes, SlotState, Handles,
     ThreadShape, Executing, InDispatch, SlotShape
<1>29. ASSUME UNCHANGED vars
      PROVE  SlotShape'
  BY <1>29, LimitsAssumption DEF vars, nestVars, requestVars, scanVars, slotVars,
     switchVars, TypeOK, SlotTypes, ThreadTypes, SlotState, Handles, ThreadShape,
     Executing, InDispatch, SlotShape
<1> QED
  BY <1>1, <1>2, <1>3, <1>4, <1>5, <1>6, <1>7, <1>8, <1>9, <1>10, <1>11, <1>12,
     <1>13, <1>14, <1>15, <1>16, <1>17, <1>18, <1>19, <1>20, <1>21, <1>22, <1>23,
     <1>24, <1>25, <1>26, <1>27, <1>28, <1>29 DEF Next, TaskCall, ControllerCall,
     RequestStep, SwitchStep, DispatchStep, Stopped

\* Every step keeps requests in their shape.
LEMMA RequestShapeStep ==
    ASSUME TypeOK, ThreadShape, SlotShape, RequestShape, Next
    PROVE  RequestShape'
<1>1. ASSUME NEW t \in Tasks, NEW s \in Slots, NEW enabled \in BOOLEAN,
             registerInterrupt(t, s, enabled)
      PROVE  RequestShape'
  BY <1>1, ThreadsAssumption DEF registerInterrupt, Free, HasUnusedGeneration,
     InTaskContext, nestVars, scanVars, switchVars, TypeOK, SlotTypes, RequestTypes,
     ThreadTypes, SlotState, Handles, Producers, ThreadShape, Executing, InDispatch,
     SlotShape, RequestShape
<1>2. ASSUME NEW t \in Tasks, NEW h \in Handles, unregisterInterrupt(t, h)
      PROVE  RequestShape'
  BY <1>2, ThreadsAssumption DEF unregisterInterrupt, AfterUnregister, FreeSlot,
     InTaskContext, Matches, nestVars, requestVars, scanVars, switchVars, TypeOK,
     SlotTypes, RequestTypes, ThreadTypes, SlotState, Handles, Producers,
     ThreadShape, Executing, InDispatch, SlotShape, RequestShape
<1>3. ASSUME NEW t \in Tasks, vPortEnterCritical(t)
      PROVE  RequestShape'
  BY <1>3, ThreadsAssumption DEF vPortEnterCritical, InTaskContext, requestVars,
     scanVars, slotVars, switchVars, TypeOK, SlotTypes, RequestTypes, ThreadTypes,
     SlotState, Handles, Producers, ThreadShape, Executing, InDispatch, SlotShape,
     RequestShape
<1>4. ASSUME NEW t \in Tasks, vPortExitCritical(t)
      PROVE  RequestShape'
  BY <1>4, ThreadsAssumption DEF vPortExitCritical, InTaskContext, Lowered,
     requestVars, scanVars, slotVars, switchVars, TypeOK, SlotTypes, RequestTypes,
     ThreadTypes, SlotState, Handles, Producers, ThreadShape, Executing, InDispatch,
     SlotShape, RequestShape
<1>5. ASSUME NEW t \in Tasks, NEW next \in Tasks, vPortYield(t, next)
      PROVE  RequestShape'
  BY <1>5, ThreadsAssumption DEF vPortYield, BeginSwitch, Goto, InTaskContext,
     requestVars, scanVars, slotVars, TypeOK, SlotTypes, RequestTypes, ThreadTypes,
     SlotState, Handles, Producers, ThreadShape, Executing, InDispatch, SlotShape,
     RequestShape
<1>6. ASSUME NEW t \in Tasks, NEW next \in Tasks, vPortSystemTickHandler(t, next)
      PROVE  RequestShape'
  BY <1>6, ThreadsAssumption DEF vPortSystemTickHandler, BeginSwitch, Goto,
     requestVars, scanVars, slotVars, TypeOK, SlotTypes, RequestTypes, ThreadTypes,
     SlotState, Handles, Producers, ThreadShape, Executing, InDispatch, SlotShape,
     RequestShape
<1>7. ASSUME NEW t \in Tasks, vPortEndScheduler(t)
      PROVE  RequestShape'
  BY <1>7, ThreadsAssumption DEF vPortEndScheduler, Goto, InTaskContext, nestVars,
     scanVars, slotVars, TypeOK, SlotTypes, RequestTypes, ThreadTypes, SlotState,
     Handles, Producers, ThreadShape, Executing, InDispatch, SlotShape, RequestShape
<1>8. ASSUME NEW t \in Tasks, prvResumeThread(t)
      PROVE  RequestShape'
  BY <1>8, ThreadsAssumption DEF prvResumeThread, Goto, KickAtHandoff, Request,
     nestVars, scanVars, slotVars, TypeOK, SlotTypes, RequestTypes, ThreadTypes,
     SlotState, Handles, Producers, ThreadShape, Executing, InDispatch, SlotShape,
     RequestShape
<1>9. ASSUME NEW t \in Tasks, Resume(t)
      PROVE  RequestShape'
  BY <1>9, ThreadsAssumption DEF Resume, EventAfterWait, Goto, Lowered,
     RestoredNesting, requestVars, scanVars, slotVars, TypeOK, SlotTypes,
     RequestTypes, ThreadTypes, SlotState, Handles, Producers, ThreadShape,
     Executing, InDispatch, SlotShape, RequestShape
<1>10. ASSUME NEW t \in Tasks, vPortSimulatedInterruptHandler(t)
      PROVE  RequestShape'
  BY <1>10, ThreadsAssumption DEF vPortSimulatedInterruptHandler, Goto, slotVars,
     switchVars, TypeOK, SlotTypes, RequestTypes, ThreadTypes, SlotState, Handles,
     Producers, ThreadShape, Executing, InDispatch, SlotShape, RequestShape
<1>11. ASSUME NEW t \in Tasks, ClaimPending(t)
      PROVE  RequestShape'
  BY <1>11, ThreadsAssumption DEF ClaimPending, Claimable, Goto, nestVars,
     requestVars, switchVars, TypeOK, SlotTypes, RequestTypes, ThreadTypes,
     SlotState, Handles, Producers, ThreadShape, Executing, InDispatch, SlotShape,
     RequestShape
<1>12. ASSUME NEW t \in Tasks, SkipSlot(t)
      PROVE  RequestShape'
  BY <1>12, ThreadsAssumption DEF SkipSlot, Claimable, nestVars, requestVars,
     slotVars, switchVars, TypeOK, SlotTypes, RequestTypes, ThreadTypes, SlotState,
     Handles, Producers, ThreadShape, Executing, InDispatch, SlotShape, RequestShape
<1>13. ASSUME NEW t \in Tasks, EndPass(t)
      PROVE  RequestShape'
  BY <1>13, ThreadsAssumption DEF EndPass, Goto, nestVars, requestVars, slotVars,
     switchVars, TypeOK, SlotTypes, RequestTypes, ThreadTypes, SlotState, Handles,
     Producers, ThreadShape, Executing, InDispatch, SlotShape, RequestShape
<1>14. ASSUME NEW t \in Tasks, LoadHandler(t)
      PROVE  RequestShape'
  BY <1>14, ThreadsAssumption DEF LoadHandler, Goto, nestVars, requestVars,
     slotVars, switchVars, TypeOK, SlotTypes, RequestTypes, ThreadTypes, SlotState,
     Handles, Producers, ThreadShape, Executing, InDispatch, SlotShape, RequestShape
<1>15. ASSUME NEW t \in Tasks, DrainAgain(t)
      PROVE  RequestShape'
  BY <1>15, ThreadsAssumption DEF DrainAgain, AfterDispatch, Goto, nestVars,
     scanVars, slotVars, switchVars, TypeOK, SlotTypes, RequestTypes, ThreadTypes,
     SlotState, Handles, Producers, ThreadShape, Executing, InDispatch, SlotShape,
     RequestShape
<1>16. ASSUME NEW t \in Tasks, ReturnFromInterrupt(t)
      PROVE  RequestShape'
  BY <1>16, ThreadsAssumption DEF ReturnFromInterrupt, Goto, requestVars, scanVars,
     slotVars, switchVars, TypeOK, SlotTypes, RequestTypes, ThreadTypes, SlotState,
     Handles, Producers, ThreadShape, Executing, InDispatch, SlotShape, RequestShape
<1>17. ASSUME NEW t \in Tasks, HandlerYields(t)
      PROVE  RequestShape'
  BY <1>17, ThreadsAssumption DEF HandlerYields, requestVars, scanVars, slotVars,
     switchVars, TypeOK, SlotTypes, RequestTypes, ThreadTypes, SlotState, Handles,
     Producers, ThreadShape, Executing, InDispatch, SlotShape, RequestShape
<1>18. ASSUME NEW t \in Tasks, HandlerReturns(t)
      PROVE  RequestShape'
  BY <1>18, ThreadsAssumption DEF HandlerReturns, Goto, nestVars, requestVars,
     slotVars, switchVars, TypeOK, SlotTypes, RequestTypes, ThreadTypes, SlotState,
     Handles, Producers, ThreadShape, Executing, InDispatch, SlotShape, RequestShape
<1>19. ASSUME NEW t \in Tasks, NEW next \in Tasks, YieldFromInterrupt(t, next)
      PROVE  RequestShape'
  BY <1>19, ThreadsAssumption DEF YieldFromInterrupt, BeginSwitch, Goto,
     requestVars, scanVars, slotVars, TypeOK, SlotTypes, RequestTypes, ThreadTypes,
     SlotState, Handles, Producers, ThreadShape, Executing, InDispatch, SlotShape,
     RequestShape
<1>20. ASSUME NEW p \in Producers, NEW h \in Handles, setInterruptPending(p, h)
      PROVE  RequestShape'
  BY <1>20, ThreadsAssumption DEF setInterruptPending, CanRequest, Matches, Request,
     nestVars, scanVars, switchVars, TypeOK, SlotTypes, RequestTypes, ThreadTypes,
     SlotState, Handles, Producers, ThreadShape, Executing, InDispatch, SlotShape,
     RequestShape
<1>21. ASSUME NEW p \in Producers, NEW h \in Handles, enableInterrupt(p, h)
      PROVE  RequestShape'
  BY <1>21, ThreadsAssumption DEF enableInterrupt, CanRequest, EnableRequests,
     Matches, Request, nestVars, scanVars, switchVars, TypeOK, SlotTypes,
     RequestTypes, ThreadTypes, SlotState, Handles, Producers, ThreadShape,
     Executing, InDispatch, SlotShape, RequestShape
<1>22. ASSUME NEW p \in Producers, NEW h \in Handles, disableInterrupt(p, h)
      PROVE  RequestShape'
  BY <1>22, ThreadsAssumption DEF disableInterrupt, CanRequest, Matches, nestVars,
     requestVars, scanVars, switchVars, TypeOK, SlotTypes, RequestTypes,
     ThreadTypes, SlotState, Handles, Producers, ThreadShape, Executing, InDispatch,
     SlotShape, RequestShape
<1>23. ASSUME NEW p \in Producers, StorePending(p)
      PROVE  RequestShape'
  BY <1>23, ThreadsAssumption DEF StorePending, Request, nestVars, scanVars,
     slotVars, switchVars, TypeOK, SlotTypes, RequestTypes, ThreadTypes, SlotState,
     Handles, Producers, ThreadShape, Executing, InDispatch, SlotShape, RequestShape
<1>24. ASSUME NEW p \in Producers, Drain(p)
      PROVE  RequestShape'
  BY <1>24, ThreadsAssumption DEF Drain, nestVars, scanVars, slotVars, switchVars,
     TypeOK, SlotTypes, RequestTypes, ThreadTypes, SlotState, Handles, Producers,
     ThreadShape, Executing, InDispatch, SlotShape, RequestShape
<1>25. ASSUME NEW p \in Producers, CheckPending(p)
      PROVE  RequestShape'
  BY <1>25, ThreadsAssumption DEF CheckPending, Request, nestVars, scanVars,
     slotVars, switchVars, TypeOK, SlotTypes, RequestTypes, ThreadTypes, SlotState,
     Handles, Producers, ThreadShape, Executing, InDispatch, SlotShape, RequestShape
<1>26. ASSUME NEW p \in Producers, LoadRunning(p)
      PROVE  RequestShape'
  BY <1>26, ThreadsAssumption DEF LoadRunning, Request, nestVars, scanVars,
     slotVars, switchVars, TypeOK, SlotTypes, RequestTypes, ThreadTypes, SlotState,
     Handles, Producers, ThreadShape, Executing, InDispatch, SlotShape, RequestShape
<1>27. ASSUME NEW p \in Producers, Kill(p)
      PROVE  RequestShape'
  BY <1>27, ThreadsAssumption DEF Kill, Request, nestVars, scanVars, slotVars,
     switchVars, TypeOK, SlotTypes, RequestTypes, ThreadTypes, SlotState, Handles,
     Producers, ThreadShape, Executing, InDispatch, SlotShape, RequestShape
<1>28. ASSUME RequestFromHandler
      PROVE  RequestShape'
  BY <1>28, ThreadsAssumption DEF RequestFromHandler, Request, nestVars, scanVars,
     slotVars, switchVars, TypeOK, SlotTypes, RequestTypes, ThreadTypes, SlotState,
     Handles, Producers, ThreadShape, Executing, InDispatch, SlotShape, RequestShape
<1>29. ASSUME UNCHANGED vars
      PROVE  RequestShape'
  BY <1>29, ThreadsAssumption DEF vars, nestVars, requestVars, scanVars, slotVars,
     switchVars, TypeOK, SlotTypes, RequestTypes, ThreadTypes, SlotState, Handles,
     Producers, ThreadShape, Executing, InDispatch, SlotShape, RequestShape
<1> QED
  BY <1>1, <1>2, <1>3, <1>4, <1>5, <1>6, <1>7, <1>8, <1>9, <1>10, <1>11, <1>12,
     <1>13, <1>14, <1>15, <1>16, <1>17, <1>18, <1>19, <1>20, <1>21, <1>22, <1>23,
     <1>24, <1>25, <1>26, <1>27, <1>28, <1>29 DEF Next, TaskCall, ControllerCall,
     RequestStep, SwitchStep, DispatchStep, Stopped

\* Registrations change only in task context, where no handler is claimed: a
\* claimed one stays live, and what is pending or claimed stays asserted.
LEMMA DeliveryStep ==
    ASSUME TypeOK, ThreadShape, SlotShape, HandlerIsLive, NoStaleDelivery, Next
    PROVE  HandlerIsLive' /\ NoStaleDelivery'
<1>1. ASSUME NEW t \in Tasks, NEW s \in Slots, NEW enabled \in BOOLEAN,
             registerInterrupt(t, s, enabled)
      PROVE  HandlerIsLive' /\ NoStaleDelivery'
  BY <1>1, LimitsAssumption DEF registerInterrupt, Free, HasUnusedGeneration,
     InTaskContext, nestVars, scanVars, switchVars, TypeOK, SlotTypes, ThreadTypes,
     SlotState, Handles, ThreadShape, Executing, InDispatch, SlotShape,
     HandlerIsLive, NoStaleDelivery, Matches
<1>2. ASSUME NEW t \in Tasks, NEW h \in Handles, unregisterInterrupt(t, h)
      PROVE  HandlerIsLive' /\ NoStaleDelivery'
  BY <1>2, LimitsAssumption DEF unregisterInterrupt, AfterUnregister, FreeSlot,
     InTaskContext, Matches, nestVars, requestVars, scanVars, switchVars, TypeOK,
     SlotTypes, ThreadTypes, SlotState, Handles, ThreadShape, Executing, InDispatch,
     SlotShape, HandlerIsLive, NoStaleDelivery
<1>3. ASSUME NEW t \in Tasks, vPortEnterCritical(t)
      PROVE  HandlerIsLive' /\ NoStaleDelivery'
  BY <1>3, LimitsAssumption DEF vPortEnterCritical, InTaskContext, requestVars,
     scanVars, slotVars, switchVars, TypeOK, SlotTypes, ThreadTypes, SlotState,
     Handles, ThreadShape, Executing, InDispatch, SlotShape, HandlerIsLive,
     NoStaleDelivery, Matches
<1>4. ASSUME NEW t \in Tasks, vPortExitCritical(t)
      PROVE  HandlerIsLive' /\ NoStaleDelivery'
  BY <1>4, LimitsAssumption DEF vPortExitCritical, InTaskContext, Lowered,
     requestVars, scanVars, slotVars, switchVars, TypeOK, SlotTypes, ThreadTypes,
     SlotState, Handles, ThreadShape, Executing, InDispatch, SlotShape,
     HandlerIsLive, NoStaleDelivery, Matches
<1>5. ASSUME NEW t \in Tasks, NEW next \in Tasks, vPortYield(t, next)
      PROVE  HandlerIsLive' /\ NoStaleDelivery'
  BY <1>5, LimitsAssumption DEF vPortYield, BeginSwitch, Goto, InTaskContext,
     requestVars, scanVars, slotVars, TypeOK, SlotTypes, ThreadTypes, SlotState,
     Handles, ThreadShape, Executing, InDispatch, SlotShape, HandlerIsLive,
     NoStaleDelivery, Matches
<1>6. ASSUME NEW t \in Tasks, NEW next \in Tasks, vPortSystemTickHandler(t, next)
      PROVE  HandlerIsLive' /\ NoStaleDelivery'
  BY <1>6, LimitsAssumption DEF vPortSystemTickHandler, BeginSwitch, Goto,
     requestVars, scanVars, slotVars, TypeOK, SlotTypes, ThreadTypes, SlotState,
     Handles, ThreadShape, Executing, InDispatch, SlotShape, HandlerIsLive,
     NoStaleDelivery, Matches
<1>7. ASSUME NEW t \in Tasks, vPortEndScheduler(t)
      PROVE  HandlerIsLive' /\ NoStaleDelivery'
  BY <1>7, LimitsAssumption DEF vPortEndScheduler, Goto, InTaskContext, nestVars,
     scanVars, slotVars, TypeOK, SlotTypes, ThreadTypes, SlotState, Handles,
     ThreadShape, Executing, InDispatch, SlotShape, HandlerIsLive, NoStaleDelivery,
     Matches
<1>8. ASSUME NEW t \in Tasks, prvResumeThread(t)
      PROVE  HandlerIsLive' /\ NoStaleDelivery'
  BY <1>8, LimitsAssumption DEF prvResumeThread, Goto, KickAtHandoff, Request,
     nestVars, scanVars, slotVars, TypeOK, SlotTypes, ThreadTypes, SlotState,
     Handles, ThreadShape, Executing, InDispatch, SlotShape, HandlerIsLive,
     NoStaleDelivery, Matches
<1>9. ASSUME NEW t \in Tasks, Resume(t)
      PROVE  HandlerIsLive' /\ NoStaleDelivery'
  BY <1>9, LimitsAssumption DEF Resume, EventAfterWait, Goto, Lowered,
     RestoredNesting, requestVars, scanVars, slotVars, TypeOK, SlotTypes,
     ThreadTypes, SlotState, Handles, ThreadShape, Executing, InDispatch, SlotShape,
     HandlerIsLive, NoStaleDelivery, Matches
<1>10. ASSUME NEW t \in Tasks, vPortSimulatedInterruptHandler(t)
      PROVE  HandlerIsLive' /\ NoStaleDelivery'
  BY <1>10, LimitsAssumption DEF vPortSimulatedInterruptHandler, Goto, slotVars,
     switchVars, TypeOK, SlotTypes, ThreadTypes, SlotState, Handles, ThreadShape,
     Executing, InDispatch, SlotShape, HandlerIsLive, NoStaleDelivery, Matches
<1>11. ASSUME NEW t \in Tasks, ClaimPending(t)
      PROVE  HandlerIsLive' /\ NoStaleDelivery'
  BY <1>11, LimitsAssumption DEF ClaimPending, Claimable, Goto, nestVars,
     requestVars, switchVars, TypeOK, SlotTypes, ThreadTypes, SlotState, Handles,
     ThreadShape, Executing, InDispatch, SlotShape, HandlerIsLive, NoStaleDelivery,
     Matches
<1>12. ASSUME NEW t \in Tasks, SkipSlot(t)
      PROVE  HandlerIsLive' /\ NoStaleDelivery'
  BY <1>12, LimitsAssumption DEF SkipSlot, Claimable, nestVars, requestVars,
     slotVars, switchVars, TypeOK, SlotTypes, ThreadTypes, SlotState, Handles,
     ThreadShape, Executing, InDispatch, SlotShape, HandlerIsLive, NoStaleDelivery,
     Matches
<1>13. ASSUME NEW t \in Tasks, EndPass(t)
      PROVE  HandlerIsLive' /\ NoStaleDelivery'
  BY <1>13, LimitsAssumption DEF EndPass, Goto, nestVars, requestVars, slotVars,
     switchVars, TypeOK, SlotTypes, ThreadTypes, SlotState, Handles, ThreadShape,
     Executing, InDispatch, SlotShape, HandlerIsLive, NoStaleDelivery, Matches
<1>14. ASSUME NEW t \in Tasks, LoadHandler(t)
      PROVE  HandlerIsLive' /\ NoStaleDelivery'
  BY <1>14, LimitsAssumption DEF LoadHandler, Goto, nestVars, requestVars, slotVars,
     switchVars, TypeOK, SlotTypes, ThreadTypes, SlotState, Handles, ThreadShape,
     Executing, InDispatch, SlotShape, HandlerIsLive, NoStaleDelivery, Matches
<1>15. ASSUME NEW t \in Tasks, DrainAgain(t)
      PROVE  HandlerIsLive' /\ NoStaleDelivery'
  BY <1>15, LimitsAssumption DEF DrainAgain, AfterDispatch, Goto, nestVars,
     scanVars, slotVars, switchVars, TypeOK, SlotTypes, ThreadTypes, SlotState,
     Handles, ThreadShape, Executing, InDispatch, SlotShape, HandlerIsLive,
     NoStaleDelivery, Matches
<1>16. ASSUME NEW t \in Tasks, ReturnFromInterrupt(t)
      PROVE  HandlerIsLive' /\ NoStaleDelivery'
  BY <1>16, LimitsAssumption DEF ReturnFromInterrupt, Goto, requestVars, scanVars,
     slotVars, switchVars, TypeOK, SlotTypes, ThreadTypes, SlotState, Handles,
     ThreadShape, Executing, InDispatch, SlotShape, HandlerIsLive, NoStaleDelivery,
     Matches
<1>17. ASSUME NEW t \in Tasks, HandlerYields(t)
      PROVE  HandlerIsLive' /\ NoStaleDelivery'
  BY <1>17, LimitsAssumption DEF HandlerYields, requestVars, scanVars, slotVars,
     switchVars, TypeOK, SlotTypes, ThreadTypes, SlotState, Handles, ThreadShape,
     Executing, InDispatch, SlotShape, HandlerIsLive, NoStaleDelivery, Matches
<1>18. ASSUME NEW t \in Tasks, HandlerReturns(t)
      PROVE  HandlerIsLive' /\ NoStaleDelivery'
  BY <1>18, LimitsAssumption DEF HandlerReturns, Goto, nestVars, requestVars,
     slotVars, switchVars, TypeOK, SlotTypes, ThreadTypes, SlotState, Handles,
     ThreadShape, Executing, InDispatch, SlotShape, HandlerIsLive, NoStaleDelivery,
     Matches
<1>19. ASSUME NEW t \in Tasks, NEW next \in Tasks, YieldFromInterrupt(t, next)
      PROVE  HandlerIsLive' /\ NoStaleDelivery'
  BY <1>19, LimitsAssumption DEF YieldFromInterrupt, BeginSwitch, Goto, requestVars,
     scanVars, slotVars, TypeOK, SlotTypes, ThreadTypes, SlotState, Handles,
     ThreadShape, Executing, InDispatch, SlotShape, HandlerIsLive, NoStaleDelivery,
     Matches
<1>20. ASSUME NEW p \in Producers, NEW h \in Handles, setInterruptPending(p, h)
      PROVE  HandlerIsLive' /\ NoStaleDelivery'
  BY <1>20, LimitsAssumption DEF setInterruptPending, CanRequest, Matches, Request,
     nestVars, scanVars, switchVars, TypeOK, SlotTypes, ThreadTypes, SlotState,
     Handles, ThreadShape, Executing, InDispatch, SlotShape, HandlerIsLive,
     NoStaleDelivery
<1>21. ASSUME NEW p \in Producers, NEW h \in Handles, enableInterrupt(p, h)
      PROVE  HandlerIsLive' /\ NoStaleDelivery'
  BY <1>21, LimitsAssumption DEF enableInterrupt, CanRequest, EnableRequests,
     Matches, Request, nestVars, scanVars, switchVars, TypeOK, SlotTypes,
     ThreadTypes, SlotState, Handles, ThreadShape, Executing, InDispatch, SlotShape,
     HandlerIsLive, NoStaleDelivery
<1>22. ASSUME NEW p \in Producers, NEW h \in Handles, disableInterrupt(p, h)
      PROVE  HandlerIsLive' /\ NoStaleDelivery'
  BY <1>22, LimitsAssumption DEF disableInterrupt, CanRequest, Matches, nestVars,
     requestVars, scanVars, switchVars, TypeOK, SlotTypes, ThreadTypes, SlotState,
     Handles, ThreadShape, Executing, InDispatch, SlotShape, HandlerIsLive,
     NoStaleDelivery
<1>23. ASSUME NEW p \in Producers, StorePending(p)
      PROVE  HandlerIsLive' /\ NoStaleDelivery'
  BY <1>23, LimitsAssumption DEF StorePending, Request, nestVars, scanVars,
     slotVars, switchVars, TypeOK, SlotTypes, ThreadTypes, SlotState, Handles,
     ThreadShape, Executing, InDispatch, SlotShape, HandlerIsLive, NoStaleDelivery,
     Matches
<1>24. ASSUME NEW p \in Producers, Drain(p)
      PROVE  HandlerIsLive' /\ NoStaleDelivery'
  BY <1>24, LimitsAssumption DEF Drain, nestVars, scanVars, slotVars, switchVars,
     TypeOK, SlotTypes, ThreadTypes, SlotState, Handles, ThreadShape, Executing,
     InDispatch, SlotShape, HandlerIsLive, NoStaleDelivery, Matches
<1>25. ASSUME NEW p \in Producers, CheckPending(p)
      PROVE  HandlerIsLive' /\ NoStaleDelivery'
  BY <1>25, LimitsAssumption DEF CheckPending, Request, nestVars, scanVars,
     slotVars, switchVars, TypeOK, SlotTypes, ThreadTypes, SlotState, Handles,
     ThreadShape, Executing, InDispatch, SlotShape, HandlerIsLive, NoStaleDelivery,
     Matches
<1>26. ASSUME NEW p \in Producers, LoadRunning(p)
      PROVE  HandlerIsLive' /\ NoStaleDelivery'
  BY <1>26, LimitsAssumption DEF LoadRunning, Request, nestVars, scanVars, slotVars,
     switchVars, TypeOK, SlotTypes, ThreadTypes, SlotState, Handles, ThreadShape,
     Executing, InDispatch, SlotShape, HandlerIsLive, NoStaleDelivery, Matches
<1>27. ASSUME NEW p \in Producers, Kill(p)
      PROVE  HandlerIsLive' /\ NoStaleDelivery'
  BY <1>27, LimitsAssumption DEF Kill, Request, nestVars, scanVars, slotVars,
     switchVars, TypeOK, SlotTypes, ThreadTypes, SlotState, Handles, ThreadShape,
     Executing, InDispatch, SlotShape, HandlerIsLive, NoStaleDelivery, Matches
<1>28. ASSUME RequestFromHandler
      PROVE  HandlerIsLive' /\ NoStaleDelivery'
  BY <1>28, LimitsAssumption DEF RequestFromHandler, Request, nestVars, scanVars,
     slotVars, switchVars, TypeOK, SlotTypes, ThreadTypes, SlotState, Handles,
     ThreadShape, Executing, InDispatch, SlotShape, HandlerIsLive, NoStaleDelivery,
     Matches
<1>29. ASSUME UNCHANGED vars
      PROVE  HandlerIsLive' /\ NoStaleDelivery'
  BY <1>29, LimitsAssumption DEF vars, nestVars, requestVars, scanVars, slotVars,
     switchVars, TypeOK, SlotTypes, ThreadTypes, SlotState, Handles, ThreadShape,
     Executing, InDispatch, SlotShape, HandlerIsLive, NoStaleDelivery, Matches
<1> QED
  BY <1>1, <1>2, <1>3, <1>4, <1>5, <1>6, <1>7, <1>8, <1>9, <1>10, <1>11, <1>12,
     <1>13, <1>14, <1>15, <1>16, <1>17, <1>18, <1>19, <1>20, <1>21, <1>22, <1>23,
     <1>24, <1>25, <1>26, <1>27, <1>28, <1>29 DEF Next, TaskCall, ControllerCall,
     RequestStep, SwitchStep, DispatchStep, Stopped

-----------------------------------------------------------------------------
(* No lost work, although stores are delayed *)

Announced == irqPending \/ buffered # {} \/ \E p \in Producers : rpc[p] = "store"

\* What a pass has gone by without a dispatch, and everything once it is over,
\* is announced: it was asserted after the pass had looked at it.
ScanShape ==
    \A t \in Tasks :
        /\ pc[t] = "scan" /\ ~dispatched =>
               \A s \in Slots : s < cursor /\ Claimable(s) => Announced
        /\ pc[t] \in {"claimed", "handler"} => dispatched
        /\ pc[t] = "recheck" => /\ cursor = 1 /\ ~dispatched
                                /\ \A s \in Slots : Claimable(s) => Announced

\* A producer whose store is late still has its signal to send.
LateStores == \A p \in buffered : ended \/ OnItsWay(p) \/ rpc[p] = "kill"

PassShape == ScanShape /\ LateStores

\* Every step keeps the scan honest.
LEMMA PassStep ==
    ASSUME TypeOK, ThreadShape, RequestShape, PassShape, Next
    PROVE  PassShape'
<1>1. ASSUME NEW t \in Tasks, NEW s \in Slots, NEW enabled \in BOOLEAN,
             registerInterrupt(t, s, enabled)
      PROVE  PassShape'
  BY <1>1, LimitsAssumption, ThreadsAssumption DEF registerInterrupt, Free,
     HasUnusedGeneration, InTaskContext, nestVars, scanVars, switchVars, TypeOK,
     SlotTypes, RequestTypes, ThreadTypes, SlotState, Handles, Slots, Producers,
     ThreadShape, Executing, InDispatch, RequestShape, PassShape, ScanShape, LateStores, Announced,
     Claimable, OnItsWay
<1>2. ASSUME NEW t \in Tasks, NEW h \in Handles, unregisterInterrupt(t, h)
      PROVE  PassShape'
  BY <1>2, LimitsAssumption, ThreadsAssumption DEF unregisterInterrupt,
     AfterUnregister, FreeSlot, InTaskContext, Matches, nestVars, requestVars,
     scanVars, switchVars, TypeOK, SlotTypes, RequestTypes, ThreadTypes, SlotState,
     Handles, Slots, Producers, ThreadShape, Executing, InDispatch, RequestShape,
     PassShape, ScanShape, LateStores, Announced, Claimable, OnItsWay
<1>3. ASSUME NEW t \in Tasks, vPortEnterCritical(t)
      PROVE  PassShape'
  BY <1>3, LimitsAssumption, ThreadsAssumption DEF vPortEnterCritical,
     InTaskContext, requestVars, scanVars, slotVars, switchVars, TypeOK, SlotTypes,
     RequestTypes, ThreadTypes, SlotState, Handles, Slots, Producers, ThreadShape,
     Executing, InDispatch, RequestShape, PassShape, ScanShape, LateStores, Announced, Claimable, OnItsWay
<1>4. ASSUME NEW t \in Tasks, vPortExitCritical(t)
      PROVE  PassShape'
  BY <1>4, LimitsAssumption, ThreadsAssumption DEF vPortExitCritical, InTaskContext,
     Lowered, requestVars, scanVars, slotVars, switchVars, TypeOK, SlotTypes,
     RequestTypes, ThreadTypes, SlotState, Handles, Slots, Producers, ThreadShape,
     Executing, InDispatch, RequestShape, PassShape, ScanShape, LateStores, Announced, Claimable, OnItsWay
<1>5. ASSUME NEW t \in Tasks, NEW next \in Tasks, vPortYield(t, next)
      PROVE  PassShape'
  BY <1>5, LimitsAssumption, ThreadsAssumption DEF vPortYield, BeginSwitch, Goto,
     InTaskContext, requestVars, scanVars, slotVars, TypeOK, SlotTypes,
     RequestTypes, ThreadTypes, SlotState, Handles, Slots, Producers, ThreadShape,
     Executing, InDispatch, RequestShape, PassShape, ScanShape, LateStores, Announced, Claimable, OnItsWay
<1>6. ASSUME NEW t \in Tasks, NEW next \in Tasks, vPortSystemTickHandler(t, next)
      PROVE  PassShape'
  BY <1>6, LimitsAssumption, ThreadsAssumption DEF vPortSystemTickHandler,
     BeginSwitch, Goto, requestVars, scanVars, slotVars, TypeOK, SlotTypes,
     RequestTypes, ThreadTypes, SlotState, Handles, Slots, Producers, ThreadShape,
     Executing, InDispatch, RequestShape, PassShape, ScanShape, LateStores, Announced, Claimable, OnItsWay
<1>7. ASSUME NEW t \in Tasks, vPortEndScheduler(t)
      PROVE  PassShape'
  BY <1>7, LimitsAssumption, ThreadsAssumption DEF vPortEndScheduler, Goto,
     InTaskContext, nestVars, scanVars, slotVars, TypeOK, SlotTypes, RequestTypes,
     ThreadTypes, SlotState, Handles, Slots, Producers, ThreadShape, Executing,
     InDispatch, RequestShape, PassShape, ScanShape, LateStores, Announced, Claimable, OnItsWay
<1>8. ASSUME NEW t \in Tasks, prvResumeThread(t)
      PROVE  PassShape'
  BY <1>8, LimitsAssumption, ThreadsAssumption DEF prvResumeThread, Goto,
     KickAtHandoff, Request, nestVars, scanVars, slotVars, TypeOK, SlotTypes,
     RequestTypes, ThreadTypes, SlotState, Handles, Slots, Producers, ThreadShape,
     Executing, InDispatch, RequestShape, PassShape, ScanShape, LateStores, Announced, Claimable, OnItsWay
<1>9. ASSUME NEW t \in Tasks, Resume(t)
      PROVE  PassShape'
  BY <1>9, LimitsAssumption, ThreadsAssumption DEF Resume, EventAfterWait, Goto,
     Lowered, RestoredNesting, requestVars, scanVars, slotVars, TypeOK, SlotTypes,
     RequestTypes, ThreadTypes, SlotState, Handles, Slots, Producers, ThreadShape,
     Executing, InDispatch, RequestShape, PassShape, ScanShape, LateStores, Announced, Claimable, OnItsWay
<1>10. ASSUME NEW t \in Tasks, vPortSimulatedInterruptHandler(t)
      PROVE  PassShape'
  BY <1>10, LimitsAssumption, ThreadsAssumption DEF vPortSimulatedInterruptHandler,
     Goto, slotVars, switchVars, TypeOK, SlotTypes, RequestTypes, ThreadTypes,
     SlotState, Handles, Slots, Producers, ThreadShape, Executing, InDispatch,
     RequestShape, PassShape, ScanShape, LateStores, Announced, Claimable, OnItsWay
<1>11. ASSUME NEW t \in Tasks, ClaimPending(t)
      PROVE  PassShape'
  BY <1>11, LimitsAssumption, ThreadsAssumption DEF ClaimPending, Claimable, Goto,
     nestVars, requestVars, switchVars, TypeOK, SlotTypes, RequestTypes,
     ThreadTypes, SlotState, Handles, Slots, Producers, ThreadShape, Executing,
     InDispatch, RequestShape, PassShape, ScanShape, LateStores, Announced, OnItsWay
<1>12. ASSUME NEW t \in Tasks, SkipSlot(t)
      PROVE  PassShape'
  <2>1. ScanShape'
    <3>1. /\ pc[t] = "scan" /\ cursor \in Slots /\ ~Claimable(cursor)
          /\ cursor' = cursor + 1 /\ dispatched' = dispatched /\ slot' = slot
          /\ irqPending' = irqPending /\ rpc' = rpc /\ buffered' = buffered /\ pc' = pc
      BY <1>12 DEF SkipSlot, slotVars, requestVars
    <3>2. (Announced' <=> Announced) /\ \A s \in Slots : Claimable(s)' <=> Claimable(s)
      BY <3>1 DEF Announced, Claimable
    <3>3. \A u \in Tasks : pc[u] \in {"scan", "recheck", "claimed", "handler"} => u = t
      BY <3>1 DEF ThreadShape, Executing, InDispatch
    <3>4. \A s \in Slots : s < cursor' => s < cursor \/ s = cursor
      BY <3>1 DEF Slots
    <3> QED BY <3>1, <3>2, <3>3, <3>4 DEF PassShape, ScanShape
  <2>2. LateStores'
    BY <1>12, LimitsAssumption, ThreadsAssumption DEF SkipSlot, Claimable, nestVars,
       requestVars, slotVars, switchVars, TypeOK, SlotTypes, RequestTypes,
       ThreadTypes, SlotState, Handles, Slots, Producers, ThreadShape, Executing,
       InDispatch, RequestShape, PassShape, ScanShape, LateStores, Announced, OnItsWay
  <2> QED BY <2>1, <2>2 DEF PassShape
<1>13. ASSUME NEW t \in Tasks, EndPass(t)
      PROVE  PassShape'
  <2>1. /\ pc[t] = "scan" /\ cursor \notin Slots
        /\ cursor' = 1 /\ dispatched' = FALSE /\ slot' = slot /\ irqPending' = irqPending
        /\ rpc' = rpc /\ buffered' = buffered /\ ended' = ended
    BY <1>13 DEF EndPass, slotVars, requestVars
  <2>2. \A u \in Tasks : u # t => pc'[u] = pc[u] /\ pc[u] \in {"suspend"}
    BY <1>13, <2>1 DEF EndPass, Goto, ThreadShape, Executing, InDispatch, TypeOK, ThreadTypes,
       Labels
  <2>3. \A s \in Slots : s < cursor
    BY <2>1, LimitsAssumption DEF TypeOK, SlotTypes, Slots
  <2>4. ASSUME dispatched
        PROVE  ScanShape'
    <3>1. pc'[t] = "scan"
      BY <1>13, <2>4 DEF EndPass, Goto, TypeOK, ThreadTypes
    <3>2. \A s \in Slots : ~(s < cursor')
      BY <2>1 DEF Slots
    <3> QED BY <2>1, <2>2, <3>1, <3>2 DEF ScanShape
  <2>5. ASSUME ~dispatched
        PROVE  ScanShape'
    <3>1. pc'[t] = "recheck"
      BY <1>13, <2>5 DEF EndPass, Goto, TypeOK, ThreadTypes
    <3>2. \A s \in Slots : Claimable(s) => Announced
      BY <2>1, <2>3, <2>5 DEF PassShape, ScanShape
    <3>3. \A s \in Slots : Claimable(s)' => Announced'
      BY <2>1, <3>2 DEF Claimable, Announced
    <3> QED BY <2>1, <2>2, <3>1, <3>3 DEF ScanShape
  <2>6. LateStores'
    BY <2>1 DEF PassShape, LateStores, OnItsWay
  <2> QED BY <2>4, <2>5, <2>6 DEF PassShape
<1>14. ASSUME NEW t \in Tasks, LoadHandler(t)
      PROVE  PassShape'
  BY <1>14, LimitsAssumption, ThreadsAssumption DEF LoadHandler, Goto, nestVars,
     requestVars, slotVars, switchVars, TypeOK, SlotTypes, RequestTypes,
     ThreadTypes, SlotState, Handles, Slots, Producers, ThreadShape, Executing,
     InDispatch, RequestShape, PassShape, ScanShape, LateStores, Announced, Claimable, OnItsWay
<1>15. ASSUME NEW t \in Tasks, DrainAgain(t)
      PROVE  PassShape'
  BY <1>15, LimitsAssumption, ThreadsAssumption DEF DrainAgain, AfterDispatch, Goto,
     nestVars, scanVars, slotVars, switchVars, TypeOK, SlotTypes, RequestTypes,
     ThreadTypes, SlotState, Handles, Slots, Producers, ThreadShape, Executing,
     InDispatch, RequestShape, PassShape, ScanShape, LateStores, Announced, Claimable, OnItsWay
<1>16. ASSUME NEW t \in Tasks, ReturnFromInterrupt(t)
      PROVE  PassShape'
  BY <1>16, LimitsAssumption, ThreadsAssumption DEF ReturnFromInterrupt, Goto,
     requestVars, scanVars, slotVars, switchVars, TypeOK, SlotTypes, RequestTypes,
     ThreadTypes, SlotState, Handles, Slots, Producers, ThreadShape, Executing,
     InDispatch, RequestShape, PassShape, ScanShape, LateStores, Announced, Claimable, OnItsWay
<1>17. ASSUME NEW t \in Tasks, HandlerYields(t)
      PROVE  PassShape'
  BY <1>17, LimitsAssumption, ThreadsAssumption DEF HandlerYields, requestVars,
     scanVars, slotVars, switchVars, TypeOK, SlotTypes, RequestTypes, ThreadTypes,
     SlotState, Handles, Slots, Producers, ThreadShape, Executing, InDispatch,
     RequestShape, PassShape, ScanShape, LateStores, Announced, Claimable, OnItsWay
<1>18. ASSUME NEW t \in Tasks, HandlerReturns(t)
      PROVE  PassShape'
  BY <1>18, LimitsAssumption, ThreadsAssumption DEF HandlerReturns, Goto, nestVars,
     requestVars, slotVars, switchVars, TypeOK, SlotTypes, RequestTypes,
     ThreadTypes, SlotState, Handles, Slots, Producers, ThreadShape, Executing,
     InDispatch, RequestShape, PassShape, ScanShape, LateStores, Announced, Claimable, OnItsWay
<1>19. ASSUME NEW t \in Tasks, NEW next \in Tasks, YieldFromInterrupt(t, next)
      PROVE  PassShape'
  BY <1>19, LimitsAssumption, ThreadsAssumption DEF YieldFromInterrupt, BeginSwitch,
     Goto, requestVars, scanVars, slotVars, TypeOK, SlotTypes, RequestTypes,
     ThreadTypes, SlotState, Handles, Slots, Producers, ThreadShape, Executing,
     InDispatch, RequestShape, PassShape, ScanShape, LateStores, Announced, Claimable, OnItsWay
<1>20. ASSUME NEW p \in Producers, NEW h \in Handles, setInterruptPending(p, h)
      PROVE  PassShape'
  <2>1. ScanShape'
    <3>1. /\ cursor' = cursor /\ dispatched' = dispatched /\ irqPending' = irqPending
          /\ buffered' = buffered /\ pc' = pc
      BY <1>20 DEF setInterruptPending, scanVars, requestVars
    <3>2. Announced => Announced'
      BY <1>20, <3>1 DEF setInterruptPending, CanRequest, Request, Announced, requestVars,
         TypeOK, RequestTypes
    <3>3. \A s \in Slots : Claimable(s)' => Claimable(s) \/ Announced'
      BY <1>20 DEF setInterruptPending, Request, Claimable, Announced, Handles,
         TypeOK, SlotTypes, SlotState, RequestTypes
    <3> QED BY <3>1, <3>2, <3>3 DEF PassShape, ScanShape
  <2>2. LateStores'
    BY <1>20, LimitsAssumption, ThreadsAssumption DEF setInterruptPending, CanRequest,
       Matches, Request, nestVars, scanVars, switchVars, TypeOK, SlotTypes,
       RequestTypes, ThreadTypes, SlotState, Handles, Slots, Producers, ThreadShape,
       Executing, InDispatch, RequestShape, PassShape, ScanShape, LateStores, Announced, Claimable, OnItsWay
  <2> QED BY <2>1, <2>2 DEF PassShape
<1>21. ASSUME NEW p \in Producers, NEW h \in Handles, enableInterrupt(p, h)
      PROVE  PassShape'
  <2>1. ScanShape'
    <3>1. /\ cursor' = cursor /\ dispatched' = dispatched /\ irqPending' = irqPending
          /\ buffered' = buffered /\ pc' = pc
      BY <1>21 DEF enableInterrupt, scanVars, requestVars
    <3>2. Announced => Announced'
      BY <1>21, <3>1 DEF enableInterrupt, CanRequest, Request, Announced, requestVars,
         TypeOK, RequestTypes
    <3>3. \A s \in Slots : Claimable(s)' => Claimable(s) \/ Announced'
      BY <1>21 DEF enableInterrupt, Request, Claimable, Announced, Handles, EnableRequests,
         TypeOK, SlotTypes, SlotState, RequestTypes
    <3> QED BY <3>1, <3>2, <3>3 DEF PassShape, ScanShape
  <2>2. LateStores'
    BY <1>21, LimitsAssumption, ThreadsAssumption DEF enableInterrupt, CanRequest,
       EnableRequests, Matches, Request, nestVars, scanVars, switchVars, TypeOK,
       SlotTypes, RequestTypes, ThreadTypes, SlotState, Handles, Slots, Producers,
       ThreadShape, Executing, InDispatch, RequestShape, PassShape, ScanShape, LateStores, Announced,
       Claimable, OnItsWay
  <2> QED BY <2>1, <2>2 DEF PassShape
<1>22. ASSUME NEW p \in Producers, NEW h \in Handles, disableInterrupt(p, h)
      PROVE  PassShape'
  <2>1. ScanShape'
    <3>1. /\ cursor' = cursor /\ dispatched' = dispatched /\ irqPending' = irqPending
          /\ buffered' = buffered /\ pc' = pc
      BY <1>22 DEF disableInterrupt, scanVars, requestVars
    <3>2. Announced => Announced'
      BY <1>22, <3>1 DEF disableInterrupt, CanRequest, Request, Announced, requestVars,
         TypeOK, RequestTypes
    <3>3. \A s \in Slots : Claimable(s)' => Claimable(s)
      BY <1>22 DEF disableInterrupt, Request, Claimable, Announced, Handles,
         TypeOK, SlotTypes, SlotState, RequestTypes
    <3> QED BY <3>1, <3>2, <3>3 DEF PassShape, ScanShape
  <2>2. LateStores'
    BY <1>22, LimitsAssumption, ThreadsAssumption DEF disableInterrupt, CanRequest,
       Matches, nestVars, requestVars, scanVars, switchVars, TypeOK, SlotTypes,
       RequestTypes, ThreadTypes, SlotState, Handles, Slots, Producers, ThreadShape,
       Executing, InDispatch, RequestShape, PassShape, ScanShape, LateStores, Announced, Claimable, OnItsWay
  <2> QED BY <2>1, <2>2 DEF PassShape
<1>23. ASSUME NEW p \in Producers, StorePending(p)
      PROVE  PassShape'
  BY <1>23, LimitsAssumption, ThreadsAssumption DEF StorePending, Request, nestVars,
     scanVars, slotVars, switchVars, TypeOK, SlotTypes, RequestTypes, ThreadTypes,
     SlotState, Handles, Slots, Producers, ThreadShape, Executing, InDispatch,
     RequestShape, PassShape, ScanShape, LateStores, Announced, Claimable, OnItsWay
<1>24. ASSUME NEW p \in Producers, Drain(p)
      PROVE  PassShape'
  BY <1>24, LimitsAssumption, ThreadsAssumption DEF Drain, nestVars, scanVars,
     slotVars, switchVars, TypeOK, SlotTypes, RequestTypes, ThreadTypes, SlotState,
     Handles, Slots, Producers, ThreadShape, Executing, InDispatch, RequestShape,
     PassShape, ScanShape, LateStores, Announced, Claimable, OnItsWay
<1>25. ASSUME NEW p \in Producers, CheckPending(p)
      PROVE  PassShape'
  BY <1>25, LimitsAssumption, ThreadsAssumption DEF CheckPending, Request, nestVars,
     scanVars, slotVars, switchVars, TypeOK, SlotTypes, RequestTypes, ThreadTypes,
     SlotState, Handles, Slots, Producers, ThreadShape, Executing, InDispatch,
     RequestShape, PassShape, ScanShape, LateStores, Announced, Claimable, OnItsWay
<1>26. ASSUME NEW p \in Producers, LoadRunning(p)
      PROVE  PassShape'
  BY <1>26, LimitsAssumption, ThreadsAssumption DEF LoadRunning, Request, nestVars,
     scanVars, slotVars, switchVars, TypeOK, SlotTypes, RequestTypes, ThreadTypes,
     SlotState, Handles, Slots, Producers, ThreadShape, Executing, InDispatch,
     RequestShape, PassShape, ScanShape, LateStores, Announced, Claimable, OnItsWay
<1>27. ASSUME NEW p \in Producers, Kill(p)
      PROVE  PassShape'
  BY <1>27, LimitsAssumption, ThreadsAssumption DEF Kill, Request, nestVars,
     scanVars, slotVars, switchVars, TypeOK, SlotTypes, RequestTypes, ThreadTypes,
     SlotState, Handles, Slots, Producers, ThreadShape, Executing, InDispatch,
     RequestShape, PassShape, ScanShape, LateStores, Announced, Claimable, OnItsWay
<1>28. ASSUME RequestFromHandler
      PROVE  PassShape'
  BY <1>28, LimitsAssumption, ThreadsAssumption DEF RequestFromHandler, Request,
     nestVars, scanVars, slotVars, switchVars, TypeOK, SlotTypes, RequestTypes,
     ThreadTypes, SlotState, Handles, Slots, Producers, ThreadShape, Executing,
     InDispatch, RequestShape, PassShape, ScanShape, LateStores, Announced, Claimable, OnItsWay
<1>29. ASSUME UNCHANGED vars
      PROVE  PassShape'
  BY <1>29, LimitsAssumption, ThreadsAssumption DEF vars, nestVars, requestVars,
     scanVars, slotVars, switchVars, TypeOK, SlotTypes, RequestTypes, ThreadTypes,
     SlotState, Handles, Slots, Producers, ThreadShape, Executing, InDispatch,
     RequestShape, PassShape, ScanShape, LateStores, Announced, Claimable, OnItsWay
<1> QED
  BY <1>1, <1>2, <1>3, <1>4, <1>5, <1>6, <1>7, <1>8, <1>9, <1>10, <1>11, <1>12,
     <1>13, <1>14, <1>15, <1>16, <1>17, <1>18, <1>19, <1>20, <1>21, <1>22, <1>23,
     <1>24, <1>25, <1>26, <1>27, <1>28, <1>29 DEF Next, TaskCall, ControllerCall,
     RequestStep, SwitchStep, DispatchStep, Stopped

\* Every step leaves the work announced and the announcement on its way.
LEMMA StrandStep ==
    ASSUME TypeOK, ThreadShape, RequestShape, PassShape, NothingLost, Next
    PROVE  NothingLost'
<1>1. ASSUME NEW t \in Tasks, NEW s \in Slots, NEW enabled \in BOOLEAN,
             registerInterrupt(t, s, enabled)
      PROVE  NothingLost'
  BY <1>1, LimitsAssumption, ThreadsAssumption DEF registerInterrupt, Free,
     HasUnusedGeneration, InTaskContext, nestVars, scanVars, switchVars, TypeOK,
     SlotTypes, RequestTypes, ThreadTypes, SlotState, Handles, Slots, Producers,
     ThreadShape, Executing, InDispatch, RequestShape, PassShape, ScanShape, LateStores, Announced,
     Claimable, NothingLost, Dispatching, OnItsWay
<1>2. ASSUME NEW t \in Tasks, NEW h \in Handles, unregisterInterrupt(t, h)
      PROVE  NothingLost'
  BY <1>2, LimitsAssumption, ThreadsAssumption DEF unregisterInterrupt,
     AfterUnregister, FreeSlot, InTaskContext, Matches, nestVars, requestVars,
     scanVars, switchVars, TypeOK, SlotTypes, RequestTypes, ThreadTypes, SlotState,
     Handles, Slots, Producers, ThreadShape, Executing, InDispatch, RequestShape,
     PassShape, ScanShape, LateStores, Announced, Claimable, NothingLost, Dispatching, OnItsWay
<1>3. ASSUME NEW t \in Tasks, vPortEnterCritical(t)
      PROVE  NothingLost'
  BY <1>3, LimitsAssumption, ThreadsAssumption DEF vPortEnterCritical,
     InTaskContext, requestVars, scanVars, slotVars, switchVars, TypeOK, SlotTypes,
     RequestTypes, ThreadTypes, SlotState, Handles, Slots, Producers, ThreadShape,
     Executing, InDispatch, RequestShape, PassShape, ScanShape, LateStores, Announced, Claimable,
     NothingLost, Dispatching, OnItsWay
<1>4. ASSUME NEW t \in Tasks, vPortExitCritical(t)
      PROVE  NothingLost'
  BY <1>4, LimitsAssumption, ThreadsAssumption DEF vPortExitCritical, InTaskContext,
     Lowered, requestVars, scanVars, slotVars, switchVars, TypeOK, SlotTypes,
     RequestTypes, ThreadTypes, SlotState, Handles, Slots, Producers, ThreadShape,
     Executing, InDispatch, RequestShape, PassShape, ScanShape, LateStores, Announced, Claimable,
     NothingLost, Dispatching, OnItsWay
<1>5. ASSUME NEW t \in Tasks, NEW next \in Tasks, vPortYield(t, next)
      PROVE  NothingLost'
  BY <1>5, LimitsAssumption, ThreadsAssumption DEF vPortYield, BeginSwitch, Goto,
     InTaskContext, requestVars, scanVars, slotVars, TypeOK, SlotTypes,
     RequestTypes, ThreadTypes, SlotState, Handles, Slots, Producers, ThreadShape,
     Executing, InDispatch, RequestShape, PassShape, ScanShape, LateStores, Announced, Claimable,
     NothingLost, Dispatching, OnItsWay
<1>6. ASSUME NEW t \in Tasks, NEW next \in Tasks, vPortSystemTickHandler(t, next)
      PROVE  NothingLost'
  BY <1>6, LimitsAssumption, ThreadsAssumption DEF vPortSystemTickHandler,
     BeginSwitch, Goto, requestVars, scanVars, slotVars, TypeOK, SlotTypes,
     RequestTypes, ThreadTypes, SlotState, Handles, Slots, Producers, ThreadShape,
     Executing, InDispatch, RequestShape, PassShape, ScanShape, LateStores, Announced, Claimable,
     NothingLost, Dispatching, OnItsWay
<1>7. ASSUME NEW t \in Tasks, vPortEndScheduler(t)
      PROVE  NothingLost'
  BY <1>7, LimitsAssumption, ThreadsAssumption DEF vPortEndScheduler, Goto,
     InTaskContext, nestVars, scanVars, slotVars, TypeOK, SlotTypes, RequestTypes,
     ThreadTypes, SlotState, Handles, Slots, Producers, ThreadShape, Executing,
     InDispatch, RequestShape, PassShape, ScanShape, LateStores, Announced, Claimable, NothingLost,
     Dispatching, OnItsWay
<1>8. ASSUME NEW t \in Tasks, prvResumeThread(t)
      PROVE  NothingLost'
  BY <1>8, LimitsAssumption, ThreadsAssumption DEF prvResumeThread, Goto,
     KickAtHandoff, Request, nestVars, scanVars, slotVars, TypeOK, SlotTypes,
     RequestTypes, ThreadTypes, SlotState, Handles, Slots, Producers, ThreadShape,
     Executing, InDispatch, RequestShape, PassShape, ScanShape, LateStores, Announced, Claimable,
     NothingLost, Dispatching, OnItsWay
<1>9. ASSUME NEW t \in Tasks, Resume(t)
      PROVE  NothingLost'
  BY <1>9, LimitsAssumption, ThreadsAssumption DEF Resume, EventAfterWait, Goto,
     Lowered, RestoredNesting, requestVars, scanVars, slotVars, TypeOK, SlotTypes,
     RequestTypes, ThreadTypes, SlotState, Handles, Slots, Producers, ThreadShape,
     Executing, InDispatch, RequestShape, PassShape, ScanShape, LateStores, Announced, Claimable,
     NothingLost, Dispatching, OnItsWay
<1>10. ASSUME NEW t \in Tasks, vPortSimulatedInterruptHandler(t)
      PROVE  NothingLost'
  BY <1>10, LimitsAssumption, ThreadsAssumption DEF vPortSimulatedInterruptHandler,
     Goto, slotVars, switchVars, TypeOK, SlotTypes, RequestTypes, ThreadTypes,
     SlotState, Handles, Slots, Producers, ThreadShape, Executing, InDispatch,
     RequestShape, PassShape, ScanShape, LateStores, Announced, Claimable, NothingLost, Dispatching,
     OnItsWay
<1>11. ASSUME NEW t \in Tasks, ClaimPending(t)
      PROVE  NothingLost'
  BY <1>11, LimitsAssumption, ThreadsAssumption DEF ClaimPending, Claimable, Goto,
     nestVars, requestVars, switchVars, TypeOK, SlotTypes, RequestTypes,
     ThreadTypes, SlotState, Handles, Slots, Producers, ThreadShape, Executing,
     InDispatch, RequestShape, PassShape, ScanShape, LateStores, Announced, NothingLost, Dispatching,
     OnItsWay
<1>12. ASSUME NEW t \in Tasks, SkipSlot(t)
      PROVE  NothingLost'
  BY <1>12, LimitsAssumption, ThreadsAssumption DEF SkipSlot, Claimable, nestVars,
     requestVars, slotVars, switchVars, TypeOK, SlotTypes, RequestTypes,
     ThreadTypes, SlotState, Handles, Slots, Producers, ThreadShape, Executing,
     InDispatch, RequestShape, PassShape, ScanShape, LateStores, Announced, NothingLost, Dispatching,
     OnItsWay
<1>13. ASSUME NEW t \in Tasks, EndPass(t)
      PROVE  NothingLost'
  BY <1>13, LimitsAssumption, ThreadsAssumption DEF EndPass, Goto, nestVars,
     requestVars, slotVars, switchVars, TypeOK, SlotTypes, RequestTypes,
     ThreadTypes, SlotState, Handles, Slots, Producers, ThreadShape, Executing,
     InDispatch, RequestShape, PassShape, ScanShape, LateStores, Announced, Claimable, NothingLost,
     Dispatching, OnItsWay
<1>14. ASSUME NEW t \in Tasks, LoadHandler(t)
      PROVE  NothingLost'
  BY <1>14, LimitsAssumption, ThreadsAssumption DEF LoadHandler, Goto, nestVars,
     requestVars, slotVars, switchVars, TypeOK, SlotTypes, RequestTypes,
     ThreadTypes, SlotState, Handles, Slots, Producers, ThreadShape, Executing,
     InDispatch, RequestShape, PassShape, ScanShape, LateStores, Announced, Claimable, NothingLost,
     Dispatching, OnItsWay
<1>15. ASSUME NEW t \in Tasks, DrainAgain(t)
      PROVE  NothingLost'
  BY <1>15, LimitsAssumption, ThreadsAssumption DEF DrainAgain, AfterDispatch, Goto,
     nestVars, scanVars, slotVars, switchVars, TypeOK, SlotTypes, RequestTypes,
     ThreadTypes, SlotState, Handles, Slots, Producers, ThreadShape, Executing,
     InDispatch, RequestShape, PassShape, ScanShape, LateStores, Announced, Claimable, NothingLost,
     Dispatching, OnItsWay
<1>16. ASSUME NEW t \in Tasks, ReturnFromInterrupt(t)
      PROVE  NothingLost'
  BY <1>16, LimitsAssumption, ThreadsAssumption DEF ReturnFromInterrupt, Goto,
     requestVars, scanVars, slotVars, switchVars, TypeOK, SlotTypes, RequestTypes,
     ThreadTypes, SlotState, Handles, Slots, Producers, ThreadShape, Executing,
     InDispatch, RequestShape, PassShape, ScanShape, LateStores, Announced, Claimable, NothingLost,
     Dispatching, OnItsWay
<1>17. ASSUME NEW t \in Tasks, HandlerYields(t)
      PROVE  NothingLost'
  BY <1>17, LimitsAssumption, ThreadsAssumption DEF HandlerYields, requestVars,
     scanVars, slotVars, switchVars, TypeOK, SlotTypes, RequestTypes, ThreadTypes,
     SlotState, Handles, Slots, Producers, ThreadShape, Executing, InDispatch,
     RequestShape, PassShape, ScanShape, LateStores, Announced, Claimable, NothingLost, Dispatching,
     OnItsWay
<1>18. ASSUME NEW t \in Tasks, HandlerReturns(t)
      PROVE  NothingLost'
  BY <1>18, LimitsAssumption, ThreadsAssumption DEF HandlerReturns, Goto, nestVars,
     requestVars, slotVars, switchVars, TypeOK, SlotTypes, RequestTypes,
     ThreadTypes, SlotState, Handles, Slots, Producers, ThreadShape, Executing,
     InDispatch, RequestShape, PassShape, ScanShape, LateStores, Announced, Claimable, NothingLost,
     Dispatching, OnItsWay
<1>19. ASSUME NEW t \in Tasks, NEW next \in Tasks, YieldFromInterrupt(t, next)
      PROVE  NothingLost'
  BY <1>19, LimitsAssumption, ThreadsAssumption DEF YieldFromInterrupt, BeginSwitch,
     Goto, requestVars, scanVars, slotVars, TypeOK, SlotTypes, RequestTypes,
     ThreadTypes, SlotState, Handles, Slots, Producers, ThreadShape, Executing,
     InDispatch, RequestShape, PassShape, ScanShape, LateStores, Announced, Claimable, NothingLost,
     Dispatching, OnItsWay
<1>20. ASSUME NEW p \in Producers, NEW h \in Handles, setInterruptPending(p, h)
      PROVE  NothingLost'
  BY <1>20, LimitsAssumption, ThreadsAssumption DEF setInterruptPending, CanRequest,
     Matches, Request, nestVars, scanVars, switchVars, TypeOK, SlotTypes,
     RequestTypes, ThreadTypes, SlotState, Handles, Slots, Producers, ThreadShape,
     Executing, InDispatch, RequestShape, PassShape, ScanShape, LateStores, Announced, Claimable,
     NothingLost, Dispatching, OnItsWay
<1>21. ASSUME NEW p \in Producers, NEW h \in Handles, enableInterrupt(p, h)
      PROVE  NothingLost'
  BY <1>21, LimitsAssumption, ThreadsAssumption DEF enableInterrupt, CanRequest,
     EnableRequests, Matches, Request, nestVars, scanVars, switchVars, TypeOK,
     SlotTypes, RequestTypes, ThreadTypes, SlotState, Handles, Slots, Producers,
     ThreadShape, Executing, InDispatch, RequestShape, PassShape, ScanShape, LateStores, Announced,
     Claimable, NothingLost, Dispatching, OnItsWay
<1>22. ASSUME NEW p \in Producers, NEW h \in Handles, disableInterrupt(p, h)
      PROVE  NothingLost'
  BY <1>22, LimitsAssumption, ThreadsAssumption DEF disableInterrupt, CanRequest,
     Matches, nestVars, requestVars, scanVars, switchVars, TypeOK, SlotTypes,
     RequestTypes, ThreadTypes, SlotState, Handles, Slots, Producers, ThreadShape,
     Executing, InDispatch, RequestShape, PassShape, ScanShape, LateStores, Announced, Claimable,
     NothingLost, Dispatching, OnItsWay
<1>23. ASSUME NEW p \in Producers, StorePending(p)
      PROVE  NothingLost'
  BY <1>23, LimitsAssumption, ThreadsAssumption DEF StorePending, Request, nestVars,
     scanVars, slotVars, switchVars, TypeOK, SlotTypes, RequestTypes, ThreadTypes,
     SlotState, Handles, Slots, Producers, ThreadShape, Executing, InDispatch,
     RequestShape, PassShape, ScanShape, LateStores, Announced, Claimable, NothingLost, Dispatching,
     OnItsWay
<1>24. ASSUME NEW p \in Producers, Drain(p)
      PROVE  NothingLost'
  BY <1>24, LimitsAssumption, ThreadsAssumption DEF Drain, nestVars, scanVars,
     slotVars, switchVars, TypeOK, SlotTypes, RequestTypes, ThreadTypes, SlotState,
     Handles, Slots, Producers, ThreadShape, Executing, InDispatch, RequestShape,
     PassShape, ScanShape, LateStores, Announced, Claimable, NothingLost, Dispatching, OnItsWay
<1>25. ASSUME NEW p \in Producers, CheckPending(p)
      PROVE  NothingLost'
  BY <1>25, LimitsAssumption, ThreadsAssumption DEF CheckPending, Request, nestVars,
     scanVars, slotVars, switchVars, TypeOK, SlotTypes, RequestTypes, ThreadTypes,
     SlotState, Handles, Slots, Producers, ThreadShape, Executing, InDispatch,
     RequestShape, PassShape, ScanShape, LateStores, Announced, Claimable, NothingLost, Dispatching,
     OnItsWay
<1>26. ASSUME NEW p \in Producers, LoadRunning(p)
      PROVE  NothingLost'
  BY <1>26, LimitsAssumption, ThreadsAssumption DEF LoadRunning, Request, nestVars,
     scanVars, slotVars, switchVars, TypeOK, SlotTypes, RequestTypes, ThreadTypes,
     SlotState, Handles, Slots, Producers, ThreadShape, Executing, InDispatch,
     RequestShape, PassShape, ScanShape, LateStores, Announced, Claimable, NothingLost, Dispatching,
     OnItsWay
<1>27. ASSUME NEW p \in Producers, Kill(p)
      PROVE  NothingLost'
  BY <1>27, LimitsAssumption, ThreadsAssumption DEF Kill, Request, nestVars,
     scanVars, slotVars, switchVars, TypeOK, SlotTypes, RequestTypes, ThreadTypes,
     SlotState, Handles, Slots, Producers, ThreadShape, Executing, InDispatch,
     RequestShape, PassShape, ScanShape, LateStores, Announced, Claimable, NothingLost, Dispatching,
     OnItsWay
<1>28. ASSUME RequestFromHandler
      PROVE  NothingLost'
  BY <1>28, LimitsAssumption, ThreadsAssumption DEF RequestFromHandler, Request,
     nestVars, scanVars, slotVars, switchVars, TypeOK, SlotTypes, RequestTypes,
     ThreadTypes, SlotState, Handles, Slots, Producers, ThreadShape, Executing,
     InDispatch, RequestShape, PassShape, ScanShape, LateStores, Announced, Claimable, NothingLost,
     Dispatching, OnItsWay
<1>29. ASSUME UNCHANGED vars
      PROVE  NothingLost'
  BY <1>29, LimitsAssumption, ThreadsAssumption DEF vars, nestVars, requestVars,
     scanVars, slotVars, switchVars, TypeOK, SlotTypes, RequestTypes, ThreadTypes,
     SlotState, Handles, Slots, Producers, ThreadShape, Executing, InDispatch,
     RequestShape, PassShape, ScanShape, LateStores, Announced, Claimable, NothingLost, Dispatching,
     OnItsWay
<1> QED
  BY <1>1, <1>2, <1>3, <1>4, <1>5, <1>6, <1>7, <1>8, <1>9, <1>10, <1>11, <1>12,
     <1>13, <1>14, <1>15, <1>16, <1>17, <1>18, <1>19, <1>20, <1>21, <1>22, <1>23,
     <1>24, <1>25, <1>26, <1>27, <1>28, <1>29 DEF Next, TaskCall, ControllerCall,
     RequestStep, SwitchStep, DispatchStep, Stopped

-----------------------------------------------------------------------------
(* Theorems *)

\* What makes the safety properties inductive.
IInv ==
    /\ TypeOK /\ ThreadShape /\ NestShape /\ SlotShape /\ RequestShape
    /\ HandlerIsLive /\ NoStaleDelivery

\* The strengthened invariant holds initially.
LEMMA IInvInit ==
    ASSUME Init
    PROVE  IInv
<1> USE ThreadsAssumption, LimitsAssumption
<1>1. SlotTypes
  <2>1. FreeSlot(0) \in SlotState
    BY DEF FreeSlot, SlotState
  <2>2. slot \in [Slots -> SlotState]
    BY <2>1 DEF Init
  <2>3. cursor \in 1..(NumSlots + 1)
    BY DEF Init
  <2> QED BY <2>2, <2>3 DEF Init, SlotTypes
<1>2. RequestTypes /\ ThreadTypes
  BY DEF Init, RequestTypes, ThreadTypes, Labels
<1>3. NestTypes
  BY DEF Init, NestTypes
<1>4. \A t \in Tasks : pc[t] = "suspend" /\ after[t] = "start" /\ saved[t] = <<0, 0>>
                        /\ depth[t] = 0 /\ rpc[t] = "none"
  BY DEF Init, Producers
<1>5. \A s \in Slots : slot[s] = FreeSlot(0)
  BY DEF Init
<1>6. \A p \in Producers : rpc[p] = "none"
  BY DEF Init
<1>7. ThreadShape
  BY <1>4 DEF Init, ThreadShape, Executing, InDispatch
<1>8. NestShape
  BY <1>4 DEF Init, NestShape, NestingDescribesTask, InDispatch
<1>9. SlotShape
  BY <1>4, <1>5 DEF Init, SlotShape, FreeSlot
<1>10. RequestShape
  BY <1>4, <1>5, <1>6 DEF Init, RequestShape, FreeSlot, Producers
<1>11. HandlerIsLive /\ NoStaleDelivery
  BY <1>5 DEF Init, HandlerIsLive, NoStaleDelivery, FreeSlot
<1> QED BY <1>1, <1>2, <1>3, <1>7, <1>8, <1>9, <1>10, <1>11 DEF IInv, TypeOK

\* Every step preserves the strengthened invariant.
LEMMA IInvStep ==
    ASSUME IInv, [Next]_vars
    PROVE  IInv'
<1>1. CASE Next
  BY <1>1, SlotTypesStep, RequestTypesStep, ThreadTypesStep, NestTypesStep, ThreadStep,
     NestStep, SlotStep, RequestShapeStep, DeliveryStep DEF IInv, TypeOK
<1>2. CASE UNCHANGED vars
  BY <1>2 DEF IInv, vars, slotVars, scanVars, requestVars, switchVars, nestVars, TypeOK,
     SlotTypes, RequestTypes, ThreadTypes, NestTypes, ThreadShape, Executing, NestShape,
     NestingDescribesTask, SlotShape, RequestShape, HandlerIsLive, Matches,
     NoStaleDelivery
<1> QED BY <1>1, <1>2

\* The strengthening holds in every reachable state.
THEOREM InvariantHolds == Spec => []IInv
BY IInvInit, IInvStep, PTL DEF Spec

\* Every variable keeps its type; generations stay within the identity space.
THEOREM TypeCorrect == Spec => []TypeOK
<1>1. IInv => TypeOK
  BY DEF IInv
<1> QED BY <1>1, InvariantHolds, PTL

\* At most one task pthread acts as the selected one.
THEOREM HandoffIsExclusive == Spec => []OneTaskExecutes
<1>1. IInv => OneTaskExecutes
  BY DEF IInv, ThreadShape, OneTaskExecutes
<1> QED BY <1>1, InvariantHolds, PTL

\* The nesting counters are those of the thread that reads them.
THEOREM NestingIsRestored == Spec => []NestingDescribesTask
<1>1. IInv => NestingDescribesTask
  BY DEF IInv, NestShape
<1> QED BY <1>1, InvariantHolds, PTL

\* A registration whose handler is claimed or runs is not removed.
THEOREM UnregistrationIsQuiescent == Spec => []HandlerIsLive
<1>1. IInv => HandlerIsLive
  BY DEF IInv
<1> QED BY <1>1, InvariantHolds, PTL

\* No assertion through an old handle reaches a new registration.
THEOREM StaleEventsAreDropped == Spec => []NoStaleDelivery
<1>1. IInv => NoStaleDelivery
  BY DEF IInv
<1> QED BY <1>1, InvariantHolds, PTL

\* A handle names one registration for ever.
THEOREM HandlesAreUnique == Spec => []HandlesNotReused
<1>1. IInv => HandlesNotReused
  BY DEF IInv, SlotShape, HandlesNotReused
<1> QED BY <1>1, InvariantHolds, PTL

\* Whatever the order in which stores become visible, no enabled pending
\* registration loses its announcement, and no announcement its signal.
THEOREM NoWorkLost == Spec => []NothingLost
<1> DEFINE Inv == IInv /\ PassShape /\ NothingLost
<1>1. Init => Inv
  <2> SUFFICES ASSUME Init
               PROVE  Inv
    OBVIOUS
  <2>1. \A s \in Slots : ~Claimable(s)
    BY DEF Init, Claimable, FreeSlot
  <2>2. PassShape /\ NothingLost
    BY <2>1 DEF Init, PassShape, ScanShape, LateStores, NothingLost
  <2> QED BY <2>2, IInvInit
<1>2. Inv /\ [Next]_vars => Inv'
  <2> SUFFICES ASSUME Inv, [Next]_vars
               PROVE  Inv'
    OBVIOUS
  <2>1. CASE Next
    BY <2>1, IInvStep, PassStep, StrandStep DEF IInv
  <2>2. CASE UNCHANGED vars
    <3>1. PassShape' /\ NothingLost'
      BY <2>2 DEF vars, slotVars, scanVars, requestVars, switchVars, nestVars, PassShape,
         ScanShape, LateStores,
         NothingLost, Announced, Claimable, Dispatching, OnItsWay
    <3> QED BY <3>1, IInvStep
  <2> QED BY <2>1, <2>2
<1>3. Inv => NothingLost
  OBVIOUS
<1> QED BY <1>1, <1>2, <1>3, PTL DEF Spec
=============================================================================
