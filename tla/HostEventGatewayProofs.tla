----------------------- MODULE HostEventGatewayProofs -----------------------
(* Proofs about HostEventGateway, for every set of tasks, producers and endpoints and   *)
(* every capacity.                                                                      *)
EXTENDS HostEventGateway, TLAPS

-----------------------------------------------------------------------------
(* Types *)

LEMMA InitTypes == Init => TypeOK
<1>1. PICK e \in Endpoints : TRUE
  BY GatewayAssumption
<1>2. (CHOOSE x \in Endpoints : TRUE) \in Endpoints
  BY <1>1
<1>3. 1 \in 1..(Capacity + 1) /\ 0 \in 0..Capacity /\ 0 \in 0..MaxConnections
  BY GatewayAssumption
<1> QED BY <1>2, <1>3 DEF Init, TypeOK

\* The gateway is at a slot of the table when it calls a handler.
CallShape == gateway \in {"call", "handler"} => next \in Indices

LEMMA NextTypes ==
    ASSUME TypeOK, CallShape, [Next]_vars
    PROVE  TypeOK'
<1> USE GatewayAssumption DEF TypeOK, table, task, Goto
<1>1. ASSUME NEW t \in Tasks, NEW e \in Endpoints, connect(t, e)
      PROVE  TypeOK'
  <2>1. connection'[e] \in 0..MaxConnections
    BY <1>1 DEF connect
  <2>2. connection' \in [Endpoints -> 0..MaxConnections]
    BY <1>1, <2>1 DEF connect
  <2>3. PICK i \in Indices : /\ endpoints' = [endpoints EXCEPT ![i] = e]
                             /\ slot' = [slot EXCEPT ![e] = i]
    BY <1>1 DEF connect, SlotNumber
  <2>4. i \in 0..Capacity
    BY DEF Indices
  <2>5. gateway' \in {"none", "wait", "lock", "scan", "call", "handler"}
    BY <1>1 DEF connect, Started
  <2> QED BY <1>1, <2>2, <2>3, <2>4, <2>5 DEF connect
<1>2. ASSUME NEW t \in Tasks, NEW e \in Endpoints, CallDisconnect(t, e)
      PROVE  TypeOK'
  BY <1>2 DEF CallDisconnect
<1>3. ASSUME NEW t \in Tasks, DisconnectLock(t)
      PROVE  TypeOK'
  BY <1>3 DEF DisconnectLock
<1>4. ASSUME NEW t \in Tasks, Disconnect(t)
      PROVE  TypeOK'
  <2>1. endpoints' \in [Indices -> Endpoints \cup {NoEndpoint}]
    BY <1>4 DEF Disconnect
  <2>2. 0 \in 0..Capacity
    OBVIOUS
  <2>3. slot' \in [Endpoints -> 0..Capacity]
    BY <1>4, <2>2 DEF Disconnect
  <2>4. pending' \in [Endpoints -> BOOLEAN] /\ unseen' \in [Endpoints -> BOOLEAN]
    BY <1>4 DEF Disconnect
  <2> QED BY <1>4, <2>1, <2>3, <2>4 DEF Disconnect
<1>5. ASSUME NEW t \in Tasks, DisconnectGive(t)
      PROVE  TypeOK'
  BY <1>5 DEF DisconnectGive
<1>6. ASSUME NEW p \in Producers, NEW e \in Endpoints, Publish(p, e)
      PROVE  TypeOK'
  BY <1>6 DEF Publish, Connected
<1>7. ASSUME NEW p \in Producers, notifyFromHost(p)
      PROVE  TypeOK'
  BY <1>7 DEF notifyFromHost
<1>8. CASE onTick
  BY <1>8 DEF onTick
<1>9. CASE DeliverLock
  BY <1>9 DEF DeliverLock
<1>10. CASE NotifyTake
  BY <1>10 DEF NotifyTake
<1>11. CASE Skip
  <2>1. next' \in 1..(Capacity + 1)
    BY <1>11 DEF Skip, Indices
  <2> QED BY <1>11, <2>1 DEF Skip
<1>12. CASE Exchange
  <2>1. endpoints[next] \in Endpoints
    BY <1>12 DEF Exchange, Announced
  <2>2. calling' \in 0..MaxConnections
    BY <1>12, <2>1 DEF Exchange
  <2> QED BY <1>12, <2>1, <2>2 DEF Exchange
<1>13. CASE CallHandler
  BY <1>13 DEF CallHandler
<1>14. CASE HandlerReturns
  <2>1. next' \in 1..(Capacity + 1)
    BY <1>14 DEF HandlerReturns, CallShape, Indices
  <2> QED BY <1>14, <2>1 DEF HandlerReturns, PendingAfterHandler
<1>15. CASE DeliverGive
  BY <1>15 DEF DeliverGive
<1>16. CASE UNCHANGED vars
  BY <1>16 DEF vars
<1> QED
  BY <1>1, <1>2, <1>3, <1>4, <1>5, <1>6, <1>7, <1>8, <1>9, <1>10, <1>11, <1>12, <1>13,
     <1>14, <1>15, <1>16
     DEF Next, ReleaseSteps, DeliverSteps

-----------------------------------------------------------------------------
(* The table and the mutex *)

\* endpoints and slot_ name each other: an endpoint is in at most one slot.
TableAgrees == \A e \in Endpoints, i \in Indices : endpoints[i] = e <=> slot[e] = i

\* The mutex is held by the gateway during a pass and by a task that disconnects.
MutexShape ==
    /\ gateway \in {"scan", "call", "handler"} <=> mutex = Gateway
    /\ \A t \in Tasks : pc[t] \in {"clear", "give"} <=> mutex = t

IInv == TypeOK /\ TableAgrees /\ MutexShape /\ CallShape /\ HandlerIsConnected /\ NotificationNotLost

LEMMA TableStep ==
    ASSUME TypeOK, TableAgrees, [Next]_vars
    PROVE  TableAgrees'
<1> USE GatewayAssumption DEF table, task
<1>1. ASSUME NEW t \in Tasks, NEW e \in Endpoints, connect(t, e)
      PROVE  TableAgrees'
  <2>1. PICK i \in Indices : /\ endpoints[i] = NoEndpoint
                             /\ endpoints' = [endpoints EXCEPT ![i] = e]
                             /\ slot' = [slot EXCEPT ![e] = i]
    BY <1>1 DEF connect, IsFirstFree, SlotNumber
  <2>2. slot[e] = 0 /\ \A j \in Indices : j # 0
    BY <1>1 DEF connect, Connected, Indices
  <2>3. \A j \in Indices : endpoints[j] # e
    BY <2>2 DEF TableAgrees
  <2>4. \A d \in Endpoints : slot[d] # i
    BY <2>1 DEF TableAgrees
  <2> QED BY <2>1, <2>3, <2>4 DEF TableAgrees, TypeOK
<1>2. ASSUME NEW t \in Tasks, Disconnect(t)
      PROVE  TableAgrees'
  <2>1. PICK e \in Endpoints : e = operand[t]
    BY DEF TypeOK
  <2>2. CASE ~Connected(e)
    BY <1>2, <2>1, <2>2 DEF Disconnect, TableAgrees
  <2>3. CASE Connected(e)
    <3>1. PICK i \in Indices : i = slot[e]
      BY <2>3 DEF Connected, TypeOK, Indices
    <3>2. endpoints' = [endpoints EXCEPT ![i] = NoEndpoint] /\ slot' = [slot EXCEPT ![e] = 0]
      BY <1>2, <2>1, <2>3, <3>1 DEF Disconnect
    <3>3. endpoints[i] = e /\ \A j \in Indices : j # 0
      BY <3>1 DEF TableAgrees, Indices
    <3> QED BY <3>1, <3>2, <3>3 DEF TableAgrees, TypeOK
  <2> QED BY <2>2, <2>3
<1>3. ASSUME UNCHANGED <<endpoints, slot>>
      PROVE  TableAgrees'
  BY <1>3 DEF TableAgrees
<1> QED
  BY <1>1, <1>2, <1>3
     DEF Next, ReleaseSteps, DeliverSteps, CallDisconnect, DisconnectLock, DisconnectGive,
         Publish, notifyFromHost, onTick, DeliverLock, NotifyTake, Skip, Exchange, CallHandler,
         HandlerReturns, DeliverGive, vars

LEMMA MutexStep ==
    ASSUME TypeOK, MutexShape, CallShape, [Next]_vars
    PROVE  MutexShape' /\ CallShape'
<1> USE GatewayAssumption DEF table, task, Goto, MutexShape, CallShape, TypeOK
<1>1. ASSUME NEW t \in Tasks, NEW e \in Endpoints, connect(t, e)
      PROVE  MutexShape' /\ CallShape'
  BY <1>1 DEF connect, Started
<1>2. ASSUME NEW t \in Tasks, NEW e \in Endpoints, CallDisconnect(t, e)
      PROVE  MutexShape' /\ CallShape'
  BY <1>2 DEF CallDisconnect
<1>3. ASSUME NEW t \in Tasks, DisconnectLock(t)
      PROVE  MutexShape' /\ CallShape'
  BY <1>3 DEF DisconnectLock, DeliveryIsExcluded
<1>4. ASSUME NEW t \in Tasks, Disconnect(t)
      PROVE  MutexShape' /\ CallShape'
  BY <1>4 DEF Disconnect
<1>5. ASSUME NEW t \in Tasks, DisconnectGive(t)
      PROVE  MutexShape' /\ CallShape'
  BY <1>5 DEF DisconnectGive
<1>6. ASSUME NEW p \in Producers, NEW e \in Endpoints, Publish(p, e)
      PROVE  MutexShape' /\ CallShape'
  BY <1>6 DEF Publish
<1>7. ASSUME NEW p \in Producers, notifyFromHost(p)
      PROVE  MutexShape' /\ CallShape'
  BY <1>7 DEF notifyFromHost
<1>8. CASE onTick
  BY <1>8 DEF onTick
<1>9. CASE DeliverLock
  BY <1>9 DEF DeliverLock
<1>10. CASE DeliverSteps
  BY <1>10 DEF DeliverSteps, NotifyTake, Skip, Exchange, CallHandler, HandlerReturns, DeliverGive
<1>11. CASE UNCHANGED vars
  BY <1>11 DEF vars
<1> QED
  BY <1>1, <1>2, <1>3, <1>4, <1>5, <1>6, <1>7, <1>8, <1>9, <1>10, <1>11
     DEF Next, ReleaseSteps

-----------------------------------------------------------------------------
(* Handlers and notifications *)

\* No step takes the endpoint away from a handler.
LEMMA CallStep ==
    ASSUME TypeOK, TableAgrees, MutexShape, CallShape, HandlerIsConnected, [Next]_vars
    PROVE  HandlerIsConnected'
<1> USE GatewayAssumption DEF table, task
<1>1. ASSUME NEW t \in Tasks, NEW e \in Endpoints, connect(t, e)
      PROVE  HandlerIsConnected'
  <2>1. PICK i \in Indices : /\ endpoints[i] = NoEndpoint
                             /\ endpoints' = [endpoints EXCEPT ![i] = e]
                             /\ slot' = [slot EXCEPT ![e] = i]
                             /\ connection' = [connection EXCEPT ![e] = @ + 1]
    BY <1>1 DEF connect, IsFirstFree, SlotNumber
  <2>2. slot[e] = 0 /\ \A j \in Indices : j # 0
    BY <1>1 DEF connect, Connected, Indices
  <2>3. ASSUME gateway' \in {"call", "handler"}
        PROVE  gateway \in {"call", "handler"} /\ next' = next /\ calling' = calling
    BY <1>1, <2>3 DEF connect, Started
  <2>4. ASSUME gateway \in {"call", "handler"}
        PROVE  endpoints'[next] = endpoints[next] /\ endpoints[next] \in Endpoints
               /\ endpoints[next] # e
    BY <2>1, <2>2, <2>4 DEF HandlerIsConnected, CallShape, TypeOK
  <2> QED BY <2>1, <2>3, <2>4 DEF HandlerIsConnected, TypeOK
<1>2. ASSUME NEW t \in Tasks, Disconnect(t)
      PROVE  HandlerIsConnected'
  <2>1. gateway \notin {"call", "handler"} /\ gateway' = gateway
    BY <1>2 DEF Disconnect, MutexShape
  <2> QED BY <2>1 DEF HandlerIsConnected
<1>3. CASE Exchange
  <2>1. PICK e \in Endpoints : e = endpoints[next]
    BY <1>3 DEF Exchange, Announced, TypeOK
  <2>2. slot[e] = next /\ next \in Indices
    BY <1>3, <2>1 DEF Exchange, TableAgrees
  <2> QED BY <1>3, <2>1, <2>2 DEF Exchange, HandlerIsConnected
<1>4. ASSUME UNCHANGED <<endpoints, slot, connection>>,
             gateway' \in {"call", "handler"} =>
                 gateway \in {"call", "handler"} /\ UNCHANGED <<next, calling>>
      PROVE  HandlerIsConnected'
  BY <1>4 DEF HandlerIsConnected
<1> QED
  BY <1>1, <1>2, <1>3, <1>4
     DEF Next, ReleaseSteps, DeliverSteps, CallDisconnect, DisconnectLock, DisconnectGive,
         Publish, notifyFromHost, onTick, DeliverLock, NotifyTake, Skip, CallHandler,
         HandlerReturns, DeliverGive, vars

\* What announces the payload of an endpoint.
Announcement(e) ==
    \/ pending[e]
    \/ \E p \in Producers : pc[p] = "notify" /\ operand[p] = e
    \/ gateway = "call" /\ endpoints[next] = e

LEMMA NotificationStep ==
    ASSUME TypeOK, TableAgrees, CallShape, NotificationNotLost, [Next]_vars
    PROVE  NotificationNotLost'
<1> USE GatewayAssumption DEF table, task, Goto
<1>0. \A e \in Endpoints : unseen[e] =>
          Connected(e) /\ endpoints[slot[e]] = e /\ Announcement(e)
  BY DEF NotificationNotLost, Announcement
<1> SUFFICES ASSUME NEW e \in Endpoints, unseen'[e]
             PROVE  Connected(e)' /\ endpoints'[slot'[e]] = e /\ Announcement(e)'
  BY DEF NotificationNotLost, Announcement
<1>1. ASSUME NEW t \in Tasks, NEW d \in Endpoints, connect(t, d)
      PROVE  Connected(e)' /\ endpoints'[slot'[e]] = e /\ Announcement(e)'
  <2>1. unseen[e] /\ e # d
    BY <1>0, <1>1 DEF connect
  <2>2. PICK i \in Indices : /\ endpoints[i] = NoEndpoint
                             /\ endpoints' = [endpoints EXCEPT ![i] = d]
                             /\ slot' = [slot EXCEPT ![d] = i]
    BY <1>1 DEF connect, IsFirstFree, SlotNumber
  <2>3. slot'[e] = slot[e] /\ slot[e] # i /\ slot[e] # 0 /\ endpoints[slot[e]] = e
    BY <1>0, <2>1, <2>2 DEF TypeOK, Connected
  <2>4. Connected(e)' /\ endpoints'[slot'[e]] = e
    BY <2>2, <2>3 DEF Connected, TypeOK, Indices
  <2>5. Announcement(e)
    BY <1>0, <2>1
  <2>6. pending'[e] = pending[e]
    BY <1>1, <2>1 DEF connect, TypeOK
  <2>7. gateway = "call" /\ endpoints[next] = e => gateway' = "call" /\ endpoints'[next'] = e
    BY <1>1, <2>2 DEF connect, Started, CallShape, TypeOK
  <2>8. UNCHANGED <<pc, operand>>
    BY <1>1 DEF connect
  <2> QED BY <2>4, <2>5, <2>6, <2>7, <2>8 DEF Announcement
<1>2. ASSUME NEW t \in Tasks, NEW d \in Endpoints, CallDisconnect(t, d)
      PROVE  Connected(e)' /\ endpoints'[slot'[e]] = e /\ Announcement(e)'
  <2>1. t \notin Producers
    OBVIOUS
  <2> QED BY <1>0, <1>2, <2>1 DEF CallDisconnect, Announcement, Connected, TypeOK
<1>3. ASSUME NEW t \in Tasks, DisconnectLock(t)
      PROVE  Connected(e)' /\ endpoints'[slot'[e]] = e /\ Announcement(e)'
  <2>1. t \notin Producers
    OBVIOUS
  <2> QED BY <1>0, <1>3, <2>1 DEF DisconnectLock, Announcement, Connected, TypeOK
<1>4. ASSUME NEW t \in Tasks, Disconnect(t)
      PROVE  Connected(e)' /\ endpoints'[slot'[e]] = e /\ Announcement(e)'
  <2>1. t \notin Producers /\ operand[t] \in Endpoints
    BY DEF TypeOK
  <2>2. CASE ~Connected(operand[t])
    BY <1>0, <1>4, <2>1, <2>2 DEF Disconnect, Announcement, Connected, TypeOK
  <2>3. CASE Connected(operand[t])
    <3>1. PICK d \in Endpoints : d = operand[t]
      BY <2>1
    <3>2. PICK i \in Indices : i = slot[d]
      BY <2>3, <3>1 DEF Connected, TypeOK, Indices
    <3>3. /\ endpoints' = [endpoints EXCEPT ![i] = NoEndpoint]
          /\ slot' = [slot EXCEPT ![d] = 0]
          /\ pending' = [pending EXCEPT ![d] = FALSE]
          /\ unseen' = [unseen EXCEPT ![d] = FALSE]
      BY <1>4, <2>3, <3>1, <3>2 DEF Disconnect
    <3>4. e # d /\ unseen[e]
      BY <3>3 DEF TypeOK
    <3>5. endpoints[i] = d
      BY <3>2 DEF TableAgrees
    <3>6. slot[e] # i /\ slot'[e] = slot[e] /\ endpoints[slot[e]] = e /\ slot[e] # 0
      BY <1>0, <3>3, <3>4, <3>5 DEF Connected, TypeOK
    <3>7. Connected(e)' /\ endpoints'[slot'[e]] = e
      BY <3>3, <3>6 DEF Connected, TypeOK, Indices
    <3>8. pending'[e] = pending[e] /\ UNCHANGED <<gateway, next, operand>>
      BY <1>4, <3>3, <3>4 DEF Disconnect, TypeOK
    <3>9. \A p \in Producers : pc'[p] = pc[p]
      BY <1>4, <2>1 DEF Disconnect, TypeOK
    <3>10. gateway = "call" /\ endpoints[next] = e => endpoints'[next] = e
      BY <3>3, <3>4, <3>5 DEF TypeOK, CallShape
    <3> QED BY <1>0, <3>4, <3>7, <3>8, <3>9, <3>10 DEF Announcement
  <2> QED BY <2>2, <2>3
<1>5. ASSUME NEW t \in Tasks, DisconnectGive(t)
      PROVE  Connected(e)' /\ endpoints'[slot'[e]] = e /\ Announcement(e)'
  <2>1. t \notin Producers
    OBVIOUS
  <2> QED BY <1>0, <1>5, <2>1 DEF DisconnectGive, Announcement, Connected, TypeOK
<1>6. ASSUME NEW p \in Producers, NEW d \in Endpoints, Publish(p, d)
      PROVE  Connected(e)' /\ endpoints'[slot'[e]] = e /\ Announcement(e)'
  <2>1. CASE e = d
    <3>1. Connected(e)
      BY <1>6, <2>1 DEF Publish, TypeOK
    <3>2. endpoints[slot[e]] = e
      BY <3>1 DEF TableAgrees, Connected, TypeOK, Indices
    <3>3. pc'[p] = "notify" /\ operand'[p] = e
      BY <1>6, <2>1 DEF Publish, TypeOK
    <3> QED BY <1>6, <3>1, <3>2, <3>3 DEF Publish, Connected, Announcement
  <2>2. CASE e # d
    <3>1. unseen[e]
      BY <1>6, <2>2 DEF Publish, TypeOK
    <3>2. \A q \in Producers : pc[q] = "notify" => pc'[q] = "notify" /\ operand'[q] = operand[q]
      BY <1>6 DEF Publish, TypeOK
    <3> QED BY <1>0, <1>6, <3>1, <3>2 DEF Publish, Connected, Announcement
  <2> QED BY <2>1, <2>2
<1>7. ASSUME NEW p \in Producers, notifyFromHost(p)
      PROVE  Connected(e)' /\ endpoints'[slot'[e]] = e /\ Announcement(e)'
  <2>1. unseen[e] /\ Announcement(e)
    BY <1>0, <1>7 DEF notifyFromHost
  <2>2. pending[e] => pending'[e]
    BY <1>7 DEF notifyFromHost, TypeOK
  <2>3. ASSUME NEW q \in Producers, pc[q] = "notify", operand[q] = e
        PROVE  pending'[e] \/ (pc'[q] = "notify" /\ operand'[q] = e)
    BY <1>7, <2>3 DEF notifyFromHost, TypeOK
  <2>4. Announcement(e)'
    BY <1>7, <2>1, <2>2, <2>3 DEF notifyFromHost, Announcement
  <2> QED BY <1>0, <1>7, <2>1, <2>4 DEF notifyFromHost, Connected
<1>8. CASE Exchange
  <2>1. unseen[e] /\ Announcement(e)
    BY <1>0, <1>8 DEF Exchange
  <2>2. pending[e] => pending'[e] \/ endpoints[next] = e
    BY <1>8 DEF Exchange, TypeOK
  <2>3. Announcement(e)'
    BY <1>8, <2>1, <2>2 DEF Exchange, Announcement
  <2> QED BY <1>0, <1>8, <2>1, <2>3 DEF Exchange, Connected
<1>9. CASE CallHandler
  <2>1. unseen[e] /\ endpoints[next] # e
    BY <1>9 DEF CallHandler
  <2> QED BY <1>0, <1>9, <2>1 DEF CallHandler, Announcement, Connected
<1>10. ASSUME UNCHANGED <<table, pending, pc, operand, unseen>>,
              gateway = "call" => UNCHANGED <<gateway, next>>
       PROVE  Connected(e)' /\ endpoints'[slot'[e]] = e /\ Announcement(e)'
  BY <1>0, <1>10 DEF Announcement, Connected
<1> QED
  BY <1>1, <1>2, <1>3, <1>4, <1>5, <1>6, <1>7, <1>8, <1>9, <1>10
     DEF Next, ReleaseSteps, DeliverSteps, onTick, DeliverLock, NotifyTake, Skip,
         HandlerReturns, PendingAfterHandler, DeliverGive, vars

-----------------------------------------------------------------------------
(* Theorems *)

LEMMA InitInvariant == Init => IInv
<1> SUFFICES ASSUME Init PROVE IInv
  OBVIOUS
<1>1. TypeOK
  BY InitTypes
<1>2. TableAgrees
  BY GatewayAssumption DEF Init, TableAgrees, Indices
<1>3. MutexShape /\ CallShape /\ HandlerIsConnected
  BY GatewayAssumption DEF Init, MutexShape, CallShape, HandlerIsConnected
<1>4. NotificationNotLost
  BY DEF Init, NotificationNotLost
<1> QED BY <1>1, <1>2, <1>3, <1>4 DEF IInv

\* The inductive invariant holds in every reachable state.
THEOREM InvariantHolds == Spec => []IInv
<1>1. ASSUME IInv, [Next]_vars
      PROVE  IInv'
  BY <1>1, NextTypes, TableStep, MutexStep, CallStep, NotificationStep DEF IInv
<1> QED BY <1>1, InitInvariant, PTL DEF Spec

\* Every variable has its type, for any number of tasks, producers and endpoints.
THEOREM TypesHold == Spec => []TypeOK
<1>1. IInv => TypeOK
  BY DEF IInv
<1> QED BY <1>1, InvariantHolds, PTL

\* disconnect() waits for the handler: a handler runs only for the connection whose
\* notification was taken.
THEOREM HandlersRunConnected == Spec => []HandlerIsConnected
<1>1. IInv => HandlerIsConnected
  BY DEF IInv
<1> QED BY <1>1, InvariantHolds, PTL

\* No notification of a connected endpoint is lost or swallowed by an earlier one.
THEOREM NotificationsKept == Spec => []NotificationNotLost
<1>1. IInv => NotificationNotLost
  BY DEF IInv
<1> QED BY <1>1, InvariantHolds, PTL
=============================================================================
