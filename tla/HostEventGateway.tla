-------------------------- MODULE HostEventGateway --------------------------
(***************************************************************************)
(* The host event gateway (host_event_endpoint.cpp): native threads set an *)
(* endpoint's pending flag, the FreeRTOS tick looks for a flag that is set *)
(* and wakes the gateway task, and that task takes the flags and calls the *)
(* endpoints' handlers.  Other tasks connect and disconnect endpoints.     *)
(*                                                                         *)
(* Tasks preempt each other anywhere but in a critical section, which is   *)
(* one step: native threads only touch the flags, and a flag set during    *)
(* it might as well have been set before or after.  The tick's scan is one *)
(* step for the same reason: a flag it misses is there for the next tick.  *)
(***************************************************************************)
EXTENDS Integers

CONSTANTS
    Tasks,          \* tasks that connect and disconnect; the gateway task is not one
    Gateway,        \* the gateway task
    NoTask,
    Producers,      \* native host threads
    Endpoints,
    NoEndpoint,
    Capacity,       \* kEndpointCapacity
    MaxConnections  \* bound: connections of an endpoint

ASSUME GatewayAssumption ==
    /\ Gateway \notin Tasks
    /\ NoTask \notin Tasks \cup {Gateway}
    /\ Tasks \cap Producers = {}
    /\ NoEndpoint \notin Endpoints
    /\ Endpoints # {}
    /\ Capacity \in Nat
    /\ MaxConnections \in Nat

Indices == 1..Capacity

VARIABLES
    endpoints,   \* the endpoint in each slot of the table
    slot,        \* slot_ of each endpoint, 0 if it is not connected
    pending,     \* pending_ of each endpoint
    mutex,       \* the holder of delivery_mutex
    notified,    \* the gateway task's notification value is not zero
    gateway,     \* where the gateway task is
    next,        \* the slot it looks at
    pc,          \* where each task and each producer is
    operand,     \* the endpoint each of them works on
    connection,  \* history: the number of connections of each endpoint
    calling,     \* history: the connection the handler is called for
    unseen       \* history: payloads of connected endpoints no handler has looked for

table == <<endpoints, slot, connection>>
task == <<gateway, next, calling>>
vars == <<table, pending, mutex, notified, task, pc, operand, unseen>>

Init ==
    /\ endpoints = [i \in Indices |-> NoEndpoint]
    /\ slot = [e \in Endpoints |-> 0]
    /\ pending = [e \in Endpoints |-> FALSE]
    /\ mutex = NoTask
    /\ notified = FALSE
    /\ gateway = "none" /\ next = 1 /\ calling = 0
    /\ pc = [c \in Tasks \cup Producers |-> "idle"]
    /\ operand = [c \in Tasks \cup Producers |-> CHOOSE e \in Endpoints : TRUE]
    /\ connection = [e \in Endpoints |-> 0]
    /\ unseen = [e \in Endpoints |-> FALSE]

Goto(c, label) == pc' = [pc EXCEPT ![c] = label]

Connected(e) == slot[e] # 0

\* A slot whose endpoint has its flag set
Announced(i) == endpoints[i] # NoEndpoint /\ pending[endpoints[i]]

\* Definitions named ..._Slip are not part of the model: each is the variant of
\* the definition below it that a plausible coding slip would give, kept to
\* show that the properties tell the two apart.

-----------------------------------------------------------------------------
(* connect and disconnect *)

IsFirstFree(i) ==
    endpoints[i] = NoEndpoint /\ \A j \in Indices : endpoints[j] = NoEndpoint => i <= j

\* What slot_ keeps of a place in the table
SlotNumber(i) == i

\* The first connection creates the gateway task
Started == IF gateway = "none" THEN "wait" ELSE gateway

\* A connected endpoint, or one for which the table has no slot, is refused
connect(t, e) ==
    /\ pc[t] = "idle"
    /\ ~Connected(e)
    /\ connection[e] < MaxConnections
    /\ \E i \in Indices :
          /\ IsFirstFree(i)
          /\ endpoints' = [endpoints EXCEPT ![i] = e]
          /\ slot' = [slot EXCEPT ![e] = SlotNumber(i)]
    /\ pending' = [pending EXCEPT ![e] = FALSE]
    /\ gateway' = Started
    /\ connection' = [connection EXCEPT ![e] = @ + 1]
    /\ UNCHANGED <<mutex, notified, next, calling, pc, operand, unseen>>

CallDisconnect(t, e) ==
    /\ pc[t] = "idle"
    /\ Connected(e)
    /\ Goto(t, "lock")
    /\ operand' = [operand EXCEPT ![t] = e]
    /\ UNCHANGED <<table, pending, mutex, notified, task, unseen>>

DeliveryIsExcluded_Slip == TRUE

\* delivery_mutex can be taken
DeliveryIsExcluded == mutex = NoTask

DisconnectLock(t) ==
    /\ pc[t] = "lock" /\ DeliveryIsExcluded
    /\ mutex' = t
    /\ Goto(t, "clear")
    /\ UNCHANGED <<table, pending, notified, task, operand, unseen>>

\* Another task may have disconnected the endpoint meanwhile, and connected it again
Disconnect(t) ==
    LET e == operand[t] IN
    /\ pc[t] = "clear"
    /\ IF Connected(e)
       THEN /\ endpoints' = [endpoints EXCEPT ![slot[e]] = NoEndpoint]
            /\ slot' = [slot EXCEPT ![e] = 0]
            /\ pending' = [pending EXCEPT ![e] = FALSE]
            /\ unseen' = [unseen EXCEPT ![e] = FALSE]
       ELSE UNCHANGED <<endpoints, slot, pending, unseen>>
    /\ Goto(t, "give")
    /\ UNCHANGED <<mutex, notified, task, operand, connection>>

DisconnectGive(t) ==
    /\ pc[t] = "give"
    /\ mutex' = NoTask
    /\ Goto(t, "idle")
    /\ UNCHANGED <<table, pending, notified, task, operand, unseen>>

-----------------------------------------------------------------------------
(* Native producers and the tick *)

\* A producer has its payload ready before it notifies
Publish(p, e) ==
    /\ pc[p] = "idle"
    /\ unseen' = [unseen EXCEPT ![e] = Connected(e)]
    /\ operand' = [operand EXCEPT ![p] = e]
    /\ Goto(p, "notify")
    /\ UNCHANGED <<table, pending, mutex, notified, task>>

notifyFromHost(p) ==
    /\ pc[p] = "notify"
    /\ pending' = [pending EXCEPT ![operand[p]] = TRUE]
    /\ Goto(p, "idle")
    /\ UNCHANGED <<table, mutex, notified, task, operand, unseen>>

SomePending_Slip ==
    \E i \in Indices : Announced(i) /\ \A j \in 1..(i - 1) : endpoints[j] = NoEndpoint

SomePending == \E i \in Indices : Announced(i)

onTick ==
    /\ gateway # "none"
    /\ SomePending
    /\ notified' = TRUE
    /\ UNCHANGED <<table, pending, mutex, task, pc, operand, unseen>>

-----------------------------------------------------------------------------
(* The gateway task *)

NotifyTake ==
    /\ gateway = "wait" /\ notified
    /\ notified' = FALSE
    /\ gateway' = "lock"
    /\ UNCHANGED <<table, pending, mutex, next, calling, pc, operand, unseen>>

DeliverLock ==
    /\ gateway = "lock" /\ mutex = NoTask
    /\ mutex' = Gateway
    /\ gateway' = "scan" /\ next' = 1
    /\ UNCHANGED <<table, pending, notified, calling, pc, operand, unseen>>

\* Nothing is connected in this slot, or the endpoint there is not pending
Skip ==
    /\ gateway = "scan" /\ next \in Indices
    /\ ~Announced(next)
    /\ next' = next + 1
    /\ UNCHANGED <<table, pending, mutex, notified, gateway, calling, pc, operand, unseen>>

\* pending_.exchange(false) returned true: the handler will be called
Exchange ==
    /\ gateway = "scan" /\ next \in Indices
    /\ Announced(next)
    /\ pending' = [pending EXCEPT ![endpoints[next]] = FALSE]
    /\ calling' = connection[endpoints[next]]
    /\ gateway' = "call"
    /\ UNCHANGED <<table, mutex, notified, next, pc, operand, unseen>>

\* The handler runs and looks for the payload
CallHandler ==
    /\ gateway = "call"
    /\ unseen' = [e \in Endpoints |-> unseen[e] /\ endpoints[next] # e]
    /\ gateway' = "handler"
    /\ UNCHANGED <<table, pending, mutex, notified, next, calling, pc, operand>>

PendingAfterHandler_Slip ==
    [e \in Endpoints |-> pending[e] /\ endpoints[next] # e]

\* A notification that came after the exchange stays for the next pass
PendingAfterHandler == pending

HandlerReturns ==
    /\ gateway = "handler"
    /\ pending' = PendingAfterHandler
    /\ gateway' = "scan" /\ next' = next + 1
    /\ UNCHANGED <<table, mutex, notified, calling, pc, operand, unseen>>

DeliverGive ==
    /\ gateway = "scan" /\ next \notin Indices
    /\ mutex' = NoTask
    /\ gateway' = "wait"
    /\ UNCHANGED <<table, pending, notified, next, calling, pc, operand, unseen>>

-----------------------------------------------------------------------------
DeliverSteps ==
    NotifyTake \/ Skip \/ Exchange \/ CallHandler \/ HandlerReturns \/ DeliverGive

ReleaseSteps(t) == Disconnect(t) \/ DisconnectGive(t)

Next ==
    \/ \E t \in Tasks :
          \/ \E e \in Endpoints : connect(t, e) \/ CallDisconnect(t, e)
          \/ DisconnectLock(t) \/ ReleaseSteps(t)
    \/ \E p \in Producers : notifyFromHost(p) \/ \E e \in Endpoints : Publish(p, e)
    \/ onTick
    \/ DeliverLock
    \/ DeliverSteps

Spec == Init /\ [][Next]_vars

\* Threads run on, ticks come, handlers return, and a task that holds the mutex gives
\* it back.  The gateway gets the mutex if it is free again and again: a mutex that is
\* given goes to its highest-priority waiter
FairSpec ==
    /\ Spec
    /\ WF_vars(onTick) /\ WF_vars(DeliverSteps) /\ SF_vars(DeliverLock)
    /\ \A t \in Tasks : WF_vars(ReleaseSteps(t))
    /\ \A p \in Producers : WF_vars(notifyFromHost(p))

-----------------------------------------------------------------------------
(* Properties *)

\* Every variable holds a value of its type
TypeOK ==
    /\ endpoints \in [Indices -> Endpoints \cup {NoEndpoint}]
    /\ slot \in [Endpoints -> 0..Capacity]
    /\ pending \in [Endpoints -> BOOLEAN]
    /\ mutex \in Tasks \cup {Gateway, NoTask}
    /\ notified \in BOOLEAN
    /\ gateway \in {"none", "wait", "lock", "scan", "call", "handler"}
    /\ next \in 1..(Capacity + 1)
    /\ pc \in [Tasks \cup Producers -> {"idle", "lock", "clear", "give", "notify"}]
    /\ operand \in [Tasks \cup Producers -> Endpoints]
    /\ connection \in [Endpoints -> 0..MaxConnections]
    /\ calling \in 0..MaxConnections
    /\ unseen \in [Endpoints -> BOOLEAN]

\* A handler runs only for the connection whose notification was taken: no task
\* disconnects the endpoint, or gives its slot away, from before the gateway takes the
\* flag until the handler has returned
HandlerIsConnected ==
    gateway \in {"call", "handler"} =>
        /\ endpoints[next] # NoEndpoint
        /\ slot[endpoints[next]] = next
        /\ connection[endpoints[next]] = calling

\* A payload that no handler has looked for is announced: its producer has still to
\* notify, or the flag is set on an endpoint that the tick and the gateway see, or the
\* handler is about to run.  A notification that comes while the handler of an earlier
\* one runs is not taken for that one
NotificationNotLost ==
    \A e \in Endpoints : unseen[e] =>
        /\ Connected(e) /\ endpoints[slot[e]] = e
        /\ \/ pending[e]
           \/ \E p \in Producers : pc[p] = "notify" /\ operand[p] = e
           \/ gateway = "call" /\ endpoints[next] = e

\* The payload of a connected endpoint is looked for or the endpoint disconnected,
\* whichever slots are free and whatever other endpoints do
PayloadIsSeen == \A e \in Endpoints : unseen[e] ~> ~unseen[e]
=============================================================================
