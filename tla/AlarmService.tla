---------------------------- MODULE AlarmService ----------------------------
(***************************************************************************)
(* What the system-time alarm service promises its callers, whatever the   *)
(* threads that register, cancel, pump and wait: one-shot alarms with      *)
(* non-reused identifiers, run one at a time, never before their deadline, *)
(* earliest deadline first and registration order among equals, and none   *)
(* once the service has closed.  SystemTimeAlarms implements it.           *)
(***************************************************************************)
EXTENDS Integers

CONSTANTS Ids, Deadlines,
          ToNanos(_)  \* a deadline in the unit of `now`

VARIABLES now,       \* emulated uptime
          pending,   \* registered alarms, [id, deadline]
          used,      \* identifiers handed out so far
          running,   \* the alarm whose callback runs: at most one
          open       \* "running", "closing" or "stopped"

vars == <<now, pending, used, running, open>>

\* a runs no later than b: earlier deadline, then earlier registration
NotAfter(a, b) ==
    \/ a.deadline < b.deadline
    \/ a.deadline = b.deadline /\ a.id <= b.id

Init ==
    /\ now = 0
    /\ pending = {}
    /\ used = {}
    /\ running = {}
    /\ open = "running"

\* time never goes backward; every step may also move it forward
Advances == now' >= now

Register(id, deadline) ==
    /\ open = "running"
    /\ id \notin used
    /\ used' = used \cup {id}
    /\ pending' = pending \cup {[id |-> id, deadline |-> deadline]}
    /\ UNCHANGED <<running, open>>

Run(a) ==
    /\ open = "running"
    /\ running = {}
    /\ ToNanos(a.deadline) <= now'
    /\ \A b \in pending : NotAfter(a, b)
    /\ running' = {a}
    /\ pending' = pending \ {a}
    /\ UNCHANGED <<used, open>>

Return ==
    /\ running # {}
    /\ running' = {}
    /\ UNCHANGED <<pending, used, open>>

Withdraw(a) ==
    /\ pending' = pending \ {a}
    /\ UNCHANGED <<used, running, open>>

Close ==
    /\ open = "running"
    /\ running = {}
    /\ open' = "closing"
    /\ UNCHANGED <<pending, used, running>>

Stop ==
    /\ open = "closing"
    /\ open' = "stopped"
    /\ pending' = {}
    /\ UNCHANGED <<used, running>>

Elapse == UNCHANGED <<pending, used, running, open>>

Next ==
    /\ Advances
    /\ \/ \E id \in Ids, deadline \in Deadlines : Register(id, deadline)
       \/ \E a \in pending : Run(a) \/ Withdraw(a)
       \/ Return \/ Close \/ Stop \/ Elapse

Spec == Init /\ [][Next]_vars
=============================================================================
