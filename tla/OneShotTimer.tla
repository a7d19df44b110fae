----------------------------- MODULE OneShotTimer -----------------------------
(***************************************************************************)
(* What the backend of esp_timer promises the common layer: one compare    *)
(* register.  A write replaces the compare before it, armed or not; the    *)
(* handler is called for the compare that is in the register, if it is     *)
(* armed, and never once the timer is closed.  EspTimer implements it.     *)
(***************************************************************************)
EXTENDS Naturals

VARIABLES open,     \* between initialization and deinitialization
          compare,  \* the compare in the register: writes are numbered
          armed,    \* it can be reached
          served    \* the compares the handler was called for

vars == <<open, compare, armed, served>>

Init ==
    /\ open = FALSE
    /\ compare = 0
    /\ armed = FALSE
    /\ served = {}

Open ==
    /\ ~open
    /\ open' = TRUE
    /\ UNCHANGED <<compare, armed, served>>

Write ==
    /\ open
    /\ compare' = compare + 1
    /\ armed' \in BOOLEAN
    /\ UNCHANGED <<open, served>>

Serve ==
    /\ open /\ armed
    /\ compare \notin served
    /\ served' = served \cup {compare}
    /\ UNCHANGED <<open, compare, armed>>

\* Closing revokes the compare
Close ==
    /\ open
    /\ open' = FALSE
    /\ compare' = compare + 1
    /\ armed' = FALSE
    /\ UNCHANGED served

Next == Open \/ Write \/ Serve \/ Close

Spec == Init /\ [][Next]_vars
=============================================================================
