----------------------------- MODULE MCLedcFade -----------------------------
(* Instances of LedcFade small enough for TLC. *)
EXTENDS LedcFade, TLC

\* a fade down that takes two ticks, neither of which moves it by half its delta,
\* and an immediate one
SlowAndInstant ==
    {[start |-> 3, target |-> 0, duration |-> 2], [start |-> 0, target |-> 3, duration |-> 0]}
=============================================================================
