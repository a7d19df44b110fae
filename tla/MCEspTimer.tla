----------------------------- MODULE MCEspTimer -----------------------------
(* Instances of EspTimer small enough for TLC. *)
EXTENDS EspTimer, TLC

\* two handlers that share a vector: one filtered and on, one unfiltered and off
SharedHandlers ==
    {[source |-> s, shared |-> TRUE, enabled |-> f # NoFilter, filter |-> f,
      handler |-> "driver"] : s \in DriverSources, f \in Filters \cup {NoFilter}}
=============================================================================
