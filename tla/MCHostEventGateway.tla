------------------------- MODULE MCHostEventGateway -------------------------
(* Instances of HostEventGateway small enough for TLC. *)
EXTENDS HostEventGateway, TLC
=============================================================================
