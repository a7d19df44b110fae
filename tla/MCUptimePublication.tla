------------------------ MODULE MCUptimePublication ------------------------
(* The uptime publication with one native thread, a task and its handler. *)
EXTENDS UptimePublication
=============================================================================
