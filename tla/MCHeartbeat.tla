---------------------------- MODULE MCHeartbeat -----------------------------
(* Heartbeat with steps of a fraction of a second.                         *)
EXTENDS Heartbeat
=============================================================================
