------------------------------ MODULE MCRelay -------------------------------
(* Small instances of Relay: every session is on the same device.          *)
EXTENDS Relay, TLC

MCDevOf == [u \in Users |-> CHOOSE d \in Devs : TRUE]
=============================================================================
