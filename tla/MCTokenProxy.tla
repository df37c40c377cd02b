---------------------------- MODULE MCTokenProxy ----------------------------
(* Small instances of TokenProxy: all requests are for one tunnel.         *)
EXTENDS TokenProxy, TLC

MCTunnelOf == [s \in Streams |-> CHOOSE t \in Tunnels : TRUE]
=============================================================================
