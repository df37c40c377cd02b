------------------------------ MODULE MCTunnel ------------------------------
(* Small instances of Tunnel: the first create requests name one target,   *)
(* the last one another.                                                   *)
EXTENDS Tunnel, TLC

CONSTANTS a1, a2, a3, p1, p2, x1, x2

MCWant == [a \in Creators |-> IF a = a3 THEN x2 ELSE x1]
Symmetric == Permutations({a1, a2}) \cup Permutations({p1, p2})

\* The locals of a goroutine that has returned, and the listener that is not
\* to be closed any more, are never read again.
Locals(a) ==
    IF pc[a] \in {"idle", "done"} THEN <<>>
    ELSE <<tunnel[a], port[a], IF pc[a] = "close" THEN held[a] ELSE None>>

StateView ==
    <<db, net, online, pc, [a \in Actors |-> Locals(a)], batch, history, bounds>>
=============================================================================
