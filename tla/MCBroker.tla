------------------------------ MODULE MCBroker ------------------------------
(* Small instances of Broker: every connection claims the same identifier, *)
(* which is also the one that every user asks for.                         *)
EXTENDS Broker, TLC

MCDevId  == [c \in Conns |-> CHOOSE id \in DevIds : TRUE]
MCTarget == [u \in Users |-> CHOOSE id \in DevIds : TRUE]
Symmetric == Permutations(Conns)
=============================================================================
