-------------------------- MODULE SessionDirectory --------------------------
(* What the broker promises about br.devices and br.sessions, without its  *)
(* channels, goroutines and timers: an identifier has one owner at a time, *)
(* changes hands only after it was released, and takes every session with  *)
(* it when it is; a session is opened once, on the owner of that moment.   *)

CONSTANTS Conns, Users, DevIds, DevId, Target, None

VARIABLES
    owner,    \* identifier -> the connection that serves it
    session,  \* user -> the connection its session runs on
    opened    \* users that have had their session

vars == <<owner, session, opened>>

Init ==
    /\ owner = [id \in DevIds |-> None]
    /\ session = [u \in Users |-> None]
    /\ opened = {}

Claim(c) ==
    /\ owner[DevId[c]] = None
    /\ owner' = [owner EXCEPT ![DevId[c]] = c]
    /\ UNCHANGED <<session, opened>>

Release(c) ==
    /\ owner[DevId[c]] = c
    /\ owner' = [owner EXCEPT ![DevId[c]] = None]
    /\ session' = [u \in Users |-> IF Target[u] = DevId[c] THEN None ELSE session[u]]
    /\ UNCHANGED opened

Open(u) ==
    /\ u \notin opened
    /\ owner[Target[u]] # None
    /\ opened' = opened \cup {u}
    /\ session' = [session EXCEPT ![u] = owner[Target[u]]]
    /\ UNCHANGED owner

End(u) ==
    /\ session' = [session EXCEPT ![u] = None]
    /\ UNCHANGED <<owner, opened>>

Next ==
    \/ \E c \in Conns : Claim(c) \/ Release(c)
    \/ \E u \in Users : Open(u) \/ End(u)

Spec == Init /\ [][Next]_vars
=============================================================================
