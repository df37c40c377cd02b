------------------------------- MODULE Tunnel -------------------------------
(* The life of the public-port tunnels: rows of the tunnel table           *)
(* (tunnel.go), listeners on the public ports (proxy.go), and the four     *)
(* kinds of goroutine that change both without a common lock: handlers     *)
(* that create or renew a tunnel, handlers that delete one (tunnel_api.go),*)
(* the cleanup scheduler, and the restoration after a start (main.go).     *)
(*                                                                         *)
(* Every database statement and every operation on the table of listeners  *)
(* is a step.  A tunnel is named after the handler that inserts it, and a  *)
(* listener after the goroutine that opens it.                             *)
EXTENDS Naturals, FiniteSets

CONSTANTS
    Creators,     \* create requests; each is one handler
    Deleters,     \* delete requests
    Cleaner,      \* the cleanup scheduler
    Restorer,     \* the restoration goroutine
    Targets,      \* device, device port and protocol: what a tunnel leads to
    Want,         \* the target that a create request names
    Ports,        \* the public ports that may be allocated
    MaxRestarts,  \* bound on restarts of the server
    MaxOverlaps,  \* bound on operations that begin while another is in progress
    None

Actors == Creators \cup Deleters \cup {Cleaner, Restorer}
Row == [target : Targets, port : Ports, active : BOOLEAN, expired : BOOLEAN]

ASSUME TunnelAssumption ==
    /\ Want \in [Creators -> Targets]
    /\ None \notin Ports
    /\ MaxRestarts \in Nat
    /\ MaxOverlaps \in Nat
    /\ Creators \cap Deleters = {}
    /\ {Cleaner, Restorer} \cap (Creators \cup Deleters) = {}
    /\ Cleaner # Restorer
    /\ None \notin Actors \cup Row

VARIABLES
    row,       \* the tunnel table: tunnel -> row, or None
    server,    \* tunnelProxyServers: port -> listener
    bound,     \* the listener that holds the port in the operating system
    online,    \* targets whose device is registered
    pc,        \* of each goroutine
    tunnel,    \* the tunnel that the goroutine works on
    port,      \* its public port
    held,      \* the listener that a stopping goroutine has loaded
    batch,     \* rows that the cleaner or the restorer has read
    refused,   \* history: ports on which a renewal or the restoration failed to listen
    together,  \* history: pairs of create requests whose look-ups and INSERTs overlapped
    restarts,
    overlaps   \* operations that began while another was in progress

bounds == <<restarts, overlaps>>
history == <<refused, together>>
db == <<row>>
net == <<server, bound>>
locals == <<tunnel, port, held, batch>>
vars == <<db, net, online, pc, locals, history, bounds>>

Starting == {"load", "listen", "store", "undo"}
Stopping == {"find", "close", "drop"}

TypeOK ==
    /\ row \in [Creators -> Row \cup {None}]
    /\ server \in [Ports -> Actors \cup {None}]
    /\ bound \in [Ports -> Actors \cup {None}]
    /\ online \subseteq Targets
    /\ DOMAIN pc = Actors
    /\ \A a \in Creators : pc[a] \in Starting \cup
            {"idle", "renew", "reread", "allocate", "evict", "insert", "done"}
    /\ \A d \in Deleters : pc[d] \in Stopping \cup {"idle", "revoke", "done"}
    /\ pc[Cleaner] \in Stopping \cup {"idle", "mark", "next"}
    /\ pc[Restorer] \in Starting \cup {"idle", "next", "done"}
    /\ tunnel \in [Actors -> Creators \cup {None}]
    /\ port \in [Actors -> Ports \cup {None}]
    /\ held \in [Actors -> Actors \cup {None}]
    /\ batch \in [{Cleaner, Restorer} -> SUBSET [tunnel : Creators, row : Row]]
    /\ refused \subseteq Ports
    /\ together \subseteq SUBSET Creators
    /\ restarts \in 0..MaxRestarts
    /\ overlaps \in 0..MaxOverlaps

Init ==
    /\ row = [t \in Creators |-> None]
    /\ server = [p \in Ports |-> None]
    /\ bound = [p \in Ports |-> None]
    /\ online = {}
    /\ pc = [a \in Actors |-> "idle"]
    /\ tunnel = [a \in Actors |-> None]
    /\ port = [a \in Actors |-> None]
    /\ held = [a \in Actors |-> None]
    /\ batch = [a \in {Cleaner, Restorer} |-> {}]
    /\ refused = {}
    /\ together = {}
    /\ restarts = 0
    /\ overlaps = 0

-----------------------------------------------------------------------------
Rows == {t \in Creators : row[t] # None}
Active(t) == t \in Rows /\ row[t].active
Live(t) == Active(t) /\ ~row[t].expired

Quiet == \A a \in Actors : pc[a] \in {"idle", "done"}
Begins(a) ==
    /\ pc[a] = "idle"
    /\ overlaps' = IF Quiet THEN overlaps ELSE overlaps + 1
    /\ overlaps' <= MaxOverlaps
Goto(a, l) == pc' = [pc EXCEPT ![a] = l]
Step(a, from, to) == pc[a] = from /\ Goto(a, to)
Revoked(t) == [row EXCEPT ![t] = IF @ = None THEN None ELSE [@ EXCEPT !.active = FALSE]]

-----------------------------------------------------------------------------
(* handleTunnelCreate.  A row of the same target is renewed, whatever its  *)
(* state; the rows of one target are alike to the model.                   *)

ActiveSameTarget(a) == {t \in Rows : row[t].target = Want[a] /\ row[t].active}  \* mutant
SameTarget(a) == {t \in Rows : row[t].target = Want[a]}

CreateLookup(a) ==
    /\ Begins(a)
    /\ Want[a] \in online
    /\ IF SameTarget(a) = {}
       THEN Goto(a, "allocate") /\ UNCHANGED tunnel
       ELSE \E t \in SameTarget(a) :
              Goto(a, "renew") /\ tunnel' = [tunnel EXCEPT ![a] = t]
    /\ UNCHANGED <<db, net, online, port, held, batch, history, restarts>>

\* The restorer compares the deadline it has read with the clock when it
\* comes to the row; by then the deadline of t has passed.
DeadlinePassed(t) ==
    [batch EXCEPT ![Restorer] = {[s EXCEPT !.row.expired = @ \/ s.tunnel = t] : s \in @}]

\* UpdateTunnelByID: an UPDATE, which may find the row deleted.  It moves the
\* deadline of the row; the one that the restorer may have read still passes.
Renew(a) ==
    /\ Step(a, "renew", "reread")
    /\ row' = [row EXCEPT ![tunnel[a]] =
                 IF @ = None THEN None ELSE [@ EXCEPT !.active = TRUE, !.expired = FALSE]]
    /\ batch' \in {batch, DeadlinePassed(tunnel[a])}
    /\ UNCHANGED <<net, online, tunnel, port, held, history, bounds>>

\* A SELECT follows.  Without a row the handler panics on the nil tunnel.
Reread(a) ==
    /\ pc[a] = "reread"
    /\ IF tunnel[a] \in Rows
       THEN Goto(a, "load") /\ port' = [port EXCEPT ![a] = row[tunnel[a]].port]
       ELSE Goto(a, "done") /\ UNCHANGED port
    /\ UNCHANGED <<db, net, online, tunnel, held, batch, history, bounds>>

\* AllocatePort, under its mutex: the first port that no active row has and
\* on which a listener can be opened.  Another process may hold any port at
\* any time, so any free port may be the first, and there may be none.  The
\* mutex does not cover the INSERT.
Free(p) == bound[p] = None /\ ~\E t \in Rows : row[t].port = p /\ row[t].active

Allocate(a) ==
    /\ pc[a] = "allocate"
    /\ \/ \E p \in Ports : Free(p) /\ Goto(a, "evict") /\ port' = [port EXCEPT ![a] = p]
       \/ Goto(a, "done") /\ UNCHANGED port
    /\ UNCHANGED <<db, net, online, tunnel, held, batch, history, bounds>>

\* DeleteInactiveTunnelByPublicPort.
Evicted(p) == {t \in Rows : row[t].port = p /\ ~row[t].active}

Evict(a) ==
    /\ Step(a, "evict", "insert")
    /\ row' = [t \in Creators |-> IF t \in Evicted(port[a]) THEN None ELSE row[t]]
    /\ UNCHANGED <<net, online, locals, history, bounds>>

\* CreateTunnel: public_port is UNIQUE over all rows.
Taken(p) == \E t \in Rows : row[t].port = p

\* The requests that have found no row of a's target and not yet inserted one.
Overlapping(a) == {b \in Creators : Want[b] = Want[a] /\ pc[b] \in {"allocate", "evict", "insert"}}

Insert(a) ==
    /\ pc[a] = "insert"
    /\ IF Taken(port[a])
       THEN Goto(a, "done") /\ UNCHANGED <<row, tunnel, together>>
       ELSE /\ Goto(a, "load")
            /\ row' = [row EXCEPT ![a] = [target |-> Want[a], port |-> port[a],
                                          active |-> TRUE, expired |-> FALSE]]
            /\ tunnel' = [tunnel EXCEPT ![a] = a]
            /\ together' = together \cup {{a, b} : b \in Overlapping(a)}
    /\ UNCHANGED <<net, online, port, held, batch, refused, bounds>>

AfterEveryStart(a) == "next"  \* mutant: the handler does not return
AfterStart(a) == IF a = Restorer THEN "next" ELSE "done"

\* The handler that inserted the row revokes it if its listener fails; the
\* one that renewed a row leaves it active.
Undo(a) ==
    /\ Step(a, "undo", AfterStart(a))
    /\ row' = IF tunnel[a] = a THEN Revoked(a) ELSE row
    /\ UNCHANGED <<net, online, locals, history, bounds>>

-----------------------------------------------------------------------------
(* StartTunnelProxyServer: load, listen, load-or-store.                    *)

StartLoad(a) ==
    /\ Step(a, "load", IF server[port[a]] = None THEN "listen" ELSE AfterStart(a))
    /\ UNCHANGED <<db, net, online, locals, history, bounds>>

\* Listening fails on a port of this program's, and at any time on one that
\* another process holds.  The row stays active but for the handler that
\* inserted it: a renewal reports the failure and the restoration logs it.
Listen(a) ==
    /\ pc[a] = "listen"
    /\ \/ /\ bound[port[a]] = None
          /\ Goto(a, "store")
          /\ bound' = [bound EXCEPT ![port[a]] = a]
          /\ UNCHANGED refused
       \/ /\ Goto(a, "undo")
          /\ refused' = IF tunnel[a] = a THEN refused ELSE refused \cup {port[a]}
          /\ UNCHANGED bound
    /\ UNCHANGED <<db, server, online, locals, together, bounds>>

\* The loser of a race closes its own listener.
StartStore(a) ==
    LET p == port[a] IN
    /\ Step(a, "store", AfterStart(a))
    /\ IF server[p] = None
       THEN server' = [server EXCEPT ![p] = a] /\ UNCHANGED bound
       ELSE bound' = [bound EXCEPT ![p] = None] /\ UNCHANGED server
    /\ refused' = refused \ {p}
    /\ UNCHANGED <<db, online, locals, together, bounds>>

-----------------------------------------------------------------------------
(* StopTunnelProxyServer: load, close, delete.                             *)

AfterStop(a) == IF a = Cleaner THEN "next" ELSE "done"

StopFind(a) ==
    LET ln == server[port[a]] IN
    /\ Step(a, "find", IF ln = None THEN AfterStop(a) ELSE "close")
    /\ held' = [held EXCEPT ![a] = ln]
    /\ UNCHANGED <<db, net, online, tunnel, port, batch, history, bounds>>

StopClose(a) ==
    /\ Step(a, "close", "drop")
    /\ bound' = [bound EXCEPT ![port[a]] = IF @ = held[a] THEN None ELSE @]
    /\ UNCHANGED <<db, server, online, locals, history, bounds>>

\* Mutant: the closed listener stays in the table.
StopKeeps(a) ==
    /\ Step(a, "drop", AfterStop(a))
    /\ UNCHANGED <<db, net, online, locals, history, bounds>>

StopDrop(a) ==
    /\ Step(a, "drop", AfterStop(a))
    /\ server' = [server EXCEPT ![port[a]] = None]
    /\ UNCHANGED <<db, bound, online, locals, history, bounds>>

-----------------------------------------------------------------------------
(* handleTunnelDelete.                                                     *)

DeleteLookup(d) ==
    /\ Begins(d)
    /\ Goto(d, "revoke")
    /\ \E t \in Rows : /\ tunnel' = [tunnel EXCEPT ![d] = t]
                       /\ port' = [port EXCEPT ![d] = row[t].port]
    /\ UNCHANGED <<db, net, online, held, batch, history, restarts>>

Revoke(d) ==
    /\ Step(d, "revoke", "find")
    /\ row' = Revoked(tunnel[d])
    /\ UNCHANGED <<net, online, locals, history, bounds>>

-----------------------------------------------------------------------------
(* startTunnelCleanupScheduler: a round of CleanExpiredTunnels, which      *)
(* reads the expired rows and then marks those that still are, and stops   *)
(* the listeners of all the rows it has read.                              *)

Snapshot(rows) == {[tunnel |-> t, row |-> row[t]] : t \in rows}

CleanSelect ==
    LET expired == {t \in Rows : row[t].active /\ row[t].expired} IN
    /\ Begins(Cleaner)
    /\ Goto(Cleaner, "mark")
    /\ expired # {}
    /\ batch' = [batch EXCEPT ![Cleaner] = Snapshot(expired)]
    /\ UNCHANGED <<db, net, online, tunnel, port, held, history, restarts>>

\* Only rows that expired before the SELECT are older than its cut-off.
Marked == {s.tunnel : s \in batch[Cleaner]} \cap {t \in Rows : row[t].expired}

CleanMark ==
    /\ Step(Cleaner, "mark", "next")
    /\ row' = [t \in Creators |-> IF t \in Marked THEN Revoked(t)[t] ELSE row[t]]
    /\ UNCHANGED <<net, online, locals, history, bounds>>

CleanNext(s) ==
    /\ s \in batch[Cleaner]
    /\ Step(Cleaner, "next", "find")
    /\ port' = [port EXCEPT ![Cleaner] = s.row.port]
    /\ batch' = [batch EXCEPT ![Cleaner] = @ \ {s}]
    /\ UNCHANGED <<db, net, online, tunnel, held, history, bounds>>

CleanEnd ==
    /\ batch[Cleaner] = {}
    /\ Step(Cleaner, "next", "idle")
    /\ UNCHANGED <<db, net, online, locals, history, bounds>>

-----------------------------------------------------------------------------
(* restoreTunnelProxies, 5 s after a start: it decides on the rows as it   *)
(* has read them, on the clock, and on the devices that have reconnected.  *)

RestoreList ==
    /\ Begins(Restorer)
    /\ Goto(Restorer, "next")
    /\ batch' = [batch EXCEPT ![Restorer] = Snapshot({t \in Rows : row[t].active})]
    /\ UNCHANGED <<db, net, online, tunnel, port, held, history, restarts>>

RestoreNext(s) ==
    LET t == s.tunnel IN
    /\ s \in batch[Restorer]
    /\ pc[Restorer] = "next"
    /\ batch' = [batch EXCEPT ![Restorer] = @ \ {s}]
    /\ \/ /\ s.row.expired
          /\ row' = Revoked(t)
          /\ UNCHANGED <<pc, tunnel, port>>
       \/ /\ ~s.row.expired /\ s.row.target \notin online
          /\ row' = [row EXCEPT ![t] = None]
          /\ UNCHANGED <<pc, tunnel, port>>
       \/ /\ ~s.row.expired /\ s.row.target \in online
          /\ Goto(Restorer, "load")
          /\ tunnel' = [tunnel EXCEPT ![Restorer] = t]
          /\ port' = [port EXCEPT ![Restorer] = s.row.port]
          /\ UNCHANGED row
    /\ UNCHANGED <<net, online, held, history, bounds>>

RestoreEnd ==
    /\ batch[Restorer] = {}
    /\ Step(Restorer, "next", "done")
    /\ UNCHANGED <<db, net, online, locals, history, bounds>>

-----------------------------------------------------------------------------
(* The world: time, devices, and a crash, which leaves only the table.     *)

Expire(t) ==
    /\ Live(t)
    /\ row' = [row EXCEPT ![t].expired = TRUE]
    /\ batch' = DeadlinePassed(t)
    /\ UNCHANGED <<net, online, pc, tunnel, port, held, history, bounds>>

DeviceComes(x) ==
    /\ x \notin online
    /\ online' = online \cup {x}
    /\ UNCHANGED <<db, net, pc, locals, history, bounds>>

DeviceGoes(x) ==
    /\ x \in online
    /\ online' = online \ {x}
    /\ UNCHANGED <<db, net, pc, locals, history, bounds>>

Restart ==
    /\ restarts < MaxRestarts
    /\ restarts' = restarts + 1
    /\ server' = [p \in Ports |-> None]
    /\ bound' = [p \in Ports |-> None]
    /\ online' = {}
    /\ pc' = [a \in Actors |->
                 IF a \in {Cleaner, Restorer} \/ pc[a] = "idle" THEN "idle" ELSE "done"]
    /\ tunnel' = [a \in Actors |-> None]
    /\ port' = [a \in Actors |-> None]
    /\ held' = [a \in Actors |-> None]
    /\ batch' = [a \in {Cleaner, Restorer} |-> {}]
    /\ refused' = {}
    /\ UNCHANGED <<db, together, overlaps>>

-----------------------------------------------------------------------------
Create(a) == CreateLookup(a) \/ Renew(a) \/ Reread(a) \/ Allocate(a) \/ Evict(a)
             \/ Insert(a)
Start(a) == StartLoad(a) \/ Listen(a) \/ StartStore(a) \/ Undo(a)
Delete(d) == DeleteLookup(d) \/ Revoke(d)
Stop(a) == StopFind(a) \/ StopClose(a) \/ StopDrop(a)
Clean == CleanSelect \/ CleanMark \/ CleanEnd \/ \E s \in batch[Cleaner] : CleanNext(s)
Restore == RestoreList \/ RestoreEnd \/ \E s \in batch[Restorer] : RestoreNext(s)
World == \/ \E t \in Creators : Expire(t)
         \/ \E x \in Targets : DeviceComes(x) \/ DeviceGoes(x)
         \/ Restart

Next ==
    \/ \E a \in Creators : Create(a)
    \/ \E a \in Creators \cup {Restorer} : Start(a)
    \/ \E d \in Deleters : Delete(d)
    \/ \E a \in Deleters \cup {Cleaner} : Stop(a)
    \/ Clean
    \/ Restore
    \/ World

Spec == Init /\ [][Next]_vars

-----------------------------------------------------------------------------
(* Safety.                                                                 *)

\* Whatever runs at the same time, the table of listeners names a listener
\* that is closed only while the goroutine that closed it is about to take
\* it out: a stopped port is not remembered as served.
NoDeadListener ==
    \A p \in Ports :
        (server[p] # None /\ bound[p] # server[p])
            => \E a \in Actors : pc[a] = "drop" /\ port[a] = p

\* No operation in progress, and the restoration of the last start is over.
Settled == Quiet /\ pc[Restorer] = "done"

\* The operations so far came one after the other.
Serial == overlaps = 0

\* A live tunnel is reachable: its port is listened on, by the listener that
\* the table names, unless another process held the port when a renewal or
\* the restoration last tried it: these leave the row active.  Without Serial
\* it fails: a renewal that overlaps the cleanup of its tunnel takes the listener
\* that the cleanup then closes.
LiveTunnelServed ==
    Settled /\ Serial => \A t \in Creators : Live(t) /\ row[t].port \notin refused =>
        /\ server[row[t].port] # None
        /\ bound[row[t].port] = server[row[t].port]

\* A request for a target that has a row renews the row: a target has two
\* tunnels only if each was inserted after a look-up that could not yet see
\* the other.  Nothing in between, a failed listener, a cleanup, a restart or
\* a restoration, leads to a second one.
OneTunnelPerTarget ==
    \A t, u \in Rows : row[t].target = row[u].target => t = u \/ {t, u} \in together
=============================================================================
