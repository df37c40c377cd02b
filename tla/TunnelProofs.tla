---------------------------- MODULE TunnelProofs -----------------------------
(* Theorems about Tunnel, for any number of requests, targets and ports:   *)
(* type correctness, that no closed listener is remembered, that only      *)
(* overlapping look-ups lead to two tunnels of a target, and that, of      *)
(* operations that come one after the other, a live tunnel is served.      *)
EXTENDS Tunnel, TLAPS

(***************************************************************************)
(* Listeners.                                                              *)
(***************************************************************************)

\* A goroutine that is to work on a port knows which.
PortKnown == \A a \in Actors :
    pc[a] \in Starting \cup Stopping \cup {"evict", "insert", "revoke"} => port[a] \in Ports

TypeInv == TypeOK /\ PortKnown

\* public_port is UNIQUE, and the restorer has read it so.
UniquePorts ==
    /\ \A t, u \in Rows : row[t].port = row[u].port => t = u
    /\ \A s, r \in batch[Restorer] : s.row.port = r.row.port => s = r

\* No listener of a's on p has been made known.
Unserved(a, p) ==
    server[p] # a /\ \A c \in Actors : pc[c] = "close" /\ port[c] = p => held[c] # a

\* A goroutine listens on a port once: a handler has one to listen on, and the
\* restorer one at a time, each another one.
ListensOnce ==
    /\ \A a \in Creators : pc[a] \notin {"undo", "done"} => \A p \in Ports : Unserved(a, p)
    /\ pc[Restorer] = "idle" => \A p \in Ports : Unserved(Restorer, p)
    /\ pc[Restorer] \in {"load", "listen", "store"} => Unserved(Restorer, port[Restorer])
    /\ \A s \in batch[Restorer] :
         /\ Unserved(Restorer, s.row.port)
         /\ pc[Restorer] \in Starting => s.row.port # port[Restorer]

\* The listener that a goroutine is about to make known has its port.
StoresOwn == \A a \in Actors : pc[a] = "store" => bound[port[a]] = a

ListenerInv == TypeInv /\ UniquePorts /\ ListensOnce /\ StoresOwn /\ NoDeadListener

-----------------------------------------------------------------------------
(* Types.                                                                  *)

CreatorAt == Starting \cup {"idle", "renew", "reread", "allocate", "evict", "insert", "done"}
DeleterAt == Stopping \cup {"idle", "revoke", "done"}
CleanerAt == Stopping \cup {"idle", "mark", "next"}
RestorerAt == Starting \cup {"idle", "next", "done"}

\* Where a goroutine may go.
May(a, l) ==
    /\ a \in Creators => l \in CreatorAt
    /\ a \in Deleters => l \in DeleterAt
    /\ a = Cleaner => l \in CleanerAt
    /\ a = Restorer => l \in RestorerAt

LEMMA PcType ==
    TypeOK => /\ DOMAIN pc = Actors
              /\ \A a \in Actors : May(a, pc[a])
  BY DEF TypeOK, May, CreatorAt, DeleterAt, CleanerAt, RestorerAt

LEMMA GotoEffect ==
    ASSUME TypeOK, NEW a \in Actors, NEW l, Goto(a, l)
    PROVE  pc'[a] = l /\ DOMAIN pc' = Actors /\ \A b \in Actors \ {a} : pc'[b] = pc[b]
  BY DEF TypeOK, Goto

\* A step of one goroutine.
LEMMA MayGoto ==
    ASSUME TypeOK, NEW a \in Actors, NEW l, Goto(a, l), May(a, l)
    PROVE  DOMAIN pc' = Actors /\ \A b \in Actors : May(b, pc'[b])
  <1>1. pc'[a] = l /\ DOMAIN pc' = Actors /\ \A b \in Actors \ {a} : pc'[b] = pc[b]
    BY GotoEffect
  <1>2. \A b \in Actors : May(b, pc[b])
    BY PcType
  <1> QED
    BY <1>1, <1>2

\* Types from their parts.
LEMMA TypeParts ==
    TypeOK => /\ row \in [Creators -> Row \cup {None}]
              /\ server \in [Ports -> Actors \cup {None}]
              /\ bound \in [Ports -> Actors \cup {None}]
              /\ online \subseteq Targets
              /\ DOMAIN pc = Actors /\ \A a \in Actors : May(a, pc[a])
              /\ tunnel \in [Actors -> Creators \cup {None}]
              /\ port \in [Actors -> Ports \cup {None}]
              /\ held \in [Actors -> Actors \cup {None}]
              /\ batch \in [{Cleaner, Restorer} -> SUBSET [tunnel : Creators, row : Row]]
              /\ refused \subseteq Ports
              /\ together \subseteq SUBSET Creators
              /\ restarts \in 0..MaxRestarts
              /\ overlaps \in 0..MaxOverlaps
  BY PcType DEF TypeOK

LEMMA TypeFromParts ==
    ASSUME /\ row' \in [Creators -> Row \cup {None}]
           /\ server' \in [Ports -> Actors \cup {None}]
           /\ bound' \in [Ports -> Actors \cup {None}]
           /\ online' \subseteq Targets
           /\ DOMAIN pc' = Actors /\ \A a \in Actors : May(a, pc'[a])
           /\ tunnel' \in [Actors -> Creators \cup {None}]
           /\ port' \in [Actors -> Ports \cup {None}]
           /\ held' \in [Actors -> Actors \cup {None}]
           /\ batch' \in [{Cleaner, Restorer} -> SUBSET [tunnel : Creators, row : Row]]
           /\ refused' \subseteq Ports
           /\ together' \subseteq SUBSET Creators
           /\ restarts' \in 0..MaxRestarts
           /\ overlaps' \in 0..MaxOverlaps
    PROVE  TypeOK'
  BY DEF TypeOK, Actors, May, CreatorAt, DeleterAt, CleanerAt, RestorerAt

LEMMA TypeInit == Init => TypeInv
  <1> SUFFICES ASSUME Init PROVE TypeOK /\ PortKnown
    BY DEF TypeInv
  <1>1. \A a \in Actors : May(a, pc[a])
    BY DEF Init, May, CreatorAt, DeleterAt, CleanerAt, RestorerAt
  <1>2. restarts \in 0..MaxRestarts /\ overlaps \in 0..MaxOverlaps
    BY TunnelAssumption DEF Init
  <1>3. TypeOK
    BY <1>1, <1>2 DEF Init, TypeOK, Actors, May, CreatorAt, DeleterAt, CleanerAt, RestorerAt
  <1>4. PortKnown
    BY DEF Init, PortKnown, Starting, Stopping
  <1> QED
    BY <1>3, <1>4

\* The rows of a snapshot, and what a passing deadline does to them.
LEMMA SnapshotRows ==
    ASSUME TypeOK, NEW S \in SUBSET Rows
    PROVE  /\ Snapshot(S) \subseteq [tunnel : Creators, row : Row]
           /\ \A s \in Snapshot(S) : s.tunnel \in S /\ s.row = row[s.tunnel]
           /\ \A t \in S : \E s \in Snapshot(S) : s.tunnel = t
  <1>1. \A t \in S : t \in Creators /\ row[t] \in Row
    BY DEF Rows, TypeOK
  <1>2. Snapshot(S) \subseteq [tunnel : Creators, row : Row]
    BY <1>1 DEF Snapshot
  <1>3. \A s \in Snapshot(S) : s.tunnel \in S /\ s.row = row[s.tunnel]
    BY DEF Snapshot
  <1>4. ASSUME NEW t \in S PROVE \E s \in Snapshot(S) : s.tunnel = t
    <2>1. [tunnel |-> t, row |-> row[t]] \in Snapshot(S)
      BY DEF Snapshot
    <2> QED
      BY <2>1
  <1> QED
    BY <1>2, <1>3, <1>4

LEMMA Deadlines ==
    ASSUME TypeOK, NEW t
    PROVE  /\ DeadlinePassed(t) \in [{Cleaner, Restorer} -> SUBSET [tunnel : Creators, row : Row]]
           /\ DeadlinePassed(t)[Cleaner] = batch[Cleaner]
           /\ \A r, q \in DeadlinePassed(t)[Restorer] :
                UniquePorts /\ r.row.port = q.row.port => r = q
           /\ \A s \in batch[Restorer] : \E r \in DeadlinePassed(t)[Restorer] :
                r.tunnel = s.tunnel /\ r.row.port = s.row.port
           /\ \A r \in DeadlinePassed(t)[Restorer] : \E s \in batch[Restorer] :
                r.tunnel = s.tunnel /\ r.row.port = s.row.port
  <1> DEFINE late(s) == [s EXCEPT !.row.expired = @ \/ s.tunnel = t]
  <1>1. batch \in [{Cleaner, Restorer} -> SUBSET [tunnel : Creators, row : Row]]
    BY DEF TypeOK
  <1>2. ASSUME NEW s \in [tunnel : Creators, row : Row]
        PROVE  /\ late(s) \in [tunnel : Creators, row : Row]
               /\ late(s).tunnel = s.tunnel /\ late(s).row.port = s.row.port
    BY <1>2 DEF Row
  <1>3. /\ DeadlinePassed(t)[Restorer] = {late(s) : s \in batch[Restorer]}
        /\ DeadlinePassed(t)[Cleaner] = batch[Cleaner]
        /\ DOMAIN DeadlinePassed(t) = {Cleaner, Restorer}
        /\ DeadlinePassed(t) = [batch EXCEPT ![Restorer] = {late(s) : s \in batch[Restorer]}]
    BY <1>1, TunnelAssumption DEF DeadlinePassed
  <1> HIDE DEF late
  <1>4. {late(s) : s \in batch[Restorer]} \in SUBSET [tunnel : Creators, row : Row]
    BY <1>1, <1>2
  <1>5. DeadlinePassed(t) \in [{Cleaner, Restorer} -> SUBSET [tunnel : Creators, row : Row]]
    BY <1>1, <1>3, <1>4
  <1>6. \A s \in batch[Restorer] : \E r \in DeadlinePassed(t)[Restorer] :
                r.tunnel = s.tunnel /\ r.row.port = s.row.port
    BY <1>1, <1>2, <1>3
  <1>7. \A r \in DeadlinePassed(t)[Restorer] : \E s \in batch[Restorer] :
                r.tunnel = s.tunnel /\ r.row.port = s.row.port
    BY <1>1, <1>2, <1>3
  <1>8. ASSUME NEW r \in DeadlinePassed(t)[Restorer], NEW q \in DeadlinePassed(t)[Restorer],
               UniquePorts, r.row.port = q.row.port
        PROVE  r = q
    <2>1. PICK s \in batch[Restorer] : r = late(s) /\ s.row.port = r.row.port
      BY <1>1, <1>2, <1>3
    <2>2. PICK z \in batch[Restorer] : q = late(z) /\ z.row.port = q.row.port
      BY <1>1, <1>2, <1>3
    <2> QED
      BY <1>8, <2>1, <2>2 DEF UniquePorts
  <1> QED
    BY <1>3, <1>5, <1>6, <1>7, <1>8

\* A port that a goroutine goes on to is one.
LEMMA PortGoto ==
    ASSUME TypeInv, NEW a \in Actors, NEW l, Goto(a, l),
           \A b \in Actors \ {a} : port'[b] = port[b],
           l \in Starting \cup Stopping \cup {"evict", "insert", "revoke"} => port'[a] \in Ports
    PROVE  PortKnown'
  <1>1. pc'[a] = l /\ \A b \in Actors \ {a} : pc'[b] = pc[b]
    BY GotoEffect DEF TypeInv
  <1> QED
    BY <1>1 DEF TypeInv, PortKnown

LEMMA TypeCreate ==
    ASSUME TypeInv, NEW a \in Creators, Create(a)
    PROVE  TypeInv'
  <1> USE DEF db, net, bounds, locals, history
  <1>1. a \in Actors /\ a \notin Deleters /\ a # Cleaner /\ a # Restorer
    BY TunnelAssumption DEF Actors
  <1>2. \A l \in CreatorAt : May(a, l)
    BY <1>1 DEF May
  <1>3. TypeOK /\ (pc[a] \in {"evict", "insert"} => port[a] \in Ports)
    BY <1>1 DEF TypeInv, PortKnown
  <1>4. CASE CreateLookup(a)
    <2>1. PICK l \in {"allocate", "renew"} : Goto(a, l)
      BY <1>4 DEF CreateLookup
    <2>2. DOMAIN pc' = Actors /\ \A b \in Actors : May(b, pc'[b])
      BY <1>1, <1>2, <1>3, <2>1, MayGoto DEF CreatorAt, Starting
    <2>3. PortKnown'
      BY <1>1, <1>4, <2>1, PortGoto DEF CreateLookup, Starting, Stopping
    <2>4. overlaps' \in 0..MaxOverlaps
      BY <1>3, <1>4, TunnelAssumption DEF CreateLookup, Begins, TypeOK
    <2>5. tunnel' \in [Actors -> Creators \cup {None}]
      BY <1>3, <1>4 DEF CreateLookup, SameTarget, Rows, TypeOK
    <2> QED
      BY <1>3, <1>4, <2>2, <2>3, <2>4, <2>5, TypeParts, TypeFromParts DEF CreateLookup, TypeInv
  <1>5. CASE Renew(a)
    <2>1. Goto(a, "reread")
      BY <1>5 DEF Renew, Step
    <2>2. DOMAIN pc' = Actors /\ \A b \in Actors : May(b, pc'[b])
      BY <1>1, <1>2, <1>3, <2>1, MayGoto DEF CreatorAt
    <2>3. PortKnown'
      BY <1>1, <1>5, <2>1, PortGoto DEF Renew, Starting, Stopping
    <2>4. batch' \in [{Cleaner, Restorer} -> SUBSET [tunnel : Creators, row : Row]]
      BY <1>3, <1>5, Deadlines DEF Renew, TypeOK
    <2>5. \A r \in Row : [r EXCEPT !.active = TRUE, !.expired = FALSE] \in Row
      BY DEF Row
    <2>6. row' \in [Creators -> Row \cup {None}]
      BY <1>3, <1>5, <2>5 DEF Renew, TypeOK
    <2> QED
      BY <1>3, <1>5, <2>2, <2>3, <2>4, <2>6, TypeParts, TypeFromParts DEF Renew, TypeInv
  <1>6. CASE Reread(a)
    <2>1. PICK l \in {"load", "done"} : Goto(a, l) /\ (l = "load" => tunnel[a] \in Rows /\ port' = [port EXCEPT ![a] = row[tunnel[a]].port])
      BY <1>6 DEF Reread
    <2>2. DOMAIN pc' = Actors /\ \A b \in Actors : May(b, pc'[b])
      BY <1>1, <1>2, <1>3, <2>1, MayGoto DEF CreatorAt, Starting
    <2>3. tunnel[a] \in Rows => row[tunnel[a]].port \in Ports
      BY <1>3 DEF Rows, Row, TypeOK
    <2>4. port' \in [Actors -> Ports \cup {None}]
      BY <1>3, <1>6, <2>3 DEF Reread, TypeOK
    <2>5. \A b \in Actors \ {a} : port'[b] = port[b]
      BY <1>3, <1>6 DEF Reread, TypeOK
    <2>6. l = "load" => port'[a] \in Ports
      BY <1>1, <1>3, <2>1, <2>3 DEF TypeOK
    <2>7. PortKnown'
      BY <1>1, <2>1, <2>5, <2>6, PortGoto DEF Starting, Stopping
    <2> QED
      BY <1>3, <1>6, <2>2, <2>4, <2>7, TypeParts, TypeFromParts DEF Reread, TypeInv
  <1>7. CASE Allocate(a)
    <2>1. PICK l \in {"evict", "done"} :
            /\ Goto(a, l)
            /\ \/ l = "evict" /\ \E p \in Ports : port' = [port EXCEPT ![a] = p]
               \/ l = "done" /\ port' = port
      BY <1>7 DEF Allocate
    <2>2. DOMAIN pc' = Actors /\ \A b \in Actors : May(b, pc'[b])
      BY <1>1, <1>2, <1>3, <2>1, MayGoto DEF CreatorAt
    <2>3. /\ port' \in [Actors -> Ports \cup {None}]
          /\ \A b \in Actors \ {a} : port'[b] = port[b]
          /\ l = "evict" => port'[a] \in Ports
      BY <1>1, <1>3, <2>1, TypeParts
    <2>4. PortKnown'
      BY <1>1, <2>1, <2>3, PortGoto DEF Starting, Stopping
    <2> QED
      BY <1>3, <1>7, <2>2, <2>3, <2>4, TypeParts, TypeFromParts DEF Allocate, TypeInv
  <1>8. CASE Evict(a)
    <2>1. Goto(a, "insert") /\ port[a] \in Ports
      BY <1>3, <1>8 DEF Evict, Step
    <2>2. DOMAIN pc' = Actors /\ \A b \in Actors : May(b, pc'[b])
      BY <1>1, <1>2, <1>3, <2>1, MayGoto DEF CreatorAt
    <2>3. PortKnown'
      BY <1>1, <1>8, <2>1, PortGoto DEF Evict
    <2>4. row' \in [Creators -> Row \cup {None}]
      BY <1>3, <1>8 DEF Evict, TypeOK
    <2> QED
      BY <1>3, <1>8, <2>2, <2>3, <2>4, TypeParts, TypeFromParts DEF Evict, TypeInv
  <1>9. CASE Insert(a)
    <2>1. PICK l \in {"load", "done"} : Goto(a, l)
      BY <1>9 DEF Insert
    <2>2. DOMAIN pc' = Actors /\ \A b \in Actors : May(b, pc'[b])
      BY <1>1, <1>2, <1>3, <2>1, MayGoto DEF CreatorAt, Starting
    <2>3. port[a] \in Ports /\ port' = port
      BY <1>3, <1>9 DEF Insert
    <2>4. PortKnown'
      BY <1>1, <2>1, <2>3, PortGoto
    <2>5. [target |-> Want[a], port |-> port[a], active |-> TRUE, expired |-> FALSE] \in Row
      BY <2>3, TunnelAssumption DEF Row
    <2>6. row' \in [Creators -> Row \cup {None}] /\ tunnel' \in [Actors -> Creators \cup {None}]
      <3>1. CASE row' = [row EXCEPT ![a] = [target |-> Want[a], port |-> port[a], active |-> TRUE, expired |-> FALSE]]
                 /\ tunnel' = [tunnel EXCEPT ![a] = a]
        BY <1>3, <2>5, <3>1, TypeParts
      <3>2. CASE UNCHANGED <<row, tunnel>>
        BY <1>3, <3>2, TypeParts
      <3> QED
        BY <1>9, <3>1, <3>2 DEF Insert
    <2>7. together' \subseteq SUBSET Creators
      BY <1>3, <1>9, TypeParts DEF Insert, Overlapping
    <2>8. refused' \subseteq Ports
      BY <1>3, <1>9, TypeParts DEF Insert
    <2> QED
      BY <1>3, <1>9, <2>2, <2>4, <2>6, <2>7, <2>8, TypeParts, TypeFromParts DEF Insert, TypeInv
  <1> QED
    BY <1>4, <1>5, <1>6, <1>7, <1>8, <1>9 DEF Create

\* A step of one goroutine that leaves its locals alone keeps its types.
LEMMA TypeGoto ==
    ASSUME TypeInv, NEW a \in Actors, NEW l, Goto(a, l), May(a, l),
           l \in Starting \cup Stopping \cup {"evict", "insert", "revoke"} => port[a] \in Ports,
           row' \in [Creators -> Row \cup {None}],
           server' \in [Ports -> Actors \cup {None}],
           bound' \in [Ports -> Actors \cup {None}],
           refused' \subseteq Ports, together' \subseteq SUBSET Creators,
           UNCHANGED <<online, locals, bounds>>
    PROVE  TypeInv'
  <1> USE DEF locals, bounds
  <1>1. DOMAIN pc' = Actors /\ \A b \in Actors : May(b, pc'[b])
    BY MayGoto DEF TypeInv
  <1>2. PortKnown'
    BY PortGoto
  <1> QED
    BY <1>1, <1>2, TypeParts, TypeFromParts DEF TypeInv

LEMMA RevokedType ==
    ASSUME TypeOK, NEW t
    PROVE  Revoked(t) \in [Creators -> Row \cup {None}]
  <1>1. \A r \in Row : [r EXCEPT !.active = FALSE] \in Row
    BY DEF Row
  <1> QED
    BY <1>1 DEF Revoked, TypeOK

LEMMA TypeStart ==
    ASSUME TypeInv, NEW a \in Creators \cup {Restorer}, Start(a)
    PROVE  TypeInv'
  <1> USE DEF db, net, history
  <1>1. a \in Actors /\ a \notin Deleters /\ a # Cleaner
    BY TunnelAssumption DEF Actors
  <1>2. \A l \in Starting : May(a, l)
    BY <1>1 DEF May, CreatorAt, RestorerAt
  <1>3. May(a, AfterStart(a))
    BY <1>1, TunnelAssumption DEF May, CreatorAt, RestorerAt, AfterStart
  <1>4. TypeOK /\ (pc[a] \in Starting => port[a] \in Ports)
    BY <1>1 DEF TypeInv, PortKnown
  <1>5. AfterStart(a) \notin Starting \cup Stopping \cup {"evict", "insert", "revoke"}
    BY DEF AfterStart, Starting, Stopping
  <1>6. CASE StartLoad(a)
    <2>1. PICK l \in {"listen", AfterStart(a)} : Goto(a, l)
      BY <1>6 DEF StartLoad, Step
    <2>2. May(a, l)
      BY <1>2, <1>3, <2>1 DEF Starting
    <2>3. pc[a] \in Starting
      BY <1>6 DEF StartLoad, Step, Starting
    <2> QED
      BY <1>1, <1>4, <1>6, <2>1, <2>2, <2>3, TypeParts, TypeGoto DEF StartLoad
  <1>7. CASE Listen(a)
    <2>1. PICK l \in {"store", "undo"} : Goto(a, l)
      BY <1>7 DEF Listen
    <2>2. May(a, l) /\ pc[a] \in Starting
      BY <1>2, <1>7, <2>1 DEF Starting, Listen
    <2>3. bound' \in [Ports -> Actors \cup {None}] /\ refused' \subseteq Ports
      BY <1>1, <1>4, <1>7, <2>2, TypeParts DEF Listen
    <2> QED
      BY <1>1, <1>4, <1>7, <2>1, <2>2, <2>3, TypeParts, TypeGoto DEF Listen
  <1>8. CASE StartStore(a)
    <2>1. Goto(a, AfterStart(a)) /\ pc[a] \in Starting
      BY <1>8 DEF StartStore, Step, Starting
    <2>2. /\ server' \in [Ports -> Actors \cup {None}]
          /\ bound' \in [Ports -> Actors \cup {None}]
      BY <1>1, <1>4, <1>8, TypeParts DEF StartStore
    <2> QED
      BY <1>1, <1>3, <1>4, <1>8, <2>1, <2>2, TypeParts, TypeGoto DEF StartStore
  <1>9. CASE Undo(a)
    <2>1. Goto(a, AfterStart(a)) /\ pc[a] \in Starting
      BY <1>9 DEF Undo, Step, Starting
    <2>2. row' \in [Creators -> Row \cup {None}]
      BY <1>4, <1>9, RevokedType, TypeParts DEF Undo
    <2> QED
      BY <1>1, <1>3, <1>4, <1>9, <2>1, <2>2, TypeParts, TypeGoto DEF Undo
  <1> QED
    BY <1>6, <1>7, <1>8, <1>9 DEF Start

LEMMA TypeStop ==
    ASSUME TypeInv, NEW a \in Deleters \cup {Cleaner}, Stop(a)
    PROVE  TypeInv'
  <1> USE DEF db, net, history
  <1>1. a \in Actors /\ a \notin Creators /\ a # Restorer
    BY TunnelAssumption DEF Actors
  <1>2. \A l \in Stopping : May(a, l)
    BY <1>1 DEF May, DeleterAt, CleanerAt
  <1>3. May(a, AfterStop(a))
    BY <1>1, TunnelAssumption DEF May, DeleterAt, CleanerAt, AfterStop
  <1>4. TypeOK /\ (pc[a] \in Stopping => port[a] \in Ports)
    BY <1>1 DEF TypeInv, PortKnown
  <1>5. AfterStop(a) \notin Starting \cup Stopping \cup {"evict", "insert", "revoke"}
    BY DEF AfterStop, Starting, Stopping
  <1>6. CASE StopFind(a)
    <2>1. PICK l \in {"close", AfterStop(a)} : Goto(a, l)
      BY <1>6 DEF StopFind, Step
    <2>2. May(a, l)
      BY <1>2, <1>3, <2>1 DEF Stopping
    <2>3. pc[a] \in Stopping
      BY <1>6 DEF StopFind, Step, Stopping
    <2>4. DOMAIN pc' = Actors /\ \A b \in Actors : May(b, pc'[b])
      BY <1>1, <1>4, <2>1, <2>2, MayGoto
    <2>5. PortKnown'
      BY <1>1, <1>4, <1>6, <2>1, <2>3, PortGoto DEF StopFind
    <2>6. held' \in [Actors -> Actors \cup {None}]
      BY <1>1, <1>4, <1>6, <2>3, TypeParts DEF StopFind
    <2> QED
      BY <1>4, <1>6, <2>4, <2>5, <2>6, TypeParts, TypeFromParts DEF StopFind, bounds, TypeInv
  <1>7. CASE StopClose(a)
    <2>1. Goto(a, "drop") /\ pc[a] \in Stopping /\ May(a, "drop")
      BY <1>2, <1>7 DEF StopClose, Step, Stopping
    <2>2. bound' \in [Ports -> Actors \cup {None}]
      BY <1>4, <1>7, TypeParts DEF StopClose
    <2> QED
      BY <1>1, <1>4, <1>7, <2>1, <2>2, TypeParts, TypeGoto DEF StopClose
  <1>8. CASE StopDrop(a)
    <2>1. Goto(a, AfterStop(a))
      BY <1>8 DEF StopDrop, Step
    <2>2. server' \in [Ports -> Actors \cup {None}]
      BY <1>4, <1>8, TypeParts DEF StopDrop
    <2> QED
      BY <1>1, <1>3, <1>4, <1>5, <1>8, <2>1, <2>2, TypeParts, TypeGoto DEF StopDrop
  <1> QED
    BY <1>6, <1>7, <1>8 DEF Stop

LEMMA TypeDelete ==
    ASSUME TypeInv, NEW d \in Deleters, Delete(d)
    PROVE  TypeInv'
  <1> USE DEF db, net, history
  <1>1. d \in Actors /\ d \notin Creators /\ d # Restorer /\ d # Cleaner
    BY TunnelAssumption DEF Actors
  <1>2. May(d, "revoke") /\ May(d, "find")
    BY <1>1 DEF May, DeleterAt, Stopping
  <1>3. TypeOK /\ (pc[d] = "revoke" => port[d] \in Ports)
    BY <1>1 DEF TypeInv, PortKnown
  <1>4. CASE DeleteLookup(d)
    <2>1. PICK t \in Rows : /\ tunnel' = [tunnel EXCEPT ![d] = t]
                            /\ port' = [port EXCEPT ![d] = row[t].port]
      BY <1>4 DEF DeleteLookup
    <2>2. t \in Creators /\ row[t].port \in Ports
      BY <1>3 DEF Rows, Row, TypeOK
    <2>3. /\ tunnel' \in [Actors -> Creators \cup {None}]
          /\ port' \in [Actors -> Ports \cup {None}]
          /\ port'[d] \in Ports /\ \A b \in Actors \ {d} : port'[b] = port[b]
      BY <1>1, <1>3, <2>1, <2>2, TypeParts
    <2>4. Goto(d, "revoke")
      BY <1>4 DEF DeleteLookup
    <2>5. DOMAIN pc' = Actors /\ \A b \in Actors : May(b, pc'[b])
      BY <1>1, <1>2, <1>3, <2>4, MayGoto
    <2>6. PortKnown'
      BY <1>1, <2>3, <2>4, PortGoto
    <2>7. overlaps' \in 0..MaxOverlaps
      BY <1>3, <1>4, TunnelAssumption DEF DeleteLookup, Begins, TypeOK
    <2> QED
      BY <1>3, <1>4, <2>3, <2>5, <2>6, <2>7, TypeParts, TypeFromParts DEF DeleteLookup, TypeInv
  <1>5. CASE Revoke(d)
    <2>1. Goto(d, "find") /\ port[d] \in Ports
      BY <1>3, <1>5 DEF Revoke, Step
    <2> QED
      BY <1>1, <1>2, <1>3, <1>5, <2>1, RevokedType, TypeParts, TypeGoto DEF Revoke
  <1> QED
    BY <1>4, <1>5 DEF Delete

LEMMA TypeClean ==
    ASSUME TypeInv, Clean
    PROVE  TypeInv'
  <1> USE DEF db, net, history
  <1>1. Cleaner \in Actors /\ Cleaner \notin Creators \cup Deleters /\ Cleaner # Restorer
    BY TunnelAssumption DEF Actors
  <1>2. \A l \in CleanerAt : May(Cleaner, l)
    BY <1>1 DEF May
  <1>3. TypeOK
    BY DEF TypeInv
  <1>4. CASE CleanSelect
    <2> DEFINE expired == {t \in Rows : row[t].active /\ row[t].expired}
    <2>1. Goto(Cleaner, "mark") /\ batch' = [batch EXCEPT ![Cleaner] = Snapshot(expired)]
      BY <1>4 DEF CleanSelect
    <2>2. Snapshot(expired) \subseteq [tunnel : Creators, row : Row]
      BY <1>3, SnapshotRows
    <2> HIDE DEF expired
    <2>3. batch' \in [{Cleaner, Restorer} -> SUBSET [tunnel : Creators, row : Row]]
      BY <1>3, <2>1, <2>2, TypeParts
    <2>4. DOMAIN pc' = Actors /\ \A b \in Actors : May(b, pc'[b])
      BY <1>1, <1>2, <1>3, <2>1, MayGoto DEF CleanerAt
    <2>5. PortKnown'
      BY <1>1, <1>4, <2>1, PortGoto DEF CleanSelect, Starting, Stopping
    <2>6. overlaps' \in 0..MaxOverlaps
      BY <1>3, <1>4, TunnelAssumption DEF CleanSelect, Begins, TypeOK
    <2> QED
      BY <1>3, <1>4, <2>3, <2>4, <2>5, <2>6, TypeParts, TypeFromParts DEF CleanSelect, TypeInv
  <1>5. CASE CleanMark
    <2>1. Goto(Cleaner, "next") /\ May(Cleaner, "next")
      BY <1>2, <1>5 DEF CleanMark, Step, CleanerAt
    <2>2. row' \in [Creators -> Row \cup {None}]
      BY <1>3, <1>5, RevokedType, TypeParts DEF CleanMark
    <2> QED
      BY <1>1, <1>3, <1>5, <2>1, <2>2, TypeParts, TypeGoto DEF CleanMark, Starting, Stopping
  <1>6. ASSUME NEW s \in batch[Cleaner], CleanNext(s) PROVE TypeInv'
    <2>1. s.row.port \in Ports /\ Goto(Cleaner, "find")
      BY <1>3, <1>6, TypeParts DEF CleanNext, Step, Row
    <2>2. /\ port' \in [Actors -> Ports \cup {None}]
          /\ port'[Cleaner] \in Ports /\ \A b \in Actors \ {Cleaner} : port'[b] = port[b]
      BY <1>1, <1>3, <1>6, <2>1, TypeParts DEF CleanNext
    <2>3. batch' \in [{Cleaner, Restorer} -> SUBSET [tunnel : Creators, row : Row]]
      BY <1>3, <1>6, TypeParts DEF CleanNext
    <2>4. DOMAIN pc' = Actors /\ \A b \in Actors : May(b, pc'[b])
      BY <1>1, <1>2, <1>3, <2>1, MayGoto DEF CleanerAt, Stopping
    <2>5. PortKnown'
      BY <1>1, <2>1, <2>2, PortGoto
    <2> QED
      BY <1>3, <1>6, <2>2, <2>3, <2>4, <2>5, TypeParts, TypeFromParts DEF CleanNext, TypeInv, bounds
  <1>7. CASE CleanEnd
    <2>1. Goto(Cleaner, "idle") /\ May(Cleaner, "idle")
      BY <1>2, <1>7 DEF CleanEnd, Step, CleanerAt
    <2> QED
      BY <1>1, <1>3, <1>7, <2>1, TypeParts, TypeGoto DEF CleanEnd, Starting, Stopping
  <1> QED
    BY <1>4, <1>5, <1>6, <1>7 DEF Clean

LEMMA TypeRestore ==
    ASSUME TypeInv, Restore
    PROVE  TypeInv'
  <1> USE DEF db, net, history
  <1>1. Restorer \in Actors /\ Restorer \notin Creators \cup Deleters /\ Cleaner # Restorer
    BY TunnelAssumption DEF Actors
  <1>2. \A l \in RestorerAt : May(Restorer, l)
    BY <1>1 DEF May
  <1>3. TypeOK
    BY DEF TypeInv
  <1>4. CASE RestoreList
    <2> DEFINE act == {t \in Rows : row[t].active}
    <2>1. Goto(Restorer, "next") /\ batch' = [batch EXCEPT ![Restorer] = Snapshot(act)]
      BY <1>4 DEF RestoreList
    <2>2. Snapshot(act) \subseteq [tunnel : Creators, row : Row]
      BY <1>3, SnapshotRows
    <2> HIDE DEF act
    <2>3. batch' \in [{Cleaner, Restorer} -> SUBSET [tunnel : Creators, row : Row]]
      BY <1>3, <2>1, <2>2, TypeParts
    <2>4. DOMAIN pc' = Actors /\ \A b \in Actors : May(b, pc'[b])
      BY <1>1, <1>2, <1>3, <2>1, MayGoto DEF RestorerAt
    <2>5. PortKnown'
      BY <1>1, <1>4, <2>1, PortGoto DEF RestoreList, Starting, Stopping
    <2>6. overlaps' \in 0..MaxOverlaps
      BY <1>3, <1>4, TunnelAssumption DEF RestoreList, Begins, TypeOK
    <2> QED
      BY <1>3, <1>4, <2>3, <2>4, <2>5, <2>6, TypeParts, TypeFromParts DEF RestoreList, TypeInv
  <1>5. ASSUME NEW s \in batch[Restorer], RestoreNext(s) PROVE TypeInv'
    <2>1. s.row.port \in Ports /\ s.tunnel \in Creators
      BY <1>3, <1>5, TypeParts DEF Row
    <2>2. batch' \in [{Cleaner, Restorer} -> SUBSET [tunnel : Creators, row : Row]]
      BY <1>3, <1>5, TypeParts DEF RestoreNext
    <2>3. row' \in [Creators -> Row \cup {None}]
      BY <1>3, <1>5, RevokedType, TypeParts DEF RestoreNext
    <2>4. CASE UNCHANGED <<pc, tunnel, port>>
      <3>1. PortKnown'
        BY <2>4 DEF PortKnown, TypeInv
      <3> QED
        BY <1>3, <1>5, <2>2, <2>3, <2>4, <3>1, TypeParts, TypeFromParts DEF RestoreNext, TypeInv, bounds
    <2>5. CASE /\ Goto(Restorer, "load")
               /\ tunnel' = [tunnel EXCEPT ![Restorer] = s.tunnel]
               /\ port' = [port EXCEPT ![Restorer] = s.row.port]
      <3>1. /\ tunnel' \in [Actors -> Creators \cup {None}]
            /\ port' \in [Actors -> Ports \cup {None}]
            /\ port'[Restorer] \in Ports /\ \A b \in Actors \ {Restorer} : port'[b] = port[b]
        BY <1>1, <1>3, <2>1, <2>5, TypeParts
      <3>2. DOMAIN pc' = Actors /\ \A b \in Actors : May(b, pc'[b])
        BY <1>1, <1>2, <1>3, <2>5, MayGoto DEF RestorerAt, Starting
      <3>3. PortKnown'
        BY <1>1, <2>5, <3>1, PortGoto
      <3> QED
        BY <1>3, <1>5, <2>2, <2>3, <3>1, <3>2, <3>3, TypeParts, TypeFromParts DEF RestoreNext, TypeInv, bounds
    <2> QED
      BY <1>5, <2>4, <2>5 DEF RestoreNext
  <1>6. CASE RestoreEnd
    <2>1. Goto(Restorer, "done") /\ May(Restorer, "done")
      BY <1>2, <1>6 DEF RestoreEnd, Step, RestorerAt
    <2> QED
      BY <1>1, <1>3, <1>6, <2>1, TypeParts, TypeGoto DEF RestoreEnd, Starting, Stopping
  <1> QED
    BY <1>4, <1>5, <1>6 DEF Restore

LEMMA TypeWorld ==
    ASSUME TypeInv, World
    PROVE  TypeInv'
  <1> USE DEF db, net, locals, bounds, history
  <1>1. TypeOK
    BY DEF TypeInv
  <1>2. ASSUME NEW t \in Creators, Expire(t) PROVE TypeInv'
    <2>1. \A r \in Row : [r EXCEPT !.expired = TRUE] \in Row
      BY DEF Row
    <2>2. row[t] \in Row
      BY <1>1, <1>2, TypeParts DEF Expire, Live, Active, Rows
    <2>3. row' \in [Creators -> Row \cup {None}]
      BY <1>1, <1>2, <2>1, <2>2, TypeParts DEF Expire
    <2>4. batch' \in [{Cleaner, Restorer} -> SUBSET [tunnel : Creators, row : Row]]
      BY <1>1, <1>2, Deadlines DEF Expire
    <2>5. PortKnown'
      BY <1>2 DEF Expire, PortKnown, TypeInv
    <2> QED
      BY <1>1, <1>2, <2>3, <2>4, <2>5, TypeParts, TypeFromParts DEF Expire, TypeInv
  <1>3. ASSUME NEW x \in Targets, DeviceComes(x) \/ DeviceGoes(x) PROVE TypeInv'
    <2>1. online' \subseteq Targets
      BY <1>1, <1>3, TypeParts DEF DeviceComes, DeviceGoes
    <2>2. UNCHANGED <<db, net, pc, locals, history, bounds>>
      BY <1>3 DEF DeviceComes, DeviceGoes
    <2>3. PortKnown'
      BY <2>2 DEF PortKnown, TypeInv
    <2> QED
      BY <1>1, <2>1, <2>2, <2>3, TypeParts, TypeFromParts DEF TypeInv, history
  <1>4. CASE Restart
    <2>1. \A a \in Actors : pc'[a] \in {"idle", "done"} /\ (pc'[a] = "done" => a \notin {Cleaner, Restorer})
      BY <1>4 DEF Restart
    <2>2. \A a \in Actors : May(a, pc'[a])
      BY <2>1 DEF May, CreatorAt, DeleterAt, CleanerAt, RestorerAt
    <2>3. PortKnown'
      BY <2>1 DEF PortKnown, Starting, Stopping
    <2>4. restarts' \in 0..MaxRestarts
      BY <1>1, <1>4, TunnelAssumption DEF Restart, TypeOK
    <2>5. /\ server' \in [Ports -> Actors \cup {None}]
          /\ bound' \in [Ports -> Actors \cup {None}]
          /\ online' \subseteq Targets
          /\ DOMAIN pc' = Actors
          /\ tunnel' \in [Actors -> Creators \cup {None}]
          /\ port' \in [Actors -> Ports \cup {None}]
          /\ held' \in [Actors -> Actors \cup {None}]
          /\ batch' \in [{Cleaner, Restorer} -> SUBSET [tunnel : Creators, row : Row]]
      BY <1>4 DEF Restart
    <2>6. /\ row' \in [Creators -> Row \cup {None}] /\ overlaps' \in 0..MaxOverlaps
          /\ refused' \subseteq Ports /\ together' \subseteq SUBSET Creators
      BY <1>1, <1>4, TypeParts DEF Restart
    <2> QED
      BY <2>2, <2>3, <2>4, <2>5, <2>6, TypeFromParts DEF TypeInv
  <1> QED
    BY <1>2, <1>3, <1>4 DEF World

LEMMA TypeNext == TypeInv /\ [Next]_vars => TypeInv'
  <1> SUFFICES ASSUME TypeInv, [Next]_vars PROVE TypeInv'
    OBVIOUS
  <1>1. CASE Next
    BY <1>1, TypeCreate, TypeStart, TypeDelete, TypeStop, TypeClean, TypeRestore, TypeWorld
    DEF Next
  <1>2. CASE UNCHANGED vars
    <2>1. PortKnown'
      BY <1>2 DEF vars, locals, PortKnown, TypeInv
    <2> QED
      BY <1>2, <2>1, TypeParts, TypeFromParts DEF vars, db, net, locals, history, bounds, TypeInv
  <1> QED
    BY <1>1, <1>2

\* Rows, listeners, goroutines and what they have read stay of their types.
THEOREM TypeCorrect == Spec => []TypeOK
  <1>1. Spec => []TypeInv
    BY TypeInit, TypeNext, PTL DEF Spec
  <1> QED
    BY <1>1, PTL DEF TypeInv

-----------------------------------------------------------------------------
(* No closed listener is remembered.                                       *)

\* What most steps do: they give no tunnel a port, and the restorer no row.
RowsKept == \A t \in Creators :
    row'[t] # None => row[t] # None /\ row'[t].port = row[t].port
BatchKept == \A s \in batch'[Restorer] : \E r \in batch[Restorer] : r.row.port = s.row.port

\* A goroutine closes the listener that it has found in the table.
ClosesFound == \A c \in Actors : pc'[c] = "close" =>
    \/ pc[c] = "close" /\ port'[c] = port[c] /\ held'[c] = held[c]
    \/ held'[c] = server[port'[c]]

LEMMA UniqueKept ==
    ASSUME UniquePorts, RowsKept, batch'[Restorer] \subseteq batch[Restorer]
    PROVE  UniquePorts'
  BY DEF UniquePorts, RowsKept, Rows

LEMMA UnservedKept ==
    ASSUME NEW a, NEW p, Unserved(a, p), ClosesFound,
           server'[p] = server[p] \/ server'[p] # a
    PROVE  Unserved(a, p)'
  BY DEF Unserved, ClosesFound

\* The steps of others than the restorer.
LEMMA ListensOnceOthers ==
    ASSUME ListenerInv, TypeInv', NEW a \in Actors \ {Restorer}, ClosesFound, BatchKept,
           \A b \in Actors \ {a} : pc'[b] = pc[b] /\ port'[b] = port[b],
           \A p \in Ports : server'[p] \in {server[p], None, a},
           \/ a \notin Creators \/ pc'[a] \in {"undo", "done"}
           \/ pc[a] \notin {"undo", "done"} /\ \A p \in Ports : server'[p] \in {server[p], None}
    PROVE  ListensOnce'
  <1>1. TypeOK /\ TypeOK' /\ ListensOnce /\ Restorer \in Actors /\ Restorer # a
    BY DEF ListenerInv, TypeInv, Actors
  <1>2. ASSUME NEW b \in Actors, NEW p \in Ports, Unserved(b, p),
               b # a \/ server'[p] \in {server[p], None}
        PROVE  Unserved(b, p)'
    BY <1>2, UnservedKept, TunnelAssumption
  <1>3. ASSUME NEW b \in Creators, pc'[b] \notin {"undo", "done"}, NEW p \in Ports
        PROVE  Unserved(b, p)'
    BY <1>1, <1>2, <1>3 DEF ListensOnce, Actors
  <1>4. pc'[Restorer] = pc[Restorer] /\ port'[Restorer] = port[Restorer]
    BY <1>1
  <1>5. pc'[Restorer] = "idle" => \A p \in Ports : Unserved(Restorer, p)'
    BY <1>1, <1>2, <1>4 DEF ListensOnce
  <1>6. pc'[Restorer] \in {"load", "listen", "store"} => Unserved(Restorer, port[Restorer])'
    <2>1. pc[Restorer] \in {"load", "listen", "store"} => port[Restorer] \in Ports
      BY <1>1 DEF ListenerInv, TypeInv, PortKnown, Starting
    <2>2. CASE pc[Restorer] \in {"load", "listen", "store"}
      <3> DEFINE p == port[Restorer]
      <3>1. p \in Ports /\ Unserved(Restorer, p) /\ p' = p
        BY <1>1, <1>4, <2>1, <2>2 DEF ListensOnce
      <3>2. PICK q \in Ports : q = p
        BY <3>1
      <3>3. Unserved(Restorer, q)'
        BY <1>1, <1>2, <3>1, <3>2
      <3> QED
        BY <3>1, <3>2, <3>3
    <2> QED
      BY <1>4, <2>2
  <1>7. ASSUME NEW s \in batch'[Restorer]
        PROVE  /\ Unserved(Restorer, s.row.port)'
               /\ pc'[Restorer] \in Starting => s.row.port # port'[Restorer]
    <2>1. PICK r \in batch[Restorer] : r.row.port = s.row.port
      BY DEF BatchKept
    <2>2. s.row.port \in Ports
      BY <1>1, TypeParts, <2>1 DEF Row
    <2>3. Unserved(Restorer, s.row.port) /\ (pc[Restorer] \in Starting => s.row.port # port[Restorer])
      BY <1>1, <2>1 DEF ListensOnce
    <2> QED
      BY <1>1, <1>2, <1>4, <2>2, <2>3
  <1>8. pc'[Restorer] \in {"load", "listen", "store"} => Unserved(Restorer, port[Restorer])'
    BY <1>6
  <1> QED
    BY <1>3, <1>4, <1>5, <1>7, <1>8 DEF ListensOnce

\* The steps of the restorer, once it has begun.
LEMMA ListensOnceRestorer ==
    ASSUME ListenerInv, TypeInv',
           \A b \in Actors \ {Restorer} : pc'[b] = pc[b] /\ port'[b] = port[b] /\ held'[b] = held[b],
           \A p \in Ports : server'[p] \in {server[p], Restorer},
           pc'[Restorer] \notin {"idle", "close"},
           pc'[Restorer] \in {"load", "listen", "store"} =>
             server' = server /\ Unserved(Restorer, port'[Restorer]),
           \A s \in batch'[Restorer] :
             /\ Unserved(Restorer, s.row.port)
             /\ server'[s.row.port] = server[s.row.port]
             /\ pc'[Restorer] \in Starting => s.row.port # port'[Restorer]
    PROVE  ListensOnce'
  <1>1. TypeOK /\ ListensOnce /\ Restorer \in Actors /\ Restorer \notin Creators
    BY TunnelAssumption DEF ListenerInv, TypeInv, Actors
  <1>2. ClosesFound
    BY <1>1 DEF ClosesFound
  <1>3. ASSUME NEW b \in Creators, pc'[b] \notin {"undo", "done"}, NEW p \in Ports
        PROVE  Unserved(b, p)'
    <2>1. Unserved(b, p) /\ b # Restorer /\ b \in Actors
      BY <1>1, <1>3 DEF ListensOnce, Actors
    <2> QED
      BY <1>2, <2>1, UnservedKept
  <1>4. ASSUME pc'[Restorer] \in {"load", "listen", "store"}
        PROVE  Unserved(Restorer, port[Restorer])'
    <2>1. PICK q : q = port'[Restorer]
      OBVIOUS
    <2>2. Unserved(Restorer, q) /\ server'[q] = server[q]
      BY <1>4, <2>1
    <2>3. Unserved(Restorer, q)'
      BY <1>2, <2>2, UnservedKept
    <2> QED
      BY <2>1, <2>3
  <1>5. ASSUME NEW s \in batch'[Restorer] PROVE Unserved(Restorer, s.row.port)'
    BY <1>2, UnservedKept
  <1> QED
    BY <1>3, <1>4, <1>5 DEF ListensOnce

\* Steps that leave the listeners alone, and those who work on them.
LEMMA ListenersKept ==
    ASSUME ListenerInv, UNCHANGED net,
           \A b \in Actors : pc'[b] = "store" => pc[b] = "store" /\ port'[b] = port[b],
           \A b \in Actors : pc[b] = "drop" => pc'[b] = "drop" /\ port'[b] = port[b]
    PROVE  StoresOwn' /\ NoDeadListener'
  <1>1. StoresOwn'
    BY DEF ListenerInv, StoresOwn, net
  <1>2. NoDeadListener'
    BY DEF ListenerInv, NoDeadListener, net
  <1> QED
    BY <1>1, <1>2

LEMMA CalmStep ==
    ASSUME ListenerInv, TypeInv', UniquePorts', BatchKept, UNCHANGED net,
           NEW a \in Actors \ {Restorer}, NEW l, Goto(a, l),
           \A b \in Actors \ {a} : port'[b] = port[b] /\ held'[b] = held[b],
           pc[a] # "drop", l \notin {"store", "drop"},
           l = "close" => held'[a] = server[port'[a]],
           a \in Creators => l \in {"undo", "done"} \/ pc[a] \notin {"undo", "done"}
    PROVE  ListenerInv'
  <1>1. TypeOK
    BY DEF ListenerInv, TypeInv
  <1>2. pc'[a] = l /\ \A b \in Actors \ {a} : pc'[b] = pc[b]
    BY <1>1, GotoEffect
  <1>3. ClosesFound
    BY <1>2 DEF ClosesFound
  <1>4. ListensOnce'
    BY <1>2, <1>3, ListensOnceOthers DEF net
  <1>5. StoresOwn' /\ NoDeadListener'
    BY <1>2, ListenersKept
  <1> QED
    BY <1>4, <1>5 DEF ListenerInv

\* Nothing of goroutines changes.
LEMMA CalmWorld ==
    ASSUME ListenerInv, TypeInv', UniquePorts', BatchKept, UNCHANGED <<net, pc, port, held>>
    PROVE  ListenerInv'
  <1>1. Cleaner \in Actors \ {Restorer} /\ Cleaner \notin Creators
    BY TunnelAssumption DEF Actors
  <1>2. ClosesFound
    BY DEF ClosesFound
  <1>3. ListensOnce'
    BY <1>1, <1>2, ListensOnceOthers DEF net
  <1>4. StoresOwn' /\ NoDeadListener'
    BY ListenersKept
  <1> QED
    BY <1>3, <1>4 DEF ListenerInv

\* Those who are to make a listener known have not done so: a goroutine that
\* closes one closes another's.
LEMMA StorersUnserved ==
    ASSUME ListenerInv, NEW b \in Actors, pc[b] = "store"
    PROVE  Unserved(b, port[b]) /\ b \in Creators \cup {Restorer} /\ port[b] \in Ports
  <1>1. TypeOK /\ ListensOnce /\ PortKnown
    BY DEF ListenerInv, TypeInv
  <1>2. b \in Creators \cup {Restorer}
    BY <1>1, PcType DEF Actors, May, DeleterAt, CleanerAt, Stopping
  <1>3. port[b] \in Ports
    BY <1>1 DEF PortKnown, Starting
  <1> QED
    BY <1>1, <1>2, <1>3 DEF ListensOnce

LEMMA ListenerInit == Init => ListenerInv
  <1> SUFFICES ASSUME Init PROVE ListenerInv
    OBVIOUS
  <1>1. TypeInv
    BY TypeInit
  <1>2. UniquePorts
    BY TunnelAssumption DEF Init, UniquePorts, Rows
  <1>3. ListensOnce
    <2>1. \A a \in Actors, p \in Ports : Unserved(a, p)
      BY TunnelAssumption DEF Init, Unserved
    <2>2. Restorer \in Actors /\ batch[Restorer] = {} /\ pc[Restorer] = "idle"
      BY DEF Init, Actors
    <2> QED
      BY <2>1, <2>2 DEF ListensOnce, Actors
  <1>4. StoresOwn /\ NoDeadListener
    BY DEF Init, StoresOwn, NoDeadListener
  <1> QED
    BY <1>1, <1>2, <1>3, <1>4 DEF ListenerInv

\* A deadline that passes.
LEMMA DeadlinesUnique ==
    ASSUME ListenerInv, RowsKept, NEW t, batch' \in {batch, DeadlinePassed(t)}
    PROVE  UniquePorts' /\ BatchKept
  <1>1. TypeOK /\ UniquePorts
    BY DEF ListenerInv, TypeInv
  <1>2. \A s, r \in batch'[Restorer] : s.row.port = r.row.port => s = r
    <2>1. CASE batch' = batch
      BY <1>1, <2>1 DEF UniquePorts
    <2>2. CASE batch' = DeadlinePassed(t)
      BY <1>1, <2>2, Deadlines
    <2> QED
      BY <2>1, <2>2
  <1>3. BatchKept
    <2>1. CASE batch' = batch
      BY <2>1 DEF BatchKept
    <2>2. CASE batch' = DeadlinePassed(t)
      BY <1>1, <2>2, Deadlines DEF BatchKept
    <2> QED
      BY <2>1, <2>2
  <1> QED
    BY <1>1, <1>2, <1>3 DEF UniquePorts, RowsKept, Rows

LEMMA RevokedKeepsRows ==
    ASSUME TypeOK, NEW t, row' = Revoked(t)
    PROVE  RowsKept
  BY DEF RowsKept, Revoked, TypeOK, Row

LEMMA ListenerCreate ==
    ASSUME ListenerInv, NEW a \in Creators, Create(a)
    PROVE  ListenerInv'
  <1> USE DEF db, bounds, locals, history
  <1>1. a \in Actors \ {Restorer} /\ TypeOK /\ UniquePorts
    BY TunnelAssumption DEF Actors, ListenerInv, TypeInv
  <1>2. TypeInv'
    BY TypeCreate DEF ListenerInv
  <1>3. CASE CreateLookup(a)
    <2>1. PICK l \in {"allocate", "renew"} : Goto(a, l)
      BY <1>3 DEF CreateLookup
    <2>2. UniquePorts' /\ BatchKept
      BY <1>1, <1>3, UniqueKept DEF CreateLookup, RowsKept, BatchKept
    <2> QED
      BY <1>1, <1>2, <1>3, <2>1, <2>2, CalmStep DEF CreateLookup, Begins
  <1>4. CASE Renew(a)
    <2>1. RowsKept
      BY <1>1, <1>4 DEF Renew, RowsKept, TypeOK, Row
    <2>2. UniquePorts' /\ BatchKept
      BY <1>4, <2>1, DeadlinesUnique DEF Renew
    <2> QED
      BY <1>1, <1>2, <1>4, <2>2, CalmStep DEF Renew, Step
  <1>5. CASE Reread(a)
    <2>1. PICK l \in {"load", "done"} : Goto(a, l)
      BY <1>5 DEF Reread
    <2>2. UniquePorts' /\ BatchKept
      BY <1>1, <1>5, UniqueKept DEF Reread, RowsKept, BatchKept
    <2>3. \A b \in Actors \ {a} : port'[b] = port[b]
      BY <1>1, <1>5 DEF Reread, TypeOK
    <2> QED
      BY <1>1, <1>2, <1>5, <2>1, <2>2, <2>3, CalmStep DEF Reread
  <1>6. CASE Allocate(a)
    <2>1. PICK l \in {"evict", "done"} : Goto(a, l)
      BY <1>6 DEF Allocate
    <2>2. UniquePorts' /\ BatchKept
      BY <1>1, <1>6, UniqueKept DEF Allocate, RowsKept, BatchKept
    <2>3. \A b \in Actors \ {a} : port'[b] = port[b]
      BY <1>1, <1>6 DEF Allocate, TypeOK
    <2> QED
      BY <1>1, <1>2, <1>6, <2>1, <2>2, <2>3, CalmStep DEF Allocate
  <1>7. CASE Evict(a)
    <2>1. UniquePorts' /\ BatchKept
      BY <1>1, <1>7, UniqueKept DEF Evict, RowsKept, BatchKept
    <2> QED
      BY <1>1, <1>2, <1>7, <2>1, CalmStep DEF Evict, Step
  <1>8. CASE Insert(a)
    <2>1. PICK l \in {"load", "done"} : Goto(a, l)
      BY <1>8 DEF Insert
    <2>2. UniquePorts'
      <3>1. CASE row' = row
        BY <1>1, <1>8, <3>1, UniqueKept DEF Insert, RowsKept
      <3>2. CASE ~Taken(port[a])
        BY <1>1, <1>8, <3>2 DEF Insert, UniquePorts, Taken, Rows, TypeOK
      <3> QED
        BY <1>8, <3>1, <3>2 DEF Insert
    <2>3. BatchKept
      BY <1>8 DEF Insert, BatchKept
    <2> QED
      BY <1>1, <1>2, <1>8, <2>1, <2>2, <2>3, CalmStep DEF Insert
  <1> QED
    BY <1>3, <1>4, <1>5, <1>6, <1>7, <1>8 DEF Create

LEMMA ListenerDelete ==
    ASSUME ListenerInv, NEW d \in Deleters, Delete(d)
    PROVE  ListenerInv'
  <1> USE DEF db, bounds, locals, history
  <1>1. d \in Actors \ {Restorer} /\ d \notin Creators /\ TypeOK /\ UniquePorts
    BY TunnelAssumption DEF Actors, ListenerInv, TypeInv
  <1>2. TypeInv'
    BY TypeDelete DEF ListenerInv
  <1>3. CASE DeleteLookup(d)
    <2>1. UniquePorts' /\ BatchKept
      BY <1>1, <1>3, UniqueKept DEF DeleteLookup, RowsKept, BatchKept
    <2>2. \A b \in Actors \ {d} : port'[b] = port[b]
      BY <1>1, <1>3 DEF DeleteLookup, TypeOK
    <2> QED
      BY <1>1, <1>2, <1>3, <2>1, <2>2, CalmStep DEF DeleteLookup, Begins
  <1>4. CASE Revoke(d)
    <2>1. RowsKept
      BY <1>1, <1>4, RevokedKeepsRows DEF Revoke
    <2>2. UniquePorts' /\ BatchKept
      BY <1>1, <1>4, <2>1, UniqueKept DEF Revoke, BatchKept
    <2> QED
      BY <1>1, <1>2, <1>4, <2>2, CalmStep DEF Revoke, Step
  <1> QED
    BY <1>3, <1>4 DEF Delete

LEMMA ListenerClean ==
    ASSUME ListenerInv, Clean
    PROVE  ListenerInv'
  <1> USE DEF db, bounds, locals, history
  <1>1. /\ Cleaner \in Actors \ {Restorer} /\ Cleaner \notin Creators
        /\ TypeOK /\ UniquePorts
    BY TunnelAssumption DEF Actors, ListenerInv, TypeInv
  <1>2. TypeInv'
    BY TypeClean DEF ListenerInv
  <1>3. CASE CleanSelect
    <2>1. batch'[Restorer] = batch[Restorer]
      BY <1>1, <1>3, TypeParts DEF CleanSelect
    <2>2. UniquePorts' /\ BatchKept
      BY <1>1, <1>3, <2>1, UniqueKept DEF CleanSelect, RowsKept, BatchKept
    <2> QED
      BY <1>1, <1>2, <1>3, <2>2, CalmStep DEF CleanSelect, Begins
  <1>4. CASE CleanMark
    <2>1. RowsKept
      BY <1>1, <1>4 DEF CleanMark, RowsKept, Revoked, TypeOK, Row
    <2>2. UniquePorts' /\ BatchKept
      BY <1>1, <1>4, <2>1, UniqueKept DEF CleanMark, BatchKept
    <2> QED
      BY <1>1, <1>2, <1>4, <2>2, CalmStep DEF CleanMark, Step
  <1>5. ASSUME NEW s \in batch[Cleaner], CleanNext(s) PROVE ListenerInv'
    <2>1. batch'[Restorer] = batch[Restorer]
      BY <1>1, <1>5, TypeParts DEF CleanNext
    <2>2. UniquePorts' /\ BatchKept
      BY <1>1, <1>5, <2>1, UniqueKept DEF CleanNext, RowsKept, BatchKept
    <2>3. \A b \in Actors \ {Cleaner} : port'[b] = port[b]
      BY <1>1, <1>5 DEF CleanNext, TypeOK
    <2> QED
      BY <1>1, <1>2, <1>5, <2>2, <2>3, CalmStep DEF CleanNext, Step
  <1>6. CASE CleanEnd
    <2>1. UniquePorts' /\ BatchKept
      BY <1>1, <1>6, UniqueKept DEF CleanEnd, RowsKept, BatchKept
    <2> QED
      BY <1>1, <1>2, <1>6, <2>1, CalmStep DEF CleanEnd, Step
  <1> QED
    BY <1>3, <1>4, <1>5, <1>6 DEF Clean

\* The steps that start a listener.
LEMMA StartEffect ==
    ASSUME TypeOK, NEW a \in Creators \cup {Restorer}, Start(a)
    PROVE  /\ pc[a] \in Starting /\ pc'[a] \in {"listen", "store", "undo", AfterStart(a)}
           /\ \A b \in Actors \ {a} : pc'[b] = pc[b]
           /\ UNCHANGED locals
           /\ RowsKept
           /\ \A p \in Ports : server'[p] \in {server[p], a}
           /\ pc'[a] # AfterStart(a) => server' = server
           /\ \A p \in Ports \ {port[a]} : server'[p] = server[p]
  <1> USE DEF db, net, history
  <1>1. a \in Actors
    BY DEF Actors
  <1>2. CASE StartLoad(a)
    <2>1. PICK l \in {"listen", AfterStart(a)} : Goto(a, l) /\ pc[a] \in Starting
      BY <1>2 DEF StartLoad, Step, Starting
    <2> QED
      BY <1>1, <1>2, <2>1, GotoEffect DEF StartLoad, RowsKept
  <1>3. CASE Listen(a)
    <2>1. PICK l \in {"store", "undo"} : Goto(a, l) /\ pc[a] \in Starting
      BY <1>3 DEF Listen, Starting
    <2> QED
      BY <1>1, <1>3, <2>1, GotoEffect DEF Listen, RowsKept
  <1>4. CASE StartStore(a)
    <2>1. Goto(a, AfterStart(a)) /\ pc[a] \in Starting
      BY <1>4 DEF StartStore, Step, Starting
    <2>2. /\ \A p \in Ports : server'[p] \in {server[p], a}
          /\ \A p \in Ports \ {port[a]} : server'[p] = server[p]
      BY <1>4 DEF StartStore, TypeOK
    <2> QED
      BY <1>1, <1>4, <2>1, <2>2, GotoEffect DEF StartStore, RowsKept
  <1>5. CASE Undo(a)
    <2>1. Goto(a, AfterStart(a)) /\ pc[a] \in Starting
      BY <1>5 DEF Undo, Step, Starting
    <2>2. RowsKept
      BY <1>5, RevokedKeepsRows DEF Undo, RowsKept
    <2> QED
      BY <1>1, <1>5, <2>1, <2>2, GotoEffect DEF Undo
  <1> QED
    BY <1>2, <1>3, <1>4, <1>5 DEF Start

LEMMA StartBound ==
    ASSUME ListenerInv, NEW a \in Creators \cup {Restorer}, Start(a)
    PROVE  StoresOwn' /\ NoDeadListener'
  <1> USE DEF db, net, locals, history
  <1>1. a \in Actors /\ TypeOK /\ StoresOwn /\ NoDeadListener
    BY DEF Actors, ListenerInv, TypeInv
  <1>2. AfterStart(a) \notin {"store", "drop"}
    BY DEF AfterStart
  <1>3. port' = port /\ pc[a] # "drop" /\ \A b \in Actors \ {a} : pc'[b] = pc[b]
    BY <1>1, StartEffect DEF Starting
  <1>4. CASE StartLoad(a) \/ Undo(a)
    <2>1. PICK l \in {"listen", AfterStart(a)} : Goto(a, l)
      BY <1>4 DEF StartLoad, Undo, Step
    <2>2. pc'[a] = l
      BY <1>1, <2>1, GotoEffect
    <2>3. UNCHANGED net
      BY <1>4 DEF StartLoad, Undo
    <2> QED
      BY <1>2, <1>3, <2>2, <2>3, ListenersKept
  <1>5. CASE Listen(a)
    <2>1. ASSUME bound[port[a]] = None, Goto(a, "store"), bound' = [bound EXCEPT ![port[a]] = a]
          PROVE  StoresOwn' /\ NoDeadListener'
      <3>1. bound' = [bound EXCEPT ![port[a]] = a] /\ server' = server /\ Goto(a, "store")
        BY <1>5, <2>1 DEF Listen
      <3>2. pc'[a] = "store"
        BY <1>1, <3>1, GotoEffect
      <3>3. port[a] \in Ports
        BY <1>1, <1>5 DEF Listen, ListenerInv, TypeInv, PortKnown, Starting
      <3>4. StoresOwn'
        <4> SUFFICES ASSUME NEW b \in Actors, pc'[b] = "store" PROVE bound'[port'[b]] = b
          BY DEF StoresOwn
        <4>1. CASE b = a
          BY <1>1, <1>3, <3>1, <3>3, <4>1, TypeParts
        <4>2. CASE b # a
          <5>1. bound[port[b]] = b /\ b # None
            BY <1>1, <1>3, <4>2, TunnelAssumption DEF StoresOwn
          <5> QED
            BY <1>1, <1>3, <2>1, <3>1, <3>3, <5>1, TypeParts
        <4> QED
          BY <4>1, <4>2
      <3>5. NoDeadListener'
        <4> SUFFICES ASSUME NEW p \in Ports, server'[p] # None, bound'[p] # server'[p]
                     PROVE  \E b \in Actors : pc'[b] = "drop" /\ port'[b] = p
          BY DEF NoDeadListener
        <4>1. server[p] # None /\ bound[p] # server[p]
          BY <1>1, <2>1, <3>1, <3>3, TypeParts
        <4> QED
          BY <1>1, <1>3, <4>1 DEF NoDeadListener
      <3> QED
        BY <3>4, <3>5
    <2>2. ASSUME Goto(a, "undo"), bound' = bound
          PROVE  StoresOwn' /\ NoDeadListener'
      <3>1. Goto(a, "undo") /\ UNCHANGED net
        BY <1>5, <2>2 DEF Listen
      <3> QED
        BY <1>1, <1>3, <3>1, GotoEffect, ListenersKept
    <2> QED
      BY <1>5, <2>1, <2>2 DEF Listen
  <1>6. CASE StartStore(a)
    <2>1. pc'[a] = AfterStart(a) /\ pc[a] = "store"
      BY <1>1, <1>6, GotoEffect DEF StartStore, Step
    <2>2. port[a] \in Ports /\ bound[port[a]] = a /\ server[port[a]] # a /\ a # None
      BY <1>1, <2>1, StorersUnserved, TunnelAssumption DEF StoresOwn, Unserved
    <2>3. ASSUME server[port[a]] = None PROVE StoresOwn' /\ NoDeadListener'
      <3>1. server' = [server EXCEPT ![port[a]] = a] /\ bound' = bound
        BY <1>6, <2>3 DEF StartStore
      <3>2. StoresOwn'
        BY <1>1, <1>2, <1>3, <2>1, <3>1 DEF StoresOwn
      <3>3. NoDeadListener'
        BY <1>1, <1>3, <2>1, <2>2, <3>1, TypeParts DEF NoDeadListener
      <3> QED
        BY <3>2, <3>3
    <2>4. ASSUME server[port[a]] # None PROVE StoresOwn' /\ NoDeadListener'
      <3>1. bound' = [bound EXCEPT ![port[a]] = None] /\ server' = server
        BY <1>6, <2>4 DEF StartStore
      <3>2. StoresOwn'
        <4> SUFFICES ASSUME NEW b \in Actors, pc'[b] = "store" PROVE bound'[port'[b]] = b
          BY DEF StoresOwn
        <4>1. b # a /\ bound[port[b]] = b /\ port'[b] = port[b]
          BY <1>1, <1>2, <1>3, <2>1 DEF StoresOwn
        <4> QED
          BY <1>1, <2>2, <3>1, <4>1, TypeParts
      <3>3. NoDeadListener'
        BY <1>1, <1>3, <2>1, <2>2, <2>4, <3>1, TypeParts DEF NoDeadListener
      <3> QED
        BY <3>2, <3>3
    <2> QED
      BY <2>3, <2>4
  <1> QED
    BY <1>4, <1>5, <1>6 DEF Start

LEMMA ListenerStart ==
    ASSUME ListenerInv, NEW a \in Creators \cup {Restorer}, Start(a)
    PROVE  ListenerInv'
  <1> USE DEF locals
  <1>1. a \in Actors /\ TypeOK /\ UniquePorts /\ ListensOnce
    BY DEF Actors, ListenerInv, TypeInv
  <1>2. TypeInv' /\ StoresOwn' /\ NoDeadListener'
    BY TypeStart, StartBound DEF ListenerInv
  <1>3. UniquePorts'
    BY <1>1, StartEffect, UniqueKept
  <1>4. ListensOnce'
    <2>1. CASE a \in Creators
      <3>1. a # Restorer /\ AfterStart(a) = "done"
        BY <2>1, TunnelAssumption DEF AfterStart
      <3>2. ClosesFound
        BY <1>1, <3>1, StartEffect DEF ClosesFound
      <3>3. BatchKept
        BY <1>1, StartEffect DEF BatchKept
      <3>4. pc[a] = "undo" => pc'[a] = "done"
        <4>1. pc[a] = "undo" => Goto(a, "done")
          BY <3>1 DEF Start, StartLoad, Listen, StartStore, Undo, Step
        <4> QED
          BY <1>1, <4>1, GotoEffect
      <3>5. pc[a] # "done" /\ \A p \in Ports : server'[p] \in {server[p], None, a}
        BY <1>1, StartEffect DEF Starting
      <3>6. pc'[a] # "done" => server' = server
        BY <1>1, <3>1, StartEffect
      <3>7. \A b \in Actors \ {a} : pc'[b] = pc[b] /\ port'[b] = port[b]
        BY <1>1, StartEffect
      <3> QED
        BY <1>1, <1>2, <3>1, <3>2, <3>3, <3>4, <3>5, <3>6, <3>7, ListensOnceOthers
    <2>2. CASE a = Restorer
      <3>1. AfterStart(a) = "next"
        BY <2>2 DEF AfterStart
      <3>2. pc[Restorer] = "undo" => pc'[Restorer] = "next"
        <4>1. pc[a] = "undo" => Goto(a, "next")
          BY <3>1 DEF Start, StartLoad, Listen, StartStore, Undo, Step
        <4> QED
          BY <1>1, <2>2, <4>1, GotoEffect
      <3>3. pc[Restorer] \in Starting /\ pc'[Restorer] \in {"listen", "store", "undo", "next"}
        BY <1>1, <2>2, <3>1, StartEffect
      <3>4. pc'[Restorer] \in {"load", "listen", "store"} =>
              server' = server /\ Unserved(Restorer, port'[Restorer])
        BY <1>1, <2>2, <3>1, <3>2, <3>3, StartEffect DEF ListensOnce, Starting
      <3>5. ASSUME NEW s \in batch'[Restorer]
            PROVE  /\ Unserved(Restorer, s.row.port)
                   /\ server'[s.row.port] = server[s.row.port]
                   /\ s.row.port # port'[Restorer]
        <4>1. s \in batch[Restorer] /\ port' = port
          BY <1>1, StartEffect
        <4>2. s.row.port \in Ports
          BY <1>1, <4>1, TypeParts DEF Row
        <4>3. Unserved(Restorer, s.row.port) /\ s.row.port # port[Restorer]
          BY <1>1, <3>3, <4>1 DEF ListensOnce
        <4> QED
          BY <1>1, <2>2, <4>1, <4>2, <4>3, StartEffect
      <3>6. \A p \in Ports : server'[p] \in {server[p], Restorer}
        BY <1>1, <2>2, StartEffect
      <3>7. \A b \in Actors \ {Restorer} : pc'[b] = pc[b] /\ port'[b] = port[b] /\ held'[b] = held[b]
        BY <1>1, <2>2, StartEffect
      <3> QED
        BY <1>2, <3>3, <3>4, <3>5, <3>6, <3>7, ListensOnceRestorer
    <2> QED
      BY <2>1, <2>2
  <1> QED
    BY <1>2, <1>3, <1>4 DEF ListenerInv

LEMMA ListenerStop ==
    ASSUME ListenerInv, NEW a \in Deleters \cup {Cleaner}, Stop(a)
    PROVE  ListenerInv'
  <1> USE DEF db, net, locals, history
  <1>1. a \in Actors \ {Restorer} /\ a \notin Creators /\ TypeOK /\ UniquePorts
    BY TunnelAssumption DEF Actors, ListenerInv, TypeInv
  <1>2. TypeInv'
    BY TypeStop DEF ListenerInv
  <1>3. AfterStop(a) \notin {"store", "drop", "close"}
    BY DEF AfterStop
  <1>4. UniquePorts' /\ BatchKept
    BY <1>1, UniqueKept DEF Stop, StopFind, StopClose, StopDrop, RowsKept, BatchKept
  <1>5. CASE StopFind(a)
    <2>1. PICK l \in {"close", AfterStop(a)} : Goto(a, l)
      BY <1>5 DEF StopFind, Step
    <2>2. (\A b \in Actors \ {a} : held'[b] = held[b]) /\ held'[a] = server[port[a]]
      BY <1>1, <1>5, TypeParts DEF StopFind
    <2> QED
      BY <1>1, <1>2, <1>3, <1>4, <1>5, <2>1, <2>2, CalmStep DEF StopFind, Step
  <1>6. CASE StopClose(a)
    <2>1. pc'[a] = "drop" /\ pc[a] = "close" /\ \A b \in Actors \ {a} : pc'[b] = pc[b]
      BY <1>1, <1>6, GotoEffect DEF StopClose, Step
    <2>2. UNCHANGED <<row, server, port, held, batch>>
      BY <1>6 DEF StopClose
    <2>3. ListensOnce'
      <3>1. ClosesFound
        BY <2>1, <2>2 DEF ClosesFound
      <3> QED
        BY <1>1, <1>2, <1>4, <2>1, <2>2, <3>1, ListensOnceOthers
    <2>4. StoresOwn'
      <3> SUFFICES ASSUME NEW b \in Actors, pc'[b] = "store" PROVE bound'[port'[b]] = b
        BY DEF StoresOwn
      <3>1. pc[b] = "store" /\ bound[port[b]] = b
        BY <2>1 DEF ListenerInv, StoresOwn
      <3>2. port[b] = port[a] => held[a] # b
        BY <1>1, <2>1, <3>1, StorersUnserved DEF Unserved
      <3> QED
        BY <1>1, <1>6, <2>2, <3>1, <3>2, TypeParts DEF StopClose
    <2>5. NoDeadListener'
      <3> SUFFICES ASSUME NEW p \in Ports, server'[p] # None, bound'[p] # server'[p]
                   PROVE  \E b \in Actors : pc'[b] = "drop" /\ port'[b] = p
        BY DEF NoDeadListener
      <3>1. CASE p = port[a]
        BY <1>1, <2>1, <2>2, <3>1
      <3>2. CASE p # port[a]
        <4>1. bound'[p] = bound[p]
          BY <1>1, <1>6, <3>2, TypeParts DEF StopClose
        <4> QED
          BY <2>1, <2>2, <4>1 DEF ListenerInv, NoDeadListener
      <3> QED
        BY <3>1, <3>2
    <2> QED
      BY <1>2, <1>4, <2>3, <2>4, <2>5 DEF ListenerInv
  <1>7. CASE StopDrop(a)
    <2>1. pc'[a] = AfterStop(a) /\ pc[a] = "drop" /\ \A b \in Actors \ {a} : pc'[b] = pc[b]
      BY <1>1, <1>7, GotoEffect DEF StopDrop, Step
    <2>2. UNCHANGED <<row, bound, port, held, batch>>
      BY <1>7 DEF StopDrop
    <2>3. server' = [server EXCEPT ![port[a]] = None]
      BY <1>7 DEF StopDrop
    <2>4. port[a] \in Ports
      BY <1>1, <2>1 DEF ListenerInv, TypeInv, PortKnown, Stopping
    <2>5. ListensOnce'
      <3>1. ClosesFound
        BY <1>3, <2>1, <2>2 DEF ClosesFound
      <3>2. \A p \in Ports : server'[p] \in {server[p], None, a}
        BY <1>1, <2>3, TypeParts
      <3> QED
        BY <1>1, <1>2, <1>4, <2>1, <2>2, <3>1, <3>2, ListensOnceOthers
    <2>6. StoresOwn'
      BY <1>3, <2>1, <2>2 DEF ListenerInv, StoresOwn
    <2>7. NoDeadListener'
      <3> SUFFICES ASSUME NEW p \in Ports, server'[p] # None, bound'[p] # server'[p]
                   PROVE  \E b \in Actors : pc'[b] = "drop" /\ port'[b] = p
        BY DEF NoDeadListener
      <3>1. p # port[a] /\ server'[p] = server[p]
        BY <1>1, <2>3, <2>4, TypeParts
      <3>2. PICK b \in Actors : pc[b] = "drop" /\ port[b] = p
        BY <2>2, <3>1 DEF ListenerInv, NoDeadListener
      <3> QED
        BY <2>1, <2>2, <3>1, <3>2
    <2> QED
      BY <1>2, <1>4, <2>5, <2>6, <2>7 DEF ListenerInv
  <1> QED
    BY <1>5, <1>6, <1>7 DEF Stop

LEMMA ListenerRestore ==
    ASSUME ListenerInv, Restore
    PROVE  ListenerInv'
  <1> USE DEF db, net, locals, history
  <1>1. Restorer \in Actors /\ Cleaner # Restorer /\ TypeOK /\ UniquePorts /\ ListensOnce
    BY TunnelAssumption DEF Actors, ListenerInv, TypeInv
  <1>2. TypeInv'
    BY TypeRestore DEF ListenerInv
  <1>3. CASE RestoreList
    <2> DEFINE act == {t \in Rows : row[t].active}
    <2>1. pc'[Restorer] = "next" /\ pc[Restorer] = "idle" /\ \A b \in Actors \ {Restorer} : pc'[b] = pc[b]
      BY <1>1, <1>3, GotoEffect DEF RestoreList, Begins
    <2>2. batch'[Restorer] = Snapshot(act)
      BY <1>1, <1>3, TypeParts DEF RestoreList
    <2>3. \A s \in Snapshot(act) : s.tunnel \in act /\ s.row = row[s.tunnel]
      BY <1>1, SnapshotRows
    <2>4. UniquePorts'
      <3>1. ASSUME NEW s \in batch'[Restorer], NEW r \in batch'[Restorer], s.row.port = r.row.port
            PROVE  s = r
        <4>1. s.tunnel = r.tunnel
          BY <1>1, <2>2, <2>3, <3>1 DEF UniquePorts
        <4> QED
          BY <2>2, <4>1 DEF Snapshot
      <3> QED
        BY <1>1, <1>3, <3>1 DEF UniquePorts, RestoreList, Rows
    <2>5. ASSUME NEW s \in batch'[Restorer] PROVE Unserved(Restorer, s.row.port)
      <3>1. s.row.port \in Ports
        BY <1>1, <2>2, <2>3, TypeParts DEF Rows, Row
      <3> QED
        BY <1>1, <2>1, <3>1 DEF ListensOnce
    <2>6. ListensOnce'
      BY <1>2, <1>3, <2>1, <2>5, ListensOnceRestorer DEF RestoreList, Starting
    <2>7. StoresOwn' /\ NoDeadListener'
      BY <1>1, <1>3, <2>1, ListenersKept DEF RestoreList
    <2> QED
      BY <1>2, <2>4, <2>6, <2>7 DEF ListenerInv
  <1>4. ASSUME NEW s \in batch[Restorer], RestoreNext(s) PROVE ListenerInv'
    <2>1. batch'[Restorer] = batch[Restorer] \ {s} /\ pc[Restorer] = "next"
      BY <1>1, <1>4, TypeParts DEF RestoreNext
    <2>2. RowsKept
      BY <1>1, <1>4, RevokedKeepsRows, TypeParts DEF RestoreNext, RowsKept
    <2>3. UniquePorts'
      BY <1>1, <2>1, <2>2, UniqueKept
    <2>4. /\ pc'[Restorer] \in {"next", "load"} /\ \A b \in Actors \ {Restorer} : pc'[b] = pc[b]
          /\ pc'[Restorer] = "load" => port'[Restorer] = s.row.port
          /\ \A b \in Actors \ {Restorer} : port'[b] = port[b]
      <3>1. CASE UNCHANGED <<pc, tunnel, port>>
        BY <2>1, <3>1
      <3>2. CASE Goto(Restorer, "load") /\ port' = [port EXCEPT ![Restorer] = s.row.port]
        BY <1>1, <3>2, GotoEffect, TypeParts
      <3> QED
        BY <1>4, <3>1, <3>2 DEF RestoreNext
    <2>5. \A r \in batch'[Restorer] : Unserved(Restorer, r.row.port) /\ r.row.port # s.row.port
      BY <1>1, <2>1 DEF ListensOnce, UniquePorts
    <2>6. Unserved(Restorer, s.row.port) /\ UNCHANGED <<server, bound, held>>
      BY <1>1, <1>4 DEF ListensOnce, RestoreNext
    <2>7. ListensOnce'
      BY <1>2, <2>4, <2>5, <2>6, ListensOnceRestorer DEF Starting
    <2>8. StoresOwn' /\ NoDeadListener'
      BY <1>1, <2>1, <2>4, <2>6, ListenersKept
    <2> QED
      BY <1>2, <2>3, <2>7, <2>8 DEF ListenerInv
  <1>5. CASE RestoreEnd
    <2>1. pc'[Restorer] = "done" /\ pc[Restorer] = "next" /\ \A b \in Actors \ {Restorer} : pc'[b] = pc[b]
      BY <1>1, <1>5, GotoEffect DEF RestoreEnd, Step
    <2>2. UNCHANGED <<row, server, bound, port, held, batch>> /\ batch[Restorer] = {}
      BY <1>5 DEF RestoreEnd
    <2>3. UniquePorts'
      BY <1>1, <2>2, UniqueKept DEF RowsKept
    <2>4. ListensOnce'
      BY <1>2, <2>1, <2>2, ListensOnceRestorer
    <2>5. StoresOwn' /\ NoDeadListener'
      BY <1>1, <2>1, <2>2, ListenersKept
    <2> QED
      BY <1>2, <2>3, <2>4, <2>5 DEF ListenerInv
  <1> QED
    BY <1>3, <1>4, <1>5 DEF Restore

LEMMA ListenerWorld ==
    ASSUME ListenerInv, World
    PROVE  ListenerInv'
  <1> USE DEF db, net, locals, history
  <1>1. TypeOK /\ UniquePorts
    BY DEF ListenerInv, TypeInv
  <1>2. TypeInv'
    BY TypeWorld DEF ListenerInv
  <1>3. ASSUME NEW t \in Creators, Expire(t) PROVE ListenerInv'
    <2>1. RowsKept
      BY <1>1, <1>3 DEF Expire, RowsKept, TypeOK, Row, Live, Active, Rows
    <2>2. UniquePorts' /\ BatchKept
      BY <1>3, <2>1, DeadlinesUnique DEF Expire
    <2> QED
      BY <1>2, <1>3, <2>2, CalmWorld DEF Expire
  <1>4. ASSUME NEW x \in Targets, DeviceComes(x) \/ DeviceGoes(x) PROVE ListenerInv'
    <2>1. UNCHANGED <<db, net, pc, locals>>
      BY <1>4 DEF DeviceComes, DeviceGoes
    <2>2. UniquePorts' /\ BatchKept
      BY <1>1, <2>1, UniqueKept DEF RowsKept, BatchKept
    <2> QED
      BY <1>2, <2>1, <2>2, CalmWorld
  <1>5. CASE Restart
    <2>1. \A a \in Actors : pc'[a] \in {"idle", "done"}
      BY <1>5 DEF Restart
    <2>2. \A p \in Ports : server'[p] = None
      BY <1>5 DEF Restart
    <2>3. batch'[Restorer] = {} /\ row' = row
      BY <1>5 DEF Restart
    <2>4. UniquePorts'
      BY <1>1, <2>3 DEF UniquePorts, Rows
    <2>5. \A a \in Actors, p \in Ports : Unserved(a, p)'
      BY <2>1, <2>2, TunnelAssumption DEF Unserved
    <2>6. ListensOnce'
      BY <2>1, <2>3, <2>5 DEF ListensOnce, Actors
    <2>7. StoresOwn' /\ NoDeadListener'
      BY <2>1, <2>2 DEF StoresOwn, NoDeadListener
    <2> QED
      BY <1>2, <2>4, <2>6, <2>7 DEF ListenerInv
  <1> QED
    BY <1>3, <1>4, <1>5 DEF World

LEMMA ListenerNext == ListenerInv /\ [Next]_vars => ListenerInv'
  <1> SUFFICES ASSUME ListenerInv, [Next]_vars PROVE ListenerInv'
    OBVIOUS
  <1>1. CASE Next
    BY <1>1, ListenerCreate, ListenerStart, ListenerDelete, ListenerStop, ListenerClean,
       ListenerRestore, ListenerWorld DEF Next
  <1>2. CASE UNCHANGED vars
    <2>1. TypeInv'
      BY <1>2, TypeNext DEF ListenerInv
    <2>2. UNCHANGED <<row, net, pc, port, held, batch>>
      BY <1>2 DEF vars, db, net, locals
    <2>3. UniquePorts' /\ BatchKept
      BY <2>2, UniqueKept DEF RowsKept, BatchKept, ListenerInv
    <2> QED
      BY <2>1, <2>2, <2>3, CalmWorld
  <1> QED
    BY <1>1, <1>2

LEMMA ListenerAlways == Spec => []ListenerInv
  BY ListenerInit, ListenerNext, PTL DEF Spec

\* However creations, deletions, the cleanup and the restoration interleave,
\* the table of listeners names a closed listener only until the goroutine
\* that has closed it takes it out.
THEOREM StoppedIsForgotten == Spec => []NoDeadListener
  BY ListenerAlways, PTL DEF ListenerInv

-----------------------------------------------------------------------------
(* Operations that come one after the other.                               *)

Busy(a) == pc[a] \notin {"idle", "done"}

\* A port is listened on, or another process had it when it was tried.
Attended(p) == p \in refused \/ (server[p] # None /\ bound[p] = server[p])

Brings(a, t) == pc[a] \in {"reread", "load", "listen", "store", "undo"} /\ tunnel[a] = t

\* What a goroutine that works alone may rely on at its next step.
Doing(a) ==
    /\ pc[a] \in {"renew", "reread", "load", "listen", "store", "undo", "revoke"} => tunnel[a] \in Rows
    /\ pc[a] \in {"load", "listen", "store", "undo", "revoke"} => row[tunnel[a]].port = port[a]
    /\ pc[a] = "undo" /\ tunnel[a] # a => port[a] \in refused
    /\ pc[a] \in {"listen", "store"} => server[port[a]] = None
    /\ pc[a] \in Stopping => \A u \in Creators : Live(u) => row[u].port # port[a]
    /\ pc[a] = "close" => held[a] = server[port[a]]
    /\ pc[a] = "drop" => bound[port[a]] = None

\* The rows that the cleaner has read are expired, and then inactive.
Cleaning ==
    /\ pc[Cleaner] = "mark" => \A s \in batch[Cleaner] :
         s.tunnel \in Rows /\ row[s.tunnel].port = s.row.port /\ row[s.tunnel].expired
    /\ pc[Cleaner] \in {"next"} \cup Stopping => \A s \in batch[Cleaner] :
         \A u \in Creators : Live(u) => row[u].port # s.row.port

Restoring ==
    /\ ~Busy(Restorer) => batch[Restorer] = {}
    /\ \A s \in batch[Restorer] : s.tunnel \in Rows /\ row[s.tunnel].port = s.row.port

\* A listener is in the table and holds its port, but for the one worked on.
Coherent ==
    \A p \in Ports : bound[p] = server[p] \/ \E a \in Actors : pc[a] \in {"store", "drop"} /\ port[a] = p

\* A live tunnel has a listener, or is about to be given one.
LiveServed ==
    pc[Restorer] # "idle" => \A t \in Creators : Live(t) =>
        \/ Attended(row[t].port)
        \/ \E a \in Actors : Brings(a, t)
        \/ \E s \in batch[Restorer] : s.tunnel = t

OneAtATime == \A a, b \in Actors : Busy(a) /\ Busy(b) => a = b

SerialFacts ==
    /\ OneAtATime /\ Coherent /\ LiveServed
    /\ Cleaning /\ Restoring
    /\ \A a \in Actors : Doing(a)

SerialInv == ListenerInv /\ (Serial => SerialFacts)

-----------------------------------------------------------------------------
\* What is left of an operation that overlaps none.

LEMMA BeginsQuiet ==
    ASSUME TypeOK, NEW a, Begins(a), Serial'
    PROVE  Serial /\ Quiet /\ pc[a] = "idle"
  BY TunnelAssumption DEF TypeOK, Begins, Serial

\* The goroutine that steps is the only one at work.
LEMMA Alone ==
    ASSUME SerialInv, Serial, NEW a \in Actors, NEW l,
           Goto(a, l) \/ (UNCHANGED pc /\ l = pc[a]), Busy(a) \/ Quiet
    PROVE  /\ SerialFacts /\ ListenerInv /\ TypeOK
           /\ pc'[a] = l
           /\ \A b \in Actors \ {a} : ~Busy(b) /\ pc'[b] = pc[b]
           /\ a # Restorer => batch[Restorer] = {}
           /\ \A p \in Ports : bound[p] = server[p] \/ (pc[a] \in {"store", "drop"} /\ port[a] = p)
           /\ pc[Restorer] # "idle" => \A t \in Creators : Live(t) =>
                \/ Attended(row[t].port)
                \/ Brings(a, t)
                \/ a = Restorer /\ \E s \in batch[Restorer] : s.tunnel = t
  <1>1. SerialFacts /\ ListenerInv /\ TypeOK /\ {Cleaner, Restorer} \subseteq Actors
    BY DEF SerialInv, ListenerInv, TypeInv, Actors
  <1>2. pc'[a] = l /\ \A b \in Actors \ {a} : pc'[b] = pc[b]
    BY <1>1, GotoEffect
  <1>3. \A b \in Actors \ {a} : ~Busy(b)
    BY <1>1 DEF SerialFacts, OneAtATime, Quiet, Busy
  <1>4. a # Restorer => batch[Restorer] = {}
    BY <1>1, <1>3 DEF SerialFacts, Restoring
  <1>5. \A p \in Ports : bound[p] = server[p] \/ (pc[a] \in {"store", "drop"} /\ port[a] = p)
    BY <1>1, <1>3 DEF SerialFacts, Coherent, Busy
  <1>6. \A b \in Actors \ {a} : \A t : ~Brings(b, t)
    BY <1>3 DEF Brings, Busy
  <1>7. pc[Restorer] # "idle" => \A t \in Creators : Live(t) =>
                \/ Attended(row[t].port)
                \/ Brings(a, t)
                \/ a = Restorer /\ \E s \in batch[Restorer] : s.tunnel = t
    BY <1>1, <1>4, <1>6 DEF SerialFacts, LiveServed
  <1> QED
    BY <1>1, <1>2, <1>3, <1>4, <1>5, <1>7

\* What it has to see to.
LEMMA AloneStep ==
    ASSUME SerialInv, Serial, NEW a \in Actors, NEW l,
           Goto(a, l) \/ (UNCHANGED pc /\ l = pc[a]), Busy(a) \/ Quiet,
           Doing(a)',
           a = Cleaner => Cleaning',
           IF a = Restorer THEN Restoring' ELSE batch'[Restorer] = {},
           \A p \in Ports : bound'[p] = server'[p] \/ (l \in {"store", "drop"} /\ port'[a] = p),
           pc'[Restorer] # "idle" => \A t \in Creators : Live(t)' =>
                \/ Attended(row[t].port)'
                \/ Brings(a, t)'
                \/ \E s \in batch'[Restorer] : s.tunnel = t
    PROVE  SerialFacts'
  <1>1. /\ pc'[a] = l /\ {Cleaner, Restorer} \subseteq Actors
        /\ \A b \in Actors \ {a} : pc'[b] \in {"idle", "done"}
    BY Alone DEF Busy, Actors
  <1>2. OneAtATime'
    BY <1>1 DEF OneAtATime, Busy
  <1>3. ASSUME NEW b \in Actors PROVE Doing(b)'
    <2>1. CASE b = a
      BY <2>1
    <2>2. CASE b # a
      BY <1>1, <2>2 DEF Doing, Stopping
    <2> QED
      BY <2>1, <2>2
  <1>4. Cleaning'
    BY <1>1 DEF Cleaning, Stopping
  <1>5. Restoring'
    BY <1>1 DEF Restoring
  <1>6. Coherent'
    BY <1>1 DEF Coherent
  <1>7. LiveServed'
    BY DEF LiveServed
  <1> QED
    BY <1>2, <1>3, <1>4, <1>5, <1>6, <1>7 DEF SerialFacts

\* Steps on the rows.
LEMMA RevokedRow ==
    ASSUME TypeOK, NEW t, NEW u \in Creators
    PROVE  /\ Revoked(t)[u] # None <=> row[u] # None
           /\ row[u] # None =>
                /\ Revoked(t)[u].port = row[u].port
                /\ Revoked(t)[u].expired = row[u].expired
                /\ Revoked(t)[u].active <=> u # t /\ row[u].active
  <1>1. row[u] = None \/ row[u] \in Row
    BY DEF TypeOK
  <1>2. \A r \in Row : /\ [r EXCEPT !.active = FALSE] \in Row
                       /\ [r EXCEPT !.active = FALSE].port = r.port
                       /\ [r EXCEPT !.active = FALSE].expired = r.expired
                       /\ ~[r EXCEPT !.active = FALSE].active
    BY DEF Row
  <1>3. Revoked(t)[u] = IF u = t /\ row[u] # None THEN [row[u] EXCEPT !.active = FALSE] ELSE row[u]
    BY DEF Revoked, TypeOK
  <1>4. None \notin Row
    BY TunnelAssumption
  <1> QED
    BY <1>1, <1>2, <1>3, <1>4

LEMMA SerialInit == Init => SerialInv
  <1> SUFFICES ASSUME Init PROVE SerialInv
    OBVIOUS
  <1>1. ListenerInv
    BY ListenerInit
  <1>2. (\A a \in Actors : pc[a] = "idle") /\ {Cleaner, Restorer} \subseteq Actors /\ Rows = {}
    BY DEF Init, Actors, Rows
  <1>3. OneAtATime /\ Cleaning /\ Restoring
    BY <1>2 DEF OneAtATime, Busy, Cleaning, Restoring, Stopping, Init
  <1>4. Coherent /\ LiveServed
    BY <1>2 DEF Coherent, LiveServed, Init
  <1>5. \A a \in Actors : Doing(a)
    BY <1>2 DEF Doing, Stopping
  <1> QED
    BY <1>1, <1>3, <1>4, <1>5 DEF SerialInv, SerialFacts

\* A step that leaves rows and listeners alone, and what others have read.
LEMMA AloneSame ==
    ASSUME SerialInv, Serial, NEW a \in Actors \ {Cleaner, Restorer}, NEW l, Goto(a, l),
           Busy(a) \/ Quiet, Doing(a)', pc[a] \notin {"store", "drop"},
           UNCHANGED <<row, net, batch, refused>>,
           \A t \in Creators : Live(t) /\ Brings(a, t) => Brings(a, t)' \/ Attended(row[t].port)
    PROVE  SerialFacts'
  <1> USE DEF net, history
  <1>1. SerialFacts /\ pc'[a] = l /\ batch[Restorer] = {} /\ pc'[Restorer] = pc[Restorer]
    BY Alone DEF Actors
  <1>3. \A p \in Ports : bound'[p] = server'[p]
    BY Alone
  <1>4. ASSUME pc'[Restorer] # "idle", NEW t \in Creators, Live(t)'
        PROVE  Attended(row[t].port)' \/ Brings(a, t)'
    <2>1. Live(t)
      BY <1>4 DEF Live, Active, Rows
    <2>2. Attended(row[t].port) \/ Brings(a, t)
      BY <1>1, <1>4, <2>1, Alone
    <2>3. Attended(row[t].port) => Attended(row[t].port)'
      BY DEF Attended
    <2> QED
      BY <2>1, <2>2, <2>3
  <1> QED
    BY <1>1, <1>3, <1>4, AloneStep

LEMMA SerialCreate ==
    ASSUME SerialInv, NEW a \in Creators, Create(a), Serial'
    PROVE  Serial /\ SerialFacts'
  <1> USE DEF db, net, bounds, locals, history
  <1>1. a \in Actors \ {Cleaner, Restorer} /\ TypeOK /\ ListenerInv
    BY TunnelAssumption DEF Actors, SerialInv, ListenerInv, TypeInv
  <1>2. CASE CreateLookup(a)
    <2>1. Serial /\ Quiet /\ pc[a] = "idle"
      BY <1>1, <1>2, BeginsQuiet DEF CreateLookup
    <2>2. \A t : ~Brings(a, t)
      BY <2>1 DEF Brings
    <2>3. CASE SameTarget(a) = {}
      <3>1. Goto(a, "allocate") /\ UNCHANGED <<row, net, batch, refused>>
        BY <1>2, <2>3 DEF CreateLookup
      <3>2. Doing(a)'
        <4>1. pc'[a] = "allocate"
          BY <1>1, <3>1, GotoEffect
        <4> QED
          BY <4>1 DEF Doing, Stopping
      <3> QED
        BY <1>1, <2>1, <2>2, <3>1, <3>2, AloneSame
    <2>4. CASE SameTarget(a) # {}
      <3>1. PICK t \in SameTarget(a) : Goto(a, "renew") /\ tunnel' = [tunnel EXCEPT ![a] = t]
        BY <1>2, <2>4 DEF CreateLookup
      <3>2. UNCHANGED <<row, net, batch, refused>>
        BY <1>2 DEF CreateLookup
      <3>3. pc'[a] = "renew" /\ tunnel'[a] \in Rows'
        BY <1>1, <3>1, <3>2, GotoEffect, TypeParts DEF SameTarget, Rows
      <3>4. Doing(a)'
        BY <3>3 DEF Doing, Stopping
      <3> QED
        BY <1>1, <2>1, <2>2, <3>1, <3>2, <3>4, AloneSame
    <2> QED
      BY <2>1, <2>3, <2>4
  <1>3. CASE Renew(a)
    <2> DEFINE t == tunnel[a]
    <2>1. Serial /\ Goto(a, "reread") /\ pc[a] = "renew" /\ Busy(a)
      BY <1>3 DEF Renew, Step, Serial, Busy
    <2>2. /\ SerialFacts /\ pc'[a] = "reread" /\ batch[Restorer] = {}
          /\ pc'[Restorer] = pc[Restorer]
          /\ \A p \in Ports : bound[p] = server[p]
      BY <1>1, <2>1, Alone DEF Actors
    <2>3. t \in Rows /\ row[t] \in Row
      BY <1>1, <2>1, <2>2, TypeParts DEF SerialFacts, Doing, Rows
    <2>4. row' = [row EXCEPT ![t] = [row[t] EXCEPT !.active = TRUE, !.expired = FALSE]]
      BY <1>1, <1>3, <2>3, TypeParts DEF Renew, Rows
    <2>5. UNCHANGED <<server, bound, refused, tunnel>>
      BY <1>3 DEF Renew
    <2>7. Doing(a)'
      <3>1. [row[t] EXCEPT !.active = TRUE, !.expired = FALSE] \in Row
        BY <2>3 DEF Row
      <3>2. row'[t] # None /\ t \in Creators
        BY <1>1, <2>3, <2>4, <3>1, TypeParts, TunnelAssumption DEF Rows
      <3>3. tunnel'[a] \in Rows'
        BY <2>5, <3>2 DEF Rows
      <3> QED
        BY <2>2, <3>3 DEF Doing, Stopping
    <2>8. batch'[Restorer] = {}
      BY <1>1, <1>3, <2>2, Deadlines DEF Renew
    <2>9. ASSUME pc'[Restorer] # "idle", NEW u \in Creators, Live(u)'
          PROVE  Attended(row[u].port)' \/ Brings(a, u)'
      <3>1. CASE u = t
        BY <2>2, <2>5, <3>1 DEF Brings
      <3>2. CASE u # t
        <4>1. row'[u] = row[u] /\ Live(u)
          BY <1>1, <2>4, <2>9, <3>2, TypeParts DEF Live, Active, Rows
        <4>2. Attended(row[u].port)
          BY <1>1, <2>1, <2>2, <2>9, <4>1, Alone DEF Brings
        <4> QED
          BY <2>5, <4>1, <4>2 DEF Attended
      <3> QED
        BY <3>1, <3>2
    <2> QED
      BY <1>1, <2>1, <2>2, <2>5, <2>7, <2>8, <2>9, AloneStep
  <1>4. CASE Reread(a)
    <2>1. Serial /\ pc[a] = "reread" /\ Busy(a)
      BY <1>4 DEF Reread, Serial, Busy
    <2>2. tunnel[a] \in Rows
      <3>1. \A b \in Actors : Doing(b)
        BY <2>1 DEF SerialInv, SerialFacts
      <3> QED
        BY <1>1, <2>1, <3>1 DEF Doing
    <2>3. Goto(a, "load") /\ port' = [port EXCEPT ![a] = row[tunnel[a]].port]
      BY <1>4, <2>2 DEF Reread
    <2>4. UNCHANGED <<row, net, batch, tunnel, refused>>
      BY <1>4 DEF Reread
    <2>5. pc'[a] = "load" /\ port'[a] = row[tunnel[a]].port
      BY <1>1, <2>3, GotoEffect, TypeParts
    <2>6. Doing(a)'
      BY <2>2, <2>4, <2>5 DEF Doing, Stopping, Rows
    <2>7. \A t \in Creators : Brings(a, t) => Brings(a, t)'
      BY <2>4, <2>5 DEF Brings
    <2> QED
      BY <1>1, <2>1, <2>3, <2>4, <2>6, <2>7, AloneSame
  <1>5. CASE Allocate(a)
    <2>1. Serial /\ pc[a] = "allocate" /\ Busy(a)
      BY <1>5 DEF Allocate, Serial, Busy
    <2>2. PICK l \in {"evict", "done"} : Goto(a, l)
      BY <1>5 DEF Allocate
    <2>3. UNCHANGED <<row, net, batch, refused>>
      BY <1>5 DEF Allocate
    <2>4. Doing(a)'
      <3>1. pc'[a] = l
        BY <1>1, <2>2, GotoEffect
      <3> QED
        BY <3>1 DEF Doing, Stopping
    <2> QED
      BY <1>1, <2>1, <2>2, <2>3, <2>4, AloneSame DEF Brings
  <1>6. CASE Evict(a)
    <2>1. Serial /\ pc[a] = "evict" /\ Busy(a) /\ Goto(a, "insert")
      BY <1>6 DEF Evict, Step, Serial, Busy
    <2>2. /\ SerialFacts /\ pc'[a] = "insert" /\ batch[Restorer] = {}
          /\ pc'[Restorer] = pc[Restorer]
          /\ \A p \in Ports : bound[p] = server[p]
      BY <1>1, <2>1, Alone DEF Actors
    <2>3. \A t \in Creators : row'[t] \in {row[t], None}
      BY <1>6 DEF Evict
    <2>4. UNCHANGED <<server, bound, refused, batch>>
      BY <1>6 DEF Evict
    <2>5. Doing(a)'
      BY <2>2 DEF Doing, Stopping
    <2>8. ASSUME pc'[Restorer] # "idle", NEW u \in Creators, Live(u)'
          PROVE  Attended(row[u].port)'
      <3>1. row'[u] = row[u] /\ Live(u)
        BY <2>3, <2>8 DEF Live, Active, Rows
      <3>2. Attended(row[u].port)
        BY <1>1, <2>1, <2>2, <2>8, <3>1, Alone DEF Brings
      <3> QED
        BY <2>4, <3>1, <3>2 DEF Attended
    <2> QED
      BY <1>1, <2>1, <2>2, <2>4, <2>5, <2>8, AloneStep
  <1>7. CASE Insert(a)
    <2>1. Serial /\ pc[a] = "insert" /\ Busy(a)
      BY <1>7 DEF Insert, Serial, Busy
    <2>2. CASE Taken(port[a])
      <3>1. Goto(a, "done") /\ UNCHANGED <<row, net, batch, refused>>
        BY <1>7, <2>2 DEF Insert
      <3>2. Doing(a)'
        <4>1. pc'[a] = "done"
          BY <1>1, <3>1, GotoEffect
        <4> QED
          BY <4>1 DEF Doing, Stopping
      <3> QED
        BY <1>1, <2>1, <3>1, <3>2, AloneSame DEF Brings
    <2>3. CASE ~Taken(port[a])
      <3> DEFINE new == [target |-> Want[a], port |-> port[a], active |-> TRUE, expired |-> FALSE]
      <3>1. /\ Goto(a, "load") /\ row' = [row EXCEPT ![a] = new]
            /\ tunnel' = [tunnel EXCEPT ![a] = a] /\ UNCHANGED <<server, bound, refused, batch, port>>
        BY <1>7, <2>3 DEF Insert
      <3>2. /\ SerialFacts /\ pc'[a] = "load" /\ batch[Restorer] = {}
            /\ pc'[Restorer] = pc[Restorer]
            /\ \A p \in Ports : bound[p] = server[p]
        BY <1>1, <2>1, <3>1, Alone DEF Actors
      <3>4. /\ row'[a] = new /\ tunnel'[a] = a
            /\ \A u \in Creators \ {a} : row'[u] = row[u]
        BY <1>1, <3>1, TypeParts
      <3>5. new.port = port[a]
        OBVIOUS
      <3>6. new # None
        <4>1. port[a] \in Ports
          BY <1>1, <2>1 DEF ListenerInv, TypeInv, PortKnown
        <4>2. new \in Row
          BY <4>1, TunnelAssumption DEF Row
        <4> QED
          BY <4>2, TunnelAssumption
      <3> HIDE DEF new
      <3>8. Doing(a)'
        BY <3>1, <3>2, <3>4, <3>5, <3>6 DEF Doing, Stopping, Rows
      <3>9. ASSUME pc'[Restorer] # "idle", NEW u \in Creators, Live(u)'
            PROVE  Attended(row[u].port)' \/ Brings(a, u)'
        <4>1. CASE u = a
          BY <3>2, <3>4, <4>1 DEF Brings
        <4>2. CASE u # a
          <5>1. row'[u] = row[u] /\ Live(u)
            BY <3>4, <3>9, <4>2 DEF Live, Active, Rows
          <5>2. Attended(row[u].port)
            BY <1>1, <2>1, <3>1, <3>2, <3>9, <5>1, Alone DEF Brings
          <5> QED
            BY <3>1, <5>1, <5>2 DEF Attended
        <4> QED
          BY <4>1, <4>2
      <3> QED
        BY <1>1, <2>1, <3>1, <3>2, <3>8, <3>9, AloneStep
    <2> QED
      BY <2>1, <2>2, <2>3
  <1> QED
    BY <1>2, <1>3, <1>4, <1>5, <1>6, <1>7 DEF Create

\* What the restorer, at work, relies on of the rows it has read.
LEMMA RestoringIs ==
    ASSUME SerialFacts
    PROVE  \A s \in batch[Restorer] : s.tunnel \in Rows /\ row[s.tunnel].port = s.row.port
  BY DEF SerialFacts, Restoring

LEMMA SerialStart ==
    ASSUME SerialInv, NEW a \in Creators \cup {Restorer}, Start(a), Serial'
    PROVE  Serial /\ SerialFacts'
  <1> USE DEF db, net, bounds, locals, history
  <1>1. a \in Actors /\ a # Cleaner /\ TypeOK /\ ListenerInv
    BY TunnelAssumption DEF Actors, SerialInv, ListenerInv, TypeInv
  <1>2. Serial /\ Busy(a) /\ SerialFacts
    <2>1. overlaps' = overlaps /\ pc[a] \in Starting
      BY <1>1, StartEffect DEF Start, StartLoad, Listen, StartStore, Undo
    <2> QED
      BY <2>1 DEF Serial, Busy, Starting, SerialInv
  <1>3. /\ Doing(a) /\ pc[a] # "drop"
        /\ tunnel[a] \in Rows /\ row[tunnel[a]].port = port[a] /\ port[a] \in Ports
    <2>1. pc[a] \in Starting /\ Doing(a)
      BY <1>1, <1>2, StartEffect DEF SerialFacts
    <2> QED
      BY <1>1, <2>1 DEF Doing, Starting, ListenerInv, TypeInv, PortKnown
  <1>4. UNCHANGED <<tunnel, port, batch>>
    BY DEF Start, StartLoad, Listen, StartStore, Undo
  <1>5. AfterStart(a) \in {"next", "done"} /\ (a = Restorer => AfterStart(a) = "next")
    BY DEF AfterStart
  <1>7. \A u \in Creators : /\ Live(u)' => Live(u) /\ row'[u].port = row[u].port
                            /\ row[u] # None => row'[u] # None /\ row'[u].port = row[u].port
    <2>1. CASE row' = row
      BY <2>1 DEF Live, Active, Rows
    <2>2. CASE row' = Revoked(a)
      BY <1>1, <2>2, RevokedRow DEF Live, Active, Rows
    <2> QED
      BY <2>1, <2>2 DEF Start, StartLoad, Listen, StartStore, Undo
  <1>8. ASSUME NEW l \in {"listen", "store", "undo", AfterStart(a)}, Goto(a, l)
        PROVE  /\ pc'[a] = l
               /\ IF a = Restorer THEN Restoring' ELSE batch'[Restorer] = {}
    <2>1. pc'[a] = l /\ \A b \in Actors \ {a} : pc'[b] = pc[b]
      BY <1>1, <1>8, GotoEffect
    <2>2. CASE a = Restorer
      <3>1. \A s \in batch[Restorer] : s.tunnel \in Rows /\ row[s.tunnel].port = s.row.port
        BY <1>2, RestoringIs
      <3>2. \A s \in batch'[Restorer] : s.tunnel \in Rows' /\ row'[s.tunnel].port = s.row.port
        BY <1>4, <1>7, <3>1 DEF Rows
      <3> QED
        BY <1>5, <2>1, <2>2, <3>2 DEF Restoring, Busy
    <2>3. CASE a # Restorer
      BY <1>1, <1>2, <1>4, <1>8, <2>1, <2>3, Alone DEF Actors
    <2> QED
      BY <2>1, <2>2, <2>3, <1>5
  <1>9. CASE StartLoad(a)
    <2>1. pc[a] = "load" /\ UNCHANGED <<row, server, bound, refused>>
      BY <1>9 DEF StartLoad, Step
    <2>2. PICK l \in {"listen", AfterStart(a)} : Goto(a, l) /\ (server[port[a]] = None <=> l = "listen")
      BY <1>5, <1>9 DEF StartLoad, Step
    <2>3. pc'[a] = l
      BY <2>2, <1>8
    <2>4. \A p \in Ports : bound[p] = server[p]
      BY <1>1, <1>2, <2>1, <2>2, Alone
    <2>5. Doing(a)'
      BY <1>3, <1>4, <1>5, <2>1, <2>2, <2>3 DEF Doing, Stopping, Rows
    <2>6. ASSUME pc'[Restorer] # "idle", NEW u \in Creators, Live(u)'
          PROVE  \/ Attended(row[u].port)' \/ Brings(a, u)'
                 \/ \E s \in batch'[Restorer] : s.tunnel = u
      <3>1. pc[Restorer] # "idle" => \/ Attended(row[u].port) \/ Brings(a, u)
                                     \/ \E s \in batch[Restorer] : s.tunnel = u
        BY <1>1, <1>2, <1>7, <2>2, <2>6, Alone
      <3>2. pc[Restorer] # "idle"
        BY <1>1, <1>3, <2>1, <2>2, <2>6, GotoEffect DEF Actors
      <3>3. Attended(row[u].port) => Attended(row[u].port)'
        BY <1>4, <2>1 DEF Attended
      <3>4. Brings(a, u) => Brings(a, u)' \/ Attended(row[u].port)'
        BY <1>3, <1>4, <2>1, <2>2, <2>3, <2>4 DEF Brings, Attended
      <3> QED
        BY <1>4, <3>1, <3>2, <3>3, <3>4
    <2>7. \A p \in Ports : bound'[p] = server'[p]
      BY <2>1, <2>4
    <2> QED
      BY <1>1, <1>2, <1>8, <2>2, <2>5, <2>6, <2>7, AloneStep
  <1>10. CASE Listen(a)
    <2>1. pc[a] = "listen" /\ UNCHANGED <<row, server>>
      BY <1>10 DEF Listen
    <2>2. server[port[a]] = None
      BY <1>3, <2>1 DEF Doing
    <2>3. \A p \in Ports : bound[p] = server[p]
      <3>1. PICK l \in {"store", "undo"} : Goto(a, l)
        BY <1>10 DEF Listen
      <3> QED
        BY <1>1, <1>2, <2>1, <3>1, Alone
    <2>4. \A u \in Creators : Live(u)' => row[u].port \in Ports
      BY <1>1, <1>7, TypeParts DEF Live, Active, Rows, Row
    <2>5. ASSUME NEW l \in {"store", "undo"}, Goto(a, l), refused \subseteq refused',
                 \A p \in Ports \ {port[a]} : bound'[p] = bound[p],
                 pc'[Restorer] # "idle", NEW u \in Creators, Live(u)'
          PROVE  \/ Attended(row[u].port)' \/ Brings(a, u)'
                 \/ \E s \in batch'[Restorer] : s.tunnel = u
      <3>1. pc[Restorer] # "idle" => \/ Attended(row[u].port) \/ Brings(a, u)
                                     \/ \E s \in batch[Restorer] : s.tunnel = u
        BY <1>1, <1>2, <1>7, <2>5, Alone
      <3>2. pc[Restorer] # "idle"
        BY <1>1, <2>1, <2>5, GotoEffect DEF Actors
      <3>3. Attended(row[u].port) => Attended(row[u].port)'
        BY <2>1, <2>2, <2>4, <2>5 DEF Attended
      <3>4. Brings(a, u) => Brings(a, u)'
        BY <1>4, <1>8, <2>5 DEF Brings
      <3> QED
        BY <1>4, <3>1, <3>2, <3>3, <3>4
    <2>6. ASSUME Goto(a, "store"), bound' = [bound EXCEPT ![port[a]] = a], refused' = refused
          PROVE  SerialFacts'
      <3>1. pc'[a] = "store"
        BY <2>6, <1>8
      <3>2. Doing(a)'
        BY <1>3, <1>4, <2>1, <2>2, <3>1 DEF Doing, Stopping, Rows
      <3>3. \A p \in Ports \ {port[a]} : bound'[p] = bound[p]
        BY <1>1, <2>6, TypeParts
      <3>4. \A p \in Ports : bound'[p] = server'[p] \/ port'[a] = p
        BY <1>4, <2>1, <2>3, <3>3
      <3>5. ASSUME pc'[Restorer] # "idle", NEW u \in Creators, Live(u)'
            PROVE  \/ Attended(row[u].port)' \/ Brings(a, u)'
                   \/ \E s \in batch'[Restorer] : s.tunnel = u
        BY <2>5, <2>6, <3>3, <3>5
      <3> QED
        BY <1>1, <1>2, <1>8, <2>6, <3>2, <3>4, <3>5, AloneStep
    <2>7. ASSUME Goto(a, "undo"), bound' = bound, refused \subseteq refused',
                 tunnel[a] # a => port[a] \in refused'
          PROVE  SerialFacts'
      <3>1. pc'[a] = "undo"
        BY <2>7, <1>8
      <3>2. Doing(a)'
        BY <1>3, <1>4, <2>1, <2>7, <3>1 DEF Doing, Stopping, Rows
      <3>3. \A p \in Ports : bound'[p] = server'[p]
        BY <2>1, <2>3, <2>7
      <3>4. ASSUME pc'[Restorer] # "idle", NEW u \in Creators, Live(u)'
            PROVE  \/ Attended(row[u].port)' \/ Brings(a, u)'
                   \/ \E s \in batch'[Restorer] : s.tunnel = u
        BY <2>5, <2>7, <3>4
      <3> QED
        BY <1>1, <1>2, <1>8, <2>7, <3>2, <3>3, <3>4, AloneStep
    <2>8. /\ refused \subseteq refused \cup {port[a]}
          /\ port[a] \in refused \cup {port[a]}
      OBVIOUS
    <2>9. CASE bound' = [bound EXCEPT ![port[a]] = a] /\ Goto(a, "store") /\ refused' = refused
      BY <1>2, <2>6, <2>9
    <2>10. CASE /\ Goto(a, "undo") /\ bound' = bound
                /\ refused' = IF tunnel[a] = a THEN refused ELSE refused \cup {port[a]}
      BY <1>2, <2>7, <2>8, <2>10
    <2> QED
      BY <1>10, <2>9, <2>10 DEF Listen
  <1>11. CASE StartStore(a)
    <2>1. pc[a] = "store" /\ Goto(a, AfterStart(a))
      BY <1>11 DEF StartStore, Step
    <2>2. server[port[a]] = None /\ bound[port[a]] = a
      BY <1>1, <1>3, <2>1 DEF Doing, ListenerInv, StoresOwn
    <2>3. /\ server' = [server EXCEPT ![port[a]] = a] /\ bound' = bound
          /\ refused' = refused \ {port[a]} /\ row' = row
      BY <1>11, <2>2 DEF StartStore
    <2>4. pc'[a] = AfterStart(a)
      BY <2>1, <1>8
    <2>5. Doing(a)'
      BY <1>5, <2>4 DEF Doing, Stopping
    <2>6. \A p \in Ports : bound'[p] = server'[p]
      <3>1. \A p \in Ports : bound[p] = server[p] \/ port[a] = p
        BY <1>1, <1>2, <2>1, Alone
      <3> QED
        BY <1>1, <2>2, <2>3, <3>1, TypeParts
    <2>7. ASSUME pc'[Restorer] # "idle", NEW u \in Creators, Live(u)'
          PROVE  \/ Attended(row[u].port)'
                 \/ \E s \in batch'[Restorer] : s.tunnel = u
      <3>1. pc[Restorer] # "idle" => \/ Attended(row[u].port) \/ Brings(a, u)
                                     \/ \E s \in batch[Restorer] : s.tunnel = u
        BY <1>1, <1>2, <1>7, <2>1, <2>7, Alone
      <3>2. pc[Restorer] # "idle"
        BY <1>1, <2>1, <2>7, GotoEffect DEF Actors
      <3>3. row[u].port \in Ports
        BY <1>1, <1>7, <2>7, TypeParts DEF Live, Active, Rows, Row
      <3>4. Attended(row[u].port) \/ row[u].port = port[a] => Attended(row[u].port)'
        BY <1>1, <1>3, <1>4, <2>2, <2>3, <3>3, TypeParts, TunnelAssumption DEF Attended
      <3>5. Brings(a, u) => row[u].port = port[a]
        BY <1>3 DEF Brings
      <3> QED
        BY <1>4, <3>1, <3>2, <3>4, <3>5
    <2> QED
      BY <1>1, <1>2, <1>8, <2>1, <2>5, <2>6, <2>7, AloneStep
  <1>12. CASE Undo(a)
    <2>1. pc[a] = "undo" /\ Goto(a, AfterStart(a)) /\ UNCHANGED <<server, bound, refused>>
          /\ row' = IF tunnel[a] = a THEN Revoked(a) ELSE row
      BY <1>12 DEF Undo, Step
    <2>2. pc'[a] = AfterStart(a)
      BY <2>1, <1>8
    <2>3. Doing(a)'
      BY <1>5, <2>2 DEF Doing, Stopping
    <2>4. \A p \in Ports : bound'[p] = server'[p]
      BY <1>1, <1>2, <2>1, Alone
    <2>5. ASSUME pc'[Restorer] # "idle", NEW u \in Creators, Live(u)'
          PROVE  \/ Attended(row[u].port)'
                 \/ \E s \in batch'[Restorer] : s.tunnel = u
      <3>1. pc[Restorer] # "idle" => \/ Attended(row[u].port) \/ Brings(a, u)
                                     \/ \E s \in batch[Restorer] : s.tunnel = u
        BY <1>1, <1>2, <1>7, <2>1, <2>5, Alone
      <3>2. pc[Restorer] # "idle"
        BY <1>1, <2>1, <2>5, GotoEffect DEF Actors
      <3>3. Attended(row[u].port) => Attended(row[u].port)'
        BY <1>7, <2>1, <2>5 DEF Attended
      <3>4. tunnel[a] = a => u # a
        <4>1. tunnel[a] = a /\ u = a => ~row'[u].active
          BY <1>1, <1>3, <2>1, RevokedRow DEF Rows
        <4> QED
          BY <2>5, <4>1 DEF Live, Active
      <3>5. Brings(a, u) => Attended(row[u].port)
        BY <1>3, <2>1, <3>4 DEF Brings, Doing, Attended
      <3> QED
        BY <1>4, <3>1, <3>2, <3>3, <3>5
    <2> QED
      BY <1>1, <1>2, <1>8, <2>1, <2>3, <2>4, <2>5, AloneStep
  <1> QED
    BY <1>2, <1>9, <1>10, <1>11, <1>12 DEF Start

LEMMA SerialDelete ==
    ASSUME SerialInv, NEW d \in Deleters, Delete(d), Serial'
    PROVE  Serial /\ SerialFacts'
  <1> USE DEF db, net, bounds, locals, history
  <1>1. d \in Actors \ {Cleaner, Restorer} /\ TypeOK /\ ListenerInv
    BY TunnelAssumption DEF Actors, SerialInv, ListenerInv, TypeInv
  <1>2. CASE DeleteLookup(d)
    <2>1. Serial /\ Quiet /\ pc[d] = "idle" /\ Goto(d, "revoke")
      BY <1>1, <1>2, BeginsQuiet DEF DeleteLookup
    <2>2. PICK t \in Rows : /\ tunnel' = [tunnel EXCEPT ![d] = t]
                            /\ port' = [port EXCEPT ![d] = row[t].port]
      BY <1>2 DEF DeleteLookup
    <2>3. UNCHANGED <<row, net, batch, refused>>
      BY <1>2 DEF DeleteLookup
    <2>4. pc'[d] = "revoke" /\ tunnel'[d] = t /\ port'[d] = row[t].port
      BY <1>1, <2>1, <2>2, GotoEffect, TypeParts
    <2>5. Doing(d)'
      BY <2>2, <2>3, <2>4 DEF Doing, Stopping, Rows
    <2> QED
      BY <1>1, <2>1, <2>3, <2>5, AloneSame DEF Brings
  <1>3. CASE Revoke(d)
    <2> DEFINE t == tunnel[d]
    <2>1. Serial /\ Goto(d, "find") /\ pc[d] = "revoke" /\ Busy(d)
      BY <1>3 DEF Revoke, Step, Serial, Busy
    <2>2. /\ SerialFacts /\ pc'[d] = "find" /\ batch[Restorer] = {}
          /\ pc'[Restorer] = pc[Restorer]
          /\ \A p \in Ports : bound[p] = server[p]
      BY <1>1, <2>1, Alone DEF Actors
    <2>3. t \in Rows /\ row[t].port = port[d]
      BY <1>1, <2>1, <2>2 DEF SerialFacts, Doing
    <2>4. row' = Revoked(t) /\ UNCHANGED <<server, bound, refused, port, batch>>
      BY <1>3 DEF Revoke
    <2>6. ASSUME NEW u \in Creators, Live(u)'
          PROVE  Live(u) /\ row'[u].port = row[u].port /\ u # t
      <3>1. row'[u] # None /\ row'[u].active /\ ~row'[u].expired
        BY <2>6 DEF Live, Active, Rows
      <3>2. row[u] # None /\ row'[u].port = row[u].port /\ ~row[u].expired
        BY <1>1, <2>4, <3>1, RevokedRow
      <3>3. u # t /\ row[u].active
        BY <1>1, <2>4, <3>1, <3>2, RevokedRow
      <3> QED
        BY <3>1, <3>2, <3>3 DEF Live, Active, Rows
    <2>7. Doing(d)'
      <3>1. \A u \in Creators : Live(u)' => row'[u].port # port[d]
        BY <1>1, <2>3, <2>6 DEF ListenerInv, UniquePorts, Live, Active, Rows
      <3> QED
        BY <2>2, <2>4, <3>1 DEF Doing
    <2>8. ASSUME pc'[Restorer] # "idle", NEW u \in Creators, Live(u)'
          PROVE  Attended(row[u].port)'
      <3>1. Attended(row[u].port)
        BY <1>1, <2>1, <2>2, <2>6, <2>8, Alone DEF Brings
      <3> QED
        BY <2>4, <2>6, <2>8, <3>1 DEF Attended
    <2> QED
      BY <1>1, <2>1, <2>2, <2>4, <2>7, <2>8, AloneStep
  <1> QED
    BY <1>2, <1>3 DEF Delete

LEMMA SerialStop ==
    ASSUME SerialInv, NEW a \in Deleters \cup {Cleaner}, Stop(a), Serial'
    PROVE  Serial /\ SerialFacts'
  <1> USE DEF db, net, bounds, locals, history
  <1>1. a \in Actors \ {Restorer} /\ TypeOK /\ ListenerInv
    BY TunnelAssumption DEF Actors, SerialInv, ListenerInv, TypeInv
  <1>2. PICK l \in {"close", "drop", AfterStop(a)} : Goto(a, l)
    BY DEF Stop, StopFind, StopClose, StopDrop, Step
  <1>3. Serial /\ pc[a] \in Stopping /\ Busy(a)
    <2>1. overlaps' = overlaps /\ pc[a] \in Stopping
      BY DEF Stop, StopFind, StopClose, StopDrop, Step, Stopping
    <2> QED
      BY <2>1 DEF Serial, Busy, Stopping
  <1>4. /\ SerialFacts /\ pc'[a] = l /\ batch[Restorer] = {}
        /\ pc'[Restorer] = pc[Restorer]
    BY <1>1, <1>2, <1>3, Alone DEF Actors
  <1>5. UNCHANGED <<row, port, batch, refused>>
    BY DEF Stop, StopFind, StopClose, StopDrop
  <1>6. Doing(a) /\ port[a] \in Ports
    BY <1>1, <1>3, <1>4 DEF SerialFacts, ListenerInv, TypeInv, PortKnown
  <1>7. \A u \in Creators : Live(u)' => Live(u) /\ row[u].port # port[a]
    BY <1>3, <1>5, <1>6 DEF Doing, Live, Active, Rows
  <1>8. a = Cleaner => Cleaning'
    <2>1. a = Cleaner => l \in {"next"} \cup Stopping
      BY DEF AfterStop, Stopping
    <2>2. l # "mark"
      BY DEF AfterStop
    <2>3. a = Cleaner => \A s \in batch[Cleaner] : \A u \in Creators : Live(u) => row[u].port # s.row.port
      BY <1>3, <1>4 DEF SerialFacts, Cleaning
    <2> QED
      BY <1>4, <1>5, <1>7, <2>1, <2>2, <2>3 DEF Cleaning
  <1>10. ASSUME pc'[Restorer] # "idle", NEW u \in Creators, Live(u)'
         PROVE  Attended(row[u].port) /\ row'[u].port = row[u].port /\ row[u].port # port[a] /\ row[u].port \in Ports
    <2>1. Live(u) /\ row[u].port # port[a]
      BY <1>7, <1>10
    <2>2. Attended(row[u].port) \/ Brings(a, u)
      BY <1>1, <1>2, <1>3, <1>4, <1>10, <2>1, Alone
    <2>3. row[u].port \in Ports
      BY <1>1, <2>1, TypeParts DEF Live, Active, Rows, Row
    <2> QED
      BY <1>3, <1>5, <2>1, <2>2, <2>3 DEF Brings, Stopping
  <1>11. \A p \in Ports : bound[p] = server[p] \/ (pc[a] = "drop" /\ port[a] = p)
    BY <1>1, <1>2, <1>3, Alone DEF Stopping
  <1>12. AfterStop(a) \in {"next", "done"}
    BY DEF AfterStop
  <1>13. CASE StopFind(a)
    <2>1. pc[a] = "find" /\ UNCHANGED <<server, bound, refused>> /\ l # "drop"
      <3>1. Goto(a, IF server[port[a]] = None THEN AfterStop(a) ELSE "close")
        BY <1>13 DEF StopFind, Step
      <3>2. pc'[a] \in {"close", AfterStop(a)}
        BY <1>1, <3>1, GotoEffect
      <3> QED
        BY <1>4, <1>12, <1>13, <3>2 DEF StopFind, Step
    <2>2. held'[a] = server[port[a]]
      BY <1>1, <1>13, TypeParts DEF StopFind
    <2>3. Doing(a)'
      BY <1>4, <1>5, <1>7, <1>12, <2>1, <2>2 DEF Doing, Stopping
    <2>4. \A p \in Ports : bound'[p] = server'[p]
      BY <1>11, <2>1
    <2>5. ASSUME pc'[Restorer] # "idle", NEW u \in Creators, Live(u)'
          PROVE  Attended(row[u].port)'
      BY <1>10, <2>1, <2>5 DEF Attended
    <2> QED
      BY <1>1, <1>2, <1>3, <1>4, <1>5, <1>8, <2>3, <2>4, <2>5, AloneStep
  <1>14. CASE StopClose(a)
    <2>1. pc[a] = "close" /\ server' = server /\ pc'[a] = "drop"
      BY <1>1, <1>14, GotoEffect DEF StopClose, Step
    <2>2. held[a] = server[port[a]] /\ bound[port[a]] = server[port[a]]
      BY <1>6, <1>11, <2>1 DEF Doing
    <2>3. bound' = [bound EXCEPT ![port[a]] = None]
      BY <1>14, <2>2 DEF StopClose
    <2>4. Doing(a)'
      BY <1>1, <1>5, <1>6, <1>7, <2>1, <2>3, TypeParts DEF Doing, Stopping
    <2>5. \A p \in Ports : bound'[p] = server'[p] \/ (l = "drop" /\ port'[a] = p)
      BY <1>1, <1>4, <1>5, <1>11, <2>1, <2>3, TypeParts
    <2>6. ASSUME pc'[Restorer] # "idle", NEW u \in Creators, Live(u)'
          PROVE  Attended(row[u].port)'
      BY <1>1, <1>5, <1>10, <2>1, <2>3, <2>6, TypeParts DEF Attended
    <2> QED
      BY <1>1, <1>2, <1>3, <1>4, <1>5, <1>8, <2>4, <2>5, <2>6, AloneStep
  <1>15. CASE StopDrop(a)
    <2>1. pc[a] = "drop" /\ bound' = bound /\ pc'[a] = AfterStop(a)
      BY <1>1, <1>15, GotoEffect DEF StopDrop, Step
    <2>2. bound[port[a]] = None /\ server' = [server EXCEPT ![port[a]] = None]
      BY <1>6, <1>15, <2>1 DEF Doing, StopDrop
    <2>3. Doing(a)'
      BY <1>12, <2>1 DEF Doing, Stopping
    <2>4. \A p \in Ports : bound'[p] = server'[p]
      BY <1>1, <1>6, <1>11, <2>1, <2>2, TypeParts
    <2>5. ASSUME pc'[Restorer] # "idle", NEW u \in Creators, Live(u)'
          PROVE  Attended(row[u].port)'
      BY <1>1, <1>5, <1>10, <2>1, <2>2, <2>5, TypeParts DEF Attended
    <2> QED
      BY <1>1, <1>2, <1>3, <1>4, <1>5, <1>8, <2>3, <2>4, <2>5, AloneStep
  <1> QED
    BY <1>3, <1>13, <1>14, <1>15 DEF Stop

LEMMA SerialClean ==
    ASSUME SerialInv, Clean, Serial'
    PROVE  Serial /\ SerialFacts'
  <1> USE DEF db, net, bounds, locals, history
  <1>1. Cleaner \in Actors \ {Restorer} /\ TypeOK /\ ListenerInv /\ UniquePorts
    BY TunnelAssumption DEF Actors, SerialInv, ListenerInv, TypeInv
  <1>2. PICK l \in {"mark", "next", "find", "idle"} : Goto(Cleaner, l)
    BY DEF Clean, CleanSelect, CleanMark, CleanNext, CleanEnd, Step
  <1>3. Serial /\ (Busy(Cleaner) \/ Quiet) /\ pc[Cleaner] \in {"idle", "mark", "next"}
    <2>1. CASE CleanSelect
      BY <1>1, <2>1, BeginsQuiet DEF CleanSelect
    <2>2. CASE ~CleanSelect
      BY <2>2 DEF Clean, CleanMark, CleanNext, CleanEnd, Step, Serial, Busy
    <2> QED
      BY <2>1, <2>2
  <1>4. /\ SerialFacts /\ pc'[Cleaner] = l /\ batch[Restorer] = {}
        /\ pc'[Restorer] = pc[Restorer]
        /\ \A p \in Ports : bound[p] = server[p]
        /\ \A t : ~Brings(Cleaner, t)
    BY <1>1, <1>2, <1>3, Alone DEF Actors, Brings
  <1>5. UNCHANGED <<net, refused>> /\ batch'[Restorer] = {}
    BY <1>1, <1>4, TypeParts DEF Clean, CleanSelect, CleanMark, CleanNext, CleanEnd
  <1>6. \A u \in Creators : Live(u)' => Live(u) /\ row'[u].port = row[u].port
    <2>1. CASE row' = row
      BY <2>1 DEF Live, Active, Rows
    <2>2. CASE CleanMark
      <3>1. \A u \in Creators : row'[u] = row[u] \/ row'[u] = Revoked(u)[u]
        BY <2>2 DEF CleanMark
      <3>2. \A u \in Creators : /\ row'[u] # None <=> row[u] # None
                                /\ row[u] # None => /\ row'[u].port = row[u].port
                                                    /\ row'[u].expired = row[u].expired
                                                    /\ row'[u].active => row[u].active
        BY <1>1, <3>1, RevokedRow
      <3> QED
        BY <3>2 DEF Live, Active, Rows
    <2> QED
      BY <2>1, <2>2 DEF Clean, CleanSelect, CleanNext, CleanEnd
  <1>7. ASSUME pc'[Restorer] # "idle", NEW u \in Creators, Live(u)'
        PROVE  Attended(row[u].port)'
    <2>1. Attended(row[u].port)
      BY <1>1, <1>2, <1>3, <1>4, <1>6, <1>7, Alone
    <2> QED
      BY <1>5, <1>6, <1>7, <2>1 DEF Attended
  <1>9. Cleaning' /\ Doing(Cleaner)'
    <2>1. CASE CleanSelect
      <3> DEFINE expired == {t \in Rows : row[t].active /\ row[t].expired}
      <3>1. pc'[Cleaner] = "mark" /\ batch'[Cleaner] = Snapshot(expired) /\ row' = row
        BY <1>1, <2>1, GotoEffect, TypeParts DEF CleanSelect
      <3>2. \A s \in Snapshot(expired) : s.tunnel \in expired /\ s.row = row[s.tunnel]
        BY <1>1, SnapshotRows
      <3>3. Cleaning'
        BY <3>1, <3>2 DEF Cleaning, Rows, Stopping
      <3>4. Doing(Cleaner)'
        BY <3>1 DEF Doing, Stopping
      <3> QED
        BY <3>3, <3>4
    <2>2. CASE CleanMark
      <3>1. pc'[Cleaner] = "next" /\ pc[Cleaner] = "mark" /\ batch' = batch
        BY <1>1, <2>2, GotoEffect DEF CleanMark, Step
      <3>2. ASSUME NEW s \in batch[Cleaner], NEW u \in Creators, Live(u)', row'[u].port = s.row.port
            PROVE  FALSE
        <4>1. s.tunnel \in Rows /\ row[s.tunnel].port = s.row.port /\ row[s.tunnel].expired
          BY <1>4, <3>1 DEF SerialFacts, Cleaning
        <4>2. u = s.tunnel
          BY <1>1, <1>6, <3>2, <4>1 DEF UniquePorts, Live, Active, Rows
        <4>3. u \in Marked /\ row[u] # None
          BY <4>1, <4>2 DEF Marked, Rows
        <4>4. row'[u] = Revoked(u)[u]
          BY <2>2, <4>3 DEF CleanMark
        <4>5. ~row'[u].active
          BY <1>1, <4>3, <4>4, RevokedRow
        <4> QED
          BY <3>2, <4>5 DEF Live, Active
      <3>3. Cleaning'
        BY <3>1, <3>2 DEF Cleaning
      <3>4. Doing(Cleaner)'
        BY <3>1 DEF Doing, Stopping
      <3> QED
        BY <3>3, <3>4
    <2>3. ASSUME NEW s \in batch[Cleaner], CleanNext(s) PROVE Cleaning' /\ Doing(Cleaner)'
      <3>1. pc'[Cleaner] = "find" /\ pc[Cleaner] = "next" /\ row' = row
        BY <1>1, <2>3, GotoEffect DEF CleanNext, Step
      <3>2. batch'[Cleaner] \subseteq batch[Cleaner] /\ port'[Cleaner] = s.row.port
        BY <1>1, <2>3, TypeParts DEF CleanNext
      <3>3. \A r \in batch[Cleaner] : \A u \in Creators : Live(u) => row[u].port # r.row.port
        BY <1>4, <3>1 DEF SerialFacts, Cleaning
      <3>4. \A r \in batch[Cleaner] : \A u \in Creators : Live(u)' => row'[u].port # r.row.port
        BY <1>6, <3>3
      <3>5. Cleaning'
        BY <3>1, <3>2, <3>4 DEF Cleaning
      <3>6. Doing(Cleaner)'
        BY <3>1, <3>2, <3>4 DEF Doing
      <3> QED
        BY <3>5, <3>6
    <2>4. CASE CleanEnd
      <3>1. pc'[Cleaner] = "idle"
        BY <1>1, <2>4, GotoEffect DEF CleanEnd, Step
      <3> QED
        BY <3>1 DEF Cleaning, Doing, Stopping
    <2> QED
      BY <2>1, <2>2, <2>3, <2>4 DEF Clean
  <1>10. \A p \in Ports : bound'[p] = server'[p]
    BY <1>4, <1>5
  <1> QED
    BY <1>1, <1>2, <1>3, <1>5, <1>7, <1>9, <1>10, AloneStep

LEMMA SerialRestoreList ==
    ASSUME SerialInv, RestoreList, Serial'
    PROVE  Serial /\ SerialFacts'
  <1> USE DEF db, net, history
  <1> DEFINE act == {t \in Rows : row[t].active}
  <1>1. /\ Restorer \in Actors /\ Restorer # Cleaner /\ TypeOK
        /\ Serial /\ Quiet /\ Goto(Restorer, "next")
    BY BeginsQuiet, TunnelAssumption
    DEF Actors, SerialInv, ListenerInv, TypeInv, RestoreList
  <1>2. pc'[Restorer] = "next" /\ SerialFacts /\ \A p \in Ports : bound[p] = server[p]
    BY <1>1, Alone DEF Quiet
  <1>3. UNCHANGED <<row, server, bound, refused>> /\ batch'[Restorer] = Snapshot(act)
    BY <1>1, TypeParts DEF RestoreList
  <1>4. /\ \A s \in Snapshot(act) : s.tunnel \in act /\ s.row = row[s.tunnel]
        /\ \A t \in act : \E s \in Snapshot(act) : s.tunnel = t
    BY <1>1, SnapshotRows
  <1>5. Restoring' /\ Doing(Restorer)'
    BY <1>2, <1>3, <1>4 DEF Restoring, Busy, Doing, Stopping, Rows
  <1>6. ASSUME NEW u \in Creators, Live(u)' PROVE \E s \in batch'[Restorer] : s.tunnel = u
    BY <1>3, <1>4, <1>6 DEF Live, Active, Rows
  <1> QED
    BY <1>1, <1>2, <1>3, <1>5, <1>6, AloneStep

LEMMA SerialRestoreEnd ==
    ASSUME SerialInv, RestoreEnd, Serial'
    PROVE  Serial /\ SerialFacts'
  <1> USE DEF db, net, locals, bounds, history
  <1>1. /\ Restorer \in Actors /\ Restorer # Cleaner
        /\ Serial /\ Busy(Restorer) /\ Goto(Restorer, "done") /\ pc[Restorer] = "next"
    BY TunnelAssumption DEF Actors, RestoreEnd, Step, Serial, Busy
  <1>2. /\ pc'[Restorer] = "done" /\ SerialFacts /\ \A p \in Ports : bound[p] = server[p]
    BY <1>1, Alone
  <1>3. UNCHANGED <<row, server, bound, refused, batch>> /\ batch[Restorer] = {}
    BY DEF RestoreEnd
  <1>4. Restoring' /\ Doing(Restorer)'
    BY <1>2, <1>3 DEF Restoring, Doing, Stopping
  <1>5. ASSUME NEW u \in Creators, Live(u)' PROVE Attended(row[u].port)'
    <2>1. Live(u)
      BY <1>3, <1>5 DEF Live, Active, Rows
    <2>2. Attended(row[u].port)
      BY <1>1, <1>3, <2>1, Alone DEF Brings
    <2> QED
      BY <1>3, <2>2 DEF Attended
  <1> QED
    BY <1>1, <1>2, <1>3, <1>4, <1>5, AloneStep

\* A row at a time; the others are not touched, for they have other ports.
LEMMA SerialRestoreNext ==
    ASSUME SerialInv, NEW s \in batch[Restorer], RestoreNext(s), Serial'
    PROVE  Serial /\ SerialFacts'
  <1> USE DEF db, net, bounds, history
  <1> DEFINE t == s.tunnel
  <1>1. /\ Restorer \in Actors /\ Restorer # Cleaner /\ TypeOK /\ UniquePorts
        /\ Serial /\ Busy(Restorer) /\ pc[Restorer] = "next"
    BY TunnelAssumption
    DEF Actors, RestoreNext, Serial, Busy, SerialInv, ListenerInv, TypeInv
  <1>2. PICK l \in {"next", "load"} : /\ Goto(Restorer, l) \/ (UNCHANGED pc /\ l = pc[Restorer])
                                      /\ l = "load" => /\ row' = row /\ tunnel' = [tunnel EXCEPT ![Restorer] = t]
                                                       /\ port' = [port EXCEPT ![Restorer] = s.row.port]
                                      /\ l = "next" => row' = Revoked(t) \/ row' = [row EXCEPT ![t] = None]
    <2>1. CASE pc' = pc /\ (row' = Revoked(t) \/ row' = [row EXCEPT ![t] = None])
      BY <1>1, <2>1
    <2>2. CASE /\ Goto(Restorer, "load") /\ row' = row
               /\ tunnel' = [tunnel EXCEPT ![Restorer] = t]
               /\ port' = [port EXCEPT ![Restorer] = s.row.port]
      BY <2>2
    <2> QED
      BY <2>1, <2>2 DEF RestoreNext
  <1>3. /\ pc'[Restorer] = l /\ SerialFacts /\ \A p \in Ports : bound[p] = server[p]
    BY <1>1, <1>2, Alone
  <1>4. UNCHANGED <<server, bound, refused>> /\ batch'[Restorer] = batch[Restorer] \ {s}
    BY <1>1, TypeParts DEF RestoreNext
  <1>5. /\ \A r \in batch[Restorer] : r.tunnel \in Rows /\ row[r.tunnel].port = r.row.port
        /\ \A r \in batch[Restorer] \ {s} : r.tunnel # t
    BY <1>1, <1>3, RestoringIs DEF UniquePorts
  <1>6. \A u \in Creators :
          /\ row'[u] # None => /\ row[u] # None /\ row'[u].port = row[u].port
                               /\ row'[u].expired = row[u].expired
                               /\ row'[u].active => row[u].active
                               /\ l = "next" /\ row'[u].active => u # t
          /\ row[u] # None /\ u # t => row'[u] # None
    <2>1. CASE row' = row /\ l = "load"
      BY <2>1
    <2>2. CASE row' = Revoked(t)
      BY <1>1, <2>2, RevokedRow
    <2>3. CASE row' = [row EXCEPT ![t] = None]
      BY <1>1, <2>3, TypeParts
    <2> QED
      BY <1>2, <2>1, <2>2, <2>3
  <1>8. Restoring'
    <2>1. \A r \in batch'[Restorer] : r.tunnel \in Rows' /\ row'[r.tunnel].port = r.row.port
      BY <1>4, <1>5, <1>6 DEF Rows
    <2> QED
      BY <1>3, <2>1 DEF Restoring, Busy
  <1>9. Doing(Restorer)'
    <2>1. CASE l = "next"
      BY <1>3, <2>1 DEF Doing, Stopping
    <2>2. CASE l = "load"
      <3>1. tunnel'[Restorer] = t /\ port'[Restorer] = s.row.port /\ row' = row
        BY <1>1, <1>2, <2>2, TypeParts
      <3> QED
        BY <1>3, <1>5, <2>2, <3>1 DEF Doing, Stopping, Rows
    <2> QED
      BY <2>1, <2>2
  <1>10. ASSUME NEW u \in Creators, Live(u)'
         PROVE  \/ Attended(row[u].port)' \/ Brings(Restorer, u)'
                \/ \E r \in batch'[Restorer] : r.tunnel = u
    <2>1. Live(u) /\ row'[u].port = row[u].port /\ (l = "next" => u # t)
      BY <1>6, <1>10 DEF Live, Active, Rows
    <2>2. Attended(row[u].port) \/ \E r \in batch[Restorer] : r.tunnel = u
      BY <1>1, <1>2, <2>1, Alone DEF Brings
    <2>3. Attended(row[u].port) => Attended(row[u].port)'
      BY <1>4, <2>1 DEF Attended
    <2>4. l = "load" /\ u = t => Brings(Restorer, u)'
      BY <1>1, <1>2, <1>3, TypeParts DEF Brings
    <2> QED
      BY <1>4, <2>1, <2>2, <2>3, <2>4
  <1>11. \A p \in Ports : bound'[p] = server'[p]
    BY <1>3, <1>4
  <1> QED
    BY <1>1, <1>2, <1>8, <1>9, <1>10, <1>11, AloneStep

LEMMA SerialRestore ==
    ASSUME SerialInv, Restore, Serial'
    PROVE  Serial /\ SerialFacts'
  BY SerialRestoreList, SerialRestoreEnd, SerialRestoreNext DEF Restore

\* Time passes, or nothing that matters here happens.
LEMMA SerialTime ==
    ASSUME SerialInv, Serial, UNCHANGED <<net, pc, tunnel, port, held, refused>>,
           NEW t \in Creators,
           \/ UNCHANGED <<row, batch>>
           \/ Live(t) /\ row' = [row EXCEPT ![t].expired = TRUE] /\ batch' = DeadlinePassed(t)
    PROVE  SerialFacts'
  <1> USE DEF net, history
  <1>1. SerialFacts /\ TypeOK /\ {Cleaner, Restorer} \subseteq Actors
    BY DEF SerialInv, ListenerInv, TypeInv, Actors
  <1>2. \A u \in Creators :
          /\ row'[u] # None <=> row[u] # None
          /\ row[u] # None => /\ row'[u].port = row[u].port
                              /\ row[u].expired => row'[u].expired
                              /\ row'[u].active = row[u].active
    <2>1. CASE row' = row
      BY <2>1
    <2>2. CASE Live(t) /\ row' = [row EXCEPT ![t].expired = TRUE]
      <3>1. row[t] \in Row
        BY <1>1, <2>2, TypeParts DEF Live, Active, Rows
      <3>2. LET r == [row[t] EXCEPT !.expired = TRUE] IN
            r \in Row /\ r.port = row[t].port
            /\ r.expired /\ r.active = row[t].active
        BY <3>1 DEF Row
      <3>3. /\ row'[t] = [row[t] EXCEPT !.expired = TRUE]
            /\ \A u \in Creators \ {t} : row'[u] = row[u]
        BY <1>1, <2>2, TypeParts
      <3> QED
        BY <3>1, <3>2, <3>3, TunnelAssumption
    <2> QED
      BY <2>1, <2>2
  <1>3. /\ batch'[Cleaner] = batch[Cleaner]
        /\ \A s \in batch[Restorer] : \E r \in batch'[Restorer] :
             r.tunnel = s.tunnel /\ r.row.port = s.row.port
        /\ \A r \in batch'[Restorer] : \E s \in batch[Restorer] :
             r.tunnel = s.tunnel /\ r.row.port = s.row.port
    BY <1>1, Deadlines
  <1>4. \A u \in Creators : Live(u)' => Live(u) /\ row'[u].port = row[u].port
    BY <1>2 DEF Live, Active, Rows
  <1>5. Rows' = Rows /\ Rows \subseteq Creators
    BY <1>2 DEF Rows
  <1>6. OneAtATime' /\ Coherent'
    BY <1>1 DEF SerialFacts, OneAtATime, Busy, Coherent
  <1>7. LiveServed'
    <2> SUFFICES ASSUME pc'[Restorer] # "idle", NEW u \in Creators, Live(u)'
                 PROVE  \/ Attended(row[u].port)' \/ \E a \in Actors : Brings(a, u)'
                        \/ \E s \in batch'[Restorer] : s.tunnel = u
      BY DEF LiveServed
    <2>1. \/ Attended(row[u].port) \/ \E a \in Actors : Brings(a, u)
          \/ \E s \in batch[Restorer] : s.tunnel = u
      BY <1>1, <1>4 DEF SerialFacts, LiveServed
    <2>2. Attended(row[u].port) => Attended(row[u].port)'
      BY <1>4 DEF Attended
    <2>3. \A a \in Actors : Brings(a, u) => Brings(a, u)'
      BY DEF Brings
    <2> QED
      BY <1>3, <2>1, <2>2, <2>3
  <1>8. Cleaning'
    <2>1. ASSUME pc'[Cleaner] = "mark", NEW s \in batch'[Cleaner]
          PROVE  s.tunnel \in Rows' /\ row'[s.tunnel].port = s.row.port /\ row'[s.tunnel].expired
      <3>1. s.tunnel \in Rows /\ row[s.tunnel].port = s.row.port /\ row[s.tunnel].expired
        BY <1>1, <1>3, <2>1 DEF SerialFacts, Cleaning
      <3> QED
        BY <1>2, <1>5, <3>1 DEF Rows
    <2>2. ASSUME pc'[Cleaner] \in {"next"} \cup Stopping, NEW s \in batch'[Cleaner],
                 NEW u \in Creators, Live(u)'
          PROVE  row'[u].port # s.row.port
      BY <1>1, <1>3, <1>4, <2>2 DEF SerialFacts, Cleaning
    <2> QED
      BY <2>1, <2>2 DEF Cleaning
  <1>9. Restoring'
    <2>1. ~Busy(Restorer)' => batch'[Restorer] = {}
      BY <1>1, <1>3 DEF SerialFacts, Restoring, Busy
    <2>2. ASSUME NEW r \in batch'[Restorer]
          PROVE  r.tunnel \in Rows' /\ row'[r.tunnel].port = r.row.port
      <3>1. r.tunnel \in Rows /\ row[r.tunnel].port = r.row.port
        BY <1>1, <1>3, RestoringIs
      <3> QED
        BY <1>2, <1>5, <3>1 DEF Rows
    <2> QED
      BY <2>1, <2>2 DEF Restoring
  <1>10. ASSUME NEW a \in Actors PROVE Doing(a)'
    <2>1. Doing(a)
      BY <1>1 DEF SerialFacts
    <2>2. tunnel[a] \in Rows => tunnel'[a] \in Rows' /\ row'[tunnel'[a]].port = row[tunnel[a]].port
      BY <1>2, <1>5 DEF Rows
    <2>3. (\A u \in Creators : Live(u) => row[u].port # port[a])
            => \A u \in Creators : Live(u)' => row'[u].port # port'[a]
      BY <1>4
    <2> QED
      BY <2>1, <2>2, <2>3 DEF Doing
  <1> QED
    BY <1>6, <1>7, <1>8, <1>9, <1>10 DEF SerialFacts

LEMMA SerialRestart ==
    ASSUME SerialInv, Restart, Serial'
    PROVE  Serial /\ SerialFacts'
  <1> USE DEF db, history
  <1>1. Serial /\ SerialFacts /\ {Cleaner, Restorer} \subseteq Actors
    BY DEF Restart, Serial, SerialInv, Actors
  <1>2. /\ \A a \in Actors : pc'[a] \in {"idle", "done"}
        /\ pc'[Restorer] = "idle" /\ batch'[Restorer] = {} /\ row' = row
        /\ \A p \in Ports : bound'[p] = server'[p]
    BY <1>1 DEF Restart
  <1>4. OneAtATime' /\ Cleaning' /\ Restoring'
    BY <1>1, <1>2 DEF OneAtATime, Busy, Cleaning, Restoring, Stopping
  <1>5. Coherent' /\ LiveServed'
    BY <1>2 DEF Coherent, LiveServed
  <1>6. \A a \in Actors : Doing(a)'
    BY <1>2 DEF Doing, Stopping
  <1> QED
    BY <1>1, <1>4, <1>5, <1>6 DEF SerialFacts

LEMMA SerialStill ==
    ASSUME SerialInv, Serial, UNCHANGED <<row, net, pc, locals, refused>>
    PROVE  SerialFacts'
  BY DEF net, locals, SerialInv, SerialFacts, OneAtATime, Busy, Rows, Coherent, LiveServed,
     Live, Active, Attended, Brings, Cleaning, Restoring, Doing

LEMMA SerialWorld ==
    ASSUME SerialInv, World, Serial'
    PROVE  Serial /\ SerialFacts'
  <1> USE DEF db, bounds, locals, history
  <1>1. ASSUME NEW t \in Creators, Expire(t) PROVE Serial /\ SerialFacts'
    BY <1>1, SerialTime DEF Expire, Serial
  <1>2. ASSUME NEW x \in Targets, DeviceComes(x) \/ DeviceGoes(x) PROVE Serial /\ SerialFacts'
    BY <1>2, SerialStill DEF DeviceComes, DeviceGoes, Serial
  <1> QED
    BY <1>1, <1>2, SerialRestart DEF World

LEMMA SerialNext == SerialInv /\ [Next]_vars => SerialInv'
  <1> SUFFICES ASSUME SerialInv, [Next]_vars, Serial' PROVE SerialFacts'
    BY ListenerNext DEF SerialInv
  <1>1. CASE Next
    BY <1>1, SerialCreate, SerialStart, SerialDelete, SerialStop, SerialClean, SerialRestore,
       SerialWorld DEF Next
  <1>2. CASE UNCHANGED vars
    <2>1. Serial /\ UNCHANGED <<row, net, pc, locals, refused>>
      BY <1>2 DEF vars, db, bounds, history, Serial
    <2> QED
      BY <2>1, SerialStill
  <1> QED
    BY <1>1, <1>2

LEMMA SerialAlways == Spec => []SerialInv
  BY SerialInit, SerialNext, PTL DEF Spec

\* Of operations that come one after the other, a live tunnel is served: when
\* none is in progress and the restoration of the last start is over, its port
\* is listened on, by the listener that the table names.
THEOREM LiveIsServed == Spec => []LiveTunnelServed
  <1>1. SerialInv => LiveTunnelServed
    <2> SUFFICES ASSUME SerialInv, Settled, Serial, NEW t \in Creators, Live(t)
                 PROVE  Attended(row[t].port)
      BY DEF LiveTunnelServed, Attended
    <2>1. SerialFacts /\ Restorer \in Actors
      BY DEF SerialInv, Actors
    <2>2. pc[Restorer] = "done" /\ batch[Restorer] = {}
      BY <2>1 DEF Settled, SerialFacts, Restoring, Busy
    <2>3. \A a \in Actors : ~Brings(a, t)
      BY DEF Settled, Quiet, Brings
    <2> QED
      BY <2>1, <2>2, <2>3 DEF SerialFacts, LiveServed
  <1> QED
    BY <1>1, SerialAlways, PTL

(***************************************************************************)
(* The rows of one target.                                                 *)
(***************************************************************************)

Searching == {"allocate", "evict", "insert"}

\* A request that has found no row of its target overlaps whoever has inserted
\* one since.
Twins ==
    /\ OneTunnelPerTarget
    /\ \A a \in Creators : pc[a] \in Searching =>
         \A t \in Rows : row[t].target = Want[a] => {t, a} \in together

TwinsInv == TypeInv /\ Twins

\* The rows after a step are rows from before it, each of the same target.
TargetsKept ==
    \A t \in Creators : row'[t] # None => row[t] # None /\ row'[t].target = row[t].target

\* Who begins to look for a port has found no row of its target.
SearchedFirst ==
    \A a \in Creators : pc'[a] \in Searching => pc[a] \in Searching \/ SameTarget(a) = {}

LEMMA TwinsKept ==
    ASSUME Twins, TargetsKept, SearchedFirst, together' = together
    PROVE  Twins'
  <1>1. ASSUME NEW t \in Creators, row'[t] # None
        PROVE  t \in Rows /\ row'[t].target = row[t].target
    BY <1>1 DEF TargetsKept, Rows
  <1>2. ASSUME NEW t \in Rows', NEW u \in Rows', row'[t].target = row'[u].target
        PROVE  t = u \/ {t, u} \in together'
    <2>1. t \in Rows /\ u \in Rows /\ row[t].target = row[u].target
      BY <1>1, <1>2 DEF Rows
    <2> QED
      BY <2>1 DEF Twins, OneTunnelPerTarget
  <1>3. ASSUME NEW a \in Creators, pc'[a] \in Searching, NEW t \in Rows', row'[t].target = Want[a]
        PROVE  {t, a} \in together'
    <2>1. t \in Rows /\ row[t].target = Want[a]
      BY <1>1, <1>3 DEF Rows
    <2>2. pc[a] \in Searching
      BY <1>3, <2>1 DEF SearchedFirst, SameTarget
    <2> QED
      BY <1>3, <2>1, <2>2 DEF Twins
  <1>4. OneTunnelPerTarget'
    BY <1>2 DEF OneTunnelPerTarget
  <1> QED
    BY <1>3, <1>4 DEF Twins

LEMMA RevokedTarget ==
    ASSUME TypeOK, NEW t \in Creators \cup {None}, row' = Revoked(t)
    PROVE  TargetsKept
  <1> SUFFICES ASSUME NEW u \in Creators, row'[u] # None
               PROVE  row[u] # None /\ row'[u].target = row[u].target
    BY DEF TargetsKept
  <1>1. row \in [Creators -> Row \cup {None}] /\ None \notin Row
    BY TunnelAssumption DEF TypeOK
  <1>2. CASE u = t
    BY <1>1, <1>2 DEF Revoked, Row
  <1>3. CASE u # t
    BY <1>1, <1>3 DEF Revoked
  <1> QED
    BY <1>2, <1>3

\* A step of one goroutine that inserts nothing.
LEMMA TwinsGoto ==
    ASSUME TypeOK, Twins, TargetsKept, together' = together, NEW a \in Actors, NEW l,
           Goto(a, l), a \in Creators /\ l \in Searching => pc[a] \in Searching \/ SameTarget(a) = {}
    PROVE  Twins'
  <1>1. pc'[a] = l /\ \A b \in Actors \ {a} : pc'[b] = pc[b]
    BY GotoEffect
  <1>2. SearchedFirst
    BY <1>1 DEF SearchedFirst, Actors
  <1> QED
    BY <1>2, TwinsKept

LEMMA TwinsInsert ==
    ASSUME TwinsInv, NEW a \in Creators, Insert(a)
    PROVE  Twins'
  <1>1. TypeOK /\ Twins /\ a \in Actors /\ pc[a] = "insert"
    BY DEF TwinsInv, TypeInv, Insert, Actors
  <1>2. CASE Taken(port[a])
    <2>1. Goto(a, "done") /\ row' = row /\ together' = together
      BY <1>2 DEF Insert
    <2> QED
      BY <1>1, <2>1, TwinsGoto DEF TargetsKept, Searching
  <1>3. CASE ~Taken(port[a])
    <2> DEFINE new == [target |-> Want[a], port |-> port[a], active |-> TRUE, expired |-> FALSE]
    <2>1. /\ Goto(a, "load") /\ row' = [row EXCEPT ![a] = new]
          /\ together' = together \cup {{a, b} : b \in Overlapping(a)}
      BY <1>3 DEF Insert
    <2>2. /\ pc'[a] = "load"
          /\ \A b \in Creators \ {a} : pc'[b] = pc[b]
      BY <1>1, <2>1, GotoEffect DEF Actors
    <2>3. row'[a] = new /\ \A t \in Creators \ {a} : row'[t] = row[t]
      BY <1>1, <2>1, TypeParts
    <2>4. new.target = Want[a]
      OBVIOUS
    <2> HIDE DEF new
    <2>5. \A t \in Rows : row[t].target = Want[a] => {t, a} \in together
      BY <1>1 DEF Twins, Searching
    <2>6. ASSUME NEW t \in Rows', NEW u \in Rows', row'[t].target = row'[u].target, t # u
          PROVE  {t, u} \in together'
      <3>1. CASE t = a
        <4>1. u \in Rows /\ row[u].target = Want[a]
          BY <2>3, <2>4, <2>6, <3>1 DEF Rows
        <4> QED
          BY <2>1, <2>5, <3>1, <4>1
      <3>2. CASE u = a
        <4>1. t \in Rows /\ row[t].target = Want[a]
          BY <2>3, <2>4, <2>6, <3>2 DEF Rows
        <4> QED
          BY <2>1, <2>5, <3>2, <4>1
      <3>3. CASE t # a /\ u # a
        <4>1. t \in Rows /\ u \in Rows /\ row[t].target = row[u].target
          BY <2>3, <2>6, <3>3 DEF Rows
        <4> QED
          BY <1>1, <2>1, <2>6, <4>1 DEF Twins, OneTunnelPerTarget
      <3> QED
        BY <3>1, <3>2, <3>3
    <2>7. ASSUME NEW b \in Creators, pc'[b] \in Searching, NEW t \in Rows', row'[t].target = Want[b]
          PROVE  {t, b} \in together'
      <3>1. b # a /\ pc[b] \in Searching
        BY <2>2, <2>7 DEF Searching
      <3>2. CASE t = a
        <4>1. b \in Overlapping(a)
          BY <2>3, <2>4, <2>7, <3>1, <3>2 DEF Overlapping, Searching
        <4> QED
          BY <2>1, <3>2, <4>1
      <3>3. CASE t # a
        <4>1. t \in Rows /\ row[t].target = Want[b]
          BY <2>3, <2>7, <3>3 DEF Rows
        <4> QED
          BY <1>1, <2>1, <2>7, <3>1, <4>1 DEF Twins
      <3> QED
        BY <3>2, <3>3
    <2>8. OneTunnelPerTarget'
      BY <2>6 DEF OneTunnelPerTarget
    <2> QED
      BY <2>7, <2>8 DEF Twins
  <1> QED
    BY <1>2, <1>3

LEMMA TwinsCreate ==
    ASSUME TwinsInv, NEW a \in Creators, Create(a)
    PROVE  Twins'
  <1> USE DEF db, net, bounds, locals, history
  <1>1. TypeOK /\ Twins /\ a \in Actors
    BY DEF TwinsInv, TypeInv, Actors
  <1>2. CASE CreateLookup(a)
    <2>1. row' = row /\ together' = together /\ TargetsKept
      BY <1>2 DEF CreateLookup, TargetsKept
    <2>2. PICK l : Goto(a, l) /\ (l \in Searching => SameTarget(a) = {})
      BY <1>2 DEF CreateLookup, Searching
    <2> QED
      BY <1>1, <2>1, <2>2, TwinsGoto
  <1>3. CASE Renew(a)
    <2>1. Goto(a, "reread") /\ together' = together
      BY <1>3 DEF Renew, Step
    <2>2. TargetsKept
      <3>1. row \in [Creators -> Row \cup {None}] /\ None \notin Row
        BY <1>1, TunnelAssumption DEF TypeOK
      <3>2. row' = [row EXCEPT ![tunnel[a]] =
                      IF @ = None THEN None ELSE [@ EXCEPT !.active = TRUE, !.expired = FALSE]]
        BY <1>3 DEF Renew
      <3>3. ASSUME NEW u \in Creators, row'[u] # None
            PROVE  row[u] # None /\ row'[u].target = row[u].target
        <4>1. CASE u = tunnel[a]
          BY <3>1, <3>2, <3>3, <4>1 DEF Row
        <4>2. CASE u # tunnel[a]
          BY <3>1, <3>2, <3>3, <4>2
        <4> QED
          BY <4>1, <4>2
      <3> QED
        BY <3>3 DEF TargetsKept
    <2> QED
      BY <1>1, <2>1, <2>2, TwinsGoto DEF Searching
  <1>4. CASE Reread(a)
    <2>1. row' = row /\ together' = together /\ TargetsKept
      BY <1>4 DEF Reread, TargetsKept
    <2>2. PICK l \in {"load", "done"} : Goto(a, l)
      BY <1>4 DEF Reread
    <2> QED
      BY <1>1, <2>1, <2>2, TwinsGoto DEF Searching
  <1>5. CASE Allocate(a)
    <2>1. row' = row /\ together' = together /\ TargetsKept /\ pc[a] \in Searching
      BY <1>5 DEF Allocate, TargetsKept, Searching
    <2>2. PICK l \in {"evict", "done"} : Goto(a, l)
      BY <1>5 DEF Allocate
    <2> QED
      BY <1>1, <2>1, <2>2, TwinsGoto
  <1>6. CASE Evict(a)
    <2>1. together' = together /\ pc[a] \in Searching /\ Goto(a, "insert")
      BY <1>6 DEF Evict, Step, Searching
    <2>2. TargetsKept
      BY <1>6 DEF Evict, TargetsKept
    <2> QED
      BY <1>1, <2>1, <2>2, TwinsGoto
  <1> QED
    BY <1>2, <1>3, <1>4, <1>5, <1>6, TwinsInsert DEF Create

LEMMA TwinsStart ==
    ASSUME TwinsInv, NEW a \in Creators \cup {Restorer}, Start(a)
    PROVE  Twins'
  <1> USE DEF db, net, bounds, locals, history
  <1>1. TypeOK /\ Twins /\ a \in Actors /\ tunnel[a] \in Creators \cup {None}
    BY TypeParts DEF TwinsInv, TypeInv, Actors
  <1>2. together' = together
    BY DEF Start, StartLoad, Listen, StartStore, Undo
  <1>3. PICK l \in {"listen", "store", "undo", AfterStart(a)} : Goto(a, l)
    BY DEF Start, StartLoad, Listen, StartStore, Undo, Step
  <1>4. l \notin Searching
    BY DEF Searching, AfterStart
  <1>5. row' = row \/ row' = Revoked(tunnel[a])
    BY DEF Start, StartLoad, Listen, StartStore, Undo
  <1>6. TargetsKept
    BY <1>1, <1>5, RevokedTarget DEF TargetsKept
  <1> QED
    BY <1>1, <1>2, <1>3, <1>4, <1>6, TwinsGoto

LEMMA TwinsDelete ==
    ASSUME TwinsInv, NEW d \in Deleters, Delete(d)
    PROVE  Twins'
  <1> USE DEF db, net, bounds, locals, history
  <1>1. TypeOK /\ Twins /\ d \in Actors /\ tunnel[d] \in Creators \cup {None}
    BY TypeParts DEF TwinsInv, TypeInv, Actors
  <1>2. together' = together /\ (row' = row \/ row' = Revoked(tunnel[d]))
    BY DEF Delete, DeleteLookup, Revoke
  <1>3. PICK l \in {"revoke", "find"} : Goto(d, l)
    BY DEF Delete, DeleteLookup, Revoke, Step
  <1>4. TargetsKept
    BY <1>1, <1>2, RevokedTarget DEF TargetsKept
  <1> QED
    BY <1>1, <1>2, <1>3, <1>4, TwinsGoto DEF Searching

LEMMA TwinsStop ==
    ASSUME TwinsInv, NEW a \in Deleters \cup {Cleaner}, Stop(a)
    PROVE  Twins'
  <1> USE DEF db, net, bounds, locals, history
  <1>1. TypeOK /\ Twins /\ a \in Actors
    BY DEF TwinsInv, TypeInv, Actors
  <1>2. together' = together /\ row' = row
    BY DEF Stop, StopFind, StopClose, StopDrop
  <1>3. PICK l \in {"close", "drop", AfterStop(a)} : Goto(a, l)
    BY DEF Stop, StopFind, StopClose, StopDrop, Step
  <1>4. l \notin Searching
    BY DEF Searching, AfterStop
  <1> QED
    BY <1>1, <1>2, <1>3, <1>4, TwinsGoto DEF TargetsKept

LEMMA TwinsClean ==
    ASSUME TwinsInv, Clean
    PROVE  Twins'
  <1> USE DEF db, net, bounds, locals, history
  <1>1. TypeOK /\ Twins /\ Cleaner \in Actors
    BY DEF TwinsInv, TypeInv, Actors
  <1>2. together' = together
    BY DEF Clean, CleanSelect, CleanMark, CleanNext, CleanEnd
  <1>3. PICK l \in {"mark", "next", "find", "idle"} : Goto(Cleaner, l)
    BY DEF Clean, CleanSelect, CleanMark, CleanNext, CleanEnd, Step
  <1>4. TargetsKept
    <2>1. CASE CleanMark
      <3>1. ASSUME NEW u \in Creators, row'[u] # None
            PROVE  row[u] # None /\ row'[u].target = row[u].target
        <4>1. row \in [Creators -> Row \cup {None}] /\ None \notin Row
          BY <1>1, TunnelAssumption DEF TypeOK
        <4>2. row'[u] = IF u \in Marked THEN Revoked(u)[u] ELSE row[u]
          BY <2>1 DEF CleanMark
        <4> QED
          BY <3>1, <4>1, <4>2 DEF Revoked, Row
      <3> QED
        BY <3>1 DEF TargetsKept
    <2>2. CASE ~CleanMark
      BY <2>2 DEF Clean, CleanSelect, CleanNext, CleanEnd, TargetsKept
    <2> QED
      BY <2>1, <2>2
  <1> QED
    BY <1>1, <1>2, <1>3, <1>4, TwinsGoto, TunnelAssumption

LEMMA TwinsRestore ==
    ASSUME TwinsInv, Restore
    PROVE  Twins'
  <1> USE DEF db, net, bounds, locals, history
  <1>1. TypeOK /\ Twins /\ Restorer \in Actors
    BY DEF TwinsInv, TypeInv, Actors
  <1>2. together' = together
    BY DEF Restore, RestoreList, RestoreNext, RestoreEnd
  <1>3. pc' = pc \/ \E l \in {"next", "load", "done"} : Goto(Restorer, l)
    BY DEF Restore, RestoreList, RestoreNext, RestoreEnd, Step
  <1>4. TargetsKept
    <2>1. ASSUME NEW s \in batch[Restorer], RestoreNext(s) PROVE TargetsKept
      <3>1. s.tunnel \in Creators
        BY <1>1, TypeParts
      <3>2. row' = Revoked(s.tunnel) \/ row' = [row EXCEPT ![s.tunnel] = None] \/ row' = row
        BY <2>1 DEF RestoreNext
      <3>3. row' = [row EXCEPT ![s.tunnel] = None] => TargetsKept
        BY <1>1, TypeParts DEF TargetsKept
      <3> QED
        BY <1>1, <3>1, <3>2, <3>3, RevokedTarget DEF TargetsKept
    <2>2. CASE RestoreList \/ RestoreEnd
      BY <2>2 DEF RestoreList, RestoreEnd, TargetsKept
    <2> QED
      BY <2>1, <2>2 DEF Restore
  <1>5. pc' = pc => SearchedFirst
    BY DEF SearchedFirst
  <1>6. ASSUME NEW l \in {"next", "load", "done"}, Goto(Restorer, l) PROVE Twins'
    BY <1>1, <1>2, <1>4, <1>6, TwinsGoto DEF Searching
  <1> QED
    BY <1>1, <1>2, <1>3, <1>4, <1>5, <1>6, TwinsKept

LEMMA TwinsWorld ==
    ASSUME TwinsInv, World
    PROVE  Twins'
  <1> USE DEF db, net, bounds, locals, history
  <1>1. TypeOK /\ Twins
    BY DEF TwinsInv, TypeInv
  <1>2. together' = together
    BY DEF World, Expire, DeviceComes, DeviceGoes, Restart
  <1>3. SearchedFirst
    BY DEF World, Expire, DeviceComes, DeviceGoes, Restart, SearchedFirst, Searching, Actors
  <1>4. TargetsKept
    <2>1. ASSUME NEW t \in Creators, Expire(t) PROVE TargetsKept
      <3>1. row \in [Creators -> Row \cup {None}] /\ row[t] \in Row
        BY <1>1, <2>1, TypeParts DEF Expire, Live, Active, Rows
      <3>2. row' = [row EXCEPT ![t].expired = TRUE]
        BY <2>1 DEF Expire
      <3> QED
        BY <3>1, <3>2, TunnelAssumption DEF TargetsKept, Row
    <2>2. (\E x \in Targets : DeviceComes(x) \/ DeviceGoes(x)) \/ Restart => row' = row
      BY DEF DeviceComes, DeviceGoes, Restart
    <2> QED
      BY <2>1, <2>2 DEF World, TargetsKept
  <1> QED
    BY <1>1, <1>2, <1>3, <1>4, TwinsKept

LEMMA TwinsNext == TwinsInv /\ [Next]_vars => TwinsInv'
  <1> SUFFICES ASSUME TwinsInv, [Next]_vars PROVE Twins'
    BY TypeNext DEF TwinsInv
  <1>1. CASE Next
    BY <1>1, TwinsCreate, TwinsStart, TwinsDelete, TwinsStop, TwinsClean, TwinsRestore,
       TwinsWorld DEF Next
  <1>2. CASE UNCHANGED vars
    <2>1. row' = row /\ pc' = pc /\ together' = together
      BY <1>2 DEF vars, db, history
    <2> QED
      BY <2>1, TwinsKept DEF TwinsInv, TargetsKept, SearchedFirst
  <1> QED
    BY <1>1, <1>2

\* A target has two tunnels only if each was inserted after a look-up that
\* could not yet see the other, however creations, renewals, deletions, the
\* cleanup, restarts and the restoration interleave.
THEOREM NoSecondTunnel == Spec => []OneTunnelPerTarget
  <1>1. Init => TwinsInv
    <2>1. Init => Twins
      BY DEF Init, Twins, OneTunnelPerTarget, Rows, Searching, Actors
    <2> QED
      BY <2>1, TypeInit DEF TwinsInv
  <1>2. TwinsInv => OneTunnelPerTarget
    BY DEF TwinsInv, Twins
  <1> QED
    BY <1>1, <1>2, TwinsNext, PTL DEF Spec
=============================================================================
