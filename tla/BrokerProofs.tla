---------------------------- MODULE BrokerProofs ----------------------------
(* Theorems about Broker, for any sets of connections, users and           *)
(* identifiers: type correctness, the two registry invariants, the         *)
(* implementation of the abstract SessionDirectory, that refused devices   *)
(* stay out, that confirmed sessions are spared, and that every shell is   *)
(* accounted for.                                                          *)
EXTENDS Broker, SequenceTheorems, TLAPS

\* What a channel's receiver takes, and what it leaves, are of the channel's type.
LEMMA TailInSeq ==
    ASSUME NEW S, NEW q \in Seq(S), q # <<>>
    PROVE  Head(q) \in S /\ Tail(q) \in Seq(S)
  BY HeadTailProperties

\* A send keeps a channel's type.
LEMMA AppendInSeq ==
    ASSUME NEW S, NEW q \in Seq(S), NEW e \in S
    PROVE  Append(q, e) \in Seq(S)
  BY AppendProperties

\* The program starts with every variable in its type.
LEMMA TypeInit == Init => TypeOK
  <1> SUFFICES ASSUME Init PROVE TypeOK
    OBVIOUS
  <1> QED
    BY EmptySeq, BrokerAssumption DEF Init, TypeOK, Clients, Answers

(* Sending and answering keep the type of what they write.                 *)
LEMMA SendType ==
    ASSUME TypeOK, NEW c \in Conns, NEW m \in DeviceMsg
    PROVE  Send(c, m) \in [Conns -> Seq(DeviceMsg)]
  BY AppendInSeq DEF Send, TypeOK

\* An answer to a client, or its loss, is one of Answers.
LEMMA ReplyType ==
    ASSUME TypeOK, NEW x \in Clients, NEW a \in Answers
    PROVE  Reply(x, a) \in [Clients -> Answers]
  BY DEF Reply, TypeOK, Answers

\* What the server hears of a device is of the type of its channel.
LEMMA HeardType ==
    ASSUME NEW S, NEW c \in Conns, NEW q \in Seq(S), NEW m \in S
    PROVE  Heard(c, q, m) \in Seq(S)
  BY AppendInSeq DEF Heard

\* Unregistering keeps the type of the tables it clears.
LEMMA DropDeviceType ==
    ASSUME TypeOK, NEW c \in Conns,
           \/ DropDevice(c)
           \/ UNCHANGED <<devices, registered, sessions>>
    PROVE  /\ devices' \in [DevIds -> Conns \cup {None}]
           /\ registered' \in [Conns -> BOOLEAN]
           /\ sessions' \in [Users -> Conns \cup {None}]
  <1>1. CASE DropDevice(c)
    <2>1. devices' \in [DevIds -> Conns \cup {None}] /\ registered' \in [Conns -> BOOLEAN]
      BY <1>1 DEF TypeOK, DropDevice
    <2>2. sessions' \in [Users -> Conns \cup {None}]
      BY <1>1 DEF TypeOK, DropDevice
    <2> QED
      BY <2>1, <2>2
  <1>2. CASE UNCHANGED <<devices, registered, sessions>>
    BY <1>2 DEF TypeOK
  <1> QED
    BY <1>1, <1>2

(* Each action keeps every variable in its type.                           *)
LEMMA TypeNext == TypeOK /\ [Next]_vars => TypeOK'
  <1> SUFFICES ASSUME TypeOK, [Next]_vars PROVE TypeOK'
    OBVIOUS
  <1> USE BrokerAssumption DEF TypeOK, Clients
  <1>1. ASSUME NEW x \in Clients, Accept(x) PROVE TypeOK'
    BY <1>1
    DEF Accept, registry, channels, sockets
  <1>2. ASSUME NEW x \in Clients, PostRegister(x) PROVE TypeOK'
    BY <1>2, AppendInSeq
    DEF PostRegister, registry, channels, sockets
  <1>3. ASSUME NEW x \in Clients, PeerLeaves(x) PROVE TypeOK'
    BY <1>3
    DEF PeerLeaves, registry, channels, sockets
  <1>4. ASSUME NEW x \in Clients, ReadLoopEnds(x) PROVE TypeOK'
    BY <1>4, AppendInSeq
    DEF ReadLoopEnds, LoopEnds, registry, channels, sockets
  <1>5. ASSUME NEW x \in Clients, WriteLoopEnds(x) PROVE TypeOK'
    BY <1>5, AppendInSeq
    DEF WriteLoopEnds, LoopEnds, registry, channels, sockets
  <1>6. ASSUME NEW c \in Conns, KillInactive(c) PROVE TypeOK'
    BY <1>6, AppendInSeq
    DEF KillInactive, LoopEnds, registry, channels, sockets
  <1>7. ASSUME NEW c \in Conns, AdmitDevice(c) PROVE TypeOK'
    BY <1>7, TailInSeq, ReplyType
    DEF AdmitDevice, ServeRegister, Answers, registry, channels, sockets
  <1>8. ASSUME NEW c \in Conns, RefuseDevice(c) PROVE TypeOK'
    BY <1>8, TailInSeq, ReplyType
    DEF RefuseDevice, ServeRegister, ArmTimer, Answers, registry, channels, sockets
  <1>9. ASSUME NEW u \in Users, OpenSession(u) PROVE TypeOK'
    BY <1>9, TailInSeq, SendType
    DEF OpenSession, ServeRegister, ArmTimer, DeviceMsg, LoginMsg, registry, channels, sockets
  <1>10. ASSUME NEW u \in Users, RefuseUser(u) PROVE TypeOK'
    BY <1>10, TailInSeq, ReplyType
    DEF RefuseUser, ServeRegister, Answers, registry, channels, sockets
  <1>11. ASSUME NEW c \in Conns, UnregisterDevice(c) PROVE TypeOK'
    BY <1>11, TailInSeq, DropDeviceType
    DEF UnregisterDevice, ServeUnregister, HungUpWith, SessionsOf, registry, channels, sockets
  <1>12. ASSUME NEW u \in Users, UnregisterUser(u) PROVE TypeOK'
    BY <1>12, TailInSeq, SendType
    DEF UnregisterUser, ServeUnregister, LogoutDevice, DeviceMsg, LogoutMsg, registry, channels, sockets
  <1>13. ASSUME NEW u \in Users, ConfirmSession(u) PROVE TypeOK'
    BY <1>13, TailInSeq, ReplyType
    DEF ConfirmSession, ServeLoginAck, Answers, registry, channels, sockets
  <1>14. ASSUME NEW u \in Users, DeviceBusy(u) PROVE TypeOK'
    BY <1>14, TailInSeq, ReplyType
    DEF DeviceBusy, ServeLoginAck, Answers, registry, channels, sockets
  <1>15. ASSUME NEW u \in Users, StaleLoginAck(u) PROVE TypeOK'
    BY <1>15, TailInSeq
    DEF StaleLoginAck, ServeLoginAck, registry, channels, sockets
  <1>16. ASSUME NEW u \in Users, EndSession(u) PROVE TypeOK'
    BY <1>16, TailInSeq
    DEF EndSession, registry, channels, sockets
  <1>17. ASSUME NEW c \in Conns, RejectTimer(c) PROVE TypeOK'
    BY <1>17
    DEF RejectTimer, registry, channels, sockets
  <1>18. ASSUME NEW u \in Users, LoginTimerReads(u) PROVE TypeOK'
    BY <1>18
    DEF LoginTimerReads, registry, channels, sockets
  <1>19. ASSUME NEW u \in Users, LoginTimerCloses(u) PROVE TypeOK'
    BY <1>19
    DEF LoginTimerCloses, registry, channels, sockets
  <1>20. ASSUME NEW c \in Conns, NEW u \in Users, DeviceLogin(c, u) PROVE TypeOK'
    <2>1. PICK busy \in BOOLEAN :
            /\ shells' = [shells EXCEPT ![c] = IF busy THEN @ ELSE @ \cup {u}]
            /\ loginAckQ' = Heard(c, loginAckQ, [sid |-> u, busy |-> busy])
      BY <1>20 DEF DeviceLogin
    <2>2. [sid |-> u, busy |-> busy] \in LoginAckMsg
      BY <2>1 DEF LoginAckMsg
    <2>3. loginAckQ' \in Seq(LoginAckMsg)
      BY <2>1, <2>2, HeardType
    <2>4. shells' \in [Conns -> SUBSET Users]
      BY <2>1
    <2> QED
      BY <1>20, <2>3, <2>4, TailInSeq
      DEF DeviceLogin, Receive, registry, channels, sockets
  <1>21. ASSUME NEW c \in Conns, NEW u \in Users, DeviceLogout(c, u) PROVE TypeOK'
    BY <1>21, TailInSeq, AppendInSeq
    DEF DeviceLogout, Receive, Heard, registry, channels, sockets
  <1>22. ASSUME NEW c \in Conns, NEW u \in Users, ShellExits(c, u) PROVE TypeOK'
    BY <1>22, AppendInSeq
    DEF ShellExits, Heard, registry, channels, sockets
  <1>23. CASE UNCHANGED vars
    BY <1>23 DEF vars, registry, channels, sockets
  <1> QED
    BY <1>1, <1>2, <1>3, <1>4, <1>5, <1>6, <1>7, <1>8, <1>9, <1>10, <1>11, <1>12, <1>13, <1>14, <1>15, <1>16, <1>17, <1>18, <1>19, <1>20, <1>21, <1>22, <1>23
    DEF Next, BrokerStep, ConnectionStep, TimerStep, DeviceStep

\* Every variable of the broker, its clients and the device program keeps
\* its type in every behaviour.
THEOREM TypeCorrect == Spec => []TypeOK
  <1>1. Init => TypeOK
    BY TypeInit
  <1>2. TypeOK /\ [Next]_vars => TypeOK'
    BY TypeNext
  <1> QED
    BY <1>1, <1>2, PTL DEF Spec

-----------------------------------------------------------------------------
(* The registry.  RegistryConsistent is inductive with the types alone;    *)
(* SessionOnRegistrant needs it, because a device that unregisters takes   *)
(* with it the sessions of its connection, not those of its identifier.    *)

RegistryInv == TypeOK /\ RegistryConsistent /\ SessionOnRegistrant

\* The empty tables are consistent.
LEMMA RegistryInit == Init => RegistryInv
  BY TypeInit, BrokerAssumption
  DEF Init, RegistryInv, RegistryConsistent, SessionOnRegistrant

\* Every step keeps the tables, the flags and the sessions consistent: the arms
\* that register, open, confirm and clean up, and those that leave them alone.
LEMMA RegistryNext == RegistryInv /\ [Next]_vars => RegistryInv'
  <1> SUFFICES ASSUME RegistryInv, [Next]_vars PROVE RegistryInv'
    OBVIOUS
  <1>1. TypeOK'
    BY TypeNext DEF RegistryInv
  <1> USE BrokerAssumption, <1>1 DEF RegistryInv, TypeOK, RegistryConsistent, SessionOnRegistrant
  <1>2. ASSUME NEW x \in Clients, Accept(x) PROVE RegistryInv'
    BY <1>2 DEF Accept, registry, channels, sockets
  <1>3. ASSUME NEW x \in Clients, PostRegister(x) PROVE RegistryInv'
    BY <1>3 DEF PostRegister, registry, channels, sockets
  <1>4. ASSUME NEW x \in Clients, PeerLeaves(x) PROVE RegistryInv'
    BY <1>4 DEF PeerLeaves, registry, channels, sockets
  <1>5. ASSUME NEW x \in Clients, ReadLoopEnds(x) PROVE RegistryInv'
    BY <1>5 DEF ReadLoopEnds, LoopEnds, registry, channels, sockets
  <1>6. ASSUME NEW x \in Clients, WriteLoopEnds(x) PROVE RegistryInv'
    BY <1>6 DEF WriteLoopEnds, LoopEnds, registry, channels, sockets
  <1>7. ASSUME NEW c \in Conns, KillInactive(c) PROVE RegistryInv'
    BY <1>7 DEF KillInactive, LoopEnds, registry, channels, sockets
  <1>8. ASSUME NEW c \in Conns, AdmitDevice(c) PROVE RegistryInv'
    BY <1>8 DEF AdmitDevice, ServeRegister, Welcome, registry, channels, sockets
  <1>9. ASSUME NEW c \in Conns, RefuseDevice(c) PROVE RegistryInv'
    BY <1>9 DEF RefuseDevice, ServeRegister, ArmTimer, registry, channels, sockets
  <1>10. ASSUME NEW u \in Users, OpenSession(u) PROVE RegistryInv'
    BY <1>10 DEF OpenSession, ServeRegister, ArmTimer, registry, channels, sockets
  <1>11. ASSUME NEW u \in Users, RefuseUser(u) PROVE RegistryInv'
    BY <1>11 DEF RefuseUser, ServeRegister, registry, channels, sockets
  <1>12. ASSUME NEW c \in Conns, UnregisterDevice(c) PROVE RegistryInv'
    <2>1. CASE registered[c]
      <3>1. /\ devices[DevId[c]] = c /\ DevId[c] \in DevIds
            /\ devices' = [devices EXCEPT ![DevId[c]] = None]
            /\ registered' = [registered EXCEPT ![c] = FALSE]
            /\ \A u \in Users : sessions'[u] = IF sessions[u] = c THEN None ELSE sessions[u]
        BY <1>12, <2>1 DEF UnregisterDevice, DropDevice, SessionsOf
      <3>2. RegistryConsistent'
        BY <3>1
      <3>3. ASSUME NEW u \in Users, sessions'[u] # None
            PROVE  sessions'[u] = devices'[Target[u]]
        <4>1. sessions[u] # c /\ sessions'[u] = sessions[u] /\ sessions[u] # None
          BY <3>1, <3>3
        <4>2. devices[Target[u]] = sessions[u]
          BY <4>1
        <4>3. Target[u] # DevId[c]
          BY <3>1, <4>1, <4>2
        <4> QED
          BY <3>1, <4>1, <4>2, <4>3
      <3> QED
        BY <3>2, <3>3
    <2>2. CASE ~registered[c]
      BY <1>12, <2>2 DEF UnregisterDevice, ServeUnregister
    <2> QED
      BY <2>1, <2>2
  <1>13. ASSUME NEW u \in Users, UnregisterUser(u) PROVE RegistryInv'
    BY <1>13 DEF UnregisterUser, ServeUnregister, registry, channels, sockets
  <1>14. ASSUME NEW u \in Users, ConfirmSession(u) PROVE RegistryInv'
    BY <1>14 DEF ConfirmSession, ServeLoginAck, registry, channels, sockets
  <1>15. ASSUME NEW u \in Users, DeviceBusy(u) PROVE RegistryInv'
    BY <1>15 DEF DeviceBusy, ServeLoginAck, registry, channels, sockets
  <1>16. ASSUME NEW u \in Users, StaleLoginAck(u) PROVE RegistryInv'
    BY <1>16 DEF StaleLoginAck, ServeLoginAck, registry, channels, sockets
  <1>17. ASSUME NEW u \in Users, EndSession(u) PROVE RegistryInv'
    BY <1>17 DEF EndSession, registry, channels, sockets
  <1>18. ASSUME NEW c \in Conns, RejectTimer(c) PROVE RegistryInv'
    BY <1>18 DEF RejectTimer, registry, channels, sockets
  <1>19. ASSUME NEW u \in Users, LoginTimerReads(u) PROVE RegistryInv'
    BY <1>19 DEF LoginTimerReads, registry, channels, sockets
  <1>20. ASSUME NEW u \in Users, LoginTimerCloses(u) PROVE RegistryInv'
    BY <1>20 DEF LoginTimerCloses, registry, channels, sockets
  <1>21. ASSUME NEW c \in Conns, NEW u \in Users, DeviceLogin(c, u) PROVE RegistryInv'
    BY <1>21 DEF DeviceLogin, Receive, registry, channels, sockets
  <1>22. ASSUME NEW c \in Conns, NEW u \in Users, DeviceLogout(c, u) PROVE RegistryInv'
    BY <1>22 DEF DeviceLogout, Receive, registry, channels, sockets
  <1>23. ASSUME NEW c \in Conns, NEW u \in Users, ShellExits(c, u) PROVE RegistryInv'
    BY <1>23 DEF ShellExits, registry, channels, sockets
  <1>24. CASE UNCHANGED vars
    BY <1>24 DEF vars, registry, channels, sockets
  <1> QED
    BY <1>2, <1>3, <1>4, <1>5, <1>6, <1>7, <1>8, <1>9, <1>10, <1>11, <1>12, <1>13, <1>14, <1>15, <1>16, <1>17, <1>18, <1>19, <1>20, <1>21, <1>22, <1>23, <1>24
    DEF Next, BrokerStep, ConnectionStep, TimerStep, DeviceStep

\* device.registered and br.devices always agree, so an identifier has at
\* most one registered connection and an unregister leaves no entry behind.
THEOREM RegistrySafe == Spec => []RegistryConsistent
  <1>1. RegistryInv => RegistryConsistent
    BY DEF RegistryInv
  <1> QED
    BY <1>1, RegistryInit, RegistryNext, PTL DEF Spec

\* Every open session runs on the connection that is registered under the
\* identifier its user asked for.
THEOREM SessionsSafe == Spec => []SessionOnRegistrant
  <1>1. RegistryInv => SessionOnRegistrant
    BY DEF RegistryInv
  <1> QED
    BY <1>1, RegistryInit, RegistryNext, PTL DEF Spec

-----------------------------------------------------------------------------
(* The abstract directory.  That a session is opened only once follows     *)
(* from the client's phase: it is posted to the register channel once, and *)
(* its login timer is idle until the broker has served it.                 *)

QueuedFresh ==
    /\ \A i \in 1..Len(registerQ) :
         phase[registerQ[i]] = "enrolled" /\ timer[registerQ[i]] = "idle"
    /\ \A i, j \in 1..Len(registerQ) : registerQ[i] = registerQ[j] => i = j
    /\ \A x \in Clients : phase[x] # "enrolled" => timer[x] = "idle"

DirectoryInv == RegistryInv /\ QueuedFresh

\* Nothing is queued at the start.
LEMMA DirectoryInit == Init => DirectoryInv
  <1> SUFFICES ASSUME Init PROVE QueuedFresh
    BY RegistryInit DEF DirectoryInv
  <1>1. registerQ = <<>> /\ timer = [x \in Clients |-> "idle"]
    BY DEF Init
  <1> QED
    BY <1>1 DEF QueuedFresh

\* Serving the head of the queue: the rest of it is about other clients.
LEMMA ServeFresh ==
    ASSUME TypeOK, QueuedFresh, NEW x \in Clients, ServeRegister(x),
           timer' \in [Clients -> {"idle", "armed", "closing", "fired"}],
           \A y \in Clients : y # x => timer'[y] = timer[y]
    PROVE  QueuedFresh' /\ timer[x] = "idle" /\ phase[x] = "enrolled"
  <1>1. /\ registerQ \in Seq(Clients) /\ registerQ # <<>>
        /\ x = registerQ[1] /\ registerQ' = Tail(registerQ)
        /\ phase' = phase
    BY DEF TypeOK, ServeRegister
  <1>2. /\ registerQ' \in Seq(Clients)
        /\ Len(registerQ) \in Nat /\ Len(registerQ') = Len(registerQ) - 1
        /\ \A i \in 1..Len(registerQ') : registerQ'[i] = registerQ[i + 1]
    BY <1>1, HeadTailProperties
  <1>3. Len(registerQ) # 0
    BY <1>1, EmptySeq
  <1>4. phase[x] = "enrolled" /\ timer[x] = "idle"
    BY <1>1, <1>2, <1>3 DEF QueuedFresh
  <1>5. ASSUME NEW i \in 1..Len(registerQ')
        PROVE  /\ i + 1 \in 1..Len(registerQ)
               /\ registerQ'[i] \in Clients /\ registerQ'[i] # x
    <2>1. i + 1 \in 1..Len(registerQ) /\ 1 \in 1..Len(registerQ) /\ i + 1 # 1
      BY <1>2, <1>3
    <2>2. registerQ'[i] = registerQ[i + 1]
      BY <1>2
    <2>3. registerQ[i + 1] # x
      BY <2>1, <1>1 DEF QueuedFresh
    <2> QED
      BY <2>1, <2>2, <2>3, <1>1
  <1>6. \A i \in 1..Len(registerQ') :
          phase'[registerQ'[i]] = "enrolled" /\ timer'[registerQ'[i]] = "idle"
    BY <1>1, <1>2, <1>5 DEF QueuedFresh
  <1>7. \A i, j \in 1..Len(registerQ') : registerQ'[i] = registerQ'[j] => i = j
    <2> SUFFICES ASSUME NEW i \in 1..Len(registerQ'), NEW j \in 1..Len(registerQ'),
                        registerQ'[i] = registerQ'[j]
                 PROVE  i = j
      OBVIOUS
    <2>1. registerQ[i + 1] = registerQ[j + 1]
      BY <1>2
    <2>2. i + 1 = j + 1
      BY <2>1, <1>5 DEF QueuedFresh
    <2> QED
      BY <2>2
  <1>8. \A y \in Clients : phase'[y] # "enrolled" => timer'[y] = "idle"
    BY <1>1, <1>4 DEF QueuedFresh
  <1> QED
    BY <1>4, <1>6, <1>7, <1>8 DEF QueuedFresh

\* Posting a client that was not yet enrolled.
LEMMA PostFresh ==
    ASSUME TypeOK, QueuedFresh, NEW x \in Clients, PostRegister(x)
    PROVE  QueuedFresh'
  <1>1. /\ registerQ \in Seq(Clients) /\ registerQ' = Append(registerQ, x)
        /\ phase[x] = "accepted" /\ phase' = [phase EXCEPT ![x] = "enrolled"]
        /\ timer' = timer /\ timer[x] = "idle"
    BY DEF TypeOK, PostRegister, QueuedFresh
  <1>2. /\ Len(registerQ) \in Nat /\ Len(registerQ') = Len(registerQ) + 1
        /\ \A i \in 1..Len(registerQ) : registerQ'[i] = registerQ[i]
        /\ registerQ'[Len(registerQ) + 1] = x
    BY <1>1, AppendProperties
  <1>3. \A i \in 1..Len(registerQ) : registerQ[i] \in Clients /\ registerQ[i] # x
    BY <1>1 DEF QueuedFresh
  <1>4. \A i \in 1..Len(registerQ') : i \in 1..Len(registerQ) \/ i = Len(registerQ) + 1
    BY <1>2
  <1>5. \A y \in Clients : y # x => phase'[y] = phase[y]
    BY <1>1 DEF TypeOK
  <1>6. phase'[x] = "enrolled"
    BY <1>1 DEF TypeOK
  <1> QED
    BY <1>1, <1>2, <1>3, <1>4, <1>5, <1>6 DEF QueuedFresh

\* Every step keeps registrations waiting at most once, so a user that is
\* still queued has had no session.
LEMMA DirectoryNext == DirectoryInv /\ [Next]_vars => DirectoryInv'
  <1> SUFFICES ASSUME DirectoryInv, [Next]_vars PROVE QueuedFresh'
    BY RegistryNext DEF DirectoryInv
  <1> USE BrokerAssumption DEF DirectoryInv, RegistryInv, TypeOK, Clients
  <1>1. ASSUME NEW x \in Clients, Accept(x) PROVE QueuedFresh'
    <2>1. phase[x] = "new" /\ registerQ' = registerQ /\ timer' = timer
      BY <1>1 DEF Accept, channels
    <2>2. \A y \in Clients : y # x => phase'[y] = phase[y]
      BY <1>1 DEF Accept
    <2>3. \A i \in 1..Len(registerQ) : registerQ[i] \in Clients /\ registerQ[i] # x
      BY <2>1 DEF QueuedFresh
    <2>4. \A i \in 1..Len(registerQ) :
            phase'[registerQ[i]] = "enrolled" /\ timer[registerQ[i]] = "idle"
      BY <2>2, <2>3 DEF QueuedFresh
    <2>5. \A i, j \in 1..Len(registerQ) : registerQ[i] = registerQ[j] => i = j
      BY DEF QueuedFresh
    <2>6. \A y \in Clients : phase'[y] # "enrolled" => timer[y] = "idle"
      BY <2>1, <2>2 DEF QueuedFresh
    <2> QED
      BY <2>1, <2>4, <2>5, <2>6 DEF QueuedFresh
  <1>2. ASSUME NEW x \in Clients, PostRegister(x) PROVE QueuedFresh'
    BY <1>2, PostFresh
  <1>3. ASSUME NEW x \in Clients, PeerLeaves(x) PROVE QueuedFresh'
    BY <1>3 DEF PeerLeaves, QueuedFresh, registry, channels, sockets
  <1>4. ASSUME NEW x \in Clients, ReadLoopEnds(x) PROVE QueuedFresh'
    BY <1>4 DEF ReadLoopEnds, LoopEnds, QueuedFresh, registry, channels, sockets
  <1>5. ASSUME NEW x \in Clients, WriteLoopEnds(x) PROVE QueuedFresh'
    BY <1>5 DEF WriteLoopEnds, LoopEnds, QueuedFresh, registry, channels, sockets
  <1>6. ASSUME NEW c \in Conns, KillInactive(c) PROVE QueuedFresh'
    BY <1>6 DEF KillInactive, LoopEnds, QueuedFresh, registry, channels, sockets
  <1>7. ASSUME NEW c \in Conns, AdmitDevice(c) PROVE QueuedFresh'
    BY <1>7, ServeFresh DEF AdmitDevice
  <1>8. ASSUME NEW c \in Conns, RefuseDevice(c) PROVE QueuedFresh'
    BY <1>8, ServeFresh DEF RefuseDevice, ArmTimer
  <1>9. ASSUME NEW u \in Users, OpenSession(u) PROVE QueuedFresh'
    BY <1>9, ServeFresh DEF OpenSession, ArmTimer
  <1>10. ASSUME NEW u \in Users, RefuseUser(u) PROVE QueuedFresh'
    BY <1>10, ServeFresh DEF RefuseUser
  <1>11. ASSUME NEW c \in Conns, UnregisterDevice(c) PROVE QueuedFresh'
    BY <1>11 DEF UnregisterDevice, ServeUnregister, DropDevice, SessionsOf, QueuedFresh, registry, channels, sockets
  <1>12. ASSUME NEW u \in Users, UnregisterUser(u) PROVE QueuedFresh'
    BY <1>12 DEF UnregisterUser, ServeUnregister, QueuedFresh, registry, channels, sockets
  <1>13. ASSUME NEW u \in Users, ConfirmSession(u) PROVE QueuedFresh'
    BY <1>13 DEF ConfirmSession, ServeLoginAck, QueuedFresh, registry, channels, sockets
  <1>14. ASSUME NEW u \in Users, DeviceBusy(u) PROVE QueuedFresh'
    BY <1>14 DEF DeviceBusy, ServeLoginAck, QueuedFresh, registry, channels, sockets
  <1>15. ASSUME NEW u \in Users, StaleLoginAck(u) PROVE QueuedFresh'
    BY <1>15 DEF StaleLoginAck, ServeLoginAck, QueuedFresh, registry, channels, sockets
  <1>16. ASSUME NEW u \in Users, EndSession(u) PROVE QueuedFresh'
    BY <1>16 DEF EndSession, QueuedFresh, registry, channels, sockets
  <1>17. ASSUME NEW c \in Conns, RejectTimer(c) PROVE QueuedFresh'
    <2>1. phase' = phase /\ registerQ' = registerQ /\ timer[c] # "idle"
      BY <1>17 DEF RejectTimer, channels, sockets
    <2>2. \A y \in Clients : y # c => timer'[y] = timer[y]
      BY <1>17 DEF RejectTimer
    <2>3. \A i \in 1..Len(registerQ) : registerQ[i] \in Clients /\ registerQ[i] # c
      BY <2>1 DEF QueuedFresh
    <2> QED
      BY <2>1, <2>2, <2>3 DEF QueuedFresh
  <1>18. ASSUME NEW u \in Users, LoginTimerReads(u) PROVE QueuedFresh'
    <2>1. phase' = phase /\ registerQ' = registerQ /\ timer[u] # "idle"
      BY <1>18 DEF LoginTimerReads, channels, sockets
    <2>2. \A y \in Clients : y # u => timer'[y] = timer[y]
      BY <1>18 DEF LoginTimerReads
    <2>3. \A i \in 1..Len(registerQ) : registerQ[i] \in Clients /\ registerQ[i] # u
      BY <2>1 DEF QueuedFresh
    <2> QED
      BY <2>1, <2>2, <2>3 DEF QueuedFresh
  <1>19. ASSUME NEW u \in Users, LoginTimerCloses(u) PROVE QueuedFresh'
    <2>1. phase' = phase /\ registerQ' = registerQ /\ timer[u] # "idle"
      BY <1>19 DEF LoginTimerCloses, channels, sockets
    <2>2. \A y \in Clients : y # u => timer'[y] = timer[y]
      BY <1>19 DEF LoginTimerCloses
    <2>3. \A i \in 1..Len(registerQ) : registerQ[i] \in Clients /\ registerQ[i] # u
      BY <2>1 DEF QueuedFresh
    <2> QED
      BY <2>1, <2>2, <2>3 DEF QueuedFresh
  <1>20. ASSUME NEW c \in Conns, NEW u \in Users, DeviceLogin(c, u) PROVE QueuedFresh'
    BY <1>20 DEF DeviceLogin, Receive, QueuedFresh, registry, channels, sockets
  <1>21. ASSUME NEW c \in Conns, NEW u \in Users, DeviceLogout(c, u) PROVE QueuedFresh'
    BY <1>21 DEF DeviceLogout, Receive, QueuedFresh, registry, channels, sockets
  <1>22. ASSUME NEW c \in Conns, NEW u \in Users, ShellExits(c, u) PROVE QueuedFresh'
    BY <1>22 DEF ShellExits, QueuedFresh, registry, channels, sockets
  <1>23. CASE UNCHANGED vars
    BY <1>23 DEF vars, QueuedFresh, channels, sockets
  <1> QED
    BY <1>1, <1>2, <1>3, <1>4, <1>5, <1>6, <1>7, <1>8, <1>9, <1>10, <1>11, <1>12, <1>13, <1>14, <1>15, <1>16, <1>17, <1>18, <1>19, <1>20, <1>21, <1>22, <1>23
    DEF Next, BrokerStep, ConnectionStep, TimerStep, DeviceStep

\* The initial state of the broker is that of the directory.
LEMMA DirectoryInitStep == Init => Directory!Init
  BY DEF Init, Directory!Init, Clients

\* Every step of the broker is a step of the directory or leaves it alone.
LEMMA DirectoryStep == DirectoryInv /\ [Next]_vars => [Directory!Next]_(Directory!vars)
  <1> SUFFICES ASSUME DirectoryInv, [Next]_vars
               PROVE  Directory!Next \/ UNCHANGED Directory!vars
    OBVIOUS
  <1> DEFINE Step == Directory!Next \/ UNCHANGED Directory!vars
             Opened == {u \in Users : timer[u] # "idle"}
  <1> USE BrokerAssumption DEF DirectoryInv, RegistryInv, TypeOK, Clients
  <1>1. ASSUME NEW x \in Clients, Accept(x) PROVE Step
    BY <1>1 DEF Accept, registry, channels, sockets, Directory!vars
  <1>2. ASSUME NEW x \in Clients, PostRegister(x) PROVE Step
    BY <1>2 DEF PostRegister, registry, channels, sockets, Directory!vars
  <1>3. ASSUME NEW x \in Clients, PeerLeaves(x) PROVE Step
    BY <1>3 DEF PeerLeaves, registry, channels, sockets, Directory!vars
  <1>4. ASSUME NEW x \in Clients, ReadLoopEnds(x) PROVE Step
    BY <1>4 DEF ReadLoopEnds, LoopEnds, registry, channels, sockets, Directory!vars
  <1>5. ASSUME NEW x \in Clients, WriteLoopEnds(x) PROVE Step
    BY <1>5 DEF WriteLoopEnds, LoopEnds, registry, channels, sockets, Directory!vars
  <1>6. ASSUME NEW c \in Conns, KillInactive(c) PROVE Step
    BY <1>6 DEF KillInactive, LoopEnds, registry, channels, sockets, Directory!vars
  <1>7. ASSUME NEW c \in Conns, AdmitDevice(c) PROVE Step
    <2>1. Directory!Claim(c)
      BY <1>7 DEF AdmitDevice, ServeRegister, Welcome, Directory!Claim
    <2> QED
      BY <2>1 DEF Directory!Next
  <1>8. ASSUME NEW c \in Conns, RefuseDevice(c) PROVE Step
    <2>1. Opened' = Opened
      BY <1>8 DEF RefuseDevice, ServeRegister, ArmTimer
    <2> QED
      BY <1>8, <2>1 DEF RefuseDevice, ServeRegister, ArmTimer, registry, Directory!vars
  <1>9. ASSUME NEW u \in Users, OpenSession(u) PROVE Step
    <2>1. timer[u] = "idle"
      BY <1>9, ServeFresh DEF OpenSession, ArmTimer
    <2>2. Opened' = Opened \cup {u}
      BY <1>9 DEF OpenSession, ServeRegister, ArmTimer
    <2>3. Directory!Open(u)
      BY <1>9, <2>1, <2>2 DEF OpenSession, ServeRegister, ArmTimer, Directory!Open
    <2> QED
      BY <2>3 DEF Directory!Next
  <1>10. ASSUME NEW u \in Users, RefuseUser(u) PROVE Step
    BY <1>10 DEF RefuseUser, ServeRegister, registry, channels, sockets, Directory!vars
  <1>11. ASSUME NEW c \in Conns, UnregisterDevice(c) PROVE Step
    <2>1. CASE registered[c]
      <3>1. ASSUME NEW u \in Users, u \in SessionsOf(c) PROVE Target[u] = DevId[c]
        <4>1. devices[Target[u]] = c /\ c # None
          BY <3>1 DEF SessionsOf, SessionOnRegistrant
        <4> QED
          BY <4>1 DEF RegistryConsistent
      <3>2. \A u \in Users : Target[u] = DevId[c] /\ u \notin SessionsOf(c) => sessions[u] = None
        <4>1. devices[DevId[c]] = c
          BY <2>1 DEF RegistryConsistent
        <4> QED
          BY <4>1 DEF SessionsOf, SessionOnRegistrant
      <3>3. sessions' = [u \in Users |-> IF Target[u] = DevId[c] THEN None ELSE sessions[u]]
        BY <1>11, <2>1, <3>1, <3>2 DEF UnregisterDevice, DropDevice
      <3>4. Directory!Release(c)
        BY <1>11, <2>1, <3>3
        DEF UnregisterDevice, ServeUnregister, DropDevice, RegistryConsistent, Directory!Release
      <3> QED
        BY <3>4 DEF Directory!Next
    <2>2. CASE ~registered[c]
      BY <1>11, <2>2 DEF UnregisterDevice, ServeUnregister, Directory!vars
    <2> QED
      BY <2>1, <2>2
  <1>12. ASSUME NEW u \in Users, UnregisterUser(u) PROVE Step
    <2>1. \/ sessions' = [sessions EXCEPT ![u] = None]
          \/ sessions' = sessions
      BY <1>12 DEF UnregisterUser, ServeUnregister
    <2>2. UNCHANGED <<devices, timer>>
      BY <1>12 DEF UnregisterUser, ServeUnregister
    <2> QED
      BY <2>1, <2>2 DEF Directory!Next, Directory!End, Directory!vars
  <1>13. ASSUME NEW u \in Users, ConfirmSession(u) PROVE Step
    BY <1>13 DEF ConfirmSession, ServeLoginAck, registry, channels, sockets, Directory!vars
  <1>14. ASSUME NEW u \in Users, DeviceBusy(u) PROVE Step
    BY <1>14 DEF DeviceBusy, ServeLoginAck, registry, channels, sockets, Directory!vars
  <1>15. ASSUME NEW u \in Users, StaleLoginAck(u) PROVE Step
    BY <1>15 DEF StaleLoginAck, ServeLoginAck, registry, channels, sockets, Directory!vars
  <1>16. ASSUME NEW u \in Users, EndSession(u) PROVE Step
    <2>1. \/ sessions' = [sessions EXCEPT ![u] = None]
          \/ sessions' = sessions
      BY <1>16 DEF EndSession
    <2>2. UNCHANGED <<devices, timer>>
      BY <1>16 DEF EndSession
    <2> QED
      BY <2>1, <2>2 DEF Directory!Next, Directory!End, Directory!vars
  <1>17. ASSUME NEW c \in Conns, RejectTimer(c) PROVE Step
    <2>1. Opened' = Opened
      BY <1>17 DEF RejectTimer
    <2> QED
      BY <1>17, <2>1 DEF RejectTimer, registry, Directory!vars
  <1>18. ASSUME NEW u \in Users, LoginTimerReads(u) PROVE Step
    <2>1. timer[u] # "idle" /\ timer'[u] # "idle"
      BY <1>18 DEF LoginTimerReads
    <2>2. Opened' = Opened
      BY <1>18, <2>1 DEF LoginTimerReads
    <2> QED
      BY <1>18, <2>2 DEF LoginTimerReads, registry, Directory!vars
  <1>19. ASSUME NEW u \in Users, LoginTimerCloses(u) PROVE Step
    <2>1. timer[u] # "idle" /\ timer'[u] # "idle"
      BY <1>19 DEF LoginTimerCloses
    <2>2. Opened' = Opened
      BY <1>19, <2>1 DEF LoginTimerCloses
    <2> QED
      BY <1>19, <2>2 DEF LoginTimerCloses, registry, Directory!vars
  <1>20. ASSUME NEW c \in Conns, NEW u \in Users, DeviceLogin(c, u) PROVE Step
    BY <1>20 DEF DeviceLogin, Receive, registry, channels, sockets, Directory!vars
  <1>21. ASSUME NEW c \in Conns, NEW u \in Users, DeviceLogout(c, u) PROVE Step
    BY <1>21 DEF DeviceLogout, Receive, registry, channels, sockets, Directory!vars
  <1>22. ASSUME NEW c \in Conns, NEW u \in Users, ShellExits(c, u) PROVE Step
    BY <1>22 DEF ShellExits, registry, channels, sockets, Directory!vars
  <1>23. CASE UNCHANGED vars
    BY <1>23 DEF vars, registry, Directory!vars
  <1> QED
    BY <1>1, <1>2, <1>3, <1>4, <1>5, <1>6, <1>7, <1>8, <1>9, <1>10, <1>11, <1>12, <1>13, <1>14, <1>15, <1>16, <1>17, <1>18, <1>19, <1>20, <1>21, <1>22, <1>23
    DEF Next, BrokerStep, ConnectionStep, TimerStep, DeviceStep

\* The broker implements the abstract directory: an identifier changes hands
\* only through a release, which ends all the sessions of the identifier,
\* and no session comes back once it was opened.
THEOREM RefinesDirectory == Spec => ImplementsDirectory
  <1> QED
    BY DirectoryInit, DirectoryNext, DirectoryInitStep, DirectoryStep, PTL
    DEF Spec, ImplementsDirectory, Directory!Spec

-----------------------------------------------------------------------------
(* Refused devices.  That the one that is refused is not the one that is   *)
(* registered needs that a connection waits in the register channel only   *)
(* before it is registered.                                                *)

RefusedOut ==
    \A c \in Conns : answer[c] = "refused" =>
        /\ ~registered[c]
        /\ timer[c] = "armed" \/ (timer[c] = "fired" /\ c \in closed)

QueuedOut ==
    \A c \in Conns : registered[c] =>
        /\ phase[c] = "enrolled"
        /\ \A i \in 1..Len(registerQ) : registerQ[i] # c

RefusedInv == DirectoryInv /\ RefusedOut /\ QueuedOut

\* Nobody is refused or registered at the start.
LEMMA RefusedInit == Init => RefusedInv
  BY DirectoryInit, BrokerAssumption DEF Init, RefusedInv, RefusedOut, QueuedOut, Clients

\* A step that answers nobody, touches no timer, registers nobody and opens
\* nothing that was closed.
LEMMA RefusedKept ==
    ASSUME RefusedOut, UNCHANGED <<answer, timer>>, closed \subseteq closed',
           \A c \in Conns : registered'[c] => registered[c]
    PROVE  RefusedOut'
  BY DEF RefusedOut

\* A step that concerns one client only.
LEMMA RefusedOthers ==
    ASSUME RefusedOut, closed \subseteq closed', NEW x \in Clients,
           \A c \in Conns : c # x =>
               /\ answer'[c] = answer[c] /\ timer'[c] = timer[c]
               /\ registered'[c] = registered[c],
           x \in Conns /\ answer'[x] = "refused" =>
               /\ ~registered'[x]
               /\ timer'[x] = "armed" \/ (timer'[x] = "fired" /\ x \in closed')
    PROVE  RefusedOut'
  BY DEF RefusedOut

\* The register arm takes the one occurrence of x out of its channel.
LEMMA ServeRest ==
    ASSUME TypeOK, QueuedFresh, NEW x \in Clients, ServeRegister(x)
    PROVE  \A i \in 1..Len(registerQ') :
              registerQ'[i] # x /\ \E j \in 1..Len(registerQ) : registerQ'[i] = registerQ[j]
  <1>1. /\ registerQ \in Seq(Clients) /\ registerQ # <<>>
        /\ x = registerQ[1] /\ registerQ' = Tail(registerQ)
    BY DEF TypeOK, ServeRegister
  <1>2. /\ Len(registerQ) \in Nat \ {0} /\ Len(registerQ') = Len(registerQ) - 1
        /\ \A i \in 1..Len(registerQ') : registerQ'[i] = registerQ[i + 1]
    BY <1>1, HeadTailProperties, EmptySeq
  <1>3. ASSUME NEW i \in 1..Len(registerQ')
        PROVE  i + 1 \in 1..Len(registerQ) /\ 1 \in 1..Len(registerQ) /\ i + 1 # 1
    BY <1>2
  <1> QED
    BY <1>1, <1>2, <1>3 DEF QueuedFresh

\* The channel loses its head, and the others stay as they were.
LEMMA QueuedOthers ==
    ASSUME TypeOK, QueuedFresh, QueuedOut, NEW x \in Clients, ServeRegister(x),
           \A c \in Conns : c # x => registered'[c] = registered[c]
    PROVE  QueuedOut'
  <1>1. phase' = phase /\ phase[x] = "enrolled"
    <2>1. registerQ \in Seq(Clients) /\ registerQ # <<>> /\ x = registerQ[1]
      BY DEF TypeOK, ServeRegister
    <2>2. 1 \in 1..Len(registerQ)
      BY <2>1, EmptySeq
    <2> QED
      BY <2>1, <2>2 DEF ServeRegister, QueuedFresh
  <1> QED
    BY <1>1, ServeRest DEF QueuedOut

\* A connection posts its register message before it can be registered.
LEMMA QueuedPosted ==
    ASSUME TypeOK, QueuedOut, NEW x \in Clients, PostRegister(x)
    PROVE  QueuedOut'
  <1>1. /\ registerQ \in Seq(Clients) /\ registerQ' = Append(registerQ, x)
        /\ registered' = registered /\ phase[x] = "accepted"
        /\ \A c \in Conns : phase'[c] = "enrolled" \/ phase'[c] = phase[c]
    BY DEF TypeOK, PostRegister, Clients, registry
  <1>2. /\ Len(registerQ) \in Nat /\ Len(registerQ') = Len(registerQ) + 1
        /\ \A i \in 1..Len(registerQ) : registerQ'[i] = registerQ[i]
        /\ registerQ'[Len(registerQ) + 1] = x
    BY <1>1, AppendProperties
  <1>3. \A i \in 1..Len(registerQ') : i \in 1..Len(registerQ) \/ i = Len(registerQ) + 1
    BY <1>2
  <1> QED
    BY <1>1, <1>2, <1>3 DEF QueuedOut

\* Every step keeps the refused out of the tables.
LEMMA RefusedNext == RefusedInv /\ [Next]_vars => RefusedInv'
  <1> SUFFICES ASSUME RefusedInv, [Next]_vars PROVE RefusedOut' /\ QueuedOut'
    BY DirectoryNext DEF RefusedInv
  <1> DEFINE Goal == RefusedOut' /\ QueuedOut'
  <1> USE BrokerAssumption
      DEF RefusedInv, DirectoryInv, RegistryInv, TypeOK, Clients, Reply, Answers
  <1>1. ASSUME NEW x \in Clients, Accept(x) PROVE Goal
    <2>1. phase[x] = "new" /\ \A y \in Clients : y # x => phase'[y] = phase[y]
      BY <1>1 DEF Accept
    <2>2. UNCHANGED <<registry, registerQ, answer, timer, closed>>
      BY <1>1 DEF Accept, channels
    <2> QED
      BY <2>1, <2>2, RefusedKept DEF QueuedOut, registry
  <1>2. ASSUME NEW x \in Clients, PostRegister(x) PROVE Goal
    BY <1>2, RefusedKept, QueuedPosted DEF PostRegister, registry
  <1>3. ASSUME NEW x \in Clients, PeerLeaves(x) PROVE Goal
    BY <1>3, RefusedKept DEF PeerLeaves, QueuedOut, registry, channels
  <1>4. ASSUME NEW x \in Clients, NEW l, LoopEnds(x, l) PROVE Goal
    BY <1>4, RefusedKept DEF LoopEnds, QueuedOut, registry
  <1>5. ASSUME NEW c \in Conns, AdmitDevice(c) PROVE Goal
    <2>1. timer[c] = "idle" /\ timer' = timer /\ answer'[c] # "refused"
      BY <1>5, ServeFresh DEF AdmitDevice
    <2>2. /\ \A d \in Conns : d # c => registered'[d] = registered[d] /\ answer'[d] = answer[d]
          /\ closed' = closed
      BY <1>5 DEF AdmitDevice, ServeRegister
    <2> QED
      BY <1>5, <2>1, <2>2, RefusedOthers, QueuedOthers DEF AdmitDevice
  <1>6. ASSUME NEW c \in Conns, RefuseDevice(c) PROVE Goal
    <2>1. timer' = [timer EXCEPT ![c] = "armed"]
      BY <1>6 DEF RefuseDevice, ArmTimer
    <2>2. registered' = registered /\ closed' = closed
      BY <1>6 DEF RefuseDevice, ServeRegister, registry
    <2>3. ~registered[c]
      <3>1. registerQ \in Seq(Clients) /\ registerQ # <<>> /\ c = registerQ[1]
        BY <1>6 DEF RefuseDevice, ServeRegister
      <3>2. 1 \in 1..Len(registerQ)
        BY <3>1, EmptySeq
      <3> QED
        BY <3>1, <3>2 DEF QueuedOut
    <2>4. \A d \in Conns : d # c => answer'[d] = answer[d]
      BY <1>6 DEF RefuseDevice
    <2> QED
      BY <1>6, <2>1, <2>2, <2>3, <2>4, RefusedOthers, QueuedOthers DEF RefuseDevice
  <1>7. ASSUME NEW u \in Users, OpenSession(u) PROVE Goal
    <2>1. /\ UNCHANGED <<registered, answer, closed>>
          /\ \A c \in Conns : timer'[c] = timer[c]
      BY <1>7 DEF OpenSession, ServeRegister, ArmTimer
    <2> QED
      BY <1>7, <2>1, RefusedOthers, QueuedOthers DEF OpenSession
  <1>8. ASSUME NEW u \in Users, RefuseUser(u) PROVE Goal
    <2>1. /\ UNCHANGED <<registered, timer, closed>>
          /\ \A c \in Conns : answer'[c] = answer[c]
      BY <1>8 DEF RefuseUser, ServeRegister, registry
    <2> QED
      BY <1>8, <2>1, RefusedOthers, QueuedOthers DEF RefuseUser
  <1>9. ASSUME NEW c \in Conns, UnregisterDevice(c) PROVE Goal
    <2>1. /\ UNCHANGED <<registerQ, phase, answer, timer>>
          /\ closed \subseteq closed'
      BY <1>9 DEF UnregisterDevice, ServeUnregister
    <2>2. \A d \in Conns : registered'[d] => registered[d]
      <3>1. \/ registered' = [registered EXCEPT ![c] = FALSE]
            \/ registered' = registered
        BY <1>9 DEF UnregisterDevice, DropDevice
      <3> QED
        BY <3>1
    <2> QED
      BY <2>1, <2>2, RefusedKept DEF QueuedOut
  <1>10. ASSUME NEW u \in Users, UnregisterUser(u) PROVE Goal
    BY <1>10, RefusedKept DEF UnregisterUser, ServeUnregister, QueuedOut
  <1>11. ASSUME NEW u \in Users, ConfirmSession(u) \/ DeviceBusy(u) PROVE Goal
    <2>1. /\ UNCHANGED <<registered, registerQ, phase, timer, closed>>
          /\ \A c \in Conns : answer'[c] = answer[c]
      BY <1>11 DEF ConfirmSession, DeviceBusy, ServeLoginAck, sockets
    <2> QED
      BY <2>1, RefusedOthers DEF QueuedOut
  <1>12. ASSUME NEW u \in Users, StaleLoginAck(u) PROVE Goal
    BY <1>12, RefusedKept DEF StaleLoginAck, ServeLoginAck, QueuedOut, sockets
  <1>13. ASSUME NEW u \in Users, EndSession(u) PROVE Goal
    BY <1>13, RefusedKept DEF EndSession, QueuedOut
  <1>14. ASSUME NEW c \in Conns, RejectTimer(c) PROVE Goal
    <2>1. /\ UNCHANGED <<registered, answer, registerQ, phase>>
          /\ closed \subseteq closed' /\ c \in closed'
          /\ timer' = [timer EXCEPT ![c] = "fired"]
      BY <1>14 DEF RejectTimer, registry, channels
    <2> QED
      BY <2>1 DEF RefusedOut, QueuedOut
  <1>15. ASSUME NEW u \in Users, LoginTimerReads(u) \/ LoginTimerCloses(u) PROVE Goal
    <2>1. /\ UNCHANGED <<registered, answer, registerQ, phase>>
          /\ closed \subseteq closed'
          /\ \A c \in Conns : timer'[c] = timer[c]
      BY <1>15 DEF LoginTimerReads, LoginTimerCloses, registry, channels, sockets
    <2> QED
      BY <2>1 DEF RefusedOut, QueuedOut
  <1>16. ASSUME NEW c \in Conns, NEW u \in Users,
                DeviceLogin(c, u) \/ DeviceLogout(c, u) \/ ShellExits(c, u)
         PROVE  Goal
    <2>1. UNCHANGED <<registered, registerQ, phase, answer, timer, closed>>
      BY <1>16 DEF DeviceLogin, DeviceLogout, ShellExits, Receive, registry, sockets
    <2> QED
      BY <2>1, RefusedKept DEF QueuedOut
  <1>17. CASE UNCHANGED vars
    BY <1>17, RefusedKept DEF vars, QueuedOut, registry, channels, sockets
  <1> QED
    BY <1>1, <1>2, <1>3, <1>4, <1>5, <1>6, <1>7, <1>8, <1>9, <1>10, <1>11, <1>12, <1>13, <1>14, <1>15, <1>16, <1>17
    DEF Next, BrokerStep, ConnectionStep, TimerStep, DeviceStep, ReadLoopEnds, WriteLoopEnds, KillInactive

\* A refused device is in no table, whatever happens to the one it conflicts
\* with, and its timer closes it.
THEOREM RefusedSafe == Spec => []RefusedStaysOut
  <1>1. RefusedInv => RefusedStaysOut
    <2> SUFFICES ASSUME RefusedInv, NEW c \in Conns, answer[c] = "refused"
                 PROVE  /\ ~registered[c] /\ \A u \in Users : sessions[u] # c
                        /\ timer[c] = "armed" \/ c \in closed
      BY DEF RefusedStaysOut
    <2>1. ~registered[c] /\ (timer[c] = "armed" \/ c \in closed)
      BY DEF RefusedInv, RefusedOut
    <2>2. ASSUME NEW u \in Users, sessions[u] = c PROVE FALSE
      <3>1. devices[Target[u]] = c /\ c # None /\ Target[u] \in DevIds
        BY <2>2, BrokerAssumption
        DEF RefusedInv, DirectoryInv, RegistryInv, SessionOnRegistrant, TypeOK
      <3>2. registered[c]
        BY <3>1 DEF RefusedInv, DirectoryInv, RegistryInv, RegistryConsistent
      <3> QED
        BY <2>1, <3>2
    <2> QED
      BY <2>1, <2>2
  <1> QED
    BY <1>1, RefusedInit, RefusedNext, PTL DEF Spec

-----------------------------------------------------------------------------
(* Hang-ups.  That a leaving user's session ends with its connection needs *)
(* that the broker has given a confirmed session's user its sid.           *)

SidKnown == \A u \in Users : confirmed[u] => sidSet[u]

SidInv == TypeOK /\ SidKnown

\* No session is confirmed at the start.
LEMMA SidInit == Init => SidInv
  BY TypeInit DEF Init, SidInv, SidKnown

\* The flag and the sid are set by the same step, and nothing resets the sid.
LEMMA SidNext == SidInv /\ [Next]_vars => SidInv'
  <1> SUFFICES ASSUME SidInv, [Next]_vars PROVE SidKnown'
    BY TypeNext DEF SidInv
  <1>1. ASSUME NEW u \in Users, ConfirmSession(u) PROVE SidKnown'
    BY <1>1 DEF ConfirmSession, SidInv, SidKnown, TypeOK
  <1>2. CASE UNCHANGED <<confirmed, sidSet>>
    BY <1>2 DEF SidInv, SidKnown
  <1>3. ASSUME BrokerStep, \A u \in Users : ~ConfirmSession(u)
        PROVE  UNCHANGED <<confirmed, sidSet>>
    BY <1>3
    DEF BrokerStep, AdmitDevice, RefuseDevice, UnregisterDevice, OpenSession, RefuseUser,
        UnregisterUser, DeviceBusy, StaleLoginAck, EndSession, ServeUnregister, registry
  <1>4. ASSUME ConnectionStep \/ TimerStep PROVE UNCHANGED <<confirmed, sidSet>>
    BY <1>4
    DEF ConnectionStep, TimerStep, Accept, PostRegister, PeerLeaves, ReadLoopEnds,
        WriteLoopEnds, KillInactive, LoopEnds, RejectTimer, LoginTimerReads,
        LoginTimerCloses, registry
  <1>5. ASSUME DeviceStep PROVE UNCHANGED <<confirmed, sidSet>>
    BY <1>5 DEF DeviceStep, DeviceLogin, DeviceLogout, ShellExits, Receive, registry
  <1>6. ASSUME UNCHANGED vars PROVE UNCHANGED <<confirmed, sidSet>>
    BY <1>6 DEF vars, registry
  <1> QED
    BY <1>1, <1>2, <1>3, <1>4, <1>5, <1>6 DEF Next

HungUpRightly ==
    \A u \in Users : (confirmed[u] /\ ~Doomed(u) /\ Doomed(u)') => sessions'[u] = None

\* The steps that close users, and those that start a login timer, end the
\* session or leave a confirmed one alone.
LEMMA HangUpStep == SidInv /\ [Next]_vars => HungUpRightly
  <1> SUFFICES ASSUME SidInv, [Next]_vars PROVE HungUpRightly
    OBVIOUS
  <1>0. TypeOK /\ SidKnown
    BY DEF SidInv
  <1> USE <1>0, BrokerAssumption
  <1>1. CASE UNCHANGED closed /\ \A u \in Users : timer'[u] = "closing" => timer[u] = "closing"
    BY <1>1 DEF HungUpRightly, Doomed
  <1>2. ASSUME NEW c \in Conns, AdmitDevice(c) \/ RefuseDevice(c) PROVE HungUpRightly
    <2>1. UNCHANGED closed /\ (timer' = timer \/ timer' = ArmTimer(c))
      BY <1>2 DEF AdmitDevice, RefuseDevice, ServeRegister
    <2>2. \A u \in Users : timer'[u] = timer[u]
      BY <2>1 DEF ArmTimer, TypeOK, Clients
    <2> QED
      BY <2>1, <2>2, <1>1
  <1>3. ASSUME NEW u \in Users, OpenSession(u) \/ RefuseUser(u) PROVE HungUpRightly
    <2>1. UNCHANGED closed
      BY <1>3 DEF OpenSession, RefuseUser, ServeRegister
    <2>2. \A v \in Users : timer'[v] = "closing" => timer[v] = "closing"
      BY <1>3 DEF OpenSession, RefuseUser, ArmTimer, TypeOK, Clients
    <2> QED
      BY <2>1, <2>2, <1>1
  <1>4. ASSUME NEW c \in Conns, UnregisterDevice(c) PROVE HungUpRightly
    <2>1. timer' = timer /\ closed' = closed \cup HungUpWith(c)
      BY <1>4 DEF UnregisterDevice, ServeUnregister
    <2>2. ASSUME NEW u \in Users, u \in HungUpWith(c) PROVE sessions'[u] = None
      <3>1. registered[c] /\ u \in SessionsOf(c)
        BY <2>2 DEF HungUpWith
      <3> QED
        BY <3>1, <1>4 DEF UnregisterDevice, DropDevice
    <2> QED
      BY <2>1, <2>2 DEF HungUpRightly, Doomed
  <1>5. ASSUME NEW u \in Users, UnregisterUser(u) PROVE HungUpRightly
    <2>1. /\ timer' = timer /\ closed' = closed \cup {u}
          /\ sessions' = [sessions EXCEPT ![u] = IF HasSession(u) THEN None ELSE @]
      BY <1>5 DEF UnregisterUser, ServeUnregister
    <2>2. confirmed[u] => sessions'[u] = None
      BY <2>1 DEF HasSession, SidKnown, TypeOK
    <2> QED
      BY <2>1, <2>2 DEF HungUpRightly, Doomed
  <1>6. ASSUME NEW u \in Users, ConfirmSession(u) \/ DeviceBusy(u) \/ StaleLoginAck(u)
        PROVE  HungUpRightly
    BY <1>6, <1>1 DEF ConfirmSession, DeviceBusy, StaleLoginAck, ServeLoginAck, sockets
  <1>7. ASSUME NEW u \in Users, EndSession(u) PROVE HungUpRightly
    <2>1. timer' = timer /\ closed' \subseteq closed \cup {u} /\ sessions'[u] = None
      BY <1>7 DEF EndSession, TypeOK
    <2> QED
      BY <2>1 DEF HungUpRightly, Doomed
  <1>8. CASE ConnectionStep
    BY <1>8, <1>1
    DEF ConnectionStep, Accept, PostRegister, PeerLeaves, ReadLoopEnds, WriteLoopEnds,
        KillInactive, LoopEnds
  <1>9. ASSUME NEW c \in Conns, RejectTimer(c) PROVE HungUpRightly
    <2>1. closed' = closed \cup {c} /\ \A u \in Users : timer'[u] = timer[u]
      BY <1>9 DEF RejectTimer, TypeOK
    <2> QED
      BY <2>1 DEF HungUpRightly, Doomed
  <1>10. ASSUME NEW u \in Users, LoginTimerReads(u) PROVE HungUpRightly
    <2>1. /\ UNCHANGED closed
          /\ timer' = [timer EXCEPT ![u] = IF confirmed[u] THEN "fired" ELSE "closing"]
      BY <1>10 DEF LoginTimerReads, sockets
    <2> QED
      BY <2>1 DEF HungUpRightly, Doomed, TypeOK, Clients
  <1>11. ASSUME NEW u \in Users, LoginTimerCloses(u) PROVE HungUpRightly
    <2>1. /\ timer[u] = "closing" /\ closed' = closed \cup {u}
          /\ timer' = [timer EXCEPT ![u] = "fired"]
      BY <1>11 DEF LoginTimerCloses
    <2> QED
      BY <2>1 DEF HungUpRightly, Doomed, TypeOK, Clients
  <1>12. CASE DeviceStep
    BY <1>12, <1>1 DEF DeviceStep, DeviceLogin, DeviceLogout, ShellExits, Receive, sockets
  <1>13. CASE UNCHANGED vars
    BY <1>13, <1>1 DEF vars, sockets
  <1> QED
    BY <1>2, <1>3, <1>4, <1>5, <1>6, <1>7, <1>8, <1>9, <1>10, <1>11, <1>12, <1>13
    DEF Next, BrokerStep, TimerStep

\* Once a session is confirmed, nothing hangs its user up but what ends it.
THEOREM LiveSessionsSafe == Spec => NoHangUpOnLiveSession
  <1>1. SidInv /\ [Next]_vars
        => [\A u \in Users :
              (confirmed[u] /\ ~Doomed(u) /\ Doomed(u)') => sessions'[u] = None]_vars
    BY HangUpStep DEF HungUpRightly
  <1> QED
    BY <1>1, SidInit, SidNext, PTL DEF Spec, NoHangUpOnLiveSession

-----------------------------------------------------------------------------
(* Every shell is accounted for.                                           *)
(*                                                                         *)
(* A shell is lost if its session ends while no logout is on its way.  The *)
(* argument follows one login: its message is in one outbox, then it is a  *)
(* shell, then the end of it is reported; it is never two of these, since  *)
(* a session is opened once.  So a report of the end of a shell cannot end *)
(* the session of another, and a logout posted behind a login is read      *)
(* after it.                                                               *)

LoginAt(c, i, u)  == outbox[c][i] = LoginMsg(u)
LogoutAt(c, i, u) == outbox[c][i] = LogoutMsg(u)

NoLogin(u) == \A c \in Conns : \A i \in 1..Len(outbox[c]) : ~LoginAt(c, i, u)
NoShell(u) == \A c \in Conns : u \notin shells[c]
NoEnd(u) == \A i \in 1..Len(logoutQ) : logoutQ[i] # u

\* Nothing is under way for a user whose session has not been opened.
Untouched == \A u \in Users : timer[u] = "idle" => NoLogin(u) /\ NoShell(u) /\ NoEnd(u)

\* A login is in one place.
OneLogin ==
    \A u \in Users, c \in Conns, d \in Conns :
        \A i \in 1..Len(outbox[c]), j \in 1..Len(outbox[d]) :
            LoginAt(c, i, u) /\ LoginAt(d, j, u) => c = d /\ i = j

OneShell ==
    \A u \in Users, c \in Conns, d \in Conns : u \in shells[c] /\ u \in shells[d] => c = d

\* A message, then a shell, then a report.
InTurn ==
    \A u \in Users :
        /\ NoLogin(u) \/ (NoShell(u) /\ NoEnd(u))
        /\ NoShell(u) \/ NoEnd(u)

\* A login whose session has ended is followed by a logout.
LoginAccounted ==
    \A u \in Users, c \in Conns : \A i \in 1..Len(outbox[c]) : LoginAt(c, i, u) =>
        \/ sessions[u] = c
        \/ c \in closed
        \/ \E j \in 1..Len(outbox[c]) : j > i /\ LogoutAt(c, j, u)

ShellFacts ==
    /\ Untouched
    /\ OneLogin
    /\ OneShell
    /\ InTurn
    /\ LoginAccounted
    /\ ShellAccounted

ShellInv == DirectoryInv /\ ShellFacts

-----------------------------------------------------------------------------
(* Messages and channels.                                                  *)

\* A login is no logout, and each is of one user.
LEMMA Messages ==
    /\ \A u \in Users : LoginMsg(u) \in DeviceMsg /\ LogoutMsg(u) \in DeviceMsg
    /\ \A u \in Users, v \in Users : LoginMsg(u) # LogoutMsg(v)
    /\ \A u \in Users, v \in Users : LoginMsg(u) = LoginMsg(v) => u = v
    /\ \A u \in Users, v \in Users : LogoutMsg(u) = LogoutMsg(v) => u = v
  BY DEF LoginMsg, LogoutMsg, DeviceMsg

\* The length of an outbox is a number.
LEMMA OutboxLen ==
    ASSUME TypeOK, NEW c \in Conns
    PROVE  outbox[c] \in Seq(DeviceMsg) /\ Len(outbox[c]) \in Nat
  BY LenProperties DEF TypeOK

\* What WriteMsg does to the outboxes: the message is last in that of d, or
\* is lost because d is closed.
LEMMA SendEffect ==
    ASSUME TypeOK, NEW d \in Conns, NEW m \in DeviceMsg, outbox' = Send(d, m)
    PROVE  /\ \A c \in Conns : \A i \in 1..Len(outbox[c]) :
                i \in 1..Len(outbox'[c]) /\ outbox'[c][i] = outbox[c][i]
           /\ \A c \in Conns : \A i \in 1..Len(outbox'[c]) :
                \/ i \in 1..Len(outbox[c])
                \/ c = d /\ i = Len(outbox[d]) + 1 /\ outbox'[c][i] = m
           /\ \/ d \in closed /\ outbox' = outbox
              \/ /\ Len(outbox[d]) + 1 \in 1..Len(outbox'[d])
                 /\ outbox'[d][Len(outbox[d]) + 1] = m
  <1>1. CASE d \in closed
    <2>1. outbox' = outbox
      BY <1>1 DEF Send, TypeOK
    <2> QED
      BY <1>1, <2>1
  <1>2. CASE d \notin closed
    <2>1. /\ outbox'[d] = Append(outbox[d], m)
          /\ \A c \in Conns : c # d => outbox'[c] = outbox[c]
      BY <1>2 DEF Send, TypeOK
    <2>2. /\ Len(outbox'[d]) = Len(outbox[d]) + 1
          /\ \A i \in 1..Len(outbox[d]) : outbox'[d][i] = outbox[d][i]
          /\ outbox'[d][Len(outbox[d]) + 1] = m
      BY <2>1, OutboxLen, AppendProperties
    <2>3. Len(outbox[d]) \in Nat
      BY OutboxLen
    <2>4. \A i \in 1..Len(outbox'[d]) : i \in 1..Len(outbox[d]) \/ i = Len(outbox[d]) + 1
      BY <2>2, <2>3
    <2>5. \A i \in 1..Len(outbox[d]) : i \in 1..Len(outbox'[d])
      BY <2>2, <2>3
    <2>6. Len(outbox[d]) + 1 \in 1..Len(outbox'[d])
      BY <2>2, <2>3
    <2> QED
      BY <2>1, <2>2, <2>4, <2>5, <2>6
  <1> QED
    BY <1>1, <1>2

\* What the device program reads is the first message of its outbox, and the
\* others move up by one.
LEMMA ReceiveEffect ==
    ASSUME TypeOK, NEW c \in Conns, Receive(c)
    PROVE  /\ 1 \in 1..Len(outbox[c]) /\ Head(outbox[c]) = outbox[c][1]
           /\ \A d \in Conns : d # c => outbox'[d] = outbox[d]
           /\ \A i \in 1..Len(outbox'[c]) :
                i + 1 \in 1..Len(outbox[c]) /\ outbox'[c][i] = outbox[c][i + 1]
           /\ \A i \in 1..Len(outbox[c]) :
                i = 1 \/ (i - 1 \in 1..Len(outbox'[c]) /\ outbox'[c][i - 1] = outbox[c][i])
  <1>1. /\ outbox[c] \in Seq(DeviceMsg) /\ outbox[c] # <<>>
        /\ outbox'[c] = Tail(outbox[c])
        /\ \A d \in Conns : d # c => outbox'[d] = outbox[d]
    BY DEF Receive, TypeOK
  <1>2. /\ Len(outbox[c]) \in Nat \ {0} /\ Len(outbox'[c]) = Len(outbox[c]) - 1
        /\ \A i \in 1..Len(outbox'[c]) : outbox'[c][i] = outbox[c][i + 1]
        /\ Head(outbox[c]) = outbox[c][1]
    BY <1>1, HeadTailProperties, EmptySeq
  <1>3. 1 \in 1..Len(outbox[c])
    BY <1>2
  <1>4. \A i \in 1..Len(outbox'[c]) : i + 1 \in 1..Len(outbox[c])
    BY <1>2
  <1>5. \A i \in 1..Len(outbox[c]) : i = 1 \/ (i - 1 \in 1..Len(outbox'[c]) /\ (i - 1) + 1 = i)
    BY <1>2
  <1> QED
    BY <1>1, <1>2, <1>3, <1>4, <1>5

\* The broker hears of the end of u's shell, or of nothing.
LEMMA HeardEffect ==
    ASSUME TypeOK, NEW c \in Conns, NEW u \in Users,
           logoutQ' = logoutQ \/ logoutQ' = Heard(c, logoutQ, u)
    PROVE  \A v \in Users : v # u /\ NoEnd(v) => NoEnd(v)'
  <1>1. logoutQ' = logoutQ \/ logoutQ' = Append(logoutQ, u)
    BY DEF Heard
  <1>2. CASE logoutQ' = Append(logoutQ, u)
    <2>1. /\ Len(logoutQ) \in Nat /\ Len(logoutQ') = Len(logoutQ) + 1
          /\ \A i \in 1..Len(logoutQ) : logoutQ'[i] = logoutQ[i]
          /\ logoutQ'[Len(logoutQ) + 1] = u
      BY <1>2, AppendProperties DEF TypeOK
    <2>2. \A i \in 1..Len(logoutQ') : i \in 1..Len(logoutQ) \/ i = Len(logoutQ) + 1
      BY <2>1
    <2> QED
      BY <2>1, <2>2 DEF NoEnd
  <1> QED
    BY <1>1, <1>2 DEF NoEnd

-----------------------------------------------------------------------------
(* The steps, each for all the parts of ShellFacts.                        *)

\* At the start there is nothing to account for.
LEMMA ShellInit == Init => ShellInv
  <1> SUFFICES ASSUME Init PROVE ShellFacts
    BY DirectoryInit DEF ShellInv
  <1>1. /\ \A c \in Conns : outbox[c] = <<>> /\ shells[c] = {}
        /\ logoutQ = <<>>
    BY DEF Init
  <1>2. 1..Len(<<>>) = {}
    BY EmptySeq
  <1> QED
    BY <1>1, <1>2
    DEF ShellFacts, Untouched, NoLogin, NoShell, NoEnd, OneLogin, OneShell, InTurn,
        LoginAccounted, ShellAccounted

\* Steps that move nothing: they may close clients and start timers.
LEMMA ShellKept ==
    ASSUME ShellFacts, UNCHANGED <<outbox, shells, logoutQ, sessions>>,
           closed \subseteq closed',
           \A u \in Users : timer'[u] = "idle" => timer[u] = "idle"
    PROVE  ShellFacts'
  BY DEF ShellFacts, Untouched, NoLogin, NoShell, NoEnd, OneLogin, OneShell, InTurn,
         LoginAccounted, ShellAccounted, LoginAt, LogoutAt, InSeq

\* The session of a user with nothing under way may end.
LEMMA ShellEnds ==
    ASSUME TypeOK, ShellFacts, NEW u \in Users, \E i \in 1..Len(logoutQ) : logoutQ[i] = u,
           UNCHANGED <<outbox, shells, timer>>, closed \subseteq closed',
           \A i \in 1..Len(logoutQ') : \E j \in 1..Len(logoutQ) : logoutQ'[i] = logoutQ[j],
           \A v \in Users : v # u => sessions'[v] = sessions[v]
    PROVE  ShellFacts'
  <1>1. \A v \in Users : NoEnd(v) => NoEnd(v)'
    BY DEF NoEnd
  <1>2. \A v \in Users : NoLogin(v)' <=> NoLogin(v)
    BY DEF NoLogin, LoginAt
  <1>3. \A v \in Users : NoShell(v)' <=> NoShell(v)
    BY DEF NoShell
  <1>4. NoLogin(u) /\ NoShell(u)
    BY DEF ShellFacts, InTurn, NoEnd
  <1>5. Untouched' /\ InTurn'
    BY <1>1, <1>2, <1>3 DEF ShellFacts, Untouched, InTurn
  <1>6. OneLogin' /\ OneShell'
    BY DEF ShellFacts, OneLogin, OneShell, LoginAt
  <1>7. LoginAccounted'
    <2> SUFFICES ASSUME NEW v \in Users, NEW c \in Conns, NEW i \in 1..Len(outbox[c]),
                        LoginAt(c, i, v)
                 PROVE  \/ sessions'[v] = c
                        \/ c \in closed'
                        \/ \E j \in 1..Len(outbox[c]) : j > i /\ LogoutAt(c, j, v)
      BY DEF LoginAccounted, LoginAt, LogoutAt
    <2>1. v # u
      BY <1>4 DEF NoLogin
    <2> QED
      BY <2>1 DEF ShellFacts, LoginAccounted
  <1>8. ShellAccounted'
    BY <1>4 DEF TypeOK, ShellFacts, ShellAccounted, NoShell, InSeq
  <1> QED
    BY <1>5, <1>6, <1>7, <1>8 DEF ShellFacts

\* A session is opened: the first that is ever sent for u.
LEMMA ShellOpens ==
    ASSUME TypeOK, ShellFacts, NEW u \in Users, NEW d \in Conns,
           timer[u] = "idle", timer'[u] # "idle",
           \A v \in Users : v # u => timer'[v] = timer[v],
           outbox' = Send(d, LoginMsg(u)), UNCHANGED <<shells, logoutQ, closed>>,
           sessions' = [sessions EXCEPT ![u] = d]
    PROVE  ShellFacts'
  <1>1. NoLogin(u) /\ NoShell(u) /\ NoEnd(u)
    BY DEF ShellFacts, Untouched
  <1>2. /\ \A c \in Conns : \A i \in 1..Len(outbox[c]) :
              i \in 1..Len(outbox'[c]) /\ outbox'[c][i] = outbox[c][i]
        /\ \A c \in Conns : \A i \in 1..Len(outbox'[c]) :
              \/ i \in 1..Len(outbox[c])
              \/ c = d /\ i = Len(outbox[d]) + 1 /\ outbox'[c][i] = LoginMsg(u)
    BY Messages, SendEffect
  <1>3. \A v \in Users, c \in Conns : v # u =>
            \A i \in 1..Len(outbox'[c]) : LoginAt(c, i, v)' =>
                i \in 1..Len(outbox[c]) /\ LoginAt(c, i, v)
    BY <1>2, Messages DEF LoginAt
  <1>4. \A c \in Conns : \A i \in 1..Len(outbox'[c]) :
            LoginAt(c, i, u)' => c = d /\ i = Len(outbox[d]) + 1
    BY <1>1, <1>2 DEF LoginAt, NoLogin
  <1>5. \A v \in Users : v # u => (NoLogin(v) => NoLogin(v)')
    BY <1>3 DEF NoLogin
  <1>6. \A v \in Users : (NoShell(v)' <=> NoShell(v)) /\ (NoEnd(v)' <=> NoEnd(v))
    BY DEF NoShell, NoEnd
  <1>7. Untouched'
    BY <1>5, <1>6 DEF ShellFacts, Untouched
  <1>8. InTurn'
    BY <1>1, <1>5, <1>6 DEF ShellFacts, InTurn
  <1>9. OneShell'
    BY DEF ShellFacts, OneShell
  <1>10. OneLogin'
    <2> SUFFICES ASSUME NEW v \in Users, NEW c \in Conns, NEW e \in Conns,
                        NEW i \in 1..Len(outbox'[c]), NEW j \in 1..Len(outbox'[e]),
                        LoginAt(c, i, v)', LoginAt(e, j, v)'
                 PROVE  c = e /\ i = j
      BY DEF OneLogin
    <2>1. CASE v = u
      BY <2>1, <1>4
    <2>2. CASE v # u
      BY <2>2, <1>3 DEF ShellFacts, OneLogin
    <2> QED
      BY <2>1, <2>2
  <1>11. LoginAccounted'
    <2> SUFFICES ASSUME NEW v \in Users, NEW c \in Conns,
                        NEW i \in 1..Len(outbox'[c]), LoginAt(c, i, v)'
                 PROVE  \/ sessions'[v] = c
                        \/ c \in closed
                        \/ \E j \in 1..Len(outbox'[c]) : j > i /\ LogoutAt(c, j, v)'
      BY DEF LoginAccounted
    <2>1. CASE v = u
      BY <2>1, <1>4 DEF TypeOK
    <2>2. CASE v # u
      <3>1. i \in 1..Len(outbox[c]) /\ LoginAt(c, i, v) /\ sessions'[v] = sessions[v]
        BY <2>2, <1>3 DEF TypeOK
      <3>2. \A j \in 1..Len(outbox[c]) :
                LogoutAt(c, j, v) => j \in 1..Len(outbox'[c]) /\ LogoutAt(c, j, v)'
        BY <1>2 DEF LogoutAt
      <3> QED
        BY <3>1, <3>2 DEF ShellFacts, LoginAccounted
    <2> QED
      BY <2>1, <2>2
  <1>12. ShellAccounted'
    <2> SUFFICES ASSUME NEW c \in Conns, NEW v \in shells[c]
                 PROVE  sessions'[v] = c \/ InSeq(outbox'[c], LogoutMsg(v)) \/ c \in closed
      BY DEF ShellAccounted
    <2>1. v # u /\ v \in Users /\ sessions'[v] = sessions[v]
      BY <1>1 DEF NoShell, TypeOK
    <2> QED
      BY <2>1, <1>2 DEF ShellFacts, ShellAccounted, InSeq
  <1> QED
    BY <1>7, <1>8, <1>9, <1>10, <1>11, <1>12 DEF ShellFacts

\* A user hangs up: its device, if it is there to be told, is told last.
LEMMA ShellLoggedOut ==
    ASSUME TypeOK, ShellFacts, NEW u \in Users, NEW d \in Conns, sessions[u] = d,
           outbox' = Send(d, LogoutMsg(u)), UNCHANGED <<shells, logoutQ, timer>>,
           closed \subseteq closed', sessions' = [sessions EXCEPT ![u] = None]
    PROVE  ShellFacts'
  <1>1. /\ \A c \in Conns : \A i \in 1..Len(outbox[c]) :
              i \in 1..Len(outbox'[c]) /\ outbox'[c][i] = outbox[c][i]
        /\ \A c \in Conns : \A i \in 1..Len(outbox'[c]) :
              \/ i \in 1..Len(outbox[c])
              \/ c = d /\ i = Len(outbox[d]) + 1 /\ outbox'[c][i] = LogoutMsg(u)
        /\ \/ d \in closed /\ outbox' = outbox
           \/ /\ Len(outbox[d]) + 1 \in 1..Len(outbox'[d])
              /\ outbox'[d][Len(outbox[d]) + 1] = LogoutMsg(u)
    BY Messages, SendEffect
  <1>2. \A v \in Users, c \in Conns : \A i \in 1..Len(outbox'[c]) :
            LoginAt(c, i, v)' => i \in 1..Len(outbox[c]) /\ LoginAt(c, i, v)
    BY <1>1, Messages DEF LoginAt
  <1>3. \A v \in Users : /\ NoLogin(v) => NoLogin(v)'
                         /\ NoShell(v)' <=> NoShell(v)
                         /\ NoEnd(v)' <=> NoEnd(v)
    BY <1>2 DEF NoLogin, NoShell, NoEnd
  <1>4. Untouched' /\ InTurn'
    BY <1>3 DEF ShellFacts, Untouched, InTurn
  <1>5. OneLogin' /\ OneShell'
    BY <1>2 DEF ShellFacts, OneLogin, OneShell
  <1>6. LoginAccounted'
    <2> SUFFICES ASSUME NEW v \in Users, NEW c \in Conns,
                        NEW i \in 1..Len(outbox'[c]), LoginAt(c, i, v)'
                 PROVE  \/ sessions'[v] = c
                        \/ c \in closed'
                        \/ \E j \in 1..Len(outbox'[c]) : j > i /\ LogoutAt(c, j, v)'
      BY DEF LoginAccounted
    <2>1. i \in 1..Len(outbox[c]) /\ LoginAt(c, i, v)
      BY <1>2
    <2>2. \A j \in 1..Len(outbox[c]) :
              LogoutAt(c, j, v) => j \in 1..Len(outbox'[c]) /\ LogoutAt(c, j, v)'
      BY <1>1 DEF LogoutAt
    <2>3. CASE v = u /\ c = d
      <3>1. i \in Nat /\ Len(outbox[d]) \in Nat /\ Len(outbox[d]) + 1 > i
        BY <2>1, <2>3, OutboxLen
      <3> QED
        BY <1>1, <2>3, <3>1 DEF LogoutAt
    <2>4. CASE ~(v = u /\ c = d)
      <3>1. sessions[v] = c => sessions'[v] = c
        BY <2>4 DEF TypeOK
      <3> QED
        BY <2>1, <2>2, <3>1 DEF ShellFacts, LoginAccounted
    <2> QED
      BY <2>3, <2>4
  <1>7. ShellAccounted'
    <2> SUFFICES ASSUME NEW c \in Conns, NEW v \in shells[c]
                 PROVE  sessions'[v] = c \/ InSeq(outbox'[c], LogoutMsg(v)) \/ c \in closed'
      BY DEF ShellAccounted
    <2>1. v \in Users
      BY DEF TypeOK
    <2>2. InSeq(outbox[c], LogoutMsg(v)) => InSeq(outbox'[c], LogoutMsg(v))
      BY <1>1 DEF InSeq
    <2>3. CASE v = u /\ c = d
      BY <1>1, <2>3 DEF InSeq
    <2>4. CASE ~(v = u /\ c = d)
      <3>1. sessions[v] = c => sessions'[v] = c
        BY <2>1, <2>4 DEF TypeOK
      <3> QED
        BY <2>2, <3>1 DEF ShellFacts, ShellAccounted
    <2> QED
      BY <2>3, <2>4
  <1> QED
    BY <1>4, <1>5, <1>6, <1>7 DEF ShellFacts

\* A device goes with its sessions, and is closed.
LEMMA ShellHungUp ==
    ASSUME TypeOK, ShellFacts, NEW d \in Conns,
           UNCHANGED <<outbox, shells, logoutQ, timer>>,
           closed \subseteq closed', d \in closed',
           \A v \in Users : sessions'[v] = sessions[v] \/ sessions[v] = d
    PROVE  ShellFacts'
  <1>1. Untouched' /\ OneLogin' /\ OneShell' /\ InTurn'
    BY DEF ShellFacts, Untouched, NoLogin, NoShell, NoEnd, OneLogin, OneShell, InTurn, LoginAt
  <1>2. LoginAccounted'
    BY DEF ShellFacts, LoginAccounted, LoginAt, LogoutAt
  <1>3. ShellAccounted'
    BY DEF ShellFacts, ShellAccounted, InSeq, TypeOK
  <1> QED
    BY <1>1, <1>2, <1>3 DEF ShellFacts

\* Shells end, with a report or, if the connection is lost, without one.
LEMMA ShellsGo ==
    ASSUME TypeOK, ShellFacts, UNCHANGED <<outbox, sessions, timer, closed>>,
           \A c \in Conns : shells'[c] \subseteq shells[c],
           \A v \in Users :
               \/ NoEnd(v) => NoEnd(v)'
               \/ (\E c \in Conns : v \in shells[c]) /\ NoShell(v)'
    PROVE  ShellFacts'
  <1>1. \A v \in Users : (NoLogin(v)' <=> NoLogin(v)) /\ (NoShell(v) => NoShell(v)')
    BY DEF NoLogin, NoShell, LoginAt
  <1>2. Untouched' /\ InTurn'
    BY <1>1 DEF ShellFacts, Untouched, InTurn, NoShell
  <1>3. OneLogin' /\ LoginAccounted'
    BY DEF ShellFacts, OneLogin, LoginAccounted, LoginAt, LogoutAt
  <1>4. OneShell' /\ ShellAccounted'
    BY DEF ShellFacts, OneShell, ShellAccounted, InSeq, TypeOK
  <1> QED
    BY <1>2, <1>3, <1>4 DEF ShellFacts

\* The positions of what is left in an outbox when its first message is read.
LEMMA ReceiveLogins ==
    ASSUME TypeOK, ShellFacts, NEW c \in Conns, Receive(c),
           UNCHANGED <<sessions, closed>>
    PROVE  /\ \A v \in Users : NoLogin(v) => NoLogin(v)'
           /\ OneLogin'
           /\ LoginAccounted'
  <1>1. /\ \A d \in Conns : d # c => outbox'[d] = outbox[d]
        /\ \A i \in 1..Len(outbox'[c]) :
             i + 1 \in 1..Len(outbox[c]) /\ outbox'[c][i] = outbox[c][i + 1]
        /\ \A i \in 1..Len(outbox[c]) :
             i = 1 \/ (i - 1 \in 1..Len(outbox'[c]) /\ outbox'[c][i - 1] = outbox[c][i])
    BY ReceiveEffect
  <1> DEFINE Old(d, i) == IF d = c THEN i + 1 ELSE i
  <1>2. \A v \in Users, d \in Conns : \A i \in 1..Len(outbox'[d]) :
            /\ Old(d, i) \in 1..Len(outbox[d])
            /\ LoginAt(d, i, v)' => LoginAt(d, Old(d, i), v)
    BY <1>1 DEF LoginAt
  <1>3. ASSUME NEW v \in Users, NoLogin(v) PROVE NoLogin(v)'
    BY <1>2, <1>3 DEF NoLogin
  <1>4. OneLogin'
    <2> SUFFICES ASSUME NEW v \in Users, NEW d \in Conns, NEW e \in Conns,
                        NEW i \in 1..Len(outbox'[d]), NEW j \in 1..Len(outbox'[e]),
                        LoginAt(d, i, v)', LoginAt(e, j, v)'
                 PROVE  d = e /\ i = j
      BY DEF OneLogin
    <2>1. d = e /\ Old(d, i) = Old(e, j)
      BY <1>2 DEF ShellFacts, OneLogin
    <2>2. i \in Int /\ j \in Int
      OBVIOUS
    <2> QED
      BY <2>1, <2>2
  <1>5. LoginAccounted'
    <2> SUFFICES ASSUME NEW v \in Users, NEW d \in Conns,
                        NEW i \in 1..Len(outbox'[d]), LoginAt(d, i, v)'
                 PROVE  \/ sessions[v] = d
                        \/ d \in closed
                        \/ \E j \in 1..Len(outbox'[d]) : j > i /\ LogoutAt(d, j, v)'
      BY DEF LoginAccounted
    <2>1. CASE d # c
      BY <1>1, <1>2, <2>1 DEF ShellFacts, LoginAccounted, LogoutAt
    <2>2. CASE d = c
      <3>1. i + 1 \in 1..Len(outbox[c]) /\ LoginAt(c, i + 1, v) /\ i \in Nat
        BY <1>2, <2>2
      <3>2. ASSUME NEW j \in 1..Len(outbox[c]), j > i + 1, LogoutAt(c, j, v)
            PROVE  j - 1 \in 1..Len(outbox'[c]) /\ j - 1 > i /\ LogoutAt(c, j - 1, v)'
        <4>1. j # 1 /\ j - 1 > i
          BY <3>1, <3>2
        <4> QED
          BY <1>1, <3>2, <4>1 DEF LogoutAt
      <3> QED
        BY <2>2, <3>1, <3>2 DEF ShellFacts, LoginAccounted
    <2> QED
      BY <2>1, <2>2
  <1> QED
    BY <1>3, <1>4, <1>5

\* A message stays in its outbox until it is the first one that is read.
LEMMA ReceiveKeeps ==
    ASSUME TypeOK, NEW c \in Conns, Receive(c), NEW d \in Conns, NEW m,
           InSeq(outbox[d], m), d = c => m # outbox[c][1]
    PROVE  InSeq(outbox'[d], m)
  <1>1. /\ \A e \in Conns : e # c => outbox'[e] = outbox[e]
        /\ \A i \in 1..Len(outbox[c]) :
             i = 1 \/ (i - 1 \in 1..Len(outbox'[c]) /\ outbox'[c][i - 1] = outbox[c][i])
    BY ReceiveEffect
  <1> QED
    BY <1>1 DEF InSeq

\* A login becomes a shell, or comes to nothing.
LEMMA ShellStarts ==
    ASSUME TypeOK, ShellFacts, NEW c \in Conns, NEW u \in Users, DeviceLogin(c, u)
    PROVE  ShellFacts'
  <1>1. /\ Receive(c) /\ UNCHANGED <<sessions, closed, timer, logoutQ>>
        /\ Head(outbox[c]) = LoginMsg(u)
        /\ \/ shells' = shells
           \/ shells' = [shells EXCEPT ![c] = @ \cup {u}]
    BY DEF DeviceLogin, Receive, registry, sockets, TypeOK
  <1>2. /\ 1 \in 1..Len(outbox[c]) /\ LoginAt(c, 1, u)
        /\ \A d \in Conns : d # c => outbox'[d] = outbox[d]
        /\ \A i \in 1..Len(outbox'[c]) :
             i + 1 \in 1..Len(outbox[c]) /\ outbox'[c][i] = outbox[c][i + 1]
    BY <1>1, ReceiveEffect DEF LoginAt
  <1>3. /\ \A v \in Users : NoLogin(v) => NoLogin(v)'
        /\ OneLogin' /\ LoginAccounted'
    BY <1>1, ReceiveLogins
  <1>4. NoLogin(u)'
    <2> SUFFICES ASSUME NEW d \in Conns, NEW i \in 1..Len(outbox'[d]), LoginAt(d, i, u)'
                 PROVE  FALSE
      BY DEF NoLogin
    <2>1. CASE d = c
      <3>1. i + 1 \in 1..Len(outbox[c]) /\ LoginAt(c, i + 1, u) /\ i + 1 # 1
        BY <1>2, <2>1 DEF LoginAt
      <3> QED
        BY <1>2, <3>1 DEF ShellFacts, OneLogin
    <2>2. CASE d # c
      BY <1>2, <2>2 DEF ShellFacts, OneLogin, LoginAt
    <2> QED
      BY <2>1, <2>2
  <1>5. ~NoLogin(u) /\ NoShell(u) /\ NoEnd(u) /\ timer[u] # "idle"
    BY <1>2 DEF NoLogin, ShellFacts, InTurn, Untouched
  <1>6. \A v \in Users : /\ v # u => (NoShell(v)' <=> NoShell(v))
                         /\ NoEnd(v)' <=> NoEnd(v)
    <2>1. \A v \in Users, d \in Conns : v # u => (v \in shells'[d] <=> v \in shells[d])
      <3>1. CASE shells' = shells
        BY <3>1
      <3>2. CASE shells' = [shells EXCEPT ![c] = @ \cup {u}]
        BY <3>2 DEF TypeOK
      <3> QED
        BY <1>1, <3>1, <3>2
    <2>2. \A v \in Users : v # u => (NoShell(v)' <=> NoShell(v))
      BY <2>1 DEF NoShell
    <2>3. \A v \in Users : NoEnd(v)' <=> NoEnd(v)
      BY <1>1 DEF NoEnd
    <2> QED
      BY <2>2, <2>3
  <1>7. Untouched' /\ InTurn'
    BY <1>1, <1>3, <1>4, <1>5, <1>6 DEF ShellFacts, Untouched, InTurn
  <1>8. OneShell'
    <2>1. \A v \in Users, d \in Conns :
              v \in shells'[d] => v \in shells[d] \/ (v = u /\ d = c)
      BY <1>1 DEF TypeOK
    <2> QED
      BY <1>5, <2>1 DEF ShellFacts, OneShell, NoShell
  <1>9. ShellAccounted'
    <2> SUFFICES ASSUME NEW d \in Conns, NEW v \in shells'[d]
                 PROVE  sessions[v] = d \/ InSeq(outbox'[d], LogoutMsg(v)) \/ d \in closed
      BY <1>1 DEF ShellAccounted
    <2>1. v \in shells[d] \/ (v = u /\ d = c)
      BY <1>1 DEF TypeOK
    <2>2. v \in Users
      BY <2>1 DEF TypeOK
    <2>3. CASE v = u /\ d = c
      <3>1. \/ sessions[u] = c \/ c \in closed
            \/ \E j \in 1..Len(outbox[c]) : j > 1 /\ LogoutAt(c, j, u)
        BY <1>2 DEF ShellFacts, LoginAccounted
      <3>2. InSeq(outbox[c], LogoutMsg(u)) => InSeq(outbox'[c], LogoutMsg(u))
        BY <1>1, <1>2, Messages, ReceiveKeeps DEF LoginAt
      <3> QED
        BY <2>3, <3>1, <3>2 DEF LogoutAt, InSeq
    <2>4. CASE ~(v = u /\ d = c)
      <3>1. InSeq(outbox[d], LogoutMsg(v)) => InSeq(outbox'[d], LogoutMsg(v))
        BY <1>1, <1>2, <2>2, Messages, ReceiveKeeps DEF LoginAt
      <3> QED
        BY <2>1, <2>4, <3>1 DEF ShellFacts, ShellAccounted
    <2> QED
      BY <2>3, <2>4
  <1> QED
    BY <1>3, <1>7, <1>8, <1>9 DEF ShellFacts

\* A logout ends the shell of its user, if there is one, and no other.
LEMMA ShellKilled ==
    ASSUME TypeOK, ShellFacts, NEW c \in Conns, NEW u \in Users, DeviceLogout(c, u)
    PROVE  ShellFacts'
  <1>1. /\ Receive(c) /\ UNCHANGED <<sessions, closed, timer>>
        /\ Head(outbox[c]) = LogoutMsg(u)
        /\ shells' = [shells EXCEPT ![c] = @ \ {u}]
        /\ logoutQ' = IF u \in shells[c] THEN Heard(c, logoutQ, u) ELSE logoutQ
    BY DEF DeviceLogout, Receive, registry, sockets
  <1>2. outbox[c][1] = LogoutMsg(u)
    BY <1>1, ReceiveEffect
  <1>3. /\ \A v \in Users : NoLogin(v) => NoLogin(v)'
        /\ OneLogin' /\ LoginAccounted'
    BY <1>1, ReceiveLogins
  <1>4. /\ \A v \in Users : NoShell(v) => NoShell(v)'
        /\ \A d \in Conns : shells'[d] \subseteq shells[d]
    BY <1>1 DEF NoShell, TypeOK
  <1>5. \A v \in Users : v # u => (NoEnd(v) => NoEnd(v)')
    BY <1>1, HeardEffect
  <1>6. Untouched' /\ InTurn'
    <2>1. CASE u \in shells[c]
      <3>1. NoShell(u)'
        BY <1>1, <2>1 DEF ShellFacts, OneShell, NoShell, TypeOK
      <3>2. NoLogin(u)' /\ timer[u] # "idle"
        BY <1>3, <2>1 DEF ShellFacts, InTurn, Untouched, NoShell
      <3> QED
        BY <1>1, <1>3, <1>4, <1>5, <3>1, <3>2 DEF ShellFacts, Untouched, InTurn
    <2>2. CASE u \notin shells[c]
      <3>1. \A v \in Users : NoEnd(v)' <=> NoEnd(v)
        BY <1>1, <2>2 DEF NoEnd
      <3> QED
        BY <1>1, <1>3, <1>4, <3>1 DEF ShellFacts, Untouched, InTurn
    <2> QED
      BY <2>1, <2>2
  <1>7. OneShell'
    BY <1>4 DEF ShellFacts, OneShell
  <1>8. ShellAccounted'
    <2> SUFFICES ASSUME NEW d \in Conns, NEW v \in shells'[d]
                 PROVE  sessions[v] = d \/ InSeq(outbox'[d], LogoutMsg(v)) \/ d \in closed
      BY <1>1 DEF ShellAccounted
    <2>1. v \in shells[d] /\ v \in Users /\ ~(v = u /\ d = c)
      BY <1>1 DEF TypeOK
    <2>2. InSeq(outbox[d], LogoutMsg(v)) => InSeq(outbox'[d], LogoutMsg(v))
      BY <1>1, <1>2, <2>1, Messages, ReceiveKeeps
    <2> QED
      BY <2>1, <2>2 DEF ShellFacts, ShellAccounted
  <1> QED
    BY <1>3, <1>6, <1>7, <1>8 DEF ShellFacts

-----------------------------------------------------------------------------
\* Every step keeps account of the shells.
LEMMA ShellNext == ShellInv /\ [Next]_vars => ShellInv'
  <1> SUFFICES ASSUME ShellInv, [Next]_vars PROVE ShellFacts'
    BY DirectoryNext DEF ShellInv
  <1>0. TypeOK /\ QueuedFresh /\ RegistryConsistent /\ SessionOnRegistrant /\ ShellFacts
    BY DEF ShellInv, DirectoryInv, RegistryInv
  <1> USE <1>0, BrokerAssumption
  <1>1. ASSUME NEW x \in Clients, Accept(x) \/ PostRegister(x) PROVE ShellFacts'
    BY <1>1, ShellKept DEF Accept, PostRegister, registry, channels
  <1>2. ASSUME NEW x \in Clients, PeerLeaves(x) PROVE ShellFacts'
    <2>1. UNCHANGED <<outbox, sessions, timer, closed, logoutQ>>
      BY <1>2 DEF PeerLeaves, registry, channels
    <2>2. \A c \in Conns : shells'[c] \subseteq shells[c]
      BY <1>2 DEF PeerLeaves
    <2>3. \A v \in Users : NoEnd(v) => NoEnd(v)'
      BY <2>1 DEF NoEnd
    <2> QED
      BY <2>1, <2>2, <2>3, ShellsGo
  <1>3. ASSUME NEW x \in Clients, NEW l, LoopEnds(x, l) PROVE ShellFacts'
    BY <1>3, ShellKept DEF LoopEnds, registry
  <1>4. ASSUME NEW c \in Conns, AdmitDevice(c) PROVE ShellFacts'
    BY <1>4, ShellKept DEF AdmitDevice, ServeRegister
  <1>5. ASSUME NEW c \in Conns, RefuseDevice(c) PROVE ShellFacts'
    <2>1. \A u \in Users : timer'[u] = timer[u]
      BY <1>5 DEF RefuseDevice, ArmTimer, TypeOK
    <2> QED
      BY <1>5, <2>1, ShellKept DEF RefuseDevice, ServeRegister, registry
  <1>6. ASSUME NEW u \in Users, OpenSession(u) PROVE ShellFacts'
    <2> DEFINE dev == devices[Target[u]]
    <2>1. dev \in Conns
      BY <1>6 DEF OpenSession, TypeOK
    <2>2. timer[u] = "idle"
      BY <1>6, ServeFresh DEF OpenSession, ArmTimer, TypeOK, Clients
    <2>3. timer'[u] = "armed" /\ \A v \in Users : v # u => timer'[v] = timer[v]
      BY <1>6 DEF OpenSession, ArmTimer, TypeOK, Clients
    <2>4. /\ outbox' = Send(dev, LoginMsg(u)) /\ sessions' = [sessions EXCEPT ![u] = dev]
          /\ UNCHANGED <<shells, logoutQ, closed>>
      BY <1>6 DEF OpenSession, ServeRegister
    <2> QED
      BY <2>1, <2>2, <2>3, <2>4, ShellOpens
  <1>7. ASSUME NEW u \in Users, RefuseUser(u) PROVE ShellFacts'
    BY <1>7, ShellKept DEF RefuseUser, ServeRegister, registry
  <1>8. ASSUME NEW c \in Conns, UnregisterDevice(c) PROVE ShellFacts'
    <2>1. /\ UNCHANGED <<outbox, shells, logoutQ, timer>>
          /\ closed \subseteq closed' /\ c \in closed'
      BY <1>8 DEF UnregisterDevice, ServeUnregister, HungUpWith
    <2>2. \A v \in Users : sessions'[v] = sessions[v] \/ sessions[v] = c
      BY <1>8 DEF UnregisterDevice, DropDevice, SessionsOf
    <2> QED
      BY <2>1, <2>2, ShellHungUp
  <1>9. ASSUME NEW u \in Users, UnregisterUser(u) PROVE ShellFacts'
    <2>1. UNCHANGED <<shells, logoutQ, timer>> /\ closed \subseteq closed'
      BY <1>9 DEF UnregisterUser, ServeUnregister
    <2>2. CASE HasSession(u)
      <3>1. sessions[u] = devices[Target[u]] /\ sessions[u] \in Conns
        BY <2>2 DEF HasSession, SessionOnRegistrant, TypeOK
      <3>2. /\ sessions' = [sessions EXCEPT ![u] = None]
            /\ outbox' = Send(sessions[u], LogoutMsg(u))
        BY <1>9, <2>2, <3>1 DEF UnregisterUser, LogoutDevice
      <3> QED
        BY <2>1, <3>1, <3>2, ShellLoggedOut
    <2>3. CASE ~HasSession(u)
      <3>1. outbox' = outbox /\ sessions' = sessions
        BY <1>9, <2>3 DEF UnregisterUser, LogoutDevice, TypeOK
      <3> QED
        BY <2>1, <3>1, ShellKept
    <2> QED
      BY <2>2, <2>3
  <1>10. ASSUME NEW u \in Users, ConfirmSession(u) \/ DeviceBusy(u) \/ StaleLoginAck(u)
         PROVE  ShellFacts'
    BY <1>10, ShellKept
    DEF ConfirmSession, DeviceBusy, StaleLoginAck, ServeLoginAck, sockets
  <1>11. ASSUME NEW u \in Users, EndSession(u) PROVE ShellFacts'
    <2>1. /\ UNCHANGED <<outbox, shells, timer>> /\ closed \subseteq closed'
          /\ \A v \in Users : v # u => sessions'[v] = sessions[v]
      BY <1>11 DEF EndSession, TypeOK
    <2>2. /\ logoutQ \in Seq(Users) /\ logoutQ # <<>>
          /\ u = Head(logoutQ) /\ logoutQ' = Tail(logoutQ)
      BY <1>11 DEF EndSession, TypeOK
    <2>3. /\ Len(logoutQ) \in Nat \ {0} /\ Len(logoutQ') = Len(logoutQ) - 1
          /\ \A i \in 1..Len(logoutQ') : logoutQ'[i] = logoutQ[i + 1]
          /\ u = logoutQ[1]
      BY <2>2, HeadTailProperties, EmptySeq
    <2>4. 1 \in 1..Len(logoutQ) /\ \A i \in 1..Len(logoutQ') : i + 1 \in 1..Len(logoutQ)
      BY <2>3
    <2>5. \E i \in 1..Len(logoutQ) : logoutQ[i] = u
      BY <2>3, <2>4
    <2>6. \A i \in 1..Len(logoutQ') : \E j \in 1..Len(logoutQ) : logoutQ'[i] = logoutQ[j]
      BY <2>3, <2>4
    <2> QED
      BY <2>1, <2>5, <2>6, ShellEnds
  <1>12. ASSUME NEW c \in Conns, RejectTimer(c) PROVE ShellFacts'
    <2>1. \A u \in Users : timer'[u] = timer[u]
      BY <1>12 DEF RejectTimer, TypeOK
    <2> QED
      BY <1>12, <2>1, ShellKept DEF RejectTimer, registry, channels
  <1>13. ASSUME NEW u \in Users, LoginTimerReads(u) \/ LoginTimerCloses(u) PROVE ShellFacts'
    <2>1. \A v \in Users : timer'[v] = "idle" => timer[v] = "idle"
      BY <1>13 DEF LoginTimerReads, LoginTimerCloses, TypeOK, Clients
    <2> QED
      BY <1>13, <2>1, ShellKept
      DEF LoginTimerReads, LoginTimerCloses, registry, channels, sockets
  <1>14. ASSUME NEW c \in Conns, NEW u \in Users, DeviceLogin(c, u) PROVE ShellFacts'
    BY <1>14, ShellStarts
  <1>15. ASSUME NEW c \in Conns, NEW u \in Users, DeviceLogout(c, u) PROVE ShellFacts'
    BY <1>15, ShellKilled
  <1>16. ASSUME NEW c \in Conns, NEW u \in Users, ShellExits(c, u) PROVE ShellFacts'
    <2>1. /\ UNCHANGED <<outbox, sessions, timer, closed>>
          /\ u \in shells[c] /\ shells' = [shells EXCEPT ![c] = @ \ {u}]
          /\ logoutQ' = Heard(c, logoutQ, u)
      BY <1>16 DEF ShellExits, registry, sockets
    <2>2. \A d \in Conns : shells'[d] \subseteq shells[d]
      BY <2>1 DEF TypeOK
    <2>3. NoShell(u)'
      BY <2>1 DEF ShellFacts, OneShell, NoShell, TypeOK
    <2>4. \A v \in Users : v # u => (NoEnd(v) => NoEnd(v)')
      BY <2>1, HeardEffect
    <2> QED
      BY <2>1, <2>2, <2>3, <2>4, ShellsGo
  <1>17. CASE UNCHANGED vars
    BY <1>17, ShellKept DEF vars, registry, channels, sockets
  <1>18. CASE BrokerStep
    BY <1>18, <1>4, <1>5, <1>6, <1>7, <1>8, <1>9, <1>10, <1>11 DEF BrokerStep
  <1>19. CASE ConnectionStep
    <2>1. ASSUME NEW x \in Clients, ReadLoopEnds(x) PROVE ShellFacts'
      BY <2>1, <1>3 DEF ReadLoopEnds
    <2>2. ASSUME NEW x \in Clients, WriteLoopEnds(x) PROVE ShellFacts'
      BY <2>2, <1>3 DEF WriteLoopEnds
    <2>3. ASSUME NEW c \in Conns, KillInactive(c) PROVE ShellFacts'
      <3>1. c \in Clients
        BY DEF Clients
      <3> QED
        BY <2>3, <3>1, <1>3 DEF KillInactive
    <2> QED
      BY <1>19, <1>1, <1>2, <2>1, <2>2, <2>3 DEF ConnectionStep
  <1>20. CASE TimerStep
    BY <1>20, <1>12, <1>13 DEF TimerStep
  <1>21. CASE DeviceStep
    BY <1>21, <1>14, <1>15, <1>16 DEF DeviceStep
  <1> QED
    BY <1>17, <1>18, <1>19, <1>20, <1>21 DEF Next

\* A shell whose session has ended is about to be told, or its program has
\* lost the connection: whatever the order of the channels, none is forgotten.
THEOREM ShellsAccounted == Spec => []ShellAccounted
  <1>1. ShellInv => ShellAccounted
    BY DEF ShellInv, ShellFacts
  <1> QED
    BY <1>1, ShellInit, ShellNext, PTL DEF Spec

=============================================================================
