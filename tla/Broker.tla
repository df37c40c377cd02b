------------------------------- MODULE Broker -------------------------------
(***************************************************************************)
(* The session registry of rttys: the control plane of broker.run()        *)
(* (broker.go), the life of the two kinds of client connections that feed  *)
(* it (device.go, user.go) and the shells that the device program keeps    *)
(* for the sessions (rtty-client/main.go).                                 *)
(*                                                                         *)
(* A `device' or `user' struct of the server is identified with its TCP    *)
(* connection.  A user connection registers at most once, so the sid that  *)
(* the broker draws for it (utils.GenUniqueID) is the connection itself.   *)
(*                                                                         *)
(* The broker is one goroutine; it serves its channels in the arbitrary    *)
(* order in which `select' picks among those that are ready, one message   *)
(* per step.  Close() is one step here; the window between its test and    *)
(* its store, and the capacities of the channels, are other modules'.      *)
(***************************************************************************)
EXTENDS Naturals, Sequences

CONSTANTS
    Conns,       \* device connections (one struct device each)
    Users,       \* browser connections (one struct user each) and their sids
    DevIds,      \* device identifiers
    DevId,       \* the identifier a device connection registers with
    Target,      \* the device identifier a user connection asks for
    Admissible,  \* connections whose token and protocol version are accepted
    None         \* no connection

ASSUME BrokerAssumption ==
    /\ DevId \in [Conns -> DevIds]
    /\ Target \in [Users -> DevIds]
    /\ Admissible \subseteq Conns
    /\ Conns \cap Users = {}
    /\ None \notin Conns \cup Users

Clients == Conns \cup Users

VARIABLES
    devices,     \* br.devices: identifier -> registered connection
    registered,  \* device.registered
    sessions,    \* br.sessions: sid -> session.dev
    confirmed,   \* session.confirmed of the session with that sid
    sidSet,      \* user.sid has been assigned
    closed,      \* clients on which Close() has run
    gone,        \* clients whose peer has left the TCP connection
    phase,       \* "new", "accepted", then "enrolled" (register posted)
    loops,       \* the goroutines of the client that are still running
    registerQ, unregisterQ, loginAckQ, logoutQ,  \* the broker's channels
    outbox,      \* login and logout messages on their way to the device
    answer,      \* the reply to the registration or login of the client
    timer,       \* 3 s login timer of a user, 100 ms timer of a refused device;
                 \* "closing": a login timer that has read confirmed = 0
    shells       \* sids whose shell runs on the device at this connection

registry == <<devices, registered, sessions, confirmed, sidSet>>
channels == <<registerQ, unregisterQ, loginAckQ, logoutQ>>
sockets  == <<closed, gone, phase, loops>>
vars == <<registry, channels, sockets, outbox, answer, timer, shells>>

LoginMsg(u)  == [typ |-> "login",  sid |-> u]
LogoutMsg(u) == [typ |-> "logout", sid |-> u]
DeviceMsg    == [typ : {"login", "logout"}, sid : Users]
LoginAckMsg  == [sid : Users, busy : BOOLEAN]
Answers == {"none", "ok", "busy", "offline", "refused", "lost"}

TypeOK ==
    /\ devices \in [DevIds -> Conns \cup {None}]
    /\ registered \in [Conns -> BOOLEAN]
    /\ sessions \in [Users -> Conns \cup {None}]
    /\ confirmed \in [Users -> BOOLEAN]
    /\ sidSet \in [Users -> BOOLEAN]
    /\ closed \subseteq Clients
    /\ gone \subseteq Clients
    /\ phase \in [Clients -> {"new", "accepted", "enrolled"}]
    /\ loops \in [Clients -> SUBSET {"read", "write"}]
    /\ registerQ \in Seq(Clients)
    /\ unregisterQ \in Seq(Clients)
    /\ loginAckQ \in Seq(LoginAckMsg)
    /\ logoutQ \in Seq(Users)
    /\ outbox \in [Conns -> Seq(DeviceMsg)]
    /\ answer \in [Clients -> Answers]
    /\ timer \in [Clients -> {"idle", "armed", "closing", "fired"}]
    /\ shells \in [Conns -> SUBSET Users]

Init ==
    /\ devices = [id \in DevIds |-> None]
    /\ registered = [c \in Conns |-> FALSE]
    /\ sessions = [u \in Users |-> None]
    /\ confirmed = [u \in Users |-> FALSE]
    /\ sidSet = [u \in Users |-> FALSE]
    /\ closed = {}
    /\ gone = {}
    /\ phase = [x \in Clients |-> "new"]
    /\ loops = [x \in Clients |-> {}]
    /\ registerQ = <<>>
    /\ unregisterQ = <<>>
    /\ loginAckQ = <<>>
    /\ logoutQ = <<>>
    /\ outbox = [c \in Conns |-> <<>>]
    /\ answer = [x \in Clients |-> "none"]
    /\ timer = [x \in Clients |-> "idle"]
    /\ shells = [c \in Conns |-> {}]

-----------------------------------------------------------------------------
(* Writing to a client.  A send on the channel that Close() has closed     *)
(* panics, WriteMsg recovers, and the message is lost.                     *)

Reply(x, a) == [answer EXCEPT ![x] = IF x \in closed THEN "lost" ELSE a]

NoTimer(x) == timer  \* mutant: time.AfterFunc forgotten
ArmTimer(x) == [timer EXCEPT ![x] = "armed"]

Send(c, m) ==
    [outbox EXCEPT ![c] = IF c \in closed THEN @ ELSE Append(@, m)]

-----------------------------------------------------------------------------
(* The connections and their goroutines.                                   *)

\* The listener accepts x, makes its struct and starts its two loops.
Accept(x) ==
    /\ phase[x] = "new"
    /\ phase' = [phase EXCEPT ![x] = "accepted"]
    /\ loops' = [loops EXCEPT ![x] = {"read", "write"}]
    /\ UNCHANGED <<registry, channels, closed, gone, outbox, answer, timer, shells>>

\* A device's register message is posted by its read loop; a user is posted
\* by the HTTP handler, whatever its loops are doing.
PostRegister(x) ==
    /\ phase[x] = "accepted"
    /\ x \in Conns => "read" \in loops[x]
    /\ phase' = [phase EXCEPT ![x] = "enrolled"]
    /\ registerQ' = Append(registerQ, x)
    /\ UNCHANGED <<registry, unregisterQ, loginAckQ, logoutQ, closed, gone, loops,
                   outbox, answer, timer, shells>>

\* The peer is gone.  The device program then kills all its shells.
PeerLeaves(x) ==
    /\ phase[x] # "new"
    /\ x \notin gone
    /\ gone' = gone \cup {x}
    /\ shells' = [c \in Conns |-> IF c = x THEN {} ELSE shells[c]]
    /\ UNCHANGED <<registry, channels, closed, phase, loops, outbox, answer, timer>>

\* Goroutine l of x returns; its deferred function posts an unregister.
LoopEnds(x, l) ==
    /\ l \in loops[x]
    /\ loops' = [loops EXCEPT ![x] = @ \ {l}]
    /\ unregisterQ' = Append(unregisterQ, x)
    /\ UNCHANGED <<registry, registerQ, loginAckQ, logoutQ, closed, gone, phase,
                   outbox, answer, timer, shells>>

ReadLoopEnds(x) ==
    /\ x \in gone \cup closed
    /\ LoopEnds(x, "read")

WriteLoopEnds(x) ==
    /\ x \in gone \cup closed
    /\ LoopEnds(x, "write")

\* The write loop of a device that has been silent for too long gives up.
KillInactive(c) ==
    /\ c \notin gone \cup closed
    /\ LoopEnds(c, "write")

-----------------------------------------------------------------------------
(* The arms of the broker's select.  Each takes the head of one channel.   *)

ServeRegister(x) ==
    /\ registerQ # <<>>
    /\ x = Head(registerQ)
    /\ registerQ' = Tail(registerQ)
    /\ UNCHANGED <<unregisterQ, loginAckQ, logoutQ, closed, gone, phase, loops, shells>>

Welcome(c) == devices[DevId[c]] = None /\ c \in Admissible

AdmitDevice(c) ==
    /\ ServeRegister(c)
    /\ Welcome(c)
    /\ devices' = [devices EXCEPT ![DevId[c]] = c]
    /\ registered' = [registered EXCEPT ![c] = TRUE]
    /\ answer' = Reply(c, "ok")
    /\ UNCHANGED <<sessions, confirmed, sidSet, outbox, timer>>

\* The refused device stays connected until its timer closes it.
RefuseDevice(c) ==
    /\ ServeRegister(c)
    /\ ~Welcome(c)
    /\ answer' = Reply(c, "refused")
    /\ timer' = ArmTimer(c)
    /\ UNCHANGED <<registry, outbox>>

\* A session starts unconfirmed; the device is asked for a shell.
OpenSession(u) ==
    LET dev == devices[Target[u]] IN
    /\ ServeRegister(u)
    /\ dev # None
    /\ sessions' = [sessions EXCEPT ![u] = dev]
    /\ timer' = ArmTimer(u)
    /\ outbox' = Send(dev, LoginMsg(u))
    /\ UNCHANGED <<devices, registered, confirmed, sidSet, answer>>

\* The user is told that the device is offline and keeps its connection.
RefuseUser(u) ==
    /\ ServeRegister(u)
    /\ devices[Target[u]] = None
    /\ answer' = Reply(u, "offline")
    /\ UNCHANGED <<registry, outbox, timer>>

ServeUnregister(x) ==
    /\ unregisterQ # <<>>
    /\ x = Head(unregisterQ)
    /\ unregisterQ' = Tail(unregisterQ)
    /\ UNCHANGED <<registerQ, loginAckQ, logoutQ, gone, phase, loops,
                   confirmed, sidSet, answer, timer, shells>>

\* The sessions that go with a device connection.
ConfirmedSessionsOf(c) == {u \in Users : sessions[u] = c /\ confirmed[u]}  \* mutant
SessionsOf(c) == {u \in Users : sessions[u] = c}

\* Mutant: the flag is not reset.
DropTableEntry(c) ==
    /\ devices' = [devices EXCEPT ![DevId[c]] = None]
    /\ sessions' = [u \in Users |-> IF u \in SessionsOf(c) THEN None ELSE sessions[u]]
    /\ UNCHANGED registered

DropDevice(c) ==
    /\ devices' = [devices EXCEPT ![DevId[c]] = None]
    /\ registered' = [registered EXCEPT ![c] = FALSE]
    /\ sessions' = [u \in Users |-> IF u \in SessionsOf(c) THEN None ELSE sessions[u]]

\* Mutant: the early return for an unregistered device comes before Close.
HungUpIfRegistered(c) == IF registered[c] THEN {c} \cup SessionsOf(c) ELSE {}
HungUpWith(c) == {c} \cup (IF registered[c] THEN SessionsOf(c) ELSE {})

UnregisterDevice(c) ==
    /\ ServeUnregister(c)
    /\ IF registered[c] THEN DropDevice(c) ELSE UNCHANGED <<devices, registered, sessions>>
    /\ closed' = closed \cup HungUpWith(c)
    /\ UNCHANGED outbox

\* user.sid is still "" if the device has not answered, and no session is
\* filed under "".
HasSession(u) == sidSet[u] /\ sessions[u] # None

LogoutNobody(u) == outbox  \* mutant: the device is not told
LogoutDevice(u) ==
    IF HasSession(u) /\ devices[Target[u]] # None
    THEN Send(devices[Target[u]], LogoutMsg(u))
    ELSE outbox

UnregisterUser(u) ==
    /\ ServeUnregister(u)
    /\ closed' = closed \cup {u}
    /\ sessions' = [sessions EXCEPT ![u] = IF HasSession(u) THEN None ELSE @]
    /\ outbox' = LogoutDevice(u)
    /\ UNCHANGED <<devices, registered>>

\* The device answers a login: busy if it could not start a shell.  An
\* answer for a session that has ended is dropped.
ServeLoginAck(m) ==
    /\ loginAckQ # <<>>
    /\ m = Head(loginAckQ)
    /\ loginAckQ' = Tail(loginAckQ)
    /\ UNCHANGED <<devices, registered, sessions, registerQ, unregisterQ, logoutQ,
                   sockets, outbox, timer, shells>>

ConfirmSession(u) ==
    /\ ServeLoginAck([sid |-> u, busy |-> FALSE])
    /\ sessions[u] # None
    /\ confirmed' = [confirmed EXCEPT ![u] = TRUE]
    /\ sidSet' = [sidSet EXCEPT ![u] = TRUE]
    /\ answer' = Reply(u, "ok")

DeviceBusy(u) ==
    /\ ServeLoginAck([sid |-> u, busy |-> TRUE])
    /\ sessions[u] # None
    /\ answer' = Reply(u, "busy")
    /\ UNCHANGED <<confirmed, sidSet>>

StaleLoginAck(u) ==
    /\ \E b \in BOOLEAN : ServeLoginAck([sid |-> u, busy |-> b])
    /\ sessions[u] = None
    /\ UNCHANGED <<confirmed, sidSet, answer>>

\* The device reports that the shell of the session has ended.
EndSession(u) ==
    /\ logoutQ # <<>>
    /\ u = Head(logoutQ)
    /\ logoutQ' = Tail(logoutQ)
    /\ sessions' = [sessions EXCEPT ![u] = None]
    /\ closed' = IF sessions[u] = None THEN closed ELSE closed \cup {u}
    /\ UNCHANGED <<devices, registered, confirmed, sidSet, registerQ, unregisterQ,
                   loginAckQ, gone, phase, loops, outbox, answer, timer, shells>>

-----------------------------------------------------------------------------
(* The timers, each in a goroutine of its own.                             *)

RejectTimer(c) ==
    /\ timer[c] = "armed"
    /\ timer' = [timer EXCEPT ![c] = "fired"]
    /\ closed' = closed \cup {c}
    /\ UNCHANGED <<registry, channels, gone, phase, loops, outbox, answer, shells>>

\* Mutant: the timer closes whatever the flag says.
LoginTimerBlind(u) ==
    /\ timer[u] = "armed"
    /\ timer' = [timer EXCEPT ![u] = "closing"]
    /\ UNCHANGED <<registry, channels, sockets, outbox, answer, shells>>

\* The login timer reads s.confirmed ...
LoginTimerReads(u) ==
    /\ timer[u] = "armed"
    /\ timer' = [timer EXCEPT ![u] = IF confirmed[u] THEN "fired" ELSE "closing"]
    /\ UNCHANGED <<registry, channels, sockets, outbox, answer, shells>>

\* ... and closes the user in a later step; the broker may run in between.
LoginTimerCloses(u) ==
    /\ timer[u] = "closing"
    /\ timer' = [timer EXCEPT ![u] = "fired"]
    /\ closed' = closed \cup {u}
    /\ UNCHANGED <<registry, channels, gone, phase, loops, outbox, answer, shells>>

-----------------------------------------------------------------------------
(* The device program.  What it sends reaches the broker's channels only   *)
(* while the read loop of its connection runs.                             *)

Receive(c) ==
    /\ c \notin gone
    /\ outbox[c] # <<>>
    /\ outbox' = [outbox EXCEPT ![c] = Tail(@)]
    /\ UNCHANGED <<registry, registerQ, unregisterQ, sockets, answer, timer>>

Heard(c, q, m) == IF "read" \in loops[c] THEN Append(q, m) ELSE q

\* A login starts a shell, or fails to, and is answered either way.
DeviceLogin(c, u) ==
    /\ Receive(c)
    /\ Head(outbox[c]) = LoginMsg(u)
    /\ \E busy \in BOOLEAN :
         /\ shells' = [shells EXCEPT ![c] = IF busy THEN @ ELSE @ \cup {u}]
         /\ loginAckQ' = Heard(c, loginAckQ, [sid |-> u, busy |-> busy])
    /\ UNCHANGED logoutQ

\* A logout kills the shell; the goroutine that waits for it reports its end.
DeviceLogout(c, u) ==
    /\ Receive(c)
    /\ Head(outbox[c]) = LogoutMsg(u)
    /\ shells' = [shells EXCEPT ![c] = @ \ {u}]
    /\ logoutQ' = IF u \in shells[c] THEN Heard(c, logoutQ, u) ELSE logoutQ
    /\ UNCHANGED loginAckQ

\* The shell ends by itself (the user typed exit).
ShellExits(c, u) ==
    /\ u \in shells[c]
    /\ shells' = [shells EXCEPT ![c] = @ \ {u}]
    /\ logoutQ' = Heard(c, logoutQ, u)
    /\ UNCHANGED <<registry, registerQ, unregisterQ, loginAckQ, sockets, outbox,
                   answer, timer>>

-----------------------------------------------------------------------------
BrokerStep ==
    \/ \E c \in Conns : AdmitDevice(c) \/ RefuseDevice(c) \/ UnregisterDevice(c)
    \/ \E u \in Users : OpenSession(u) \/ RefuseUser(u) \/ UnregisterUser(u)
    \/ \E u \in Users : ConfirmSession(u) \/ DeviceBusy(u) \/ StaleLoginAck(u)
    \/ \E u \in Users : EndSession(u)

ConnectionStep ==
    \/ \E x \in Clients : Accept(x) \/ PostRegister(x) \/ PeerLeaves(x)
    \/ \E x \in Clients : ReadLoopEnds(x) \/ WriteLoopEnds(x)
    \/ \E c \in Conns : KillInactive(c)

TimerStep ==
    \/ \E c \in Conns : RejectTimer(c)
    \/ \E u \in Users : LoginTimerReads(u) \/ LoginTimerCloses(u)

DeviceStep ==
    \E c \in Conns, u \in Users :
        DeviceLogin(c, u) \/ DeviceLogout(c, u) \/ ShellExits(c, u)

Next == BrokerStep \/ ConnectionStep \/ TimerStep \/ DeviceStep

Spec == Init /\ [][Next]_vars

(* Fairness.  Go's select picks at random among the ready arms, so an arm  *)
(* that stays ready is served; goroutines, timers and the device program's *)
(* loop are scheduled.  Nothing forces a peer to connect, to send, to      *)
(* leave or a shell to end, but a program whose connection the server has  *)
(* closed notices.                                                         *)
Fairness ==
    /\ \A x \in Clients : WF_vars(ReadLoopEnds(x)) /\ WF_vars(WriteLoopEnds(x))
    /\ \A x \in Clients : WF_vars(x \in closed /\ PeerLeaves(x))
    /\ \A c \in Conns : WF_vars(AdmitDevice(c) \/ RefuseDevice(c))
    /\ \A c \in Conns : WF_vars(UnregisterDevice(c)) /\ WF_vars(RejectTimer(c))
    /\ \A u \in Users : WF_vars(OpenSession(u) \/ RefuseUser(u))
    /\ \A u \in Users : WF_vars(UnregisterUser(u)) /\ WF_vars(EndSession(u))
    /\ \A u \in Users : WF_vars(ConfirmSession(u) \/ DeviceBusy(u) \/ StaleLoginAck(u))
    /\ \A u \in Users : WF_vars(LoginTimerReads(u)) /\ WF_vars(LoginTimerCloses(u))
    /\ \A c \in Conns : WF_vars(\E u \in Users : DeviceLogin(c, u) \/ DeviceLogout(c, u))

FairSpec == Spec /\ Fairness

-----------------------------------------------------------------------------
(* Safety.                                                                 *)

\* The flag device.registered, which decides whether an unregister cleans
\* up, agrees with the table br.devices: at most one live registration per
\* identifier, under its own, and no entry that an unregister would leave.
RegistryConsistent ==
    /\ \A c \in Conns : registered[c] <=> devices[DevId[c]] = c
    /\ \A id \in DevIds : devices[id] # None => DevId[devices[id]] = id

\* An open session belongs to the connection that is registered under the
\* identifier the user asked for, so keystrokes, which the broker sends to
\* br.devices[s.dev.DeviceID()], reach the device that runs the shell.
SessionOnRegistrant ==
    \A u \in Users : sessions[u] # None => sessions[u] = devices[Target[u]]

\* A refused device never gets into the tables, whatever happens to the one
\* it conflicts with, and does not keep its connection: its timer is armed
\* until it is closed.
RefusedStaysOut ==
    \A c \in Conns : answer[c] = "refused" =>
        /\ ~registered[c] /\ \A u \in Users : sessions[u] # c
        /\ timer[c] = "armed" \/ c \in closed

InSeq(q, m) == \E i \in 1..Len(q) : q[i] = m

\* A shell of a session that has ended is about to be told, or its program
\* has lost the connection: no logout is sent to the wrong device or skipped.
ShellAccounted ==
    \A c \in Conns : \A u \in shells[c] :
        \/ sessions[u] = c
        \/ InSeq(outbox[c], LogoutMsg(u))
        \/ c \in closed

Doomed(u) == u \in closed \/ timer[u] = "closing"

\* Once the device has confirmed a session, its user is only hung up by a step
\* that ends the session too; the login timer spares it, but for the one
\* that had read the flag before the confirmation.
NoHangUpOnLiveSession ==
    [][\A u \in Users :
         (confirmed[u] /\ ~Doomed(u) /\ Doomed(u)') => sessions'[u] = None]_vars

\* The tables implement the abstract directory.  A user has had its session
\* once the login timer of that session exists.
Directory == INSTANCE SessionDirectory WITH
    owner <- devices, session <- sessions,
    opened <- {u \in Users : timer[u] # "idle"}

\* Step by step: ownership changes hands only through a release that ends all
\* sessions of the identifier, whatever the order of the broker's channels.
ImplementsDirectory == Directory!Spec

-----------------------------------------------------------------------------
(* Liveness, under FairSpec.                                               *)

\* Every user that asks for a session is answered or hung up: the 3 s timer
\* covers a device that never answers.
LoginResolved ==
    \A u \in Users : phase[u] = "enrolled" ~> (answer[u] # "none" \/ u \in closed)

\* A connection whose peer has left ends up closed, although the read loop,
\* the write loop and the timers may find out in any order.
ConnectionsReaped ==
    \A x \in Clients : x \in gone ~> x \in closed

\* A user that leaves (or is hung up by the timer) after it has been
\* confirmed ends its session and its shell for good.
HangUpEndsShell ==
    \A u \in Users :
        (sidSet[u] /\ u \notin closed /\ (u \in gone \/ Doomed(u)))
            ~> [](sessions[u] = None /\ \A c \in Conns : u \notin shells[c])

(* What the documentation promises and the code does not keep.             *)

\* rtty-client-usage.md: the program reconnects after a lost connection; the
\* identifier of a connection that is gone must become free.
LostDeviceFreesId ==
    \A c \in Conns : (c \in gone /\ registered[c]) ~> ~registered[c]
=============================================================================
