-------------------------------- MODULE Relay --------------------------------
(* Terminal data between a browser and a shell on a device: the read and   *)
(* write loops of both connections (user.go, device.go), the broker arms   *)
(* that relay (broker.go), and the device program's shells                 *)
(* (rtty-client/main.go).  Sessions have been confirmed when the module    *)
(* begins, or are to be timed out; how they come about is Broker's.        *)
(*                                                                         *)
(* Here channels have capacities.  The broker is one goroutine: what it    *)
(* still has to do of the message it serves is toClose and toWrite, and    *)
(* while a write waits for a full channel it serves nobody.  The test and  *)
(* the effect of Close are separate steps, because timers close too.       *)
(*                                                                         *)
(* Keys, and the pieces of output that a shell prints on each of its two   *)
(* streams, are numbered.                                                  *)
EXTENDS Naturals, Sequences

CONSTANTS
    Users, Devs,
    DevOf,      \* the device connection of a user's session
    Timed,      \* clients that may have a timer which has decided to close them
    Cap,        \* of the send channel of a client
    BrCap,      \* of termMessage and userMessage
    PipeCap,    \* of a shell's standard input
    MaxKeys,    \* bound on the keys that a user types
    MaxPrints,  \* bound on the pieces that a shell prints on its two streams
    MaxEnds,    \* bound on peers that leave, shells that exit and devices that are killed
    None

Clients == Users \cup Devs

\* The device program reads the output of a shell in two goroutines.
StreamsOf(u) == {u} \X {"out", "err"}
Streams == Users \X {"out", "err"}

\* A message is a source and a number: a key of a user's or a piece of a
\* stream's if it is positive, otherwise a logout, a heartbeat or a ping.
Msg == (Clients \cup Streams) \X Nat
Write(x, m) == [to |-> x, msg |-> m]

ASSUME RelayAssumption ==
    /\ DevOf \in [Users -> Devs]
    /\ Timed \subseteq Clients
    /\ Users \cap Devs = {}
    /\ Streams \cap Clients = {}
    /\ None \notin Clients \cup [to : Clients, msg : Msg]
    /\ {Cap, BrCap, PipeCap} \subseteq Nat \ {0}
    /\ {MaxKeys, MaxPrints, MaxEnds} \subseteq Nat

VARIABLES
    crashed,   \* the client whose second close ended the server process, or None
    table,     \* devices in br.devices
    sessions,  \* users in br.sessions
    confirmed, \* users whose sid is assigned
    toClose,   \* what the broker has still to do: clients to close ...
    toWrite,   \* ... and then a message to write, or None
    shutting,  \* goroutines that have found a client open: <<"broker" or "timer", client>>
    timer,     \* of a client: none, due (still to close it) or fired
    shut,      \* clients that are closed: flag, connection and send channel
    gone,      \* clients whose peer has left
    reader,    \* clients whose read loop runs
    writer,    \* of the write loop: run, ping (about to send to itself), off
    send,      \* the send channels
    userQ, termQ, unregQ, logoutQ,   \* the broker's channels
    typed, screen,                   \* the user: keys typed, pieces shown of each stream
    shells,    \* users whose shell runs
    stdin, got,                      \* keys in the shell's pipe, keys read by it
    printed,   \* pieces printed on each stream
    ends,      \* peers that have left, shells that have exited, devices killed
    pending    \* streams whose last piece is not yet written to the connection

close  == <<shutting, timer, shut, crashed>>
work   == <<toClose, toWrite>>
tables == <<table, sessions, confirmed>>
loops  == <<gone, reader, writer, send>>
queues == <<userQ, termQ, unregQ, logoutQ>>
shell  == <<shells, stdin, got, printed, pending>>
vars == <<close, work, tables, loops, queues, typed, screen, shell, ends>>

Channel(S, n) == {q \in Seq(S) : Len(q) <= n}

TypeOK ==
    /\ crashed \in Clients \cup {None}
    /\ table \subseteq Devs
    /\ sessions \subseteq Users
    /\ confirmed \subseteq Users
    /\ toClose \subseteq Clients
    /\ toWrite \in [to : Clients, msg : Msg] \cup {None}
    /\ shutting \subseteq {"broker", "timer"} \X Clients
    /\ timer \in [Clients -> {"none", "due", "fired"}]
    /\ shut \subseteq Clients
    /\ gone \subseteq Clients
    /\ reader \subseteq Clients
    /\ writer \in [Clients -> {"run", "ping", "off"}]
    /\ send \in [Clients -> Channel(Msg, Cap)]
    /\ userQ \in Channel(Users \X Nat, BrCap)
    /\ termQ \in Channel(Streams \X Nat, BrCap)
    /\ unregQ \in Seq(Clients) /\ logoutQ \in Seq(Users)
    /\ typed \in [Users -> Nat]
    /\ screen \in [Streams -> Seq(Nat)]
    /\ shells \subseteq Users
    /\ stdin \in [Users -> Channel(Nat, PipeCap)]
    /\ got \in [Users -> Seq(Nat)]
    /\ printed \in [Streams -> Nat]
    /\ pending \subseteq Streams
    /\ ends \in Nat

\* A device with a timer has been refused; a user with one has had no answer.
Init ==
    /\ crashed = None
    /\ \E due \in SUBSET Timed :
         /\ timer = [x \in Clients |-> IF x \in due THEN "due" ELSE "none"]
         /\ table = Devs \ due
         /\ sessions = {u \in Users : DevOf[u] \in table}
         /\ confirmed = sessions \ due
    /\ toClose = {} /\ toWrite = None
    /\ shutting = {}
    /\ shut = {}
    /\ gone = {}
    /\ reader = Clients
    /\ writer = [x \in Clients |-> "run"]
    /\ send = [x \in Clients |-> <<>>]
    /\ userQ = <<>> /\ termQ = <<>> /\ unregQ = <<>> /\ logoutQ = <<>>
    /\ typed = [u \in Users |-> 0]
    /\ screen = [s \in Streams |-> <<>>]
    /\ shells = sessions
    /\ stdin = [u \in Users |-> <<>>]
    /\ got = [u \in Users |-> <<>>]
    /\ printed = [s \in Streams |-> 0]
    /\ pending = {}
    /\ ends = 0

-----------------------------------------------------------------------------
Alive == crashed = None
Ends == ends < MaxEnds /\ ends' = ends + 1

(* Close: test the flag; then set it, close the connection and the channel.*)

ShutAlways(g, x) == shutting \cup {<<g, x>>}  \* mutant: the flag is not tested
Test(g, x) == IF x \in shut THEN shutting ELSE shutting \cup {<<g, x>>}

\* Closing a closed channel panics, and nobody recovers.
Shut(g, x) ==
    /\ Alive
    /\ <<g, x>> \in shutting
    /\ shutting' = shutting \ {<<g, x>>}
    /\ shut' = shut \cup {x}
    /\ crashed' = IF x \in shut THEN x ELSE None
    /\ UNCHANGED <<timer, work, tables, loops, queues, typed, screen, shell, ends>>

\* The login timer of a user, the reject timer of a device.
TimerCloses(x) ==
    /\ Alive
    /\ timer[x] = "due"
    /\ timer' = [timer EXCEPT ![x] = "fired"]
    /\ shutting' = Test("timer", x)
    /\ UNCHANGED <<shut, crashed, work, tables, loops, queues, typed, screen, shell, ends>>

-----------------------------------------------------------------------------
(* The broker.                                                             *)

Closing == \E x \in Clients : <<"broker", x>> \in shutting
Idle == Alive /\ toClose = {} /\ ~Closing /\ toWrite = None

\* The connection that is unregistered is closed before its users.
BrokerCloses(x) ==
    /\ Alive /\ ~Closing
    /\ x \in toClose
    /\ x \in Users => toClose \cap Devs = {}
    /\ toClose' = toClose \ {x}
    /\ shutting' = Test("broker", x)
    /\ UNCHANGED <<timer, shut, crashed, toWrite, tables, loops, queues, typed, screen, shell, ends>>

\* WriteMsg: a send to a closed channel panics and is recovered, also if the
\* channel is closed while the send waits; the message is lost.
LostNever(x) == FALSE  \* mutant: a closed channel is nil, and a send to it waits
Lost(x) == x \in shut

Room(x) == x \notin shut /\ Len(send[x]) < Cap
Sent(x, m) == IF Room(x) THEN [send EXCEPT ![x] = Append(@, m)] ELSE send

\* Mutant: a full channel drops the message.
BrokerOffers(x, m) == send' = Sent(x, m) /\ UNCHANGED toWrite

BrokerSends(x, m) ==
    IF Lost(x) \/ Room(x)
    THEN send' = Sent(x, m) /\ UNCHANGED toWrite
    ELSE toWrite' = Write(x, m) /\ UNCHANGED send

\* The broker waits for room in x's channel.
Waits(x) == Alive /\ toClose = {} /\ ~Closing /\ toWrite # None /\ toWrite.to = x

BrokerWrites(x) ==
    /\ Waits(x)
    /\ Lost(x) \/ Room(x)
    /\ send' = Sent(x, toWrite.msg)
    /\ toWrite' = None
    /\ UNCHANGED <<close, toClose, tables, gone, reader, writer, queues, typed, screen, shell, ends>>

\* A key goes to the device of its session.
ServeKey ==
    LET m == Head(userQ)  u == m[1] IN
    /\ Idle
    /\ userQ # <<>>
    /\ userQ' = Tail(userQ)
    /\ IF u \in sessions \cap confirmed /\ DevOf[u] \in table
       THEN BrokerSends(DevOf[u], m) ELSE UNCHANGED <<send, toWrite>>
    /\ UNCHANGED <<close, toClose, tables, gone, reader, writer, termQ, unregQ, logoutQ, typed, screen, shell, ends>>

\* A piece of output goes to the user of its session.
ServeOutput ==
    LET m == Head(termQ)  u == m[1][1] IN
    /\ Idle
    /\ termQ # <<>>
    /\ termQ' = Tail(termQ)
    /\ IF u \in sessions THEN BrokerSends(u, m) ELSE UNCHANGED <<send, toWrite>>
    /\ UNCHANGED <<close, toClose, tables, gone, reader, writer, userQ, unregQ, logoutQ, typed, screen, shell, ends>>

SessionsOf(d) == {u \in sessions : DevOf[u] = d}

UnregisterDevice(d) ==
    /\ Idle
    /\ unregQ # <<>> /\ d = Head(unregQ)
    /\ unregQ' = Tail(unregQ)
    /\ toClose' = {d} \cup IF d \in table THEN SessionsOf(d) ELSE {}
    /\ table' = table \ {d}
    /\ sessions' = sessions \ SessionsOf(d)
    /\ UNCHANGED <<close, toWrite, confirmed, loops, userQ, termQ, logoutQ, typed, screen, shell, ends>>

UnregisterUser(u) ==
    /\ Idle
    /\ unregQ # <<>> /\ u = Head(unregQ)
    /\ unregQ' = Tail(unregQ)
    /\ toClose' = {u}
    /\ sessions' = sessions \ ({u} \cap confirmed)
    /\ toWrite' = IF u \in sessions \cap confirmed /\ DevOf[u] \in table THEN Write(DevOf[u], <<u, 0>>) ELSE None
    /\ UNCHANGED <<close, table, confirmed, loops, userQ, termQ, logoutQ, typed, screen, shell, ends>>

\* The shell has ended.
ServeLogout(u) ==
    /\ Idle
    /\ logoutQ # <<>> /\ u = Head(logoutQ)
    /\ logoutQ' = Tail(logoutQ)
    /\ sessions' = sessions \ {u}
    /\ toClose' = IF u \in sessions THEN {u} ELSE {}
    /\ UNCHANGED <<close, toWrite, table, confirmed, loops, userQ, termQ, unregQ, typed, screen, shell, ends>>

-----------------------------------------------------------------------------
(* The loops of a connection.                                              *)

UnregistersNil(x) == unregQ' = Append(unregQ, None)  \* mutant
Unregisters(x) == unregQ' = Append(unregQ, x)

ReadLoopEnds(x) ==
    /\ Alive
    /\ x \in reader /\ x \in gone \cup shut
    /\ reader' = reader \ {x}
    /\ Unregisters(x)
    /\ UNCHANGED <<close, work, tables, gone, writer, send, userQ, termQ, logoutQ, typed, screen, shell, ends>>

\* A write fails, or the closed channel is drained.
WriteLoopEnds(x) ==
    /\ Alive
    /\ writer[x] = "run"
    /\ \/ x \in gone \cup shut /\ send[x] # <<>>
       \/ x \in shut /\ send[x] = <<>>
    /\ writer' = [writer EXCEPT ![x] = "off"]
    /\ Unregisters(x)
    /\ UNCHANGED <<close, work, tables, gone, reader, send, userQ, termQ, logoutQ, typed, screen, shell, ends>>

\* Nothing has been heard for long: the peer has left, or the read loop waits
\* for the broker's channel.
KillInactive(d) ==
    /\ Alive
    /\ writer[d] = "run"
    /\ d \in gone \/ Len(termQ) = BrCap
    /\ writer' = [writer EXCEPT ![d] = "off"]
    /\ Unregisters(d)
    /\ Ends
    /\ UNCHANGED <<close, work, tables, gone, reader, send, userQ, termQ, logoutQ, typed, screen, shell>>

\* The ticker.  A user is pinged, through the channel that only this loop
\* drains, where it queues behind the broker; a device is, if its channel looks
\* empty.
Passes(x) == Lost(x) \/ (Room(x) /\ ~Waits(x))

TickUser(u) ==
    /\ Alive
    /\ writer[u] = "run"
    /\ IF Passes(u)
       THEN send' = Sent(u, <<u, 0>>) /\ UNCHANGED writer
       ELSE writer' = [writer EXCEPT ![u] = "ping"] /\ UNCHANGED send
    /\ UNCHANGED <<close, work, tables, gone, reader, queues, typed, screen, shell, ends>>

TickDevice(d) ==
    /\ Alive
    /\ writer[d] = "run" /\ send[d] = <<>>
    /\ writer' = [writer EXCEPT ![d] = "ping"]
    /\ UNCHANGED <<close, work, tables, gone, reader, send, queues, typed, screen, shell, ends>>

Ping(x) ==
    /\ Alive
    /\ writer[x] = "ping"
    /\ Passes(x)
    /\ send' = Sent(x, <<x, 0>>)
    /\ writer' = [writer EXCEPT ![x] = "run"]
    /\ UNCHANGED <<close, work, tables, gone, reader, queues, typed, screen, shell, ends>>

Takes(x) ==
    /\ Alive
    /\ writer[x] = "run" /\ send[x] # <<>>
    /\ send' = [send EXCEPT ![x] = Tail(@)]

\* The last messages to a peer that has left may be taken by the system.
WriteToNobody(x) ==
    /\ Takes(x)
    /\ x \in gone /\ x \notin shut
    /\ UNCHANGED <<close, work, tables, gone, reader, writer, queues, typed, screen, shell, ends>>

WriteToUser(u) ==
    LET m == Head(send[u]) IN
    /\ Takes(u)
    /\ u \notin gone \cup shut
    /\ screen' = IF m[2] = 0 THEN screen ELSE [screen EXCEPT ![m[1]] = Append(@, m[2])]
    /\ UNCHANGED <<close, work, tables, gone, reader, writer, queues, typed, shell, ends>>

\* When a shell has ended, what its goroutines have not read of its output may
\* be lost: cmd.Wait closes the pipes.
LosesTail(u) == \E lost \in SUBSET StreamsOf(u) : pending' = pending \ lost

\* The device program's read loop writes to the shell's pipe itself.
WriteToDevice(d) ==
    LET m == Head(send[d])  u == m[1] IN
    /\ Takes(d)
    /\ d \notin gone \cup shut
    /\ \/ u \notin shells /\ UNCHANGED <<stdin, shells, pending>>
       \/ /\ u \in shells /\ m[2] = 0
          /\ shells' = shells \ {u}
          /\ stdin' = [stdin EXCEPT ![u] = <<>>]
          /\ LosesTail(u)
       \/ /\ u \in shells /\ m[2] > 0
          /\ Len(stdin[u]) < PipeCap
          /\ stdin' = [stdin EXCEPT ![u] = Append(@, m[2])]
          /\ UNCHANGED <<shells, pending>>
    /\ UNCHANGED <<close, work, tables, gone, reader, writer, queues, typed, screen,
                   got, printed, ends>>

-----------------------------------------------------------------------------
(* The peers.                                                              *)

\* The browser opens its terminal when it is given its session.
Type(u) ==
    /\ Alive
    /\ u \in confirmed
    /\ u \in reader /\ u \notin gone \cup shut
    /\ typed[u] < MaxKeys /\ Len(userQ) < BrCap
    /\ typed' = [typed EXCEPT ![u] = @ + 1]
    /\ userQ' = Append(userQ, <<u, typed[u] + 1>>)
    /\ UNCHANGED <<close, work, tables, loops, termQ, unregQ, logoutQ, screen, shell, ends>>

\* The shell prints a piece on a stream; what it prints before that is written
\* belongs to the same piece.
Prints(s) ==
    /\ s \notin pending
    /\ printed[<<s[1], "out">>] + printed[<<s[1], "err">>] < MaxPrints
    /\ printed' = [printed EXCEPT ![s] = @ + 1]
    /\ pending' = pending \cup {s}

\* It reads a key, which it may echo, or prints of its own accord.
ShellReads(u) ==
    /\ u \in shells
    /\ stdin[u] # <<>>
    /\ got' = [got EXCEPT ![u] = Append(@, Head(stdin[u]))]
    /\ stdin' = [stdin EXCEPT ![u] = Tail(@)]
    /\ (\E s \in StreamsOf(u) : Prints(s)) \/ UNCHANGED <<pending, printed>>
    /\ UNCHANGED <<close, work, tables, loops, queues, typed, screen, shells, ends>>

ShellPrints(s) ==
    /\ s[1] \in shells
    /\ Prints(s)
    /\ UNCHANGED <<close, work, tables, loops, queues, typed, screen, shells, stdin, got, ends>>

\* The goroutine of a stream writes a piece to the connection, whose server end
\* posts it; those of the two streams do so in any order.
Output(s) ==
    LET d == DevOf[s[1]] IN
    /\ Alive
    /\ s \in pending
    /\ d \in reader /\ d \notin gone \cup shut
    /\ Len(termQ) < BrCap
    /\ pending' = pending \ {s}
    /\ termQ' = Append(termQ, <<s, printed[s]>>)
    /\ UNCHANGED <<close, work, tables, loops, userQ, unregQ, logoutQ, typed, screen,
                   shells, stdin, got, printed, ends>>

\* A third goroutine reports the end, and waits for neither of the other two.
ShellExits(u) ==
    LET d == DevOf[u] IN
    /\ Alive
    /\ u \in shells
    /\ d \in reader /\ d \notin gone \cup shut
    /\ shells' = shells \ {u}
    /\ stdin' = [stdin EXCEPT ![u] = <<>>]
    /\ LosesTail(u)
    /\ logoutQ' = Append(logoutQ, u)
    /\ Ends
    /\ UNCHANGED <<close, work, tables, loops, userQ, termQ, unregQ, typed, screen,
                   got, printed>>

\* A device program that loses its connection closes its shells.
PeerLeaves(x) ==
    LET over == {u \in Users : DevOf[u] = x} IN
    /\ x \notin gone
    /\ Ends
    /\ gone' = gone \cup {x}
    /\ shells' = shells \ over
    /\ pending' = {s \in pending : s[1] \notin over}
    /\ stdin' = [u \in Users |-> IF u \in over THEN <<>> ELSE stdin[u]]
    /\ UNCHANGED <<close, work, tables, reader, writer, send, queues, typed, screen, got, printed>>

-----------------------------------------------------------------------------
BrokerStep ==
    \/ ServeKey \/ ServeOutput
    \/ \E d \in Devs : UnregisterDevice(d)
    \/ \E u \in Users : UnregisterUser(u) \/ ServeLogout(u)
    \/ \E x \in Clients : BrokerCloses(x) \/ BrokerWrites(x) \/ Shut("broker", x)
TimerStep(x) == TimerCloses(x) \/ Shut("timer", x)
WriterStep(x) ==
    \/ WriteLoopEnds(x) \/ Ping(x)
    \/ x \in Users /\ WriteToUser(x)
    \/ x \in Devs /\ WriteToDevice(x)
ShellStep(u) == ShellReads(u) \/ \E s \in StreamsOf(u) : ShellPrints(s) \/ Output(s)

Next ==
    \/ BrokerStep
    \/ \E x \in Clients : \/ TimerStep(x) \/ WriterStep(x) \/ ReadLoopEnds(x)
                          \/ WriteToNobody(x) \/ PeerLeaves(x)
    \/ \E d \in Devs : TickDevice(d) \/ KillInactive(d)
    \/ \E u \in Users : Type(u) \/ TickUser(u) \/ ShellStep(u) \/ ShellExits(u)

Spec == Init /\ [][Next]_vars

\* The broker and the write loops run; browsers read what is sent to them, and
\* shells have their output written and read their input unless they may be
\* held up by output that is not.
FairSpec ==
    /\ Spec
    /\ WF_vars(BrokerStep)
    /\ \A x \in Clients : WF_vars(WriterStep(x))
    /\ \A s \in Streams : WF_vars(Output(s))
    /\ \A u \in Users : WF_vars(StreamsOf(u) \cap pending = {} /\ ShellReads(u))

-----------------------------------------------------------------------------
(* Properties.                                                             *)

Numbered(q) == \A i \in 1..Len(q) : q[i] = i

\* A shell reads the keys of its user, and a user sees what the shell prints on
\* each stream, from the first on, in order, none twice and none left out: what
\* the end of a session, a full channel or a recovered panic loses comes last.
\* Between the two streams there is no order.
RelayInOrder ==
    /\ \A u \in Users : Numbered(got[u])
    /\ \A s \in Streams : Numbered(screen[s])

\* The server dies of a channel that is closed twice only if a timer closed
\* the client at the moment that the broker did: the broker alone, which is
\* given every connection twice, never does it.
CrashTakesTimer == Alive \/ timer[crashed] = "fired"

\* A device program that waits for a shell that waits for the broker.
WaitsForBroker(d) ==
    /\ d \in Devs /\ send[d] # <<>>
    /\ LET u == Head(send[d])[1] IN
         /\ u \in shells /\ StreamsOf(u) \cap pending # {}
         /\ Len(stdin[u]) = PipeCap /\ Len(termQ) = BrCap

\* While peers read, a write of the broker ends, unless nobody drains the
\* channel, which stays open: the write loop has ended and its unregister is
\* behind the broker that waits, or it waits for its own ping, or broker and
\* device wait for each other.
BrokerWaitsOnlyFor ==
    \A x \in Clients : Waits(x) ~>
        (~Waits(x) \/ (x \notin shut /\ (writer[x] # "run" \/ WaitsForBroker(x))))
=============================================================================
