------------------------------ MODULE HttpProxy ------------------------------
(* Web pages of a device, through the two entrances that share one table   *)
(* of connections: the web proxy, whose requests carry the cookie of a     *)
(* session (doHttpProxy in http.go), and the public port of a tunnel       *)
(* (handleTunnelProxyConn in proxy.go).  Responses come back through the   *)
(* broker (handleHttpProxyResp) from the device program, which runs every  *)
(* message in a goroutine of its own (rtty-client/main.go).                *)
(*                                                                         *)
(* The table and the messages know a connection by its source address      *)
(* only.  Two connections may have the same address at a time if they      *)
(* were made to different ports, or one after the other.  A message bears  *)
(* the connection that it belongs to, which no action reads.               *)
EXTENDS Naturals, Sequences, FiniteSets

CONSTANTS
    WebConns, PortConns,
    Addrs,      \* source addresses
    MaxChunks,  \* bound on the chunks of a response
    MaxPosts,   \* bound on the messages that a connection posts
    RespCap,    \* capacity of br.httpResp
    None

Conns == WebConns \cup PortConns

ASSUME HttpProxyAssumption ==
    /\ WebConns \cap PortConns = {}
    /\ None \notin Conns \cup Addrs
    /\ {MaxChunks, MaxPosts, RespCap} \subseteq Nat

VARIABLES
    pc,        \* of the handler: idle, accepted, stored, serving, leaving, done
    addr,      \* the connection's source address, or None
    open,      \* connections that the server has not closed
    cons,      \* httpProxyCons of the device: address -> connection, or None
    session,   \* of the browser's session: live, closed (its channel), gone
    watcher,   \* of a connection: none, waits, deletes, ended
    exited,    \* connections whose exit channel is closed
    posted,    \* messages posted for a connection
    jobs,      \* messages on their way to the device program, or handled by it
    written,   \* chunks of its answer that are written, by message
    failed,    \* messages whose answer has ended with an error
    respQ,     \* br.httpResp
    received,  \* what has been written to a connection
    shared,    \* connections that have shared their address (history)
    holed      \* messages of whose answer a chunk is lost (history)

handler == <<pc, addr, open, watcher, exited>>
device  == <<jobs, written, failed, respQ>>
history == <<shared, holed>>
vars == <<handler, cons, session, posted, device, received, history>>

Conn(c) == IF c \in WebConns THEN "web" ELSE "port"

\* A message: its connection and its number.
Jobs == [conn : Conns, num : 1..MaxPosts]

End   == 0
Error == MaxChunks + 1

TypeOK ==
    /\ pc \in [Conns -> {"idle", "accepted", "stored", "serving", "leaving", "done"}]
    /\ addr \in [Conns -> Addrs \cup {None}]
    /\ open \subseteq Conns
    /\ cons \in [Addrs -> Conns \cup {None}]
    /\ session \in {"live", "closed", "gone"}
    /\ watcher \in [Conns -> {"none", "waits", "deletes", "ended"}]
    /\ exited \subseteq WebConns
    /\ posted \in [Conns -> 0..MaxPosts]
    /\ jobs \subseteq Jobs
    /\ written \in [Jobs -> 0..MaxChunks]
    /\ failed \subseteq jobs
    /\ respQ \in Seq([addr : Addrs, job : Jobs, chunk : 0..Error])
    /\ received \in [Conns -> Seq([job : Jobs, chunk : 0..Error])]
    /\ shared \subseteq Conns
    /\ holed \subseteq Jobs

Init ==
    /\ pc = [c \in Conns |-> "idle"]
    /\ addr = [c \in Conns |-> None]
    /\ open = {}
    /\ cons = [a \in Addrs |-> None]
    /\ session = "live"
    /\ watcher = [c \in Conns |-> "none"]
    /\ exited = {}
    /\ posted = [c \in Conns |-> 0]
    /\ jobs = {}
    /\ written = [j \in Jobs |-> 0]
    /\ failed = {}
    /\ respQ = <<>>
    /\ received = [c \in Conns |-> <<>>]
    /\ shared = {}
    /\ holed = {}

-----------------------------------------------------------------------------
(* Both entrances.                                                         *)

Goto(c, from, to) == pc[c] = from /\ pc' = [pc EXCEPT ![c] = to]

\* Something of c is still under way.
UnderWay(c) ==
    \/ pc[c] \notin {"idle", "done"}
    \/ watcher[c] \in {"waits", "deletes"}
    \/ \E j \in jobs : j.conn = c
    \/ \E i \in 1..Len(respQ) : respQ[i].job.conn = c
SameAddr(a) == {d \in Conns : addr[d] = a /\ UnderWay(d)}

\* One port gives an address to one connection at a time.
Connect(c, a) ==
    /\ Goto(c, "idle", "accepted")
    /\ \A d \in open : addr[d] = a => Conn(d) # Conn(c)
    /\ addr' = [addr EXCEPT ![c] = a]
    /\ open' = open \cup {c}
    /\ shared' = shared \cup IF SameAddr(a) = {} THEN {} ELSE SameAddr(a) \cup {c}
    /\ UNCHANGED <<watcher, exited, cons, session, posted, device, received, holed>>

\* No request, no or a wrong cookie or token, no device, no tunnel.
Refuse(c) ==
    /\ Goto(c, "accepted", "done")
    /\ open' = open \ {c}
    /\ UNCHANGED <<addr, watcher, exited, cons, session, posted, device, received, history>>

Stored(c) == [cons EXCEPT ![addr[c]] = c]
Removed(c) == [cons EXCEPT ![addr[c]] = None]

\* A request becomes one message, or several if it is larger than the buffer
\* of the writer; what follows an upgrade is posted as it is read.
Post(c) ==
    /\ pc[c] = "serving"
    /\ c \in open
    /\ posted[c] < MaxPosts
    /\ posted' = [posted EXCEPT ![c] = @ + 1]
    /\ jobs' = jobs \cup {[conn |-> c, num |-> posted[c] + 1]}
    /\ UNCHANGED <<handler, cons, session, written, failed, respQ, received, history>>

-----------------------------------------------------------------------------
(* The web proxy.                                                          *)

WebStore(c) ==
    /\ c \in WebConns
    /\ Goto(c, "accepted", "stored")
    /\ cons' = Stored(c)
    /\ UNCHANGED <<addr, open, watcher, exited, session, posted, device, received, history>>

\* The entry is stored before the session is looked up; without one it stays.
WebServe(c) ==
    /\ c \in WebConns
    /\ IF session # "gone"
       THEN /\ Goto(c, "stored", "serving")
            /\ watcher' = [watcher EXCEPT ![c] = "waits"]
            /\ UNCHANGED open
       ELSE /\ Goto(c, "stored", "done")
            /\ open' = open \ {c}
            /\ UNCHANGED watcher
    /\ UNCHANGED <<addr, exited, cons, session, posted, device, received, history>>

\* The peer or the server has closed the connection: exit is closed, and the deferred Close runs.
WebLeaves(c) ==
    /\ c \in WebConns
    /\ Goto(c, "serving", "done")
    /\ exited' = exited \cup {c}
    /\ open' = open \ {c}
    /\ UNCHANGED <<addr, watcher, cons, session, posted, device, received, history>>

\* The watcher: the session's channel is closed, or the handler has left; then
\* the entry of the address is deleted, whoever has it.
WatchExitOnly(c) == c \in exited /\ UNCHANGED open  \* mutant: select without the session
Watch(c) ==
    \/ session # "live" /\ open' = open \ {c}
    \/ c \in exited /\ UNCHANGED open

WatcherWakes(c) ==
    /\ watcher[c] = "waits"
    /\ Watch(c)
    /\ watcher' = [watcher EXCEPT ![c] = "deletes"]
    /\ UNCHANGED <<pc, addr, exited, cons, session, posted, device, received, history>>

WatcherDeletes(c) ==
    /\ watcher[c] = "deletes"
    /\ watcher' = [watcher EXCEPT ![c] = "ended"]
    /\ cons' = Removed(c)
    /\ UNCHANGED <<pc, addr, open, exited, session, posted, device, received, history>>

\* httpProxyRedirect opens a new session for the browser: the channel of the
\* old one is closed, then the old one is deleted.
CloseSession ==
    /\ session = "live"
    /\ session' = "closed"
    /\ UNCHANGED <<handler, cons, posted, device, received, history>>

DeleteSession ==
    /\ session = "closed"
    /\ session' = "gone"
    /\ UNCHANGED <<handler, cons, posted, device, received, history>>

-----------------------------------------------------------------------------
(* A public port.                                                          *)

PortServe(c) ==
    /\ c \in PortConns
    /\ Goto(c, "accepted", "serving")
    /\ cons' = Stored(c)
    /\ UNCHANGED <<addr, open, watcher, exited, session, posted, device, received, history>>

NotRemoved(c) == cons  \* mutant: the deferred Delete is missing
PortEntry(c) == Removed(c)

\* The deferred calls: the entry of the address is deleted, the connection is
\* closed.
PortLeaves(c) ==
    /\ c \in PortConns
    /\ Goto(c, "serving", "leaving")
    /\ cons' = PortEntry(c)
    /\ UNCHANGED <<addr, open, watcher, exited, session, posted, device, received, history>>

PortCloses(c) ==
    /\ Goto(c, "leaving", "done")
    /\ open' = open \ {c}
    /\ UNCHANGED <<addr, watcher, exited, cons, session, posted, device, received, history>>

-----------------------------------------------------------------------------
(* The device program: a request is answered with chunks, the last of      *)
(* which is an error if the local server fails, and the only one if the    *)
(* message is part of a request.  Then the end is written.                 *)

Writes(j, chunk) ==
    /\ Len(respQ) < RespCap
    /\ respQ' = Append(respQ, [addr |-> addr[j.conn], job |-> j, chunk |-> chunk])

WriteChunk(j) ==
    /\ j \in jobs \ failed
    /\ written[j] < MaxChunks
    /\ Writes(j, written[j] + 1)
    /\ written' = [written EXCEPT ![j] = @ + 1]
    /\ UNCHANGED <<handler, cons, session, posted, jobs, failed, received, history>>

WriteErrorAlways(j) ==  \* mutant: the error is written after the end
    /\ Writes(j, Error)
    /\ failed' = failed \cup {j}
    /\ UNCHANGED <<handler, cons, session, posted, jobs, written, received, history>>

WriteError(j) ==
    /\ j \in jobs \ failed
    /\ Writes(j, Error)
    /\ failed' = failed \cup {j}
    /\ UNCHANGED <<handler, cons, session, posted, jobs, written, received, history>>

WriteEnd(j) ==
    /\ j \in jobs
    /\ Writes(j, End)
    /\ jobs' = jobs \ {j}
    /\ failed' = failed \ {j}
    /\ written' = [written EXCEPT ![j] = 0]
    /\ UNCHANGED <<handler, cons, session, posted, received, history>>

\* A message has no mark of its kind: the program may take one for tunnel data,
\* a new tunnel or a revoked one, and then answers nothing.
Unstarted == {j \in jobs \ failed : written[j] = 0}

TakenForTunnel(j) ==
    /\ j \in Unstarted
    /\ jobs' = jobs \ {j}
    /\ UNCHANGED <<handler, cons, session, posted, written, failed, respQ, received, history>>

\* The chunks that queue q holds behind its first n pieces.
LostBehind(q, n) == {q[i].job : i \in {k \in (n + 1)..Len(q) : q[k].chunk \in 1..MaxChunks}}

\* The connection to the device is lost and made again: with it the messages
\* that the program has not read and the last pieces that it has written.  The
\* goroutines that handle the others write on to the new connection.  While
\* there is none this happens to every piece and every message.
LoseConnection ==
    /\ jobs # {} \/ respQ # <<>>
    /\ \E lost \in SUBSET Unstarted : jobs' = jobs \ lost
    /\ \E n \in 0..Len(respQ) : /\ respQ' = SubSeq(respQ, 1, n)
                               /\ holed' = holed \cup LostBehind(respQ, n)
    /\ UNCHANGED <<handler, cons, session, posted, written, failed, received, shared>>

-----------------------------------------------------------------------------
(* handleHttpProxyResp.                                                    *)

AnyOf(m) == {c \in open : \E a \in Addrs : cons[a] = c}  \* mutant: the device's table, not the entry
Receivers(m) == {cons[m.addr]} \cap Conns

Closes(m) ==
    /\ m.chunk = End
    /\ open' = open \ Receivers(m)
    /\ UNCHANGED <<received, holed>>

Delivers(m) ==
    /\ m.chunk # End
    /\ received' = [c \in Conns |->
          IF c \in Receivers(m) \cap open
          THEN Append(received[c], [job |-> m.job, chunk |-> m.chunk])
          ELSE received[c]]
    /\ UNCHANGED <<open, holed>>

\* Every message is first tried as tunnel data: a chunk whose bytes can be read
\* so goes to no connection.  The end and the error's text cannot.
Swallows(m) ==
    /\ m.chunk \in 1..MaxChunks
    /\ holed' = holed \cup {m.job}
    /\ UNCHANGED <<open, received>>

HandleResp ==
    /\ respQ # <<>>
    /\ respQ' = Tail(respQ)
    /\ \E m \in {Head(respQ)} : Closes(m) \/ Delivers(m) \/ Swallows(m)
    /\ UNCHANGED <<pc, addr, watcher, exited, cons, session, posted, jobs, written,
                   failed, shared>>

-----------------------------------------------------------------------------
Watcher(c) == WatcherWakes(c) \/ WatcherDeletes(c)
Leaves(c) == WebLeaves(c) \/ PortLeaves(c) \/ PortCloses(c)
Web(c) == WebStore(c) \/ WebServe(c) \/ Watcher(c)

Next ==
    \/ \E c \in Conns : \/ \E a \in Addrs : Connect(c, a)
                        \/ Refuse(c) \/ Web(c) \/ PortServe(c) \/ Post(c)
                        \/ Leaves(c)
    \/ CloseSession \/ DeleteSession
    \/ \E j \in Jobs : WriteChunk(j) \/ WriteError(j) \/ WriteEnd(j) \/ TakenForTunnel(j)
    \/ LoseConnection \/ HandleResp

Spec == Init /\ [][Next]_vars

\* The goroutines of the server run; devices, browsers and peers owe nothing.
FairSpec ==
    /\ Spec
    /\ \A c \in WebConns : WF_vars(Watcher(c))
    /\ \A c \in Conns : WF_vars(c \notin open /\ Leaves(c))

-----------------------------------------------------------------------------
(* Properties.                                                             *)

\* As long as nobody shares its address, a connection receives answers to its
\* own messages only, and the pieces of each in order, even if the program's
\* connection was lost and made again in the middle.  An answer has a gap only
\* if a chunk of it was lost with that connection or taken for tunnel data.
Earlier(c, i) == {k \in 1..(i - 1) : received[c][k].job = received[c][i].job}

ReplyIsOwn ==
    \A c \in Conns \ shared : \A i \in 1..Len(received[c]) :
        LET r == received[c][i] IN
        /\ r.job.conn = c
        /\ \A k \in Earlier(c, i) : received[c][k].chunk < r.chunk
        /\ r.job \notin holed => r.chunk \in {Cardinality(Earlier(c, i)) + 1, Error}

\* The entry of a connection whose address is its own is in the table while it
\* is served, and leaves the table with it: only a connection of a session
\* that is gone leaves its entry behind.
EntryLastsAsConnection ==
    \A c \in Conns \ shared :
        /\ pc[c] = "serving" /\ watcher[c] \in {"none", "waits"} => cons[addr[c]] = c
        /\ pc[c] = "done" /\ addr[c] # None /\ cons[addr[c]] = c
             => watcher[c] \in {"waits", "deletes"} \/ session = "gone"

\* When a browser's session is replaced, the connections that it had are
\* closed, even idle ones.
RevokedConnectionsClose ==
    \A c \in WebConns : (session # "live" /\ pc[c] = "serving") ~> (c \notin open)
=============================================================================
