----------------------------- MODULE TokenProxy -----------------------------
(* Requests through a tunnel on the main server, /proxy/:token: the HTTP   *)
(* handler (tunnel_api.go), the broker arms that carry its stream          *)
(* (broker.go, http.go), the sweeps over the table of streams when a       *)
(* tunnel is deleted or cleaned up, and the device program, which handles  *)
(* every tunnel message in a goroutine of its own (rtty-client/main.go).   *)
(*                                                                         *)
(* A request is identified with the stream drawn for it.  The chunks of a  *)
(* response are numbers.  The device program keeps its state when it loses *)
(* the connection, and goes on writing to the next one.                    *)
EXTENDS Naturals, Sequences

CONSTANTS
    Streams,    \* requests
    Tunnels,
    TunnelOf,   \* the tunnel that a request's token belongs to
    MaxChunks,  \* bound on the chunks of a response
    MaxQueue,   \* bound on the messages waiting for the device
    MaxDrops,   \* bound on lost connections and restarts of the device program
    None

End    == 0
Error  == MaxChunks + 1
Chunks == 1..Error

Piece == [stream : Streams, chunk : Chunks \cup {End}]

ASSUME TokenProxyAssumption ==
    /\ TunnelOf \in [Streams -> Tunnels]
    /\ MaxChunks \in Nat
    /\ MaxQueue \in Nat
    /\ MaxDrops \in Nat
    /\ None \notin Piece

VARIABLES
    alive,      \* the server process runs
    tun,        \* the tunnel's row: absent, active, expired or revoked
    announcing, \* tunnels of which the device has not been told since the INSERT or UPDATE
    pc,         \* of the handler: start, checked, waiting, done
    status,     \* of the reply
    body,       \* the piece of a response that was replied, or None
    pending,    \* tunnelProxyConns: the streams that are waited for
    respCh,     \* the stream's channel of capacity 1: a piece, or None
    reqQ,       \* br.httpReq
    respQ,      \* responses from the device to the broker, in order
    online,     \* the device is registered
    drops,
    disturbed,  \* streams that were under way when the connection was lost
    jobs,       \* messages on the wire or in goroutines of the device program
    targets,    \* Client.tunnels: tunnels whose local port the program knows
    response,   \* the chunks of the response that the program gives
    outgoing,   \* what is still to be written of it
    revoked,    \* history: tunnels that have been revoked at some time
    early       \* history: requests posted while their tunnel was in announcing

handler == <<pc, status, body, respCh, pending>>
tunnels == <<tun, announcing>>
server  == <<alive, tunnels, handler>>
program == <<jobs, targets, response, outgoing>>
link    == <<online, drops, disturbed>>
history == <<revoked, early>>
vars == <<server, reqQ, respQ, link, program, history>>

Create(t) == [typ |-> "create", tunnel |-> t]
Revoke(t) == [typ |-> "revoke", tunnel |-> t]
Data(s)   == [typ |-> "data", stream |-> s]
Msg == [typ : {"create", "revoke"}, tunnel : Tunnels] \cup [typ : {"data"}, stream : Streams]

TypeOK ==
    /\ alive \in BOOLEAN
    /\ tun \in [Tunnels -> {"absent", "active", "expired", "revoked"}]
    /\ announcing \subseteq Tunnels
    /\ pc \in [Streams -> {"start", "checked", "waiting", "done"}]
    /\ status \in [Streams -> {"none", "expired", "offline", "timeout", "data"}]
    /\ body \in [Streams -> Piece \cup {None}]
    /\ pending \subseteq Streams
    /\ respCh \in [Streams -> Piece \cup {None}]
    /\ reqQ \in Seq(Msg)
    /\ respQ \in Seq(Piece)
    /\ online \in BOOLEAN
    /\ drops \in 0..MaxDrops
    /\ disturbed \subseteq Streams
    /\ jobs \subseteq Msg
    /\ targets \subseteq Tunnels
    /\ response \in [Streams -> Seq(Chunks)]
    /\ outgoing \in [Streams -> Seq(Chunks \cup {End})]
    /\ revoked \subseteq Tunnels
    /\ early \subseteq Streams

Init ==
    /\ alive = TRUE
    /\ tun = [t \in Tunnels |-> "absent"]
    /\ announcing = {}
    /\ pc = [s \in Streams |-> "start"]
    /\ status = [s \in Streams |-> "none"]
    /\ body = [s \in Streams |-> None]
    /\ pending = {}
    /\ respCh = [s \in Streams |-> None]
    /\ reqQ = <<>>
    /\ respQ = <<>>
    /\ online = TRUE
    /\ drops = 0
    /\ disturbed = {}
    /\ jobs = {}
    /\ targets = {}
    /\ response = [s \in Streams |-> <<>>]
    /\ outgoing = [s \in Streams |-> <<>>]
    /\ revoked = {}
    /\ early = {}

-----------------------------------------------------------------------------
(* handleTokenProxy.                                                       *)

Goto(s, from, to) == alive /\ pc[s] = from /\ pc' = [pc EXCEPT ![s] = to]
Reply(s, st) == status' = [status EXCEPT ![s] = st]

Refuse(s) ==
    /\ Goto(s, "start", "done")
    /\ \/ tun[TunnelOf[s]] \in {"expired", "revoked"} /\ Reply(s, "expired")
       \/ tun[TunnelOf[s]] = "active" /\ ~online /\ Reply(s, "offline")
    /\ UNCHANGED <<alive, tunnels, body, pending, respCh, reqQ, respQ, link, program, history>>

Check(s) ==
    /\ Goto(s, "start", "checked")
    /\ tun[TunnelOf[s]] = "active" /\ online
    /\ UNCHANGED <<alive, tunnels, status, body, pending, respCh, reqQ, respQ, link, program, history>>

\* The stream is in the table before its request is on its way.
Ask(s) ==
    /\ Goto(s, "checked", "waiting")
    /\ pending' = pending \cup {s}
    /\ reqQ' = Append(reqQ, Data(s))
    /\ early' = IF TunnelOf[s] \in announcing THEN early \cup {s} ELSE early
    /\ UNCHANGED <<alive, tunnels, status, body, respCh, respQ, link, program, revoked>>

Keep(s) == pending           \* mutant: the deferred Delete is missing
Forget(s) == pending \ {s}

\* The first chunk is the reply.
TakeResponse(s) ==
    /\ Goto(s, "waiting", "done")
    /\ respCh[s] # None
    /\ Reply(s, "data")
    /\ body' = [body EXCEPT ![s] = respCh[s]]
    /\ respCh' = [respCh EXCEPT ![s] = None]
    /\ pending' = Forget(s)
    /\ UNCHANGED <<alive, tunnels, reqQ, respQ, link, program, history>>

\* Mutant: the handler gives up only while its stream is in the table.
TimeoutIfPending(s) ==
    /\ s \in pending
    /\ Goto(s, "waiting", "done")
    /\ Reply(s, "timeout")
    /\ pending' = Forget(s)
    /\ UNCHANGED <<alive, tunnels, body, respCh, reqQ, respQ, link, program, history>>

\* The only way out if the response is empty: the end of the stream takes it
\* out of the table, and the handler does not wait for that.
Timeout(s) ==
    /\ Goto(s, "waiting", "done")
    /\ Reply(s, "timeout")
    /\ pending' = Forget(s)
    /\ UNCHANGED <<alive, tunnels, body, respCh, reqQ, respQ, link, program, history>>

-----------------------------------------------------------------------------
(* The broker.                                                             *)

ForwardReq ==
    /\ alive
    /\ reqQ # <<>>
    /\ reqQ' = Tail(reqQ)
    /\ jobs' = IF online THEN jobs \cup {Head(reqQ)} ELSE jobs
    /\ UNCHANGED <<server, respQ, link, targets, response, outgoing, history>>

Latest(s, p) == p  \* mutant: the channel keeps the last piece
Offer(s, p) == IF respCh[s] = None THEN p ELSE respCh[s]

Receivers(p) == {p.stream} \cap pending

\* handleHttpProxyResp: the end takes the stream out of the table, and a full
\* channel drops what comes.
HandleResp ==
    LET p == Head(respQ) IN
    /\ alive
    /\ respQ # <<>>
    /\ respQ' = Tail(respQ)
    /\ IF p.chunk = End
       THEN pending' = Forget(p.stream) /\ UNCHANGED respCh
       ELSE /\ respCh' = [s \in Streams |->
                            IF s \in Receivers(p) THEN Offer(s, p) ELSE respCh[s]]
            /\ UNCHANGED pending
    /\ UNCHANGED <<alive, tunnels, pc, status, body, reqQ, link, program, history>>

-----------------------------------------------------------------------------
(* The tunnels (the details are Tunnel's).                                 *)

Post(m) == Len(reqQ) < MaxQueue /\ reqQ' = Append(reqQ, m)

\* handleTunnelCreate: the INSERT, or the UPDATE of a renewal, makes the
\* tunnel's token known, and its message is posted in a later step.  The
\* device was online when the handler began.  One handler of a tunnel at a
\* time is between the two (a bound).
InsertTunnel(t) ==
    /\ alive
    /\ t \notin announcing
    /\ tun' = [tun EXCEPT ![t] = "active"]
    /\ announcing' = announcing \cup {t}
    /\ UNCHANGED <<alive, handler, reqQ, respQ, link, program, history>>

AnnounceNothing(t) ==  \* mutant: the device is not told
    /\ alive
    /\ t \in announcing
    /\ announcing' = announcing \ {t}
    /\ UNCHANGED <<alive, tun, handler, reqQ, respQ, link, program, history>>

AnnounceTunnel(t) ==
    /\ alive
    /\ t \in announcing
    /\ announcing' = announcing \ {t}
    /\ Post(Create(t))
    /\ UNCHANGED <<alive, tun, handler, respQ, link, program, history>>

\* The sweep over the streams panics at the first stream of t, whose conn is
\* nil; gin recovers.  So it takes nothing out of the table.
DeleteTunnel(t) ==
    /\ alive
    /\ tun[t] # "absent"
    /\ tun' = [tun EXCEPT ![t] = "revoked"]
    /\ revoked' = revoked \cup {t}
    /\ Post(Revoke(t))
    /\ UNCHANGED <<alive, announcing, handler, respQ, link, program, early>>

Expire(t) ==
    /\ tun[t] = "active"
    /\ tun' = [tun EXCEPT ![t] = "expired"]
    /\ UNCHANGED <<alive, announcing, handler, reqQ, respQ, link, program, history>>

\* The same sweep in the cleanup goroutine ends the process.
CleanTunnel(t) ==
    /\ alive
    /\ tun[t] = "expired"
    /\ tun' = [tun EXCEPT ![t] = "revoked"]
    /\ revoked' = revoked \cup {t}
    /\ IF online THEN Post(Revoke(t)) ELSE UNCHANGED reqQ
    /\ alive' = ~\E s \in pending : TunnelOf[s] = t
    /\ UNCHANGED <<announcing, handler, respQ, link, program, early>>

-----------------------------------------------------------------------------
(* The device program: one goroutine per message, in any order.            *)

LearnTarget(t) ==
    /\ Create(t) \in jobs
    /\ jobs' = jobs \ {Create(t)}
    /\ targets' = targets \cup {t}
    /\ UNCHANGED <<server, reqQ, respQ, link, response, outgoing, history>>

ForgetTarget(t) ==
    /\ Revoke(t) \in jobs
    /\ jobs' = jobs \ {Revoke(t)}
    /\ targets' = targets \ {t}
    /\ UNCHANGED <<server, reqQ, respQ, link, response, outgoing, history>>

\* The request goes to the port of the tunnel, or to the default port if the
\* tunnel is not known; it is answered with some chunks, the last of which is
\* an error if the local server fails.
Numbers(n) == [i \in 1..n |-> i]
Responses == {Numbers(n) : n \in 0..MaxChunks}
             \cup {Append(Numbers(n), Error) : n \in 0..MaxChunks}

ProxyRequest(s) ==
    /\ Data(s) \in jobs
    /\ jobs' = jobs \ {Data(s)}
    /\ \E r \in Responses :
         /\ response' = [response EXCEPT ![s] = r]
         /\ outgoing' = [outgoing EXCEPT ![s] = Append(r, End)]
    /\ UNCHANGED <<server, reqQ, respQ, link, targets, history>>

\* A chunk that cannot be written is followed by an error and the end.
WriteChunk(s) ==
    /\ outgoing[s] # <<>>
    /\ respQ' = IF online
                THEN Append(respQ, [stream |-> s, chunk |-> Head(outgoing[s])])
                ELSE respQ
    /\ outgoing' = [outgoing EXCEPT ![s] =
                      IF online \/ Head(@) \in {Error, End} THEN Tail(@) ELSE <<Error, End>>]
    /\ UNCHANGED <<server, reqQ, link, jobs, targets, response, history>>

UnderWay == {s \in Streams : pc[s] = "waiting"}

\* The connection is lost with what has not been read from either end of it.
LoseConnection ==
    /\ online /\ drops < MaxDrops
    /\ online' = FALSE
    /\ drops' = drops + 1
    /\ disturbed' = disturbed \cup UnderWay
    /\ jobs' \in SUBSET jobs
    /\ \E n \in 0..Len(respQ) : respQ' = SubSeq(respQ, 1, n)
    /\ UNCHANGED <<server, reqQ, targets, response, outgoing, history>>

RestartProgram ==
    /\ ~online /\ drops < MaxDrops
    /\ drops' = drops + 1
    /\ jobs' = {}
    /\ targets' = {}
    /\ outgoing' = [s \in Streams |-> <<>>]
    /\ disturbed' = disturbed \cup UnderWay
    /\ UNCHANGED <<server, reqQ, respQ, online, response, history>>

Reconnect ==
    /\ ~online
    /\ online' = TRUE
    /\ UNCHANGED <<server, reqQ, respQ, drops, disturbed, program, history>>

-----------------------------------------------------------------------------
HandlerStep(s) == Refuse(s) \/ Check(s) \/ Ask(s) \/ TakeResponse(s) \/ Timeout(s)
TunnelStep(t) ==
    InsertTunnel(t) \/ AnnounceTunnel(t) \/ DeleteTunnel(t) \/ Expire(t) \/ CleanTunnel(t)
ProgramStep ==
    \/ \E t \in Tunnels : LearnTarget(t) \/ ForgetTarget(t)
    \/ \E s \in Streams : ProxyRequest(s) \/ WriteChunk(s)
LinkStep == LoseConnection \/ RestartProgram \/ Reconnect

Next ==
    \/ \E s \in Streams : HandlerStep(s)
    \/ ForwardReq \/ HandleResp
    \/ \E t \in Tunnels : TunnelStep(t)
    \/ ProgramStep
    \/ LinkStep

Spec == Init /\ [][Next]_vars

\* The handler's goroutine is scheduled and its timer fires.  Nothing else
\* need happen.
FairSpec == Spec /\ \A s \in Streams : WF_vars(pc[s] # "start" /\ HandlerStep(s))

-----------------------------------------------------------------------------
(* Properties.                                                             *)

\* The reply is the start of the request's own response: as long as the
\* connection was not lost meanwhile, what is dropped comes later.
ReplyStartsResponse ==
    \A s \in Streams : status[s] = "data" /\ s \notin disturbed
        => response[s] # <<>> /\ body[s] = [stream |-> s, chunk |-> Head(response[s])]

\* Only streams that a handler waits for are in the table, whatever comes
\* first of the response, the end of the stream and the timeout; so a late
\* chunk finds nobody.
OnlyWaitingStreams ==
    \A s \in pending : pc[s] = "waiting"

\* A request that was sent returns, although the device may never answer, or
\* answer with nothing, or the tunnel may be revoked meanwhile.
RequestReturns ==
    \A s \in Streams : pc[s] = "waiting" ~> (pc[s] = "done" \/ ~alive)

\* A request that the device program holds finds the port of its tunnel, or
\* the message that tells it is handled at the same time: it may be late by a
\* race of goroutines only, unless the tunnel was revoked at some time or the
\* connection was lost.  The exception is a request that came between the
\* INSERT and the message; then the message is still to come.
Queued(m) == \E i \in 1..Len(reqQ) : reqQ[i] = m
ToldLater(t) == t \in announcing \/ Queued(Create(t))

TunnelKnown ==
    \A s \in Streams :
        (Data(s) \in jobs /\ drops = 0 /\ TunnelOf[s] \notin revoked \cup targets)
            => \/ Create(TunnelOf[s]) \in jobs
               \/ s \in early /\ ToldLater(TunnelOf[s])

(* What a comment says and the code does not keep.                         *)

\* proxy.go: a cleanup round cleans up the proxy connections of the tunnels
\* that have expired; here, the server survives it.
CleanupSurvived == alive
=============================================================================
