-------------------------- MODULE TokenProxyProofs --------------------------
(* Theorems about TokenProxy, for any sets of streams and tunnels and any  *)
(* bounds: type correctness, that the table holds waiting streams only,    *)
(* that a handler is given pieces of its own stream only, that the device  *)
(* program learns of a tunnel no later than of its requests, and that a    *)
(* reply is the start of the request's own response.                       *)
EXTENDS TokenProxy, SequenceTheorems, TLAPS

\* What a channel's receiver takes, and what it leaves, are of the channel's type.
LEMMA TailInSeq ==
    ASSUME NEW S, NEW q \in Seq(S), q # <<>>
    PROVE  Head(q) \in S /\ Tail(q) \in Seq(S)
  BY HeadTailProperties

\* A send keeps a channel's type.
LEMMA AppendInSeq ==
    ASSUME NEW S, NEW q \in Seq(S), NEW e \in S
    PROVE  Append(q, e) \in Seq(S)
  BY AppendProperties

\* A response is a sequence of chunks.
LEMMA ResponseType == Responses \subseteq Seq(Chunks)
  <1> USE TokenProxyAssumption
  <1>1. Error \in Chunks /\ Chunks \subseteq Nat
    BY DEF Error, Chunks
  <1>2. \A n \in 0..MaxChunks : Numbers(n) \in Seq(Chunks)
    <2> TAKE n \in 0..MaxChunks
    <2>1. \A i \in 1..n : i \in Chunks
      BY DEF Chunks, Error
    <2> QED
      BY <2>1 DEF Numbers
  <1>3. \A n \in 0..MaxChunks : Append(Numbers(n), Error) \in Seq(Chunks)
    BY <1>1, <1>2, AppendInSeq
  <1> QED
    BY <1>2, <1>3 DEF Responses

\* What the program writes of a response: its chunks and the end.
LEMMA OutgoingType ==
    /\ \A r \in Responses : Append(r, End) \in Seq(Chunks \cup {End})
    /\ <<Error, End>> \in Seq(Chunks \cup {End})
  <1> USE TokenProxyAssumption
  <1>1. \A r \in Responses : r \in Seq(Chunks \cup {End})
    BY ResponseType
  <1>2. \A r \in Responses : Append(r, End) \in Seq(Chunks \cup {End})
    BY <1>1, AppendInSeq
  <1>3. Error \in Chunks \cup {End} /\ End \in Chunks \cup {End}
    BY DEF Error, Chunks
  <1> QED
    BY <1>2, <1>3

-----------------------------------------------------------------------------
(* Types.                                                                  *)

LEMMA TypeInit == Init => TypeOK
  BY TokenProxyAssumption, EmptySeq DEF Init, TypeOK

\* The handler's steps.
LEMMA TypeHandler ==
    ASSUME TypeOK, NEW s \in Streams, HandlerStep(s)
    PROVE  TypeOK'
  <1> USE TokenProxyAssumption DEF TypeOK, Goto, Reply, link, program, tunnels, history
  <1>1. CASE Refuse(s)
    BY <1>1 DEF Refuse
  <1>2. CASE Check(s)
    BY <1>2 DEF Check
  <1>3. CASE Ask(s)
    <2>1. Data(s) \in Msg
      BY DEF Data, Msg
    <2> QED
      BY <1>3, <2>1, AppendInSeq DEF Ask
  <1>4. CASE TakeResponse(s)
    BY <1>4 DEF TakeResponse, Forget
  <1>5. CASE Timeout(s)
    BY <1>5 DEF Timeout, Forget
  <1> QED
    BY <1>1, <1>2, <1>3, <1>4, <1>5 DEF HandlerStep

\* The broker's arms.
LEMMA TypeBroker ==
    ASSUME TypeOK, ForwardReq \/ HandleResp
    PROVE  TypeOK'
  <1> USE TokenProxyAssumption DEF TypeOK, link, program, tunnels, history
  <1>1. CASE ForwardReq
    BY <1>1, TailInSeq DEF ForwardReq, server, handler, tunnels, history
  <1>2. CASE HandleResp
    <2>1. /\ respQ # <<>> /\ respQ' = Tail(respQ)
          /\ UNCHANGED <<alive, tunnels, pc, status, body, reqQ, link, program, history>>
      BY <1>2 DEF HandleResp
    <2>2. Head(respQ) \in Piece /\ respQ' \in Seq(Piece)
      BY <2>1, TailInSeq
    <2>3. pending' \subseteq Streams /\ respCh' \in [Streams -> Piece \cup {None}]
      BY <1>2, <2>2 DEF HandleResp, Forget, Offer
    <2> QED
      BY <2>1, <2>2, <2>3
  <1> QED
    BY <1>1, <1>2

\* The tunnels.
LEMMA TypeTunnel ==
    ASSUME TypeOK, NEW t \in Tunnels, TunnelStep(t)
    PROVE  TypeOK'
  <1> USE DEF TypeOK, link, program, handler, Post, tunnels, history
  <1>0. Create(t) \in Msg /\ Revoke(t) \in Msg
    BY DEF Create, Revoke, Msg
  <1>1. CASE InsertTunnel(t)
    BY <1>1 DEF InsertTunnel
  <1>5. CASE AnnounceTunnel(t)
    BY <1>0, <1>5, AppendInSeq DEF AnnounceTunnel
  <1>2. CASE DeleteTunnel(t)
    BY <1>0, <1>2, AppendInSeq DEF DeleteTunnel
  <1>3. CASE Expire(t)
    BY <1>3 DEF Expire
  <1>4. CASE CleanTunnel(t)
    <2>1. reqQ' = reqQ \/ reqQ' = Append(reqQ, Revoke(t))
      BY <1>4 DEF CleanTunnel
    <2>2. reqQ' \in Seq(Msg)
      <3>1. reqQ \in Seq(Msg) /\ Append(reqQ, Revoke(t)) \in Seq(Msg)
        BY <1>0, AppendInSeq
      <3> QED
        BY <2>1, <3>1
    <2> QED
      BY <1>4, <2>2 DEF CleanTunnel
  <1> QED
    BY <1>1, <1>2, <1>3, <1>4, <1>5 DEF TunnelStep

\* The device program.
LEMMA TypeProgram ==
    ASSUME TypeOK, ProgramStep
    PROVE  TypeOK'
  <1> USE TokenProxyAssumption DEF TypeOK, link, server, handler, tunnels, history
  <1>1. ASSUME NEW t \in Tunnels, LearnTarget(t) PROVE TypeOK'
    BY <1>1 DEF LearnTarget
  <1>2. ASSUME NEW t \in Tunnels, ForgetTarget(t) PROVE TypeOK'
    BY <1>2 DEF ForgetTarget
  <1>3. ASSUME NEW s \in Streams, ProxyRequest(s) PROVE TypeOK'
    <2>1. PICK r \in Responses : /\ response' = [response EXCEPT ![s] = r]
                                 /\ outgoing' = [outgoing EXCEPT ![s] = Append(r, End)]
      BY <1>3 DEF ProxyRequest
    <2>2. r \in Seq(Chunks) /\ Append(r, End) \in Seq(Chunks \cup {End})
      BY ResponseType, OutgoingType
    <2> QED
      BY <1>3, <2>1, <2>2 DEF ProxyRequest
  <1>4. ASSUME NEW s \in Streams, WriteChunk(s) PROVE TypeOK'
    <2>1. outgoing[s] \in Seq(Chunks \cup {End}) /\ outgoing[s] # <<>>
      BY <1>4 DEF WriteChunk
    <2>2. Head(outgoing[s]) \in Chunks \cup {End} /\ Tail(outgoing[s]) \in Seq(Chunks \cup {End})
      BY <2>1, TailInSeq
    <2>3. [stream |-> s, chunk |-> Head(outgoing[s])] \in Piece
      BY <2>2 DEF Piece
    <2>4. respQ' \in Seq(Piece)
      BY <1>4, <2>3, AppendInSeq DEF WriteChunk
    <2>5. outgoing' \in [Streams -> Seq(Chunks \cup {End})]
      BY <1>4, <2>2, OutgoingType DEF WriteChunk
    <2> QED
      BY <1>4, <2>4, <2>5 DEF WriteChunk
  <1> QED
    BY <1>1, <1>2, <1>3, <1>4 DEF ProgramStep

\* The connection.
LEMMA TypeLink ==
    ASSUME TypeOK, LinkStep
    PROVE  TypeOK'
  <1> USE TokenProxyAssumption DEF TypeOK, server, handler, program, UnderWay, tunnels, history
  <1>1. CASE LoseConnection
    <2>1. PICK n \in 0..Len(respQ) : respQ' = SubSeq(respQ, 1, n)
      BY <1>1 DEF LoseConnection
    <2>2. respQ' \in Seq(Piece)
      <3>1. \A i \in 1..n : respQ[i] \in Piece
        BY ElementOfSeq, LenProperties
      <3> QED
        BY <2>1, <3>1, SubSeqProperties
    <2>3. jobs' \subseteq Msg /\ drops' \in 0..MaxDrops /\ disturbed' \subseteq Streams
      BY <1>1 DEF LoseConnection
    <2>4. /\ online' = FALSE
          /\ UNCHANGED <<server, reqQ, targets, response, outgoing, history>>
      BY <1>1 DEF LoseConnection
    <2> QED
      BY <2>2, <2>3, <2>4
  <1>2. CASE RestartProgram
    BY <1>2, EmptySeq DEF RestartProgram
  <1>3. CASE Reconnect
    BY <1>3 DEF Reconnect
  <1> QED
    BY <1>1, <1>2, <1>3 DEF LinkStep

LEMMA TypeNext == TypeOK /\ [Next]_vars => TypeOK'
  <1> SUFFICES ASSUME TypeOK, [Next]_vars PROVE TypeOK'
    OBVIOUS
  <1>1. CASE UNCHANGED vars
    BY <1>1 DEF TypeOK, vars, server, handler, link, program, tunnels, history
  <1> QED
    BY <1>1, TypeHandler, TypeBroker, TypeTunnel, TypeProgram, TypeLink DEF Next

\* Every variable keeps its type.
THEOREM TypeCorrect == Spec => []TypeOK
  BY TypeInit, TypeNext, PTL DEF Spec

-----------------------------------------------------------------------------
(* The table of streams.                                                   *)

\* With its type, the table is inductive: the handler that stops waiting takes
\* its stream out of the table in the same step, and nobody else puts one in.
WaitingInv == TypeOK /\ OnlyWaitingStreams

LEMMA WaitingNext == WaitingInv /\ [Next]_vars => OnlyWaitingStreams'
  <1> SUFFICES ASSUME TypeOK, OnlyWaitingStreams, [Next]_vars PROVE OnlyWaitingStreams'
    BY DEF WaitingInv
  <1> USE DEF TypeOK, OnlyWaitingStreams
  <1>1. CASE pc' = pc /\ pending' \subseteq pending
    BY <1>1
  <1>2. ASSUME NEW s \in Streams, HandlerStep(s) PROVE OnlyWaitingStreams'
    BY <1>2 DEF HandlerStep, Refuse, Check, Ask, TakeResponse, Timeout, Forget, Goto
  <1>3. ASSUME HandleResp PROVE pc' = pc /\ pending' \subseteq pending
    BY <1>3 DEF HandleResp, Forget
  <1>4. ASSUME ForwardReq \/ ProgramStep \/ LinkStep \/ UNCHANGED vars PROVE UNCHANGED <<pc, pending>>
    BY <1>4 DEF ForwardReq, ProgramStep, LearnTarget, ForgetTarget, ProxyRequest, WriteChunk,
        LinkStep, LoseConnection, RestartProgram, Reconnect, server, handler, vars, tunnels, history
  <1>5. ASSUME NEW t \in Tunnels, TunnelStep(t) PROVE UNCHANGED <<pc, pending>>
    BY <1>5 DEF TunnelStep, InsertTunnel, AnnounceTunnel, DeleteTunnel, Expire, CleanTunnel, handler, tunnels, history
  <1> QED
    BY <1>1, <1>2, <1>3, <1>4, <1>5 DEF Next

\* The table holds only streams that a handler waits for.
THEOREM WaitingOnly == Spec => []OnlyWaitingStreams
  <1>1. Init => WaitingInv
    BY TypeInit DEF Init, WaitingInv, OnlyWaitingStreams
  <1>2. WaitingInv /\ [Next]_vars => WaitingInv'
    BY TypeNext, WaitingNext DEF WaitingInv
  <1>3. WaitingInv => OnlyWaitingStreams
    BY DEF WaitingInv
  <1> QED
    BY <1>1, <1>2, <1>3, PTL DEF Spec

-----------------------------------------------------------------------------
(* Concurrent requests share the connection to the device.                 *)

\* What a handler has been offered, and what it replied, is of its own stream.
PiecesOwnHandler ==
    \A s \in Streams : /\ respCh[s] # None => respCh[s].stream = s
                       /\ body[s] # None => body[s].stream = s

PiecesInv == TypeOK /\ PiecesOwnHandler

LEMMA PiecesNext == PiecesInv /\ [Next]_vars => PiecesOwnHandler'
  <1> SUFFICES ASSUME TypeOK, PiecesOwnHandler, [Next]_vars PROVE PiecesOwnHandler'
    BY DEF PiecesInv
  <1> USE DEF TypeOK, PiecesOwnHandler
  <1>1. CASE UNCHANGED <<respCh, body>>
    BY <1>1
  <1>2. ASSUME NEW s \in Streams, TakeResponse(s) PROVE PiecesOwnHandler'
    BY <1>2 DEF TakeResponse
  <1>3. ASSUME NEW s \in Streams, HandlerStep(s), ~TakeResponse(s) PROVE UNCHANGED <<respCh, body>>
    BY <1>3 DEF HandlerStep, Refuse, Check, Ask, Timeout
  <1>4. ASSUME HandleResp PROVE PiecesOwnHandler'
    BY <1>4 DEF HandleResp, Receivers, Offer
  <1>5. ASSUME ForwardReq \/ ProgramStep \/ LinkStep \/ UNCHANGED vars PROVE UNCHANGED <<respCh, body>>
    BY <1>5 DEF ForwardReq, ProgramStep, LearnTarget, ForgetTarget, ProxyRequest, WriteChunk,
        LinkStep, LoseConnection, RestartProgram, Reconnect, server, handler, vars, tunnels, history
  <1>6. ASSUME NEW t \in Tunnels, TunnelStep(t) PROVE UNCHANGED <<respCh, body>>
    BY <1>6 DEF TunnelStep, InsertTunnel, AnnounceTunnel, DeleteTunnel, Expire, CleanTunnel, handler, tunnels, history
  <1> QED
    BY <1>1, <1>2, <1>3, <1>4, <1>5, <1>6 DEF Next

\* However many requests are under way, whatever is lost or comes late, a
\* handler is given pieces of its own stream only.
THEOREM PiecesOwn == Spec => []PiecesOwnHandler
  <1>1. Init => PiecesInv
    BY TypeInit DEF Init, PiecesInv, PiecesOwnHandler
  <1>2. PiecesInv /\ [Next]_vars => PiecesInv'
    BY TypeNext, PiecesNext DEF PiecesInv
  <1>3. PiecesInv => PiecesOwnHandler
    BY DEF PiecesInv
  <1> QED
    BY <1>1, <1>2, <1>3, PTL DEF Spec

-----------------------------------------------------------------------------
(* The device program learns of a tunnel no later than of its requests.    *)

Known(t) == t \in targets \/ Create(t) \in jobs

\* A request came too early, and the message about its tunnel is still to come.
Ahead(s) == s \in early /\ ToldLater(TunnelOf[s])

\* A request is checked against a tunnel that has been created ...
CheckedExists == \A s \in Streams : pc[s] # "start" => tun[TunnelOf[s]] # "absent"

\* ... of which the program has been told, or will be by a message that is
\* queued or still to be posted ...
CreatedTold ==
    drops = 0 => \A t \in Tunnels \ revoked :
        tun[t] # "absent" => Known(t) \/ ToldLater(t)

\* ... that is ahead of the request unless it came too early.
CreateAhead ==
    drops = 0 => \A s \in Streams : \A i \in 1..Len(reqQ) :
        TunnelOf[s] \notin revoked /\ reqQ[i] = Data(s) =>
            \/ Known(TunnelOf[s]) \/ Ahead(s)
            \/ \E j \in 1..Len(reqQ) : j < i /\ reqQ[j] = Create(TunnelOf[s])

\* Only tunnels that were revoked are forgotten, or connections were lost.
RevokesMeant == \A t \in Tunnels : Revoke(t) \in jobs \/ Queued(Revoke(t)) => t \in revoked
NeverOffline == drops = 0 => online

KnownFacts ==
    /\ CheckedExists
    /\ CreatedTold
    /\ CreateAhead
    /\ RevokesMeant
    /\ NeverOffline
    /\ TunnelKnown

KnownInv == TypeOK /\ KnownFacts

\* Messages of different kinds, and of different tunnels or streams, differ.
LEMMA Messages ==
    /\ \A t \in Tunnels : Create(t) \in Msg /\ Revoke(t) \in Msg
    /\ \A s \in Streams : Data(s) \in Msg
    /\ \A t \in Tunnels, u \in Tunnels :
         /\ Create(t) # Revoke(u)
         /\ Create(t) = Create(u) => t = u
         /\ Revoke(t) = Revoke(u) => t = u
    /\ \A t \in Tunnels, s \in Streams : Create(t) # Data(s) /\ Revoke(t) # Data(s)
    /\ \A r \in Streams, s \in Streams : Data(r) = Data(s) => r = s
  BY DEF Create, Revoke, Data, Msg

\* What is posted is last.
LEMMA PostEffect ==
    ASSUME TypeOK, NEW m \in Msg, reqQ' = Append(reqQ, m)
    PROVE  /\ \A i \in 1..Len(reqQ) : i \in 1..Len(reqQ') /\ reqQ'[i] = reqQ[i]
           /\ \A i \in 1..Len(reqQ') : \/ i \in 1..Len(reqQ)
                                       \/ i = Len(reqQ) + 1 /\ reqQ'[i] = m
           /\ Len(reqQ) + 1 \in 1..Len(reqQ') /\ reqQ'[Len(reqQ) + 1] = m
           /\ \A i \in 1..Len(reqQ) : i < Len(reqQ) + 1
  <1>1. reqQ \in Seq(Msg) /\ Len(reqQ) \in Nat
    BY LenProperties DEF TypeOK
  <1>2. /\ Len(reqQ') = Len(reqQ) + 1
        /\ \A i \in 1..Len(reqQ) : reqQ'[i] = reqQ[i]
        /\ reqQ'[Len(reqQ) + 1] = m
    BY <1>1, AppendProperties
  <1> QED
    BY <1>1, <1>2

\* What the broker takes is first, and the rest moves up by one.
LEMMA TakeEffect ==
    ASSUME TypeOK, reqQ # <<>>, reqQ' = Tail(reqQ)
    PROVE  /\ 1 \in 1..Len(reqQ) /\ Head(reqQ) = reqQ[1]
           /\ \A i \in 1..Len(reqQ') :
                i + 1 \in 1..Len(reqQ) /\ reqQ'[i] = reqQ[i + 1]
           /\ \A i \in 1..Len(reqQ) : \A j \in 1..Len(reqQ') : i < j + 1 =>
                i = 1 \/ (i - 1 \in 1..Len(reqQ') /\ i - 1 < j /\ reqQ'[i - 1] = reqQ[i])
           /\ \A i \in 1..Len(reqQ) :
                i = 1 \/ (i - 1 \in 1..Len(reqQ') /\ reqQ'[i - 1] = reqQ[i])
  <1>1. /\ reqQ \in Seq(Msg) /\ Len(reqQ) \in Nat \ {0} /\ Len(reqQ') = Len(reqQ) - 1
        /\ \A i \in 1..Len(reqQ') : reqQ'[i] = reqQ[i + 1]
        /\ Head(reqQ) = reqQ[1]
    BY HeadTailProperties, EmptySeq DEF TypeOK
  <1>2. \A i \in 1..Len(reqQ) :
            i = 1 \/ (i - 1 \in 1..Len(reqQ') /\ (i - 1) + 1 = i)
    BY <1>1
  <1>3. \A i \in 1..Len(reqQ') : i + 1 \in 1..Len(reqQ)
    BY <1>1
  <1>4. \A i \in 1..Len(reqQ), j \in 1..Len(reqQ') : i < j + 1 => i - 1 < j
    BY <1>1
  <1> QED
    BY <1>1, <1>2, <1>3, <1>4

\* What neither touches messages nor the program's table keeps the facts.
LEMMA KnownSame ==
    ASSUME TypeOK, KnownFacts,
           UNCHANGED <<reqQ, jobs, targets, revoked, announcing, early>>,
           drops' = 0 => drops = 0 /\ (online' = online \/ online'),
           \A t \in Tunnels : tun'[t] # "absent" => tun[t] # "absent",
           CheckedExists'
    PROVE  KnownFacts'
  BY DEF TypeOK, KnownFacts, CreatedTold, CreateAhead, RevokesMeant, NeverOffline, TunnelKnown,
      Known, Queued, Ahead, ToldLater

\* After the connection was lost there is less to say.
LEMMA KnownLost ==
    ASSUME TypeOK, KnownFacts,
           UNCHANGED <<reqQ, revoked, pc, tun>>,
           jobs' \subseteq jobs, drops' # 0
    PROVE  KnownFacts'
  BY DEF TypeOK, KnownFacts, CheckedExists, CreatedTold, CreateAhead, RevokesMeant, NeverOffline,
      TunnelKnown, Queued

LEMMA KnownInit == Init => KnownFacts
  BY EmptySeq, TokenProxyAssumption
  DEF Init, KnownFacts, CheckedExists, CreatedTold, CreateAhead, RevokesMeant, NeverOffline,
      TunnelKnown, Queued

\* The handler: a request is posted behind the message that creates its tunnel.
LEMMA KnownHandler ==
    ASSUME TypeOK, KnownFacts, NEW s \in Streams, HandlerStep(s)
    PROVE  KnownFacts'
  <1> USE TokenProxyAssumption DEF Goto, link, program, tunnels, history
  <1>1. CheckedExists'
    <2>1. /\ tun' = tun
          /\ \A r \in Streams : pc'[r] # "start" => pc[r] # "start" \/ tun[TunnelOf[r]] # "absent"
      BY DEF HandlerStep, Refuse, Check, Ask, TakeResponse, Timeout, TypeOK
    <2> QED
      BY <2>1 DEF KnownFacts, CheckedExists
  <1>2. CASE Refuse(s) \/ Check(s) \/ TakeResponse(s) \/ Timeout(s)
    <2>1. UNCHANGED <<reqQ, jobs, targets, revoked, announcing, early, drops, online, tun>>
      BY <1>2 DEF Refuse, Check, TakeResponse, Timeout
    <2> QED
      BY <1>1, <2>1, KnownSame
  <1>3. CASE Ask(s)
    <2>1. /\ reqQ' = Append(reqQ, Data(s)) /\ pc[s] = "checked"
          /\ early \subseteq early' /\ (TunnelOf[s] \in announcing => s \in early')
          /\ UNCHANGED <<jobs, targets, revoked, announcing, drops, online, tun>>
      BY <1>3 DEF Ask
    <2>2. /\ \A i \in 1..Len(reqQ) : i \in 1..Len(reqQ') /\ reqQ'[i] = reqQ[i]
          /\ \A i \in 1..Len(reqQ') : \/ i \in 1..Len(reqQ)
                                      \/ i = Len(reqQ) + 1 /\ reqQ'[i] = Data(s)
          /\ \A i \in 1..Len(reqQ) : i < Len(reqQ) + 1
      BY <2>1, PostEffect, Messages
    <2>3. tun[TunnelOf[s]] # "absent" /\ TunnelOf[s] \in Tunnels
      BY <2>1 DEF KnownFacts, CheckedExists
    <2>7. /\ \A t \in Tunnels : ToldLater(t) => ToldLater(t)'
          /\ \A r \in Streams : Ahead(r) => Ahead(r)'
      BY <2>1, <2>2 DEF Ahead, ToldLater, Queued, Create
    <2>4. CreatedTold'
      BY <2>1, <2>7 DEF KnownFacts, CreatedTold, Known
    <2>5. CreateAhead'
      <3> SUFFICES ASSUME drops = 0, NEW r \in Streams, NEW i \in 1..Len(reqQ'),
                          TunnelOf[r] \notin revoked, reqQ'[i] = Data(r), ~Known(TunnelOf[r]),
                          ~Ahead(r)'
                   PROVE  \E j \in 1..Len(reqQ') : j < i /\ reqQ'[j] = Create(TunnelOf[r])
        BY <2>1 DEF CreateAhead, Known
      <3>1. CASE i \in 1..Len(reqQ)
        BY <2>2, <2>7, <3>1 DEF KnownFacts, CreateAhead
      <3>2. CASE i = Len(reqQ) + 1 /\ reqQ'[i] = Data(s)
        <4>1. r = s
          BY <3>2, Messages
        <4>2. ToldLater(TunnelOf[s])
          BY <4>1, <2>3 DEF KnownFacts, CreatedTold
        <4>3. TunnelOf[s] \notin announcing
          BY <2>1, <2>3, <2>7, <4>1, <4>2 DEF Ahead
        <4> QED
          BY <2>2, <3>2, <4>1, <4>2, <4>3 DEF ToldLater, Queued
      <3> QED
        BY <2>2, <3>1, <3>2
    <2>6. RevokesMeant' /\ NeverOffline' /\ TunnelKnown'
      <3>1. RevokesMeant' /\ NeverOffline'
        BY <2>1, <2>2, Messages DEF KnownFacts, RevokesMeant, NeverOffline, Queued
      <3>2. TunnelKnown'
        BY <2>1, <2>7 DEF KnownFacts, TunnelKnown, Ahead
      <3> QED
        BY <3>1, <3>2
    <2> QED
      BY <1>1, <2>4, <2>5, <2>6 DEF KnownFacts
  <1> QED
    BY <1>2, <1>3 DEF HandlerStep

\* The broker: a message that is taken is on its way to the program.
LEMMA KnownBroker ==
    ASSUME TypeOK, KnownFacts, ForwardReq \/ HandleResp
    PROVE  KnownFacts'
  <1> USE TokenProxyAssumption DEF link, program, tunnels, history
  <1>1. CASE HandleResp
    <2>1. UNCHANGED <<reqQ, jobs, targets, revoked, announcing, early, drops, online, tun, pc>>
      BY <1>1 DEF HandleResp
    <2>2. CheckedExists'
      BY <2>1 DEF KnownFacts, CheckedExists
    <2> QED
      BY <2>1, <2>2, KnownSame
  <1>2. CASE ForwardReq
    <2>1. /\ reqQ # <<>> /\ reqQ' = Tail(reqQ)
          /\ jobs' = IF online THEN jobs \cup {Head(reqQ)} ELSE jobs
          /\ UNCHANGED <<targets, revoked, announcing, early, drops, online, tun, pc>>
      BY <1>2 DEF ForwardReq, server, handler, tunnels, history
    <2> DEFINE m == reqQ[1]
    <2>2. /\ 1 \in 1..Len(reqQ) /\ Head(reqQ) = m
          /\ \A i \in 1..Len(reqQ') :
               i + 1 \in 1..Len(reqQ) /\ reqQ'[i] = reqQ[i + 1]
          /\ \A i \in 1..Len(reqQ) : \A j \in 1..Len(reqQ') : i < j + 1 =>
               i = 1 \/ (i - 1 \in 1..Len(reqQ') /\ i - 1 < j /\ reqQ'[i - 1] = reqQ[i])
          /\ \A i \in 1..Len(reqQ) :
               i = 1 \/ (i - 1 \in 1..Len(reqQ') /\ reqQ'[i - 1] = reqQ[i])
      BY <2>1, TakeEffect
    <2>3. drops = 0 => jobs' = jobs \cup {m}
      BY <2>1, <2>2 DEF KnownFacts, NeverOffline
    <2>4. CheckedExists' /\ NeverOffline'
      BY <2>1 DEF KnownFacts, CheckedExists, NeverOffline
    <2>9. ASSUME drops = 0, NEW t \in Tunnels, ToldLater(t) PROVE Known(t)' \/ ToldLater(t)'
      <3>1. CASE t \in announcing
        BY <2>1, <3>1 DEF ToldLater
      <3>2. CASE Queued(Create(t))
        BY <2>2, <2>3, <2>9, <3>2 DEF Known, Queued, Create, ToldLater
      <3> QED
        BY <2>9, <3>1, <3>2 DEF ToldLater
    <2>10. ASSUME drops = 0, NEW t \in Tunnels, Known(t) PROVE Known(t)'
      BY <2>1, <2>3, <2>10 DEF Known, Create
    <2>11. ASSUME drops = 0, NEW s \in Streams, Known(TunnelOf[s]) \/ Ahead(s)
           PROVE  Known(TunnelOf[s])' \/ Ahead(s)'
      BY <2>1, <2>9, <2>10, <2>11 DEF Ahead
    <2>5. CreatedTold'
      BY <2>1, <2>9, <2>10 DEF KnownFacts, CreatedTold
    <2>6. CreateAhead'
      <3> SUFFICES ASSUME drops = 0, NEW s \in Streams, NEW i \in 1..Len(reqQ'),
                          TunnelOf[s] \notin revoked, reqQ'[i] = Data(s)
                   PROVE  \/ Known(TunnelOf[s])' \/ Ahead(s)'
                          \/ \E j \in 1..Len(reqQ') : j < i /\ reqQ'[j] = Create(TunnelOf[s])
        BY <2>1 DEF CreateAhead, Create
      <3>1. \/ Known(TunnelOf[s]) \/ Ahead(s)
            \/ \E j \in 1..Len(reqQ) : j < i + 1 /\ reqQ[j] = Create(TunnelOf[s])
        BY <2>2 DEF KnownFacts, CreateAhead
      <3>3. ASSUME NEW j \in 1..Len(reqQ), j < i + 1, reqQ[j] = Create(TunnelOf[s]), j # 1
            PROVE  \E k \in 1..Len(reqQ') : k < i /\ reqQ'[k] = Create(TunnelOf[s])
        BY <2>2, <3>3
      <3>4. ASSUME m = Create(TunnelOf[s]) PROVE Known(TunnelOf[s])'
        BY <2>3, <3>4 DEF Known, Create
      <3> QED
        BY <2>11, <3>1, <3>3, <3>4
    <2>7. RevokesMeant'
      BY <2>1, <2>2 DEF KnownFacts, RevokesMeant, Queued, Revoke
    <2>8. TunnelKnown'
      <3> SUFFICES ASSUME drops = 0, NEW s \in Streams, TunnelOf[s] \notin revoked,
                          Data(s) \in jobs'
                   PROVE  Known(TunnelOf[s])' \/ Ahead(s)'
        BY <2>1 DEF TunnelKnown, Known, Data, Create, Ahead
      <3>1. CASE Data(s) \in jobs
        <4>1. Known(TunnelOf[s]) \/ Ahead(s)
          BY <3>1 DEF KnownFacts, TunnelKnown, Known, Ahead
        <4> QED
          BY <2>11, <4>1
      <3>2. CASE Data(s) = m
        <4>1. Known(TunnelOf[s]) \/ Ahead(s)
          BY <2>2, <3>2 DEF KnownFacts, CreateAhead
        <4> QED
          BY <2>11, <4>1
      <3> QED
        BY <2>3, <3>1, <3>2
    <2> QED
      BY <2>4, <2>5, <2>6, <2>7, <2>8 DEF KnownFacts
  <1> QED
    BY <1>1, <1>2

\* A message about a tunnel that is posted keeps what is said of requests.
LEMMA KnownPost ==
    ASSUME TypeOK, KnownFacts, NEW m \in Msg, \A s \in Streams : m # Data(s),
           reqQ' = Append(reqQ, m),
           UNCHANGED <<jobs, targets, drops, online, pc, early>>,
           \A t \in announcing : t \in announcing' \/ m = Create(t),
           revoked \subseteq revoked'
    PROVE  /\ CreateAhead' /\ NeverOffline' /\ TunnelKnown'
           /\ \A t \in Tunnels : ToldLater(t) => ToldLater(t)'
  <1>1. /\ \A i \in 1..Len(reqQ) : i \in 1..Len(reqQ') /\ reqQ'[i] = reqQ[i]
        /\ \A i \in 1..Len(reqQ') : \/ i \in 1..Len(reqQ)
                                    \/ i = Len(reqQ) + 1 /\ reqQ'[i] = m
        /\ Len(reqQ) + 1 \in 1..Len(reqQ') /\ reqQ'[Len(reqQ) + 1] = m
    BY PostEffect
  <1>4. \A t \in Tunnels : ToldLater(t) => ToldLater(t)'
    BY <1>1 DEF ToldLater, Queued, Create
  <1>5. \A s \in Streams : Ahead(s) => Ahead(s)'
    BY <1>4, TokenProxyAssumption DEF Ahead
  <1>2. CreateAhead'
    <2> SUFFICES ASSUME drops = 0, NEW s \in Streams, NEW i \in 1..Len(reqQ'),
                        TunnelOf[s] \notin revoked', reqQ'[i] = Data(s), ~Known(TunnelOf[s]),
                        ~Ahead(s)'
                 PROVE  \E j \in 1..Len(reqQ') : j < i /\ reqQ'[j] = Create(TunnelOf[s])
      BY DEF CreateAhead, Known
    <2>1. i \in 1..Len(reqQ) /\ reqQ[i] = Data(s)
      BY <1>1
    <2>2. PICK j \in 1..Len(reqQ) : j < i /\ reqQ[j] = Create(TunnelOf[s])
      BY <1>5, <2>1 DEF KnownFacts, CreateAhead
    <2> QED
      BY <1>1, <2>2
  <1>3. NeverOffline' /\ TunnelKnown'
    BY <1>5 DEF KnownFacts, NeverOffline, TunnelKnown, Ahead
  <1> QED
    BY <1>2, <1>3, <1>4

\* A tunnel's steps: what is created is told, what is told to be forgotten was
\* revoked.
LEMMA KnownTunnel ==
    ASSUME TypeOK, KnownFacts, NEW t \in Tunnels, TunnelStep(t)
    PROVE  KnownFacts'
  <1> USE TokenProxyAssumption DEF link, program, handler, Post, tunnels, history
  <1>1. CASE AnnounceTunnel(t)
    <2>1. /\ announcing' = announcing \ {t} /\ reqQ' = Append(reqQ, Create(t))
          /\ UNCHANGED <<tun, jobs, targets, drops, online, pc, revoked, early>>
      BY <1>1 DEF AnnounceTunnel
    <2>2. /\ \A i \in 1..Len(reqQ') : \/ i \in 1..Len(reqQ) /\ reqQ'[i] = reqQ[i]
                                      \/ i = Len(reqQ) + 1 /\ reqQ'[i] = Create(t)
      BY <2>1, PostEffect, Messages
    <2>3. /\ CreateAhead' /\ NeverOffline' /\ TunnelKnown'
          /\ \A u \in Tunnels : ToldLater(u) => ToldLater(u)'
      BY <2>1, KnownPost, Messages
    <2>4. CheckedExists'
      BY <2>1 DEF KnownFacts, CheckedExists, TypeOK
    <2>5. CreatedTold'
      BY <2>1, <2>3 DEF KnownFacts, CreatedTold, Known
    <2>6. RevokesMeant'
      BY <2>1, <2>2, Messages DEF KnownFacts, RevokesMeant, Queued, Revoke
    <2> QED
      BY <2>3, <2>4, <2>5, <2>6 DEF KnownFacts
  <1>7. CASE InsertTunnel(t)
    <2>1. /\ tun' = [tun EXCEPT ![t] = "active"] /\ announcing' = announcing \cup {t}
          /\ UNCHANGED <<jobs, targets, drops, online, pc, revoked, early, reqQ>>
      BY <1>7 DEF InsertTunnel
    <2>2. \A u \in Tunnels : ToldLater(u) => ToldLater(u)'
      BY <2>1 DEF ToldLater, Queued, Create
    <2>3. ToldLater(t)'
      BY <2>1 DEF ToldLater
    <2>4. CheckedExists'
      BY <2>1 DEF KnownFacts, CheckedExists, TypeOK
    <2>5. CreatedTold'
      BY <2>1, <2>2, <2>3 DEF KnownFacts, CreatedTold, Known, TypeOK
    <2>6. \A s \in Streams : Ahead(s) => Ahead(s)'
      BY <2>1, <2>2 DEF Ahead
    <2>7. CreateAhead' /\ TunnelKnown'
      BY <2>1, <2>6 DEF KnownFacts, CreateAhead, TunnelKnown, Known, Ahead
    <2>8. RevokesMeant' /\ NeverOffline'
      BY <2>1 DEF KnownFacts, RevokesMeant, NeverOffline, Queued
    <2> QED
      BY <2>4, <2>5, <2>7, <2>8 DEF KnownFacts
  <1>2. ASSUME /\ reqQ' = Append(reqQ, Revoke(t))
               /\ tun[t] # "absent"
               /\ tun' = [tun EXCEPT ![t] = "revoked"]
               /\ revoked' = revoked \cup {t}
               /\ UNCHANGED <<announcing, early, jobs, targets, drops, online, pc>>
        PROVE  KnownFacts'
    <2>1. \A i \in 1..Len(reqQ') : \/ i \in 1..Len(reqQ) /\ reqQ'[i] = reqQ[i]
                                   \/ i = Len(reqQ) + 1 /\ reqQ'[i] = Revoke(t)
      BY <1>2, PostEffect, Messages
    <2>2. /\ CreateAhead' /\ NeverOffline' /\ TunnelKnown'
          /\ \A u \in Tunnels : ToldLater(u) => ToldLater(u)'
      BY <1>2, KnownPost, Messages
    <2>3. CheckedExists'
      BY <1>2 DEF KnownFacts, CheckedExists, TypeOK
    <2>4. CreatedTold'
      <3>1. \A u \in Tunnels \ {t} : tun'[u] = tun[u]
        BY <1>2 DEF TypeOK
      <3> QED
        BY <1>2, <2>2, <3>1 DEF KnownFacts, CreatedTold, Known
    <2>5. RevokesMeant'
      BY <1>2, <2>1, Messages DEF KnownFacts, RevokesMeant, Queued, Revoke
    <2> QED
      BY <2>2, <2>3, <2>4, <2>5 DEF KnownFacts
  <1>3. ASSUME /\ tun[t] # "absent"
               /\ tun' = [tun EXCEPT ![t] = "revoked"]
               /\ revoked' = revoked \cup {t}
               /\ UNCHANGED <<announcing, early, reqQ, jobs, targets, drops, online, pc>>
        PROVE  KnownFacts'
    BY <1>3 DEF TypeOK, KnownFacts, CheckedExists, CreatedTold, CreateAhead, RevokesMeant,
        NeverOffline, TunnelKnown, Known, Queued, Ahead, ToldLater
  <1>4. CASE DeleteTunnel(t)
    BY <1>2, <1>4 DEF DeleteTunnel
  <1>5. CASE CleanTunnel(t)
    <2>1. /\ tun[t] # "absent"
          /\ tun' = [tun EXCEPT ![t] = "revoked"]
          /\ revoked' = revoked \cup {t}
          /\ UNCHANGED <<announcing, early, jobs, targets, drops, online, pc>>
          /\ reqQ' = Append(reqQ, Revoke(t)) \/ reqQ' = reqQ
      BY <1>5 DEF CleanTunnel
    <2> QED
      BY <1>2, <1>3, <2>1
  <1>6. CASE Expire(t)
    <2>1. /\ UNCHANGED <<reqQ, jobs, targets, revoked, announcing, early, drops, online, pc>>
          /\ tun[t] = "active" /\ tun' = [tun EXCEPT ![t] = "expired"]
      BY <1>6 DEF Expire
    <2>2. CheckedExists'
      BY <2>1 DEF KnownFacts, CheckedExists, TypeOK
    <2>3. \A u \in Tunnels : tun'[u] # "absent" => tun[u] # "absent"
      BY <2>1 DEF TypeOK
    <2> QED
      BY <2>1, <2>2, <2>3, KnownSame
  <1> QED
    BY <1>1, <1>4, <1>5, <1>6, <1>7 DEF TunnelStep

\* The program: a message that it handles goes into its table.
LEMMA KnownProgram ==
    ASSUME TypeOK, KnownFacts, ProgramStep
    PROVE  KnownFacts'
  <1> USE TokenProxyAssumption DEF link, server, handler, tunnels, history
  <1>1. CheckedExists' /\ NeverOffline'
    BY DEF ProgramStep, LearnTarget, ForgetTarget, ProxyRequest, WriteChunk,
        KnownFacts, CheckedExists, NeverOffline
  <1>2. ASSUME NEW t \in Tunnels, LearnTarget(t) PROVE KnownFacts'
    <2>1. /\ jobs' = jobs \ {Create(t)} /\ targets' = targets \cup {t}
          /\ UNCHANGED <<reqQ, revoked, announcing, early, drops, online, tun, pc>>
      BY <1>2 DEF LearnTarget
    <2>2. \A u \in Tunnels : Known(u) => Known(u)'
      BY <2>1, Messages DEF Known, Create
    <2>3. CreatedTold' /\ CreateAhead'
      BY <2>1, <2>2 DEF KnownFacts, CreatedTold, CreateAhead, Queued, Create, Data, Ahead, ToldLater
    <2>4. RevokesMeant'
      BY <2>1 DEF KnownFacts, RevokesMeant, Queued, Revoke
    <2>5. TunnelKnown'
      BY <2>1, <2>2 DEF KnownFacts, TunnelKnown, Known, Data, Create, Ahead, ToldLater, Queued
    <2> QED
      BY <1>1, <2>3, <2>4, <2>5 DEF KnownFacts
  <1>3. ASSUME NEW t \in Tunnels, ForgetTarget(t) PROVE KnownFacts'
    <2>1. /\ jobs' = jobs \ {Revoke(t)} /\ targets' = targets \ {t} /\ t \in revoked
          /\ UNCHANGED <<reqQ, revoked, announcing, early, drops, online, tun, pc>>
      BY <1>3 DEF ForgetTarget, KnownFacts, RevokesMeant
    <2>2. \A u \in Tunnels \ revoked : Known(u) => Known(u)'
      BY <2>1, Messages DEF Known, Create
    <2>3. CreatedTold' /\ CreateAhead'
      BY <2>1, <2>2 DEF KnownFacts, CreatedTold, CreateAhead, Queued, Create, Data, Ahead, ToldLater
    <2>4. RevokesMeant'
      BY <2>1 DEF KnownFacts, RevokesMeant, Queued, Revoke
    <2>5. TunnelKnown'
      BY <2>1, <2>2 DEF KnownFacts, TunnelKnown, Known, Data, Create, Ahead, ToldLater, Queued
    <2> QED
      BY <1>1, <2>3, <2>4, <2>5 DEF KnownFacts
  <1>4. ASSUME NEW s \in Streams, ProxyRequest(s) PROVE KnownFacts'
    <2>1. /\ jobs' = jobs \ {Data(s)}
          /\ UNCHANGED <<reqQ, targets, revoked, announcing, early, drops, online, tun, pc>>
      BY <1>4 DEF ProxyRequest
    <2>2. \A u \in Tunnels : Known(u) => Known(u)'
      BY <2>1, Messages DEF Known, Create
    <2>3. CreatedTold' /\ CreateAhead'
      BY <2>1, <2>2 DEF KnownFacts, CreatedTold, CreateAhead, Queued, Create, Data, Ahead, ToldLater
    <2>4. RevokesMeant'
      BY <2>1 DEF KnownFacts, RevokesMeant, Queued, Revoke
    <2>5. TunnelKnown'
      BY <2>1, <2>2 DEF KnownFacts, TunnelKnown, Known, Data, Create, Ahead, ToldLater, Queued
    <2> QED
      BY <1>1, <2>3, <2>4, <2>5 DEF KnownFacts
  <1>5. ASSUME NEW s \in Streams, WriteChunk(s) PROVE KnownFacts'
    BY <1>1, <1>5, KnownSame DEF WriteChunk
  <1> QED
    BY <1>2, <1>3, <1>4, <1>5 DEF ProgramStep

\* The connection.
LEMMA KnownLink ==
    ASSUME TypeOK, KnownFacts, LinkStep
    PROVE  KnownFacts'
  <1> USE DEF server, handler, program, tunnels, history
  <1>1. CASE LoseConnection \/ RestartProgram
    <2>1. drops' # 0
      BY <1>1 DEF LoseConnection, RestartProgram, TypeOK
    <2>2. UNCHANGED <<reqQ, revoked, pc, tun>> /\ jobs' \subseteq jobs
      BY <1>1 DEF LoseConnection, RestartProgram
    <2> QED
      BY <2>1, <2>2, KnownLost
  <1>2. CASE Reconnect
    <2>1. online' /\ UNCHANGED <<reqQ, jobs, targets, revoked, announcing, early, drops, tun, pc>>
      BY <1>2 DEF Reconnect
    <2>2. CheckedExists'
      BY <2>1 DEF KnownFacts, CheckedExists
    <2> QED
      BY <2>1, <2>2, KnownSame
  <1> QED
    BY <1>1, <1>2 DEF LinkStep

LEMMA KnownNext == KnownInv /\ [Next]_vars => KnownFacts'
  <1> SUFFICES ASSUME TypeOK, KnownFacts, [Next]_vars PROVE KnownFacts'
    BY DEF KnownInv
  <1>1. CASE UNCHANGED vars
    <2>1. UNCHANGED <<reqQ, jobs, targets, revoked, announcing, early, drops, online, tun, pc>>
      BY <1>1 DEF vars, server, handler, link, program, tunnels, history
    <2>2. CheckedExists'
      BY <2>1 DEF KnownFacts, CheckedExists
    <2> QED
      BY <2>1, <2>2, KnownSame
  <1> QED
    BY <1>1, KnownHandler, KnownBroker, KnownTunnel, KnownProgram, KnownLink DEF Next

\* A request that the program holds finds its tunnel known, or the message
\* that makes it known is handled at the same time.
THEOREM TunnelsKnown == Spec => []TunnelKnown
  <1>1. Init => KnownInv
    BY TypeInit, KnownInit DEF KnownInv
  <1>2. KnownInv /\ [Next]_vars => KnownInv'
    BY TypeNext, KnownNext DEF KnownInv
  <1>3. KnownInv => TunnelKnown
    BY DEF KnownInv, KnownFacts
  <1> QED
    BY <1>1, <1>2, <1>3, PTL DEF Spec

-----------------------------------------------------------------------------
(* The reply is the start of the request's own response.                   *)

\* Nothing of a response of s is under way.
Unsent(s) ==
    /\ response[s] = <<>> /\ outgoing[s] = <<>> /\ respCh[s] = None
    /\ \A i \in 1..Len(respQ) : respQ[i].stream # s

\* A request is queued once, ...
QueuedOnce(s) == \A i, j \in 1..Len(reqQ) : reqQ[i] = Data(s) /\ reqQ[j] = Data(s) => i = j

\* ... is in one place, and is there before the program answers it.
AskedOnce(s) ==
    /\ pc[s] \in {"start", "checked"} => Data(s) \notin jobs /\ ~Queued(Data(s))
    /\ Data(s) \in jobs => ~Queued(Data(s))
    /\ QueuedOnce(s)
    /\ pc[s] \in {"start", "checked"} \/ Data(s) \in jobs \/ Queued(Data(s)) => Unsent(s)

\* What the program writes first of a response.
First(s) == Head(Append(response[s], End))

\* Of the pieces on their way to a handler that has been offered none, the
\* first is the first of its response.
FirstOnWay(s) ==
    /\ \A i \in 1..Len(respQ) :
         respQ[i].stream = s /\ (\A j \in 1..(i - 1) : respQ[j].stream # s)
           => respQ[i].chunk = First(s)
    /\ (\A i \in 1..Len(respQ) : respQ[i].stream # s) /\ outgoing[s] # <<>>
         => Head(outgoing[s]) = First(s)

Waits(s) == pc[s] = "waiting" /\ s \notin disturbed

\* The program has the request of an undisturbed stream over the connection
\* that it still has.
Connected(s) == Waits(s) /\ (Data(s) \in jobs \/ outgoing[s] # <<>>) => online

IsStart(s, p) == response[s] # <<>> /\ p = [stream |-> s, chunk |-> Head(response[s])]

Offered(s) ==
    Waits(s) => IF respCh[s] = None THEN s \in pending => FirstOnWay(s)
                                    ELSE IsStart(s, respCh[s])

Answered(s) ==
    /\ pc[s] # "done" => status[s] # "data"
    /\ status[s] = "data" /\ s \notin disturbed => IsStart(s, body[s])

StartFacts(s) == AskedOnce(s) /\ Connected(s) /\ Offered(s) /\ Answered(s)

StartInv == TypeOK /\ OnlyWaitingStreams /\ \A s \in Streams : StartFacts(s)

\* Pieces: what the device writes is last, what the broker takes is first.
LEMMA PieceWritten ==
    ASSUME TypeOK, NEW p \in Piece, respQ' = Append(respQ, p)
    PROVE  /\ Len(respQ) \in Nat /\ Len(respQ') = Len(respQ) + 1
           /\ \A i \in 1..Len(respQ) : respQ'[i] = respQ[i]
           /\ respQ'[Len(respQ) + 1] = p
  BY AppendProperties, LenProperties DEF TypeOK

LEMMA PieceTaken ==
    ASSUME TypeOK, respQ # <<>>, respQ' = Tail(respQ)
    PROVE  /\ 1 \in 1..Len(respQ) /\ Head(respQ) = respQ[1] /\ respQ[1] \in Piece
           /\ Len(respQ) \in Nat \ {0} /\ Len(respQ') = Len(respQ) - 1
           /\ \A i \in 1..Len(respQ') : respQ'[i] = respQ[i + 1]
  BY HeadTailProperties, EmptySeq, LenProperties DEF TypeOK

LEMMA FirstChunk ==
    ASSUME TypeOK, NEW s \in Streams
    PROVE  /\ response[s] = <<>> => First(s) = End
           /\ response[s] # <<>> => First(s) = Head(response[s])
  <1>1. response[s] \in Seq(Chunks)
    BY DEF TypeOK
  <1>2. CASE response[s] = <<>>
    BY <1>1, <1>2 DEF First
  <1>3. CASE response[s] # <<>>
    <2>1. /\ Len(response[s]) \in Nat \ {0} /\ Head(response[s]) = response[s][1]
      BY <1>1, <1>3, HeadTailProperties, EmptySeq, LenProperties
    <2> DEFINE r == response[s]
               q == Append(r, End)
    <2>2. Len(q) = Len(r) + 1 /\ q[1] = r[1] /\ q \in Seq(Chunks \cup {End})
      BY <1>1, <2>1, AppendProperties
    <2>3. Head(q) = q[1]
      BY <2>1, <2>2, HeadTailProperties, EmptySeq
    <2> QED
      BY <1>3, <2>1, <2>2, <2>3 DEF First
  <1> QED
    BY <1>2, <1>3

\* A message that is not the request of s leaves its place in the queue.
LEMMA PlaceKept ==
    ASSUME TypeOK, NEW s \in Streams, NEW m \in Msg, m # Data(s),
           UNCHANGED reqQ \/ reqQ' = Append(reqQ, m)
    PROVE  /\ Queued(Data(s))' => Queued(Data(s))
           /\ QueuedOnce(s) => QueuedOnce(s)'
  <1>1. CASE UNCHANGED reqQ
    BY <1>1 DEF Queued, QueuedOnce
  <1>2. CASE reqQ' = Append(reqQ, m)
    <2>1. \A i \in 1..Len(reqQ') : reqQ'[i] = Data(s) => i \in 1..Len(reqQ) /\ reqQ[i] = Data(s)
      BY <1>2, PostEffect
    <2>2. Data(s)' = Data(s)
      BY DEF Data
    <2> QED
      BY <2>1, <2>2 DEF Queued, QueuedOnce
  <1> QED
    BY <1>1, <1>2

\* Steps that do not concern s.
LEMMA StartKept ==
    ASSUME TypeOK, NEW s \in Streams, StartFacts(s),
           pc'[s] = pc[s], status'[s] = status[s], body'[s] = body[s], respCh'[s] = respCh[s],
           response'[s] = response[s], outgoing'[s] = outgoing[s],
           UNCHANGED <<respQ, disturbed>>,
           s \in pending' => s \in pending,
           online => online',
           Data(s) \in jobs' => Data(s) \in jobs,
           Queued(Data(s))' => Queued(Data(s)),
           QueuedOnce(s) => QueuedOnce(s)'
    PROVE  StartFacts(s)'
  <1>1. Data(s)' = Data(s)
    BY DEF Data
  <1>2. Unsent(s) => Unsent(s)'
    BY DEF Unsent
  <1>3. AskedOnce(s)'
    BY <1>1, <1>2 DEF StartFacts, AskedOnce
  <1>4. Connected(s)'
    BY <1>1 DEF StartFacts, Connected, Waits
  <1>5. FirstOnWay(s) => FirstOnWay(s)'
    BY DEF FirstOnWay, First
  <1>6. Offered(s)'
    BY <1>5 DEF StartFacts, Offered, Waits, IsStart
  <1>7. Answered(s)'
    BY DEF StartFacts, Answered, IsStart
  <1> QED
    BY <1>3, <1>4, <1>6, <1>7 DEF StartFacts

LEMMA StartInit == Init => StartInv
  <1> SUFFICES ASSUME Init PROVE StartInv
    OBVIOUS
  <1>1. TypeOK /\ OnlyWaitingStreams
    BY TypeInit DEF Init, OnlyWaitingStreams
  <1>2. Len(reqQ) = 0 /\ Len(respQ) = 0
    BY EmptySeq DEF Init
  <1>3. ASSUME NEW s \in Streams PROVE StartFacts(s)
    <2>1. Unsent(s)
      BY <1>2 DEF Init, Unsent
    <2>2. ~Queued(Data(s)) /\ QueuedOnce(s)
      BY <1>2 DEF Queued, QueuedOnce
    <2> QED
      BY <2>1, <2>2 DEF Init, StartFacts, AskedOnce, Connected, Offered, Answered, Waits
  <1> QED
    BY <1>1, <1>3 DEF StartInv

\* The handler's steps.  One that asks has nothing under way before.
LEMMA StartHandler ==
    ASSUME StartInv, NEW r \in Streams, HandlerStep(r), NEW s \in Streams
    PROVE  StartFacts(s)'
  <1> USE DEF Goto, Reply, link, program, tunnels, history
  <1>1. TypeOK /\ StartFacts(s) /\ OnlyWaitingStreams
    BY DEF StartInv
  <1>2. UNCHANGED <<respQ, disturbed, online, jobs, response, outgoing>>
    BY DEF HandlerStep, Refuse, Check, Ask, TakeResponse, Timeout
  <1>3. CASE r # s
    <2>1. /\ pc'[s] = pc[s] /\ status'[s] = status[s] /\ body'[s] = body[s] /\ respCh'[s] = respCh[s]
          /\ s \in pending' => s \in pending
      BY <1>1, <1>3 DEF HandlerStep, Refuse, Check, Ask, TakeResponse, Timeout, Forget, TypeOK
    <2>2. UNCHANGED reqQ \/ reqQ' = Append(reqQ, Data(r))
      BY DEF HandlerStep, Refuse, Check, Ask, TakeResponse, Timeout
    <2>3. /\ Queued(Data(s))' => Queued(Data(s))
          /\ QueuedOnce(s) => QueuedOnce(s)'
      BY <1>1, <1>3, <2>2, Messages, PlaceKept
    <2>4. Data(s)' = Data(s)
      BY DEF Data
    <2> QED
      BY <1>1, <1>2, <2>1, <2>3, <2>4, StartKept
  <1>4. CASE r = s
    <2>1. Data(s)' = Data(s)
      BY DEF Data
    <2>2. ASSUME Refuse(s) PROVE StartFacts(s)'
      <3>1. /\ pc[s] = "start" /\ pc'[s] = "done" /\ status'[s] # "data"
            /\ UNCHANGED <<reqQ, respCh>>
        BY <1>1, <2>2 DEF Refuse, TypeOK
      <3>2. AskedOnce(s)'
        BY <1>1, <1>2, <2>1, <3>1 DEF StartFacts, AskedOnce, Unsent, Queued, QueuedOnce
      <3> QED
        BY <3>1, <3>2 DEF StartFacts, Connected, Offered, Answered, Waits
    <2>3. ASSUME Check(s) PROVE StartFacts(s)'
      <3>1. /\ pc[s] = "start" /\ pc'[s] = "checked"
            /\ UNCHANGED <<reqQ, respCh, status>>
        BY <1>1, <2>3 DEF Check, TypeOK
      <3>2. AskedOnce(s)'
        BY <1>1, <1>2, <2>1, <3>1 DEF StartFacts, AskedOnce, Unsent, Queued, QueuedOnce
      <3> QED
        BY <1>1, <3>1, <3>2 DEF StartFacts, Connected, Offered, Answered, Waits
    <2>4. ASSUME Ask(s) PROVE StartFacts(s)'
      <3>1. /\ pc[s] = "checked" /\ pc'[s] = "waiting"
            /\ reqQ' = Append(reqQ, Data(s)) /\ UNCHANGED <<respCh, status>>
        BY <1>1, <2>4 DEF Ask, TypeOK
      <3>2. Unsent(s) /\ Data(s) \notin jobs /\ ~Queued(Data(s)) /\ status[s] # "data"
        BY <1>1, <3>1 DEF StartFacts, AskedOnce, Answered
      <3>3. Unsent(s)'
        BY <1>2, <3>1, <3>2 DEF Unsent
      <3>4. QueuedOnce(s)'
        <4>1. \A i \in 1..Len(reqQ') : reqQ'[i] = Data(s) => i = Len(reqQ) + 1
          BY <1>1, <3>1, <3>2, Messages, PostEffect DEF Queued
        <4> QED
          BY <2>1, <4>1 DEF QueuedOnce
      <3>5. AskedOnce(s)'
        BY <1>2, <2>1, <3>1, <3>2, <3>3, <3>4 DEF AskedOnce
      <3>6. Connected(s)' /\ Offered(s)'
        BY <1>2, <2>1, <3>2, <3>3 DEF Connected, Offered, FirstOnWay, Unsent
      <3> QED
        BY <3>1, <3>2, <3>5, <3>6 DEF StartFacts, Answered
    <2>5. ASSUME TakeResponse(s) PROVE StartFacts(s)'
      <3>1. /\ pc[s] = "waiting" /\ pc'[s] = "done" /\ respCh[s] # None /\ body'[s] = respCh[s]
            /\ UNCHANGED reqQ
        BY <1>1, <2>5 DEF TakeResponse, TypeOK
      <3>2. Data(s) \notin jobs /\ ~Queued(Data(s))
        BY <1>1, <3>1 DEF StartFacts, AskedOnce, Unsent
      <3>3. AskedOnce(s)'
        BY <1>1, <1>2, <2>1, <3>1, <3>2 DEF StartFacts, AskedOnce, Queued, QueuedOnce
      <3>4. s \notin disturbed => IsStart(s, body'[s])
        BY <1>1, <3>1 DEF StartFacts, Offered, Waits
      <3>5. Answered(s)'
        BY <1>2, <3>1, <3>4 DEF Answered, IsStart
      <3> QED
        BY <3>1, <3>3, <3>5 DEF StartFacts, Connected, Offered, Waits
    <2>6. ASSUME Timeout(s) PROVE StartFacts(s)'
      <3>1. /\ pc[s] = "waiting" /\ pc'[s] = "done" /\ status'[s] # "data"
            /\ UNCHANGED <<reqQ, respCh>>
        BY <1>1, <2>6 DEF Timeout, TypeOK
      <3>2. AskedOnce(s)'
        BY <1>1, <1>2, <2>1, <3>1 DEF StartFacts, AskedOnce, Unsent, Queued, QueuedOnce
      <3> QED
        BY <3>1, <3>2 DEF StartFacts, Connected, Offered, Answered, Waits
    <2> QED
      BY <1>4, <2>2, <2>3, <2>4, <2>5, <2>6 DEF HandlerStep
  <1> QED
    BY <1>3, <1>4

\* The broker takes a request from its channel: it was there once.
LEMMA StartForward ==
    ASSUME StartInv, ForwardReq, NEW s \in Streams
    PROVE  StartFacts(s)'
  <1> USE DEF server, handler, link, tunnels, history
  <1>1. TypeOK /\ StartFacts(s)
    BY DEF StartInv
  <1>2. /\ reqQ # <<>> /\ reqQ' = Tail(reqQ)
        /\ jobs' = IF online THEN jobs \cup {Head(reqQ)} ELSE jobs
        /\ UNCHANGED <<pc, status, body, respCh, pending, respQ, online, disturbed, response, outgoing>>
    BY DEF ForwardReq
  <1>3. /\ 1 \in 1..Len(reqQ) /\ Head(reqQ) = reqQ[1]
        /\ \A i \in 1..Len(reqQ') : i + 1 \in 1..Len(reqQ) /\ reqQ'[i] = reqQ[i + 1]
    BY <1>1, <1>2, TakeEffect
  <1>4. Data(s)' = Data(s)
    BY DEF Data
  <1>5. Queued(Data(s))' => Queued(Data(s))
    BY <1>3, <1>4 DEF Queued
  <1>6. QueuedOnce(s)'
    <2> SUFFICES ASSUME NEW i \in 1..Len(reqQ'), NEW j \in 1..Len(reqQ'),
                        reqQ'[i] = Data(s), reqQ'[j] = Data(s)
                 PROVE  i = j
      BY <1>4 DEF QueuedOnce
    <2>1. /\ i + 1 \in 1..Len(reqQ) /\ reqQ[i + 1] = Data(s)
          /\ j + 1 \in 1..Len(reqQ) /\ reqQ[j + 1] = Data(s)
      BY <1>3
    <2>2. QueuedOnce(s)
      BY <1>1 DEF StartFacts, AskedOnce
    <2> DEFINE k == i + 1
               l == j + 1
    <2>3. k = l
      <3> HIDE DEF k, l
      <3> QED
        BY <2>1, <2>2 DEF QueuedOnce, k, l
    <2> QED
      BY <2>3
  <1>7. CASE Head(reqQ) # Data(s) \/ ~online
    BY <1>1, <1>2, <1>4, <1>5, <1>6, <1>7, StartKept
  <1>8. CASE Head(reqQ) = Data(s) /\ online
    <2>1. Queued(Data(s)) /\ ~Queued(Data(s))'
      <3>1. ASSUME NEW i \in 1..Len(reqQ'), reqQ'[i] = Data(s) PROVE FALSE
        <4>1. i + 1 = 1
          BY <1>1, <1>3, <1>8, <3>1 DEF StartFacts, AskedOnce, QueuedOnce
        <4> QED
          BY <4>1
      <3> QED
        BY <1>3, <1>4, <1>8, <3>1 DEF Queued
    <2>2. Unsent(s) /\ pc[s] \notin {"start", "checked"}
      BY <1>1, <2>1 DEF StartFacts, AskedOnce
    <2>3. Unsent(s)'
      BY <1>2, <2>2 DEF Unsent
    <2>4. AskedOnce(s)'
      BY <1>2, <1>6, <2>1, <2>2, <2>3 DEF AskedOnce
    <2>5. Connected(s)' /\ Offered(s)'
      BY <1>2, <1>8, <2>3 DEF Connected, Offered, FirstOnWay, Unsent
    <2>6. Answered(s)'
      BY <1>1, <1>2 DEF StartFacts, Answered, IsStart
    <2> QED
      BY <2>4, <2>5, <2>6 DEF StartFacts
  <1> QED
    BY <1>7, <1>8

\* The broker takes a piece: a handler that was offered none is offered the
\* first, and the end takes the stream out of the table.
LEMMA StartDeliver ==
    ASSUME StartInv, HandleResp, NEW s \in Streams
    PROVE  StartFacts(s)'
  <1> USE DEF link, program, tunnels, history
  <1>1. TypeOK /\ StartFacts(s) /\ OnlyWaitingStreams
    BY DEF StartInv
  <1>2. respQ # <<>> /\ respQ' = Tail(respQ)
    BY DEF HandleResp
  <1>3. /\ 1 \in 1..Len(respQ) /\ Head(respQ) = respQ[1] /\ respQ[1] \in Piece
        /\ Len(respQ) \in Nat \ {0} /\ Len(respQ') = Len(respQ) - 1
        /\ \A i \in 1..Len(respQ') : respQ'[i] = respQ[i + 1]
    BY <1>1, <1>2, PieceTaken
  <1>4. \A i \in 1..Len(respQ') : i + 1 \in 1..Len(respQ)
    BY <1>3
  <1> DEFINE p == respQ[1]
  <1>5. /\ UNCHANGED <<pc, status, body, reqQ, disturbed, online, jobs, response, outgoing>>
        /\ s \in pending' => s \in pending /\ (p.stream = s => p.chunk # End)
        /\ respCh'[s] = IF p.chunk # End /\ p.stream = s /\ s \in pending /\ respCh[s] = None
                        THEN p ELSE respCh[s]
    BY <1>1, <1>3 DEF HandleResp, Forget, Receivers, Offer, TypeOK
  <1>6. AskedOnce(s)'
    <2>1. Unsent(s) => Unsent(s)'
      BY <1>3, <1>4, <1>5 DEF Unsent
    <2> QED
      BY <1>1, <1>5, <2>1 DEF StartFacts, AskedOnce, Queued, QueuedOnce, Data
  <1>7. Connected(s)' /\ Answered(s)'
    BY <1>1, <1>5 DEF StartFacts, Connected, Answered, Waits, IsStart, Data
  <1>8. Offered(s)'
    <2> SUFFICES ASSUME Waits(s)
                 PROVE  IF respCh'[s] = None THEN s \in pending' => FirstOnWay(s)'
                                             ELSE IsStart(s, respCh'[s])
      BY <1>5 DEF Offered, Waits, IsStart
    <2>1. CASE respCh[s] # None
      BY <1>1, <1>5, <2>1 DEF StartFacts, Offered
    <2>2. CASE respCh[s] = None /\ p.stream # s
      <3>1. ASSUME s \in pending PROVE FirstOnWay(s)'
        <4>1. FirstOnWay(s) /\ First(s)' = First(s)
          BY <1>1, <1>5, <2>2, <3>1 DEF StartFacts, Offered, First
        <4>2. ASSUME NEW i \in 1..Len(respQ'), respQ'[i].stream = s,
                     \A j \in 1..(i - 1) : respQ'[j].stream # s
              PROVE  respQ'[i].chunk = First(s)
          <5>1. i + 1 \in 1..Len(respQ) /\ respQ[i + 1].stream = s
            BY <1>3, <1>4, <4>2
          <5>2. ASSUME NEW k \in 1..((i + 1) - 1) PROVE respQ[k].stream # s
            <6>1. CASE k = 1
              BY <2>2, <6>1
            <6>2. CASE k # 1
              <7>1. k - 1 \in 1..(i - 1) /\ k - 1 \in 1..Len(respQ') /\ (k - 1) + 1 = k
                BY <1>3, <6>2
              <7> QED
                BY <1>3, <4>2, <7>1
            <6> QED
              BY <6>1, <6>2
          <5> QED
            BY <1>3, <4>1, <5>1, <5>2 DEF FirstOnWay
        <4>3. (\A i \in 1..Len(respQ') : respQ'[i].stream # s) => \A i \in 1..Len(respQ) : respQ[i].stream # s
          <5> SUFFICES ASSUME \A i \in 1..Len(respQ') : respQ'[i].stream # s, NEW i \in 1..Len(respQ)
                       PROVE  respQ[i].stream # s
            OBVIOUS
          <5>1. CASE i = 1
            BY <2>2, <5>1
          <5>2. CASE i # 1
            <6>1. i - 1 \in 1..Len(respQ') /\ (i - 1) + 1 = i
              BY <1>3, <5>2
            <6> QED
              BY <1>3, <6>1
          <5> QED
            BY <5>1, <5>2
        <4> QED
          BY <1>5, <4>1, <4>2, <4>3 DEF FirstOnWay
      <3> QED
        BY <1>5, <2>2, <3>1
    <2>3. CASE respCh[s] = None /\ p.stream = s /\ s \in pending
      <3>1. p.chunk = First(s)
        BY <1>1, <1>3, <2>3 DEF StartFacts, Offered, FirstOnWay
      <3>2. CASE p.chunk = End
        BY <1>5, <2>3, <3>2
      <3>3. CASE p.chunk # End
        <4>1. response[s] # <<>> /\ p.chunk = Head(response[s])
          BY <1>1, <3>1, <3>3, FirstChunk
        <4>2. p = [stream |-> s, chunk |-> Head(response[s])]
          BY <1>3, <2>3, <4>1 DEF Piece
        <4>3. respCh'[s] = p /\ p # None
          BY <1>3, <1>5, <2>3, <3>3, TokenProxyAssumption
        <4> QED
          BY <4>1, <4>2, <4>3 DEF IsStart
      <3> QED
        BY <3>2, <3>3
    <2>4. CASE respCh[s] = None /\ s \notin pending
      BY <1>5, <2>4
    <2> QED
      BY <2>1, <2>2, <2>3, <2>4
  <1> QED
    BY <1>6, <1>7, <1>8 DEF StartFacts

\* A tunnel's messages are none of a request.
LEMMA StartTunnel ==
    ASSUME StartInv, NEW t \in Tunnels, TunnelStep(t), NEW s \in Streams
    PROVE  StartFacts(s)'
  <1> USE DEF handler, link, program, Post, tunnels, history
  <1>1. TypeOK /\ StartFacts(s)
    BY DEF StartInv
  <1>2. UNCHANGED <<handler, respQ, link, program>>
    BY DEF TunnelStep, InsertTunnel, AnnounceTunnel, DeleteTunnel, Expire, CleanTunnel
  <1>3. UNCHANGED reqQ \/ reqQ' = Append(reqQ, Create(t)) \/ reqQ' = Append(reqQ, Revoke(t))
    BY DEF TunnelStep, InsertTunnel, AnnounceTunnel, DeleteTunnel, Expire, CleanTunnel
  <1>4. /\ Create(t) \in Msg /\ Create(t) # Data(s)
        /\ Revoke(t) \in Msg /\ Revoke(t) # Data(s)
    BY Messages
  <1>5. /\ Queued(Data(s))' => Queued(Data(s))
        /\ QueuedOnce(s) => QueuedOnce(s)'
    BY <1>1, <1>3, <1>4, PlaceKept
  <1>6. Data(s)' = Data(s)
    BY DEF Data
  <1> QED
    BY <1>1, <1>2, <1>5, <1>6, StartKept

\* The program begins with a request: nothing of its response is under way,
\* and all of it is to be written.
LEMMA StartRequest ==
    ASSUME StartInv, NEW r \in Streams, ProxyRequest(r), NEW s \in Streams
    PROVE  StartFacts(s)'
  <1> USE DEF handler, server, link, tunnels, history
  <1>1. TypeOK /\ StartFacts(s)
    BY DEF StartInv
  <1>2. PICK q \in Responses :
            /\ Data(r) \in jobs /\ jobs' = jobs \ {Data(r)}
            /\ response' = [response EXCEPT ![r] = q]
            /\ outgoing' = [outgoing EXCEPT ![r] = Append(q, End)]
            /\ UNCHANGED <<pc, status, body, respCh, pending, reqQ, respQ, online, disturbed>>
    BY DEF ProxyRequest
  <1>3. Data(s)' = Data(s)
    BY DEF Data
  <1>4. CASE r # s
    <2>1. response'[s] = response[s] /\ outgoing'[s] = outgoing[s]
      BY <1>1, <1>2, <1>4 DEF TypeOK
    <2>2. (Queued(Data(s))' => Queued(Data(s))) /\ (QueuedOnce(s) => QueuedOnce(s)')
      BY <1>2, <1>3 DEF Queued, QueuedOnce
    <2> QED
      BY <1>1, <1>2, <1>3, <2>1, <2>2, StartKept
  <1>5. CASE r = s
    <2>1. /\ Unsent(s) /\ ~Queued(Data(s)) /\ QueuedOnce(s)
          /\ pc[s] \notin {"start", "checked"}
      BY <1>1, <1>2, <1>5 DEF StartFacts, AskedOnce
    <2>2. /\ response'[s] = q /\ outgoing'[s] = Append(response'[s], End)
          /\ Data(s) \notin jobs'
      BY <1>1, <1>2, <1>5 DEF TypeOK
    <2>3. AskedOnce(s)'
      BY <1>2, <1>3, <2>1, <2>2 DEF AskedOnce, Queued, QueuedOnce
    <2>4. Connected(s)'
      BY <1>1, <1>2, <1>5 DEF StartFacts, Connected, Waits
    <2>5. Offered(s)'
      <3>1. FirstOnWay(s)'
        BY <1>2, <2>1, <2>2 DEF FirstOnWay, First, Unsent
      <3> QED
        BY <1>2, <2>1, <3>1 DEF Offered, Unsent
    <2>6. Answered(s)'
      BY <1>1, <1>2, <2>1 DEF StartFacts, Answered, IsStart, Unsent
    <2> QED
      BY <2>3, <2>4, <2>5, <2>6 DEF StartFacts
  <1> QED
    BY <1>4, <1>5

\* A piece of another stream leaves the first of s where it is.
LEMMA OthersPiece ==
    ASSUME TypeOK, NEW s \in Streams, NEW p \in Piece, p.stream # s, FirstOnWay(s),
           respQ' = Append(respQ, p),
           response'[s] = response[s], outgoing'[s] = outgoing[s]
    PROVE  FirstOnWay(s)'
  <1>1. /\ Len(respQ) \in Nat /\ Len(respQ') = Len(respQ) + 1
        /\ \A i \in 1..Len(respQ) : respQ'[i] = respQ[i]
        /\ respQ'[Len(respQ) + 1] = p
    BY PieceWritten
  <1>2. First(s)' = First(s)
    BY DEF First
  <1>3. ASSUME NEW i \in 1..Len(respQ'), respQ'[i].stream = s,
               \A j \in 1..(i - 1) : respQ'[j].stream # s
        PROVE  respQ'[i].chunk = First(s)
    <2>1. i # Len(respQ) + 1
      BY <1>1, <1>3
    <2>2. i \in 1..Len(respQ) /\ \A j \in 1..(i - 1) : j \in 1..Len(respQ)
      BY <1>1, <2>1
    <2>3. respQ[i].stream = s /\ \A j \in 1..(i - 1) : respQ[j].stream # s
      BY <1>1, <1>3, <2>2
    <2> QED
      BY <1>1, <2>2, <2>3 DEF FirstOnWay
  <1>4. (\A i \in 1..Len(respQ') : respQ'[i].stream # s) => \A i \in 1..Len(respQ) : respQ[i].stream # s
    <2>1. \A i \in 1..Len(respQ) : i \in 1..Len(respQ')
      BY <1>1
    <2> QED
      BY <1>1, <2>1
  <1> QED
    BY <1>2, <1>3, <1>4 DEF FirstOnWay

\* What is written first of a response is its first piece.
LEMMA OwnPiece ==
    ASSUME TypeOK, NEW s \in Streams, outgoing[s] # <<>>, FirstOnWay(s),
           respQ' = Append(respQ, [stream |-> s, chunk |-> Head(outgoing[s])]),
           response'[s] = response[s]
    PROVE  FirstOnWay(s)'
  <1> DEFINE p == [stream |-> s, chunk |-> Head(outgoing[s])]
  <1>1. p \in Piece
    <2>1. outgoing[s] \in Seq(Chunks \cup {End})
      BY DEF TypeOK
    <2>2. Head(outgoing[s]) \in Chunks \cup {End}
      BY <2>1, TailInSeq
    <2> QED
      BY <2>2 DEF Piece
  <1>2. /\ Len(respQ) \in Nat /\ Len(respQ') = Len(respQ) + 1
        /\ \A i \in 1..Len(respQ) : respQ'[i] = respQ[i]
        /\ respQ'[Len(respQ) + 1] = p
    BY <1>1, PieceWritten
  <1>3. First(s)' = First(s)
    BY DEF First
  <1>4. ASSUME NEW i \in 1..Len(respQ'), respQ'[i].stream = s,
               \A j \in 1..(i - 1) : respQ'[j].stream # s
        PROVE  respQ'[i].chunk = First(s)
    <2>1. CASE i = Len(respQ) + 1
      <3>1. \A j \in 1..Len(respQ) : j \in 1..(i - 1)
        BY <1>2, <2>1
      <3>2. \A j \in 1..Len(respQ) : respQ[j].stream # s
        BY <1>2, <1>4, <3>1
      <3> QED
        BY <1>2, <2>1, <3>2 DEF FirstOnWay
    <2>2. CASE i # Len(respQ) + 1
      <3>1. i \in 1..Len(respQ) /\ \A j \in 1..(i - 1) : j \in 1..Len(respQ)
        BY <1>2, <2>2
      <3>2. respQ[i].stream = s /\ \A j \in 1..(i - 1) : respQ[j].stream # s
        BY <1>2, <1>4, <3>1
      <3> QED
        BY <1>2, <3>1, <3>2 DEF FirstOnWay
    <2> QED
      BY <2>1, <2>2
  <1>5. \E i \in 1..Len(respQ') : respQ'[i].stream = s
    <2>1. Len(respQ) + 1 \in 1..Len(respQ')
      BY <1>2
    <2> QED
      BY <1>2, <2>1
  <1> QED
    BY <1>3, <1>4, <1>5 DEF FirstOnWay

\* The program writes a piece.
LEMMA StartWrite ==
    ASSUME StartInv, NEW r \in Streams, WriteChunk(r), NEW s \in Streams
    PROVE  StartFacts(s)'
  <1> USE DEF handler, server, link, tunnels, history
  <1>1. TypeOK /\ StartFacts(s)
    BY DEF StartInv
  <1> DEFINE p == [stream |-> r, chunk |-> Head(outgoing[r])]
  <1>2. /\ outgoing[r] # <<>>
        /\ respQ' = IF online THEN Append(respQ, p) ELSE respQ
        /\ UNCHANGED <<pc, status, body, respCh, pending, reqQ, online, disturbed, jobs, response>>
    BY DEF WriteChunk
  <1>3. p \in Piece /\ p.stream = r
    <2>1. outgoing[r] \in Seq(Chunks \cup {End})
      BY <1>1 DEF TypeOK
    <2>2. Head(outgoing[r]) \in Chunks \cup {End}
      BY <1>2, <2>1, TailInSeq
    <2> QED
      BY <2>2 DEF Piece
  <1>4. Data(s)' = Data(s)
    BY DEF Data
  <1>5. (Queued(Data(s))' <=> Queued(Data(s))) /\ (QueuedOnce(s) => QueuedOnce(s)')
    BY <1>2, <1>4 DEF Queued, QueuedOnce
  <1>6. Answered(s)'
    BY <1>1, <1>2 DEF StartFacts, Answered, IsStart
  <1>7. CASE r # s
    <2>1. outgoing'[s] = outgoing[s]
      BY <1>1, <1>7 DEF WriteChunk, TypeOK
    <2>2. CASE respQ' = respQ
      BY <1>1, <1>2, <1>4, <1>5, <2>1, <2>2, StartKept
    <2>3. CASE respQ' = Append(respQ, p)
      <3>1. Unsent(s) => Unsent(s)'
        <4>1. /\ Len(respQ) \in Nat /\ Len(respQ') = Len(respQ) + 1
              /\ \A i \in 1..Len(respQ) : respQ'[i] = respQ[i]
              /\ respQ'[Len(respQ) + 1] = p
          BY <1>1, <1>3, <2>3, PieceWritten
        <4>2. \A i \in 1..Len(respQ') : i \in 1..Len(respQ) \/ i = Len(respQ) + 1
          BY <4>1
        <4>3. (\A i \in 1..Len(respQ) : respQ[i].stream # s) => \A i \in 1..Len(respQ') : respQ'[i].stream # s
          BY <1>3, <1>7, <4>1, <4>2
        <4> QED
          BY <1>2, <2>1, <4>3 DEF Unsent
      <3>2. AskedOnce(s)'
        BY <1>1, <1>2, <1>4, <1>5, <3>1 DEF StartFacts, AskedOnce
      <3>3. Connected(s)'
        BY <1>1, <1>2, <1>4, <2>1 DEF StartFacts, Connected, Waits
      <3>4. FirstOnWay(s) => FirstOnWay(s)'
        BY <1>1, <1>2, <1>3, <1>7, <2>1, <2>3, OthersPiece
      <3>5. Offered(s)'
        BY <1>1, <1>2, <3>4 DEF StartFacts, Offered, Waits, IsStart
      <3> QED
        BY <1>6, <3>2, <3>3, <3>5 DEF StartFacts
    <2> QED
      BY <1>2, <2>2, <2>3
  <1>8. CASE r = s
    <2>1. /\ pc[s] \notin {"start", "checked"} /\ Data(s) \notin jobs
          /\ ~Queued(Data(s)) /\ QueuedOnce(s)
      BY <1>1, <1>2, <1>8 DEF StartFacts, AskedOnce, Unsent
    <2>2. AskedOnce(s)'
      BY <1>2, <1>4, <1>5, <2>1 DEF AskedOnce
    <2>3. Waits(s) => online
      BY <1>1, <1>2, <1>8 DEF StartFacts, Connected
    <2>4. Connected(s)'
      BY <1>2, <2>3 DEF Connected, Waits
    <2>5. online /\ FirstOnWay(s) => FirstOnWay(s)'
      BY <1>1, <1>2, <1>8, OwnPiece
    <2>6. Offered(s)'
      BY <1>1, <1>2, <2>3, <2>5 DEF StartFacts, Offered, Waits, IsStart
    <2> QED
      BY <1>6, <2>2, <2>4, <2>6 DEF StartFacts
  <1> QED
    BY <1>7, <1>8

LEMMA StartProgram ==
    ASSUME StartInv, ProgramStep, NEW s \in Streams
    PROVE  StartFacts(s)'
  <1>1. ASSUME NEW t \in Tunnels, LearnTarget(t) \/ ForgetTarget(t) PROVE StartFacts(s)'
    <2>1. /\ jobs' \subseteq jobs
          /\ UNCHANGED <<pc, status, body, respCh, pending, reqQ, respQ, online, disturbed, response, outgoing>>
      BY <1>1 DEF LearnTarget, ForgetTarget, server, handler, link, tunnels, history
    <2>2. /\ Data(s)' = Data(s) /\ (Queued(Data(s))' => Queued(Data(s)))
          /\ (QueuedOnce(s) => QueuedOnce(s)')
      BY <2>1 DEF Data, Queued, QueuedOnce
    <2> QED
      BY <2>1, <2>2, StartKept DEF StartInv
  <1> QED
    BY <1>1, StartRequest, StartWrite DEF ProgramStep

\* The connection: what is lost with it is owed to disturbed streams only.
LEMMA StartLink ==
    ASSUME StartInv, LinkStep, NEW s \in Streams
    PROVE  StartFacts(s)'
  <1> USE DEF handler, server, program, tunnels, history
  <1>1. TypeOK /\ StartFacts(s)
    BY DEF StartInv
  <1>2. UNCHANGED <<pc, status, body, respCh, pending, reqQ, response>>
    BY DEF LinkStep, LoseConnection, RestartProgram, Reconnect
  <1>3. Data(s)' = Data(s)
    BY DEF Data
  <1>4. (Queued(Data(s))' <=> Queued(Data(s))) /\ (QueuedOnce(s) => QueuedOnce(s)')
    BY <1>2, <1>3 DEF Queued, QueuedOnce
  <1>5. CASE Reconnect
    BY <1>1, <1>2, <1>3, <1>4, <1>5, StartKept DEF Reconnect, link, tunnels, history
  <1>6. CASE LoseConnection \/ RestartProgram
    <2>1. /\ jobs' \subseteq jobs /\ outgoing'[s] \in {outgoing[s], <<>>}
          /\ disturbed' = disturbed \cup UnderWay
      BY <1>6 DEF LoseConnection, RestartProgram
    <2>2. \A i \in 1..Len(respQ') : i \in 1..Len(respQ) /\ respQ'[i] = respQ[i]
      <3>1. CASE LoseConnection
        <4>1. PICK n \in 0..Len(respQ) : respQ' = SubSeq(respQ, 1, n)
          BY <3>1 DEF LoseConnection
        <4>2. Len(respQ) \in Nat
          BY <1>1, LenProperties DEF TypeOK
        <4>3. \A i \in 1..n : i \in 1..Len(respQ) /\ respQ[i] \in Piece
          BY <1>1, <4>2, ElementOfSeq DEF TypeOK
        <4>4. Len(respQ') = n /\ \A i \in 1..n : respQ'[i] = respQ[i]
          BY <4>1, <4>2, <4>3, SubSeqProperties
        <4> QED
          BY <4>3, <4>4
      <3>2. CASE RestartProgram
        BY <3>2 DEF RestartProgram
      <3> QED
        BY <1>6, <3>1, <3>2
    <2>3. Unsent(s) => Unsent(s)'
      BY <1>2, <2>1, <2>2 DEF Unsent
    <2>4. AskedOnce(s)'
      BY <1>1, <1>2, <1>3, <1>4, <2>1, <2>3 DEF StartFacts, AskedOnce
    <2>5. ~Waits(s)'
      BY <1>2, <2>1 DEF Waits, UnderWay
    <2>6. Answered(s)'
      BY <1>1, <1>2, <2>1 DEF StartFacts, Answered, IsStart
    <2> QED
      BY <2>4, <2>5, <2>6 DEF StartFacts, Connected, Offered
  <1> QED
    BY <1>5, <1>6 DEF LinkStep

LEMMA StartNext == StartInv /\ [Next]_vars => StartInv'
  <1> SUFFICES ASSUME StartInv, [Next]_vars PROVE StartInv'
    OBVIOUS
  <1>1. TypeOK' /\ OnlyWaitingStreams'
    BY TypeNext, WaitingNext DEF StartInv, WaitingInv
  <1>2. ASSUME NEW s \in Streams PROVE StartFacts(s)'
    <2>1. CASE UNCHANGED vars
      <3>1. UNCHANGED <<pc, status, body, respCh, pending, reqQ, respQ, online, disturbed, jobs,
                        response, outgoing>>
        BY <2>1 DEF vars, server, handler, link, program, tunnels, history
      <3>2. /\ Data(s)' = Data(s) /\ (Queued(Data(s))' => Queued(Data(s)))
            /\ (QueuedOnce(s) => QueuedOnce(s)')
        BY <3>1 DEF Data, Queued, QueuedOnce
      <3> QED
        BY <3>1, <3>2, StartKept DEF StartInv
    <2> QED
      BY <2>1, StartHandler, StartForward, StartDeliver, StartTunnel, StartProgram, StartLink
      DEF Next
  <1> QED
    BY <1>1, <1>2 DEF StartInv

\* The reply is the start of the request's own response, as long as the
\* connection was not lost meanwhile: a chunk is dropped only behind one that
\* the handler was offered, and the queue keeps the order of a stream.
THEOREM RepliesStart == Spec => []ReplyStartsResponse
  <1>1. StartInv => ReplyStartsResponse
    BY DEF StartInv, StartFacts, Answered, IsStart, ReplyStartsResponse
  <1> QED
    BY <1>1, StartInit, StartNext, PTL DEF Spec
=============================================================================
