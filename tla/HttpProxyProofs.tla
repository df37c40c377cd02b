-------------------------- MODULE HttpProxyProofs --------------------------
(* Theorems about HttpProxy, for any sets of connections and addresses and *)
(* any bounds: type correctness, that the entry of a connection whose      *)
(* address is its own lasts as long as it, and that such a connection      *)
(* receives answers to its own messages only, each in order.               *)
EXTENDS HttpProxy, SequenceTheorems, FunctionTheorems, FiniteSetTheorems, TLAPS

\* What a channel's receiver takes, and what it leaves, are of the channel's type.
LEMMA TailInSeq ==
    ASSUME NEW S, NEW q \in Seq(S), q # <<>>
    PROVE  Head(q) \in S /\ Tail(q) \in Seq(S)
  BY HeadTailProperties

\* A send keeps a channel's type.
LEMMA AppendInSeq ==
    ASSUME NEW S, NEW q \in Seq(S), NEW e \in S
    PROVE  Append(q, e) \in Seq(S)
  BY AppendProperties

-----------------------------------------------------------------------------
(* The invariants.                                                         *)

\* A connection has an address from the start, and posts when it is served.
Addressed == \A c \in Conns : addr[c] = None <=> pc[c] = "idle"
Quiet == \A c \in Conns : pc[c] \in {"idle", "accepted", "stored"} => posted[c] = 0
Posted(j) == j.num <= posted[j.conn]

TypeInv == TypeOK /\ Addressed /\ Quiet /\ \A j \in jobs : Posted(j)

\* Where a connection is, and which of its goroutines runs.
Roles(c) ==
    /\ watcher[c] # "none" => c \in WebConns /\ pc[c] \in {"serving", "done"}
    /\ c \in WebConns /\ pc[c] = "serving" => watcher[c] # "none"
    /\ pc[c] = "stored" => c \in WebConns
    /\ pc[c] = "leaving" => c \in PortConns
    /\ c \in open => pc[c] \notin {"idle", "done"}

\* An entry is of a connection of that address that is served, or has its
\* watcher still, or was left behind.
Entered(c) ==
    \A a \in Addrs : cons[a] = c =>
        /\ addr[c] = a
        /\ pc[c] \in {"stored", "serving", "done"}
        /\ watcher[c] # "ended"
        /\ pc[c] = "done" => watcher[c] \in {"waits", "deletes"} \/ session = "gone"

\* Of two that have an address at the same time each knows.
Apart ==
    \A c, d \in Conns :
        c # d /\ addr[c] # None /\ addr[c] = addr[d] /\ UnderWay(c) /\ UnderWay(d)
            => c \in shared /\ d \in shared

EntryStays(c) ==
    c \notin shared /\ pc[c] \in {"stored", "serving"} /\ watcher[c] \in {"none", "waits"}
        => cons[addr[c]] = c

EntryInv ==
    /\ TypeInv
    /\ \A c \in Conns : Roles(c) /\ Entered(c) /\ EntryStays(c)
    /\ Apart
    /\ \A i \in 1..Len(respQ) :
         Posted(respQ[i].job) /\ respQ[i].addr = addr[respQ[i].job.conn]

\* The pieces of an answer: the error comes after the chunks, the end last.
Rank(chunk) == IF chunk = End THEN Error + 1 ELSE chunk

QueueRises ==
    \A k, i \in 1..Len(respQ) : k < i /\ respQ[k].job = respQ[i].job
        => Rank(respQ[k].chunk) < Rank(respQ[i].chunk)

ReceivedRises ==
    \A c \in Conns : \A k, i \in 1..Len(received[c]) :
        k < i /\ received[c][k].job = received[c][i].job
            => received[c][k].chunk < received[c][i].chunk

ReceivedBefore ==
    \A c \in Conns : \A k \in 1..Len(received[c]), i \in 1..Len(respQ) :
        received[c][k].job = respQ[i].job => received[c][k].chunk < Rank(respQ[i].chunk)

\* What has been written of an answer that is still being written.
Reached(j) == IF j \in failed THEN Error ELSE written[j]
WrittenSoFar ==
    \A j \in jobs :
        /\ \A i \in 1..Len(respQ) : respQ[i].job = j => Rank(respQ[i].chunk) <= Reached(j)
        /\ \A c \in Conns : \A k \in 1..Len(received[c]) :
             received[c][k].job = j => received[c][k].chunk <= Reached(j)

ReceivedPosted ==
    \A c \in Conns : \A k \in 1..Len(received[c]) :
        Posted(received[c][k].job) /\ received[c][k].chunk # End

UnwrittenRest == \A j \in Jobs \ jobs : written[j] = 0

Order ==
    QueueRises /\ ReceivedRises /\ ReceivedBefore /\ WrittenSoFar /\ ReceivedPosted /\ UnwrittenRest

\* Unless a chunk of the answer is lost, what has not been received is on its
\* way, as long as the connection can receive it.
Intact(c) == c \notin shared /\ c \in open /\ cons[addr[c]] = c

Received(c, j, n, l) ==
    \E k \in 1..l : received[c][k].job = j /\ received[c][k].chunk = n
Ahead(j, n, l) == \E k \in 1..l : respQ[k].job = j /\ respQ[k].chunk = n
Comes(c, j, n, l) == Received(c, j, n, Len(received[c])) \/ Ahead(j, n, l)

QueueWhole(c) ==
    \A i \in 1..Len(respQ) :
        respQ[i].job.conn = c /\ respQ[i].job \notin holed /\ respQ[i].chunk # Error =>
        \A n \in 1..(respQ[i].chunk - 1) : Comes(c, respQ[i].job, n, i - 1)
WrittenWhole(c) ==
    \A j \in jobs : j.conn = c /\ j \notin holed =>
        \A n \in 1..written[j] : Comes(c, j, n, Len(respQ))

\* What has been received is of its own messages and has no gap, unless a
\* chunk of the answer is lost.
OwnWhole(c) ==
    \A i \in 1..Len(received[c]) : LET r == received[c][i] IN
        /\ r.job.conn = c
        /\ r.job \notin holed /\ r.chunk # Error =>
             \A n \in 1..(r.chunk - 1) : Received(c, r.job, n, i - 1)

AnswerInv ==
    /\ EntryInv
    /\ Order
    /\ \A c \in Conns : Intact(c) => QueueWhole(c) /\ WrittenWhole(c)
    /\ \A c \in Conns \ shared : OwnWhole(c)

-----------------------------------------------------------------------------
(* Types.                                                                  *)

LEMMA TypeInit == Init => TypeInv
  <1> SUFFICES ASSUME Init PROVE TypeInv
    OBVIOUS
  <1>1. TypeOK
    BY HttpProxyAssumption, EmptySeq DEF Init, TypeOK
  <1> QED
    BY <1>1 DEF Init, TypeInv, Addressed, Quiet

\* Steps that neither send nor receive.
LEMMA TypeConns ==
    ASSUME TypeInv, NEW c \in Conns, UNCHANGED <<device, posted, received, holed>>,
           \/ \E a \in Addrs : Connect(c, a)
           \/ Refuse(c) \/ Web(c) \/ PortServe(c) \/ Leaves(c)
    PROVE  TypeOK' /\ Addressed' /\ Quiet'
  <1> USE DEF TypeInv, TypeOK, Addressed, Quiet, Goto, Stored, Removed, device, history
  <1>1. ASSUME NEW a \in Addrs, Connect(c, a) PROVE TypeOK' /\ Addressed' /\ Quiet'
    <2>1. /\ pc' = [pc EXCEPT ![c] = "accepted"] /\ pc[c] = "idle"
          /\ addr' = [addr EXCEPT ![c] = a] /\ a # None
          /\ open' = open \cup {c}
          /\ UNCHANGED <<watcher, exited, cons, session, posted, device, received, holed>>
      BY <1>1, HttpProxyAssumption DEF Connect
    <2>2. shared' \subseteq Conns
      BY <1>1 DEF Connect, SameAddr
    <2> QED
      BY <2>1, <2>2
  <1>2. CASE Refuse(c)
    BY <1>2 DEF Refuse
  <1>3. CASE Web(c)
    BY <1>3 DEF Web, WebStore, WebServe, Watcher, WatcherWakes, WatcherDeletes, Watch
  <1>4. CASE PortServe(c)
    BY <1>4 DEF PortServe
  <1>5. CASE Leaves(c)
    BY <1>5 DEF Leaves, WebLeaves, PortLeaves, PortCloses, PortEntry
  <1> QED
    BY <1>1, <1>2, <1>3, <1>4, <1>5

\* The steps of the connections do not touch messages and answers, except that
\* one posts.
LEMMA ConnsOnly ==
    ASSUME NEW c \in Conns,
           \/ \E a \in Addrs : Connect(c, a)
           \/ Refuse(c) \/ Web(c) \/ PortServe(c) \/ Leaves(c)
    PROVE  UNCHANGED <<posted, jobs, written, failed, respQ, received, holed>>
  BY DEF Connect, Refuse, Web, WebStore, WebServe, Watcher, WatcherWakes, WatcherDeletes,
      PortServe, Leaves, WebLeaves, PortLeaves, PortCloses, device, history

\* What is written: a piece for the connection's address.
LEMMA WritesType ==
    ASSUME TypeInv, NEW j \in jobs, NEW chunk \in 0..Error, Writes(j, chunk)
    PROVE  respQ' \in Seq([addr : Addrs, job : Jobs, chunk : 0..Error])
  <1>1. j \in Jobs /\ j.conn \in Conns /\ j.num \in Nat \ {0}
    BY HttpProxyAssumption DEF TypeInv, TypeOK, Jobs
  <1>2. posted[j.conn] # 0
    BY <1>1 DEF TypeInv, Posted, TypeOK
  <1>3. addr[j.conn] \in Addrs
    BY <1>1, <1>2 DEF TypeInv, Quiet, Addressed, TypeOK
  <1> QED
    BY <1>1, <1>3, AppendInSeq DEF Writes, TypeInv, TypeOK

\* The device program.
LEMMA TypeWrite ==
    ASSUME TypeInv, NEW j \in Jobs, WriteChunk(j) \/ WriteError(j) \/ WriteEnd(j)
    PROVE  TypeOK'
  <1>1. MaxChunks \in Nat /\ Error \in 0..Error /\ End \in 0..Error
    BY HttpProxyAssumption DEF Error, End
  <1> USE DEF TypeInv, TypeOK, handler, history
  <1>2. CASE WriteChunk(j)
    <2>1. /\ j \in jobs /\ Writes(j, written[j] + 1) /\ written[j] < MaxChunks
          /\ written' = [written EXCEPT ![j] = @ + 1]
          /\ UNCHANGED <<handler, cons, session, posted, jobs, failed, received, history>>
      BY <1>2 DEF WriteChunk
    <2>2. written[j] + 1 \in 0..MaxChunks /\ written[j] + 1 \in 0..Error
      BY <1>1, <2>1 DEF Error
    <2>3. respQ' \in Seq([addr : Addrs, job : Jobs, chunk : 0..Error])
      BY <2>1, <2>2, WritesType
    <2>4. written' \in [Jobs -> 0..MaxChunks]
      BY <2>1, <2>2
    <2> QED
      BY <2>1, <2>3, <2>4
  <1>3. CASE WriteError(j)
    <2>1. /\ j \in jobs /\ Writes(j, Error) /\ failed' = failed \cup {j}
          /\ UNCHANGED <<handler, cons, session, posted, jobs, written, received, history>>
      BY <1>3 DEF WriteError
    <2>2. respQ' \in Seq([addr : Addrs, job : Jobs, chunk : 0..Error])
      BY <1>1, <2>1, WritesType
    <2> QED
      BY <2>1, <2>2
  <1>4. CASE WriteEnd(j)
    <2>1. /\ j \in jobs /\ Writes(j, End) /\ jobs' = jobs \ {j} /\ failed' = failed \ {j}
          /\ written' = [written EXCEPT ![j] = 0]
          /\ UNCHANGED <<handler, cons, session, posted, received, history>>
      BY <1>4 DEF WriteEnd
    <2>2. respQ' \in Seq([addr : Addrs, job : Jobs, chunk : 0..Error])
      BY <1>1, <2>1, WritesType
    <2>3. written' \in [Jobs -> 0..MaxChunks]
      BY <1>1, <2>1
    <2> QED
      BY <2>1, <2>2, <2>3
  <1> QED
    BY <1>2, <1>3, <1>4

\* The broker.
LEMMA TypeResp ==
    ASSUME TypeInv, HandleResp
    PROVE  TypeOK'
  <1> USE DEF TypeInv, TypeOK
  <1> DEFINE m == Head(respQ)
  <1>1. /\ respQ # <<>> /\ respQ' = Tail(respQ)
        /\ UNCHANGED <<pc, addr, watcher, exited, cons, session, posted, jobs, written, failed, shared>>
    BY DEF HandleResp
  <1>2. /\ m \in [addr : Addrs, job : Jobs, chunk : 0..Error]
        /\ respQ' \in Seq([addr : Addrs, job : Jobs, chunk : 0..Error])
    BY <1>1, TailInSeq
  <1>3. /\ open' \subseteq Conns /\ received' \in [Conns -> Seq([job : Jobs, chunk : 0..Error])]
        /\ holed' \subseteq Jobs
    <2>1. CASE Closes(m) \/ Swallows(m)
      BY <1>2, <2>1 DEF Closes, Swallows
    <2>2. CASE Delivers(m)
      <3>1. /\ UNCHANGED <<open, holed>>
            /\ received' = [c \in Conns |->
                 IF c \in Receivers(m) \cap open
                 THEN Append(received[c], [job |-> m.job, chunk |-> m.chunk])
                 ELSE received[c]]
        BY <2>2 DEF Delivers
      <3>2. [job |-> m.job, chunk |-> m.chunk] \in [job : Jobs, chunk : 0..Error]
        BY <1>2
      <3> QED
        BY <3>1, <3>2, AppendInSeq
    <2> QED
      BY <2>1, <2>2 DEF HandleResp
  <1> QED
    BY <1>1, <1>2, <1>3

\* What the device program is left with when it takes a message for something
\* else, or loses its connection: the messages that it has begun, and the first
\* pieces of the queue.
LEMMA Prefix ==
    ASSUME TypeInv, NEW n \in 0..Len(respQ), respQ' = SubSeq(respQ, 1, n)
    PROVE  /\ respQ' \in Seq([addr : Addrs, job : Jobs, chunk : 0..Error])
           /\ Len(respQ) \in Nat /\ Len(respQ') = n
           /\ \A i \in 1..n : i \in 1..Len(respQ) /\ respQ'[i] = respQ[i]
  <1>1. respQ \in Seq([addr : Addrs, job : Jobs, chunk : 0..Error]) /\ Len(respQ) \in Nat
    BY LenProperties DEF TypeInv, TypeOK
  <1>2. n \in Nat /\ n <= Len(respQ) /\ \A i \in 1..n : i \in 1..Len(respQ)
    BY <1>1
  <1> DEFINE Type == [addr : Addrs, job : Jobs, chunk : 0..Error]
  <1>3. \A i \in 1..n : respQ[i] \in Type
    BY <1>1, <1>2, ElementOfSeq
  <1> HIDE DEF Type
  <1>4. /\ SubSeq(respQ, 1, n) \in Seq(Type)
        /\ Len(SubSeq(respQ, 1, n)) = IF 1 <= n THEN n - 1 + 1 ELSE 0
        /\ \A i \in 1..(n - 1 + 1) : SubSeq(respQ, 1, n)[i] = respQ[1 + i - 1]
    <2>1. n \in Int /\ 1 \in Int
      BY <1>2
    <2> QED
      BY <1>3, <2>1, SubSeqProperties
  <1>5. Len(respQ') = n /\ \A i \in 1..n : i \in 1..(n - 1 + 1) /\ 1 + i - 1 = i
    BY <1>2, <1>4
  <1> QED
    BY <1>1, <1>2, <1>4, <1>5 DEF Type

LEMMA Dropped ==
    ASSUME TypeInv, LoseConnection \/ \E j \in Jobs : TakenForTunnel(j)
    PROVE  \E n \in 0..Len(respQ) :
             /\ respQ' \in Seq([addr : Addrs, job : Jobs, chunk : 0..Error])
             /\ Len(respQ) \in Nat /\ Len(respQ') = n
             /\ \A i \in 1..n : i \in 1..Len(respQ) /\ respQ'[i] = respQ[i]
             /\ \A i \in 1..Len(respQ) :
                  respQ[i].chunk \in 1..MaxChunks => i \in 1..n \/ respQ[i].job \in holed'
             /\ holed \subseteq holed' /\ holed' \subseteq Jobs
             /\ jobs' \subseteq jobs /\ failed' \subseteq jobs' /\ failed' = failed
             /\ \A j \in jobs \ jobs' : written[j] = 0
             /\ UNCHANGED <<handler, cons, session, posted, written, received, shared>>
  <1> USE DEF TypeInv, TypeOK
  <1>1. /\ respQ \in Seq([addr : Addrs, job : Jobs, chunk : 0..Error]) /\ Len(respQ) \in Nat
        /\ \A i \in 1..Len(respQ) : respQ[i].job \in Jobs
    <2>1. respQ \in Seq([addr : Addrs, job : Jobs, chunk : 0..Error]) /\ Len(respQ) \in Nat
      BY LenProperties
    <2>2. \A i \in 1..Len(respQ) : respQ[i] \in [addr : Addrs, job : Jobs, chunk : 0..Error]
      BY <2>1, ElementOfSeq
    <2> QED
      BY <2>1, <2>2
  <1>2. ASSUME NEW j \in Jobs, TakenForTunnel(j)
        PROVE  /\ UNCHANGED <<handler, cons, session, posted, written, failed, respQ, received, shared, holed>>
               /\ jobs' \subseteq jobs /\ failed \subseteq jobs'
               /\ \A h \in jobs \ jobs' : written[h] = 0
    BY <1>2 DEF TakenForTunnel, Unstarted, history
  <1>3. CASE \E j \in Jobs : TakenForTunnel(j)
    <2>1. /\ Len(respQ) \in 0..Len(respQ)
          /\ \A i \in 1..Len(respQ) : i \in 1..Len(respQ)
      BY <1>1
    <2> QED
      BY <1>1, <1>2, <1>3, <2>1
  <1>4. CASE LoseConnection
    <2>1. PICK n \in 0..Len(respQ) :
              respQ' = SubSeq(respQ, 1, n) /\ holed' = holed \cup LostBehind(respQ, n)
      BY <1>4 DEF LoseConnection
    <2>2. PICK lost \in SUBSET Unstarted : jobs' = jobs \ lost
      BY <1>4 DEF LoseConnection
    <2>3. UNCHANGED <<handler, cons, session, posted, written, failed, received, shared>>
      BY <1>4 DEF LoseConnection
    <2>4. /\ respQ' \in Seq([addr : Addrs, job : Jobs, chunk : 0..Error]) /\ Len(respQ') = n
          /\ \A i \in 1..n : i \in 1..Len(respQ) /\ respQ'[i] = respQ[i]
      BY <2>1, Prefix
    <2>5. \A i \in 1..Len(respQ) :
            respQ[i].chunk \in 1..MaxChunks => i \in 1..n \/ respQ[i].job \in LostBehind(respQ, n)
      BY <1>1 DEF LostBehind
    <2>6. LostBehind(respQ, n) \subseteq Jobs
      <3>1. \A i \in (n + 1)..Len(respQ) : i \in 1..Len(respQ)
        BY <1>1
      <3> QED
        BY <1>1, <3>1 DEF LostBehind
    <2>7. jobs' \subseteq jobs /\ failed \subseteq jobs' /\ \A j \in jobs \ jobs' : written[j] = 0
      BY <2>2 DEF Unstarted
    <2> QED
      BY <1>1, <2>1, <2>3, <2>4, <2>5, <2>6, <2>7
  <1> QED
    BY <1>3, <1>4

LEMMA TypeNext == TypeInv /\ [Next]_vars => TypeInv'
  <1> SUFFICES ASSUME TypeInv, [Next]_vars PROVE TypeInv'
    OBVIOUS
  <1>1. ASSUME UNCHANGED <<handler, posted>>, jobs' \subseteq jobs
        PROVE  Addressed' /\ Quiet' /\ \A j \in jobs' : Posted(j)'
    BY <1>1 DEF TypeInv, Addressed, Quiet, Posted, handler
  <1>2. ASSUME UNCHANGED <<handler, device, cons, posted, received, history>>, session' \in {"live", "closed", "gone"}
        PROVE  TypeInv'
    BY <1>1, <1>2 DEF TypeInv, TypeOK, handler, device, history
  <1>3. ASSUME NEW c \in Conns,
               \/ \E a \in Addrs : Connect(c, a)
               \/ Refuse(c) \/ Web(c) \/ PortServe(c) \/ Leaves(c)
        PROVE  TypeInv'
    <2>1. UNCHANGED <<posted, jobs, written, failed, respQ, received, holed>>
      BY <1>3, ConnsOnly
    <2>2. TypeOK' /\ Addressed' /\ Quiet'
      BY <1>3, <2>1, TypeConns DEF device
    <2> QED
      BY <2>1, <2>2 DEF TypeInv, Posted
  <1>4. ASSUME NEW c \in Conns, Post(c) PROVE TypeInv'
    <2> DEFINE j == [conn |-> c, num |-> posted[c] + 1]
    <2>1. /\ pc[c] = "serving" /\ posted[c] \in 0..MaxPosts /\ posted[c] < MaxPosts
          /\ posted' = [posted EXCEPT ![c] = posted[c] + 1] /\ jobs' = jobs \cup {j}
          /\ UNCHANGED <<handler, cons, session, written, failed, respQ, received, history>>
      BY <1>4 DEF Post, TypeInv, TypeOK
    <2>2. posted[c] + 1 \in 1..MaxPosts /\ posted[c] + 1 \in 0..MaxPosts
      BY <2>1, HttpProxyAssumption
    <2>3. j \in Jobs /\ posted' \in [Conns -> 0..MaxPosts]
      BY <2>1, <2>2 DEF Jobs, TypeInv, TypeOK
    <2>4. TypeOK'
      BY <2>1, <2>3 DEF TypeInv, TypeOK, handler, history
    <2>5. Addressed' /\ Quiet'
      BY <2>1 DEF TypeInv, TypeOK, Addressed, Quiet, handler
    <2>6. \A d \in Conns : posted[d] <= posted'[d]
      BY <2>1, HttpProxyAssumption DEF TypeInv, TypeOK
    <2>7. ASSUME NEW i \in jobs' PROVE Posted(i)'
      <3>1. CASE i = j
        BY <2>1, <2>2, <3>1 DEF Posted, TypeInv, TypeOK
      <3>2. CASE i \in jobs
        <4>1. i.conn \in Conns /\ i.num \in Nat /\ posted[i.conn] \in Nat /\ posted'[i.conn] \in Nat
          BY <2>3, <3>2, HttpProxyAssumption DEF TypeInv, TypeOK, Jobs
        <4> QED
          BY <2>6, <3>2, <4>1 DEF TypeInv, Posted
      <3> QED
        BY <2>1, <3>1, <3>2
    <2> QED
      BY <2>4, <2>5, <2>7 DEF TypeInv
  <1>5. ASSUME NEW j \in Jobs, WriteChunk(j) \/ WriteError(j) \/ WriteEnd(j) PROVE TypeInv'
    <2>1. UNCHANGED <<handler, posted>> /\ jobs' \subseteq jobs
      BY <1>5 DEF WriteChunk, WriteError, WriteEnd
    <2> QED
      BY <1>1, <1>5, <2>1, TypeWrite DEF TypeInv
  <1>6. CASE LoseConnection \/ \E j \in Jobs : TakenForTunnel(j)
    <2>1. /\ UNCHANGED <<handler, cons, session, posted, written, received, shared>>
          /\ respQ' \in Seq([addr : Addrs, job : Jobs, chunk : 0..Error])
          /\ jobs' \subseteq jobs /\ failed' \subseteq jobs' /\ holed' \subseteq Jobs
      BY <1>6, Dropped
    <2>2. TypeOK'
      BY <2>1 DEF TypeInv, TypeOK, handler
    <2> QED
      BY <1>1, <2>1, <2>2 DEF TypeInv
  <1>7. CASE HandleResp
    <2>1. UNCHANGED <<pc, addr, posted, jobs>>
      BY <1>7 DEF HandleResp
    <2>2. Addressed' /\ Quiet' /\ \A j \in jobs' : Posted(j)'
      BY <2>1 DEF TypeInv, Addressed, Quiet, Posted
    <2> QED
      BY <1>7, <2>2, TypeResp DEF TypeInv
  <1>8. CASE CloseSession \/ DeleteSession
    BY <1>2, <1>8 DEF CloseSession, DeleteSession
  <1>9. CASE UNCHANGED vars
    BY <1>2, <1>9 DEF vars, TypeInv, TypeOK
  <1> QED
    BY <1>3, <1>4, <1>5, <1>6, <1>7, <1>8, <1>9 DEF Next

\* Every variable keeps its type: what is written is addressed to somebody.
THEOREM TypeCorrect == Spec => []TypeOK
  <1>1. TypeInv => TypeOK
    BY DEF TypeInv
  <1> QED
    BY <1>1, TypeInit, TypeNext, PTL DEF Spec

-----------------------------------------------------------------------------
(* Entries.                                                                *)

EntryFacts(c) == Roles(c) /\ Entered(c) /\ EntryStays(c)

\* Answers on their way go to the address of their connection.
RespAddressed ==
    \A i \in 1..Len(respQ) :
        Posted(respQ[i].job) /\ respQ[i].addr = addr[respQ[i].job.conn]

LEMMA EntryInit == Init => EntryInv
  <1> SUFFICES ASSUME Init PROVE EntryInv
    OBVIOUS
  <1>1. TypeInv
    BY TypeInit
  <1>2. ASSUME NEW c \in Conns PROVE EntryFacts(c)
    BY HttpProxyAssumption DEF Init, EntryFacts, Roles, Entered, EntryStays
  <1>3. Apart
    BY DEF Init, Apart
  <1>4. Len(respQ) = 0
    BY EmptySeq DEF Init
  <1> QED
    BY <1>1, <1>2, <1>3, <1>4 DEF EntryInv, EntryFacts

\* Steps that leave the connections and the table alone.
LEMMA EntrySame ==
    ASSUME NEW c \in Conns, EntryFacts(c),
           UNCHANGED <<pc, addr, watcher, cons, shared>>,
           open' \subseteq open, session = "gone" => session' = "gone"
    PROVE  EntryFacts(c)'
  BY DEF EntryFacts, Roles, Entered, EntryStays

\* Only a connection that is made gets under way.
LEMMA ApartKept ==
    ASSUME Apart, UNCHANGED <<addr, shared>>, \A c \in Conns : UnderWay(c)' => UnderWay(c)
    PROVE  Apart'
  BY DEF Apart

LEMMA UnderWayKept ==
    ASSUME NEW c \in Conns,
           pc'[c] \notin {"idle", "done"} => pc[c] \notin {"idle", "done"},
           watcher'[c] \in {"waits", "deletes"}
             => watcher[c] \in {"waits", "deletes"} \/ pc[c] \notin {"idle", "done"},
           jobs' \subseteq jobs, respQ' = respQ
    PROVE  UnderWay(c)' => UnderWay(c)
  BY DEF UnderWay

\* Another connection's step: it touches the entry of c only if both are under
\* way with one address.
LEMMA OthersStep ==
    ASSUME TypeInv, Apart, NEW c \in Conns, NEW d \in Conns, c # d, EntryFacts(c), UnderWay(d),
           pc'[c] = pc[c], watcher'[c] = watcher[c], addr' = addr, UNCHANGED <<session, shared>>,
           c \in open' => c \in open,
           cons' = cons \/ cons' = Stored(d) \/ cons' = Removed(d)
    PROVE  EntryFacts(c)'
  <1> USE DEF TypeInv, TypeOK, EntryFacts
  <1>1. \A a \in Addrs : cons'[a] = c => cons[a] = c
    BY HttpProxyAssumption DEF Stored, Removed
  <1>2. Roles(c)' /\ Entered(c)'
    BY <1>1 DEF Roles, Entered
  <1>3. EntryStays(c)'
    <2> SUFFICES ASSUME c \notin shared, pc[c] \in {"stored", "serving"}, watcher[c] \in {"none", "waits"}
                 PROVE  cons'[addr[c]] = c
      BY DEF EntryStays
    <2>1. cons[addr[c]] = c /\ UnderWay(c)
      BY DEF EntryStays, UnderWay
    <2>2. addr[c] # None
      BY DEF Addressed
    <2>3. addr[d] # addr[c]
      BY <2>1, <2>2 DEF Apart
    <2> QED
      BY <2>1, <2>2, <2>3 DEF Stored, Removed
  <1> QED
    BY <1>2, <1>3

\* A new connection: those that share its address learn of it.
LEMMA EntryConnect ==
    ASSUME EntryInv, NEW d \in Conns, NEW a \in Addrs, Connect(d, a)
    PROVE  (\A c \in Conns : EntryFacts(c)') /\ Apart'
  <1> USE DEF EntryInv, TypeInv, TypeOK
  <1>1. /\ pc[d] = "idle" /\ pc' = [pc EXCEPT ![d] = "accepted"]
        /\ addr' = [addr EXCEPT ![d] = a] /\ a # None /\ open' = open \cup {d}
        /\ shared' = shared \cup IF SameAddr(a) = {} THEN {} ELSE SameAddr(a) \cup {d}
        /\ UNCHANGED <<watcher, cons, session, jobs, respQ>>
    BY HttpProxyAssumption DEF Connect, Goto, device
  <1>2. ASSUME NEW c \in Conns PROVE EntryFacts(c)'
    <2>1. EntryFacts(c)
      BY DEF EntryFacts
    <2>2. CASE c = d
      <3>1. watcher[d] = "none" /\ \A b \in Addrs : cons[b] # d
        BY <1>1, <2>1, <2>2 DEF EntryFacts, Roles, Entered
      <3> QED
        BY <1>1, <2>2, <3>1 DEF EntryFacts, Roles, Entered, EntryStays
    <2>3. CASE c # d
      <3>1. pc'[c] = pc[c] /\ addr'[c] = addr[c] /\ (c \in open' => c \in open)
            /\ (c \in shared => c \in shared')
        BY <1>1, <2>3
      <3> QED
        BY <1>1, <2>1, <3>1 DEF EntryFacts, Roles, Entered, EntryStays
    <2> QED
      BY <2>2, <2>3
  <1>3. Apart'
    <2> SUFFICES ASSUME NEW c \in Conns, NEW e \in Conns, c # e, addr'[c] # None,
                        addr'[c] = addr'[e], UnderWay(c)', UnderWay(e)'
                 PROVE  c \in shared' /\ e \in shared'
      BY DEF Apart
    <2>1. \A b \in Conns : b # d => (UnderWay(b)' => UnderWay(b)) /\ addr'[b] = addr[b]
      BY <1>1 DEF UnderWay
    <2>2. shared \subseteq shared' /\ \A b \in SameAddr(a) : b \in shared' /\ d \in shared'
      BY <1>1
    <2>3. CASE c # d /\ e # d
      BY <2>1, <2>2, <2>3 DEF Apart
    <2>4. CASE c = d
      BY <1>1, <2>1, <2>2, <2>4 DEF SameAddr
    <2>5. CASE e = d
      BY <1>1, <2>1, <2>2, <2>5 DEF SameAddr
    <2> QED
      BY <2>3, <2>4, <2>5
  <1> QED
    BY <1>2, <1>3

\* The other steps of a connection.
LEMMA EntryConn ==
    ASSUME EntryInv, NEW d \in Conns, Refuse(d) \/ Web(d) \/ PortServe(d) \/ Leaves(d)
    PROVE  (\A c \in Conns : EntryFacts(c)') /\ Apart'
  <1> USE HttpProxyAssumption DEF EntryInv, TypeInv, TypeOK
  <1>1. UNCHANGED <<addr, session, shared, jobs, respQ>>
    BY DEF Refuse, Web, WebStore, WebServe, Watcher, WatcherWakes, WatcherDeletes, PortServe,
        Leaves, WebLeaves, PortLeaves, PortCloses, device, history
  <1>2. \A c \in Conns : c # d => /\ pc'[c] = pc[c] /\ watcher'[c] = watcher[c]
                                  /\ c \in open' => c \in open
    BY DEF Refuse, Web, WebStore, WebServe, Watcher, WatcherWakes, WatcherDeletes, Watch, PortServe,
        Leaves, WebLeaves, PortLeaves, PortCloses, Goto
  <1>3. cons' = cons \/ cons' = Stored(d) \/ cons' = Removed(d)
    BY DEF Refuse, Web, WebStore, WebServe, Watcher, WatcherWakes, WatcherDeletes, PortServe,
        Leaves, WebLeaves, PortLeaves, PortCloses, PortEntry
  <1>4. /\ UnderWay(d)
        /\ pc'[d] \notin {"idle", "done"} => pc[d] \notin {"idle", "done"}
        /\ watcher'[d] \in {"waits", "deletes"}
             => watcher[d] \in {"waits", "deletes"} \/ pc[d] \notin {"idle", "done"}
    BY DEF Refuse, Web, WebStore, WebServe, Watcher, WatcherWakes, WatcherDeletes, PortServe,
        Leaves, WebLeaves, PortLeaves, PortCloses, Goto, UnderWay
  <1>5. Apart'
    <2>1. \A c \in Conns : UnderWay(c)' => UnderWay(c)
      BY <1>1, <1>2, <1>4, UnderWayKept
    <2> QED
      BY <1>1, <2>1, ApartKept
  <1>6. ASSUME NEW c \in Conns, c # d PROVE EntryFacts(c)'
    BY <1>1, <1>2, <1>3, <1>4, <1>6, OthersStep DEF EntryFacts
  <1>7. EntryFacts(d)'
    <2>0. /\ Roles(d) /\ Entered(d) /\ EntryStays(d)
          /\ d \in WebConns <=> d \notin PortConns
      BY DEF Conns
    <2>1. CASE Refuse(d)
      <3>1. /\ pc[d] = "accepted" /\ pc'[d] = "done" /\ d \notin open' /\ UNCHANGED <<watcher, cons>>
        BY <2>1 DEF Refuse, Goto
      <3> QED
        BY <1>1, <2>0, <3>1 DEF EntryFacts, Roles, Entered, EntryStays
    <2>2. CASE WebStore(d) \/ PortServe(d)
      <3>1. /\ pc[d] = "accepted" /\ cons' = Stored(d) /\ UNCHANGED <<watcher, open>>
            /\ pc'[d] = IF d \in WebConns THEN "stored" ELSE "serving"
        BY <2>0, <2>2 DEF WebStore, PortServe, Goto
      <3>2. watcher[d] = "none" /\ addr[d] \in Addrs /\ \A a \in Addrs : cons[a] # d
        BY <2>0, <3>1 DEF Roles, Entered, Addressed
      <3>3. \A a \in Addrs : cons'[a] = d <=> a = addr[d]
        BY <3>1, <3>2 DEF Stored
      <3> QED
        BY <1>1, <2>0, <3>1, <3>2, <3>3 DEF EntryFacts, Roles, Entered, EntryStays
    <2>3. CASE WebServe(d)
      <3>1. /\ pc[d] = "stored" /\ d \in WebConns /\ UNCHANGED cons
            /\ \/ session # "gone" /\ pc'[d] = "serving" /\ watcher'[d] = "waits" /\ UNCHANGED open
               \/ session = "gone" /\ pc'[d] = "done" /\ d \notin open' /\ UNCHANGED watcher
        BY <2>3 DEF WebServe, Goto
      <3>2. watcher[d] = "none"
        BY <2>0, <3>1 DEF Roles
      <3> QED
        BY <1>1, <2>0, <3>1, <3>2 DEF EntryFacts, Roles, Entered, EntryStays
    <2>4. CASE WebLeaves(d)
      <3>1. /\ pc[d] = "serving" /\ pc'[d] = "done" /\ d \notin open' /\ d \in WebConns
            /\ UNCHANGED <<cons, watcher>>
        BY <2>4 DEF WebLeaves, Goto
      <3> QED
        BY <1>1, <2>0, <3>1 DEF EntryFacts, Roles, Entered, EntryStays
    <2>5. CASE WatcherWakes(d)
      <3>1. /\ watcher[d] = "waits" /\ watcher'[d] = "deletes" /\ UNCHANGED <<pc, cons>>
            /\ d \in open' => d \in open
        BY <2>5 DEF WatcherWakes, Watch
      <3> QED
        BY <1>1, <2>0, <3>1 DEF EntryFacts, Roles, Entered, EntryStays
    <2>6. CASE WatcherDeletes(d)
      <3>1. /\ watcher[d] = "deletes" /\ watcher'[d] = "ended" /\ cons' = Removed(d)
            /\ UNCHANGED <<pc, open>>
        BY <2>6 DEF WatcherDeletes
      <3>2. \A a \in Addrs : cons'[a] # d
        BY <2>0, <3>1 DEF Removed, Entered
      <3> QED
        BY <1>1, <2>0, <3>1, <3>2 DEF EntryFacts, Roles, Entered, EntryStays
    <2>7. CASE PortLeaves(d)
      <3>1. /\ pc[d] = "serving" /\ pc'[d] = "leaving" /\ d \in PortConns /\ cons' = Removed(d)
            /\ UNCHANGED <<watcher, open>>
        BY <2>7 DEF PortLeaves, PortEntry, Goto
      <3>2. \A a \in Addrs : cons'[a] # d
        BY <2>0, <3>1 DEF Removed, Entered
      <3> QED
        BY <1>1, <2>0, <3>1, <3>2 DEF EntryFacts, Roles, Entered, EntryStays
    <2>8. CASE PortCloses(d)
      <3>1. /\ pc[d] = "leaving" /\ pc'[d] = "done" /\ d \notin open' /\ UNCHANGED <<watcher, cons>>
        BY <2>8 DEF PortCloses, Goto
      <3> QED
        BY <1>1, <2>0, <3>1 DEF EntryFacts, Roles, Entered, EntryStays
    <2> QED
      BY <2>1, <2>2, <2>3, <2>4, <2>5, <2>6, <2>7, <2>8 DEF Web, Watcher, Leaves
  <1> QED
    BY <1>5, <1>6, <1>7

Piece == [addr : Addrs, job : Jobs, chunk : 0..Error]

\* What the device writes is last, what the broker takes is first.
LEMMA PieceWritten ==
    ASSUME TypeInv, NEW j \in jobs, NEW chunk \in 0..Error, Writes(j, chunk)
    PROVE  LET p == [addr |-> addr[j.conn], job |-> j, chunk |-> chunk] IN
           /\ respQ' = Append(respQ, p) /\ respQ' \in Seq(Piece)
           /\ Len(respQ) \in Nat /\ Len(respQ') = Len(respQ) + 1
           /\ \A i \in 1..Len(respQ) : i \in 1..Len(respQ') /\ respQ'[i] = respQ[i] /\ i # Len(respQ) + 1
           /\ Len(respQ) + 1 \in 1..Len(respQ') /\ respQ'[Len(respQ) + 1] = p
           /\ \A i \in 1..Len(respQ') : i \in 1..Len(respQ) \/ i = Len(respQ) + 1
  <1> DEFINE p == [addr |-> addr[j.conn], job |-> j, chunk |-> chunk]
  <1>1. respQ' \in Seq(Piece) /\ respQ' = Append(respQ, p)
    BY WritesType DEF Piece, Writes
  <1>2. respQ \in Seq(Piece) /\ Len(respQ) \in Nat
    BY LenProperties DEF TypeInv, TypeOK, Piece
  <1>3. /\ Len(respQ') = Len(respQ) + 1 /\ respQ'[Len(respQ) + 1] = p
        /\ \A i \in 1..Len(respQ) : respQ'[i] = respQ[i]
    BY <1>1, <1>2, AppendProperties
  <1>4. /\ \A i \in 1..Len(respQ) : i \in 1..Len(respQ') /\ i # Len(respQ) + 1
        /\ Len(respQ) + 1 \in 1..Len(respQ')
        /\ \A i \in 1..Len(respQ') : i \in 1..Len(respQ) \/ i = Len(respQ) + 1
    BY <1>2, <1>3
  <1> QED
    BY <1>1, <1>2, <1>3, <1>4

LEMMA PieceTaken ==
    ASSUME TypeInv, respQ # <<>>, respQ' = Tail(respQ)
    PROVE  /\ 1 \in 1..Len(respQ) /\ Head(respQ) = respQ[1] /\ respQ[1] \in Piece
           /\ Len(respQ) \in Nat \ {0} /\ Len(respQ') = Len(respQ) - 1
           /\ \A i \in 1..Len(respQ') : i + 1 \in 1..Len(respQ) /\ respQ'[i] = respQ[i + 1]
           /\ \A i \in 1..Len(respQ) :
                i = 1 \/ (i - 1 \in 1..Len(respQ') /\ respQ'[i - 1] = respQ[i])
  <1>1. /\ respQ \in Seq(Piece) /\ Len(respQ) \in Nat \ {0} /\ Len(respQ') = Len(respQ) - 1
        /\ \A i \in 1..Len(respQ') : respQ'[i] = respQ[i + 1]
        /\ Head(respQ) = respQ[1]
    BY HeadTailProperties, EmptySeq DEF TypeInv, TypeOK, Piece
  <1>2. 1 \in 1..Len(respQ) /\ respQ[1] \in Piece
    BY <1>1, ElementOfSeq
  <1>3. /\ \A i \in 1..Len(respQ') : i + 1 \in 1..Len(respQ)
        /\ \A i \in 1..Len(respQ) : i = 1 \/ (i - 1 \in 1..Len(respQ') /\ (i - 1) + 1 = i)
    BY <1>1
  <1> QED
    BY <1>1, <1>2, <1>3

\* A message that was posted is of a connection that has its address.
LEMMA PostedConn ==
    ASSUME TypeInv, NEW j \in Jobs, Posted(j)
    PROVE  j.conn \in Conns /\ pc[j.conn] \notin {"idle", "accepted", "stored"}
  <1>1. j.conn \in Conns /\ j.num \in Nat \ {0}
    BY HttpProxyAssumption DEF Jobs
  <1> QED
    BY <1>1 DEF TypeInv, TypeOK, Posted, Quiet

LEMMA RespType ==
    ASSUME TypeOK
    PROVE  /\ Len(respQ) \in Nat
           /\ \A i \in 1..Len(respQ) : /\ respQ[i] \in Piece /\ respQ[i].job \in Jobs
                                       /\ respQ[i].chunk \in 0..Error
  <1>1. respQ \in Seq(Piece)
    BY DEF TypeOK, Piece
  <1>2. Len(respQ) \in Nat /\ \A i \in 1..Len(respQ) : respQ[i] \in Piece
    BY <1>1, ElementOfSeq, LenProperties
  <1> QED
    BY <1>2 DEF Piece

\* A connection that is made, or posts, changes nothing for what is on its way.
LEMMA PostedKept ==
    ASSUME TypeInv, NEW j \in Jobs, Posted(j),
           \/ UNCHANGED posted
           \/ \E c \in Conns : Post(c)
    PROVE  Posted(j)'
  <1>1. j.conn \in Conns /\ j.num \in Nat
    BY HttpProxyAssumption DEF Jobs
  <1>2. posted[j.conn] \in Nat /\ posted'[j.conn] \in {posted[j.conn], posted[j.conn] + 1}
    BY <1>1, HttpProxyAssumption DEF Post, TypeInv, TypeOK
  <1> QED
    BY <1>1, <1>2 DEF Posted

LEMMA RespNext ==
    ASSUME EntryInv, [Next]_vars
    PROVE  RespAddressed'
  <1>1. TypeInv /\ TypeOK /\ RespAddressed
    BY DEF EntryInv, TypeInv, RespAddressed
  <1>2. \A i \in 1..Len(respQ) : respQ[i].job \in Jobs
    BY <1>1, RespType
  <1>3. ASSUME UNCHANGED respQ, UNCHANGED posted \/ \E c \in Conns : Post(c),
               \A j \in Jobs : Posted(j) => addr'[j.conn] = addr[j.conn]
        PROVE  RespAddressed'
    <2> SUFFICES ASSUME NEW i \in 1..Len(respQ)
                 PROVE  Posted(respQ[i].job)' /\ respQ[i].addr = addr'[respQ[i].job.conn]
      BY <1>3 DEF RespAddressed, Posted
    <2>1. Posted(respQ[i].job) /\ respQ[i].addr = addr[respQ[i].job.conn]
      BY <1>1 DEF RespAddressed
    <2>2. Posted(respQ[i].job)'
      BY <1>1, <1>2, <1>3, <2>1, PostedKept
    <2> QED
      BY <1>2, <1>3, <2>1, <2>2
  <1>4. ASSUME NEW c \in Conns, NEW a \in Addrs, Connect(c, a) PROVE RespAddressed'
    <2>1. /\ pc[c] = "idle" /\ addr' = [addr EXCEPT ![c] = a] /\ UNCHANGED <<respQ, posted>>
      BY <1>4 DEF Connect, Goto, device
    <2>2. \A j \in Jobs : Posted(j) => j.conn # c /\ j.conn \in Conns
      BY <1>1, <2>1, PostedConn
    <2> QED
      BY <1>1, <1>3, <2>1, <2>2 DEF TypeOK
  <1>5. ASSUME NEW c \in Conns, Refuse(c) \/ Web(c) \/ PortServe(c) \/ Leaves(c) PROVE RespAddressed'
    <2>1. UNCHANGED <<addr, respQ, posted>>
      BY <1>5 DEF Refuse, Web, WebStore, WebServe, Watcher, WatcherWakes, WatcherDeletes,
          PortServe, Leaves, WebLeaves, PortLeaves, PortCloses, device
    <2> QED
      BY <1>3, <2>1
  <1>6. ASSUME NEW c \in Conns, Post(c) PROVE RespAddressed'
    BY <1>3, <1>6 DEF Post, handler
  <1>7. ASSUME NEW j \in Jobs, WriteChunk(j) \/ WriteError(j) \/ WriteEnd(j) PROVE RespAddressed'
    <2>1. /\ j \in jobs /\ UNCHANGED <<addr, posted>>
          /\ \E chunk \in 0..Error : Writes(j, chunk)
      BY <1>1, <1>7, HttpProxyAssumption
      DEF WriteChunk, WriteError, WriteEnd, handler, history, TypeOK, Error, End
    <2>2. PICK chunk \in 0..Error : Writes(j, chunk)
      BY <2>1
    <2>3. /\ \A i \in 1..Len(respQ) : respQ'[i] = respQ[i]
          /\ respQ'[Len(respQ) + 1] = [addr |-> addr[j.conn], job |-> j, chunk |-> chunk]
          /\ \A i \in 1..Len(respQ') : i \in 1..Len(respQ) \/ i = Len(respQ) + 1
      BY <1>1, <2>1, <2>2, PieceWritten
    <2>4. Posted(j)
      BY <1>1, <2>1 DEF TypeInv
    <2> QED
      BY <1>1, <2>1, <2>3, <2>4 DEF RespAddressed, Posted
  <1>8. CASE HandleResp
    <2>1. respQ # <<>> /\ respQ' = Tail(respQ) /\ UNCHANGED <<addr, posted>>
      BY <1>8 DEF HandleResp
    <2>2. \A i \in 1..Len(respQ') : i + 1 \in 1..Len(respQ) /\ respQ'[i] = respQ[i + 1]
      BY <1>1, <2>1, PieceTaken
    <2> QED
      BY <1>1, <2>1, <2>2 DEF RespAddressed, Posted
  <1>9. CASE LoseConnection \/ \E j \in Jobs : TakenForTunnel(j)
    <2>1. /\ \A i \in 1..Len(respQ') : i \in 1..Len(respQ) /\ respQ'[i] = respQ[i]
          /\ UNCHANGED <<addr, posted>>
      BY <1>1, <1>9, Dropped DEF handler
    <2> QED
      BY <1>1, <2>1 DEF RespAddressed, Posted
  <1>10. CASE CloseSession \/ DeleteSession \/ UNCHANGED vars
    <2>1. UNCHANGED <<addr, respQ, posted>>
      BY <1>10 DEF CloseSession, DeleteSession, vars, handler, device
    <2> QED
      BY <1>3, <2>1
  <1> QED
    BY <1>4, <1>5, <1>6, <1>7, <1>8, <1>9, <1>10 DEF Next

LEMMA EntryNext == EntryInv /\ [Next]_vars => EntryInv'
  <1> SUFFICES ASSUME EntryInv, [Next]_vars PROVE EntryInv'
    OBVIOUS
  <1>1. TypeInv' /\ RespAddressed'
    BY TypeNext, RespNext DEF EntryInv
  <1>2. TypeInv /\ TypeOK /\ Apart /\ \A c \in Conns : EntryFacts(c)
    BY DEF EntryInv, TypeInv, EntryFacts
  <1>3. ASSUME UNCHANGED <<pc, addr, watcher, cons, shared>>, open' \subseteq open,
               session = "gone" => session' = "gone",
               \A c \in Conns : UnderWay(c)' => UnderWay(c)
        PROVE  (\A c \in Conns : EntryFacts(c)') /\ Apart'
    BY <1>2, <1>3, EntrySame, ApartKept
  <1>4. ASSUME NEW d \in Conns, Post(d) PROVE (\A c \in Conns : EntryFacts(c)') /\ Apart'
    <2>1. /\ pc[d] = "serving" /\ jobs' = jobs \cup {[conn |-> d, num |-> posted[d] + 1]}
          /\ UNCHANGED <<handler, cons, session, respQ, shared>>
      BY <1>4 DEF Post, history
    <2>2. \A c \in Conns : UnderWay(c)' => UnderWay(c)
      BY <2>1 DEF UnderWay, handler
    <2> QED
      BY <1>3, <2>1, <2>2 DEF handler
  <1>5. ASSUME NEW j \in Jobs, WriteChunk(j) \/ WriteError(j) \/ WriteEnd(j)
        PROVE  (\A c \in Conns : EntryFacts(c)') /\ Apart'
    <2>1. /\ j \in jobs /\ jobs' \subseteq jobs /\ UNCHANGED <<handler, cons, session, shared>>
          /\ \E chunk \in 0..Error : Writes(j, chunk)
      BY <1>2, <1>5, HttpProxyAssumption
      DEF WriteChunk, WriteError, WriteEnd, history, TypeOK, Error, End
    <2>2. PICK chunk \in 0..Error : Writes(j, chunk)
      BY <2>1
    <2>3. /\ \A i \in 1..Len(respQ) : respQ'[i] = respQ[i]
          /\ respQ'[Len(respQ) + 1] = [addr |-> addr[j.conn], job |-> j, chunk |-> chunk]
          /\ \A i \in 1..Len(respQ') : i \in 1..Len(respQ) \/ i = Len(respQ) + 1
      BY <1>2, <2>1, <2>2, PieceWritten
    <2>4. \A c \in Conns : UnderWay(c)' => UnderWay(c)
      BY <2>1, <2>3 DEF UnderWay, handler
    <2> QED
      BY <1>3, <2>1, <2>4 DEF handler
  <1>6. ASSUME HandleResp
        PROVE  (\A c \in Conns : EntryFacts(c)') /\ Apart'
    <2>1. /\ respQ # <<>> /\ respQ' = Tail(respQ) /\ open' \subseteq open
          /\ UNCHANGED <<pc, addr, watcher, cons, session, jobs, shared>>
      BY <1>6 DEF HandleResp, Closes, Delivers, Swallows
    <2>2. \A i \in 1..Len(respQ') : i + 1 \in 1..Len(respQ) /\ respQ'[i] = respQ[i + 1]
      BY <1>2, <2>1, PieceTaken
    <2>3. \A c \in Conns : UnderWay(c)' => UnderWay(c)
      BY <2>1, <2>2 DEF UnderWay
    <2> QED
      BY <1>3, <2>1, <2>3
  <1>7. ASSUME LoseConnection \/ \E j \in Jobs : TakenForTunnel(j)
        PROVE  (\A c \in Conns : EntryFacts(c)') /\ Apart'
    <2>1. /\ UNCHANGED <<handler, cons, session, shared>> /\ jobs' \subseteq jobs
          /\ \A i \in 1..Len(respQ') : i \in 1..Len(respQ) /\ respQ'[i] = respQ[i]
      BY <1>2, <1>7, Dropped
    <2>2. \A c \in Conns : UnderWay(c)' => UnderWay(c)
      BY <2>1 DEF UnderWay, handler
    <2> QED
      BY <1>3, <2>1, <2>2 DEF handler
  <1>8. ASSUME CloseSession \/ DeleteSession \/ UNCHANGED vars
        PROVE  (\A c \in Conns : EntryFacts(c)') /\ Apart'
    <2>1. UNCHANGED <<handler, cons, device, shared>> /\ (session = "gone" => session' = "gone")
      BY <1>8 DEF CloseSession, DeleteSession, vars, history
    <2>2. \A c \in Conns : UnderWay(c)' => UnderWay(c)
      BY <2>1 DEF UnderWay, handler, device
    <2> QED
      BY <1>3, <2>1, <2>2 DEF handler
  <1>9. (\A c \in Conns : EntryFacts(c)') /\ Apart'
    BY <1>4, <1>5, <1>6, <1>7, <1>8, EntryConnect, EntryConn DEF Next
  <1> QED
    BY <1>1, <1>9 DEF EntryInv, EntryFacts, RespAddressed

\* The entry of a connection whose address is its own is in the table as long
\* as it is served, and no longer: a deferred Delete, or a watcher's, that
\* comes later than the connection takes away entries of others only of those
\* that shared its address.
THEOREM EntriesLast == Spec => []EntryLastsAsConnection
  <1>1. EntryInv => EntryLastsAsConnection
    <2> SUFFICES ASSUME EntryInv, NEW c \in Conns \ shared
                 PROVE  /\ pc[c] = "serving" /\ watcher[c] \in {"none", "waits"} => cons[addr[c]] = c
                        /\ pc[c] = "done" /\ addr[c] # None /\ cons[addr[c]] = c
                             => watcher[c] \in {"waits", "deletes"} \/ session = "gone"
      BY DEF EntryLastsAsConnection
    <2> QED
      BY DEF EntryInv, TypeInv, TypeOK, EntryStays, Entered
  <1> QED
    BY <1>1, EntryInit, EntryNext, PTL DEF Spec

-----------------------------------------------------------------------------
(* Answers.                                                                *)

LEMMA AnswerInit == Init => AnswerInv
  <1> SUFFICES ASSUME Init PROVE AnswerInv
    OBVIOUS
  <1>1. EntryInv
    BY EntryInit
  <1>2. Len(respQ) = 0 /\ \A c \in Conns : Len(received[c]) = 0
    BY EmptySeq DEF Init
  <1>3. QueueRises /\ ReceivedRises /\ ReceivedBefore /\ ReceivedPosted
    BY <1>2 DEF QueueRises, ReceivedRises, ReceivedBefore, ReceivedPosted
  <1>4. WrittenSoFar /\ UnwrittenRest
    BY DEF Init, WrittenSoFar, UnwrittenRest
  <1>5. \A c \in Conns : ~Intact(c)
    BY DEF Init, Intact
  <1>6. \A c \in Conns : OwnWhole(c)
    BY <1>2 DEF OwnWhole
  <1> QED
    BY <1>1, <1>3, <1>4, <1>5, <1>6 DEF AnswerInv, Order

\* What has been received is of its type.
LEMMA ReceivedType ==
    ASSUME TypeOK, NEW c \in Conns
    PROVE  /\ received[c] \in Seq([job : Jobs, chunk : 0..Error]) /\ Len(received[c]) \in Nat
           /\ \A k \in 1..Len(received[c]) :
                received[c][k].job \in Jobs /\ received[c][k].chunk \in 0..Error
  <1>1. received[c] \in Seq([job : Jobs, chunk : 0..Error])
    BY DEF TypeOK
  <1>2. \A k \in 1..Len(received[c]) : received[c][k] \in [job : Jobs, chunk : 0..Error]
    BY <1>1, ElementOfSeq
  <1> QED
    BY <1>1, <1>2, LenProperties

\* A connection that can receive could receive before, or has posted nothing.
LEMMA IntactBefore ==
    ASSUME EntryInv, NEW c \in Conns, Intact(c)',
           \/ UNCHANGED <<addr, cons, shared>> /\ open' \subseteq open
           \/ \E d \in Conns : \/ \E a \in Addrs : Connect(d, a)
                               \/ Refuse(d) \/ Web(d) \/ PortServe(d) \/ Leaves(d)
    PROVE  Intact(c) \/ posted[c] = 0
  <1> USE DEF EntryInv, TypeInv, TypeOK
  <1>1. CASE UNCHANGED <<addr, cons, shared>> /\ open' \subseteq open
    BY <1>1 DEF Intact
  <1>2. ASSUME NEW d \in Conns, NEW a \in Addrs, Connect(d, a) PROVE Intact(c) \/ posted[c] = 0
    <2>1. /\ pc[d] = "idle" /\ addr' = [addr EXCEPT ![d] = a] /\ open' = open \cup {d}
          /\ UNCHANGED cons /\ shared \subseteq shared'
      BY <1>2 DEF Connect, Goto
    <2>2. CASE c = d
      BY <2>1, <2>2 DEF Quiet
    <2>3. CASE c # d
      BY <2>1, <2>3 DEF Intact
    <2> QED
      BY <2>2, <2>3
  <1>3. ASSUME NEW d \in Conns, Refuse(d) \/ Web(d) \/ PortServe(d) \/ Leaves(d)
        PROVE  Intact(c) \/ posted[c] = 0
    <2>1. UNCHANGED <<addr, shared>> /\ open' \subseteq open
      BY <1>3 DEF Refuse, Web, WebStore, WebServe, Watcher, WatcherWakes, WatcherDeletes, Watch,
          PortServe, Leaves, WebLeaves, PortLeaves, PortCloses, history
    <2>2. c \notin shared /\ c \in open /\ cons'[addr[c]] = c
      BY <2>1 DEF Intact
    <2>3. cons' = cons \/ cons' = Removed(d) \/ (cons' = Stored(d) /\ pc[d] = "accepted")
      BY <1>3 DEF Refuse, Web, WebStore, WebServe, Watcher, WatcherWakes, WatcherDeletes, PortServe,
          Leaves, WebLeaves, PortLeaves, PortCloses, PortEntry, Goto
    <2>4. cons[addr[c]] = c \/ (c = d /\ pc[d] = "accepted")
      <3>1. pc[c] # "idle" /\ addr[c] \in Addrs
        BY <2>2 DEF Roles, Addressed
      <3> QED
        BY <2>2, <2>3, <3>1, HttpProxyAssumption DEF Stored, Removed
    <2> QED
      BY <2>2, <2>4 DEF Intact, Quiet
  <1> QED
    BY <1>1, <1>2, <1>3

\* Nothing is under way of a connection that has posted nothing.
LEMMA NothingPosted ==
    ASSUME AnswerInv, NEW c \in Conns, posted[c] = 0
    PROVE  /\ \A j \in jobs : j.conn # c
           /\ \A i \in 1..Len(respQ) : respQ[i].job.conn # c
  <1>1. \A j \in Jobs : Posted(j) => j.conn # c
    BY HttpProxyAssumption DEF Jobs, Posted
  <1>2. TypeOK /\ jobs \subseteq Jobs /\ \A i \in 1..Len(respQ) : respQ[i].job \in Jobs
    BY RespType DEF AnswerInv, EntryInv, TypeInv, TypeOK
  <1> QED
    BY <1>1, <1>2 DEF AnswerInv, EntryInv, TypeInv

\* Steps that neither write nor deliver.
LEMMA AnswerKept ==
    ASSUME AnswerInv, EntryInv', UNCHANGED <<respQ, received, written, failed, holed>>,
           shared \subseteq shared',
           \/ UNCHANGED <<posted, jobs>>
           \/ \E c \in Conns : Post(c),
           \A c \in Conns : Intact(c)' => Intact(c) \/ (posted[c] = 0 /\ UNCHANGED jobs)
    PROVE  AnswerInv'
  <1>1. TypeInv /\ TypeOK /\ EntryInv /\ Order
    BY DEF AnswerInv, EntryInv, TypeInv
  <1>2. QueueRises' /\ ReceivedRises' /\ ReceivedBefore'
    BY <1>1 DEF Order, QueueRises, ReceivedRises, ReceivedBefore, Rank
  <1>3. ReceivedPosted'
    <2>1. \A c \in Conns : \A k \in 1..Len(received[c]) : received[c][k].job \in Jobs
      BY <1>1, ReceivedType
    <2>2. \A j \in Jobs : Posted(j) => Posted(j)'
      BY <1>1, PostedKept
    <2> QED
      BY <1>1, <2>1, <2>2 DEF Order, ReceivedPosted
  <1>4. ASSUME NEW j \in jobs' \ jobs
        PROVE  j \in Jobs /\ ~Posted(j)
    <2>1. PICK c \in Conns : Post(c)
      BY <1>4
    <2>2. j = [conn |-> c, num |-> posted[c] + 1] /\ posted[c] \in 0..MaxPosts /\ posted[c] < MaxPosts
      BY <1>1, <1>4, <2>1 DEF Post, TypeOK
    <2>3. posted[c] \in Nat /\ posted[c] + 1 \in 1..MaxPosts
      BY <2>2, HttpProxyAssumption
    <2> QED
      BY <2>2, <2>3 DEF Jobs, Posted
  <1>5. jobs \subseteq jobs'
    BY DEF Post
  <1>6. WrittenSoFar'
    <2> SUFFICES ASSUME NEW j \in jobs'
                 PROVE  /\ \A i \in 1..Len(respQ) : respQ[i].job = j => Rank(respQ[i].chunk) <= Reached(j)
                        /\ \A c \in Conns : \A k \in 1..Len(received[c]) :
                             received[c][k].job = j => received[c][k].chunk <= Reached(j)
      BY DEF WrittenSoFar, Reached, Rank
    <2>1. CASE j \in jobs
      BY <1>1, <2>1 DEF Order, WrittenSoFar
    <2>2. CASE j \notin jobs
      <3>1. ~Posted(j)
        BY <1>4, <2>2
      <3> QED
        BY <1>1, <3>1 DEF EntryInv, Order, ReceivedPosted
    <2> QED
      BY <2>1, <2>2
  <1>7. UnwrittenRest'
    BY <1>1, <1>5 DEF Order, UnwrittenRest
  <1>8. ASSUME NEW c \in Conns, Intact(c)' PROVE QueueWhole(c)' /\ WrittenWhole(c)'
    <2>1. CASE Intact(c)
      <3>1. QueueWhole(c) /\ WrittenWhole(c)
        BY <2>1 DEF AnswerInv
      <3>2. \A j \in jobs' : j \in jobs \/ written[j] = 0
        BY <1>1, <1>4 DEF Order, UnwrittenRest
      <3>3. QueueWhole(c)'
        BY <3>1 DEF QueueWhole, Comes, Received, Ahead
      <3>4. ASSUME NEW j \in jobs', j.conn = c, j \notin holed, NEW n \in 1..written[j]
            PROVE  Comes(c, j, n, Len(respQ))
        BY <3>1, <3>2, <3>4 DEF WrittenWhole
      <3>5. WrittenWhole(c)'
        BY <3>4 DEF WrittenWhole, Comes, Received, Ahead
      <3> QED
        BY <3>3, <3>5
    <2>2. CASE posted[c] = 0 /\ UNCHANGED jobs
      <3>1. (\A j \in jobs : j.conn # c) /\ \A i \in 1..Len(respQ) : respQ[i].job.conn # c
        BY <2>2, NothingPosted
      <3> QED
        BY <2>2, <3>1 DEF QueueWhole, WrittenWhole
    <2> QED
      BY <1>8, <2>1, <2>2
  <1>9. ASSUME NEW c \in Conns \ shared' PROVE OwnWhole(c)'
    <2>1. OwnWhole(c)
      BY <1>9 DEF AnswerInv
    <2> QED
      BY <2>1 DEF OwnWhole, Received
  <1> QED
    BY <1>2, <1>3, <1>6, <1>7, <1>8, <1>9 DEF AnswerInv, Order

\* The program writes: what it writes comes after what it has written of the
\* answer, and leaves nothing out.
LEMMA AnswerWrites ==
    ASSUME AnswerInv, EntryInv', NEW j \in Jobs, WriteChunk(j) \/ WriteError(j) \/ WriteEnd(j)
    PROVE  AnswerInv'
  <1>1. TypeInv /\ TypeOK /\ EntryInv /\ Order
    BY DEF AnswerInv, EntryInv, TypeInv
  <1>2. MaxChunks \in Nat /\ Error = MaxChunks + 1 /\ End = 0
    BY HttpProxyAssumption DEF Error, End
  <1>3. j \in jobs /\ jobs' \subseteq jobs /\ written[j] \in 0..MaxChunks /\ written \in [Jobs -> 0..MaxChunks]
    BY <1>1 DEF WriteChunk, WriteError, WriteEnd, TypeOK
  <1>4. UNCHANGED <<handler, cons, session, posted, received, shared, holed>>
    BY DEF WriteChunk, WriteError, WriteEnd, history
  <1>5. PICK chunk \in 0..Error :
            /\ Writes(j, chunk)
            /\ Reached(j) < Rank(chunk)
            /\ j \in jobs' => Reached(j)' = Rank(chunk)
            /\ chunk \notin {Error, End} => chunk = written[j] + 1
            /\ j \in jobs' => \A n \in 1..written'[j] : n \in 1..written[j] \/ n = chunk
    <2>1. CASE WriteChunk(j)
      <3>1. /\ j \notin failed /\ written[j] < MaxChunks /\ Writes(j, written[j] + 1)
            /\ UNCHANGED failed /\ written'[j] = written[j] + 1
        BY <1>3, <2>1 DEF WriteChunk
      <3> DEFINE chunk == written[j] + 1
      <3>2. chunk \in 0..Error /\ Rank(chunk) = chunk /\ written[j] < chunk
        BY <1>2, <1>3, <3>1 DEF Rank
      <3>3. \A n \in 1..written'[j] : n \in 1..written[j] \/ n = chunk
        BY <1>3, <3>1
      <3> QED
        BY <3>1, <3>2, <3>3 DEF Reached
    <2>2. CASE WriteError(j)
      <3>1. j \notin failed /\ Writes(j, Error) /\ j \in failed' /\ UNCHANGED written
        BY <2>2 DEF WriteError
      <3>2. Error \in 0..Error /\ Rank(Error) = Error /\ written[j] < Error
        BY <1>2, <1>3 DEF Rank
      <3> QED
        BY <3>1, <3>2 DEF Reached
    <2>3. CASE WriteEnd(j)
      <3>1. Writes(j, End) /\ j \notin jobs'
        BY <2>3 DEF WriteEnd
      <3>2. End \in 0..Error /\ Rank(End) = Error + 1 /\ Error < Error + 1 /\ written[j] < Error + 1
        BY <1>2, <1>3 DEF Rank
      <3> QED
        BY <3>1, <3>2 DEF Reached
    <2> QED
      BY <2>1, <2>2, <2>3
  <1> DEFINE l == Len(respQ) + 1
  <1>6. /\ Len(respQ) \in Nat /\ Len(respQ') = l
        /\ \A i \in 1..Len(respQ) : i \in 1..Len(respQ') /\ respQ'[i] = respQ[i] /\ i # l
        /\ l \in 1..Len(respQ') /\ respQ'[l] = [addr |-> addr[j.conn], job |-> j, chunk |-> chunk]
        /\ \A i \in 1..Len(respQ') : i \in 1..Len(respQ) \/ i = l
    BY <1>1, <1>3, <1>5, PieceWritten
  <1>7. \A i \in jobs' : i # j => Reached(i)' = Reached(i) /\ written'[i] = written[i]
    BY <1>1, <1>3 DEF WriteChunk, WriteError, WriteEnd, Reached, TypeOK
  <1>8. /\ \A i \in 1..Len(respQ) : respQ[i].chunk \in 0..Error /\ Rank(respQ[i].chunk) \in Nat
        /\ \A c \in Conns : \A k \in 1..Len(received[c]) : received[c][k].chunk \in 0..Error
        /\ Reached(j) \in Nat /\ Rank(chunk) \in Nat
    BY <1>1, <1>2, <1>3, RespType, ReceivedType DEF Rank, Reached
  <1>9. /\ \A i \in 1..Len(respQ) : respQ[i].job = j => Rank(respQ[i].chunk) < Rank(chunk)
        /\ \A c \in Conns : \A k \in 1..Len(received[c]) :
             received[c][k].job = j => received[c][k].chunk < Rank(chunk)
    <2>1. /\ \A i \in 1..Len(respQ) : respQ[i].job = j => Rank(respQ[i].chunk) <= Reached(j)
          /\ \A c \in Conns : \A k \in 1..Len(received[c]) :
               received[c][k].job = j => received[c][k].chunk <= Reached(j)
      BY <1>1, <1>3 DEF Order, WrittenSoFar
    <2>2. \A x \in Nat : x <= Reached(j) => x < Rank(chunk)
      BY <1>5, <1>8
    <2>3. ASSUME NEW i \in 1..Len(respQ), respQ[i].job = j
          PROVE  Rank(respQ[i].chunk) < Rank(chunk)
      BY <1>8, <2>1, <2>2, <2>3
    <2>4. ASSUME NEW c \in Conns, NEW k \in 1..Len(received[c]), received[c][k].job = j
          PROVE  received[c][k].chunk < Rank(chunk)
      <3>1. received[c][k].chunk \in Nat
        BY <1>8
      <3> QED
        BY <2>1, <2>2, <2>4, <3>1
    <2> QED
      BY <2>3, <2>4
  <1> HIDE DEF l
  <1>10. QueueRises'
    <2> SUFFICES ASSUME NEW k \in 1..Len(respQ'), NEW i \in 1..Len(respQ'), k < i,
                        respQ'[k].job = respQ'[i].job
                 PROVE  Rank(respQ'[k].chunk) < Rank(respQ'[i].chunk)
      BY DEF QueueRises, Rank
    <2>1. k \in 1..Len(respQ)
      BY <1>6 DEF l
    <2> QED
      BY <1>1, <1>6, <1>9, <2>1 DEF Order, QueueRises
  <1>11. ReceivedRises' /\ ReceivedPosted'
    BY <1>1, <1>4 DEF Order, ReceivedRises, ReceivedPosted, Posted
  <1>12. ReceivedBefore'
    <2> SUFFICES ASSUME NEW c \in Conns, NEW k \in 1..Len(received[c]), NEW i \in 1..Len(respQ'),
                        received[c][k].job = respQ'[i].job
                 PROVE  received[c][k].chunk < Rank(respQ'[i].chunk)
      BY <1>4 DEF ReceivedBefore, Rank
    <2>1. CASE i \in 1..Len(respQ) /\ respQ'[i] = respQ[i]
      BY <1>1, <2>1 DEF Order, ReceivedBefore
    <2>2. CASE respQ'[i].job = j /\ respQ'[i].chunk = chunk
      BY <1>9, <2>2
    <2> QED
      BY <1>6, <2>1, <2>2
  <1>13. WrittenSoFar'
    <2> SUFFICES ASSUME NEW h \in jobs'
                 PROVE  /\ \A i \in 1..Len(respQ') :
                             respQ'[i].job = h => Rank(respQ'[i].chunk) <= Reached(h)'
                        /\ \A c \in Conns : \A k \in 1..Len(received[c]) :
                             received[c][k].job = h => received[c][k].chunk <= Reached(h)'
      BY <1>4 DEF WrittenSoFar, Rank
    <2>1. CASE h = j
      <3>1. Reached(h)' = Rank(chunk)
        BY <1>5, <2>1
      <3>2. ASSUME NEW i \in 1..Len(respQ'), respQ'[i].job = h
            PROVE  Rank(respQ'[i].chunk) <= Rank(chunk)
        <4>1. CASE i \in 1..Len(respQ) /\ respQ'[i] = respQ[i]
          <5>1. Rank(respQ[i].chunk) < Rank(chunk) /\ Rank(respQ[i].chunk) \in Nat
            BY <1>8, <1>9, <2>1, <3>2, <4>1
          <5>2. \A m, n \in Nat : m < n => m <= n
            OBVIOUS
          <5> QED
            BY <1>8, <4>1, <5>1, <5>2
        <4>2. CASE respQ'[i].chunk = chunk
          <5>1. Rank(chunk) <= Rank(chunk)
            BY <1>8
          <5> QED
            BY <4>2, <5>1
        <4> QED
          BY <1>6, <4>1, <4>2
      <3>3. \A c \in Conns : \A k \in 1..Len(received[c]) :
              received[c][k].job = h => received[c][k].chunk <= Rank(chunk)
        BY <1>8, <1>9, <2>1
      <3> QED
        BY <3>1, <3>2, <3>3
    <2>2. CASE h # j
      <3>1. h \in jobs /\ Reached(h)' = Reached(h)
        BY <1>3, <1>7, <2>2
      <3> QED
        BY <1>1, <1>6, <2>2, <3>1 DEF Order, WrittenSoFar
    <2> QED
      BY <2>1, <2>2
  <1>14. UnwrittenRest'
    <2>1. \A i \in Jobs \ jobs' : i = j \/ i \in Jobs \ jobs
      BY DEF WriteChunk, WriteError, WriteEnd
    <2>2. \A i \in Jobs \ jobs' : written'[i] = IF i = j THEN 0 ELSE written[i]
      BY <1>3 DEF WriteChunk, WriteError, WriteEnd
    <2> QED
      BY <1>1, <2>1, <2>2 DEF Order, UnwrittenRest
  <1>15. ASSUME NEW c \in Conns, Intact(c)' PROVE QueueWhole(c)' /\ WrittenWhole(c)'
    <2>1. Intact(c)
      BY <1>4, <1>15 DEF Intact, handler
    <2>2. QueueWhole(c) /\ WrittenWhole(c)
      BY <2>1 DEF AnswerInv
    <2> DEFINE Now(h, n, m) ==
                 \/ Received(c, h, n, Len(received[c]))
                 \/ \E k \in 1..m : respQ'[k].job = h /\ respQ'[k].chunk = n
    <2>3. ASSUME NEW h, NEW n, NEW m \in 0..Len(respQ), Comes(c, h, n, m)
          PROVE  Now(h, n, m)
      <3>1. \A k \in 1..m : k \in 1..Len(respQ)
        BY <1>6
      <3> QED
        BY <1>6, <2>3, <3>1 DEF Comes, Ahead
    <2>4. QueueWhole(c)'
      <3> SUFFICES ASSUME NEW i \in 1..Len(respQ'), respQ'[i].job.conn = c,
                          respQ'[i].job \notin holed, respQ'[i].chunk # Error,
                          NEW n \in 1..(respQ'[i].chunk - 1)
                   PROVE  Now(respQ'[i].job, n, i - 1)
        BY <1>4 DEF QueueWhole, Comes, Received, Ahead
      <3>1. CASE i \in 1..Len(respQ)
        <4>1. respQ'[i] = respQ[i]
          BY <1>6, <3>1
        <4>2. Comes(c, respQ[i].job, n, i - 1)
          BY <2>2, <3>1, <4>1 DEF QueueWhole
        <4>3. i - 1 \in 0..Len(respQ)
          BY <1>6, <3>1
        <4> HIDE DEF Now
        <4>4. Now(respQ[i].job, n, i - 1)
          BY <2>3, <4>2, <4>3
        <4> QED
          BY <4>1, <4>4
      <3>2. CASE i = l
        <4>1. respQ'[i].job = j /\ respQ'[i].chunk = chunk /\ j.conn = c /\ j \notin holed
          BY <1>6, <3>2
        <4>2. chunk # Error /\ n \in 1..(chunk - 1)
          BY <4>1
        <4>3. chunk # End
          BY <1>2, <4>2
        <4>4. n \in 1..written[j]
          BY <1>3, <1>5, <4>2, <4>3
        <4>5. Comes(c, j, n, Len(respQ))
          BY <1>3, <2>2, <4>1, <4>4 DEF WrittenWhole
        <4>6. Len(respQ) \in 0..Len(respQ) /\ i - 1 = Len(respQ)
          BY <1>6, <3>2 DEF l
        <4> HIDE DEF Now
        <4>7. Now(j, n, Len(respQ))
          BY <2>3, <4>5, <4>6
        <4> QED
          BY <4>1, <4>6, <4>7
      <3> QED
        BY <1>6, <3>1, <3>2
    <2>5. WrittenWhole(c)'
      <3> SUFFICES ASSUME NEW h \in jobs', h.conn = c, h \notin holed, NEW n \in 1..written'[h]
                   PROVE  Comes(c, h, n, Len(respQ))'
        BY <1>4 DEF WrittenWhole
      <3>1. CASE h = j /\ n = chunk
        BY <1>6, <3>1 DEF Comes, Ahead
      <3>2. CASE n \in 1..written[h]
        <4>1. Comes(c, h, n, Len(respQ))
          BY <1>3, <2>2, <3>2 DEF WrittenWhole
        <4> QED
          BY <1>4, <1>6, <4>1 DEF Comes, Received, Ahead
      <3> QED
        BY <1>5, <1>7, <3>1, <3>2
    <2> QED
      BY <2>4, <2>5
  <1>16. ASSUME NEW c \in Conns \ shared' PROVE OwnWhole(c)'
    BY <1>4, <1>16 DEF AnswerInv, OwnWhole, Received
  <1> QED
    BY <1>10, <1>11, <1>12, <1>13, <1>14, <1>15, <1>16 DEF AnswerInv, Order

\* The broker delivers, to the connection that the piece is of, if nobody
\* shares the address.
LEMMA AnswerDelivers ==
    ASSUME AnswerInv, EntryInv', HandleResp
    PROVE  AnswerInv'
  <1>1. TypeInv /\ TypeOK /\ EntryInv /\ Order
    BY DEF AnswerInv, EntryInv, TypeInv
  <1> DEFINE m == respQ[1]
             e == m.job.conn
             r == [job |-> m.job, chunk |-> m.chunk]
  <1>2. /\ respQ # <<>> /\ respQ' = Tail(respQ)
        /\ UNCHANGED <<pc, addr, watcher, exited, cons, session, posted, jobs, written, failed, shared>>
    BY DEF HandleResp
  <1>3. /\ 1 \in 1..Len(respQ) /\ Head(respQ) = m
        /\ Len(respQ) \in Nat \ {0} /\ Len(respQ') = Len(respQ) - 1
        /\ \A i \in 1..Len(respQ') : i + 1 \in 1..Len(respQ) /\ respQ'[i] = respQ[i + 1]
        /\ \A i \in 1..Len(respQ) :
             i = 1 \/ (i - 1 \in 1..Len(respQ') /\ respQ'[i - 1] = respQ[i])
    BY <1>1, <1>2, PieceTaken
  <1>4. /\ m.job \in Jobs /\ m.chunk \in 0..Error /\ m.addr \in Addrs /\ m.addr = addr[e] /\ Posted(m.job)
        /\ e \in Conns /\ e \notin {None}
    BY <1>1, <1>3, RespType, HttpProxyAssumption DEF EntryInv, Piece, Jobs
  <1>5. PICK swallowed \in BOOLEAN :
            /\ received' = [c \in Conns |->
                 IF m.chunk # End /\ ~swallowed /\ c \in Receivers(m) /\ c \in open
                 THEN Append(received[c], r) ELSE received[c]]
            /\ open' \subseteq open /\ holed \subseteq holed'
            /\ swallowed => m.job \in holed'
    <2>1. Closes(m) \/ Delivers(m) \/ Swallows(m)
      BY <1>3 DEF HandleResp
    <2>2. received = [c \in Conns |-> received[c]]
      BY <1>1 DEF TypeOK
    <2>3. CASE Closes(m)
      BY <2>2, <2>3 DEF Closes
    <2>4. CASE Delivers(m)
      BY <2>4 DEF Delivers
    <2>5. CASE Swallows(m)
      BY <2>2, <2>5 DEF Swallows
    <2> QED
      BY <2>1, <2>3, <2>4, <2>5
  <1> HIDE DEF m
  <1>6. ASSUME NEW c \in Conns
        PROVE  \/ received'[c] = received[c]
               \/ /\ m.chunk # End /\ ~swallowed /\ c \in Receivers(m) /\ c \in open
                  /\ Len(received'[c]) = Len(received[c]) + 1
                  /\ \A k \in 1..Len(received[c]) :
                       k \in 1..Len(received'[c]) /\ received'[c][k] = received[c][k]
                  /\ received'[c][Len(received[c]) + 1] = r
                  /\ \A k \in 1..Len(received'[c]) : k \in 1..Len(received[c]) \/ k = Len(received[c]) + 1
    <2>1. received[c] \in Seq([job : Jobs, chunk : 0..Error]) /\ Len(received[c]) \in Nat
      BY <1>1, ReceivedType
    <2>2. r \in [job : Jobs, chunk : 0..Error]
      BY <1>4
    <2>3. CASE m.chunk # End /\ ~swallowed /\ c \in Receivers(m) /\ c \in open
      <3>1. received'[c] = Append(received[c], r)
        BY <1>5, <2>3
      <3>2. /\ Len(received'[c]) = Len(received[c]) + 1
            /\ \A k \in 1..Len(received[c]) : received'[c][k] = received[c][k]
            /\ received'[c][Len(received[c]) + 1] = r
        BY <2>1, <2>2, <3>1, AppendProperties
      <3>3. /\ \A k \in 1..Len(received[c]) : k \in 1..Len(received'[c])
            /\ \A k \in 1..Len(received'[c]) : k \in 1..Len(received[c]) \/ k = Len(received[c]) + 1
        BY <2>1, <3>2
      <3> QED
        BY <2>3, <3>2, <3>3
    <2>4. CASE ~(m.chunk # End /\ ~swallowed /\ c \in Receivers(m) /\ c \in open)
      BY <1>5, <2>4
    <2> QED
      BY <2>3, <2>4
  <1>7. m.chunk # End => Rank(m.chunk) = m.chunk
    BY DEF Rank
  <1>8. QueueRises'
    <2> SUFFICES ASSUME NEW k \in 1..Len(respQ'), NEW i \in 1..Len(respQ'), k < i,
                        respQ'[k].job = respQ'[i].job
                 PROVE  Rank(respQ'[k].chunk) < Rank(respQ'[i].chunk)
      BY DEF QueueRises, Rank
    <2>1. /\ k + 1 \in 1..Len(respQ) /\ respQ'[k] = respQ[k + 1]
          /\ i + 1 \in 1..Len(respQ) /\ respQ'[i] = respQ[i + 1] /\ k + 1 < i + 1
      BY <1>3
    <2> QED
      BY <1>1, <2>1 DEF Order, QueueRises
  <1>9. ReceivedRises'
    <2> SUFFICES ASSUME NEW c \in Conns, NEW k \in 1..Len(received'[c]), NEW i \in 1..Len(received'[c]),
                        k < i, received'[c][k].job = received'[c][i].job
                 PROVE  received'[c][k].chunk < received'[c][i].chunk
      BY DEF ReceivedRises
    <2>1. CASE received'[c] = received[c]
      BY <1>1, <2>1 DEF Order, ReceivedRises
    <2>2. CASE received'[c] # received[c]
      <3>0. Len(received[c]) \in Nat
        BY <1>1, ReceivedType
      <3>1. k \in 1..Len(received[c])
        BY <1>6, <2>2, <3>0
      <3>2. CASE i \in 1..Len(received[c])
        BY <1>1, <1>6, <2>2, <3>1, <3>2 DEF Order, ReceivedRises
      <3>3. CASE i = Len(received[c]) + 1
        <4>1. received'[c][i] = r /\ received'[c][k] = received[c][k] /\ m.chunk # End
          BY <1>6, <2>2, <3>1, <3>3
        <4>2. received[c][k].chunk < Rank(m.chunk)
          BY <1>1, <1>3, <3>1, <4>1 DEF Order, ReceivedBefore, m
        <4> QED
          BY <1>7, <4>1, <4>2
      <3> QED
        BY <1>6, <2>2, <3>2, <3>3
    <2> QED
      BY <2>1, <2>2
  <1>10. ReceivedBefore'
    <2> SUFFICES ASSUME NEW c \in Conns, NEW k \in 1..Len(received'[c]), NEW i \in 1..Len(respQ'),
                        received'[c][k].job = respQ'[i].job
                 PROVE  received'[c][k].chunk < Rank(respQ'[i].chunk)
      BY DEF ReceivedBefore, Rank
    <2>1. i + 1 \in 1..Len(respQ) /\ respQ'[i] = respQ[i + 1] /\ 1 < i + 1
      BY <1>3
    <2>2. CASE k \in 1..Len(received[c]) /\ received'[c][k] = received[c][k]
      BY <1>1, <2>1, <2>2 DEF Order, ReceivedBefore
    <2>3. CASE received'[c][k] = r /\ m.chunk # End
      <3>1. Rank(m.chunk) < Rank(respQ[i + 1].chunk)
        BY <1>1, <1>3, <2>1, <2>3 DEF Order, QueueRises, m
      <3> QED
        BY <1>7, <2>1, <2>3, <3>1
    <2> QED
      BY <1>6, <2>2, <2>3
  <1>11. WrittenSoFar'
    <2> SUFFICES ASSUME NEW h \in jobs
                 PROVE  /\ \A i \in 1..Len(respQ') :
                             respQ'[i].job = h => Rank(respQ'[i].chunk) <= Reached(h)
                        /\ \A c \in Conns : \A k \in 1..Len(received'[c]) :
                             received'[c][k].job = h => received'[c][k].chunk <= Reached(h)
      BY <1>2 DEF WrittenSoFar, Rank, Reached
    <2>1. /\ \A i \in 1..Len(respQ) : respQ[i].job = h => Rank(respQ[i].chunk) <= Reached(h)
          /\ \A c \in Conns : \A k \in 1..Len(received[c]) :
               received[c][k].job = h => received[c][k].chunk <= Reached(h)
      BY <1>1 DEF Order, WrittenSoFar
    <2>2. \A i \in 1..Len(respQ') : respQ'[i].job = h => Rank(respQ'[i].chunk) <= Reached(h)
      BY <1>3, <2>1
    <2>3. m.job = h => Rank(m.chunk) <= Reached(h)
      BY <1>3, <2>1 DEF m
    <2>4. ASSUME NEW c \in Conns, NEW k \in 1..Len(received'[c]), received'[c][k].job = h
          PROVE  received'[c][k].chunk <= Reached(h)
      <3>1. CASE k \in 1..Len(received[c]) /\ received'[c][k] = received[c][k]
        BY <2>1, <2>4, <3>1
      <3>2. CASE received'[c][k] = r /\ m.chunk # End
        BY <1>7, <2>3, <2>4, <3>2
      <3> QED
        BY <1>6, <3>1, <3>2
    <2> QED
      BY <2>2, <2>4
  <1>12. ReceivedPosted'
    <2> SUFFICES ASSUME NEW c \in Conns, NEW k \in 1..Len(received'[c])
                 PROVE  Posted(received'[c][k].job) /\ received'[c][k].chunk # End
      BY <1>2 DEF ReceivedPosted, Posted
    <2> QED
      BY <1>1, <1>4, <1>6 DEF Order, ReceivedPosted
  <1>13. UnwrittenRest'
    BY <1>1, <1>2 DEF Order, UnwrittenRest
  <1>14. ASSUME NEW c \in Conns, Intact(c)' PROVE QueueWhole(c)' /\ WrittenWhole(c)'
    <2>1. Intact(c)
      BY <1>2, <1>5, <1>14 DEF Intact
    <2>2. QueueWhole(c) /\ WrittenWhole(c)
      BY <2>1 DEF AnswerInv
    <2> DEFINE Left(h, n, l) ==
               \/ \E k \in 1..Len(received'[c]) : received'[c][k].job = h /\ received'[c][k].chunk = n
               \/ \E k \in 1..(l - 1) : respQ'[k].job = h /\ respQ'[k].chunk = n
    <2>3. ASSUME NEW h, h.conn = c, h \notin holed', NEW n \in Nat \ {0}, NEW l \in 1..Len(respQ), Comes(c, h, n, l)
          PROVE  Left(h, n, l)
      <3>1. CASE Received(c, h, n, Len(received[c]))
        BY <1>6, <3>1 DEF Received
      <3>2. ASSUME NEW k \in 1..l, k # 1, respQ[k].job = h, respQ[k].chunk = n
            PROVE  \E k0 \in 1..(l - 1) : respQ'[k0].job = h /\ respQ'[k0].chunk = n
        <4>1. k - 1 \in 1..(l - 1) /\ k \in 1..Len(respQ)
          BY <1>3, <3>2
        <4> QED
          BY <1>3, <3>2, <4>1
      <3>3. ASSUME m.job = h, m.chunk = n
            PROVE  \E k \in 1..Len(received'[c]) : received'[c][k].job = h /\ received'[c][k].chunk = n
        <4>1. e = c /\ m.chunk # End
          BY <2>3, <3>3 DEF End
        <4>2. c \in Receivers(m) /\ c \in open /\ ~swallowed
          BY <1>4, <1>5, <2>1, <2>3, <3>3, <4>1 DEF Receivers, Intact
        <4>3. received'[c] = Append(received[c], r)
          BY <1>5, <4>1, <4>2
        <4>4. received[c] \in Seq([job : Jobs, chunk : 0..Error]) /\ Len(received[c]) \in Nat
          BY <1>1, ReceivedType
        <4>5. r \in [job : Jobs, chunk : 0..Error]
          BY <1>4
        <4>6. /\ Len(received'[c]) = Len(received[c]) + 1
              /\ received'[c][Len(received[c]) + 1] = r
          BY <4>3, <4>4, <4>5, AppendProperties
        <4>7. Len(received[c]) + 1 \in 1..Len(received'[c])
          BY <4>4, <4>6
        <4> QED
          BY <3>3, <4>6, <4>7
      <3> QED
        BY <2>3, <3>1, <3>2, <3>3 DEF Comes, Ahead, m
    <2>4. QueueWhole(c)'
      <3> SUFFICES ASSUME NEW i \in 1..Len(respQ'), respQ'[i].job.conn = c,
                          respQ'[i].job \notin holed', respQ'[i].chunk # Error,
                          NEW n \in 1..(respQ'[i].chunk - 1)
                   PROVE  Left(respQ'[i].job, n, i)
        BY DEF QueueWhole, Comes, Received, Ahead
      <3> HIDE DEF Left
      <3> DEFINE h == respQ'[i].job
      <3>1. /\ i + 1 \in 1..Len(respQ) /\ respQ'[i] = respQ[i + 1]
            /\ i \in 1..Len(respQ) /\ (i + 1) - 1 = i /\ n \in Nat \ {0}
        BY <1>3
      <3>2. Comes(c, h, n, (i + 1) - 1)
        BY <1>5, <2>2, <3>1 DEF QueueWhole
      <3>3. Comes(c, h, n, i) /\ h.conn = c
        BY <3>1, <3>2
      <3> QED
        BY <2>3, <3>1, <3>3
    <2>5. WrittenWhole(c)'
      <3> SUFFICES ASSUME NEW h \in jobs, h.conn = c, h \notin holed', NEW n \in 1..written[h]
                   PROVE  Left(h, n, Len(respQ))
        <4>1. Len(respQ') = Len(respQ) - 1
          BY <1>3
        <4> QED
          BY <1>2, <4>1 DEF WrittenWhole, Comes, Received, Ahead
      <3> HIDE DEF Left
      <3>1. Comes(c, h, n, Len(respQ)) /\ Len(respQ) \in 1..Len(respQ) /\ n \in Nat \ {0}
        BY <1>3, <1>5, <2>2 DEF WrittenWhole
      <3> QED
        BY <2>3, <3>1
    <2> QED
      BY <2>4, <2>5
  <1>15. ASSUME NEW c \in Conns \ shared PROVE OwnWhole(c)'
    <2>1. OwnWhole(c) /\ Len(received[c]) \in Nat
      BY <1>1, <1>15, ReceivedType DEF AnswerInv
    <2>2. CASE received'[c] = received[c]
      <3> SUFFICES ASSUME NEW i \in 1..Len(received[c])
                   PROVE  /\ received[c][i].job.conn = c
                          /\ received[c][i].job \notin holed' /\ received[c][i].chunk # Error =>
                               \A n \in 1..(received[c][i].chunk - 1) :
                                 Received(c, received[c][i].job, n, i - 1)
        BY <2>2 DEF OwnWhole, Received
      <3> QED
        BY <1>5, <2>1 DEF OwnWhole
    <2>3. CASE received'[c] # received[c]
      <3>1. m.chunk # End /\ ~swallowed /\ c \in Receivers(m) /\ c \in open /\ cons[m.addr] = c
        BY <1>6, <2>3 DEF Receivers
      <3>2. e = c
        <4>1. addr[c] = m.addr /\ pc[c] \notin {"idle", "done"}
          BY <1>1, <1>4, <3>1 DEF EntryInv, Entered, Roles
        <4>2. UnderWay(c) /\ UnderWay(e)
          BY <1>3, <4>1 DEF UnderWay, m
        <4>3. addr[c] # None /\ addr[c] = addr[e]
          BY <1>4, <4>1, HttpProxyAssumption
        <4> QED
          BY <1>1, <1>4, <1>15, <4>2, <4>3 DEF EntryInv, Apart
      <3>3. Intact(c)
        BY <1>4, <1>15, <3>1, <3>2 DEF Intact
      <3>4. m.job \notin holed /\ m.chunk # Error => \A n \in 1..(m.chunk - 1) : Received(c, m.job, n, Len(received[c]))
        <4> SUFFICES ASSUME m.job \notin holed, m.chunk # Error, NEW n \in 1..(m.chunk - 1)
                     PROVE  Received(c, m.job, n, Len(received[c]))
          OBVIOUS
        <4>1. Comes(c, m.job, n, 1 - 1)
          BY <1>3, <3>2, <3>3 DEF AnswerInv, QueueWhole, m
        <4> QED
          BY <4>1 DEF Comes, Ahead
      <3> SUFFICES ASSUME NEW i \in 1..Len(received'[c])
                   PROVE  /\ received'[c][i].job.conn = c
                          /\ received'[c][i].job \notin holed' /\ received'[c][i].chunk # Error =>
                               \A n \in 1..(received'[c][i].chunk - 1) :
                                 \E k \in 1..(i - 1) : /\ received'[c][k].job = received'[c][i].job
                                                       /\ received'[c][k].chunk = n
        BY DEF OwnWhole, Received
      <3>5. CASE i \in 1..Len(received[c])
        <4>1. /\ received'[c][i] = received[c][i]
              /\ \A k \in 1..(i - 1) : k \in 1..Len(received[c])
          BY <1>6, <2>1, <2>3, <3>5
        <4>2. \A k \in 1..(i - 1) : received'[c][k] = received[c][k]
          BY <1>6, <2>3, <4>1
        <4>3. /\ received[c][i].job.conn = c
              /\ received[c][i].job \notin holed /\ received[c][i].chunk # Error =>
                   \A n \in 1..(received[c][i].chunk - 1) :
                     \E k \in 1..(i - 1) : /\ received[c][k].job = received[c][i].job
                                           /\ received[c][k].chunk = n
          BY <2>1, <3>5 DEF OwnWhole, Received
        <4> QED
          BY <1>5, <4>1, <4>2, <4>3
      <3>6. CASE i = Len(received[c]) + 1
        <4>1. received'[c][i] = r /\ i - 1 = Len(received[c])
          BY <1>6, <2>1, <2>3, <3>6
        <4>2. \A k \in 1..(i - 1) : received'[c][k] = received[c][k]
          BY <1>6, <2>3, <4>1
        <4> QED
          BY <1>5, <3>2, <3>4, <4>1, <4>2 DEF Received
      <3> QED
        BY <1>6, <2>3, <3>5, <3>6
    <2> QED
      BY <2>2, <2>3
  <1> QED
    BY <1>2, <1>8, <1>9, <1>10, <1>11, <1>12, <1>13, <1>14, <1>15 DEF AnswerInv, Order

\* The device program loses its connection or a message.  What is left of the
\* queue is its start, and an answer of which no chunk is lost has all of its
\* chunks there still.
LEMMA AnswerLost ==
    ASSUME AnswerInv, EntryInv', LoseConnection \/ \E j \in Jobs : TakenForTunnel(j)
    PROVE  AnswerInv'
  <1>1. TypeInv /\ TypeOK /\ EntryInv /\ Order
    BY DEF AnswerInv, EntryInv, TypeInv
  <1>2. PICK l \in 0..Len(respQ) :
             /\ Len(respQ) \in Nat /\ Len(respQ') = l
             /\ \A i \in 1..l : i \in 1..Len(respQ) /\ respQ'[i] = respQ[i]
             /\ \A i \in 1..Len(respQ) :
                  respQ[i].chunk \in 1..MaxChunks => i \in 1..l \/ respQ[i].job \in holed'
             /\ holed \subseteq holed'
             /\ jobs' \subseteq jobs /\ failed' = failed
             /\ \A j \in jobs \ jobs' : written[j] = 0
             /\ UNCHANGED <<handler, cons, session, posted, written, received, shared>>
    BY <1>1, Dropped
  <1>3. QueueRises' /\ ReceivedRises' /\ ReceivedBefore' /\ ReceivedPosted'
    <2>1. QueueRises /\ ReceivedRises /\ ReceivedBefore /\ ReceivedPosted
      BY <1>1 DEF Order
    <2>2. QueueRises'
      BY <1>2, <2>1 DEF QueueRises, Rank
    <2>3. ReceivedBefore'
      BY <1>2, <2>1 DEF ReceivedBefore, Rank
    <2>4. ReceivedRises' /\ ReceivedPosted'
      BY <1>2, <2>1 DEF ReceivedRises, ReceivedPosted, Posted
    <2> QED
      BY <2>2, <2>3, <2>4
  <1>4. WrittenSoFar'
    BY <1>1, <1>2 DEF Order, WrittenSoFar, Reached, Rank
  <1>5. UnwrittenRest'
    BY <1>1, <1>2 DEF Order, UnwrittenRest
  <1>6. ASSUME NEW c \in Conns, Intact(c)' PROVE QueueWhole(c)' /\ WrittenWhole(c)'
    <2>1. QueueWhole(c) /\ WrittenWhole(c)
      BY <1>2, <1>6 DEF AnswerInv, Intact, handler
    <2>2. QueueWhole(c)'
      <3> SUFFICES ASSUME NEW i \in 1..l, respQ[i].job.conn = c, respQ[i].job \notin holed,
                          respQ[i].chunk # Error, NEW n \in 1..(respQ[i].chunk - 1)
                   PROVE  Comes(c, respQ[i].job, n, i - 1)'
        BY <1>2 DEF QueueWhole, Comes, Received, Ahead
      <3>1. Comes(c, respQ[i].job, n, i - 1)
        BY <1>2, <2>1 DEF QueueWhole
      <3>2. \A k \in 1..(i - 1) : respQ'[k] = respQ[k]
        BY <1>2
      <3> QED
        BY <1>2, <3>1, <3>2 DEF Comes, Received, Ahead
    <2>3. WrittenWhole(c)'
      <3> SUFFICES ASSUME NEW j \in jobs, j.conn = c, j \notin holed', NEW n \in 1..written[j]
                   PROVE  Comes(c, j, n, Len(respQ))'
        BY <1>2 DEF WrittenWhole
      <3>1. Comes(c, j, n, Len(respQ))
        BY <1>2, <2>1 DEF WrittenWhole
      <3>2. n \in 1..MaxChunks
        BY <1>1, HttpProxyAssumption DEF TypeOK
      <3>3. \A k \in 1..Len(respQ) : respQ[k].job = j /\ respQ[k].chunk = n =>
              k \in 1..Len(respQ') /\ respQ'[k] = respQ[k]
        BY <1>2, <3>2
      <3> QED
        BY <1>2, <3>1, <3>3 DEF Comes, Received, Ahead
    <2> QED
      BY <2>2, <2>3
  <1>7. \A c \in Conns \ shared' : OwnWhole(c)'
    BY <1>2 DEF AnswerInv, OwnWhole, Received
  <1> QED
    BY <1>3, <1>4, <1>5, <1>6, <1>7 DEF AnswerInv, Order

LEMMA AnswerNext == AnswerInv /\ [Next]_vars => AnswerInv'
  <1> SUFFICES ASSUME AnswerInv, [Next]_vars PROVE AnswerInv'
    OBVIOUS
  <1>1. EntryInv /\ EntryInv'
    BY EntryNext DEF AnswerInv
  <1>2. ASSUME NEW d \in Conns,
               \/ \E a \in Addrs : Connect(d, a)
               \/ Refuse(d) \/ Web(d) \/ PortServe(d) \/ Leaves(d)
        PROVE  AnswerInv'
    <2>1. UNCHANGED <<posted, jobs, written, failed, respQ, received, holed>>
      BY <1>2, ConnsOnly
    <2>2. shared \subseteq shared'
      BY <1>2 DEF Connect, Refuse, Web, WebStore, WebServe, Watcher, WatcherWakes, WatcherDeletes,
          PortServe, Leaves, WebLeaves, PortLeaves, PortCloses, history
    <2>3. \A c \in Conns : Intact(c)' => Intact(c) \/ posted[c] = 0
      BY <1>1, <1>2, IntactBefore
    <2> QED
      BY <1>1, <2>1, <2>2, <2>3, AnswerKept
  <1>3. ASSUME NEW d \in Conns, Post(d) PROVE AnswerInv'
    <2>1. UNCHANGED <<handler, cons, written, failed, respQ, received, shared, holed>>
      BY <1>3 DEF Post, history
    <2>2. \A c \in Conns : Intact(c)' => Intact(c)
      BY <2>1 DEF Intact, handler
    <2> QED
      BY <1>1, <1>3, <2>1, <2>2, AnswerKept
  <1>4. ASSUME CloseSession \/ DeleteSession \/ UNCHANGED vars PROVE AnswerInv'
    <2>1. UNCHANGED <<handler, cons, posted, device, received, shared, holed>>
      BY <1>4 DEF CloseSession, DeleteSession, vars, history
    <2>2. \A c \in Conns : Intact(c)' => Intact(c)
      BY <2>1 DEF Intact, handler
    <2> QED
      BY <1>1, <2>1, <2>2, AnswerKept DEF device
  <1> QED
    BY <1>1, <1>2, <1>3, <1>4, AnswerWrites, AnswerDelivers, AnswerLost DEF Next

\* The chunks received before the n-th of an answer are as many as it says.
LEMMA EarlierCounted ==
    ASSUME AnswerInv, NEW c \in Conns \ shared, NEW i \in 1..Len(received[c]),
           received[c][i].job \notin holed, received[c][i].chunk # Error
    PROVE  received[c][i].chunk = Cardinality(Earlier(c, i)) + 1
  <1> DEFINE n == received[c][i].chunk
             E == Earlier(c, i)
             T == 1..(n - 1)
             f == [k \in E |-> received[c][k].chunk]
  <1>1. TypeOK /\ ReceivedRises /\ ReceivedPosted /\ OwnWhole(c)
    BY DEF AnswerInv, EntryInv, TypeInv, Order
  <1>2. /\ Len(received[c]) \in Nat
        /\ \A k \in 1..Len(received[c]) :
             received[c][k].chunk \in 0..Error /\ received[c][k].chunk # 0
    BY <1>1, ReceivedType DEF ReceivedPosted, End
  <1>3. Error \in Nat /\ n \in Nat \ {0}
    BY <1>2, HttpProxyAssumption DEF Error
  <1>4. \A k \in E : /\ k \in 1..Len(received[c]) /\ k \in Nat /\ k < i
                     /\ received[c][k].job = received[c][i].job
    BY <1>2 DEF Earlier
  <1>5. \A k \in E : received[c][k].chunk < n
    BY <1>1, <1>4 DEF ReceivedRises
  <1>6. f \in [E -> T]
    BY <1>2, <1>3, <1>4, <1>5
  <1>7. ASSUME NEW k \in E, NEW l \in E, f[k] = f[l] PROVE k = l
    <2>1. k \in 1..Len(received[c]) /\ l \in 1..Len(received[c])
          /\ received[c][k].job = received[c][l].job /\ k \in Nat /\ l \in Nat
      BY <1>4
    <2>2. /\ k < l => received[c][k].chunk < received[c][l].chunk
          /\ l < k => received[c][l].chunk < received[c][k].chunk
      BY <1>1, <2>1 DEF ReceivedRises
    <2>3. received[c][k].chunk = received[c][l].chunk /\ received[c][k].chunk \in Nat
      BY <1>2, <1>3, <1>7, <2>1
    <2> QED
      BY <2>1, <2>2, <2>3
  <1>8. ASSUME NEW t \in T PROVE \E k \in E : f[k] = t
    <2>1. PICK k \in 1..(i - 1) :
              received[c][k].job = received[c][i].job /\ received[c][k].chunk = t
      BY <1>1 DEF OwnWhole, Received
    <2>2. k \in E
      BY <2>1 DEF Earlier
    <2> QED
      BY <2>1, <2>2
  <1> HIDE DEF f
  <1>9. ExistsBijection(E, T)
    <2>1. f \in Bijection(E, T)
      BY <1>6, <1>7, <1>8, Fun_IsBij
    <2> QED
      BY <2>1, Fun_ExistsBij
  <1>10. IsFiniteSet(E)
    <2>1. E \in SUBSET (1..(i - 1)) /\ i - 1 \in Int /\ 1 \in Int
      BY <1>2 DEF Earlier
    <2> QED
      BY <2>1, FS_Interval, FS_Subset
  <1>11. Cardinality(T) = Cardinality(E)
    BY <1>9, <1>10, FS_Bijection
  <1>12. Cardinality(T) = n - 1
    <2>1. n - 1 \in Int /\ 1 \in Int /\ (1 > n - 1 => n = 1)
      BY <1>3
    <2>2. Cardinality(1..(n - 1)) = IF 1 > n - 1 THEN 0 ELSE (n - 1) - 1 + 1
      BY <2>1, FS_Interval
    <2> QED
      BY <1>3, <2>1, <2>2
  <1> QED
    BY <1>3, <1>11, <1>12

\* A connection whose address is its own receives answers to its own messages
\* only, the pieces of each in the order in which they were written, and without
\* a gap unless a chunk of the answer is lost: what is under way is on its way
\* to it, or is dropped from some piece on.
THEOREM RepliesOwn == Spec => []ReplyIsOwn
  <1>1. AnswerInv => ReplyIsOwn
    <2> SUFFICES ASSUME AnswerInv, NEW c \in Conns \ shared, NEW i \in 1..Len(received[c])
                 PROVE  /\ received[c][i].job.conn = c
                        /\ \A k \in Earlier(c, i) : received[c][k].chunk < received[c][i].chunk
                        /\ received[c][i].job \notin holed =>
                             received[c][i].chunk \in {Cardinality(Earlier(c, i)) + 1, Error}
      BY DEF ReplyIsOwn
    <2>1. received[c][i].job.conn = c
      BY DEF AnswerInv, OwnWhole
    <2>2. ASSUME received[c][i].job \notin holed
          PROVE  received[c][i].chunk \in {Cardinality(Earlier(c, i)) + 1, Error}
      BY <2>2, EarlierCounted
    <2>3. ASSUME NEW k \in Earlier(c, i) PROVE received[c][k].chunk < received[c][i].chunk
      <3>1. TypeOK /\ ReceivedRises
        BY DEF AnswerInv, EntryInv, TypeInv, Order
      <3>2. /\ k \in 1..Len(received[c]) /\ k < i
            /\ received[c][k].job = received[c][i].job
        BY <3>1, ReceivedType DEF Earlier
      <3> QED
        BY <3>1, <3>2 DEF ReceivedRises
    <2> QED
      BY <2>1, <2>2, <2>3
  <1> QED
    BY <1>1, AnswerInit, AnswerNext, PTL DEF Spec
=============================================================================
