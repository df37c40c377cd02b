----------------------------- MODULE RelayProofs -----------------------------
(* Theorems about Relay, for any number of clients and any capacities:     *)
(* type correctness, whose timer a crash takes, and that keys and output   *)
(* arrive in order.                                                        *)
EXTENDS Relay, SequenceTheorems, TLAPS

(***************************************************************************)
(* What a queue of messages holds for one source: a user or a stream.      *)
(***************************************************************************)

Sources == Clients \cup Streams

In(n, u, q) == \E i \in 1..Len(q) : q[i] = <<u, n>>

Rising(u, q) ==
    \A i, j \in 1..Len(q) :
        (i < j /\ q[i][1] = u /\ q[j][1] = u /\ q[i][2] > 0 /\ q[j][2] > 0) => q[i][2] < q[j][2]

\* The keys, or pieces, of u that q holds are k+1 to top, in order.
Holds(q, u, k, top) == Rising(u, q) /\ \A n \in Nat \ {0} : In(n, u, q) <=> k < n /\ n <= top

\* An empty queue.
LEMMA HoldsNothing == \A u : \A k \in Nat : Holds(<<>>, u, k, k)
  BY EmptySeq DEF Holds, Rising, In

\* What Append puts at the end of a queue of messages.
LEMMA AppendMsg ==
    ASSUME NEW q \in Seq(Msg), NEW m \in Msg
    PROVE  /\ Append(q, m) \in Seq(Msg)
           /\ \A n, u : In(n, u, Append(q, m)) <=> In(n, u, q) \/ m = <<u, n>>
           /\ \A u : Rising(u, q) /\ (\A n \in Nat \ {0} : In(n, u, q) => n < m[2]) => Rising(u, Append(q, m))
           /\ \A u : Rising(u, q) /\ (m[1] # u \/ m[2] = 0) => Rising(u, Append(q, m))
  <1>1. /\ Append(q, m) \in Seq(Msg)
        /\ Len(q) \in Nat /\ Len(Append(q, m)) = Len(q) + 1
        /\ \A i \in 1..Len(q) : Append(q, m)[i] = q[i]
        /\ Append(q, m)[Len(q) + 1] = m
    BY AppendProperties, LenProperties
  <1>2. \A i \in 1..Len(Append(q, m)) : i \in 1..Len(q) \/ i = Len(q) + 1
    BY <1>1
  <1>3. \A i \in 1..Len(q) : i \in 1..Len(Append(q, m)) /\ i < Len(q) + 1
    BY <1>1
  <1>4. Len(q) + 1 \in 1..Len(Append(q, m))
    BY <1>1
  <1>5. \A n, u : In(n, u, Append(q, m)) <=> In(n, u, q) \/ m = <<u, n>>
    BY <1>1, <1>2, <1>3, <1>4 DEF In
  <1>6. \A i \in 1..Len(q) : q[i] \in Msg /\ q[i] = <<q[i][1], q[i][2]>> /\ q[i][2] \in Nat
    BY ElementOfSeq DEF Msg
  <1>7. ASSUME NEW u, Rising(u, q), \A n \in Nat \ {0} : In(n, u, q) => n < m[2]
        PROVE  Rising(u, Append(q, m))
    <2>1. \A i \in 1..Len(q) : (q[i][1] = u /\ q[i][2] > 0) => q[i][2] < m[2]
      BY <1>6, <1>7 DEF In
    <2> SUFFICES ASSUME NEW i \in 1..Len(Append(q, m)), NEW j \in 1..Len(Append(q, m)), i < j,
                        Append(q, m)[i][1] = u, Append(q, m)[j][1] = u,
                        Append(q, m)[i][2] > 0, Append(q, m)[j][2] > 0
                 PROVE  Append(q, m)[i][2] < Append(q, m)[j][2]
      BY DEF Rising
    <2>2. i \in 1..Len(q)
      BY <1>1, <1>2
    <2> QED
      BY <1>1, <1>2, <1>7, <2>1, <2>2 DEF Rising
  <1>8. ASSUME NEW u, Rising(u, q), m[1] # u \/ m[2] = 0
        PROVE  Rising(u, Append(q, m))
    BY <1>1, <1>2, <1>8 DEF Rising, Msg
  <1> QED
    BY <1>1, <1>5, <1>7, <1>8

\* What taking the head leaves.
LEMMA TailMsg ==
    ASSUME NEW q \in Seq(Msg), q # <<>>
    PROVE  /\ Head(q) \in Msg /\ Tail(q) \in Seq(Msg)
           /\ \A n, u : In(n, u, q) <=> In(n, u, Tail(q)) \/ Head(q) = <<u, n>>
           /\ \A u : Rising(u, q) => Rising(u, Tail(q))
           /\ \A u : Rising(u, q) /\ Head(q)[1] = u /\ Head(q)[2] > 0
                => \A n \in Nat \ {0} : In(n, u, Tail(q)) => Head(q)[2] < n
  <1>1. /\ Head(q) = q[1] /\ Head(q) \in Msg /\ Tail(q) \in Seq(Msg)
        /\ Len(q) \in Nat \ {0} /\ Len(Tail(q)) = Len(q) - 1
        /\ \A i \in 1..Len(Tail(q)) : Tail(q)[i] = q[i + 1]
    BY HeadTailProperties, EmptySeq
  <1>2. \A i \in 1..Len(Tail(q)) : i + 1 \in 1..Len(q) /\ 1 < i + 1
    BY <1>1
  <1>3. \A i \in 1..Len(q) : i = 1 \/ (i - 1 \in 1..Len(Tail(q)) /\ (i - 1) + 1 = i)
    BY <1>1
  <1>4. 1 \in 1..Len(q)
    BY <1>1
  <1>5. ASSUME NEW n, NEW u PROVE In(n, u, q) <=> In(n, u, Tail(q)) \/ Head(q) = <<u, n>>
    <2>1. ASSUME NEW i \in 1..Len(q), q[i] = <<u, n>>
          PROVE  In(n, u, Tail(q)) \/ Head(q) = <<u, n>>
      <3>1. CASE i = 1
        BY <1>1, <2>1, <3>1
      <3>2. CASE i - 1 \in 1..Len(Tail(q)) /\ (i - 1) + 1 = i
        <4>1. Tail(q)[i - 1] = q[i]
          BY <1>1, <3>2
        <4> QED
          BY <2>1, <3>2, <4>1 DEF In
      <3> QED
        BY <1>3, <3>1, <3>2
    <2>2. In(n, u, Tail(q)) \/ Head(q) = <<u, n>> => In(n, u, q)
      BY <1>1, <1>2, <1>4 DEF In
    <2> QED
      BY <2>1, <2>2 DEF In
  <1>6. ASSUME NEW u, Rising(u, q) PROVE Rising(u, Tail(q))
    <2>1. \A i, j \in 1..Len(Tail(q)) : i < j => i + 1 < j + 1
      BY <1>1
    <2> QED
      BY <1>1, <1>2, <1>6, <2>1 DEF Rising
  <1>7. ASSUME NEW u, Rising(u, q), Head(q)[1] = u, Head(q)[2] > 0,
               NEW n \in Nat \ {0}, In(n, u, Tail(q))
        PROVE  Head(q)[2] < n
    <2>1. PICK i \in 1..Len(Tail(q)) : Tail(q)[i] = <<u, n>>
      BY <1>7 DEF In
    <2>2. q[i + 1] = <<u, n>> /\ i + 1 \in 1..Len(q) /\ 1 < i + 1
      BY <1>1, <1>2, <2>1
    <2> QED
      BY <1>1, <1>4, <1>7, <2>2 DEF Rising
  <1> QED
    BY <1>1, <1>5, <1>6, <1>7

\* A queue that holds k+1 to top is given top+1, or a message of no concern.
LEMMA HoldsAppend ==
    ASSUME NEW q \in Seq(Msg), NEW u \in Sources, NEW k \in Nat, NEW top \in Nat, Holds(q, u, k, top)
    PROVE  /\ k <= top => Holds(Append(q, <<u, top + 1>>), u, k, top + 1)
           /\ \A m \in Msg : m[1] # u \/ m[2] = 0 => Holds(Append(q, m), u, k, top)
  <1>1. <<u, top + 1>> \in Msg
    BY DEF Msg, Sources
  <1>2. ASSUME k <= top PROVE Holds(Append(q, <<u, top + 1>>), u, k, top + 1)
    <2>1. \A n \in Nat \ {0} : In(n, u, q) => n < <<u, top + 1>>[2]
      BY DEF Holds
    <2>2. \A n \in Nat \ {0} : In(n, u, Append(q, <<u, top + 1>>)) <=> k < n /\ n <= top + 1
      <3> SUFFICES ASSUME NEW n \in Nat \ {0}
                   PROVE  In(n, u, Append(q, <<u, top + 1>>)) <=> k < n /\ n <= top + 1
        OBVIOUS
      <3>1. In(n, u, Append(q, <<u, top + 1>>)) <=> (k < n /\ n <= top) \/ n = top + 1
        BY <1>1, AppendMsg DEF Holds
      <3> QED
        BY <1>2, <3>1
    <2> QED
      BY <1>1, <2>1, <2>2, AppendMsg DEF Holds
  <1>3. ASSUME NEW m \in Msg, m[1] # u \/ m[2] = 0
        PROVE  Holds(Append(q, m), u, k, top)
    <2>1. \A n \in Nat \ {0} : m # <<u, n>>
      BY <1>3
    <2> QED
      BY <1>3, <2>1, AppendMsg DEF Holds
  <1> QED
    BY <1>2, <1>3

\* The first of u that is taken is k+1.
LEMMA HoldsTail ==
    ASSUME NEW q \in Seq(Msg), q # <<>>, NEW u \in Sources, NEW k \in Nat, NEW top \in Nat,
           Holds(q, u, k, top)
    PROVE  /\ Head(q)[1] = u /\ Head(q)[2] > 0 =>
                Head(q)[2] = k + 1 /\ k + 1 <= top /\ Holds(Tail(q), u, k + 1, top)
           /\ Head(q)[1] # u \/ Head(q)[2] = 0 => Holds(Tail(q), u, k, top)
  <1>1. Head(q) \in Msg /\ Head(q) = <<Head(q)[1], Head(q)[2]>> /\ Head(q)[2] \in Nat
    BY TailMsg DEF Msg
  <1>2. Rising(u, Tail(q)) /\ \A n \in Nat \ {0} : In(n, u, q) <=> In(n, u, Tail(q)) \/ Head(q) = <<u, n>>
    BY TailMsg DEF Holds
  <1>3. ASSUME Head(q)[1] = u, Head(q)[2] > 0
        PROVE  Head(q)[2] = k + 1 /\ k + 1 <= top /\ Holds(Tail(q), u, k + 1, top)
    <2> DEFINE h == Head(q)[2]
    <2>0. h \in Nat \ {0} /\ Head(q) = <<u, h>>
      BY <1>1, <1>3
    <2>1. \A n \in Nat \ {0} : In(n, u, Tail(q)) => h < n
      BY <1>3, TailMsg DEF Holds
    <2>2. \A n \in Nat \ {0} : Head(q) = <<u, n>> <=> n = h
      BY <2>0
    <2> HIDE DEF h
    <2>3. \A n \in Nat \ {0} : (k < n /\ n <= top) <=> (In(n, u, Tail(q)) \/ n = h)
      BY <1>2, <2>2 DEF Holds
    <2>4. k < h /\ h <= top
      BY <2>0, <2>3
    <2>5. k + 1 \in Nat \ {0} /\ k < k + 1 /\ k + 1 <= top
      BY <2>0, <2>4
    <2>6. h = k + 1
      BY <2>0, <2>1, <2>3, <2>4, <2>5
    <2>7. ASSUME NEW n \in Nat \ {0} PROVE In(n, u, Tail(q)) <=> k + 1 < n /\ n <= top
      BY <2>1, <2>3, <2>6
    <2> QED
      BY <1>2, <2>5, <2>6, <2>7 DEF Holds, h
  <1>4. ASSUME Head(q)[1] # u \/ Head(q)[2] = 0
        PROVE  Holds(Tail(q), u, k, top)
    <2>1. \A n \in Nat \ {0} : Head(q) # <<u, n>>
      BY <1>4
    <2> QED
      BY <1>2, <2>1 DEF Holds
  <1> QED
    BY <1>3, <1>4

-----------------------------------------------------------------------------
(* A line takes the numbered messages of one user u through the broker: k  *)
(* have arrived, s is the channel of the client they go to, w the one that *)
(* the broker waits to write to it, if it is not 0, q is the broker's      *)
(* queue, and top have been sent.  What s and q hold joins up while        *)
(* deliver (the client is read, and somebody takes them there) and accept  *)
(* (the broker finds the session).  Both only ever end: what is lost after *)
(* that is followed by nothing that arrives.                               *)
Line(u, k, s, w, q, top, deliver, accept) ==
    \E a, b \in Nat :
        /\ b <= top
        /\ Holds(q, u, b, top)
        /\ deliver => k <= a /\ Holds(s, u, k, a) /\ w \in {0, a + 1}
        /\ deliver /\ accept => b = IF w = 0 THEN a ELSE w

LEMMA LineStarts ==
    ASSUME NEW u \in Sources, NEW deliver, NEW accept
    PROVE  Line(u, 0, <<>>, 0, <<>>, 0, deliver, accept)
  BY HoldsNothing DEF Line

\* Nobody delivers or accepts again.
LEMMA LineEnds ==
    ASSUME NEW u, NEW k, NEW s, NEW w, NEW q, NEW top, NEW deliver, NEW accept,
           Line(u, k, s, w, q, top, deliver, accept)
    PROVE  /\ \A d, a : (d => deliver) /\ (a => accept) => Line(u, k, s, w, q, top, d, a)
           /\ \A i, c, v, d, a : ~d => Line(u, i, c, v, q, top, d, a)
  <1>1. PICK a, b \in Nat :
           /\ b <= top
           /\ Holds(q, u, b, top)
           /\ deliver => k <= a /\ Holds(s, u, k, a) /\ w \in {0, a + 1}
           /\ deliver /\ accept => b = IF w = 0 THEN a ELSE w
    BY DEF Line
  <1>2. ASSUME NEW d, NEW c, d => deliver, c => accept
        PROVE  Line(u, k, s, w, q, top, d, c)
    <2>1. d => k <= a /\ Holds(s, u, k, a) /\ w \in {0, a + 1}
      BY <1>1, <1>2
    <2>2. d /\ c => b = IF w = 0 THEN a ELSE w
      BY <1>1, <1>2
    <2> QED
      BY <1>1, <2>1, <2>2 DEF Line
  <1>3. ASSUME NEW i, NEW c, NEW v, NEW d, NEW e, ~d
        PROVE  Line(u, i, c, v, q, top, d, e)
    BY <1>1, <1>3 DEF Line
  <1> QED
    BY <1>2, <1>3

\* The sender posts its next message; others post theirs.
LEMMA LinePosts ==
    ASSUME NEW u \in Sources, NEW k, NEW s, NEW w, NEW q \in Seq(Msg), NEW top \in Nat,
           NEW deliver, NEW accept,
           Line(u, k, s, w, q, top, deliver, accept)
    PROVE  /\ Line(u, k, s, w, Append(q, <<u, top + 1>>), top + 1, deliver, accept)
           /\ \A m \in Msg : m[1] # u \/ m[2] = 0 => Line(u, k, s, w, Append(q, m), top, deliver, accept)
  <1>1. PICK a, b \in Nat :
           /\ b <= top
           /\ Holds(q, u, b, top)
           /\ deliver => k <= a /\ Holds(s, u, k, a) /\ w \in {0, a + 1}
           /\ deliver /\ accept => b = IF w = 0 THEN a ELSE w
    BY DEF Line
  <1>2. Holds(Append(q, <<u, top + 1>>), u, b, top + 1)
    BY <1>1, HoldsAppend
  <1>3. b <= top + 1
    BY <1>1
  <1>4. Line(u, k, s, w, Append(q, <<u, top + 1>>), top + 1, deliver, accept)
    BY <1>1, <1>2, <1>3 DEF Line
  <1>5. ASSUME NEW m \in Msg, m[1] # u \/ m[2] = 0
        PROVE  Line(u, k, s, w, Append(q, m), top, deliver, accept)
    <2>1. Holds(Append(q, m), u, b, top)
      BY <1>1, <1>5, HoldsAppend
    <2> QED
      BY <1>1, <2>1 DEF Line
  <1> QED
    BY <1>4, <1>5

\* Messages of no concern go through the channel.
LEMMA LinePasses ==
    ASSUME NEW u \in Sources, NEW k \in Nat, NEW s \in Seq(Msg), NEW w, NEW q, NEW top,
           NEW deliver, NEW accept,
           Line(u, k, s, w, q, top, deliver, accept)
    PROVE  /\ \A m \in Msg : m[1] # u \/ m[2] = 0 => Line(u, k, Append(s, m), w, q, top, deliver, accept)
           /\ s # <<>> /\ (Head(s)[1] # u \/ Head(s)[2] = 0) => Line(u, k, Tail(s), w, q, top, deliver, accept)
  <1>1. PICK a, b \in Nat :
           /\ b <= top
           /\ Holds(q, u, b, top)
           /\ deliver => k <= a /\ Holds(s, u, k, a) /\ w \in {0, a + 1}
           /\ deliver /\ accept => b = IF w = 0 THEN a ELSE w
    BY DEF Line
  <1>2. ASSUME NEW m \in Msg, m[1] # u \/ m[2] = 0
        PROVE  Line(u, k, Append(s, m), w, q, top, deliver, accept)
    <2>1. deliver => Holds(Append(s, m), u, k, a)
      BY <1>1, <1>2, HoldsAppend
    <2> QED
      BY <1>1, <2>1 DEF Line
  <1>3. ASSUME s # <<>>, Head(s)[1] # u \/ Head(s)[2] = 0
        PROVE  Line(u, k, Tail(s), w, q, top, deliver, accept)
    <2>1. deliver => Holds(Tail(s), u, k, a)
      BY <1>1, <1>3, HoldsTail
    <2> QED
      BY <1>1, <2>1 DEF Line
  <1> QED
    BY <1>2, <1>3

\* What is delivered is the next one.
LEMMA LineDelivers ==
    ASSUME NEW u \in Sources, NEW k \in Nat, NEW s \in Seq(Msg), NEW w, NEW q, NEW top,
           NEW deliver, NEW accept,
           Line(u, k, s, w, q, top, deliver, accept),
           deliver, s # <<>>, Head(s)[1] = u, Head(s)[2] > 0
    PROVE  Head(s)[2] = k + 1 /\ Line(u, k + 1, Tail(s), w, q, top, deliver, accept)
  <1>1. PICK a, b \in Nat :
           /\ b <= top
           /\ Holds(q, u, b, top)
           /\ deliver => k <= a /\ Holds(s, u, k, a) /\ w \in {0, a + 1}
           /\ deliver /\ accept => b = IF w = 0 THEN a ELSE w
    BY DEF Line
  <1>2. Head(s)[2] = k + 1 /\ k + 1 <= a /\ Holds(Tail(s), u, k + 1, a)
    BY <1>1, HoldsTail
  <1> QED
    BY <1>1, <1>2 DEF Line

\* The broker takes a message: one of u is lost, or written, or waits.
LEMMA LineServes ==
    ASSUME NEW u \in Sources, NEW k \in Nat, NEW s \in Seq(Msg), NEW q \in Seq(Msg), q # <<>>, NEW top \in Nat,
           NEW deliver, NEW accept,
           Line(u, k, s, 0, q, top, deliver, accept)
    PROVE  /\ Head(q)[1] # u \/ Head(q)[2] = 0 \/ ~deliver \/ ~accept
                => Line(u, k, s, 0, Tail(q), top, deliver, accept)
           /\ Head(q)[1] = u /\ deliver /\ accept
                => /\ Line(u, k, Append(s, Head(q)), 0, Tail(q), top, deliver, accept)
                   /\ Line(u, k, s, Head(q)[2], Tail(q), top, deliver, accept)
  <1>1. PICK a, b \in Nat :
           /\ b <= top
           /\ Holds(q, u, b, top)
           /\ deliver => k <= a /\ Holds(s, u, k, a)
           /\ deliver /\ accept => b = a
    BY DEF Line
  <1>2. Head(q) \in Msg /\ Head(q)[2] \in Nat
    BY TailMsg DEF Msg
  <1>3. CASE Head(q)[1] # u \/ Head(q)[2] = 0
    <2>1. Holds(Tail(q), u, b, top)
      BY <1>1, <1>3, HoldsTail
    <2>2. Line(u, k, s, 0, Tail(q), top, deliver, accept)
      BY <1>1, <2>1 DEF Line
    <2>3. Line(u, k, Append(s, Head(q)), 0, Tail(q), top, deliver, accept)
      BY <1>2, <1>3, <2>2, LinePasses
    <2> QED
      BY <1>3, <2>2, <2>3
  <1>4. CASE Head(q)[1] = u /\ Head(q)[2] # 0
    <2>0. Head(q)[2] > 0 /\ Head(q) = <<Head(q)[1], Head(q)[2]>>
      BY <1>2, <1>4 DEF Msg
    <2>1. /\ Head(q)[2] = b + 1 /\ b + 1 <= top /\ Holds(Tail(q), u, b + 1, top)
          /\ Head(q) = <<u, b + 1>>
      BY <1>1, <1>4, <2>0, HoldsTail
    <2>2. ~deliver \/ ~accept => Line(u, k, s, 0, Tail(q), top, deliver, accept)
      BY <1>1, <2>1 DEF Line
    <2>3. ASSUME deliver, accept
          PROVE  /\ Line(u, k, Append(s, Head(q)), 0, Tail(q), top, deliver, accept)
                 /\ Line(u, k, s, Head(q)[2], Tail(q), top, deliver, accept)
      <3>1. a + 1 \in Nat /\ k <= a + 1 /\ b = a /\ a + 1 # 0
        BY <1>1, <2>3
      <3>2. Holds(Append(s, Head(q)), u, k, a + 1)
        BY <1>1, <2>1, <2>3, <3>1, HoldsAppend
      <3>3. Line(u, k, Append(s, Head(q)), 0, Tail(q), top, deliver, accept)
        BY <2>1, <3>1, <3>2 DEF Line
      <3>4. Line(u, k, s, Head(q)[2], Tail(q), top, deliver, accept)
        BY <1>1, <2>1, <2>3, <3>1 DEF Line
      <3> QED
        BY <3>3, <3>4
    <2>4. ~(Head(q)[1] # u \/ Head(q)[2] = 0)
      BY <1>4
    <2> QED
      BY <2>2, <2>3, <2>4, Zenon
  <1> QED
    BY <1>3, <1>4

\* The message that has waited is written.
LEMMA LineWrites ==
    ASSUME NEW u \in Sources, NEW k \in Nat, NEW s \in Seq(Msg), NEW w \in Nat \ {0}, NEW q, NEW top,
           NEW deliver, NEW accept,
           Line(u, k, s, w, q, top, deliver, accept)
    PROVE  Line(u, k, Append(s, <<u, w>>), 0, q, top, deliver, accept)
  <1>1. PICK a, b \in Nat :
           /\ b <= top
           /\ Holds(q, u, b, top)
           /\ deliver => k <= a /\ Holds(s, u, k, a) /\ w \in {0, a + 1}
           /\ deliver /\ accept => b = IF w = 0 THEN a ELSE w
    BY DEF Line
  <1>2. deliver => k <= a + 1 /\ w = a + 1 /\ Holds(Append(s, <<u, w>>), u, k, a + 1)
    BY <1>1, HoldsAppend
  <1>3. deliver /\ accept => b = a + 1
    BY <1>1, <1>2
  <1> QED
    BY <1>1, <1>2, <1>3 DEF Line

-----------------------------------------------------------------------------
(* Types.                                                                  *)

\* What a channel of capacity n is given, and what is taken from it.
LEMMA ChannelOps ==
    ASSUME NEW S, NEW n \in Nat, NEW q \in Channel(S, n)
    PROVE  /\ q \in Seq(S) /\ Len(q) \in Nat
           /\ q # <<>> => Head(q) \in S /\ Tail(q) \in Channel(S, n)
           /\ \A e \in S : Len(q) < n => Append(q, e) \in Channel(S, n)
           /\ <<>> \in Channel(S, n)
  <1>1. q \in Seq(S) /\ Len(q) \in Nat /\ Len(q) <= n
    BY LenProperties DEF Channel
  <1>2. ASSUME q # <<>> PROVE Head(q) \in S /\ Tail(q) \in Channel(S, n)
    <2>1. Head(q) \in S /\ Tail(q) \in Seq(S) /\ Len(Tail(q)) = Len(q) - 1
      BY <1>1, <1>2, HeadTailProperties
    <2> QED
      BY <1>1, <2>1 DEF Channel
  <1>3. ASSUME NEW e \in S, Len(q) < n PROVE Append(q, e) \in Channel(S, n)
    <2>1. Append(q, e) \in Seq(S) /\ Len(Append(q, e)) = Len(q) + 1
      BY <1>1, AppendProperties
    <2> QED
      BY <1>1, <1>3, <2>1 DEF Channel
  <1>4. <<>> \in Channel(S, n)
    BY EmptySeq DEF Channel
  <1> QED
    BY <1>1, <1>2, <1>3, <1>4

LEMMA Capacities == Cap \in Nat /\ BrCap \in Nat /\ PipeCap \in Nat
  BY RelayAssumption

LEMMA EmptyChannel == \A S : \A n \in Nat : <<>> \in Channel(S, n)
  BY EmptySeq DEF Channel

LEMMA MsgOf == (Users \X Nat) \subseteq Msg /\ (Streams \X Nat) \subseteq Msg
  BY DEF Msg, Clients

LEMMA TypeInit == Init => TypeOK
  <1> SUFFICES ASSUME Init PROVE TypeOK
    OBVIOUS
  <1>1. /\ \A S : <<>> \in Seq(S)
        /\ table \subseteq Devs /\ sessions \subseteq Users /\ confirmed \subseteq Users
        /\ timer \in [Clients -> {"none", "due", "fired"}]
    BY EmptySeq DEF Init
  <1>2. \A S : <<>> \in Channel(S, Cap) /\ <<>> \in Channel(S, BrCap) /\ <<>> \in Channel(S, PipeCap)
    BY Capacities, EmptyChannel
  <1> QED
    BY <1>1, <1>2 DEF Init, TypeOK

\* A write is lost, or appended if there is room, or waits.
LEMMA SentType ==
    ASSUME TypeOK, NEW x \in Clients, NEW m \in Msg
    PROVE  Sent(x, m) \in [Clients -> Channel(Msg, Cap)]
  <1>1. send \in [Clients -> Channel(Msg, Cap)]
    BY DEF TypeOK
  <1>2. Room(x) => Append(send[x], m) \in Channel(Msg, Cap)
    BY <1>1, Capacities, ChannelOps DEF Room
  <1> QED
    BY <1>1, <1>2 DEF Sent

LEMMA WriteType == \A x \in Clients, m \in Msg : Write(x, m) \in [to : Clients, msg : Msg]
  BY DEF Write

LEMMA TypeClose ==
    ASSUME TypeOK, NEW x \in Clients,
           BrokerCloses(x) \/ TimerCloses(x) \/ Shut("broker", x) \/ Shut("timer", x)
    PROVE  TypeOK'
  <1> USE DEF TypeOK, work, tables, loops, queues, shell
  <1>1. ASSUME NEW g \in {"broker", "timer"} PROVE Test(g, x) \subseteq {"broker", "timer"} \X Clients
    BY DEF Test
  <1>2. CASE BrokerCloses(x)
    BY <1>1, <1>2 DEF BrokerCloses
  <1>3. CASE TimerCloses(x)
    BY <1>1, <1>3 DEF TimerCloses
  <1>4. CASE Shut("broker", x) \/ Shut("timer", x)
    BY <1>4 DEF Shut
  <1> QED
    BY <1>2, <1>3, <1>4

LEMMA TypeBroker ==
    ASSUME TypeOK,
           \/ ServeKey \/ ServeOutput
           \/ \E d \in Devs : UnregisterDevice(d)
           \/ \E u \in Users : UnregisterUser(u) \/ ServeLogout(u)
           \/ \E x \in Clients : BrokerWrites(x)
    PROVE  TypeOK'
  <1> USE DEF close, tables, loops, shell
  <1>a. TypeOK /\ Users \subseteq Clients /\ Devs \subseteq Clients /\ DevOf \in [Users -> Devs]
    BY RelayAssumption DEF Clients
  <1>1. ASSUME NEW x \in Clients, NEW m \in Msg, BrokerSends(x, m)
        PROVE  send' \in [Clients -> Channel(Msg, Cap)] /\ toWrite' \in [to : Clients, msg : Msg] \cup {None}
    <2>1. Sent(x, m) \in [Clients -> Channel(Msg, Cap)] /\ send \in [Clients -> Channel(Msg, Cap)]
      BY <1>a, SentType DEF TypeOK
    <2>2. toWrite \in [to : Clients, msg : Msg] \cup {None} /\ Write(x, m) \in [to : Clients, msg : Msg]
      BY <1>a, WriteType DEF TypeOK
    <2> QED
      BY <1>1, <2>1, <2>2 DEF BrokerSends
  <1>2. CASE ServeKey
    <2>1. /\ userQ # <<>> /\ userQ' = Tail(userQ) /\ userQ \in Channel(Users \X Nat, BrCap)
          /\ Head(userQ) \in Msg /\ userQ' \in Channel(Users \X Nat, BrCap)
      BY <1>2, Capacities, ChannelOps, MsgOf DEF ServeKey, TypeOK
    <2>2. send' \in [Clients -> Channel(Msg, Cap)] /\ toWrite' \in [to : Clients, msg : Msg] \cup {None}
      <3> DEFINE u == Head(userQ)[1]
      <3>1. CASE u \in sessions \cap confirmed /\ DevOf[u] \in table
        BY <1>a, <1>1, <1>2, <2>1, <3>1 DEF ServeKey, TypeOK
      <3>2. CASE ~(u \in sessions \cap confirmed /\ DevOf[u] \in table)
        BY <1>2, <3>2 DEF ServeKey, TypeOK
      <3> QED
        BY <3>1, <3>2
    <2> QED
      BY <1>2, <2>1, <2>2 DEF ServeKey, TypeOK
  <1>3. CASE ServeOutput
    <2>1. /\ termQ # <<>> /\ termQ' = Tail(termQ) /\ termQ \in Channel(Streams \X Nat, BrCap)
          /\ Head(termQ) \in Msg /\ termQ' \in Channel(Streams \X Nat, BrCap)
      BY <1>3, Capacities, ChannelOps, MsgOf DEF ServeOutput, TypeOK
    <2>2. send' \in [Clients -> Channel(Msg, Cap)] /\ toWrite' \in [to : Clients, msg : Msg] \cup {None}
      <3> DEFINE u == Head(termQ)[1][1]
      <3>1. CASE u \in sessions
        BY <1>a, <1>1, <1>3, <2>1, <3>1 DEF ServeOutput, TypeOK
      <3>2. CASE u \notin sessions
        BY <1>3, <3>2 DEF ServeOutput, TypeOK
      <3> QED
        BY <3>1, <3>2
    <2> QED
      BY <1>3, <2>1, <2>2 DEF ServeOutput, TypeOK
  <1>4. ASSUME NEW d \in Devs, UnregisterDevice(d) PROVE TypeOK'
    <2>1. unregQ' \in Seq(Clients)
      BY <1>4, HeadTailProperties DEF UnregisterDevice, TypeOK
    <2>2. toClose' \subseteq Clients
      BY <1>a, <1>4 DEF UnregisterDevice, SessionsOf, TypeOK
    <2> QED
      BY <1>4, <2>1, <2>2 DEF UnregisterDevice, TypeOK
  <1>5. ASSUME NEW u \in Users, UnregisterUser(u) PROVE TypeOK'
    <2>1. unregQ' \in Seq(Clients)
      BY <1>5, HeadTailProperties DEF UnregisterUser, TypeOK
    <2>2. toClose' \subseteq Clients
      BY <1>a, <1>5 DEF UnregisterUser, TypeOK
    <2>3. DevOf[u] \in Clients /\ <<u, 0>> \in Msg
      BY <1>a DEF Msg
    <2>4. toWrite' \in [to : Clients, msg : Msg] \cup {None}
      BY <1>5, <2>3, WriteType DEF UnregisterUser
    <2> QED
      BY <1>5, <2>1, <2>2, <2>4 DEF UnregisterUser, TypeOK
  <1>6. ASSUME NEW u \in Users, ServeLogout(u) PROVE TypeOK'
    <2>1. logoutQ' \in Seq(Users)
      BY <1>6, HeadTailProperties DEF ServeLogout, TypeOK
    <2>2. toClose' \subseteq Clients
      BY <1>a, <1>6 DEF ServeLogout, TypeOK
    <2> QED
      BY <1>6, <2>1, <2>2 DEF ServeLogout, TypeOK
  <1>7. ASSUME NEW x \in Clients, BrokerWrites(x) PROVE TypeOK'
    <2>1. toWrite.msg \in Msg
      BY <1>7 DEF BrokerWrites, Waits, TypeOK
    <2>2. send' \in [Clients -> Channel(Msg, Cap)]
      BY <1>7, <2>1, SentType DEF BrokerWrites
    <2> QED
      BY <1>7, <2>2 DEF BrokerWrites, queues, TypeOK
  <1> QED
    BY <1>2, <1>3, <1>4, <1>5, <1>6, <1>7

LEMMA TypeLoops ==
    ASSUME TypeOK, NEW x \in Clients,
           \/ ReadLoopEnds(x) \/ WriteLoopEnds(x) \/ Ping(x) \/ WriteToNobody(x)
           \/ x \in Users /\ (TickUser(x) \/ WriteToUser(x))
           \/ x \in Devs /\ (TickDevice(x) \/ KillInactive(x) \/ WriteToDevice(x))
    PROVE  TypeOK'
  <1> USE DEF close, work, tables, shell
  <1>1. Append(unregQ, x) \in Seq(Clients)
    BY AppendProperties DEF TypeOK
  <1>2. CASE ReadLoopEnds(x)
    BY <1>1, <1>2 DEF ReadLoopEnds, Unregisters, TypeOK
  <1>3. CASE WriteLoopEnds(x)
    BY <1>1, <1>3 DEF WriteLoopEnds, Unregisters, TypeOK
  <1>4. CASE KillInactive(x)
    <2>1. ends' \in Nat
      BY <1>4 DEF KillInactive, Ends, TypeOK
    <2> QED
      BY <1>1, <1>4, <2>1 DEF KillInactive, Unregisters, TypeOK
  <1>5. CASE TickDevice(x)
    BY <1>5 DEF TickDevice, queues, TypeOK
  <1>6. <<x, 0>> \in Msg
    BY DEF Msg
  <1>7. CASE TickUser(x)
    <2>1. send' \in [Clients -> Channel(Msg, Cap)] /\ writer' \in [Clients -> {"run", "ping", "off"}]
      BY <1>6, <1>7, SentType DEF TickUser, TypeOK
    <2> QED
      BY <1>7, <2>1 DEF TickUser, queues, TypeOK
  <1>8. CASE Ping(x)
    <2>1. send' \in [Clients -> Channel(Msg, Cap)] /\ writer' \in [Clients -> {"run", "ping", "off"}]
      BY <1>6, <1>8, SentType DEF Ping, TypeOK
    <2> QED
      BY <1>8, <2>1 DEF Ping, queues, TypeOK
  <1>9. ASSUME Takes(x) PROVE send' \in [Clients -> Channel(Msg, Cap)] /\ Head(send[x]) \in Msg
    BY <1>9, Capacities, ChannelOps DEF Takes, TypeOK
  <1>10. CASE WriteToNobody(x)
    <2>1. send' \in [Clients -> Channel(Msg, Cap)]
      BY <1>9, <1>10 DEF WriteToNobody
    <2> QED
      BY <1>10, <2>1 DEF WriteToNobody, queues, TypeOK
  <1>11. CASE x \in Users /\ WriteToUser(x)
    <2>1. send' \in [Clients -> Channel(Msg, Cap)] /\ Head(send[x])[2] \in Nat
      BY <1>9, <1>11 DEF WriteToUser, Msg
    <2>2. \A s \in Streams : Append(screen[s], Head(send[x])[2]) \in Seq(Nat)
      BY <2>1, AppendProperties DEF TypeOK
    <2>3. screen' \in [Streams -> Seq(Nat)]
      BY <1>11, <2>2 DEF WriteToUser, TypeOK
    <2> QED
      BY <1>11, <2>1, <2>3 DEF WriteToUser, queues, TypeOK
  <1>12. CASE x \in Devs /\ WriteToDevice(x)
    <2> DEFINE u == Head(send[x])[1]
    <2>1. send' \in [Clients -> Channel(Msg, Cap)] /\ Head(send[x])[2] \in Nat
      BY <1>9, <1>12 DEF WriteToDevice, Msg
    <2>2. u \in Users /\ Len(stdin[u]) < PipeCap => Append(stdin[u], Head(send[x])[2]) \in Channel(Nat, PipeCap)
      BY <2>1, Capacities, ChannelOps DEF TypeOK
    <2>3. <<>> \in Channel(Nat, PipeCap)
      BY Capacities, EmptyChannel
    <2>4. stdin \in [Users -> Channel(Nat, PipeCap)] /\ shells \subseteq Users /\ pending \subseteq Streams
      BY DEF TypeOK
    <2>5. ASSUME u \in shells PROVE shells' \subseteq Users /\ stdin' \in [Users -> Channel(Nat, PipeCap)]
      <3>1. \/ shells' = shells \ {u} /\ stdin' = [stdin EXCEPT ![u] = <<>>]
            \/ /\ shells' = shells /\ stdin' = [stdin EXCEPT ![u] = Append(@, Head(send[x])[2])]
               /\ Len(stdin[u]) < PipeCap
        BY <1>12, <2>5 DEF WriteToDevice
      <3> QED
        BY <2>2, <2>3, <2>4, <2>5, <3>1
    <2>6. ASSUME u \notin shells PROVE shells' \subseteq Users /\ stdin' \in [Users -> Channel(Nat, PipeCap)]
      BY <1>12, <2>4, <2>6 DEF WriteToDevice
    <2>7. pending' \subseteq Streams
      BY <1>12, <2>4 DEF WriteToDevice, LosesTail
    <2>8. shells' \subseteq Users /\ stdin' \in [Users -> Channel(Nat, PipeCap)] /\ pending' \subseteq Streams
      BY <2>5, <2>6, <2>7
    <2> QED
      BY <1>12, <2>1, <2>8 DEF WriteToDevice, queues, TypeOK
  <1> QED
    BY <1>2, <1>3, <1>4, <1>5, <1>7, <1>8, <1>10, <1>11, <1>12

LEMMA TypePrints ==
    ASSUME TypeOK, NEW s \in Streams, Prints(s)
    PROVE  printed' \in [Streams -> Nat] /\ pending' \subseteq Streams
  BY DEF Prints, TypeOK

LEMMA StreamOf == \A u \in Users : StreamsOf(u) \subseteq Streams
  BY DEF StreamsOf, Streams

LEMMA TypePeers ==
    ASSUME TypeOK,
           \/ \E u \in Users : Type(u) \/ ShellReads(u) \/ ShellExits(u)
           \/ \E s \in Streams : ShellPrints(s) \/ Output(s)
           \/ \E x \in Clients : PeerLeaves(x)
    PROVE  TypeOK'
  <1> USE DEF close, work, tables, loops
  <1>0. <<>> \in Channel(Nat, PipeCap)
    BY Capacities, EmptyChannel
  <1>1. ASSUME NEW u \in Users, Type(u) PROVE TypeOK'
    <2>0. typed[u] \in Nat
      BY DEF TypeOK
    <2>1. <<u, typed[u] + 1>> \in Users \X Nat /\ typed[u] + 1 \in Nat
      BY <2>0
    <2>2. userQ' \in Channel(Users \X Nat, BrCap)
      BY <1>1, <2>1, Capacities, ChannelOps DEF Type, TypeOK
    <2>3. typed' \in [Users -> Nat]
      BY <1>1, <2>1 DEF Type, TypeOK
    <2> QED
      BY <1>1, <2>2, <2>3 DEF Type, shell, TypeOK
  <1>2. ASSUME NEW u \in Users, ShellReads(u) PROVE TypeOK'
    <2>0. stdin[u] \in Channel(Nat, PipeCap) /\ got[u] \in Seq(Nat)
      BY DEF TypeOK
    <2>1. Head(stdin[u]) \in Nat /\ Tail(stdin[u]) \in Channel(Nat, PipeCap)
      BY <1>2, <2>0, Capacities, ChannelOps DEF ShellReads
    <2>2. Append(got[u], Head(stdin[u])) \in Seq(Nat)
      BY <2>0, <2>1, AppendProperties
    <2>3. got' \in [Users -> Seq(Nat)] /\ stdin' \in [Users -> Channel(Nat, PipeCap)]
      BY <1>2, <2>1, <2>2 DEF ShellReads, TypeOK
    <2>4. printed' \in [Streams -> Nat] /\ pending' \subseteq Streams
      <3>1. CASE \E s \in StreamsOf(u) : Prints(s)
        BY <3>1, StreamOf, TypePrints
      <3>2. CASE UNCHANGED <<pending, printed>>
        BY <3>2 DEF TypeOK
      <3> QED
        BY <1>2, <3>1, <3>2 DEF ShellReads
    <2> QED
      BY <1>2, <2>3, <2>4 DEF ShellReads, queues, TypeOK
  <1>3. ASSUME NEW s \in Streams, ShellPrints(s) PROVE TypeOK'
    <2>1. printed' \in [Streams -> Nat] /\ pending' \subseteq Streams
      BY <1>3, TypePrints DEF ShellPrints
    <2> QED
      BY <1>3, <2>1 DEF ShellPrints, queues, TypeOK
  <1>4. ASSUME NEW s \in Streams, Output(s) PROVE TypeOK'
    <2>0. printed[s] \in Nat
      BY DEF TypeOK
    <2>1. <<s, printed[s]>> \in Streams \X Nat
      BY <2>0
    <2>2. termQ' \in Channel(Streams \X Nat, BrCap)
      BY <1>4, <2>1, Capacities, ChannelOps DEF Output, TypeOK
    <2> QED
      BY <1>4, <2>2 DEF Output, TypeOK
  <1>5. ASSUME NEW u \in Users, ShellExits(u) PROVE TypeOK'
    <2>1. logoutQ' \in Seq(Users)
      BY <1>5, AppendProperties DEF ShellExits, TypeOK
    <2>2. ends' \in Nat
      BY <1>5 DEF ShellExits, Ends, TypeOK
    <2>3. pending' \subseteq Streams
      BY <1>5 DEF ShellExits, LosesTail, TypeOK
    <2> QED
      BY <1>0, <1>5, <2>1, <2>2, <2>3 DEF ShellExits, TypeOK
  <1>6. ASSUME NEW x \in Clients, PeerLeaves(x) PROVE TypeOK'
    <2>1. stdin' \in [Users -> Channel(Nat, PipeCap)]
      BY <1>0, <1>6 DEF PeerLeaves, TypeOK
    <2>2. ends' \in Nat
      BY <1>6 DEF PeerLeaves, Ends, TypeOK
    <2> QED
      BY <1>6, <2>1, <2>2 DEF PeerLeaves, queues, TypeOK
  <1> QED
    BY <1>1, <1>2, <1>3, <1>4, <1>5, <1>6

LEMMA TypeNext == TypeOK /\ [Next]_vars => TypeOK'
  <1> SUFFICES ASSUME TypeOK, [Next]_vars PROVE TypeOK'
    OBVIOUS
  <1>1. CASE UNCHANGED vars
    BY <1>1 DEF TypeOK, vars, close, work, tables, loops, queues, shell
  <1>2. CASE BrokerStep
    BY <1>2, TypeClose, TypeBroker DEF BrokerStep
  <1>3. ASSUME NEW x \in Clients,
               TimerStep(x) \/ WriterStep(x) \/ ReadLoopEnds(x) \/ WriteToNobody(x) \/ PeerLeaves(x)
        PROVE  TypeOK'
    BY <1>3, TypeClose, TypeLoops, TypePeers DEF TimerStep, WriterStep
  <1>4. ASSUME NEW d \in Devs, TickDevice(d) \/ KillInactive(d) PROVE TypeOK'
    BY <1>4, TypeLoops DEF Clients
  <1>5. ASSUME NEW u \in Users, Type(u) \/ TickUser(u) \/ ShellStep(u) \/ ShellExits(u) PROVE TypeOK'
    BY <1>5, TypeLoops, TypePeers, StreamOf DEF Clients, ShellStep
  <1> QED
    BY <1>1, <1>2, <1>3, <1>4, <1>5 DEF Next

\* Every variable keeps its type: a message is of the kind that its channel
\* carries, and no send channel of a client, no channel of the broker and no pipe
\* of a shell ever holds more than its capacity.
THEOREM TypeCorrect == Spec => []TypeOK
  BY TypeInit, TypeNext, PTL DEF Spec

-----------------------------------------------------------------------------
(* Whose timer a crash takes.                                              *)

\* Only the goroutine of a timer shuts a client whose timer has not fired
\* behind the broker's back, or finds it shut.
CrashFacts ==
    /\ \A x \in Clients : <<"timer", x>> \in shutting => timer[x] = "fired"
    /\ \A x \in shut : \A g \in {"broker", "timer"} : <<g, x>> \in shutting => timer[x] = "fired"

CrashInv == TypeOK /\ CrashFacts /\ CrashTakesTimer

\* What each step does to the flags, and to what is about to set them.
LEMMA CloseSteps ==
    ASSUME [Next]_vars
    PROVE  \/ UNCHANGED close
           \/ \E x \in Clients : \E g \in {"broker", "timer"} :
                \/ /\ shutting' = Test(g, x) /\ UNCHANGED <<shut, crashed>>
                   /\ \/ g = "broker" /\ UNCHANGED timer
                      \/ g = "timer" /\ timer' = [timer EXCEPT ![x] = "fired"]
                \/ Shut(g, x)
  <1>1. CASE UNCHANGED vars
    BY <1>1 DEF vars
  <1>2. CASE BrokerStep
    BY <1>2 DEF BrokerStep, ServeKey, ServeOutput, UnregisterDevice, UnregisterUser, ServeLogout,
                BrokerCloses, BrokerWrites, Shut
  <1>3. ASSUME NEW x \in Clients,
               TimerStep(x) \/ WriterStep(x) \/ ReadLoopEnds(x) \/ WriteToNobody(x) \/ PeerLeaves(x)
        PROVE  \/ UNCHANGED close
               \/ Shut("timer", x)
               \/ /\ shutting' = Test("timer", x) /\ UNCHANGED <<shut, crashed>>
                  /\ timer' = [timer EXCEPT ![x] = "fired"]
    BY <1>3 DEF TimerStep, TimerCloses, WriterStep, WriteLoopEnds, Ping, WriteToUser,
                WriteToDevice, ReadLoopEnds, WriteToNobody, PeerLeaves
  <1>4. CASE \/ \E d \in Devs : TickDevice(d) \/ KillInactive(d)
             \/ \E u \in Users : Type(u) \/ TickUser(u) \/ ShellStep(u) \/ ShellExits(u)
    BY <1>4 DEF TickDevice, KillInactive, Type, TickUser, ShellStep, ShellReads, ShellPrints,
                Output, ShellExits
  <1> QED
    BY <1>1, <1>2, <1>3, <1>4 DEF Next

LEMMA CrashNext == CrashInv /\ [Next]_vars => CrashInv'
  <1> SUFFICES ASSUME CrashInv, [Next]_vars PROVE CrashFacts' /\ CrashTakesTimer'
    BY TypeNext DEF CrashInv
  <1>1. CASE UNCHANGED close
    BY <1>1 DEF CrashInv, CrashFacts, CrashTakesTimer, Alive, close
  <1>2. ASSUME NEW x \in Clients, NEW g \in {"broker", "timer"},
               shutting' = Test(g, x), UNCHANGED <<shut, crashed>>,
               \/ g = "broker" /\ UNCHANGED timer
               \/ g = "timer" /\ timer' = [timer EXCEPT ![x] = "fired"]
        PROVE  CrashFacts' /\ CrashTakesTimer'
    <2>1. \A y \in Clients : timer[y] = "fired" => timer'[y] = "fired"
      BY <1>2 DEF CrashInv, TypeOK
    <2>2. g = "timer" => timer'[x] = "fired"
      BY <1>2 DEF CrashInv, TypeOK
    <2>3. shut \subseteq Clients /\ crashed \in Clients \cup {None}
      BY DEF CrashInv, TypeOK
    <2>4. CrashTakesTimer'
      BY <1>2, <2>1, <2>3 DEF CrashInv, CrashTakesTimer, Alive
    <2>5. \A h, y : <<h, y>> \in shutting' => <<h, y>> \in shutting \/ (h = g /\ y = x /\ x \notin shut)
      BY <1>2 DEF Test
    <2> QED
      BY <1>2, <2>1, <2>2, <2>3, <2>4, <2>5 DEF CrashInv, CrashFacts
  <1>3. ASSUME NEW x \in Clients, NEW g \in {"broker", "timer"}, Shut(g, x)
        PROVE  CrashFacts' /\ CrashTakesTimer'
    <2>1. /\ <<g, x>> \in shutting /\ <<g, x>> \notin shutting' /\ shutting' \subseteq shutting
          /\ shut' = shut \cup {x} /\ timer' = timer
          /\ crashed' = IF x \in shut THEN x ELSE None
      BY <1>3 DEF Shut
    <2>2. CrashTakesTimer'
      BY <2>1 DEF CrashInv, CrashFacts, CrashTakesTimer, Alive
    <2>3. \A h \in {"broker", "timer"} : <<h, x>> \in shutting' => timer[x] = "fired"
      BY <2>1 DEF CrashInv, CrashFacts
    <2> QED
      BY <2>1, <2>2, <2>3 DEF CrashInv, CrashFacts
  <1> QED
    BY <1>1, <1>2, <1>3, CloseSteps

\* The server dies only of a client whose timer has fired: the broker alone
\* never closes a channel twice.
THEOREM CrashesTakeATimer == Spec => []CrashTakesTimer
  <1>1. Init => CrashInv
    BY TypeInit DEF Init, CrashInv, CrashFacts, CrashTakesTimer, Alive
  <1>2. CrashInv => CrashTakesTimer
    BY DEF CrashInv
  <1> QED
    BY <1>1, <1>2, CrashNext, PTL DEF Spec

-----------------------------------------------------------------------------
(* Keys and output arrive in order.                                        *)

\* What the broker waits to write to x of u's, or 0.
Waiting(u, x) ==
    IF toWrite # None /\ toWrite.to = x /\ toWrite.msg[1] = u THEN toWrite.msg[2] ELSE 0

LineTo(u, x, k, q, top, deliver, accept) ==
    Line(u, k, send[x], Waiting(u, x), q, top, deliver, accept)

\* From a user's keyboard to the pipe of the shell.
KeyLine(u) ==
    LineTo(u, DevOf[u], Len(got[u]) + Len(stdin[u]), userQ, typed[u],
           u \in shells /\ DevOf[u] \notin gone \cup shut,
           u \in sessions \cap confirmed /\ DevOf[u] \in table)

\* From a stream of a shell to its user's screen: top pieces have been posted.
OutLineTo(s, top) ==
    LineTo(s, s[1], Len(screen[s]), termQ, top, s[1] \notin gone \cup shut, s[1] \in sessions)

\* A piece that is pending is the next to be posted, and a shell that has none
\* pending has posted all that it printed.
Posted(s, top) ==
    /\ s \in pending => top + 1 = printed[s]
    /\ s \notin pending /\ s[1] \in shells => top = printed[s]

OutLine(s) == \E top \in Nat : Posted(s, top) /\ OutLineTo(s, top)

\* The keys in a pipe go on where those that were read end.
Piped(read, pipe) == Numbered(read) /\ \A i \in 1..Len(pipe) : pipe[i] = Len(read) + i

\* Keys are only on the way to their session's device, pieces to its user.
BoundFor(u, x) == (u \in Users /\ x = DevOf[u]) \/ (u \in Streams /\ x = u[1])

Addressed ==
    \A x \in Clients : \A u \in Sources : \A n \in Nat \ {0} :
        In(n, u, send[x]) \/ toWrite = Write(x, <<u, n>>) => BoundFor(u, x)

Lines == (\A u \in Users : KeyLine(u)) /\ (\A s \in Streams : OutLine(s))
Arrived ==
    /\ \A u \in Users : Piped(got[u], stdin[u])
    /\ \A s \in Streams : Numbered(screen[s])

RelayInv == TypeOK /\ Addressed /\ Lines /\ Arrived

LEMMA NumberedAppend ==
    ASSUME NEW s \in Seq(Nat), Numbered(s)
    PROVE  Numbered(Append(s, Len(s) + 1)) /\ Len(Append(s, Len(s) + 1)) = Len(s) + 1
  BY AppendProperties, LenProperties DEF Numbered

LEMMA PipeWritten ==
    ASSUME NEW g \in Seq(Nat), NEW s \in Seq(Nat), Piped(g, s)
    PROVE  LET n == (Len(g) + Len(s)) + 1 IN
             Piped(g, Append(s, n)) /\ Len(g) + Len(Append(s, n)) = n
  <1> DEFINE n == (Len(g) + Len(s)) + 1
  <1>1. Len(g) \in Nat /\ Len(s) \in Nat /\ n \in Nat
    BY LenProperties
  <1>2. /\ Len(Append(s, n)) = Len(s) + 1
        /\ \A i \in 1..Len(s) : Append(s, n)[i] = s[i]
        /\ Append(s, n)[Len(s) + 1] = n
    BY <1>1, AppendProperties
  <1>3. \A i \in 1..(Len(s) + 1) : i \in 1..Len(s) \/ i = Len(s) + 1
    BY <1>1
  <1>4. n = Len(g) + (Len(s) + 1) /\ Len(g) + Len(Append(s, n)) = n
    BY <1>1, <1>2
  <1> HIDE DEF n
  <1>5. Piped(g, Append(s, n))
    BY <1>2, <1>3, <1>4 DEF Piped
  <1> QED
    BY <1>4, <1>5 DEF n

LEMMA PipeRead ==
    ASSUME NEW g \in Seq(Nat), NEW s \in Seq(Nat), Piped(g, s), s # <<>>
    PROVE  /\ Piped(Append(g, Head(s)), Tail(s))
           /\ Len(Append(g, Head(s))) + Len(Tail(s)) = Len(g) + Len(s)
  <1>1. /\ Head(s) = s[1] /\ Len(s) \in Nat \ {0} /\ Len(g) \in Nat
        /\ Len(Tail(s)) = Len(s) - 1 /\ Head(s) \in Nat
        /\ \A i \in 1..Len(Tail(s)) : Tail(s)[i] = s[i + 1]
    BY HeadTailProperties, LenProperties, EmptySeq
  <1>2. Head(s) = Len(g) + 1
    BY <1>1 DEF Piped
  <1>3. Numbered(Append(g, Head(s))) /\ Len(Append(g, Head(s))) = Len(g) + 1
    BY <1>2, NumberedAppend DEF Piped
  <1>4. \A i \in 1..Len(Tail(s)) : Tail(s)[i] = (Len(g) + 1) + i
    <2>1. \A i \in 1..Len(Tail(s)) : i + 1 \in 1..Len(s)
      BY <1>1
    <2> QED
      BY <1>1, <2>1 DEF Piped
  <1> QED
    BY <1>1, <1>3, <1>4 DEF Piped

\* Streams are no clients; each is of one user.
LEMMA SourceFacts ==
    /\ Users \subseteq Clients /\ Devs \subseteq Clients
    /\ Clients \subseteq Sources /\ Streams \subseteq Sources
    /\ \A x \in Clients : x \notin Streams
    /\ \A s \in Streams : s[1] \in Users /\ s[1] \in Clients
    /\ \A u \in Users : /\ DevOf[u] \in Devs /\ DevOf[u] \in Clients
                        /\ \A v \in Users : DevOf[u] # v
  <1>1. \A s \in Streams : s[1] \in Users
    BY DEF Streams
  <1> QED
    BY <1>1, RelayAssumption DEF Clients, Sources

\* The lengths and the messages of a state.
LEMMA Measures ==
    ASSUME TypeOK
    PROVE  /\ \A u \in Users : /\ typed[u] \in Nat
                               /\ got[u] \in Seq(Nat) /\ stdin[u] \in Seq(Nat)
                               /\ Len(got[u]) + Len(stdin[u]) \in Nat
           /\ \A s \in Streams : /\ printed[s] \in Nat /\ screen[s] \in Seq(Nat)
                                 /\ Len(screen[s]) \in Nat
           /\ \A x \in Clients : send[x] \in Seq(Msg)
           /\ userQ \in Seq(Msg) /\ termQ \in Seq(Msg)
           /\ toWrite # None => toWrite \in [to : Clients, msg : Msg]
  <1>1. \A n : \A q \in Channel(Nat, n) : q \in Seq(Nat)
    BY DEF Channel
  <1>2. \A u \in Users : typed[u] \in Nat /\ got[u] \in Seq(Nat) /\ stdin[u] \in Seq(Nat)
    BY <1>1 DEF TypeOK
  <1>3. \A s \in Seq(Nat) : Len(s) \in Nat
    BY LenProperties
  <1>4. \A u \in Users : Len(got[u]) + Len(stdin[u]) \in Nat
    <2> SUFFICES ASSUME NEW u \in Users PROVE Len(got[u]) + Len(stdin[u]) \in Nat
      OBVIOUS
    <2>1. Len(got[u]) \in Nat
      BY <1>2, <1>3
    <2>2. Len(stdin[u]) \in Nat
      BY <1>2, <1>3
    <2>3. \A m, n \in Nat : m + n \in Nat
      OBVIOUS
    <2> QED
      BY <2>1, <2>2, <2>3, Zenon
  <1>5. \A s \in Streams : /\ printed[s] \in Nat /\ screen[s] \in Seq(Nat)
                           /\ Len(screen[s]) \in Nat
    BY <1>3 DEF TypeOK
  <1>6. /\ \A x \in Clients : send[x] \in Seq(Msg)
        /\ toWrite # None => toWrite \in [to : Clients, msg : Msg]
    BY DEF TypeOK, Channel
  <1>7. userQ \in Seq(Msg)
    <2>1. userQ \in Seq(Users \X Nat)
      BY DEF TypeOK, Channel
    <2> QED
      BY <2>1, MsgOf
  <1>8. termQ \in Seq(Msg)
    <2>1. termQ \in Seq(Streams \X Nat)
      BY DEF TypeOK, Channel
    <2> QED
      BY <2>1, MsgOf
  <1> QED
    BY <1>2, <1>4, <1>5, <1>6, <1>7, <1>8

\* What has been posted of a stream stays so, unless it is now being posted.
PostedStays == \A s \in Streams : \A top \in Nat : Posted(s, top) => Posted(s, top)'

LEMMA PostedKept ==
    ASSUME printed' = printed, shells' \subseteq shells, pending' \subseteq pending,
           \A s \in pending \ pending' : s[1] \notin shells'
    PROVE  PostedStays
  BY DEF PostedStays, Posted

\* A client and a message make a write; None is none.
LEMMA Writes ==
    ASSUME NEW x \in Clients, NEW m \in Msg
    PROVE  /\ Write(x, m) # None
           /\ Write(x, m).to = x /\ Write(x, m).msg = m
           /\ m = <<m[1], m[2]>> /\ m[1] \in Sources /\ m[2] \in Nat
  BY RelayAssumption DEF Write, Msg, Sources

LEMMA RelayInit == Init => RelayInv
  <1> SUFFICES ASSUME Init PROVE RelayInv
    OBVIOUS
  <1>1. TypeOK
    BY TypeInit
  <1>2. Addressed
    <2>1. \A n, u : ~In(n, u, <<>>)
      BY EmptySeq DEF In
    <2>2. \A x \in Clients : \A u \in Sources : \A n \in Nat \ {0} : toWrite # Write(x, <<u, n>>)
      BY Writes DEF Init, Msg, Sources
    <2> QED
      BY <2>1, <2>2 DEF Init, Addressed
  <1>3. Lines
    <2>1. Len(<<>>) = 0 /\ 0 + 0 = 0
      BY EmptySeq
    <2>2. /\ \A x \in Clients : send[x] = <<>> /\ \A u : Waiting(u, x) = 0
          /\ \A u \in Users : Len(got[u]) + Len(stdin[u]) = 0 /\ typed[u] = 0
          /\ \A s \in Streams : Len(screen[s]) = 0 /\ printed[s] = 0
          /\ userQ = <<>> /\ termQ = <<>> /\ pending = {}
      BY <2>1 DEF Init, Waiting
    <2>3. \A u \in Sources, x \in Clients : \A d, a : LineTo(u, x, 0, <<>>, 0, d, a)
      BY <2>2, LineStarts DEF LineTo
    <2>4. ASSUME NEW u \in Users PROVE KeyLine(u)
      <3>1. u \in Sources /\ DevOf[u] \in Clients
        BY SourceFacts
      <3>2. \A d, a : LineTo(u, DevOf[u], 0, <<>>, 0, d, a)
        BY <2>3, <3>1
      <3> QED
        BY <2>2, <3>2 DEF KeyLine
    <2>5. \A s \in Streams : Posted(s, 0) /\ OutLineTo(s, 0)
      BY <2>2, <2>3, SourceFacts DEF Posted, OutLineTo
    <2> QED
      BY <2>4, <2>5 DEF Lines, OutLine
  <1>4. Arrived
    <2>1. Numbered(<<>>) /\ Piped(<<>>, <<>>)
      BY EmptySeq DEF Piped, Numbered
    <2> QED
      BY <2>1 DEF Init, Arrived
  <1> QED
    BY <1>1, <1>2, <1>3, <1>4 DEF RelayInv

\* A step that only ends things: shells, with what is in their pipes, peers,
\* sessions and open clients; or that prints.
LEMMA RelayEnds ==
    ASSUME TypeOK, Addressed, Lines, Arrived, PostedStays,
           UNCHANGED <<send, userQ, termQ, typed, screen, got>>,
           \/ toWrite' = toWrite
           \/ toWrite = None /\ \E u \in Users : toWrite' = Write(DevOf[u], <<u, 0>>),
           sessions' \subseteq sessions, confirmed' \subseteq confirmed, table' \subseteq table,
           shells' \subseteq shells, gone \subseteq gone', shut \subseteq shut',
           \A u \in Users : stdin'[u] = stdin[u] \/ (stdin'[u] = <<>> /\ u \notin shells')
    PROVE  Addressed' /\ Lines' /\ Arrived'
  <1>0. \A u \in Users : <<u, 0>> \in Msg
    BY SourceFacts DEF Msg
  <1>1. \A u : \A x : Waiting(u, x)' = Waiting(u, x)
    <2>1. CASE toWrite' = toWrite
      BY <2>1 DEF Waiting
    <2>2. ASSUME NEW v \in Users, toWrite' = Write(DevOf[v], <<v, 0>>), toWrite = None
          PROVE  \A u : \A x : Waiting(u, x)' = Waiting(u, x)
      <3>1. toWrite'.msg[2] = 0
        BY <1>0, <2>2, Writes, SourceFacts
      <3> QED
        BY <2>2, <3>1 DEF Waiting
    <2> QED
      BY <2>1, <2>2
  <1>2. Addressed'
    <2>1. ASSUME NEW x \in Clients, NEW u \in Sources, NEW n \in Nat \ {0}, toWrite' = Write(x, <<u, n>>)
          PROVE  toWrite = Write(x, <<u, n>>)
      <3>1. ASSUME NEW v \in Users, toWrite' = Write(DevOf[v], <<v, 0>>) PROVE FALSE
        <4>1. Write(DevOf[v], <<v, 0>>).msg = <<v, 0>> /\ Write(x, <<u, n>>).msg = <<u, n>>
          BY DEF Write
        <4> QED
          BY <2>1, <3>1, <4>1
      <3> QED
        BY <2>1, <3>1
    <2> QED
      BY <2>1 DEF Addressed
  <1>3. ASSUME NEW u \in Users PROVE KeyLine(u)'
    <2>1. KeyLine(u)
      BY DEF Lines
    <2>2. CASE stdin'[u] = stdin[u]
      BY <1>1, <2>1, <2>2, LineEnds DEF KeyLine, LineTo
    <2>3. CASE u \notin shells'
      <3>1. \A k, s, w, a : Line(u, k, s, w, userQ, typed[u], u \in shells' /\ DevOf[u] \notin gone' \cup shut', a)
        BY <2>1, <2>3, LineEnds DEF KeyLine, LineTo
      <3> QED
        BY <3>1 DEF KeyLine, LineTo
    <2> QED
      BY <2>2, <2>3
  <1>4. ASSUME NEW s \in Streams PROVE OutLine(s)'
    <2>1. PICK top \in Nat : Posted(s, top) /\ OutLineTo(s, top)
      BY DEF Lines, OutLine
    <2>2. \A d, a : (d => s[1] \notin gone \cup shut) /\ (a => s[1] \in sessions)
                       => Line(s, Len(screen[s]), send[s[1]], Waiting(s, s[1]), termQ, top, d, a)
      BY <2>1, LineEnds DEF OutLineTo, LineTo
    <2>3. /\ s[1] \notin gone' \cup shut' => s[1] \notin gone \cup shut
          /\ s[1] \in sessions' => s[1] \in sessions
      OBVIOUS
    <2>4. OutLineTo(s, top)'
      BY <1>1, <2>2, <2>3 DEF OutLineTo, LineTo
    <2> QED
      BY <2>1, <2>4 DEF OutLine, PostedStays
  <1>5. Arrived'
    <2>1. \A u \in Users : Piped(got[u], <<>>)
      BY EmptySeq DEF Arrived, Piped
    <2>2. \A u \in Users : Piped(got[u], stdin'[u])
      BY <2>1 DEF Arrived
    <2> QED
      BY <2>2 DEF Arrived
  <1> QED
    BY <1>2, <1>3, <1>4, <1>5 DEF Lines

\* A step that writes to a channel of no user's concern: a ping.
LEMMA RelayPings ==
    ASSUME TypeOK, Addressed, Lines, Arrived, NEW y \in Clients,
           send' = send \/ send' = Sent(y, <<y, 0>>),
           UNCHANGED <<work, tables, gone, shut, queues, typed, screen, shell>>
    PROVE  Addressed' /\ Lines' /\ Arrived'
  <1>1. <<y, 0>> \in Msg /\ \A x \in Clients : send[x] \in Seq(Msg)
    BY Measures, SourceFacts DEF Msg
  <1>2. \A x \in Clients : send'[x] = send[x] \/ send'[x] = Append(send[x], <<y, 0>>)
    BY DEF Sent, TypeOK
  <1>3. Addressed'
    <2>1. \A x \in Clients : \A u : \A n \in Nat \ {0} : In(n, u, send'[x]) => In(n, u, send[x])
      <3>1. \A u : \A n \in Nat \ {0} : <<y, 0>> # <<u, n>>
        OBVIOUS
      <3> SUFFICES ASSUME NEW x \in Clients, NEW u, NEW n \in Nat \ {0}, In(n, u, send'[x])
                   PROVE  In(n, u, send[x])
        OBVIOUS
      <3>2. CASE send'[x] = send[x]
        BY <3>2
      <3>3. CASE send'[x] = Append(send[x], <<y, 0>>)
        BY <1>1, <3>1, <3>3, AppendMsg
      <3> QED
        BY <1>2, <3>2, <3>3
    <2> QED
      BY <2>1 DEF Addressed, work
  <1>4. ASSUME NEW u \in Sources, NEW x \in Clients, NEW k \in Nat, NEW q, NEW top, NEW d, NEW a,
               LineTo(u, x, k, q, top, d, a)
        PROVE  Line(u, k, send'[x], Waiting(u, x), q, top, d, a)
    BY <1>1, <1>2, <1>4, LinePasses DEF LineTo
  <1>5. \A u, x : Waiting(u, x)' = Waiting(u, x)
    BY DEF Waiting, work
  <1>6. ASSUME NEW u \in Users PROVE KeyLine(u)'
    <2>1. KeyLine(u) /\ DevOf[u] \in Clients /\ u \in Sources /\ Len(got[u]) + Len(stdin[u]) \in Nat
      BY Measures, SourceFacts DEF Lines
    <2> QED
      BY <1>4, <1>5, <2>1 DEF KeyLine, LineTo, tables, queues, shell
  <1>7. ASSUME NEW s \in Streams PROVE OutLine(s)'
    <2>1. PICK top \in Nat : Posted(s, top) /\ OutLineTo(s, top)
      BY DEF Lines, OutLine
    <2>2. s[1] \in Clients /\ s \in Sources /\ Len(screen[s]) \in Nat
      BY Measures, SourceFacts
    <2>3. OutLineTo(s, top)'
      BY <1>4, <1>5, <2>1, <2>2 DEF OutLineTo, LineTo, tables, queues
    <2>4. Posted(s, top)'
      BY <2>1 DEF Posted, shell
    <2> QED
      BY <2>3, <2>4 DEF OutLine
  <1> QED
    BY <1>3, <1>6, <1>7 DEF Lines, Arrived, shell

\* A key is typed.
LEMMA RelayTypes ==
    ASSUME TypeOK, Addressed, Lines, Arrived, NEW u \in Users, Type(u)
    PROVE  Addressed' /\ Lines' /\ Arrived'
  <1>1. UNCHANGED <<send, toWrite, sessions, confirmed, table, gone, shut, screen, shells, stdin, got,
                    termQ, printed, pending>>
    BY DEF Type, close, work, tables, loops, shell
  <1>2. Addressed' /\ Arrived'
    BY <1>1 DEF Addressed, Arrived
  <1>3. \A v, x : Waiting(v, x)' = Waiting(v, x)
    BY <1>1 DEF Waiting
  <1>4. /\ userQ' = Append(userQ, <<u, typed[u] + 1>>) /\ userQ \in Seq(Msg)
        /\ typed'[u] = typed[u] + 1 /\ \A v \in Users \ {u} : typed'[v] = typed[v]
        /\ \A v \in Users : typed[v] \in Nat /\ v \in Sources
        /\ <<u, typed[u] + 1>> \in Msg
    <2>1. userQ \in Seq(Msg) /\ \A v \in Users : typed[v] \in Nat /\ v \in Sources
      BY Measures, SourceFacts
    <2>2. typed'[u] = typed[u] + 1 /\ \A v \in Users \ {u} : typed'[v] = typed[v]
      BY DEF Type, TypeOK
    <2>3. <<u, typed[u] + 1>> \in Msg
      BY <2>1 DEF Msg, Sources
    <2> QED
      BY <2>1, <2>2, <2>3 DEF Type
  <1>5. ASSUME NEW v \in Users PROVE KeyLine(v)'
    <2> DEFINE k == Len(got[v]) + Len(stdin[v])
               reads == v \in shells /\ DevOf[v] \notin gone \cup shut
               known == v \in sessions \cap confirmed /\ DevOf[v] \in table
    <2>1. Line(v, k, send[DevOf[v]], Waiting(v, DevOf[v]), userQ, typed[v], reads, known)
      BY DEF Lines, KeyLine, LineTo
    <2> HIDE DEF k, reads, known
    <2>2. Line(v, k, send[DevOf[v]], Waiting(v, DevOf[v]), userQ', typed'[v], reads, known)
      <3>1. CASE v = u
        <4>1. Line(v, k, send[DevOf[v]], Waiting(v, DevOf[v]), Append(userQ, <<v, typed[v] + 1>>), typed[v] + 1,
                   reads, known)
          BY <1>4, <2>1, LinePosts
        <4> QED
          BY <1>4, <3>1, <4>1
      <3>2. CASE v # u
        <4>1. <<u, typed[u] + 1>>[1] # v
          BY <3>2
        <4> QED
          BY <1>4, <2>1, <3>2, <4>1, LinePosts
      <3> QED
        BY <3>1, <3>2
    <2> QED
      BY <1>1, <1>3, <2>2 DEF KeyLine, LineTo, k, reads, known
  <1>6. ASSUME NEW s \in Streams PROVE OutLine(s)'
    <2>1. PICK top \in Nat : Posted(s, top) /\ OutLineTo(s, top)
      BY DEF Lines, OutLine
    <2>2. Posted(s, top)' /\ OutLineTo(s, top)'
      BY <1>1, <1>3, <2>1 DEF Posted, OutLineTo, LineTo
    <2> QED
      BY <2>2 DEF OutLine
  <1> QED
    BY <1>2, <1>5, <1>6 DEF Lines

\* The pending piece of a stream is posted: it is the next one.
LEMMA RelayPosts ==
    ASSUME TypeOK, Addressed, Lines, Arrived, NEW s \in Streams, Output(s)
    PROVE  Addressed' /\ Lines' /\ Arrived'
  <1>1. UNCHANGED <<send, toWrite, sessions, confirmed, table, gone, shut, screen, shells, stdin, got,
                    userQ, typed, printed>>
    BY DEF Output, close, work, tables, loops
  <1>2. Addressed' /\ Arrived'
    BY <1>1 DEF Addressed, Arrived
  <1>3. \A v, x : Waiting(v, x)' = Waiting(v, x)
    BY <1>1 DEF Waiting
  <1>4. /\ termQ' = Append(termQ, <<s, printed[s]>>) /\ termQ \in Seq(Msg)
        /\ s \in pending /\ pending' = pending \ {s}
        /\ \A r \in Streams : printed[r] \in Nat /\ r \in Sources
        /\ <<s, printed[s]>> \in Msg
    BY Measures, SourceFacts DEF Output, Msg, Sources
  <1>5. ASSUME NEW v \in Users PROVE KeyLine(v)'
    BY <1>1, <1>3 DEF Lines, KeyLine, LineTo
  <1>6. ASSUME NEW r \in Streams PROVE OutLine(r)'
    <2>1. PICK top \in Nat : Posted(r, top) /\ OutLineTo(r, top)
      BY DEF Lines, OutLine
    <2>2. CASE r = s
      <3>1. top + 1 = printed[s] /\ top + 1 \in Nat
        BY <1>4, <2>1, <2>2 DEF Posted
      <3>2. Line(s, Len(screen[s]), send[s[1]], Waiting(s, s[1]), Append(termQ, <<s, top + 1>>), top + 1,
                 s[1] \notin gone \cup shut, s[1] \in sessions)
        BY <1>4, <2>1, <2>2, LinePosts DEF OutLineTo, LineTo
      <3>3. OutLineTo(s, top + 1)'
        BY <1>1, <1>3, <1>4, <3>1, <3>2 DEF OutLineTo, LineTo
      <3>4. Posted(s, top + 1)'
        BY <1>1, <1>4, <3>1 DEF Posted
      <3> QED
        BY <2>2, <3>1, <3>3, <3>4 DEF OutLine
    <2>3. CASE r # s
      <3>1. <<s, printed[s]>>[1] # r
        BY <2>3
      <3>2. Line(r, Len(screen[r]), send[r[1]], Waiting(r, r[1]), Append(termQ, <<s, printed[s]>>), top,
                 r[1] \notin gone \cup shut, r[1] \in sessions)
        BY <1>4, <2>1, <3>1, LinePosts DEF OutLineTo, LineTo
      <3>3. OutLineTo(r, top)'
        BY <1>1, <1>3, <1>4, <3>2 DEF OutLineTo, LineTo
      <3>4. Posted(r, top)'
        BY <1>1, <1>4, <2>1, <2>3 DEF Posted
      <3> QED
        BY <3>3, <3>4 DEF OutLine
    <2> QED
      BY <2>2, <2>3
  <1> QED
    BY <1>2, <1>5, <1>6 DEF Lines

\* What the broker does with a message for x, while it has none that waits.
LEMMA SendEffect ==
    ASSUME TypeOK, NEW x \in Clients, NEW m \in Msg, toWrite = None, BrokerSends(x, m)
    PROVE  /\ \A y \in Clients \ {x} : send'[y] = send[y] /\ \A v : Waiting(v, y)' = 0
           /\ \A v : v # m[1] => Waiting(v, x)' = 0
           /\ \/ x \in shut /\ send'[x] = send[x] /\ Waiting(m[1], x)' = 0
              \/ send'[x] = Append(send[x], m) /\ Waiting(m[1], x)' = 0
              \/ send'[x] = send[x] /\ Waiting(m[1], x)' = m[2]
           /\ toWrite' = toWrite \/ toWrite' = Write(x, m)
  <1>1. /\ \A y \in Clients \ {x} : send'[y] = send[y]
        /\ \/ x \in shut /\ send'[x] = send[x] /\ toWrite' = None
           \/ send'[x] = Append(send[x], m) /\ toWrite' = None
           \/ send'[x] = send[x] /\ toWrite' = Write(x, m)
    BY DEF BrokerSends, Lost, Room, Sent, TypeOK
  <1>2. CASE toWrite' = None
    BY <1>1, <1>2, Writes DEF Waiting
  <1>3. CASE toWrite' = Write(x, m)
    <2>1. toWrite' # None /\ toWrite'.to = x /\ toWrite'.msg = m
      BY <1>3, Writes
    <2> QED
      BY <1>1, <1>3, <2>1 DEF Waiting
  <1> QED
    BY <1>1, <1>2, <1>3

\* A line whose message, or another's, is served.
LEMMA LineServed ==
    ASSUME NEW u \in Sources, NEW k \in Nat, NEW s \in Seq(Msg), NEW q \in Seq(Msg), q # <<>>,
           NEW top \in Nat, NEW deliver, NEW accept, NEW r, NEW w,
           Line(u, k, s, 0, q, top, deliver, accept),
           \/ Head(q)[1] # u /\ r \in {s, Append(s, Head(q))} /\ w = 0
           \/ (~deliver \/ ~accept) /\ r = s /\ w = 0
           \/ accept /\ Head(q)[1] = u /\ r = Append(s, Head(q)) /\ w = 0
           \/ accept /\ Head(q)[1] = u /\ r = s /\ w = Head(q)[2]
    PROVE  Line(u, k, r, w, Tail(q), top, deliver, accept)
  <1>1. Head(q) \in Msg
    BY TailMsg
  <1>2. CASE Head(q)[1] # u /\ r \in {s, Append(s, Head(q))} /\ w = 0
    <2>1. Line(u, k, s, 0, Tail(q), top, deliver, accept)
      BY <1>2, LineServes
    <2>2. Line(u, k, Append(s, Head(q)), 0, Tail(q), top, deliver, accept)
      BY <1>1, <1>2, <2>1, LinePasses
    <2> QED
      BY <1>2, <2>1, <2>2
  <1>3. CASE (~deliver \/ ~accept) /\ r = s /\ w = 0
    BY <1>3, LineServes
  <1>4. CASE accept /\ Head(q)[1] = u /\ ((r = Append(s, Head(q)) /\ w = 0) \/ (r = s /\ w = Head(q)[2]))
    <2>1. CASE deliver
      BY <1>4, <2>1, LineServes
    <2>2. CASE ~deliver
      <3>1. Line(u, k, s, 0, Tail(q), top, deliver, accept)
        BY <2>2, LineServes
      <3> QED
        BY <2>2, <3>1, LineEnds
    <2> QED
      BY <2>1, <2>2
  <1> QED
    BY <1>2, <1>3, <1>4

\* Where a message goes that the broker serves.
LEMMA ServedAddress ==
    ASSUME TypeOK, Addressed, NEW y \in Clients, NEW m \in Msg,
           BoundFor(m[1], y),
           \A x \in Clients : send'[x] = send[x] \/ (x = y /\ send'[x] = Append(send[x], m)),
           toWrite' = toWrite \/ toWrite' = Write(y, m)
    PROVE  Addressed'
  <1> SUFFICES ASSUME NEW x \in Clients, NEW u \in Sources, NEW n \in Nat \ {0},
                      In(n, u, send'[x]) \/ toWrite' = Write(x, <<u, n>>)
               PROVE  BoundFor(u, x)
    BY DEF Addressed
  <1>1. m = <<m[1], m[2]>> /\ send[x] \in Seq(Msg)
    BY Measures DEF Msg
  <1>2. CASE In(n, u, send[x]) \/ toWrite = Write(x, <<u, n>>)
    BY <1>2 DEF Addressed
  <1>3. CASE In(n, u, send'[x]) /\ ~In(n, u, send[x])
    <2>1. x = y /\ In(n, u, Append(send[x], m))
      BY <1>3
    <2>2. m = <<u, n>>
      BY <1>1, <1>3, <2>1, AppendMsg
    <2> QED
      BY <2>1, <2>2
  <1>4. CASE toWrite' = Write(x, <<u, n>>) /\ toWrite # Write(x, <<u, n>>)
    <2>1. /\ Write(x, <<u, n>>).to = x /\ Write(x, <<u, n>>).msg = <<u, n>>
          /\ Write(y, m).to = y /\ Write(y, m).msg = m
      BY DEF Write
    <2> QED
      BY <1>4, <2>1
  <1> QED
    BY <1>2, <1>3, <1>4

LEMMA RelayKey ==
    ASSUME TypeOK, Addressed, Lines, Arrived, ServeKey
    PROVE  Addressed' /\ Lines' /\ Arrived'
  <1>1. /\ \A x \in Clients : send[x] \in Seq(Msg)
        /\ userQ \in Seq(Msg) /\ sessions \subseteq Users
        /\ \A v \in Users : /\ DevOf[v] \in Clients /\ typed[v] \in Nat /\ v \in Sources
                            /\ Len(got[v]) + Len(stdin[v]) \in Nat
    BY Measures, SourceFacts DEF TypeOK
  <1>2. /\ userQ # <<>> /\ userQ' = Tail(userQ) /\ toWrite = None
        /\ UNCHANGED <<sessions, confirmed, table, gone, shut, termQ, typed, screen, shells, stdin,
                       got, printed, pending>>
    BY DEF ServeKey, Idle, close, tables, shell
  <1>3. PICK m \in Msg : m = Head(userQ)
    BY <1>1, <1>2, TailMsg
  <1> DEFINE u == m[1]
             accepts == u \in sessions \cap confirmed /\ DevOf[u] \in table
  <1>4. \A v, x : Waiting(v, x) = 0
    BY <1>2 DEF Waiting
  <1>5. Arrived'
    BY <1>2 DEF Arrived
  <1>6. CASE accepts
    <2>1. BrokerSends(DevOf[u], m) /\ u \in Users /\ DevOf[u] \in Clients
      BY <1>1, <1>3, <1>6 DEF ServeKey
    <2> DEFINE d == DevOf[u]
    <2>a. d \in Clients /\ m \in Msg /\ m[1] = u /\ BrokerSends(d, m) /\ toWrite = None
      BY <1>2, <1>3, <2>1
    <2>b. \A v \in Users : v = u => DevOf[v] = d
      OBVIOUS
    <2>c. u \in sessions \cap confirmed /\ d \in table
      BY <1>6
    <2>d. Head(userQ) = m /\ u \in Users /\ d = DevOf[u] /\ \A s \in Streams : s[1] # d
      BY <1>3, <2>1, SourceFacts
    <2>e. BoundFor(u, d)
      BY <2>d DEF BoundFor
    <2> HIDE DEF d, u
    <2>2. /\ \A y \in Clients \ {d} : send'[y] = send[y] /\ \A v : Waiting(v, y)' = 0
          /\ \A v : v # u => Waiting(v, d)' = 0
          /\ \/ d \in shut /\ send'[d] = send[d] /\ Waiting(u, d)' = 0
             \/ send'[d] = Append(send[d], m) /\ Waiting(u, d)' = 0
             \/ send'[d] = send[d] /\ Waiting(u, d)' = m[2]
          /\ toWrite' = toWrite \/ toWrite' = Write(d, m)
      BY <2>a, SendEffect
    <2>3. Addressed'
      BY <2>a, <2>e, <2>2, ServedAddress
    <2>4. ASSUME NEW s \in Streams PROVE OutLine(s)'
      <3>1. PICK top \in Nat : Posted(s, top) /\ OutLineTo(s, top)
        BY DEF Lines, OutLine
      <3>2. s[1] \in Clients \ {d}
        BY <2>d, SourceFacts
      <3>3. send'[s[1]] = send[s[1]] /\ Waiting(s, s[1])' = Waiting(s, s[1])
        BY <1>4, <2>2, <3>2
      <3>4. Posted(s, top)' /\ OutLineTo(s, top)'
        BY <1>2, <3>1, <3>3 DEF Posted, OutLineTo, LineTo
      <3> QED
        BY <3>4 DEF OutLine
    <2>5. ASSUME NEW v \in Users PROVE KeyLine(v)'
      <3> DEFINE x == DevOf[v]
                 k == Len(got[v]) + Len(stdin[v])
                 reads == v \in shells /\ x \notin gone \cup shut
                 known == v \in sessions \cap confirmed /\ x \in table
      <3>1. /\ Line(v, k, send[x], 0, userQ, typed[v], reads, known)
            /\ k \in Nat /\ x \in Clients /\ send[x] \in Seq(Msg) /\ typed[v] \in Nat
            /\ v \in Sources
        BY <1>1, <1>4 DEF Lines, KeyLine, LineTo
      <3>2. \/ u # v /\ send'[x] \in {send[x], Append(send[x], m)} /\ Waiting(v, x)' = 0
            \/ ~reads /\ send'[x] = send[x] /\ Waiting(v, x)' = 0
            \/ known /\ u = v /\ send'[x] = Append(send[x], m) /\ Waiting(v, x)' = 0
            \/ known /\ u = v /\ send'[x] = send[x] /\ Waiting(v, x)' = m[2]
        <4>1. CASE u = v
          <5>1. x = d /\ known /\ (d \in shut => ~reads)
            BY <2>b, <2>c, <4>1
          <5> HIDE DEF x, reads, known
          <5> QED
            BY <2>a, <2>2, <4>1, <5>1
        <4>2. CASE u # v
          <5> HIDE DEF x
          <5> QED
            BY <2>2, <3>1, <4>2
        <4> QED
          BY <4>1, <4>2
      <3> HIDE DEF x, k, reads, known
      <3>3. Line(v, k, send'[x], Waiting(v, x)', Tail(userQ), typed[v], reads, known)
        BY <1>1, <1>2, <2>a, <2>d, <3>1, <3>2, LineServed
      <3> QED
        BY <1>2, <3>3 DEF KeyLine, LineTo, x, k, reads, known
    <2> QED
      BY <1>5, <2>3, <2>4, <2>5 DEF Lines
  <1>7. CASE ~accepts
    <2>1. UNCHANGED <<send, toWrite>>
      BY <1>3, <1>7 DEF ServeKey
    <2>2. Addressed'
      BY <2>1 DEF Addressed
    <2>3. \A v, x : Waiting(v, x)' = 0
      BY <1>4, <2>1 DEF Waiting
    <2>4. ASSUME NEW s \in Streams PROVE OutLine(s)'
      <3>1. PICK top \in Nat : Posted(s, top) /\ OutLineTo(s, top)
        BY DEF Lines, OutLine
      <3>2. Posted(s, top)' /\ OutLineTo(s, top)'
        BY <1>2, <1>4, <2>1, <2>3, <3>1 DEF Posted, OutLineTo, LineTo
      <3> QED
        BY <3>2 DEF OutLine
    <2>5. ASSUME NEW v \in Users PROVE KeyLine(v)'
      <3> DEFINE x == DevOf[v]
                 k == Len(got[v]) + Len(stdin[v])
                 reads == v \in shells /\ x \notin gone \cup shut
                 known == v \in sessions \cap confirmed /\ x \in table
      <3>1. /\ Line(v, k, send[x], 0, userQ, typed[v], reads, known)
            /\ k \in Nat /\ send[x] \in Seq(Msg) /\ typed[v] \in Nat /\ v \in Sources
        BY <1>1, <1>4 DEF Lines, KeyLine, LineTo
      <3>2. u # v \/ ~known
        BY <1>3, <1>7
      <3> HIDE DEF x, k, reads, known
      <3>3. Line(v, k, send[x], 0, Tail(userQ), typed[v], reads, known)
        BY <1>1, <1>2, <1>3, <3>1, <3>2, LineServed
      <3> QED
        BY <1>2, <2>1, <2>3, <3>3 DEF KeyLine, LineTo, x, k, reads, known
    <2> QED
      BY <1>5, <2>2, <2>4, <2>5 DEF Lines
  <1> QED
    BY <1>6, <1>7

LEMMA RelayOutput ==
    ASSUME TypeOK, Addressed, Lines, Arrived, ServeOutput
    PROVE  Addressed' /\ Lines' /\ Arrived'
  <1>1. /\ \A x \in Clients : send[x] \in Seq(Msg)
        /\ termQ \in Seq(Msg) /\ sessions \subseteq Users
        /\ \A s \in Streams : s[1] \in Clients /\ Len(screen[s]) \in Nat /\ s \in Sources
    BY Measures, SourceFacts DEF TypeOK
  <1>2. /\ termQ # <<>> /\ termQ' = Tail(termQ) /\ toWrite = None
        /\ UNCHANGED <<sessions, confirmed, table, gone, shut, userQ, typed, screen, shells, stdin,
                       got, printed, pending>>
    BY DEF ServeOutput, Idle, close, tables, shell
  <1>3. PICK m \in Msg : m = Head(termQ) /\ m[1] \in Streams
    <2>1. Head(termQ) \in Streams \X Nat
      BY <1>2, Capacities, ChannelOps DEF TypeOK
    <2> QED
      BY <2>1, MsgOf
  <1> DEFINE s == m[1]
             u == s[1]
  <1>4. \A v, x : Waiting(v, x) = 0
    BY <1>2 DEF Waiting
  <1>5. Arrived'
    BY <1>2 DEF Arrived
  <1>6. CASE u \in sessions
    <2>1. /\ BrokerSends(u, m) /\ u \in Users /\ u \in Clients /\ m[1] = s /\ m = Head(termQ)
          /\ s \in Streams /\ s[1] = u
      BY <1>1, <1>3, <1>6 DEF ServeOutput
    <2>a. BoundFor(s, u)
      BY <2>1 DEF BoundFor
    <2> HIDE DEF u, s
    <2>2. /\ \A y \in Clients \ {u} : send'[y] = send[y] /\ \A v : Waiting(v, y)' = 0
          /\ \A v : v # s => Waiting(v, u)' = 0
          /\ \/ u \in shut /\ send'[u] = send[u] /\ Waiting(s, u)' = 0
             \/ send'[u] = Append(send[u], m) /\ Waiting(s, u)' = 0
             \/ send'[u] = send[u] /\ Waiting(s, u)' = m[2]
          /\ toWrite' = toWrite \/ toWrite' = Write(u, m)
      BY <1>2, <2>1, SendEffect
    <2>3. Addressed'
      BY <2>1, <2>a, <2>2, ServedAddress
    <2>4. ASSUME NEW v \in Users PROVE KeyLine(v)'
      <3>1. DevOf[v] \in Clients \ {u} /\ KeyLine(v)
        BY <2>1, SourceFacts DEF Lines
      <3>2. /\ send'[DevOf[v]] = send[DevOf[v]]
            /\ Waiting(v, DevOf[v])' = 0 /\ Waiting(v, DevOf[v]) = 0
        BY <1>4, <2>2, <3>1
      <3> QED
        BY <1>2, <3>1, <3>2 DEF KeyLine, LineTo
    <2>5. ASSUME NEW r \in Streams PROVE OutLine(r)'
      <3>0. PICK top \in Nat : Posted(r, top) /\ OutLineTo(r, top)
        BY DEF Lines, OutLine
      <3> DEFINE x == r[1]
                 k == Len(screen[r])
                 reads == x \notin gone \cup shut
                 known == x \in sessions
      <3>1. /\ Line(r, k, send[x], 0, termQ, top, reads, known)
            /\ k \in Nat /\ x \in Clients /\ send[x] \in Seq(Msg) /\ r \in Sources
        BY <1>1, <1>4, <3>0 DEF OutLineTo, LineTo
      <3>2. \/ s # r /\ send'[x] \in {send[x], Append(send[x], m)} /\ Waiting(r, x)' = 0
            \/ ~reads /\ send'[x] = send[x] /\ Waiting(r, x)' = 0
            \/ known /\ s = r /\ send'[x] = Append(send[x], m) /\ Waiting(r, x)' = 0
            \/ known /\ s = r /\ send'[x] = send[x] /\ Waiting(r, x)' = m[2]
        <4>1. CASE s = r
          <5>1. x = u /\ known /\ (u \in shut => ~reads)
            BY <1>6, <2>1, <4>1
          <5> HIDE DEF x, reads, known
          <5> QED
            BY <2>2, <4>1, <5>1
        <4>2. CASE s # r
          <5> HIDE DEF x
          <5> QED
            BY <2>2, <3>1, <4>2
        <4> QED
          BY <4>1, <4>2
      <3> HIDE DEF x, k, reads, known
      <3>3. Line(r, k, send'[x], Waiting(r, x)', Tail(termQ), top, reads, known)
        BY <1>1, <1>2, <2>1, <3>1, <3>2, LineServed
      <3>4. OutLineTo(r, top)' /\ Posted(r, top)'
        BY <1>2, <3>0, <3>3 DEF OutLineTo, LineTo, Posted, x, k, reads, known
      <3> QED
        BY <3>4 DEF OutLine
    <2> QED
      BY <1>5, <2>3, <2>4, <2>5 DEF Lines
  <1>7. CASE u \notin sessions
    <2>1. UNCHANGED <<send, toWrite>>
      BY <1>3, <1>7 DEF ServeOutput
    <2>2. Addressed'
      BY <2>1 DEF Addressed
    <2>3. \A v, x : Waiting(v, x)' = 0
      BY <1>4, <2>1 DEF Waiting
    <2>4. ASSUME NEW v \in Users PROVE KeyLine(v)'
      BY <1>2, <1>4, <2>1, <2>3 DEF Lines, KeyLine, LineTo
    <2>5. ASSUME NEW r \in Streams PROVE OutLine(r)'
      <3>0. PICK top \in Nat : Posted(r, top) /\ OutLineTo(r, top)
        BY DEF Lines, OutLine
      <3> DEFINE x == r[1]
                 k == Len(screen[r])
                 reads == x \notin gone \cup shut
                 known == x \in sessions
      <3>1. /\ Line(r, k, send[x], 0, termQ, top, reads, known)
            /\ k \in Nat /\ send[x] \in Seq(Msg) /\ r \in Sources
        BY <1>1, <1>4, <3>0 DEF OutLineTo, LineTo
      <3>2. s # r \/ ~known
        BY <1>7
      <3> HIDE DEF x, k, reads, known
      <3>3. Line(r, k, send[x], 0, Tail(termQ), top, reads, known)
        BY <1>1, <1>2, <1>3, <3>1, <3>2, LineServed
      <3>4. OutLineTo(r, top)' /\ Posted(r, top)'
        BY <1>2, <2>1, <2>3, <3>0, <3>3 DEF OutLineTo, LineTo, Posted, x, k, reads, known
      <3> QED
        BY <3>4 DEF OutLine
    <2> QED
      BY <1>5, <2>2, <2>4, <2>5 DEF Lines
  <1> QED
    BY <1>6, <1>7

\* The write that has waited for room, or for the channel to be closed.
LEMMA RelayWrites ==
    ASSUME TypeOK, Addressed, Lines, Arrived, NEW y \in Clients, BrokerWrites(y)
    PROVE  Addressed' /\ Lines' /\ Arrived'
  <1>1. /\ \A x \in Clients : send[x] \in Seq(Msg)
        /\ \A u \in Users : /\ DevOf[u] \in Clients /\ u \in Sources
                            /\ Len(got[u]) + Len(stdin[u]) \in Nat
        /\ \A s \in Streams : s[1] \in Clients /\ s \in Sources /\ Len(screen[s]) \in Nat
    BY Measures, SourceFacts
  <1>2. /\ UNCHANGED <<sessions, confirmed, table, gone, shut, userQ, termQ, typed, screen, shells, stdin,
                       got, printed, pending>>
        /\ toWrite # None /\ toWrite.to = y /\ toWrite' = None
    BY DEF BrokerWrites, Waits, close, tables, queues, shell
  <1>3. PICK m \in Msg : m = toWrite.msg /\ toWrite = Write(y, m)
    BY <1>2 DEF TypeOK, Write
  <1>4. /\ \A x \in Clients \ {y} : send'[x] = send[x]
        /\ \/ y \in shut /\ send'[y] = send[y]
           \/ send'[y] = Append(send[y], m)
    BY <1>3 DEF BrokerWrites, Lost, Room, Sent, TypeOK
  <1>5. /\ \A v, x : Waiting(v, x)' = 0
        /\ \A v, x : v # m[1] \/ x # y => Waiting(v, x) = 0
        /\ Waiting(m[1], y) = m[2] /\ m[2] \in Nat /\ m[1] \in Sources /\ m = <<m[1], m[2]>>
    BY <1>2, <1>3 DEF Waiting, Msg, Sources
  <1>6. Addressed'
    <2>1. \A x \in Clients : \A u \in Sources : \A n \in Nat \ {0} : toWrite' # Write(x, <<u, n>>)
      BY <1>2, Writes DEF Msg, Sources
    <2>2. ASSUME NEW x \in Clients, NEW u \in Sources, NEW n \in Nat \ {0}, In(n, u, send'[x])
          PROVE  In(n, u, send[x]) \/ toWrite = Write(x, <<u, n>>)
      <3>1. CASE send'[x] = send[x]
        BY <2>2, <3>1
      <3>2. CASE x = y /\ send'[y] = Append(send[y], m)
        <4>1. In(n, u, Append(send[y], m)) /\ send[y] \in Seq(Msg)
          BY <1>1, <2>2, <3>2
        <4>2. In(n, u, send[y]) \/ m = <<u, n>>
          BY <4>1, AppendMsg
        <4> QED
          BY <1>3, <3>2, <4>2
      <3> QED
        BY <1>4, <3>1, <3>2
    <2> QED
      BY <2>1, <2>2 DEF Addressed
  <1>7. ASSUME NEW v \in Sources, NEW x \in Clients, NEW k \in Nat, NEW q, NEW top, NEW d, NEW a,
               x \in shut => ~d,
               Line(v, k, send[x], Waiting(v, x), q, top, d, a)
        PROVE  Line(v, k, send'[x], 0, q, top, d, a)
    <2>1. CASE x # y
      BY <1>4, <1>5, <1>7, <2>1
    <2>2. CASE x = y /\ ~d
      BY <1>7, <2>2, LineEnds
    <2>3. CASE x = y /\ d /\ (v # m[1] \/ m[2] = 0)
      <3>1. send'[x] = Append(send[x], m) /\ Waiting(v, x) = 0
        BY <1>4, <1>5, <1>7, <2>3
      <3> QED
        BY <1>1, <1>7, <2>3, <3>1, LinePasses
    <2>4. CASE x = y /\ d /\ v = m[1] /\ m[2] # 0
      <3>1. send'[x] = Append(send[x], <<v, m[2]>>) /\ Waiting(v, x) = m[2]
        BY <1>4, <1>5, <1>7, <2>4
      <3> QED
        BY <1>1, <1>5, <1>7, <2>4, <3>1, LineWrites
    <2> QED
      BY <2>1, <2>2, <2>3, <2>4
  <1>8. ASSUME NEW u \in Users PROVE KeyLine(u)'
    <2>1. KeyLine(u) /\ DevOf[u] \in Clients
      BY <1>1 DEF Lines
    <2>2. Line(u, Len(got[u]) + Len(stdin[u]), send'[DevOf[u]], 0, userQ, typed[u],
               u \in shells /\ DevOf[u] \notin gone \cup shut,
               u \in sessions \cap confirmed /\ DevOf[u] \in table)
      BY <1>1, <1>7, <2>1 DEF KeyLine, LineTo
    <2> QED
      BY <1>2, <1>5, <2>2 DEF KeyLine, LineTo
  <1>9. ASSUME NEW s \in Streams PROVE OutLine(s)'
    <2>1. PICK top \in Nat : Posted(s, top) /\ OutLineTo(s, top)
      BY DEF Lines, OutLine
    <2>2. Line(s, Len(screen[s]), send'[s[1]], 0, termQ, top, s[1] \notin gone \cup shut, s[1] \in sessions)
      BY <1>1, <1>7, <2>1 DEF OutLineTo, LineTo
    <2>3. OutLineTo(s, top)' /\ Posted(s, top)'
      BY <1>2, <1>5, <2>1, <2>2 DEF OutLineTo, LineTo, Posted
    <2> QED
      BY <2>3 DEF OutLine
  <1>10. Arrived'
    BY <1>2 DEF Arrived
  <1> QED
    BY <1>6, <1>8, <1>9, <1>10 DEF Lines

\* The message that a write loop takes.
LEMMA TakenMsg ==
    ASSUME TypeOK, NEW y \in Clients, Takes(y)
    PROVE  Head(send[y]) \in Msg
  BY Measures, TailMsg DEF Takes

\* What every write loop does that takes a message m.
LEMMA TakesEffect ==
    ASSUME TypeOK, Addressed, NEW y \in Clients, Takes(y), UNCHANGED toWrite,
           NEW m \in Msg, m = Head(send[y])
    PROVE  /\ send[y] # <<>>
           /\ send'[y] = Tail(send[y]) /\ \A x \in Clients \ {y} : send'[x] = send[x]
           /\ m[2] > 0 => BoundFor(m[1], y)
           /\ Addressed'
           /\ \A v, x : Waiting(v, x)' = Waiting(v, x)
  <1>1. \A x \in Clients : send[x] \in Seq(Msg)
    BY Measures
  <1>2. /\ send[y] # <<>> /\ send'[y] = Tail(send[y])
        /\ \A x \in Clients \ {y} : send'[x] = send[x]
    BY DEF Takes, TypeOK
  <1>3. m = <<m[1], m[2]>> /\ m[1] \in Sources /\ m[2] \in Nat
    BY DEF Msg, Sources
  <1>4. In(m[2], m[1], send[y])
    BY <1>1, <1>2, <1>3, TailMsg
  <1>5. m[2] > 0 => BoundFor(m[1], y)
    <2> SUFFICES ASSUME m[2] > 0 PROVE BoundFor(m[1], y)
      OBVIOUS
    <2>1. m[2] \in Nat \ {0}
      BY <1>3
    <2> QED
      BY <1>3, <1>4, <2>1 DEF Addressed
  <1>6. \A x \in Clients : \A n, u : In(n, u, send'[x]) => In(n, u, send[x])
    BY <1>1, <1>2, TailMsg
  <1>7. Addressed'
    BY <1>6 DEF Addressed
  <1>8. \A v, x : Waiting(v, x)' = Waiting(v, x)
    BY DEF Waiting
  <1> QED
    BY <1>2, <1>5, <1>7, <1>8

\* Only the line moves that the message belongs to, if it is a key or a piece.
LEMMA TakesLine ==
    ASSUME TypeOK, NEW y \in Clients, Takes(y), NEW m \in Msg, m = Head(send[y]),
           NEW u \in Sources, NEW x \in Clients, NEW k \in Nat, NEW q, NEW top, NEW d, NEW a,
           LineTo(u, x, k, q, top, d, a),
           x # y \/ m[1] # u \/ m[2] = 0
    PROVE  Line(u, k, send'[x], Waiting(u, x), q, top, d, a)
  <1>1. /\ \A z \in Clients : send[z] \in Seq(Msg)
        /\ send[y] # <<>> /\ send'[y] = Tail(send[y])
        /\ \A z \in Clients \ {y} : send'[z] = send[z]
    BY Measures DEF Takes, TypeOK
  <1>2. CASE x # y
    BY <1>1, <1>2 DEF LineTo
  <1>3. CASE x = y
    BY <1>1, <1>3, LinePasses DEF LineTo
  <1> QED
    BY <1>2, <1>3

\* Nobody is there to read it.
LEMMA RelayNobody ==
    ASSUME TypeOK, Addressed, Lines, Arrived, NEW y \in Clients, WriteToNobody(y)
    PROVE  Addressed' /\ Lines' /\ Arrived'
  <1>1. /\ UNCHANGED <<toWrite, sessions, confirmed, table, gone, shut, userQ, termQ, typed,
                       screen, shells, stdin, got, printed, pending>>
        /\ Takes(y) /\ y \in gone
    BY DEF WriteToNobody, close, work, tables, queues, shell
  <1>2. /\ \A x \in Clients \ {y} : send'[x] = send[x]
        /\ \A v, x : Waiting(v, x)' = Waiting(v, x)
        /\ Addressed'
    BY <1>1, TakenMsg, TakesEffect
  <1>3. Arrived'
    BY <1>1 DEF Arrived
  <1>4. ASSUME NEW u \in Users PROVE KeyLine(u)'
    <2>1. KeyLine(u) /\ DevOf[u] \in Clients
      BY SourceFacts DEF Lines
    <2>2. CASE DevOf[u] # y
      BY <1>1, <1>2, <2>1, <2>2 DEF KeyLine, LineTo
    <2>3. CASE DevOf[u] = y
      <3>1. \A k, s, w, a : Line(u, k, s, w, userQ, typed[u], u \in shells /\ DevOf[u] \notin gone \cup shut, a)
        BY <1>1, <2>1, <2>3, LineEnds DEF KeyLine, LineTo
      <3> QED
        BY <1>1, <3>1 DEF KeyLine, LineTo
    <2> QED
      BY <2>2, <2>3
  <1>5. ASSUME NEW s \in Streams PROVE OutLine(s)'
    <2>1. PICK top \in Nat : Posted(s, top) /\ OutLineTo(s, top)
      BY DEF Lines, OutLine
    <2>2. s[1] \in Clients
      BY SourceFacts
    <2>3. OutLineTo(s, top)'
      <3>1. CASE s[1] # y
        BY <1>1, <1>2, <2>1, <2>2, <3>1 DEF OutLineTo, LineTo
      <3>2. CASE s[1] = y
        <4>0. /\ Line(s, Len(screen[s]), send[s[1]], Waiting(s, s[1]), termQ, top,
                      s[1] \notin gone \cup shut, s[1] \in sessions)
              /\ ~(s[1] \notin gone \cup shut)
          BY <1>1, <2>1, <3>2 DEF OutLineTo, LineTo
        <4>1. \A k, c, w, d, a : ~d => Line(s, k, c, w, termQ, top, d, a)
          BY <4>0, LineEnds
        <4>2. ~(s[1] \notin gone' \cup shut')
          BY <1>1, <4>0
        <4> QED
          BY <1>1, <4>1, <4>2 DEF OutLineTo, LineTo
      <3> QED
        BY <3>1, <3>2
    <2>4. Posted(s, top)'
      BY <1>1, <2>1 DEF Posted
    <2> QED
      BY <2>3, <2>4 DEF OutLine
  <1> QED
    BY <1>2, <1>3, <1>4, <1>5 DEF Lines

LEMMA RelayToUser ==
    ASSUME TypeOK, Addressed, Lines, Arrived, NEW y \in Users, WriteToUser(y)
    PROVE  Addressed' /\ Lines' /\ Arrived'
  <1>1. /\ UNCHANGED <<toWrite, sessions, confirmed, table, gone, shut, userQ, termQ, typed,
                       shells, stdin, got, printed, pending>>
        /\ Takes(y) /\ y \notin gone \cup shut /\ y \in Clients
    BY DEF WriteToUser, close, work, tables, queues, shell, Clients
  <1>2. PICK m \in Msg : m = Head(send[y])
    BY <1>1, TakenMsg
  <1>3. /\ send[y] # <<>> /\ send'[y] = Tail(send[y])
        /\ m[2] > 0 => BoundFor(m[1], y)
        /\ \A v, x : Waiting(v, x)' = Waiting(v, x)
        /\ Addressed'
    BY <1>1, <1>2, TakesEffect
  <1>4. /\ \A v \in Users : /\ DevOf[v] \in Clients /\ DevOf[v] # y /\ v \in Sources
                            /\ Len(got[v]) + Len(stdin[v]) \in Nat
        /\ \A s \in Streams : /\ s[1] \in Clients /\ s \in Sources /\ Len(screen[s]) \in Nat
                              /\ screen[s] \in Seq(Nat)
        /\ send[y] \in Seq(Msg) /\ m[2] \in Nat
    BY <1>1, Measures, SourceFacts DEF Msg
  <1>5. ASSUME NEW v \in Users PROVE KeyLine(v)'
    <2> DEFINE k == Len(got[v]) + Len(stdin[v])
               reads == v \in shells /\ DevOf[v] \notin gone \cup shut
               known == v \in sessions \cap confirmed /\ DevOf[v] \in table
    <2>a. LineTo(v, DevOf[v], k, userQ, typed[v], reads, known) /\ k \in Nat
      BY <1>4 DEF Lines, KeyLine
    <2> HIDE DEF k, reads, known
    <2>1. Line(v, k, send'[DevOf[v]], Waiting(v, DevOf[v]), userQ, typed[v], reads, known)
      BY <1>1, <1>2, <1>4, <2>a, TakesLine
    <2> QED
      BY <1>1, <1>3, <2>1 DEF KeyLine, LineTo, k, reads, known
  <1>6. ASSUME NEW s \in Streams, s # m[1] \/ m[2] = 0 PROVE OutLine(s)' /\ screen'[s] = screen[s]
    <2>0. PICK top \in Nat : Posted(s, top) /\ OutLineTo(s, top)
      BY DEF Lines, OutLine
    <2>1. Line(s, Len(screen[s]), send'[s[1]], Waiting(s, s[1]), termQ, top, s[1] \notin gone \cup shut,
               s[1] \in sessions)
      BY <1>1, <1>2, <1>4, <1>6, <2>0, TakesLine DEF OutLineTo
    <2>2. screen'[s] = screen[s]
      BY <1>2, <1>6 DEF WriteToUser, TypeOK
    <2>3. OutLineTo(s, top)' /\ Posted(s, top)'
      BY <1>1, <1>3, <2>0, <2>1, <2>2 DEF OutLineTo, LineTo, Posted
    <2> QED
      BY <2>2, <2>3 DEF OutLine
  <1>7. ASSUME NEW s \in Streams, s = m[1], m[2] # 0 PROVE OutLine(s)' /\ Numbered(screen'[s])
    <2>0. PICK top \in Nat : Posted(s, top) /\ OutLineTo(s, top)
      BY DEF Lines, OutLine
    <2>1. m[2] > 0 /\ BoundFor(s, y)
      BY <1>3, <1>4, <1>7
    <2>2. s[1] = y
      BY <1>4, <2>1, SourceFacts DEF BoundFor
    <2>3. Line(s, Len(screen[s]), send[y], Waiting(s, y), termQ, top, y \notin gone \cup shut, y \in sessions)
      BY <2>0, <2>2 DEF OutLineTo, LineTo
    <2>4. /\ m[2] = Len(screen[s]) + 1
          /\ Line(s, Len(screen[s]) + 1, Tail(send[y]), Waiting(s, y), termQ, top,
                  y \notin gone \cup shut, y \in sessions)
      BY <1>1, <1>2, <1>3, <1>4, <1>7, <2>1, <2>3, LineDelivers
    <2>5. screen'[s] = Append(screen[s], Len(screen[s]) + 1)
      BY <1>2, <1>7, <2>4 DEF WriteToUser, TypeOK
    <2>6. Numbered(screen'[s]) /\ Len(screen'[s]) = Len(screen[s]) + 1
      BY <1>4, <2>5, NumberedAppend DEF Arrived
    <2>7. OutLineTo(s, top)'
      BY <1>1, <1>3, <2>2, <2>4, <2>6 DEF OutLineTo, LineTo
    <2>8. Posted(s, top)'
      BY <1>1, <2>0 DEF Posted
    <2> QED
      BY <2>6, <2>7, <2>8 DEF OutLine
  <1>8. Lines'
    BY <1>5, <1>6, <1>7 DEF Lines
  <1>9. Arrived'
    BY <1>1, <1>6, <1>7 DEF Arrived
  <1> QED
    BY <1>3, <1>8, <1>9

LEMMA RelayToDevice ==
    ASSUME TypeOK, Addressed, Lines, Arrived, NEW y \in Devs, WriteToDevice(y)
    PROVE  Addressed' /\ Lines' /\ Arrived'
  <1>1. /\ UNCHANGED <<toWrite, sessions, confirmed, table, gone, shut, userQ, termQ, typed,
                       screen, got, printed>>
        /\ Takes(y) /\ y \notin gone \cup shut /\ y \in Clients
    BY DEF WriteToDevice, close, work, tables, queues, Clients
  <1>2. PICK m \in Msg : m = Head(send[y])
    BY <1>1, TakenMsg
  <1> DEFINE u == m[1]
  <1>3. /\ send[y] # <<>> /\ send'[y] = Tail(send[y])
        /\ m[2] > 0 => BoundFor(u, y)
        /\ \A v, x : Waiting(v, x)' = Waiting(v, x)
        /\ Addressed'
    BY <1>1, <1>2, TakesEffect
  <1>4. /\ \A v \in Users : /\ DevOf[v] \in Clients /\ v # y /\ v \in Sources
                            /\ Len(got[v]) + Len(stdin[v]) \in Nat
                            /\ got[v] \in Seq(Nat) /\ stdin[v] \in Seq(Nat)
        /\ \A s \in Streams : /\ s[1] \in Clients /\ s[1] # y /\ s \in Sources /\ Len(screen[s]) \in Nat
        /\ send[y] \in Seq(Msg) /\ m[2] \in Nat /\ shells \subseteq Users
    <2>1. /\ \A v \in Users : DevOf[v] \in Clients /\ v # y /\ v \in Sources
          /\ \A s \in Streams : s[1] \in Clients /\ s[1] # y /\ s \in Sources
      BY SourceFacts, RelayAssumption
    <2>2. m[2] \in Nat /\ shells \subseteq Users
      BY DEF Msg, TypeOK
    <2>3. send[y] \in Seq(Msg) /\ \A s \in Streams : Len(screen[s]) \in Nat
      BY <1>1, Measures
    <2>4. \A v \in Users : /\ Len(got[v]) + Len(stdin[v]) \in Nat
                           /\ got[v] \in Seq(Nat) /\ stdin[v] \in Seq(Nat)
      BY Measures
    <2> QED
      BY <2>1, <2>2, <2>3, <2>4
  <1>5. /\ \A v \in Users \ {u} : stdin'[v] = stdin[v] /\ (v \in shells' <=> v \in shells)
        /\ \/ u \notin shells /\ stdin' = stdin /\ shells' = shells /\ pending' = pending
           \/ /\ m[2] = 0 /\ u \in shells /\ stdin'[u] = <<>> /\ shells' = shells \ {u}
              /\ LosesTail(u)
           \/ /\ m[2] > 0 /\ u \in shells /\ stdin'[u] = Append(stdin[u], m[2]) /\ shells' = shells
              /\ pending' = pending
    BY <1>2, <1>4 DEF WriteToDevice, TypeOK
  <1>a. m[1] = u
    OBVIOUS
  <1> HIDE DEF u
  <1>b. PostedStays
    <2>1. pending' \subseteq pending /\ \A s \in pending \ pending' : s[1] = u /\ u \notin shells'
      BY <1>5 DEF LosesTail, StreamsOf
    <2> QED
      BY <1>1, <1>5, <2>1, PostedKept
  <1>6. ASSUME NEW s \in Streams PROVE OutLine(s)'
    <2>1. PICK top \in Nat : Posted(s, top) /\ OutLineTo(s, top)
      BY DEF Lines, OutLine
    <2>2. Line(s, Len(screen[s]), send'[s[1]], Waiting(s, s[1]), termQ, top, s[1] \notin gone \cup shut,
               s[1] \in sessions)
      BY <1>1, <1>2, <1>4, <2>1, TakesLine DEF OutLineTo
    <2>3. OutLineTo(s, top)'
      BY <1>1, <1>3, <2>2 DEF OutLineTo, LineTo
    <2> QED
      BY <1>b, <2>1, <2>3 DEF OutLine, PostedStays
  <1>7. ASSUME NEW v \in Users, v # u \/ m[2] = 0, stdin'[v] = stdin[v], v \in shells' <=> v \in shells
        PROVE  KeyLine(v)' /\ Piped(got'[v], stdin'[v])
    <2> DEFINE k == Len(got[v]) + Len(stdin[v])
               reads == v \in shells /\ DevOf[v] \notin gone \cup shut
               known == v \in sessions \cap confirmed /\ DevOf[v] \in table
    <2>a. LineTo(v, DevOf[v], k, userQ, typed[v], reads, known) /\ k \in Nat
      BY <1>4 DEF Lines, KeyLine
    <2> HIDE DEF k, reads, known
    <2>1. Line(v, k, send'[DevOf[v]], Waiting(v, DevOf[v]), userQ, typed[v], reads, known)
      BY <1>1, <1>2, <1>4, <1>7, <1>a, <2>a, TakesLine
    <2>2. Piped(got'[v], stdin'[v])
      BY <1>1, <1>7 DEF Arrived
    <2> QED
      BY <1>1, <1>3, <1>7, <2>1, <2>2 DEF KeyLine, LineTo, k, reads, known
  <1>8. ASSUME u \in Users, u \notin shells', stdin'[u] \in {stdin[u], <<>>}
        PROVE  KeyLine(u)' /\ Piped(got'[u], stdin'[u])
    <2>1. KeyLine(u)
      BY <1>8 DEF Lines
    <2>2. \A k, s, w, a : Line(u, k, s, w, userQ, typed[u], u \in shells' /\ DevOf[u] \notin gone' \cup shut', a)
      BY <1>8, <2>1, LineEnds DEF KeyLine, LineTo
    <2>3. Piped(got[u], <<>>) /\ Piped(got[u], stdin[u])
      BY <1>8, EmptySeq DEF Arrived, Piped
    <2>4. Piped(got'[u], stdin'[u])
      BY <1>1, <1>8, <2>3
    <2> QED
      BY <1>1, <2>2, <2>4 DEF KeyLine, LineTo
  <1>9. ASSUME m[2] > 0, u \in shells, stdin'[u] = Append(stdin[u], m[2]), shells' = shells
        PROVE  KeyLine(u)' /\ Piped(got'[u], stdin'[u])
    <2>1. u \in Users /\ y = DevOf[u]
      BY <1>3, <1>4, <1>9 DEF BoundFor
    <2> DEFINE k == Len(got[u]) + Len(stdin[u])
    <2>2. Line(u, k, send[y], Waiting(u, y), userQ, typed[u], u \in shells /\ y \notin gone \cup shut,
               u \in sessions \cap confirmed /\ y \in table)
      BY <2>1 DEF Lines, KeyLine, LineTo
    <2>3. k \in Nat /\ u \in shells /\ y \notin gone \cup shut
      BY <1>1, <1>4, <1>9, <2>1
    <2>a. /\ send[y] \in Seq(Msg) /\ send[y] # <<>> /\ u \in Sources
          /\ Head(send[y])[1] = u /\ Head(send[y])[2] = m[2]
      BY <1>2, <1>3, <1>4, <1>a, <2>1
    <2> HIDE DEF k
    <2>4. /\ m[2] = k + 1
          /\ Line(u, k + 1, Tail(send[y]), Waiting(u, y), userQ, typed[u], u \in shells /\ y \notin gone \cup shut,
                  u \in sessions \cap confirmed /\ y \in table)
      BY <1>9, <2>a, <2>2, <2>3, LineDelivers
    <2>5. Piped(got[u], stdin'[u]) /\ Len(got[u]) + Len(stdin'[u]) = k + 1
      <3>1. Piped(got[u], stdin[u]) /\ got[u] \in Seq(Nat) /\ stdin[u] \in Seq(Nat)
        BY <1>4, <2>1 DEF Arrived
      <3>2. Piped(got[u], Append(stdin[u], k + 1)) /\ Len(got[u]) + Len(Append(stdin[u], k + 1)) = k + 1
        BY <3>1, PipeWritten DEF k
      <3> QED
        BY <1>9, <2>4, <3>2
    <2>6. got' = got
      BY <1>1
    <2> QED
      BY <1>1, <1>3, <1>9, <2>1, <2>4, <2>5, <2>6 DEF KeyLine, LineTo
  <1>10. ASSUME NEW v \in Users PROVE KeyLine(v)' /\ Piped(got'[v], stdin'[v])
    <2>1. CASE v # u
      BY <1>5, <1>7, <2>1
    <2>2. CASE v = u
      BY <1>5, <1>8, <1>9, <2>2
    <2> QED
      BY <2>1, <2>2
  <1>11. Lines'
    BY <1>6, <1>10 DEF Lines
  <1>12. Arrived'
    BY <1>1, <1>10 DEF Arrived
  <1> QED
    BY <1>3, <1>11, <1>12

\* A shell prints on a stream of which no piece is pending.
LEMMA PrintsPosted ==
    ASSUME TypeOK, NEW s \in Streams, s[1] \in shells, Prints(s), shells' = shells
    PROVE  PostedStays
  <1> SUFFICES ASSUME NEW r \in Streams, NEW top \in Nat, Posted(r, top)
               PROVE  Posted(r, top)'
    BY DEF PostedStays
  <1>1. /\ s \notin pending /\ pending' = pending \cup {s}
        /\ printed'[s] = printed[s] + 1 /\ (r # s => printed'[r] = printed[r])
    BY DEF Prints, TypeOK
  <1> QED
    BY <1>1 DEF Posted

\* The shell reads a key: as many are read or in the pipe as before.
LEMMA RelayShell ==
    ASSUME TypeOK, Addressed, Lines, Arrived, NEW u \in Users, ShellReads(u)
    PROVE  Addressed' /\ Lines' /\ Arrived'
  <1>1. UNCHANGED <<send, toWrite, sessions, confirmed, table, gone, shut, userQ, termQ, typed,
                    screen, shells>>
    BY DEF ShellReads, close, work, tables, loops, queues
  <1>2. /\ stdin[u] # <<>> /\ got[u] \in Seq(Nat) /\ stdin[u] \in Seq(Nat)
        /\ got'[u] = Append(got[u], Head(stdin[u])) /\ stdin'[u] = Tail(stdin[u])
        /\ \A v \in Users \ {u} : got'[v] = got[v] /\ stdin'[v] = stdin[v]
    BY Measures DEF ShellReads, TypeOK
  <1>3. Piped(got'[u], stdin'[u]) /\ Len(got'[u]) + Len(stdin'[u]) = Len(got[u]) + Len(stdin[u])
    BY <1>2, PipeRead DEF Arrived
  <1>4. \A v \in Users : /\ Piped(got'[v], stdin'[v])
                         /\ Len(got'[v]) + Len(stdin'[v]) = Len(got[v]) + Len(stdin[v])
    BY <1>2, <1>3 DEF Arrived
  <1>5. \A v, x : Waiting(v, x)' = Waiting(v, x)
    BY <1>1 DEF Waiting
  <1>6. PostedStays
    <2>1. ASSUME NEW s \in StreamsOf(u), Prints(s) PROVE PostedStays
      <3>1. s \in Streams /\ s[1] = u /\ u \in shells
        BY StreamOf DEF StreamsOf, ShellReads
      <3> QED
        BY <1>1, <2>1, <3>1, PrintsPosted
    <2>2. CASE UNCHANGED <<pending, printed>>
      BY <1>1, <2>2, PostedKept
    <2> QED
      BY <2>1, <2>2 DEF ShellReads
  <1>7. ASSUME NEW v \in Users PROVE KeyLine(v)'
    BY <1>1, <1>4, <1>5 DEF Lines, KeyLine, LineTo
  <1>8. ASSUME NEW s \in Streams PROVE OutLine(s)'
    <2>1. PICK top \in Nat : Posted(s, top) /\ OutLineTo(s, top)
      BY DEF Lines, OutLine
    <2>2. OutLineTo(s, top)'
      BY <1>1, <1>5, <2>1 DEF OutLineTo, LineTo
    <2> QED
      BY <1>6, <2>1, <2>2 DEF OutLine, PostedStays
  <1>9. Addressed'
    BY <1>1 DEF Addressed
  <1> QED
    BY <1>1, <1>4, <1>7, <1>8, <1>9 DEF Lines, Arrived

LEMMA RelayNext == RelayInv /\ [Next]_vars => RelayInv'
  <1> SUFFICES ASSUME TypeOK, Addressed, Lines, Arrived, [Next]_vars
               PROVE  Addressed' /\ Lines' /\ Arrived'
    BY TypeNext DEF RelayInv
  <1>0. UNCHANGED shell => PostedStays
    BY PostedKept DEF shell
  <1>1. CASE UNCHANGED vars
    BY <1>0, <1>1, RelayEnds DEF vars, close, work, tables, loops, queues, shell
  <1>2. CASE BrokerStep
    <2>1. ASSUME NEW d \in Devs, UnregisterDevice(d) PROVE Addressed' /\ Lines' /\ Arrived'
      BY <1>0, <2>1, RelayEnds DEF UnregisterDevice, close, loops, shell
    <2>2. ASSUME NEW u \in Users, UnregisterUser(u) PROVE Addressed' /\ Lines' /\ Arrived'
      BY <1>0, <2>2, RelayEnds DEF UnregisterUser, Idle, close, loops, shell
    <2>3. ASSUME NEW u \in Users, ServeLogout(u) PROVE Addressed' /\ Lines' /\ Arrived'
      BY <1>0, <2>3, RelayEnds DEF ServeLogout, close, loops, shell
    <2>4. ASSUME NEW x \in Clients, BrokerCloses(x) \/ Shut("broker", x)
          PROVE  Addressed' /\ Lines' /\ Arrived'
      BY <1>0, <2>4, RelayEnds DEF BrokerCloses, Shut, work, tables, loops, queues, shell
    <2> QED
      BY <1>2, <2>1, <2>2, <2>3, <2>4, RelayKey, RelayOutput, RelayWrites DEF BrokerStep
  <1>3. ASSUME NEW x \in Clients,
               TimerStep(x) \/ WriterStep(x) \/ ReadLoopEnds(x) \/ WriteToNobody(x) \/ PeerLeaves(x)
        PROVE  Addressed' /\ Lines' /\ Arrived'
    <2>1. CASE TimerStep(x)
      BY <1>0, <2>1, RelayEnds DEF TimerStep, TimerCloses, Shut, work, tables, loops, queues, shell
    <2>2. CASE WriteLoopEnds(x) \/ ReadLoopEnds(x)
      BY <1>0, <2>2, RelayEnds DEF WriteLoopEnds, ReadLoopEnds, close, work, tables, shell
    <2>3. CASE Ping(x)
      BY <2>3, RelayPings DEF Ping, close
    <2>4. CASE PeerLeaves(x)
      <3>1. PostedStays
        BY <2>4, PostedKept DEF PeerLeaves, TypeOK, Streams
      <3> QED
        BY <2>4, <3>1, RelayEnds DEF PeerLeaves, close, work, tables, queues, TypeOK
    <2> QED
      BY <1>3, <2>1, <2>2, <2>3, <2>4, RelayNobody, RelayToUser, RelayToDevice DEF WriterStep
  <1>4. ASSUME NEW d \in Devs, TickDevice(d) \/ KillInactive(d)
        PROVE  Addressed' /\ Lines' /\ Arrived'
    BY <1>0, <1>4, RelayEnds DEF TickDevice, KillInactive, close, work, tables, queues, shell
  <1>5. ASSUME NEW u \in Users, Type(u) \/ TickUser(u) \/ ShellStep(u) \/ ShellExits(u)
        PROVE  Addressed' /\ Lines' /\ Arrived'
    <2>1. CASE TickUser(u)
      BY <2>1, RelayPings, SourceFacts DEF TickUser, close
    <2>2. ASSUME NEW s \in StreamsOf(u), ShellPrints(s) PROVE Addressed' /\ Lines' /\ Arrived'
      <3>1. PostedStays
        BY <2>2, StreamOf, PrintsPosted DEF ShellPrints
      <3> QED
        BY <2>2, <3>1, RelayEnds DEF ShellPrints, close, work, tables, loops, queues
    <2>3. CASE ShellExits(u)
      <3>1. PostedStays
        BY <2>3, PostedKept DEF ShellExits, LosesTail, StreamsOf
      <3> QED
        BY <2>3, <3>1, RelayEnds DEF ShellExits, close, work, tables, loops, TypeOK
    <2>4. ASSUME NEW s \in StreamsOf(u), Output(s) PROVE Addressed' /\ Lines' /\ Arrived'
      BY <2>4, StreamOf, RelayPosts
    <2> QED
      BY <1>5, <2>1, <2>2, <2>3, <2>4, RelayTypes, RelayShell DEF ShellStep
  <1> QED
    BY <1>1, <1>2, <1>3, <1>4, <1>5 DEF Next

\* A shell reads the keys of its user from the first on, in order, none twice
\* and none left out, and so does a user see what the shell prints on each of
\* its two streams, which the device program reads in goroutines of their own.
THEOREM RelayedInOrder == Spec => []RelayInOrder
  <1>1. RelayInv => RelayInOrder
    BY DEF RelayInv, Arrived, Piped, RelayInOrder
  <1> QED
    BY <1>1, RelayInit, RelayNext, PTL DEF Spec
=============================================================================
