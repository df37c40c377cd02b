---------------------------- MODULE DeviceProofs ----------------------------
(* Theorems about two parts on a device's connection, for every value of   *)
(* their constants: the transfer of files (FileTransfer), and the server's *)
(* watch over a device that falls silent (Heartbeat), which comes last.    *)
EXTENDS FileTransfer, Heartbeat, FiniteSetTheorems, FunctionTheorems, SequenceTheorems, TLAPS

-----------------------------------------------------------------------------
(* How many elements of a queue are in a set.                              *)

Count(q, S) == Cardinality({i \in 1..Len(q) : q[i] \in S})

LEMMA CountType ==
    ASSUME NEW T, NEW q \in Seq(T)
    PROVE  \A S : /\ Count(q, S) \in Nat
                  /\ IsFiniteSet({i \in 1..Len(q) : q[i] \in S})
                  /\ Count(q, S) = 0 <=> \A i \in 1..Len(q) : q[i] \notin S
  <1> SUFFICES ASSUME NEW S
               PROVE  /\ Count(q, S) \in Nat
                      /\ IsFiniteSet({i \in 1..Len(q) : q[i] \in S})
                      /\ Count(q, S) = 0 <=> \A i \in 1..Len(q) : q[i] \notin S
    OBVIOUS
  <1> DEFINE I == {i \in 1..Len(q) : q[i] \in S}
  <1>1. 1 \in Int /\ Len(q) \in Int
    BY LenProperties
  <1>2. IsFiniteSet(1..Len(q))
    BY <1>1, FS_Interval
  <1>3. I \in SUBSET (1..Len(q))
    OBVIOUS
  <1> HIDE DEF I
  <1>4. IsFiniteSet(I)
    BY <1>2, <1>3, FS_Subset
  <1>5. Cardinality(I) \in Nat /\ (Cardinality(I) = 0 <=> I = {})
    BY <1>4, FS_CardinalityType, FS_EmptySet
  <1> QED
    BY <1>4, <1>5 DEF I, Count

LEMMA CountAppend ==
    ASSUME NEW T, NEW q \in Seq(T), NEW m \in T
    PROVE  \A S : Count(Append(q, m), S) = Count(q, S) + (IF m \in S THEN 1 ELSE 0)
  <1> SUFFICES ASSUME NEW S
               PROVE  Count(Append(q, m), S) = Count(q, S) + (IF m \in S THEN 1 ELSE 0)
    OBVIOUS
  <1> DEFINE I == {i \in 1..Len(q) : q[i] \in S}
             J == {i \in 1..Len(Append(q, m)) : Append(q, m)[i] \in S}
             x == Len(q) + 1
  <1>1. /\ Len(q) \in Nat /\ Len(Append(q, m)) = x
        /\ \A i \in 1..Len(q) : Append(q, m)[i] = q[i]
        /\ Append(q, m)[x] = m
    BY AppendProperties, LenProperties
  <1>2. \A i : i \in 1..x <=> i \in 1..Len(q) \/ i = x
    BY <1>1
  <1>3. x \notin 1..Len(q)
    BY <1>1
  <1> HIDE DEF x
  <1>4. J = IF m \in S THEN I \cup {x} ELSE I
    BY <1>1, <1>2, <1>3
  <1>5. x \notin I
    BY <1>3
  <1>6. IsFiniteSet(I) /\ Cardinality(I) \in Nat
    BY CountType DEF Count
  <1>7. Count(q, S) = Cardinality(I) /\ Count(Append(q, m), S) = Cardinality(J)
    BY DEF Count
  <1> HIDE DEF I, J
  <1>8. Cardinality(I \cup {x}) = Cardinality(I) + 1
    BY <1>5, <1>6, FS_AddElement
  <1> QED
    BY <1>4, <1>6, <1>7, <1>8

LEMMA CountTail ==
    ASSUME NEW T, NEW q \in Seq(T), q # <<>>
    PROVE  \A S : Count(q, S) = Count(Tail(q), S) + (IF Head(q) \in S THEN 1 ELSE 0)
  <1> SUFFICES ASSUME NEW S
               PROVE  Count(q, S) = Count(Tail(q), S) + (IF Head(q) \in S THEN 1 ELSE 0)
    OBVIOUS
  <1> DEFINE I == {i \in 1..Len(q) : q[i] \in S}
             K == I \ {1}
             J == {i \in 1..Len(Tail(q)) : Tail(q)[i] \in S}
             f == [i \in J |-> i + 1]
  <1>1. /\ Len(q) \in Nat \ {0} /\ Len(Tail(q)) = Len(q) - 1 /\ Tail(q) \in Seq(T)
        /\ \A i \in 1..Len(Tail(q)) : Tail(q)[i] = q[i + 1]
        /\ Head(q) = q[1]
    BY HeadTailProperties, EmptySeq, LenProperties
  <1>2. \A i \in 1..Len(Tail(q)) : i + 1 \in 1..Len(q) /\ i + 1 # 1
    BY <1>1
  <1>3. \A k \in 1..Len(q) : k # 1 => k - 1 \in 1..Len(Tail(q)) /\ (k - 1) + 1 = k
    BY <1>1
  <1>4. f \in Bijection(J, K)
    <2>1. f \in [J -> K]
      BY <1>1, <1>2
    <2>2. \A a, b \in J : f[a] = f[b] => a = b
      <3>1. \A a, b \in 1..Len(Tail(q)) : a + 1 = b + 1 => a = b
        BY <1>1
      <3> QED
        BY <3>1
    <2>3. \A k \in K : \E j \in J : f[j] = k
      <3> SUFFICES ASSUME NEW k \in K PROVE \E j \in J : f[j] = k
        OBVIOUS
      <3>1. k - 1 \in J /\ (k - 1) + 1 = k
        BY <1>1, <1>3
      <3> QED
        BY <3>1
    <2> QED
      BY <2>1, <2>2, <2>3, Fun_IsBij
  <1>5. ExistsBijection(J, K)
    BY <1>4 DEF ExistsBijection
  <1>6. IsFiniteSet(I) /\ IsFiniteSet(J) /\ Cardinality(J) \in Nat
    BY <1>1, CountType DEF Count
  <1>7. Count(q, S) = Cardinality(I) /\ Count(Tail(q), S) = Cardinality(J)
    BY DEF Count
  <1>8. 1 \in I <=> Head(q) \in S
    BY <1>1
  <1>9. I = IF Head(q) \in S THEN K \cup {1} ELSE K
    BY <1>8
  <1>10. 1 \notin K
    OBVIOUS
  <1> HIDE DEF I, J, K, f
  <1>11. IsFiniteSet(K) /\ Cardinality(K) = Cardinality(J)
    BY <1>5, <1>6, FS_Bijection
  <1>12. Cardinality(K \cup {1}) = Cardinality(K) + 1
    BY <1>10, <1>11, FS_AddElement
  <1> QED
    BY <1>6, <1>7, <1>9, <1>11, <1>12

\* A queue has an element of a set if it has one of a smaller set.
LEMMA CountMore ==
    ASSUME NEW T, NEW q \in Seq(T), NEW R, NEW S, R \subseteq S
    PROVE  Count(q, R) <= Count(q, S)
  <1> DEFINE I == {i \in 1..Len(q) : q[i] \in R}
             J == {i \in 1..Len(q) : q[i] \in S}
  <1>1. I \in SUBSET J
    OBVIOUS
  <1>2. IsFiniteSet(J)
    BY CountType
  <1> HIDE DEF I, J
  <1>3. Cardinality(I) <= Cardinality(J)
    BY <1>1, <1>2, FS_Subset
  <1> QED
    BY <1>3 DEF I, J, Count

-----------------------------------------------------------------------------
(* How many elements of a finite set are in another.                       *)

Among(J, X) == Cardinality(J \cap X)

LEMMA AmongFinite ==
    ASSUME NEW J, IsFiniteSet(J)
    PROVE  \A X : /\ Among(J, X) \in Nat
                  /\ Among(J, X) = 0 <=> J \cap X = {}
  <1>1. \A X : J \cap X \in SUBSET J
    OBVIOUS
  <1>2. \A X : IsFiniteSet(J \cap X)
    BY <1>1, FS_Subset
  <1> QED
    BY <1>2, FS_CardinalityType, FS_EmptySet DEF Among

LEMMA AmongMore ==
    ASSUME NEW J, IsFiniteSet(J), NEW X, NEW Y, X \subseteq Y
    PROVE  Among(J, X) <= Among(J, Y)
  <1>1. J \cap Y \in SUBSET J /\ J \cap X \in SUBSET (J \cap Y)
    OBVIOUS
  <1>2. IsFiniteSet(J \cap Y)
    BY <1>1, FS_Subset
  <1> QED
    BY <1>1, <1>2, FS_Subset DEF Among

LEMMA AmongAdded ==
    ASSUME NEW J, IsFiniteSet(J), NEW x
    PROVE  /\ IsFiniteSet(J \cup {x})
           /\ \A X : Among(J \cup {x}, X) <= Among(J, X) + (IF x \in X THEN 1 ELSE 0)
  <1>1. IsFiniteSet(J \cup {x})
    BY FS_AddElement
  <1> SUFFICES ASSUME NEW X
               PROVE  Among(J \cup {x}, X) <= Among(J, X) + (IF x \in X THEN 1 ELSE 0)
    BY <1>1
  <1> DEFINE I == J \cap X
  <1>2. I \in SUBSET J
    OBVIOUS
  <1>3. (J \cup {x}) \cap X = IF x \in X THEN I \cup {x} ELSE I
    OBVIOUS
  <1>4. IsFiniteSet(I) /\ Cardinality(I) \in Nat
    BY <1>2, FS_Subset, FS_CardinalityType
  <1>5. Among(J, X) = Cardinality(I)
    BY DEF Among
  <1>6. Among(J \cup {x}, X) = Cardinality(IF x \in X THEN I \cup {x} ELSE I)
    BY <1>3 DEF Among
  <1> HIDE DEF I
  <1>7. Cardinality(I \cup {x}) = IF x \in I THEN Cardinality(I) ELSE Cardinality(I) + 1
    BY <1>4, FS_AddElement
  <1> QED
    BY <1>4, <1>5, <1>6, <1>7

LEMMA AmongRemoved ==
    ASSUME NEW J, IsFiniteSet(J), NEW x \in J
    PROVE  /\ IsFiniteSet(J \ {x})
           /\ \A X : Among(J, X) = Among(J \ {x}, X) + (IF x \in X THEN 1 ELSE 0)
  <1>1. IsFiniteSet(J \ {x})
    BY FS_RemoveElement
  <1> SUFFICES ASSUME NEW X
               PROVE  Among(J, X) = Among(J \ {x}, X) + (IF x \in X THEN 1 ELSE 0)
    BY <1>1
  <1> DEFINE I == (J \ {x}) \cap X
  <1>2. I \in SUBSET J
    OBVIOUS
  <1>3. J \cap X = IF x \in X THEN I \cup {x} ELSE I
    OBVIOUS
  <1>4. IsFiniteSet(I) /\ Cardinality(I) \in Nat
    BY <1>2, FS_Subset, FS_CardinalityType
  <1>5. Among(J \ {x}, X) = Cardinality(I) /\ x \notin I
    BY DEF Among
  <1>6. Among(J, X) = Cardinality(IF x \in X THEN I \cup {x} ELSE I)
    BY <1>3 DEF Among
  <1> HIDE DEF I
  <1>7. Cardinality(I \cup {x}) = Cardinality(I) + 1
    BY <1>4, <1>5, FS_AddElement
  <1> QED
    BY <1>4, <1>5, <1>6, <1>7

-----------------------------------------------------------------------------
(* Types, and that an upload's messages and their acknowledgements on the  *)
(* way are among those owed.                                               *)

\* A piece is one of some transfer.
Sound == {m \in Msgs : m.t = "data" => m.no # None}
Jobs == [msg : Sound, file : 0..MaxTransfers]
JobsOf(S) == {j \in Jobs : j.msg \in S}

\* The messages of S on their way to the device program, and those that it handles.
InFlight(S) == Count(fromPage, S) + Count(toDevice, S) + Among(jobs, JobsOf(S))
Up == {m \in Msgs : m.t \in {"info", "data"}}
Acks == {m \in Msgs : m.t = "ack"}
Awaited == InFlight(Up) + Count(toBroker, Acks) + Count(toPage, Acks)

QueuesType ==
    /\ toBroker \in Seq(Sound) /\ toDevice \in Seq(Sound)
    /\ toPage \in Seq(Sound) /\ fromPage \in Seq(Sound)
ServerType ==
    /\ sess \in BOOLEAN
    /\ entry \in 0..MaxTransfers
    /\ closed \subseteq Transfers
    /\ writers \subseteq [pipe : Transfers, no : Transfers, piece : 1..Size]
    /\ get \in [Transfers -> [at : {"idle", "asked", "reading", "ended"},
                              no : 0..MaxTransfers, got : Seq(Pieces)]]
    /\ \A n \in Transfers : get[n].at = "reading" => get[n].no # None
    /\ IsFiniteSet(writers)
DeviceType ==
    /\ begun \in 0..MaxTransfers
    /\ source \in [no : 0..MaxTransfers, sent : 0..(Size + 1)]
PageType ==
    /\ page \in [modal : 0..MaxTransfers, accepted : BOOLEAN, file : 0..MaxTransfers,
                 offset : 0..Size, len : {0, Size}, blob : Seq([no : Transfers, piece : 0..Size])]
    /\ page.blob # <<>> => Len(page.blob) = 1 /\ page.offset < Size
ProgramType ==
    /\ target \in 0..MaxTransfers
    /\ jobs \subseteq Jobs
    /\ \A j \in jobs : j.file # None => j.msg.t = "data" /\ j.msg.piece # 0
    /\ shut \subseteq Transfers
    /\ stored \in [Transfers -> Seq(Pieces)]
    /\ IsFiniteSet(jobs)
HistoryType ==
    /\ owed \in Nat
    /\ hurried \in BOOLEAN
    /\ shared \cup aborted \subseteq Transfers
TypeInv ==
    /\ QueuesType /\ ServerType /\ DeviceType /\ PageType /\ ProgramType /\ HistoryType
    /\ Awaited <= owed

LEMMA Numbers ==
    /\ MaxTransfers \in Nat /\ Size \in Nat \ {0}
    /\ Transfers \subseteq 1..MaxTransfers /\ Transfers \subseteq Nat
    /\ \A n : n \in 0..MaxTransfers /\ n # None => n \in Transfers
    /\ \A n \in Transfers : n \in 0..MaxTransfers /\ n # None
    /\ None \in 0..MaxTransfers /\ None \notin Transfers /\ 0 \in 0..Size
    /\ 1..Size \subseteq 0..Size
  BY FileTransferAssumption DEF Transfers, None

LEMMA MsgSound ==
    /\ \A t \in {"send", "recv", "info", "data", "ack", "abort"}, n \in 0..MaxTransfers, k \in 0..Size :
         /\ Msg(t, n, k) \in Msgs
         /\ t = "data" => n # None
         => Msg(t, n, k) \in Sound
    /\ \A t, n, k : Msg(t, n, k).t = t /\ Msg(t, n, k).no = n /\ Msg(t, n, k).piece = k
    /\ Sound \subseteq Msgs
    /\ \A m \in Sound : /\ m.t \in {"send", "recv", "info", "data", "ack", "abort"}
                        /\ m.no \in 0..MaxTransfers /\ m.piece \in 0..Size
                        /\ m.t = "data" => m.no \in Transfers
                        /\ m = Msg(m.t, m.no, m.piece)
    /\ \A m \in Up : m.t \in {"info", "data"}
    /\ \A m \in Acks : m.t = "ack"
    /\ \A m \in Sound : (m.t \in {"info", "data"} <=> m \in Up) /\ (m.t = "ack" <=> m \in Acks)
  BY Numbers DEF Msg, Msgs, Sound, Up, Acks

LEMMA NewMsg ==
    /\ \A n \in 0..MaxTransfers, k \in 0..Size :
         /\ Msg("send", n, k) \in Sound /\ Msg("recv", n, k) \in Sound /\ Msg("info", n, k) \in Sound
         /\ Msg("ack", n, k) \in Sound /\ Msg("abort", n, k) \in Sound
         /\ n # None => Msg("data", n, k) \in Sound
    /\ \A t, n, k : Msg(t, n, k).t = t /\ Msg(t, n, k).no = n /\ Msg(t, n, k).piece = k
  <1> SUFFICES ASSUME NEW n \in 0..MaxTransfers, NEW k \in 0..Size
               PROVE  /\ Msg("send", n, k) \in Sound /\ Msg("recv", n, k) \in Sound /\ Msg("info", n, k) \in Sound
                      /\ Msg("ack", n, k) \in Sound /\ Msg("abort", n, k) \in Sound
                      /\ n # None => Msg("data", n, k) \in Sound
    BY MsgSound
  <1> QED
    BY DEF Msg, Msgs, Sound

LEMMA TypeInvTypes == TypeInv => TypeOK
  <1> SUFFICES ASSUME TypeInv PROVE TypeOK
    OBVIOUS
  <1>1. Sound \subseteq Msgs
    BY MsgSound
  <1>2. \A ch \in {toBroker, toDevice, toPage, fromPage} : ch \in Seq(Msgs)
    <2> SUFFICES ASSUME NEW ch \in {toBroker, toDevice, toPage, fromPage} PROVE ch \in Seq(Msgs)
      OBVIOUS
    <2>1. ch \in Seq(Sound)
      BY DEF TypeInv, QueuesType
    <2> HIDE DEF TypeInv
    <2> QED
      BY <1>1, <2>1, SeqMonotonic
  <1>3. jobs \subseteq [msg : Msgs, file : 0..MaxTransfers]
    BY <1>1 DEF TypeInv, ProgramType, Jobs
  <1> QED
    BY <1>2, <1>3 DEF TypeInv, ServerType, DeviceType, PageType, ProgramType, HistoryType, TypeOK

-----------------------------------------------------------------------------
(* How the messages in flight change.                                      *)

LEMMA FlightCounts ==
    ASSUME QueuesType, ProgramType
    PROVE  \A S : /\ Count(fromPage, S) \in Nat /\ Count(toDevice, S) \in Nat
                  /\ Among(jobs, JobsOf(S)) \in Nat /\ InFlight(S) \in Nat
                  /\ Count(toBroker, S) \in Nat /\ Count(toPage, S) \in Nat
  <1>1. \A S : /\ Count(fromPage, S) \in Nat /\ Count(toDevice, S) \in Nat
               /\ Count(toBroker, S) \in Nat /\ Count(toPage, S) \in Nat
    BY CountType DEF QueuesType
  <1>2. \A X : Among(jobs, X) \in Nat
    BY AmongFinite DEF ProgramType
  <1> QED
    BY <1>1, <1>2 DEF InFlight

\* The page sends a message.
LEMMA FlightSent ==
    ASSUME QueuesType, ProgramType, NEW m \in Sound,
           fromPage' = Append(fromPage, m), UNCHANGED <<toDevice, jobs>>
    PROVE  \A S : InFlight(S)' = InFlight(S) + (IF m \in S THEN 1 ELSE 0)
  <1>1. \A S : Count(fromPage', S) = Count(fromPage, S) + (IF m \in S THEN 1 ELSE 0)
    BY CountAppend DEF QueuesType
  <1> SUFFICES ASSUME NEW S PROVE InFlight(S)' = InFlight(S) + (IF m \in S THEN 1 ELSE 0)
    OBVIOUS
  <1>n. /\ InFlight(S) = Count(fromPage, S) + Count(toDevice, S) + Among(jobs, JobsOf(S))
        /\ InFlight(S)' = Count(fromPage', S) + Count(toDevice', S) + Among(jobs', JobsOf(S))
        /\ Count(fromPage, S) \in Nat /\ Count(toDevice, S) \in Nat /\ Among(jobs, JobsOf(S)) \in Nat
    BY FlightCounts DEF InFlight, JobsOf
  <1>2. Count(fromPage', S) = Count(fromPage, S) + (IF m \in S THEN 1 ELSE 0)
    BY <1>1
  <1> QED
    BY <1>2, <1>n

\* The server sends the device a message.
LEMMA FlightKept ==
    ASSUME QueuesType, ProgramType, NEW m \in Sound,
           toDevice' = Append(toDevice, m), UNCHANGED <<fromPage, jobs>>
    PROVE  \A S : InFlight(S)' = InFlight(S) + (IF m \in S THEN 1 ELSE 0)
  <1>1. \A S : Count(toDevice', S) = Count(toDevice, S) + (IF m \in S THEN 1 ELSE 0)
    BY CountAppend DEF QueuesType
  <1> SUFFICES ASSUME NEW S PROVE InFlight(S)' = InFlight(S) + (IF m \in S THEN 1 ELSE 0)
    OBVIOUS
  <1>n. /\ InFlight(S) = Count(fromPage, S) + Count(toDevice, S) + Among(jobs, JobsOf(S))
        /\ InFlight(S)' = Count(fromPage', S) + Count(toDevice', S) + Among(jobs', JobsOf(S))
        /\ Count(fromPage, S) \in Nat /\ Count(toDevice, S) \in Nat /\ Among(jobs, JobsOf(S)) \in Nat
    BY FlightCounts DEF InFlight, JobsOf
  <1>2. Count(toDevice', S) = Count(toDevice, S) + (IF m \in S THEN 1 ELSE 0)
    BY <1>1
  <1> QED
    BY <1>2, <1>n

\* A goroutine of the device program is done with its message.
LEMMA FlightDone ==
    ASSUME QueuesType, ProgramType, NEW j \in jobs,
           jobs' = jobs \ {j}, UNCHANGED <<fromPage, toDevice>>
    PROVE  \A S : InFlight(S) = InFlight(S)' + (IF j.msg \in S THEN 1 ELSE 0) /\ InFlight(S)' \in Nat
  <1>1. IsFiniteSet(jobs') /\ \A X : Among(jobs, X) = Among(jobs', X) + (IF j \in X THEN 1 ELSE 0)
    BY AmongRemoved DEF ProgramType
  <1>2. \A S : j \in JobsOf(S) <=> j.msg \in S
    BY DEF ProgramType, JobsOf
  <1>3. \A S : Among(jobs', JobsOf(S)) \in Nat
    BY <1>1, AmongFinite
  <1>4. \A S : Among(jobs, JobsOf(S)) = Among(jobs', JobsOf(S)) + (IF j.msg \in S THEN 1 ELSE 0)
    BY <1>1, <1>2
  <1> SUFFICES ASSUME NEW S
               PROVE  InFlight(S) = InFlight(S)' + (IF j.msg \in S THEN 1 ELSE 0) /\ InFlight(S)' \in Nat
    OBVIOUS
  <1>n. /\ InFlight(S) = Count(fromPage, S) + Count(toDevice, S) + Among(jobs, JobsOf(S))
        /\ InFlight(S)' = Count(fromPage', S) + Count(toDevice', S) + Among(jobs', JobsOf(S))
        /\ Count(fromPage, S) \in Nat /\ Count(toDevice, S) \in Nat /\ Among(jobs, JobsOf(S)) \in Nat
    BY FlightCounts DEF InFlight, JobsOf
  <1>5. /\ Among(jobs, JobsOf(S)) = Among(jobs', JobsOf(S)) + (IF j.msg \in S THEN 1 ELSE 0)
        /\ Among(jobs', JobsOf(S)) \in Nat
    BY <1>3, <1>4
  <1> QED
    BY <1>5, <1>n

\* Looking its file up leaves a message in flight.
LEMMA FlightLooked ==
    ASSUME QueuesType, ProgramType, NEW j \in jobs, NEW f \in 0..MaxTransfers,
           jobs' = (jobs \ {j}) \cup {[j EXCEPT !.file = f]}, UNCHANGED <<fromPage, toDevice>>
    PROVE  \A S : InFlight(S)' <= InFlight(S) /\ InFlight(S)' \in Nat
  <1> DEFINE k == [j EXCEPT !.file = f]
  <1>1. k \in Jobs /\ k.msg = j.msg
    BY DEF ProgramType, Jobs
  <1>2. \A S : (j \in JobsOf(S) <=> j.msg \in S) /\ (k \in JobsOf(S) <=> j.msg \in S)
    BY <1>1 DEF ProgramType, JobsOf
  <1> HIDE DEF k
  <1>3. /\ IsFiniteSet(jobs \ {j})
        /\ \A X : Among(jobs, X) = Among(jobs \ {j}, X) + (IF j \in X THEN 1 ELSE 0)
    BY AmongRemoved DEF ProgramType
  <1>4. /\ IsFiniteSet((jobs \ {j}) \cup {k})
        /\ \A X : Among((jobs \ {j}) \cup {k}, X) <= Among(jobs \ {j}, X) + (IF k \in X THEN 1 ELSE 0)
    BY <1>3, AmongAdded
  <1>5. jobs' = (jobs \ {j}) \cup {k}
    BY DEF k
  <1>6. \A X : Among(jobs', X) \in Nat /\ Among(jobs \ {j}, X) \in Nat
    BY <1>3, <1>4, <1>5, AmongFinite
  <1>7. \A S : /\ Among(jobs, JobsOf(S)) = Among(jobs \ {j}, JobsOf(S)) + (IF j.msg \in S THEN 1 ELSE 0)
               /\ Among(jobs', JobsOf(S)) <= Among(jobs \ {j}, JobsOf(S)) + (IF j.msg \in S THEN 1 ELSE 0)
    BY <1>2, <1>3, <1>4, <1>5
  <1>8. \A S : Among(jobs', JobsOf(S)) <= Among(jobs, JobsOf(S)) /\ Among(jobs', JobsOf(S)) \in Nat
    BY <1>6, <1>7
  <1> SUFFICES ASSUME NEW S PROVE InFlight(S)' <= InFlight(S) /\ InFlight(S)' \in Nat
    OBVIOUS
  <1>n. /\ InFlight(S) = Count(fromPage, S) + Count(toDevice, S) + Among(jobs, JobsOf(S))
        /\ InFlight(S)' = Count(fromPage', S) + Count(toDevice', S) + Among(jobs', JobsOf(S))
        /\ Count(fromPage, S) \in Nat /\ Count(toDevice, S) \in Nat /\ Among(jobs, JobsOf(S)) \in Nat
    BY FlightCounts DEF InFlight, JobsOf
  <1>9. Among(jobs', JobsOf(S)) <= Among(jobs, JobsOf(S)) /\ Among(jobs', JobsOf(S)) \in Nat
    BY <1>8
  <1> QED
    BY <1>9, <1>n

\* The broker passes the page's message on, or drops it.
LEMMA FlightMoved ==
    ASSUME QueuesType, ProgramType, BrokerUserMessage
    PROVE  \A S : InFlight(S)' <= InFlight(S) /\ InFlight(S)' \in Nat
  <1> DEFINE h == Head(fromPage)
  <1>1. /\ fromPage # <<>> /\ fromPage' = Tail(fromPage) /\ UNCHANGED jobs
        /\ toDevice' = Append(toDevice, h) \/ toDevice' = toDevice
    BY DEF BrokerUserMessage, program
  <1>2. h \in Sound /\ fromPage' \in Seq(Sound)
    BY <1>1, HeadTailProperties DEF QueuesType
  <1>3. \A S : Count(fromPage, S) = Count(fromPage', S) + (IF h \in S THEN 1 ELSE 0)
    BY <1>1, CountTail DEF QueuesType
  <1>4. \A S : Count(Append(toDevice, h), S) = Count(toDevice, S) + (IF h \in S THEN 1 ELSE 0)
    BY <1>2, CountAppend DEF QueuesType
  <1>5. \A S : Count(fromPage', S) \in Nat
    BY <1>2, CountType
  <1> HIDE DEF h
  <1> SUFFICES ASSUME NEW S PROVE InFlight(S)' <= InFlight(S) /\ InFlight(S)' \in Nat
    OBVIOUS
  <1>6. \/ Count(toDevice', S) = Count(toDevice, S) + (IF h \in S THEN 1 ELSE 0)
        \/ Count(toDevice', S) = Count(toDevice, S)
    BY <1>1, <1>4
  <1>n. /\ InFlight(S) = Count(fromPage, S) + Count(toDevice, S) + Among(jobs, JobsOf(S))
        /\ InFlight(S)' = Count(fromPage', S) + Count(toDevice', S) + Among(jobs', JobsOf(S))
        /\ Count(fromPage, S) \in Nat /\ Count(toDevice, S) \in Nat /\ Among(jobs, JobsOf(S)) \in Nat
    BY FlightCounts DEF InFlight, JobsOf
  <1>7. /\ Count(fromPage, S) = Count(fromPage', S) + (IF h \in S THEN 1 ELSE 0)
        /\ Count(fromPage', S) \in Nat
    BY <1>3, <1>5
  <1>8. Among(jobs', JobsOf(S)) = Among(jobs, JobsOf(S))
    BY <1>1
  <1>9. Count(toDevice', S) \in Nat /\ Count(toDevice', S) <= Count(toDevice, S) + (IF h \in S THEN 1 ELSE 0)
    BY <1>6, <1>n
  <1> QED
    BY <1>7, <1>8, <1>9, <1>n

\* The device program takes a message.
LEMMA FlightTaken ==
    ASSUME QueuesType, ProgramType, DeviceReads
    PROVE  \A S : InFlight(S)' <= InFlight(S) /\ InFlight(S)' \in Nat
  <1> DEFINE h == Head(toDevice)
             k == [msg |-> h, file |-> None]
  <1>1. /\ toDevice # <<>> /\ toDevice' = Tail(toDevice) /\ UNCHANGED fromPage
        /\ jobs' = jobs \cup {k} \/ jobs' = jobs
    BY DEF DeviceReads
  <1>2. h \in Sound /\ toDevice' \in Seq(Sound)
    BY <1>1, HeadTailProperties DEF QueuesType
  <1>3. \A S : Count(toDevice, S) = Count(toDevice', S) + (IF h \in S THEN 1 ELSE 0)
    BY <1>1, CountTail DEF QueuesType
  <1>4. \A S : k \in JobsOf(S) => h \in S
    BY <1>2 DEF JobsOf
  <1>5. \A S : Count(toDevice', S) \in Nat
    BY <1>2, CountType
  <1> HIDE DEF h, k
  <1>6. /\ IsFiniteSet(jobs \cup {k})
        /\ \A X : Among(jobs \cup {k}, X) <= Among(jobs, X) + (IF k \in X THEN 1 ELSE 0)
    BY AmongAdded DEF ProgramType
  <1>7. \A X : Among(jobs \cup {k}, X) \in Nat
    BY <1>6, AmongFinite
  <1> SUFFICES ASSUME NEW S PROVE InFlight(S)' <= InFlight(S) /\ InFlight(S)' \in Nat
    OBVIOUS
  <1>n. /\ InFlight(S) = Count(fromPage, S) + Count(toDevice, S) + Among(jobs, JobsOf(S))
        /\ InFlight(S)' = Count(fromPage', S) + Count(toDevice', S) + Among(jobs', JobsOf(S))
        /\ Count(fromPage, S) \in Nat /\ Count(toDevice, S) \in Nat /\ Among(jobs, JobsOf(S)) \in Nat
    BY FlightCounts DEF InFlight, JobsOf
  <1>8. /\ Among(jobs \cup {k}, JobsOf(S)) <= Among(jobs, JobsOf(S)) + (IF k \in JobsOf(S) THEN 1 ELSE 0)
        /\ Among(jobs \cup {k}, JobsOf(S)) \in Nat
        /\ k \in JobsOf(S) => h \in S
    BY <1>4, <1>6, <1>7
  <1>9. /\ Among(jobs', JobsOf(S)) <= Among(jobs, JobsOf(S)) + (IF h \in S THEN 1 ELSE 0)
        /\ Among(jobs', JobsOf(S)) \in Nat
    <2>1. CASE jobs' = jobs
      BY <1>n, <2>1
    <2>2. CASE jobs' = jobs \cup {k}
      BY <1>8, <1>n, <2>2
    <2> QED
      BY <1>1, <2>1, <2>2
  <1>10. /\ Count(toDevice, S) = Count(toDevice', S) + (IF h \in S THEN 1 ELSE 0)
         /\ Count(toDevice', S) \in Nat
    BY <1>3, <1>5
  <1>11. Count(fromPage', S) = Count(fromPage, S)
    BY <1>1
  <1> QED
    BY <1>9, <1>10, <1>11, <1>n

-----------------------------------------------------------------------------
(* Type correctness.                                                       *)

LEMMA QueueSteps ==
    ASSUME QueuesType
    PROVE  /\ \A m \in Sound :
               /\ Append(toBroker, m) \in Seq(Sound) /\ Append(toDevice, m) \in Seq(Sound)
               /\ Append(toPage, m) \in Seq(Sound) /\ Append(fromPage, m) \in Seq(Sound)
           /\ toBroker # <<>> => Tail(toBroker) \in Seq(Sound) /\ Head(toBroker) \in Sound
           /\ toDevice # <<>> => Tail(toDevice) \in Seq(Sound) /\ Head(toDevice) \in Sound
           /\ toPage # <<>> => Tail(toPage) \in Seq(Sound) /\ Head(toPage) \in Sound
           /\ fromPage # <<>> => Tail(fromPage) \in Seq(Sound) /\ Head(fromPage) \in Sound
  <1>1. \A q \in Seq(Sound), m \in Sound : Append(q, m) \in Seq(Sound)
    BY AppendProperties
  <1>2. \A q \in Seq(Sound) : q # <<>> => Tail(q) \in Seq(Sound) /\ Head(q) \in Sound
    BY HeadTailProperties
  <1> QED
    BY <1>1, <1>2 DEF QueuesType

\* What an action leaves alone keeps its type.
LEMMA TypeKept ==
    ASSUME TypeInv
    PROVE  /\ UNCHANGED <<toBroker, toDevice, toPage, fromPage>> => QueuesType'
           /\ UNCHANGED server => ServerType'
           /\ UNCHANGED device => DeviceType'
           /\ UNCHANGED page => PageType'
           /\ UNCHANGED program => ProgramType'
           /\ UNCHANGED history => HistoryType'
           /\ UNCHANGED <<fromPage, toDevice, jobs>> => \A S : InFlight(S)' = InFlight(S)
           /\ Awaited \in Nat /\ owed \in Nat /\ Awaited <= owed
           /\ InFlight(Up) \in Nat /\ Count(toBroker, Acks) \in Nat /\ Count(toPage, Acks) \in Nat
  <1>1. /\ QueuesType /\ ServerType /\ DeviceType /\ PageType /\ ProgramType /\ HistoryType
        /\ Awaited <= owed
    BY DEF TypeInv
  <1>2. UNCHANGED <<toBroker, toDevice, toPage, fromPage>> => QueuesType'
    BY <1>1 DEF QueuesType
  <1>3. UNCHANGED server => ServerType'
    BY <1>1 DEF ServerType, server
  <1>4. (UNCHANGED device => DeviceType') /\ (UNCHANGED page => PageType')
    BY <1>1 DEF DeviceType, PageType, device
  <1>5. (UNCHANGED program => ProgramType') /\ (UNCHANGED history => HistoryType')
    BY <1>1 DEF ProgramType, HistoryType, program, history
  <1>6. UNCHANGED <<fromPage, toDevice, jobs>> => \A S : InFlight(S)' = InFlight(S)
    BY DEF InFlight, JobsOf
  <1>7. /\ Awaited \in Nat /\ owed \in Nat
        /\ InFlight(Up) \in Nat /\ Count(toBroker, Acks) \in Nat /\ Count(toPage, Acks) \in Nat
    BY <1>1, FlightCounts DEF Awaited, HistoryType
  <1> QED
    BY <1>1, <1>2, <1>3, <1>4, <1>5, <1>6, <1>7

\* A message that is no acknowledgement is put in the device's queue to the broker.
LEMMA TypePosted ==
    ASSUME TypeInv, NEW m \in Sound, m.t # "ack",
           toBroker' = Append(toBroker, m),
           UNCHANGED <<toDevice, toPage, fromPage, page, server, program, history>>
    PROVE  DeviceType' => TypeInv'
  <1>1. QueuesType'
    BY QueueSteps DEF TypeInv, QueuesType
  <1>2. Count(toBroker', Acks) = Count(toBroker, Acks) + (IF m \in Acks THEN 1 ELSE 0)
    BY CountAppend DEF TypeInv, QueuesType
  <1>3. m \notin Acks
    BY DEF Acks
  <1>4. InFlight(Up)' = InFlight(Up) /\ UNCHANGED owed /\ Count(toPage', Acks) = Count(toPage, Acks)
    BY DEF InFlight, JobsOf, program, history, Up
  <1>5. Count(toBroker', Acks') = Count(toBroker, Acks)
    BY <1>2, <1>3, TypeKept DEF Acks
  <1>6. Awaited' <= owed'
    BY <1>4, <1>5, TypeKept DEF Awaited, Acks
  <1> QED
    BY <1>1, <1>6, TypeKept DEF TypeInv

LEMMA NothingCounted ==
    (\A S : Count(<<>>, S) = 0) /\ IsFiniteSet({}) /\ \A X : Among({}, X) = 0
  <1>1. \A S : {i \in 1..Len(<<>>) : <<>>[i] \in S} = {}
    BY EmptySeq
  <1>2. Cardinality({}) = 0 /\ IsFiniteSet({})
    BY FS_EmptySet
  <1>3. \A X : {} \cap X = {}
    OBVIOUS
  <1> QED
    BY <1>1, <1>2, <1>3 DEF Count, Among

LEMMA TypeInit == Init => TypeInv
  <1> SUFFICES ASSUME Init PROVE TypeInv
    OBVIOUS
  <1>1. QueuesType
    BY EmptySeq DEF Init, QueuesType
  <1>2. ServerType
    <2>1. <<>> \in Seq(Pieces)
      BY EmptySeq
    <2> QED
      BY <2>1, Numbers, NothingCounted DEF Init, ServerType
  <1>3. DeviceType
    BY Numbers DEF Init, DeviceType, Idle
  <1>7. HistoryType
    BY DEF Init, HistoryType
  <1>4. PageType
    <2>1. <<>> \in Seq([no : Transfers, piece : 0..Size])
      BY EmptySeq
    <2> QED
      BY <2>1, Numbers DEF Init, PageType
  <1>5. ProgramType
    <2>1. <<>> \in Seq(Pieces)
      BY EmptySeq
    <2> QED
      BY <2>1, Numbers, NothingCounted DEF Init, ProgramType
  <1>6. Awaited = 0 /\ owed = 0
    BY NothingCounted DEF Init, Awaited, InFlight
  <1> QED
    BY <1>1, <1>2, <1>3, <1>4, <1>5, <1>6, <1>7 DEF TypeInv

\* The command on the device.
LEMMA TypeCommand == TypeInv /\ (BeginUpload \/ BeginDownload \/ StopDownload) => TypeInv'
  <1> SUFFICES ASSUME TypeInv, BeginUpload \/ BeginDownload \/ StopDownload PROVE TypeInv'
    OBVIOUS
  <1>0. /\ begun \in 0..MaxTransfers /\ source.no \in 0..MaxTransfers
        /\ begun < MaxTransfers => begun + 1 \in 0..MaxTransfers
        /\ DeviceType
    BY Numbers DEF TypeInv, DeviceType
  <1>1. CASE BeginUpload
    <2>1. begun < MaxTransfers /\ begun + 1 \in 0..MaxTransfers /\ Msg("recv", begun + 1, 0) \in Sound
      BY <1>0, <1>1, NewMsg, Numbers DEF BeginUpload, Begin
    <2>2. DeviceType'
      BY <1>0, <1>1, <2>1 DEF BeginUpload, Begin, DeviceType
    <2> QED
      BY <1>1, <2>1, <2>2, TypePosted, NewMsg DEF BeginUpload, Begin
  <1>2. CASE BeginDownload
    <2>1. begun < MaxTransfers /\ Msg("send", begun + 1, 0) \in Sound
      BY <1>0, <1>2, NewMsg, Numbers DEF BeginDownload, Begin
    <2>2. DeviceType'
      BY <1>0, <1>2, <2>1, Numbers DEF BeginDownload, Begin, DeviceType
    <2> QED
      BY <1>2, <2>1, <2>2, TypePosted, NewMsg DEF BeginDownload, Begin
  <1>3. CASE StopDownload
    <2>1. Msg("abort", source.no, 0) \in Sound
      BY <1>0, NewMsg, Numbers
    <2>2. DeviceType'
      BY <1>0, <1>3, Numbers DEF StopDownload, DeviceType, Idle
    <2> QED
      BY <1>3, <2>1, <2>2, TypePosted, NewMsg DEF StopDownload
  <1> QED
    BY <1>1, <1>2, <1>3

\* What comes to the device.
LEMMA TypeDevice == TypeInv /\ DeviceReads => TypeInv'
  <1> SUFFICES ASSUME TypeInv, DeviceReads PROVE TypeInv'
    OBVIOUS
  <1> DEFINE h == Head(toDevice)
             k == [msg |-> h, file |-> None]
  <1>1. /\ toDevice # <<>> /\ toDevice' = Tail(toDevice)
        /\ UNCHANGED <<server, begun, target, shut, stored, toPage, fromPage, page, owed, hurried, aborted>>
        /\ \/ h.t = "ack" /\ NextPiece(h) /\ UNCHANGED jobs
           \/ h.t = "abort" /\ source' = Idle /\ jobs' = jobs \cup {k} /\ UNCHANGED <<toBroker, shared>>
           \/ h.t \in {"info", "data"} /\ jobs' = jobs \cup {k} /\ UNCHANGED <<toBroker, source, shared>>
    BY DEF DeviceReads
  <1>2. /\ QueuesType /\ DeviceType /\ ProgramType /\ HistoryType
    BY DEF TypeInv
  <1>3. h \in Sound /\ Tail(toDevice) \in Seq(Sound)
    BY <1>1, <1>2, QueueSteps
  <1>4. k \in Jobs /\ k.file = None
    BY <1>3, Numbers DEF Jobs
  <1>5. ServerType' /\ PageType'
    BY <1>1, TypeKept
  <1>6. \A S : InFlight(S)' <= InFlight(S) /\ InFlight(S)' \in Nat
    BY <1>2, FlightTaken
  <1> HIDE DEF h, k
  <1>7. ProgramType'
    <2>1. jobs' = jobs \/ jobs' = jobs \cup {k}
      BY <1>1
    <2>2. IsFiniteSet(jobs \cup {k})
      BY <1>2, AmongAdded DEF ProgramType
    <2> QED
      BY <1>1, <1>2, <1>4, <2>1, <2>2 DEF ProgramType
  <1>8. /\ DeviceType' /\ HistoryType'
        /\ \/ toBroker' = toBroker
           \/ \E m \in Sound : m.t = "data" /\ toBroker' = Append(toBroker, m)
    <2>1. CASE h.t = "ack" /\ NextPiece(h) /\ source.no # None
      <3> DEFINE n == source.sent + 1
                 m == Msg("data", source.no, IF n > Size THEN 0 ELSE n)
      <3>1. /\ toBroker' = Append(toBroker, m)
            /\ source' = IF n > Size THEN Idle ELSE [source EXCEPT !.sent = n]
            /\ shared' = shared \cup ({source.no} \ {h.no})
        BY <2>1 DEF NextPiece
      <3>2. source.no \in Transfers /\ n \in Nat \ {0} /\ source.no \in 0..MaxTransfers
        BY <1>2, <2>1, Numbers DEF DeviceType
      <3>3. (IF n > Size THEN 0 ELSE n) \in 0..Size
        BY <3>2, Numbers
      <3>4. m \in Sound /\ m.t = "data"
        <4> HIDE DEF n
        <4> QED
          BY <3>2, <3>3, NewMsg, Numbers
      <3>5. DeviceType'
        <4>1. n > Size \/ n \in 0..(Size + 1)
          BY <3>2, Numbers
        <4>2. source' \in [no : 0..MaxTransfers, sent : 0..(Size + 1)]
          <5> HIDE DEF n
          <5>1. Idle \in [no : 0..MaxTransfers, sent : 0..(Size + 1)]
            BY Numbers DEF Idle
          <5> QED
            BY <1>2, <3>1, <4>1, <5>1 DEF DeviceType
        <4> QED
          BY <1>1, <1>2, <4>2 DEF DeviceType
      <3>6. HistoryType'
        BY <1>1, <1>2, <3>1, <3>2 DEF HistoryType
      <3> QED
        BY <3>1, <3>4, <3>5, <3>6
    <2>2. CASE h.t = "ack" /\ NextPiece(h) /\ source.no = None
      <3>1. UNCHANGED <<toBroker, source, shared>>
        BY <2>2 DEF NextPiece
      <3> QED
        BY <1>1, <1>2, <3>1 DEF DeviceType, HistoryType
    <2>3. CASE source' = Idle /\ UNCHANGED <<toBroker, shared>>
      BY <1>1, <1>2, <2>3, Numbers DEF DeviceType, HistoryType, Idle
    <2>4. CASE UNCHANGED <<toBroker, source, shared>>
      BY <1>1, <1>2, <2>4 DEF DeviceType, HistoryType
    <2> QED
      BY <1>1, <2>1, <2>2, <2>3, <2>4
  <1>9. QueuesType'
    BY <1>1, <1>2, <1>3, <1>8, QueueSteps DEF QueuesType
  <1>10. Count(toBroker', Acks) = Count(toBroker, Acks)
    <2>1. CASE toBroker' = toBroker
      BY <2>1
    <2>2. ASSUME NEW m \in Sound, m.t = "data", toBroker' = Append(toBroker, m)
          PROVE  Count(toBroker', Acks) = Count(toBroker, Acks)
      <3>1. Count(toBroker', Acks) = Count(toBroker, Acks) + (IF m \in Acks THEN 1 ELSE 0)
        BY <1>2, <2>2, CountAppend DEF QueuesType
      <3>2. m \notin Acks
        BY <2>2 DEF Acks
      <3> QED
        BY <3>1, <3>2, TypeKept
    <2> QED
      BY <1>8, <2>1, <2>2
  <1>11. Awaited' <= owed'
    <2>1. InFlight(Up)' <= InFlight(Up) /\ InFlight(Up)' \in Nat
      BY <1>6 DEF Up
    <2>2. Awaited' = InFlight(Up)' + Count(toBroker', Acks) + Count(toPage', Acks)
      BY DEF Awaited, Acks
    <2>3. Count(toPage', Acks) = Count(toPage, Acks) /\ owed' = owed
      BY <1>1
    <2> QED
      BY <1>10, <2>1, <2>2, <2>3, TypeKept DEF Awaited
  <1> QED
    BY <1>5, <1>7, <1>8, <1>9, <1>11 DEF TypeInv

\* The goroutine that a piece gets, if the session has a pipe.
LEMMA PieceWriter ==
    \A m : {[pipe |-> p, no |-> m.no, piece |-> m.piece] : p \in Pipe} =
             IF entry = None THEN {} ELSE {[pipe |-> entry, no |-> m.no, piece |-> m.piece]}
  BY DEF Pipe

\* The broker takes a message of the device.
LEMMA TypeBroker == TypeInv /\ BrokerFileMessage => TypeInv'
  <1> SUFFICES ASSUME TypeInv, BrokerFileMessage PROVE TypeInv'
    OBVIOUS
  <1> DEFINE h == Head(toBroker)
             w == [pipe |-> entry, no |-> h.no, piece |-> h.piece]
  <1>1. /\ toBroker # <<>> /\ toBroker' = Tail(toBroker)
        /\ UNCHANGED <<sess, get, device, program, fromPage, page, owed, hurried, shared>>
        /\ \/ sess /\ FileMessage(h)
           \/ ~sess /\ UNCHANGED <<entry, closed, writers, aborted, toDevice, toPage>>
    BY DEF BrokerFileMessage
  <1>2. QueuesType /\ ServerType /\ HistoryType
    BY DEF TypeInv
  <1>3. h \in Sound /\ Tail(toBroker) \in Seq(Sound) /\ h.no \in 0..MaxTransfers /\ h.piece \in 0..Size
    BY <1>1, <1>2, QueueSteps, MsgSound
  <1>4. Pipe \subseteq Transfers
    BY <1>2, Numbers DEF ServerType, Pipe
  <1>5. DeviceType' /\ PageType' /\ ProgramType'
    BY <1>1, TypeKept
  <1>6. UNCHANGED toDevice /\ (toPage' = toPage \/ toPage' = Append(toPage, h))
    BY <1>1 DEF FileMessage, ToPipe
  <1>7. entry' \in 0..MaxTransfers /\ closed' \subseteq Transfers /\ aborted' \subseteq Transfers
    BY <1>1, <1>2, <1>3, <1>4 DEF FileMessage, ToPipe, ServerType, HistoryType
  <1>8. \/ writers' = writers
        \/ h.t = "data" /\ h.piece # 0 /\ entry # None /\ writers' = writers \cup {w}
    <2>1. CASE sess /\ h.t = "data" /\ h.piece # 0
      BY <1>1, <2>1, PieceWriter DEF FileMessage, ToPipe
    <2>2. CASE ~(sess /\ h.t = "data" /\ h.piece # 0)
      BY <1>1, <2>2 DEF FileMessage, ToPipe
    <2> QED
      BY <2>1, <2>2
  <1>9. h.t = "data" /\ h.piece # 0 /\ entry # None => w \in [pipe : Transfers, no : Transfers, piece : 1..Size]
    <2>1. entry # None => entry \in Transfers
      BY <1>2, Numbers DEF ServerType
    <2>2. h.t = "data" => h.no \in Transfers
      BY <1>3, MsgSound
    <2>3. h.piece # 0 => h.piece \in 1..Size
      BY <1>3, Numbers
    <2> QED
      BY <2>1, <2>2, <2>3
  <1> HIDE DEF h, w
  <1>10. ServerType'
    <2>1. IsFiniteSet(writers \cup {w})
      BY <1>2, AmongAdded DEF ServerType
    <2>2. /\ writers' \subseteq [pipe : Transfers, no : Transfers, piece : 1..Size]
          /\ IsFiniteSet(writers')
      BY <1>2, <1>8, <1>9, <2>1 DEF ServerType
    <2> QED
      BY <1>1, <1>2, <1>7, <2>2 DEF ServerType
  <1>11. HistoryType'
    BY <1>1, <1>2, <1>7 DEF HistoryType
  <1>12. QueuesType'
    BY <1>1, <1>2, <1>3, <1>6, QueueSteps DEF QueuesType
  <1>13. Awaited' <= owed'
    <2>1. Count(toBroker, Acks) = Count(toBroker', Acks) + (IF h \in Acks THEN 1 ELSE 0)
      BY <1>1, <1>2, CountTail DEF QueuesType, h
    <2>2. Count(toBroker', Acks) \in Nat /\ Count(toPage', Acks) \in Nat
      BY <1>12, CountType DEF QueuesType
    <2>3. Count(toPage', Acks) <= Count(toPage, Acks) + (IF h \in Acks THEN 1 ELSE 0)
      <3>1. Count(Append(toPage, h), Acks) = Count(toPage, Acks) + (IF h \in Acks THEN 1 ELSE 0)
        BY <1>2, <1>3, CountAppend DEF QueuesType
      <3>2. CASE toPage' = toPage
        BY <3>2, TypeKept
      <3>3. CASE toPage' = Append(toPage, h)
        BY <3>1, <3>3, <2>2
      <3> QED
        BY <1>6, <3>2, <3>3
    <2>4. Awaited' = InFlight(Up)' + Count(toBroker', Acks) + Count(toPage', Acks)
      BY DEF Awaited, Acks
    <2>5. InFlight(Up)' = InFlight(Up) /\ owed' = owed
      BY <1>1, <1>6 DEF InFlight, program, JobsOf, Up
    <2> QED
      BY <2>1, <2>2, <2>3, <2>4, <2>5, TypeKept DEF Awaited
  <1> QED
    BY <1>5, <1>10, <1>11, <1>12, <1>13 DEF TypeInv

\* The broker takes a message of the page, or the session ends.
LEMMA TypeUser == TypeInv /\ (BrokerUserMessage \/ EndSession) => TypeInv'
  <1> SUFFICES ASSUME TypeInv, BrokerUserMessage \/ EndSession PROVE TypeInv'
    OBVIOUS
  <1>1. CASE BrokerUserMessage
    <2>1. /\ fromPage # <<>> /\ fromPage' = Tail(fromPage)
          /\ toDevice' = Append(toDevice, Head(fromPage)) \/ toDevice' = toDevice
          /\ UNCHANGED <<server, device, program, toBroker, toPage, page, history>>
      BY <1>1 DEF BrokerUserMessage
    <2>2. QueuesType'
      BY <2>1, QueueSteps DEF TypeInv, QueuesType
    <2>3. InFlight(Up)' <= InFlight(Up) /\ InFlight(Up)' \in Nat
      BY <1>1, FlightMoved DEF TypeInv, Up
    <2>4. Awaited' = InFlight(Up)' + Count(toBroker, Acks) + Count(toPage, Acks) /\ owed' = owed
      BY <2>1 DEF Awaited, Acks, history
    <2>5. Awaited' <= owed'
      BY <2>3, <2>4, TypeKept DEF Awaited
    <2> QED
      BY <2>1, <2>2, <2>5, TypeKept DEF TypeInv
  <1>2. CASE EndSession
    <2>1. /\ sess' \in BOOLEAN
          /\ UNCHANGED <<entry, closed, writers, get, device, program, toBroker, toDevice,
                         toPage, fromPage, page, history>>
      BY <1>2 DEF EndSession
    <2>2. ServerType'
      BY <2>1 DEF TypeInv, ServerType
    <2>3. Awaited' = Awaited /\ owed' = owed
      BY <2>1 DEF Awaited, InFlight, Acks, Up, JobsOf, program, history
    <2>4. QueuesType' /\ DeviceType' /\ PageType' /\ ProgramType' /\ HistoryType'
      BY <2>1, TypeKept
    <2> QED
      BY <2>2, <2>3, <2>4 DEF TypeInv
  <1> QED
    BY <1>1, <1>2

\* The server sends the device an acknowledgement or an abort of a download.
LEMMA TypeAnswered ==
    ASSUME TypeInv, NEW m \in Sound, m.t \in {"ack", "abort"},
           toDevice' = Append(toDevice, m) \/ toDevice' = toDevice,
           UNCHANGED <<device, program, page, toBroker, toPage, fromPage, owed, hurried>>,
           ServerType', (shared \cup aborted)' \subseteq Transfers
    PROVE  TypeInv'
  <1>1. QueuesType /\ ProgramType /\ HistoryType
    BY DEF TypeInv
  <1>2. QueuesType'
    BY <1>1, QueueSteps DEF QueuesType
  <1>3. UNCHANGED <<fromPage, jobs>> /\ m \notin Up
    BY DEF program, Up
  <1>4. InFlight(Up)' = InFlight(Up)
    <2>1. CASE toDevice' = Append(toDevice, m)
      <3>1. \A S : InFlight(S)' = InFlight(S) + (IF m \in S THEN 1 ELSE 0)
        BY <1>1, <1>3, <2>1, FlightKept
      <3>2. InFlight(Up)' = InFlight(Up) + (IF m \in Up THEN 1 ELSE 0)
        BY <3>1 DEF Up
      <3> QED
        BY <1>3, <3>2, TypeKept
    <2>2. CASE toDevice' = toDevice
      BY <1>3, <2>2 DEF InFlight, JobsOf, Up
    <2> QED
      BY <2>1, <2>2
  <1>5. Awaited' = Awaited
    BY <1>4 DEF Awaited, Acks
  <1>6. HistoryType'
    BY <1>1 DEF HistoryType
  <1>7. DeviceType' /\ PageType' /\ ProgramType'
    BY TypeKept
  <1> QED
    BY <1>2, <1>5, <1>6, <1>7 DEF TypeInv

\* Reading a piece, or failing to write it.
LEMMA TypeReading == TypeInv /\ (\E n \in Transfers : GetReads(n) \/ GetBreaks(n)) => TypeInv'
  <1> SUFFICES ASSUME TypeInv, NEW n \in Transfers, GetReads(n) \/ GetBreaks(n) PROVE TypeInv'
    OBVIOUS
  <1>1. ServerType /\ HistoryType
    BY DEF TypeInv
  <1>2. get[n].no \in 0..MaxTransfers /\ get[n].got \in Seq(Pieces)
    BY <1>1 DEF ServerType
  <1>3. PICK x \in writers : writers' = writers \ {x} /\ toDevice' = Append(toDevice, Msg("ack", x.pipe, 0))
                             /\ x.pipe = get[n].no
    BY DEF GetReads, GetBreaks, Reads, Ack
  <1>4. writers' \subseteq [pipe : Transfers, no : Transfers, piece : 1..Size] /\ IsFiniteSet(writers')
    BY <1>1, <1>3, AmongRemoved DEF ServerType
  <1>5. Msg("ack", x.pipe, 0) \in Sound /\ Msg("ack", x.pipe, 0).t = "ack" /\ x.pipe \in Transfers
    BY <1>1, <1>3, NewMsg, Numbers DEF ServerType
  <1>6. CASE GetReads(n)
    <2>1. PICK v \in writers : get' = [get EXCEPT ![n].got = Append(@, [no |-> v.no, piece |-> v.piece])]
      BY <1>6 DEF GetReads
    <2>2. [no |-> v.no, piece |-> v.piece] \in Pieces
      BY <1>1 DEF ServerType, Pieces
    <2>3. Append(get[n].got, [no |-> v.no, piece |-> v.piece]) \in Seq(Pieces)
      BY <1>2, <2>2, AppendProperties
    <2>4. UNCHANGED <<sess, entry, closed, device, program, toBroker, toPage, fromPage, page, history>>
      BY <1>6 DEF GetReads
    <2>5. ServerType'
      BY <1>1, <1>4, <2>1, <2>3, <2>4 DEF ServerType
    <2> QED
      BY <1>1, <1>3, <1>5, <2>4, <2>5, TypeAnswered DEF HistoryType, history
  <1>7. CASE GetBreaks(n)
    <2>1. /\ UNCHANGED <<sess, entry, device, program, toBroker, toPage, fromPage, page, owed, hurried, shared>>
          /\ get' = [get EXCEPT ![n].at = "ended"]
          /\ closed' \in {closed, closed \cup {get[n].no}}
          /\ aborted' = aborted \cup {get[n].no}
      BY <1>7 DEF GetBreaks
    <2>2. ServerType'
      BY <1>1, <1>3, <1>4, <1>5, <2>1 DEF ServerType
    <2> QED
      BY <1>1, <1>3, <1>5, <2>1, <2>2, TypeAnswered DEF HistoryType
  <1> QED
    BY <1>6, <1>7

\* A request finds the pipe, or comes to its end; or a write fails.
LEMMA TypePipe ==
    TypeInv /\ ((\E n \in Transfers : GetLoads(n) \/ GetEnds(n)) \/ \E w \in writers : WriterFails(w)) => TypeInv'
  <1> SUFFICES ASSUME TypeInv,
                      (\E n \in Transfers : GetLoads(n) \/ GetEnds(n)) \/ \E w \in writers : WriterFails(w)
               PROVE  TypeInv'
    OBVIOUS
  <1>1. ServerType /\ HistoryType
    BY DEF TypeInv
  <1>2. /\ Pipe \subseteq Transfers /\ (Pipe # {} => entry \in Transfers) /\ entry \in 0..MaxTransfers
        /\ Msg("ack", entry, 0) \in Sound /\ Msg("ack", entry, 0).t = "ack"
    BY <1>1, NewMsg, Numbers DEF ServerType, Pipe
  <1>3. ASSUME NEW n \in Transfers, GetLoads(n) PROVE TypeInv'
    <2>1. /\ UNCHANGED <<sess, entry, closed, writers, device, program, toBroker, toPage, fromPage,
                         page, owed, hurried, aborted>>
          /\ \/ /\ Pipe # {} /\ get' = [get EXCEPT ![n].at = "reading", ![n].no = entry]
                /\ toDevice' = Append(toDevice, Msg("ack", entry, 0))
                /\ shared' \subseteq shared \cup Pipe
             \/ get' = [get EXCEPT ![n].at = "ended"] /\ UNCHANGED <<toDevice, shared>>
      BY <1>3 DEF GetLoads
    <2>2. ServerType'
      <3>1. /\ \A m \in Transfers : get[m] \in [at : {"idle", "asked", "reading", "ended"},
                                                no : 0..MaxTransfers, got : Seq(Pieces)]
            /\ get \in [Transfers -> [at : {"idle", "asked", "reading", "ended"},
                                                no : 0..MaxTransfers, got : Seq(Pieces)]]
        BY <1>1 DEF ServerType
      <3>2. /\ get' \in [Transfers -> [at : {"idle", "asked", "reading", "ended"},
                                       no : 0..MaxTransfers, got : Seq(Pieces)]]
            /\ \A m \in Transfers : get'[m].at = "reading" => get'[m].no # None
        <4>1. CASE Pipe # {} /\ get' = [get EXCEPT ![n].at = "reading", ![n].no = entry]
          <5>1. entry # None
            BY <1>2, <4>1, Numbers
          <5> QED
            BY <1>1, <1>2, <3>1, <4>1, <5>1 DEF ServerType
        <4>2. CASE get' = [get EXCEPT ![n].at = "ended"]
          BY <1>1, <3>1, <4>2 DEF ServerType
        <4> QED
          BY <2>1, <4>1, <4>2
      <3> QED
        BY <1>1, <2>1, <3>2 DEF ServerType
    <2>3. (shared \cup aborted)' \subseteq Transfers
      BY <1>1, <1>2, <2>1 DEF HistoryType
    <2> QED
      BY <1>2, <2>1, <2>2, <2>3, TypeAnswered
  <1>4. ASSUME NEW n \in Transfers, GetEnds(n) PROVE TypeInv'
    <2>1. /\ UNCHANGED <<sess, closed, writers, device, program, toBroker, toDevice, toPage,
                         fromPage, page, history>>
          /\ get' = [get EXCEPT ![n].at = "ended"] /\ entry' = None
      BY <1>4 DEF GetEnds
    <2>2. ServerType'
      <3>1. /\ get' \in [Transfers -> [at : {"idle", "asked", "reading", "ended"},
                                       no : 0..MaxTransfers, got : Seq(Pieces)]]
            /\ \A m \in Transfers : get'[m].at = "reading" => get'[m].no # None
        BY <1>1, <2>1 DEF ServerType
      <3> QED
        BY <1>1, <2>1, <3>1, Numbers DEF ServerType
    <2> QED
      BY <1>1, <1>2, <2>1, <2>2, TypeAnswered DEF HistoryType, history
  <1>5. ASSUME NEW w \in writers, WriterFails(w) PROVE TypeInv'
    <2>1. /\ UNCHANGED <<sess, closed, get, device, program, toBroker, toPage, fromPage, page, history>>
          /\ entry' = None /\ writers' = writers \ {w}
          /\ toDevice' = Append(toDevice, Msg("abort", w.pipe, 0))
      BY <1>5 DEF WriterFails
    <2>2. Msg("abort", w.pipe, 0) \in Sound /\ Msg("abort", w.pipe, 0).t = "abort"
      BY <1>1, NewMsg, Numbers DEF ServerType
    <2>3. ServerType'
      <3>1. IsFiniteSet(writers')
        BY <1>1, <2>1, AmongRemoved DEF ServerType
      <3> QED
        BY <1>1, <2>1, <3>1, Numbers DEF ServerType
    <2> QED
      BY <1>1, <2>1, <2>2, <2>3, TypeAnswered DEF HistoryType, history
  <1> QED
    BY <1>3, <1>4, <1>5

-----------------------------------------------------------------------------
(* The page, and the device program.                                       *)

Blob == [no : Transfers, piece : 0..Size]

\* The piece that the page has read.
LEMMA OneBlob ==
    ASSUME PageType
    PROVE  /\ page.modal \in 0..MaxTransfers /\ page.file \in 0..MaxTransfers
           /\ page.offset \in 0..Size /\ page.len \in {0, Size}
           /\ page.blob \in Seq(Blob)
           /\ page.blob # <<>> => /\ Head(page.blob) \in Blob /\ Tail(page.blob) = <<>>
                                  /\ page.offset < Size /\ Len(page.blob) = 1
  <1>1. /\ page.modal \in 0..MaxTransfers /\ page.file \in 0..MaxTransfers
        /\ page.offset \in 0..Size /\ page.len \in {0, Size} /\ page.blob \in Seq(Blob)
        /\ page.blob # <<>> => Len(page.blob) = 1 /\ page.offset < Size
    BY DEF PageType, Blob
  <1>2. ASSUME page.blob # <<>> PROVE Head(page.blob) \in Blob /\ Tail(page.blob) = <<>>
    <2>1. /\ Head(page.blob) \in Blob /\ Tail(page.blob) \in Seq(Blob)
          /\ Len(Tail(page.blob)) = 0
      BY <1>1, <1>2, HeadTailProperties
    <2> QED
      BY <2>1, EmptySeq
  <1> QED
    BY <1>1, <1>2

\* readFileBlob reads the next piece, unless it is reading.
LEMMA BlobRead ==
    ASSUME PageType, NEW file \in Transfers, NEW offset \in 0..Size, offset < Size, NEW len \in {0, Size}
    PROVE  LET b == ReadBlob(page.blob, file, offset, len) IN
           /\ b \in Seq(Blob) /\ b # <<>> /\ Len(b) = 1 /\ Head(b) \in Blob
           /\ page.blob # <<>> => b = page.blob
           /\ page.blob = <<>> => Head(b) = [no |-> file, piece |-> IF len = 0 THEN 0 ELSE offset + 1]
  <1> DEFINE x == [no |-> file, piece |-> IF len = 0 THEN 0 ELSE offset + 1]
  <1>1. x \in Blob
    <2>1. (IF len = 0 THEN 0 ELSE offset + 1) \in 0..Size
      BY Numbers
    <2> QED
      BY <2>1 DEF Blob
  <1> HIDE DEF x
  <1>2. <<x>> \in Seq(Blob) /\ <<x>> # <<>> /\ Len(<<x>>) = 1 /\ Head(<<x>>) = x
    BY <1>1
  <1>3. ReadBlob(page.blob, file, offset, len) = IF page.blob # <<>> THEN page.blob ELSE <<x>>
    BY DEF ReadBlob, x
  <1> QED
    BY <1>1, <1>2, <1>3, OneBlob DEF x

\* The page sends a message, one that will be acknowledged or another.
LEMMA TypeSent ==
    ASSUME TypeInv, NEW m \in Sound, fromPage' = Append(fromPage, m),
           owed' = owed + 1 \/ (owed' = owed /\ m \notin Up),
           hurried' \in BOOLEAN, PageType',
           UNCHANGED <<server, device, program, toBroker, toDevice, toPage, shared, aborted>>
    PROVE  TypeInv'
  <1>1. QueuesType /\ ProgramType /\ HistoryType
    BY DEF TypeInv
  <1>2. QueuesType'
    BY <1>1, QueueSteps DEF QueuesType
  <1>3. InFlight(Up)' = InFlight(Up) + (IF m \in Up THEN 1 ELSE 0)
    <2>1. \A S : InFlight(S)' = InFlight(S) + (IF m \in S THEN 1 ELSE 0)
      BY <1>1, FlightSent DEF program
    <2> QED
      BY <2>1 DEF Up
  <1>4. Awaited' = InFlight(Up)' + Count(toBroker, Acks) + Count(toPage, Acks)
    BY DEF Awaited, Acks
  <1>5. Awaited' <= owed'
    BY <1>3, <1>4, TypeKept DEF Awaited
  <1>6. HistoryType'
    BY <1>1 DEF HistoryType
  <1>7. ServerType' /\ DeviceType' /\ ProgramType'
    BY TypeKept
  <1> QED
    BY <1>2, <1>5, <1>6, <1>7 DEF TypeInv

\* The page chooses a file, sends a piece, or cancels.
LEMMA TypePage == TypeInv /\ ((\E len \in {0, Size} : ChooseFile(len)) \/ SendPiece \/ CancelUpload) => TypeInv'
  <1> SUFFICES ASSUME TypeInv, (\E len \in {0, Size} : ChooseFile(len)) \/ SendPiece \/ CancelUpload
               PROVE  TypeInv'
    OBVIOUS
  <1>1. PageType /\ hurried \in BOOLEAN
    BY DEF TypeInv, HistoryType
  <1>2. 0 \in 0..Size /\ 0 < Size
    BY Numbers
  <1>3. ASSUME NEW len \in {0, Size}, ChooseFile(len) PROVE TypeInv'
    <2> DEFINE b == ReadBlob(page.blob, page.modal, 0, len)
    <2>1. /\ page.modal \in Transfers /\ page.modal \in 0..MaxTransfers
          /\ PageSends(Msg("info", page.modal, 0))
          /\ page' = [modal |-> None, accepted |-> TRUE, file |-> page.modal, offset |-> 0,
                      len |-> len, blob |-> b]
      BY <1>1, <1>3, OneBlob, Numbers DEF ChooseFile
    <2>2. b \in Seq(Blob) /\ Len(b) = 1
      BY <1>1, <1>2, <2>1, BlobRead
    <2> HIDE DEF b
    <2>3. PageType'
      BY <1>2, <2>1, <2>2, Numbers DEF PageType, Blob
    <2>4. Msg("info", page.modal, 0) \in Sound
      BY <1>2, <2>1, NewMsg
    <2>5. hurried' \in BOOLEAN
      BY <1>1, <1>3 DEF ChooseFile
    <2> QED
      BY <2>1, <2>3, <2>4, <2>5, TypeSent DEF PageSends
  <1>4. CASE SendPiece
    <2> DEFINE b == Head(page.blob)
    <2>1. /\ page.blob # <<>> /\ PageSends(Msg("data", b.no, b.piece))
          /\ page' = [page EXCEPT !.blob = Tail(@), !.offset = IF b.piece = 0 THEN @ ELSE @ + 1]
      BY <1>4 DEF SendPiece
    <2>2. /\ b \in Blob /\ Tail(page.blob) = <<>> /\ page.offset < Size /\ page.offset \in 0..Size
          /\ <<>> \in Seq(Blob)
      BY <1>1, <2>1, OneBlob, EmptySeq
    <2> HIDE DEF b
    <2>3. /\ Msg("data", b.no, b.piece) \in Sound
          /\ (IF b.piece = 0 THEN page.offset ELSE page.offset + 1) \in 0..Size
      <3>1. b.no \in 0..MaxTransfers /\ b.no # None /\ b.piece \in 0..Size
        BY <2>2, Numbers DEF Blob
      <3>2. Msg("data", b.no, b.piece) \in Sound
        BY <3>1, NewMsg
      <3> QED
        BY <2>2, <3>2, Numbers
    <2>4. PageType'
      BY <1>1, <2>1, <2>2, <2>3 DEF PageType, Blob
    <2>5. hurried' \in BOOLEAN
      BY <1>1, <1>4 DEF SendPiece
    <2> QED
      BY <2>1, <2>3, <2>4, <2>5, TypeSent DEF PageSends
  <1>5. CASE CancelUpload
    <2>1. /\ fromPage' = Append(fromPage, Msg("abort", page.modal, 0))
          /\ page' = [page EXCEPT !.modal = None, !.file = None]
          /\ UNCHANGED <<server, device, program, toBroker, toDevice, toPage, history>>
      BY <1>5 DEF CancelUpload
    <2>2. Msg("abort", page.modal, 0) \in Sound /\ Msg("abort", page.modal, 0) \notin Up
      BY <1>1, <1>2, OneBlob, NewMsg DEF Up
    <2>3. PageType'
      BY <1>1, <2>1, Numbers DEF PageType
    <2>4. owed' = owed /\ UNCHANGED <<shared, aborted>> /\ hurried' \in BOOLEAN
      BY <1>1, <2>1 DEF history
    <2> QED
      BY <2>1, <2>2, <2>3, <2>4, TypeSent
  <1> QED
    BY <1>3, <1>4, <1>5

\* The page takes a message: an acknowledgement was owed.
LEMMA TypePageReads == TypeInv /\ PageReads => TypeInv'
  <1> SUFFICES ASSUME TypeInv, PageReads PROVE TypeInv'
    OBVIOUS
  <1> DEFINE h == Head(toPage)
  <1>1. /\ toPage # <<>> /\ toPage' = Tail(toPage)
        /\ \/ /\ h.t = "send" /\ get' = [get EXCEPT ![h.no].at = "asked"] /\ UNCHANGED <<page, owed>>
           \/ /\ h.t = "recv" /\ UNCHANGED <<get, owed>>
              /\ page' = [page EXCEPT !.modal = h.no, !.file = None, !.accepted = FALSE]
           \/ h.t = "ack" /\ OnFileAck /\ owed' = owed - 1 /\ UNCHANGED get
        /\ UNCHANGED <<sess, entry, closed, writers, device, program, toBroker, toDevice, fromPage,
                       hurried, shared, aborted>>
    BY DEF PageReads
  <1>2. QueuesType /\ ServerType /\ PageType /\ ProgramType /\ HistoryType
    BY DEF TypeInv
  <1>3. h \in Sound /\ Tail(toPage) \in Seq(Sound) /\ h.no \in 0..MaxTransfers
    BY <1>1, <1>2, QueueSteps, MsgSound
  <1>4. QueuesType'
    BY <1>1, <1>2, <1>3 DEF QueuesType
  <1>5. Count(toPage, Acks) = Count(toPage', Acks) + (IF h \in Acks THEN 1 ELSE 0)
    BY <1>1, <1>2, CountTail DEF QueuesType
  <1>6. h.t = "ack" <=> h \in Acks
    BY <1>3, MsgSound
  <1> HIDE DEF h
  <1>7. Count(toPage', Acks) \in Nat
    BY <1>4, CountType DEF QueuesType
  <1>8. InFlight(Up)' = InFlight(Up)
    BY <1>1 DEF InFlight, JobsOf, Up, program
  <1>9. Awaited' = InFlight(Up) + Count(toBroker, Acks) + Count(toPage', Acks)
    BY <1>1, <1>8 DEF Awaited, Acks
  <1>10. owed' = (IF h \in Acks THEN owed - 1 ELSE owed) /\ Awaited' <= owed' /\ owed' \in Nat
    <2>1. owed' = (IF h \in Acks THEN owed - 1 ELSE owed)
      BY <1>1, <1>6
    <2> QED
      BY <2>1, <1>5, <1>7, <1>9, TypeKept DEF Awaited
  <1>11. HistoryType'
    BY <1>1, <1>2, <1>10 DEF HistoryType
  <1>12. DeviceType' /\ ProgramType'
    BY <1>1, TypeKept
  <1>13. ServerType'
    <2>1. CASE get' = [get EXCEPT ![h.no].at = "asked"]
      <3>1. /\ get' \in [Transfers -> [at : {"idle", "asked", "reading", "ended"},
                                       no : 0..MaxTransfers, got : Seq(Pieces)]]
            /\ \A m \in Transfers : get'[m].at = "reading" => get'[m].no # None
        BY <1>2, <2>1 DEF ServerType
      <3> QED
        BY <1>1, <1>2, <3>1 DEF ServerType
    <2>2. CASE UNCHANGED get
      BY <1>1, <1>2, <2>2 DEF ServerType
    <2> QED
      BY <1>1, <2>1, <2>2
  <1>14. PageType'
    <2>1. CASE page' = [page EXCEPT !.modal = h.no, !.file = None, !.accepted = FALSE]
      BY <1>2, <1>3, <2>1, Numbers DEF PageType
    <2>2. CASE OnFileAck /\ page.file # None /\ page.offset < page.len
      <3> DEFINE b == ReadBlob(page.blob, page.file, page.offset, page.len)
      <3>1. page' = [page EXCEPT !.blob = b]
        BY <2>2 DEF OnFileAck
      <3>2. page.file \in Transfers /\ page.offset < Size
        BY <1>2, <2>2, OneBlob, Numbers
      <3>3. b \in Seq(Blob) /\ Len(b) = 1
        BY <1>2, <3>2, OneBlob, BlobRead
      <3> HIDE DEF b
      <3> QED
        BY <1>2, <3>1, <3>2, <3>3 DEF PageType, Blob
    <2>3. CASE page' = page
      BY <1>2, <2>3 DEF PageType
    <2> QED
      BY <1>1, <2>1, <2>2, <2>3 DEF OnFileAck
  <1> QED
    BY <1>4, <1>10, <1>11, <1>12, <1>13, <1>14 DEF TypeInv

\* A goroutine of the device program is done, and answers or not.
LEMMA TypeDone ==
    ASSUME TypeInv, NEW j \in jobs, jobs' = jobs \ {j}, NEW t \in {"ack", "abort"},
           \/ toBroker' = Append(toBroker, Msg(t, j.msg.no, 0)) /\ (t = "ack" => j.msg \in Up)
           \/ toBroker' = toBroker,
           target' \in 0..MaxTransfers, shut' \subseteq Transfers,
           stored' \in [Transfers -> Seq(Pieces)],
           UNCHANGED <<server, device, toDevice, toPage, fromPage, page, history>>
    PROVE  TypeInv'
  <1> DEFINE m == Msg(t, j.msg.no, 0)
  <1>1. QueuesType /\ ProgramType
    BY DEF TypeInv
  <1>2. j.msg \in Sound /\ j.msg.no \in 0..MaxTransfers
    BY <1>1, MsgSound DEF ProgramType, Jobs
  <1>3. m \in Sound /\ (m \in Acks => t = "ack")
    BY <1>2, NewMsg, Numbers DEF Acks
  <1> HIDE DEF m
  <1>4. QueuesType'
    BY <1>1, <1>3, QueueSteps DEF QueuesType, m
  <1>5. ProgramType'
    <2>1. IsFiniteSet(jobs')
      BY <1>1, AmongRemoved DEF ProgramType
    <2> QED
      BY <1>1, <2>1 DEF ProgramType
  <1>6. InFlight(Up) = InFlight(Up)' + (IF j.msg \in Up THEN 1 ELSE 0) /\ InFlight(Up)' \in Nat
    BY <1>1, FlightDone DEF Up
  <1>7. \/ Count(toBroker', Acks) = Count(toBroker, Acks)
        \/ Count(toBroker', Acks) = Count(toBroker, Acks) + 1 /\ j.msg \in Up
    <2>1. Count(Append(toBroker, m), Acks) = Count(toBroker, Acks) + (IF m \in Acks THEN 1 ELSE 0)
      BY <1>1, <1>3, CountAppend DEF QueuesType
    <2>2. CASE toBroker' = Append(toBroker, m) /\ (t = "ack" => j.msg \in Up)
      <3>1. CASE m \in Acks
        BY <1>3, <2>1, <2>2, <3>1
      <3>2. CASE m \notin Acks
        BY <2>1, <2>2, <3>2, TypeKept
      <3> QED
        BY <3>1, <3>2
    <2>3. CASE toBroker' = toBroker
      BY <2>3
    <2> QED
      BY <2>2, <2>3 DEF m
  <1>8. Awaited' = InFlight(Up)' + Count(toBroker', Acks) + Count(toPage, Acks) /\ owed' = owed
    BY DEF Awaited, Acks, history
  <1>9. Awaited' <= owed'
    <2>1. CASE j.msg \in Up
      BY <1>6, <1>7, <1>8, <2>1, TypeKept DEF Awaited
    <2>2. CASE j.msg \notin Up
      BY <1>6, <1>7, <1>8, <2>2, TypeKept DEF Awaited
    <2> QED
      BY <2>1, <2>2
  <1> QED
    BY <1>4, <1>5, <1>9, TypeKept DEF TypeInv

\* The device program.
LEMMA TypeProgram == TypeInv /\ Program => TypeInv'
  <1> SUFFICES ASSUME TypeInv, NEW j \in jobs,
                      \/ HandleInfo(j) \/ HandleLookup(j) \/ HandleWrite(j)
                      \/ HandleEnd(j) \/ HandleAbort(j)
               PROVE  TypeInv'
    BY DEF Program
  <1>1. ProgramType /\ QueuesType
    BY DEF TypeInv
  <1>2. /\ j.msg \in Sound /\ j.msg.no \in 0..MaxTransfers /\ j.file \in 0..MaxTransfers
        /\ j.msg.t \in {"info", "data"} => j.msg \in Up
        /\ j.msg.t = "data" => j.msg.no \in Transfers
        /\ j.msg.piece \in 0..Size /\ j \in Jobs
        /\ target \in 0..MaxTransfers /\ shut \subseteq Transfers
        /\ ({target} \ {None}) \subseteq Transfers
        /\ stored \in [Transfers -> Seq(Pieces)]
    BY <1>1, MsgSound, Numbers DEF ProgramType, Jobs
  <1>3. CASE HandleInfo(j)
    BY <1>2, <1>3, TypeDone DEF HandleInfo, Job, Done, Answer
  <1>4. CASE HandleLookup(j)
    <2>1. CASE target = None
      BY <1>2, <1>4, <2>1, TypeDone DEF HandleLookup, Job, Done, Answer
    <2>2. CASE target # None
      <3> DEFINE k == [j EXCEPT !.file = target]
      <3>1. /\ j.msg.t = "data" /\ j.msg.piece # 0
            /\ jobs' = (jobs \ {j}) \cup {k}
            /\ UNCHANGED <<toBroker, server, device, target, shut, stored, toDevice, toPage, fromPage, page, history>>
        BY <1>4, <2>2 DEF HandleLookup, Job
      <3>2. k \in Jobs /\ k.msg = j.msg
        BY <1>2 DEF Jobs
      <3>3. InFlight(Up)' <= InFlight(Up) /\ InFlight(Up)' \in Nat
        BY <1>1, <1>2, <3>1, FlightLooked DEF Up
      <3> HIDE DEF k
      <3>4. ProgramType'
        <4>1. IsFiniteSet(jobs \ {j})
          BY <1>1, AmongRemoved DEF ProgramType
        <4>2. IsFiniteSet((jobs \ {j}) \cup {k})
          BY <4>1, AmongAdded
        <4> QED
          BY <1>1, <3>1, <3>2, <4>2 DEF ProgramType
      <3>5. QueuesType'
        BY <3>1, TypeKept
      <3>6. Awaited' <= owed'
        BY <3>1, <3>3, TypeKept DEF Awaited, Acks, history
      <3> QED
        BY <3>1, <3>4, <3>5, <3>6, TypeKept DEF TypeInv
    <2> QED
      BY <2>1, <2>2
  <1>5. CASE HandleWrite(j)
    <2>1. CASE UNCHANGED stored
      BY <1>2, <1>5, <2>1, TypeDone, Numbers DEF HandleWrite, Job, Done, Answer, CloseFile
    <2>2. CASE stored' # stored
      <3>1. /\ j.msg.t = "data" /\ j.file # None /\ j.file \notin shut
            /\ stored' = [stored EXCEPT ![j.file] = Append(@, [no |-> j.msg.no, piece |-> j.msg.piece])]
            /\ jobs' = jobs \ {j}
            /\ toBroker' = Append(toBroker, Msg("ack", j.msg.no, 0))
            /\ UNCHANGED <<target, shut, server, device, toDevice, toPage, fromPage, page, history>>
        BY <1>5, <2>2 DEF HandleWrite, Job, Done, Answer
      <3>2. [no |-> j.msg.no, piece |-> j.msg.piece] \in Pieces
        BY <1>1, <1>2, <3>1, Numbers DEF Pieces, ProgramType
      <3>3. j.file \in Transfers /\ stored[j.file] \in Seq(Pieces)
        BY <1>2, <3>1, Numbers
      <3>4. Append(stored[j.file], [no |-> j.msg.no, piece |-> j.msg.piece]) \in Seq(Pieces)
        BY <3>2, <3>3, AppendProperties
      <3>5. stored' \in [Transfers -> Seq(Pieces)]
        BY <1>2, <3>1, <3>3, <3>4
      <3> QED
        BY <1>2, <3>1, <3>5, TypeDone
    <2> QED
      BY <2>1, <2>2
  <1>6. CASE HandleEnd(j)
    BY <1>2, <1>6, TypeDone, Numbers DEF HandleEnd, Job, Done, Answer, CloseFile
  <1>7. CASE HandleAbort(j)
    BY <1>2, <1>7, TypeDone, Numbers DEF HandleAbort, Job, Done, CloseFile
  <1> QED
    BY <1>3, <1>4, <1>5, <1>6, <1>7

LEMMA TypeNext == TypeInv /\ [Next]_vars => TypeInv'
  <1>1. ASSUME TypeInv, UNCHANGED vars PROVE TypeInv'
    <2>1. Awaited' = Awaited /\ owed' = owed
      BY <1>1 DEF vars, Awaited, InFlight, Acks, Up, JobsOf, program, history
    <2> QED
      BY <1>1, <2>1, TypeKept DEF vars, TypeInv
  <1> QED
    BY <1>1, TypeCommand, TypeDevice, TypeBroker, TypeUser, TypeReading, TypePipe, TypePage,
       TypePageReads, TypeProgram DEF Next, Device, Page

\* Every variable keeps its type, and no upload is acknowledged that is not owed one.
THEOREM TypeCorrect == Spec => []TypeOK
  <1> QED
    BY TypeInit, TypeNext, TypeInvTypes, PTL DEF Spec

-----------------------------------------------------------------------------
(* No piece is stored twice.  A piece is in flight or stored once, and     *)
(* none is of an upload that is still to be accepted, is read from the     *)
(* chosen file only later, or waits to be sent.                            *)

Piece(n, k) == {Msg("data", n, k)}
Stored(n, k) == {[no |-> n, piece |-> k]}
Copies(n, k, f) == InFlight(Piece(n, k)) + Count(stored[f], Stored(n, k))

\* The upload that the device has begun, or will, and that the page has not
\* accepted yet.
Invitation(n) == {m \in Msgs : m.t = "recv" /\ m.no = n}
Invitations(n) ==
    Count(toBroker, Invitation(n)) + Count(toPage, Invitation(n))
      + (IF page.modal = n THEN 1 ELSE 0) + (IF n > begun THEN 1 ELSE 0)

Unsent(n, k) ==
    \/ page.blob # <<>> /\ Head(page.blob) = [no |-> n, piece |-> k]
    \/ page.file = n /\ k > page.offset
    \/ Invitations(n) = 1

PieceInv ==
    /\ \A n \in Transfers :
        /\ Invitations(n) <= 1
        /\ Invitations(n) = 1 => page.file # n /\ (page.blob # <<>> => Head(page.blob).no # n)
        /\ \A k \in 1..Size, f \in Transfers :
             Copies(n, k, f) <= 1 /\ (Unsent(n, k) => Copies(n, k, f) = 0)
    /\ page.blob # <<>> /\ Head(page.blob).no = page.file =>
         Head(page.blob).piece \in {0, page.offset + 1}

\* Only the page puts messages of an upload in flight.
LEMMA FlightFalls ==
    ASSUME TypeInv, [Next]_vars, ~SendPiece, ~\E len \in {0, Size} : ChooseFile(len)
    PROVE  \A S \in SUBSET Up : InFlight(S)' <= InFlight(S)
  <1> SUFFICES ASSUME NEW S \in SUBSET Up PROVE InFlight(S)' <= InFlight(S)
    OBVIOUS
  <1>1. QueuesType /\ ProgramType /\ ServerType
    BY DEF TypeInv
  <1>2. InFlight(S) \in Nat
    BY <1>1, FlightCounts
  <1>3. UNCHANGED <<fromPage, toDevice, jobs>> => InFlight(S)' = InFlight(S)
    BY DEF InFlight, JobsOf
  <1>4. CASE UNCHANGED <<fromPage, toDevice, jobs>>
    BY <1>2, <1>3, <1>4
  <1>5. ASSUME NEW m \in Sound, m.t \in {"ack", "abort"}, UNCHANGED jobs,
               \/ toDevice' = Append(toDevice, m) /\ UNCHANGED fromPage
               \/ fromPage' = Append(fromPage, m) /\ UNCHANGED toDevice
        PROVE  InFlight(S)' <= InFlight(S)
    <2>1. m \notin S
      BY <1>5 DEF Up
    <2>2. InFlight(S)' = InFlight(S) + (IF m \in S THEN 1 ELSE 0)
      BY <1>1, <1>5, FlightSent, FlightKept
    <2> QED
      BY <1>2, <2>1, <2>2
  <1>6. ASSUME NEW j \in jobs, jobs' = jobs \ {j}, UNCHANGED <<fromPage, toDevice>>
        PROVE  InFlight(S)' <= InFlight(S)
    <2>1. InFlight(S) = InFlight(S)' + (IF j.msg \in S THEN 1 ELSE 0) /\ InFlight(S)' \in Nat
      BY <1>1, <1>6, FlightDone
    <2> QED
      BY <2>1
  <1>7. CASE DeviceReads \/ BrokerUserMessage
    BY <1>1, <1>7, FlightTaken, FlightMoved
  <1>8. CASE CancelUpload
    <2>1. /\ fromPage' = Append(fromPage, Msg("abort", page.modal, 0))
          /\ UNCHANGED <<toDevice, jobs>>
      BY <1>8 DEF CancelUpload, program
    <2>2. Msg("abort", page.modal, 0) \in Sound /\ Msg("abort", page.modal, 0).t = "abort"
      BY OneBlob, NewMsg, Numbers DEF TypeInv
    <2> QED
      BY <1>5, <2>1, <2>2
  <1>9. ASSUME NEW n \in Transfers, GetLoads(n) \/ GetReads(n) \/ GetBreaks(n) \/ GetEnds(n)
        PROVE  InFlight(S)' <= InFlight(S)
    <2>1. /\ UNCHANGED <<fromPage, jobs>>
          /\ \/ UNCHANGED toDevice
             \/ toDevice' = Append(toDevice, Msg("ack", entry, 0))
             \/ \E w \in writers : toDevice' = Append(toDevice, Msg("ack", w.pipe, 0))
      BY <1>9 DEF GetLoads, GetReads, GetBreaks, GetEnds, Reads, Ack, program
    <2>2. Msg("ack", entry, 0) \in Sound /\ Msg("ack", entry, 0).t = "ack"
      BY <1>1, NewMsg, Numbers DEF ServerType
    <2>3. \A w \in writers : Msg("ack", w.pipe, 0) \in Sound /\ Msg("ack", w.pipe, 0).t = "ack"
      BY <1>1, NewMsg, Numbers DEF ServerType
    <2> QED
      BY <1>4, <1>5, <2>1, <2>2, <2>3
  <1>10. ASSUME NEW w \in writers, WriterFails(w) PROVE InFlight(S)' <= InFlight(S)
    <2>1. UNCHANGED <<fromPage, jobs>> /\ toDevice' = Append(toDevice, Msg("abort", w.pipe, 0))
      BY <1>10 DEF WriterFails, program
    <2>2. Msg("abort", w.pipe, 0) \in Sound /\ Msg("abort", w.pipe, 0).t = "abort"
      BY <1>1, NewMsg, Numbers DEF ServerType
    <2> QED
      BY <1>5, <2>1, <2>2
  <1>11. ASSUME NEW j \in jobs, \/ HandleInfo(j) \/ HandleLookup(j) \/ HandleWrite(j)
                                \/ HandleEnd(j) \/ HandleAbort(j)
         PROVE  InFlight(S)' <= InFlight(S)
    <2>1. /\ UNCHANGED <<fromPage, toDevice>>
          /\ \/ jobs' = jobs \ {j}
             \/ jobs' = (jobs \ {j}) \cup {[j EXCEPT !.file = target]}
      BY <1>11 DEF HandleInfo, HandleLookup, HandleWrite, HandleEnd, HandleAbort, Done
    <2>2. CASE jobs' = (jobs \ {j}) \cup {[j EXCEPT !.file = target]}
      BY <1>1, <2>1, <2>2, FlightLooked DEF ProgramType
    <2> QED
      BY <1>6, <2>1, <2>2
  <1>12. CASE BeginUpload \/ BeginDownload \/ StopDownload \/ PageReads \/ BrokerFileMessage
               \/ EndSession \/ UNCHANGED vars
    <2>1. UNCHANGED <<fromPage, toDevice, jobs>>
      BY <1>12 DEF BeginUpload, BeginDownload, StopDownload, PageReads, BrokerFileMessage,
                   FileMessage, ToPipe, EndSession, vars, program
    <2> QED
      BY <1>4, <2>1
  <1> QED
    BY <1>7, <1>8, <1>9, <1>10, <1>11, <1>12 DEF Next, Device, Page, Program

LEMMA FlightPiece ==
    ASSUME TypeInv, SendPiece
    PROVE  \A S : InFlight(S)' = InFlight(S)
                    + (IF Msg("data", Head(page.blob).no, Head(page.blob).piece) \in S THEN 1 ELSE 0)
  <1>1. Msg("data", Head(page.blob).no, Head(page.blob).piece) \in Sound
    <2>1. Head(page.blob) \in Blob
      BY OneBlob DEF TypeInv, SendPiece
    <2>2. /\ Head(page.blob).no \in 0..MaxTransfers /\ Head(page.blob).no # None
          /\ Head(page.blob).piece \in 0..Size
      BY <2>1, Numbers DEF Blob
    <2> QED
      BY <2>2, NewMsg
  <1> QED
    BY <1>1, FlightSent DEF TypeInv, SendPiece, PageSends, program

LEMMA FlightChosen ==
    ASSUME TypeInv, NEW len \in {0, Size}, ChooseFile(len)
    PROVE  \A S : InFlight(S)' = InFlight(S) + (IF Msg("info", page.modal, 0) \in S THEN 1 ELSE 0)
  <1>1. Msg("info", page.modal, 0) \in Sound
    BY OneBlob, NewMsg, Numbers DEF TypeInv
  <1> QED
    BY <1>1, FlightSent DEF TypeInv, ChooseFile, PageSends, program

\* What a write stores, and every other action leaves.
LEMMA StoredNext ==
    ASSUME TypeInv, [Next]_vars
    PROVE  \/ stored' = stored
           \/ \E j \in jobs : /\ j.msg.t = "data" /\ j.msg.piece # 0 /\ j.file # None
                              /\ j.msg.no \in Transfers /\ j.file \in Transfers
                              /\ jobs' = jobs \ {j}
                              /\ UNCHANGED <<fromPage, toDevice, page, target, shut, history>>
                              /\ toBroker' = Append(toBroker, Msg("ack", j.msg.no, 0))
                              /\ UNCHANGED toPage
                              /\ stored' = [stored EXCEPT ![j.file] =
                                              Append(@, [no |-> j.msg.no, piece |-> j.msg.piece])]
  <1>1. ASSUME NEW j \in jobs, HandleWrite(j), stored' # stored
        PROVE  /\ j.msg.t = "data" /\ j.msg.piece # 0 /\ j.file # None
               /\ j.msg.no \in Transfers /\ j.file \in Transfers
               /\ jobs' = jobs \ {j}
               /\ UNCHANGED <<fromPage, toDevice, page, target, shut, history>>
               /\ toBroker' = Append(toBroker, Msg("ack", j.msg.no, 0))
               /\ UNCHANGED toPage
               /\ stored' = [stored EXCEPT ![j.file] = Append(@, [no |-> j.msg.no, piece |-> j.msg.piece])]
    <2>1. /\ j.msg.t = "data" /\ j.file # None /\ jobs' = jobs \ {j}
          /\ UNCHANGED <<fromPage, toDevice, page, target, shut, history, toPage>>
          /\ toBroker' = Append(toBroker, Msg("ack", j.msg.no, 0))
          /\ stored' = [stored EXCEPT ![j.file] = Append(@, [no |-> j.msg.no, piece |-> j.msg.piece])]
      BY <1>1 DEF HandleWrite, Job, Done, Answer
    <2>2. j.msg.piece # 0 /\ j.msg \in Sound /\ j.file \in 0..MaxTransfers
      BY <2>1 DEF TypeInv, ProgramType, Jobs
    <2> QED
      BY <2>1, <2>2, MsgSound, Numbers
  <1>2. (Device \/ Page \/ BrokerFileMessage \/ BrokerUserMessage \/ EndSession
           \/ (\E n \in Transfers : GetLoads(n) \/ GetReads(n) \/ GetBreaks(n) \/ GetEnds(n))
           \/ (\E w \in writers : WriterFails(w)) \/ UNCHANGED vars) => stored' = stored
    BY DEF Device, Page, BeginUpload, BeginDownload, StopDownload, DeviceReads, PageReads, SendPiece,
           CancelUpload, ChooseFile, PageSends, BrokerFileMessage, BrokerUserMessage, EndSession,
           GetLoads, GetReads, GetBreaks, GetEnds, WriterFails, vars, program
  <1>3. \A j \in jobs : HandleInfo(j) \/ HandleLookup(j) \/ HandleEnd(j) \/ HandleAbort(j) => stored' = stored
    BY DEF HandleInfo, HandleLookup, HandleEnd, HandleAbort
  <1> QED
    BY <1>1, <1>2, <1>3 DEF Next, Program

LEMMA CopiesCount ==
    ASSUME TypeInv
    PROVE  \A n, k : \A f \in Transfers :
             /\ InFlight(Piece(n, k)) \in Nat /\ Count(stored[f], Stored(n, k)) \in Nat
             /\ Copies(n, k, f) = InFlight(Piece(n, k)) + Count(stored[f], Stored(n, k))
             /\ Copies(n, k, f) \in Nat
  <1>1. \A f \in Transfers : stored[f] \in Seq(Pieces)
    BY DEF TypeInv, ProgramType
  <1>2. \A f \in Transfers : \A S : Count(stored[f], S) \in Nat
    BY <1>1, CountType
  <1>3. \A S : InFlight(S) \in Nat
    BY FlightCounts DEF TypeInv
  <1> QED
    BY <1>2, <1>3 DEF Copies

\* A piece is written once for all.
LEMMA CopiesNext ==
    ASSUME TypeInv, [Next]_vars, NEW n \in Transfers, NEW k \in 1..Size, NEW f \in Transfers
    PROVE  \/ Copies(n, k, f)' <= Copies(n, k, f)
           \/ /\ SendPiece /\ Head(page.blob) = [no |-> n, piece |-> k]
              /\ Copies(n, k, f)' <= Copies(n, k, f) + 1
  <1> DEFINE m == Msg("data", n, k)
             p == [no |-> n, piece |-> k]
  <1>1. Piece(n, k) \in SUBSET Up /\ m \in Sound /\ n \in 0..MaxTransfers /\ k \in 0..Size /\ k # 0
    BY NewMsg, MsgSound, Numbers DEF Piece
  <1>2. /\ Copies(n, k, f) = InFlight(Piece(n, k)) + Count(stored[f], Stored(n, k))
        /\ Copies(n, k, f)' = InFlight(Piece(n, k))' + Count(stored'[f], Stored(n, k))
        /\ InFlight(Piece(n, k)) \in Nat /\ Count(stored[f], Stored(n, k)) \in Nat
    BY CopiesCount DEF Copies, Stored
  <1>4. InFlight(Piece(n, k))' \in Nat
    <2>1. \A S : InFlight(S)' \in Nat
      <3>1. QueuesType' /\ ProgramType'
        BY TypeNext DEF TypeInv
      <3>2. \A S : Count(fromPage', S) \in Nat /\ Count(toDevice', S) \in Nat
        BY <3>1, CountType DEF QueuesType
      <3>3. \A X : Among(jobs', X) \in Nat
        BY <3>1, AmongFinite DEF ProgramType
      <3> QED
        BY <3>2, <3>3 DEF InFlight, JobsOf
    <2> QED
      BY <2>1 DEF Piece
  <1>5. CASE SendPiece
    <2>1. stored' = stored /\ page.blob # <<>> /\ Head(page.blob) \in Blob
      BY <1>5, OneBlob DEF TypeInv, SendPiece, PageSends, program
    <2>2. InFlight(Piece(n, k))' = InFlight(Piece(n, k))
            + (IF Msg("data", Head(page.blob).no, Head(page.blob).piece) \in Piece(n, k) THEN 1 ELSE 0)
      BY <1>5, FlightPiece DEF Piece
    <2>3. Msg("data", Head(page.blob).no, Head(page.blob).piece) \in Piece(n, k) => Head(page.blob) = p
      BY <2>1, NewMsg DEF Piece, Blob
    <2>4. CASE Head(page.blob) = p
      BY <1>2, <1>5, <2>1, <2>2, <2>4
    <2>5. CASE Head(page.blob) # p
      BY <1>2, <2>1, <2>2, <2>3, <2>5
    <2> QED
      BY <2>4, <2>5
  <1>6. CASE \E len \in {0, Size} : ChooseFile(len)
    <2>1. stored' = stored
      BY <1>6 DEF ChooseFile, PageSends, program
    <2>2. InFlight(Piece(n, k))' = InFlight(Piece(n, k))
            + (IF Msg("info", page.modal, 0) \in Piece(n, k) THEN 1 ELSE 0)
      BY <1>6, FlightChosen DEF Piece
    <2>3. Msg("info", page.modal, 0) \notin Piece(n, k)
      BY NewMsg DEF Piece
    <2> QED
      BY <1>2, <2>1, <2>2, <2>3
  <1>7. CASE ~SendPiece /\ ~(\E len \in {0, Size} : ChooseFile(len)) /\ stored' = stored
    <2>1. InFlight(Piece(n, k))' <= InFlight(Piece(n, k))
      BY <1>1, <1>7, FlightFalls DEF Piece
    <2> QED
      BY <1>2, <1>4, <1>7, <2>1
  <1>8. CASE stored' # stored
    <2>1. PICK j \in jobs : /\ j.msg.t = "data" /\ j.file \in Transfers
                            /\ j.msg.no \in Transfers /\ j.msg.piece # 0
                            /\ jobs' = jobs \ {j} /\ UNCHANGED <<fromPage, toDevice>>
                            /\ stored' = [stored EXCEPT ![j.file] =
                                            Append(@, [no |-> j.msg.no, piece |-> j.msg.piece])]
      BY <1>8, StoredNext
    <2> DEFINE x == [no |-> j.msg.no, piece |-> j.msg.piece]
    <2>2. InFlight(Piece(n, k)) = InFlight(Piece(n, k))' + (IF j.msg \in Piece(n, k) THEN 1 ELSE 0)
      <3>1. \A S : InFlight(S) = InFlight(S)' + (IF j.msg \in S THEN 1 ELSE 0)
        BY <2>1, FlightDone DEF TypeInv
      <3> QED
        BY <3>1 DEF Piece
    <2>3. j.msg \in Sound /\ x \in Pieces /\ stored \in [Transfers -> Seq(Pieces)]
      <3>1. j.msg \in Sound /\ stored \in [Transfers -> Seq(Pieces)]
        BY DEF TypeInv, ProgramType, Jobs
      <3>2. j.msg.piece \in 1..Size
        BY <2>1, <3>1, MsgSound, Numbers
      <3> QED
        BY <2>1, <3>1, <3>2 DEF Pieces
    <2>4. j.msg \in Piece(n, k) <=> x \in Stored(n, k)
      BY <2>1, <2>3, MsgSound, NewMsg DEF Piece, Stored
    <2>5. stored'[f] = IF f = j.file THEN Append(stored[f], x) ELSE stored[f]
      BY <2>1, <2>3
    <2> HIDE DEF x
    <2>6. Count(Append(stored[f], x), Stored(n, k)) =
            Count(stored[f], Stored(n, k)) + (IF x \in Stored(n, k) THEN 1 ELSE 0)
      BY <2>3, CountAppend
    <2>7. Count(stored'[f], Stored(n, k)) <= Count(stored[f], Stored(n, k)) + (IF x \in Stored(n, k) THEN 1 ELSE 0)
      BY <1>2, <2>5, <2>6
    <2>8. Count(stored'[f], Stored(n, k)) \in Nat
      BY <1>2, <2>5, <2>6
    <2> QED
      BY <1>2, <1>4, <2>2, <2>4, <2>7, <2>8
  <1> QED
    BY <1>5, <1>6, <1>7, <1>8

\* What is put in the device's queue to the broker.
LEMMA Posted ==
    ASSUME TypeInv, [Next]_vars, ~BrokerFileMessage, toBroker' # toBroker
    PROVE  \E m \in Sound :
             /\ toBroker' = Append(toBroker, m) /\ UNCHANGED toPage
             /\ \/ BeginUpload /\ m = Msg("recv", begun + 1, 0)
                \/ BeginDownload /\ m = Msg("send", begun + 1, 0)
                \/ StopDownload /\ m = Msg("abort", source.no, 0)
                \/ /\ DeviceReads /\ source.no # None
                   /\ m = Msg("data", source.no, IF source.sent + 1 > Size THEN 0 ELSE source.sent + 1)
                \/ Program /\ \E j \in jobs : m \in {Msg("ack", j.msg.no, 0), Msg("abort", j.msg.no, 0)}
  <1>1. DeviceType /\ begun \in Nat /\ 0 \in 0..Size
    BY Numbers DEF TypeInv, DeviceType
  <1>2. CASE BeginUpload
    <2>1. Msg("recv", begun + 1, 0) \in Sound
      <3>1. begun + 1 \in 0..MaxTransfers
        BY <1>1, <1>2, Numbers DEF BeginUpload, Begin
      <3> QED
        BY <1>1, <3>1, NewMsg
    <2> QED
      BY <1>2, <2>1 DEF BeginUpload, Begin
  <1>3. CASE BeginDownload
    <2>1. Msg("send", begun + 1, 0) \in Sound
      <3>1. begun + 1 \in 0..MaxTransfers
        BY <1>1, <1>3, Numbers DEF BeginDownload, Begin
      <3> QED
        BY <1>1, <3>1, NewMsg
    <2> QED
      BY <1>3, <2>1 DEF BeginDownload, Begin
  <1>4. CASE StopDownload
    <2>1. Msg("abort", source.no, 0) \in Sound
      BY <1>1, NewMsg, Numbers DEF DeviceType
    <2> QED
      BY <1>4, <2>1 DEF StopDownload
  <1>5. CASE DeviceReads
    <2> DEFINE k == IF source.sent + 1 > Size THEN 0 ELSE source.sent + 1
    <2>1. source.no # None /\ toBroker' = Append(toBroker, Msg("data", source.no, k)) /\ UNCHANGED toPage
      BY <1>5 DEF DeviceReads, NextPiece
    <2>2. source.no \in 0..MaxTransfers /\ k \in 0..Size
      BY <1>1, Numbers DEF DeviceType
    <2>3. Msg("data", source.no, k) \in Sound
      <3> HIDE DEF k
      <3> QED
        BY <2>1, <2>2, NewMsg
    <2> QED
      BY <1>5, <2>1, <2>3
  <1>6. CASE Program
    <2>1. PICK j \in jobs : /\ UNCHANGED toPage
                            /\ \/ toBroker' = Append(toBroker, Msg("ack", j.msg.no, 0))
                               \/ toBroker' = Append(toBroker, Msg("abort", j.msg.no, 0))
      BY <1>6 DEF Program, HandleInfo, HandleLookup, HandleWrite, HandleEnd, HandleAbort, Answer
    <2>2. j.msg.no \in 0..MaxTransfers
      BY MsgSound DEF TypeInv, ProgramType, Jobs
    <2>3. Msg("ack", j.msg.no, 0) \in Sound /\ Msg("abort", j.msg.no, 0) \in Sound
      BY <1>1, <2>2, NewMsg
    <2> QED
      BY <1>6, <2>1, <2>3
  <1>7. BeginUpload \/ BeginDownload \/ StopDownload \/ DeviceReads \/ Program
    BY DEF Next, Device, Page, PageReads, SendPiece, CancelUpload, ChooseFile, PageSends,
           BrokerUserMessage, EndSession, GetLoads, GetReads, GetBreaks, GetEnds, WriterFails, vars
  <1> QED
    BY <1>2, <1>3, <1>4, <1>5, <1>6, <1>7

\* A file is chosen, or the upload cancelled, in the dialog; then it is gone.
LEMMA PageModal ==
    ASSUME TypeInv
    PROVE  /\ CancelUpload \/ (\E len \in {0, Size} : ChooseFile(len)) => page'.modal = None /\ page.modal # None
           /\ SendPiece => page'.modal = page.modal
  <1>1. page = [modal |-> page.modal, accepted |-> page.accepted, file |-> page.file,
                offset |-> page.offset, len |-> page.len, blob |-> page.blob]
    BY DEF TypeInv, PageType
  <1>2. CancelUpload => page'.modal = None /\ page.modal # None
    <2> SUFFICES ASSUME CancelUpload PROVE page'.modal = None /\ page.modal # None
      OBVIOUS
    <2>1. page' = [page EXCEPT !.modal = None, !.file = None] /\ page.modal # None
      BY DEF CancelUpload
    <2> QED
      BY <1>1, <2>1
  <1>3. (\E len \in {0, Size} : ChooseFile(len)) => page'.modal = None /\ page.modal # None
    BY DEF ChooseFile
  <1>4. SendPiece => page'.modal = page.modal
    <2> SUFFICES ASSUME SendPiece PROVE page'.modal = page.modal
      OBVIOUS
    <2>1. page' = [page EXCEPT !.blob = Tail(@), !.offset = IF Head(page.blob).piece = 0 THEN @ ELSE @ + 1]
      BY DEF SendPiece
    <2> QED
      BY <1>1, <2>1
  <1> QED
    BY <1>2, <1>3, <1>4

\* An invitation goes from the device to the page.
LEMMA InvitationsNext ==
    ASSUME TypeInv, [Next]_vars, NEW n \in Transfers
    PROVE  /\ Invitations(n) \in Nat /\ Invitations(n)' \in Nat
           /\ Invitations(n)' <= Invitations(n)
           /\ (\E len \in {0, Size} : ChooseFile(len)) /\ page.modal = n => Invitations(n)' < Invitations(n)
           /\ CancelUpload /\ page.modal = n => Invitations(n)' < Invitations(n)
           /\ page.modal = n => Invitations(n) > 0
  <1> DEFINE I == Invitation(n)
             mo == IF page.modal = n THEN 1 ELSE 0
             be == IF n > begun THEN 1 ELSE 0
  <1>1. QueuesType /\ DeviceType /\ PageType /\ QueuesType' /\ DeviceType' /\ PageType'
    BY TypeNext DEF TypeInv
  <1>2. /\ Invitations(n) = Count(toBroker, I) + Count(toPage, I) + mo + be
        /\ Invitations(n)' = Count(toBroker', I) + Count(toPage', I) + mo' + be'
    BY DEF Invitations, Invitation
  <1>3. /\ Count(toBroker, I) \in Nat /\ Count(toPage, I) \in Nat
        /\ Count(toBroker', I) \in Nat /\ Count(toPage', I) \in Nat
    BY <1>1, CountType DEF QueuesType
  <1>4. mo \in 0..1 /\ be \in 0..1 /\ mo' \in 0..1 /\ be' \in 0..1
    OBVIOUS
  <1>5. Invitations(n) \in Nat /\ Invitations(n)' \in Nat /\ (page.modal = n => Invitations(n) > 0)
    BY <1>2, <1>3, <1>4
  <1>6. n \in Nat /\ n # None /\ begun \in Nat
    BY <1>1, Numbers DEF DeviceType
  <1>7. \A m \in Sound : m \in I <=> m.t = "recv" /\ m.no = n
    BY MsgSound DEF Invitation
  <1>8. \A m \in Sound : Count(Append(toBroker, m), I) = Count(toBroker, I) + (IF m \in I THEN 1 ELSE 0)
    BY <1>1, CountAppend DEF QueuesType
  <1> HIDE DEF I
  <1>9. CASE BeginUpload
    <2>1. /\ toBroker' = Append(toBroker, Msg("recv", begun + 1, 0)) /\ begun' = begun + 1
          /\ begun < MaxTransfers /\ UNCHANGED <<toPage, page>>
      BY <1>9 DEF BeginUpload, Begin
    <2>2. Msg("recv", begun + 1, 0) \in Sound
      BY <1>6, <2>1, NewMsg, Numbers
    <2>3. Msg("recv", begun + 1, 0) \in I <=> n = begun + 1
      BY <1>7, <2>2, NewMsg
    <2>4. Count(toBroker', I) = Count(toBroker, I) + (IF n = begun + 1 THEN 1 ELSE 0)
      BY <1>8, <2>1, <2>2, <2>3
    <2>5. be = be' + (IF n = begun + 1 THEN 1 ELSE 0) /\ mo' = mo /\ Count(toPage', I) = Count(toPage, I)
      BY <1>6, <2>1
    <2>6. ~CancelUpload /\ ~\E len \in {0, Size} : ChooseFile(len)
      BY <1>6, <2>1 DEF CancelUpload, ChooseFile, PageSends, device
    <2> HIDE DEF mo, be
    <2> QED
      BY <1>2, <1>3, <1>4, <1>5, <2>4, <2>5, <2>6
  <1>10. ASSUME UNCHANGED page, begun' \in Nat, begun' >= begun,
                \/ toBroker' = toBroker
                \/ \E m \in Sound : toBroker' = Append(toBroker, m) /\ m.t # "recv",
                UNCHANGED toPage
         PROVE  Invitations(n)' <= Invitations(n)
    <2>1. Count(toBroker', I) = Count(toBroker, I)
      <3>1. ASSUME NEW m \in Sound, toBroker' = Append(toBroker, m), m.t # "recv"
            PROVE  Count(toBroker', I) = Count(toBroker, I)
        <4>1. Count(Append(toBroker, m), I) = Count(toBroker, I) + (IF m \in I THEN 1 ELSE 0) /\ m \notin I
          BY <1>7, <1>8, <3>1
        <4> QED
          BY <1>3, <3>1, <4>1
      <3> QED
        BY <1>10, <3>1
    <2>2. mo' = mo /\ be' <= be /\ Count(toPage', I) = Count(toPage, I)
      BY <1>6, <1>10
    <2> HIDE DEF mo, be
    <2> QED
      BY <1>2, <1>3, <1>4, <2>1, <2>2
  <1>11. CASE BrokerFileMessage
    <2>1. /\ toBroker # <<>> /\ toBroker' = Tail(toBroker) /\ UNCHANGED <<page, begun>>
          /\ toPage' = toPage \/ toPage' = Append(toPage, Head(toBroker))
      BY <1>11 DEF BrokerFileMessage, FileMessage, ToPipe, device
    <2>2. Head(toBroker) \in Sound
      BY <1>1, <2>1, QueueSteps
    <2>3. Count(toBroker, I) = Count(toBroker', I) + (IF Head(toBroker) \in I THEN 1 ELSE 0)
      BY <1>1, <2>1, CountTail DEF QueuesType
    <2>4. Count(Append(toPage, Head(toBroker)), I) = Count(toPage, I) + (IF Head(toBroker) \in I THEN 1 ELSE 0)
      BY <1>1, <2>2, CountAppend DEF QueuesType
    <2>5. Count(toPage', I) <= Count(toPage, I) + (IF Head(toBroker) \in I THEN 1 ELSE 0)
      <3>1. CASE toPage' = toPage
        BY <1>3, <3>1
      <3>2. CASE toPage' = Append(toPage, Head(toBroker))
        BY <1>3, <2>4, <3>2
      <3> QED
        BY <2>1, <3>1, <3>2
    <2>6. mo' = mo /\ be' = be
      BY <2>1
    <2>7. Invitations(n)' <= Invitations(n)
      <3> HIDE DEF mo, be
      <3> QED
        BY <1>2, <1>3, <1>4, <2>3, <2>5, <2>6
    <2>8. CancelUpload \/ (\E len \in {0, Size} : ChooseFile(len)) => page.modal # n
      <3>1. CancelUpload \/ (\E len \in {0, Size} : ChooseFile(len)) => page'.modal = None /\ page.modal # None
        BY PageModal
      <3> QED
        BY <2>1, <3>1
    <2> QED
      BY <1>5, <2>7, <2>8
  <1>12. CASE PageReads
    <2>1. /\ toPage # <<>> /\ toPage' = Tail(toPage) /\ UNCHANGED <<toBroker, begun>>
          /\ \/ page'.modal = page.modal
             \/ Head(toPage).t = "recv" /\ page'.modal = Head(toPage).no
      BY <1>1, <1>12 DEF PageReads, OnFileAck, device, PageType
    <2>2. Head(toPage) \in Sound
      BY <1>1, <2>1, QueueSteps
    <2>3. Count(toPage, I) = Count(toPage', I) + (IF Head(toPage) \in I THEN 1 ELSE 0)
      BY <1>1, <2>1, CountTail DEF QueuesType
    <2>4. mo' <= mo + (IF Head(toPage) \in I THEN 1 ELSE 0)
      BY <1>7, <2>1, <2>2
    <2>5. be' = be /\ Count(toBroker', I) = Count(toBroker, I)
      BY <2>1
    <2>6. Invitations(n)' <= Invitations(n)
      <3> HIDE DEF mo, be
      <3> QED
        BY <1>2, <1>3, <1>4, <2>3, <2>4, <2>5
    <2>7. ~CancelUpload /\ ~\E len \in {0, Size} : ChooseFile(len)
      <3>1. CancelUpload \/ (\E len \in {0, Size} : ChooseFile(len)) => toPage' = toPage
        BY DEF CancelUpload, ChooseFile, PageSends
      <3>2. toPage' # toPage
        BY <1>1, <2>1, HeadTailProperties, EmptySeq DEF QueuesType
      <3> QED
        BY <3>1, <3>2
    <2> QED
      BY <1>5, <2>6, <2>7
  <1>13. ASSUME UNCHANGED <<toBroker, toPage, begun>>, page'.modal \in {page.modal, None}
         PROVE  /\ Invitations(n)' <= Invitations(n)
                /\ page.modal = n /\ page'.modal = None => Invitations(n)' < Invitations(n)
    <2>1. /\ be' = be /\ mo' <= mo /\ (page.modal = n /\ page'.modal = None => mo = 1 /\ mo' = 0)
          /\ Count(toBroker', I) = Count(toBroker, I) /\ Count(toPage', I) = Count(toPage, I)
      BY <1>6, <1>13
    <2> HIDE DEF mo, be
    <2> QED
      BY <1>2, <1>3, <1>4, <2>1
  <1> HIDE DEF mo, be
  <1>14. CASE (\E len \in {0, Size} : ChooseFile(len)) \/ SendPiece \/ CancelUpload
    <2>1. /\ UNCHANGED <<toBroker, toPage, begun>> /\ page'.modal \in {page.modal, None}
          /\ (\E len \in {0, Size} : ChooseFile(len)) \/ CancelUpload => page'.modal = None
      BY <1>14, PageModal DEF ChooseFile, SendPiece, CancelUpload, PageSends, device
    <2> QED
      BY <1>5, <1>13, <2>1
  <1>15. CASE ~BeginUpload /\ ~BrokerFileMessage /\ ~PageReads
              /\ ~((\E len \in {0, Size} : ChooseFile(len)) \/ SendPiece \/ CancelUpload)
    <2>1. /\ UNCHANGED page /\ UNCHANGED toPage
          /\ begun' = begun \/ begun' = begun + 1
      BY <1>15 DEF Next, Device, Program, Page, BeginDownload, Begin, StopDownload, DeviceReads,
           BrokerUserMessage, EndSession, GetLoads, GetReads, GetBreaks, GetEnds, WriterFails,
           HandleInfo, HandleLookup, HandleWrite, HandleEnd, HandleAbort, vars, device
    <2>2. \/ toBroker' = toBroker
          \/ \E m \in Sound : toBroker' = Append(toBroker, m) /\ m.t # "recv"
      BY <1>15, Posted, NewMsg
    <2>3. begun' \in Nat /\ begun' >= begun
      BY <1>6, <2>1
    <2>4. Invitations(n)' <= Invitations(n)
      BY <1>10, <2>1, <2>2, <2>3
    <2> QED
      BY <1>5, <1>15, <2>4
  <1> QED
    BY <1>9, <1>11, <1>12, <1>14, <1>15

\* How the page's fields change.
LEMMA PageNext ==
    ASSUME TypeInv, [Next]_vars
    PROVE  \/ page' = page /\ ~SendPiece
           \/ /\ page'.file = None /\ page'.blob = page.blob /\ page'.offset = page.offset /\ ~SendPiece
              /\ PageReads \/ CancelUpload
           \/ /\ page.file # None /\ page.offset < Size /\ page.blob = <<>> /\ ~SendPiece
              /\ page'.file = page.file /\ page'.offset = page.offset
              /\ page'.blob # <<>> /\ Head(page'.blob) = [no |-> page.file, piece |-> page.offset + 1]
              /\ PageReads /\ Head(toPage).t = "ack"
           \/ /\ page.modal # None /\ (\E len \in {0, Size} : ChooseFile(len)) /\ ~SendPiece
              /\ page'.file = page.modal /\ page'.offset = 0
              /\ page'.blob # <<>>
              /\ page.blob # <<>> => page'.blob = page.blob
              /\ page.blob = <<>> => Head(page'.blob).no = page.modal /\ Head(page'.blob).piece \in {0, 1}
           \/ /\ SendPiece /\ page.blob # <<>> /\ Head(page.blob) \in Blob /\ page'.file = page.file
              /\ page'.blob = <<>>
              /\ page'.offset = IF Head(page.blob).piece = 0 THEN page.offset ELSE page.offset + 1
  <1> DEFINE rec == [modal |-> page.modal, accepted |-> page.accepted, file |-> page.file,
                     offset |-> page.offset, len |-> page.len, blob |-> page.blob]
  <1>1. PageType /\ page = rec
    BY DEF TypeInv, PageType
  <1>2. SendPiece => page' # page
    <2> SUFFICES ASSUME SendPiece PROVE page' # page
      OBVIOUS
    <2>1. page.blob # <<>> /\ Tail(page.blob) = <<>>
      BY <1>1, OneBlob DEF SendPiece
    <2>2. page'.blob = Tail(page.blob)
      BY <1>1 DEF SendPiece
    <2> QED
      BY <2>1, <2>2
  <1>3. CASE SendPiece
    <2>1. /\ page.blob # <<>> /\ Head(page.blob) \in Blob /\ Tail(page.blob) = <<>>
      BY <1>1, <1>3, OneBlob DEF SendPiece
    <2>2. page' = [rec EXCEPT !.blob = Tail(@), !.offset = IF Head(page.blob).piece = 0 THEN @ ELSE @ + 1]
      BY <1>1, <1>3 DEF SendPiece
    <2>3. /\ page'.blob = Tail(page.blob) /\ page'.file = page.file
          /\ page'.offset = IF Head(page.blob).piece = 0 THEN page.offset ELSE page.offset + 1
      BY <2>2
    <2> QED
      BY <1>3, <2>1, <2>3
  <1>4. ASSUME NEW len \in {0, Size}, ChooseFile(len)
        PROVE  /\ page.modal # None /\ page' # page
               /\ page'.file = page.modal /\ page'.offset = 0
               /\ page'.blob # <<>>
               /\ page.blob # <<>> => page'.blob = page.blob
               /\ page.blob = <<>> => Head(page'.blob).no = page.modal /\ Head(page'.blob).piece \in {0, 1}
    <2> DEFINE b == ReadBlob(page.blob, page.modal, 0, len)
    <2>1. page.modal \in Transfers /\ 0 \in 0..Size /\ 0 < Size
      BY <1>1, <1>4, OneBlob, Numbers DEF ChooseFile
    <2>2. /\ b # <<>> /\ (page.blob # <<>> => b = page.blob)
          /\ page.blob = <<>> => Head(b) = [no |-> page.modal, piece |-> IF len = 0 THEN 0 ELSE 0 + 1]
      BY <1>1, <2>1, BlobRead
    <2>3. page' = [modal |-> None, accepted |-> TRUE, file |-> page.modal, offset |-> 0, len |-> len, blob |-> b]
      BY <1>4 DEF ChooseFile
    <2> HIDE DEF b
    <2>4. page'.modal = None /\ page.modal # None
      BY <2>1, <2>3, Numbers
    <2> QED
      BY <2>2, <2>3, <2>4
  <1>5. ASSUME CancelUpload
        PROVE  page' # page /\ page'.file = None /\ page'.blob = page.blob /\ page'.offset = page.offset
    <2>1. page' = [rec EXCEPT !.modal = None, !.file = None] /\ page.modal # None
      BY <1>1, <1>5 DEF CancelUpload
    <2> QED
      BY <2>1
  <1>6. CASE PageReads /\ page' # page /\ ~SendPiece
    <2>1. CASE Head(toPage).t = "recv"
      <3>1. page' = [rec EXCEPT !.modal = Head(toPage).no, !.file = None, !.accepted = FALSE]
        BY <1>1, <1>6, <2>1 DEF PageReads
      <3> QED
        BY <1>6, <3>1
    <2>2. CASE Head(toPage).t = "ack" /\ page.file # None /\ page.offset < page.len
      <3> DEFINE b == ReadBlob(page.blob, page.file, page.offset, page.len)
      <3>1. page' = [rec EXCEPT !.blob = b]
        BY <1>1, <1>6, <2>2 DEF PageReads, OnFileAck
      <3>2. page.file \in Transfers /\ page.offset < Size /\ page.offset \in 0..Size /\ page.len # 0
            /\ page.len \in {0, Size}
        BY <1>1, <2>2, OneBlob, Numbers
      <3>3. /\ b # <<>> /\ (page.blob # <<>> => b = page.blob)
            /\ page.blob = <<>> => Head(b) = [no |-> page.file, piece |-> page.offset + 1]
        BY <1>1, <3>2, BlobRead
      <3> HIDE DEF b
      <3>4. page'.blob = b /\ page'.file = page.file /\ page'.offset = page.offset
        BY <3>1
      <3>5. page.blob = <<>>
        BY <1>1, <1>6, <3>1, <3>3
      <3> QED
        BY <1>6, <2>2, <3>2, <3>3, <3>4, <3>5
    <2> QED
      BY <1>6, <2>1, <2>2 DEF PageReads, OnFileAck
  <1>7. page' # page => PageReads \/ SendPiece \/ CancelUpload \/ \E len \in {0, Size} : ChooseFile(len)
    BY DEF Next, Device, Program, Page, BeginUpload, BeginDownload, Begin, StopDownload, DeviceReads,
           BrokerFileMessage, BrokerUserMessage, EndSession, GetLoads, GetReads, GetBreaks, GetEnds,
           WriterFails, HandleInfo, HandleLookup, HandleWrite, HandleEnd, HandleAbort, vars
  <1> QED
    BY <1>2, <1>3, <1>4, <1>5, <1>6, <1>7

LEMMA PieceInit == Init => PieceInv
  <1> SUFFICES ASSUME Init PROVE PieceInv
    OBVIOUS
  <1>1. /\ page.modal = None /\ page.file = None /\ page.blob = <<>> /\ begun = 0
        /\ toBroker = <<>> /\ toPage = <<>> /\ fromPage = <<>> /\ toDevice = <<>> /\ jobs = {}
        /\ \A f \in Transfers : stored[f] = <<>>
    BY DEF Init
  <1>2. \A n \in Transfers : Invitations(n) = 1
    BY <1>1, NothingCounted, Numbers DEF Invitations
  <1>3. \A n, k : \A f \in Transfers : Copies(n, k, f) = 0
    BY <1>1, NothingCounted DEF Copies, InFlight
  <1> QED
    BY <1>1, <1>2, <1>3, Numbers DEF PieceInv

LEMMA PieceNext == TypeInv /\ PieceInv /\ [Next]_vars => PieceInv'
  <1> SUFFICES ASSUME TypeInv, PieceInv, [Next]_vars PROVE PieceInv'
    OBVIOUS
  <1>1. PageType /\ page.offset \in 0..Size /\ page.file \in 0..MaxTransfers
    BY OneBlob DEF TypeInv
  <1>2. \A n \in Transfers :
          /\ Invitations(n) \in Nat /\ Invitations(n)' \in Nat
          /\ Invitations(n) <= 1 /\ Invitations(n)' <= 1
          /\ Invitations(n)' = 1 => Invitations(n) = 1
          /\ (\E len \in {0, Size} : ChooseFile(len)) /\ page.modal = n =>
               Invitations(n) = 1 /\ Invitations(n)' # 1
    <2> SUFFICES ASSUME NEW n \in Transfers
                 PROVE  /\ Invitations(n) \in Nat /\ Invitations(n)' \in Nat
                        /\ Invitations(n) <= 1 /\ Invitations(n)' <= 1
                        /\ Invitations(n)' = 1 => Invitations(n) = 1
                        /\ (\E len \in {0, Size} : ChooseFile(len)) /\ page.modal = n =>
                             Invitations(n) = 1 /\ Invitations(n)' # 1
      OBVIOUS
    <2>1. Invitations(n) <= 1
      BY DEF PieceInv
    <2> QED
      BY <2>1, InvitationsNext
  <1>3. \A n \in Transfers : Invitations(n) = 1 => page.file # n /\ (page.blob # <<>> => Head(page.blob).no # n)
    BY DEF PieceInv
  <1>4. \A n \in Transfers, k \in 1..Size, f \in Transfers :
          /\ Copies(n, k, f) \in Nat /\ Copies(n, k, f)' \in Nat
          /\ Copies(n, k, f) <= 1 /\ (Unsent(n, k) => Copies(n, k, f) = 0)
          /\ \/ Copies(n, k, f)' <= Copies(n, k, f)
             \/ /\ SendPiece /\ Head(page.blob) = [no |-> n, piece |-> k]
                /\ Copies(n, k, f)' <= Copies(n, k, f) + 1
    <2>1. \A n \in Transfers, k \in 1..Size, f \in Transfers :
            /\ Copies(n, k, f) <= 1 /\ (Unsent(n, k) => Copies(n, k, f) = 0)
      BY DEF PieceInv
    <2>2. \A n \in Transfers, k \in 1..Size, f \in Transfers :
            /\ \/ Copies(n, k, f)' <= Copies(n, k, f)
               \/ /\ SendPiece /\ Head(page.blob) = [no |-> n, piece |-> k]
                  /\ Copies(n, k, f)' <= Copies(n, k, f) + 1
      BY CopiesNext
    <2>3. \A n, k : \A f \in Transfers : Copies(n, k, f) \in Nat
      BY CopiesCount
    <2>4. TypeInv'
      BY TypeNext
    <2>5. \A n, k : \A f \in Transfers : Copies(n, k, f)' \in Nat
      <3>1. \A f \in Transfers : stored'[f] \in Seq(Pieces)
        BY <2>4 DEF TypeInv, ProgramType
      <3>2. \A f \in Transfers : \A S : Count(stored'[f], S) \in Nat
        BY <3>1, CountType
      <3>3. \A S : Count(fromPage', S) \in Nat /\ Count(toDevice', S) \in Nat
        BY <2>4, CountType DEF TypeInv, QueuesType
      <3>4. \A X : Among(jobs', X) \in Nat
        BY <2>4, AmongFinite DEF TypeInv, ProgramType
      <3>5. \A S : InFlight(S)' \in Nat
        BY <3>3, <3>4 DEF InFlight, JobsOf
      <3> QED
        BY <3>2, <3>5 DEF Copies, Piece, Stored
    <2> QED
      BY <2>1, <2>2, <2>3, <2>5
  <1>5. page.blob # <<>> /\ Head(page.blob).no = page.file => Head(page.blob).piece \in {0, page.offset + 1}
    BY DEF PieceInv
  \* What is unsent stays so, if it was sent then.
  <1> SUFFICES /\ \A n \in Transfers, k \in 1..Size : Unsent(n, k)' =>
                    /\ Unsent(n, k)
                    /\ ~(SendPiece /\ Head(page.blob) = [no |-> n, piece |-> k])
               /\ \A n \in Transfers, k \in 1..Size :
                    SendPiece /\ Head(page.blob) = [no |-> n, piece |-> k] => Unsent(n, k)
               /\ \A n \in Transfers : Invitations(n)' = 1 =>
                    page'.file # n /\ (page'.blob # <<>> => Head(page'.blob).no # n)
               /\ page'.blob # <<>> /\ Head(page'.blob).no = page'.file =>
                    Head(page'.blob).piece \in {0, page'.offset + 1}
    <2>1. ASSUME NEW n \in Transfers, NEW k \in 1..Size, NEW f \in Transfers,
                 Unsent(n, k)' => /\ Unsent(n, k)
                                  /\ ~(SendPiece /\ Head(page.blob) = [no |-> n, piece |-> k]),
                 SendPiece /\ Head(page.blob) = [no |-> n, piece |-> k] => Unsent(n, k)
          PROVE  Copies(n, k, f)' <= 1 /\ (Unsent(n, k)' => Copies(n, k, f)' = 0)
      BY <1>4, <2>1
    <2> QED
      BY <1>2, <2>1 DEF PieceInv
  <1>6. \A n \in Transfers, k \in 1..Size :
          SendPiece /\ Head(page.blob) = [no |-> n, piece |-> k] => Unsent(n, k)
    BY DEF SendPiece, Unsent
  <1>7. CASE page' = page /\ ~SendPiece
    BY <1>2, <1>3, <1>5, <1>7 DEF Unsent
  <1>8. CASE page'.file = None /\ page'.blob = page.blob /\ page'.offset = page.offset /\ ~SendPiece
    <2>1. \A n \in Transfers, k \in 1..Size : Unsent(n, k)' => Unsent(n, k)
      BY <1>2, <1>8, Numbers DEF Unsent
    <2>2. page'.blob # <<>> => Head(page'.blob).no # None
      <3>1. page.blob # <<>> => Head(page.blob) \in Blob
        BY <1>1, OneBlob
      <3> QED
        BY <1>8, <3>1, Numbers DEF Blob
    <2> QED
      BY <1>2, <1>3, <1>6, <1>8, <2>1, <2>2, Numbers
  <1>9. CASE /\ page.file # None /\ page.offset < Size /\ page.blob = <<>> /\ ~SendPiece
             /\ page'.file = page.file /\ page'.offset = page.offset
             /\ page'.blob # <<>> /\ Head(page'.blob) = [no |-> page.file, piece |-> page.offset + 1]
    <2>1. \A n \in Transfers, k \in 1..Size : Unsent(n, k)' => Unsent(n, k)
      BY <1>1, <1>2, <1>9 DEF Unsent
    <2> QED
      BY <1>2, <1>3, <1>6, <1>9, <2>1
  <1>10. CASE /\ page.modal # None /\ (\E len \in {0, Size} : ChooseFile(len)) /\ ~SendPiece
              /\ page'.file = page.modal /\ page'.offset = 0
              /\ page'.blob # <<>>
              /\ page.blob # <<>> => page'.blob = page.blob
              /\ page.blob = <<>> => Head(page'.blob).no = page.modal /\ Head(page'.blob).piece \in {0, 1}
    <2>1. PICK x \in Transfers : x = page.modal
      BY <1>1, <1>10, OneBlob, Numbers
    <2>2. Invitations(x) = 1 /\ Invitations(x)' # 1
      BY <1>2, <1>10, <2>1
    <2>3. page.blob # <<>> => Head(page.blob).no # x
      BY <1>3, <2>2
    <2>4. ASSUME NEW n \in Transfers, NEW k \in 1..Size, Unsent(n, k)' PROVE Unsent(n, k)
      <3>1. CASE n = x
        BY <2>2, <3>1 DEF Unsent
      <3>2. CASE n # x
        <4>1. Invitations(n)' = 1 \/ Head(page'.blob) = [no |-> n, piece |-> k]
          BY <1>10, <2>1, <2>4, <3>2 DEF Unsent
        <4>2. CASE Invitations(n)' = 1
          BY <1>2, <4>2 DEF Unsent
        <4>3. CASE Head(page'.blob) = [no |-> n, piece |-> k]
          <5>1. page.blob # <<>> /\ Head(page.blob) = [no |-> n, piece |-> k]
            BY <1>10, <2>1, <3>2, <4>3
          <5> QED
            BY <5>1 DEF Unsent
        <4> QED
          BY <4>1, <4>2, <4>3
      <3> QED
        BY <3>1, <3>2
    <2>5. ASSUME NEW n \in Transfers, Invitations(n)' = 1
          PROVE  page'.file # n /\ Head(page'.blob).no # n
      <3>1. n # x /\ Invitations(n) = 1
        BY <1>2, <2>2, <2>5
      <3> QED
        BY <1>3, <1>10, <2>1, <3>1
    <2>6. Head(page'.blob).no = page'.file => Head(page'.blob).piece \in {0, page'.offset + 1}
      BY <1>10, <2>1, <2>3
    <2> QED
      BY <1>6, <1>10, <2>4, <2>5, <2>6
  <1>11. CASE /\ SendPiece /\ page.blob # <<>> /\ Head(page.blob) \in Blob /\ page'.file = page.file
              /\ page'.blob = <<>>
              /\ page'.offset = IF Head(page.blob).piece = 0 THEN page.offset ELSE page.offset + 1
    <2>1. ASSUME NEW n \in Transfers, NEW k \in 1..Size, Unsent(n, k)'
          PROVE  Unsent(n, k) /\ Head(page.blob) # [no |-> n, piece |-> k]
      <3>1. CASE Invitations(n)' = 1
        BY <1>2, <1>3, <1>11, <3>1 DEF Unsent
      <3>2. CASE page.file = n /\ k > page'.offset
        <4>1. k > page.offset
          BY <1>1, <1>11, <3>2
        <4>2. Head(page.blob) = [no |-> n, piece |-> k] => k = page.offset + 1
          BY <1>1, <1>5, <1>11, <3>2
        <4>3. Head(page.blob) # [no |-> n, piece |-> k]
          BY <1>1, <1>11, <3>2, <4>2
        <4> QED
          BY <3>2, <4>1, <4>3 DEF Unsent
      <3> QED
        BY <1>11, <2>1, <3>1, <3>2 DEF Unsent
    <2> QED
      BY <1>2, <1>3, <1>6, <1>11, <2>1
  <1> QED
    BY <1>7, <1>8, <1>9, <1>10, <1>11, PageNext

LEMMA CountOnce ==
    ASSUME NEW T, NEW q \in Seq(T), NEW x, Count(q, {x}) <= 1,
           NEW i \in 1..Len(q), NEW j \in 1..Len(q), q[i] = x, q[j] = x
    PROVE  i = j
  <1> DEFINE I == {k \in 1..Len(q) : q[k] \in {x}}
  <1> SUFFICES ASSUME i # j PROVE FALSE
    OBVIOUS
  <1>1. IsFiniteSet(I) /\ Cardinality(I) \in Nat /\ Cardinality(I) <= 1
    BY CountType DEF Count
  <1>2. {i} \in SUBSET (I \ {j}) /\ j \in I
    OBVIOUS
  <1> HIDE DEF I
  <1>3. IsFiniteSet(I \ {j}) /\ Cardinality(I \ {j}) = Cardinality(I) - 1
    BY <1>1, <1>2, FS_RemoveElement
  <1>4. Cardinality({i}) <= Cardinality(I \ {j}) /\ Cardinality({i}) = 1
    BY <1>2, <1>3, FS_Subset, FS_Singleton
  <1> QED
    BY <1>1, <1>3, <1>4

\* No piece is stored twice, whatever acknowledgements come when: the end of
\* the file and the reader in use keep the page from sending a piece again.
THEOREM PiecesStoredOnce == Spec => []NoPieceTwice
  <1>1. TypeInv /\ PieceInv => NoPieceTwice
    <2> SUFFICES ASSUME TypeInv, PieceInv, NEW n \in Transfers,
                        NEW a \in DOMAIN stored[n], NEW b \in DOMAIN stored[n],
                        stored[n][a] = stored[n][b]
                 PROVE  a = b
      BY DEF NoPieceTwice, IsInjective
    <2>1. stored[n] \in Seq(Pieces) /\ DOMAIN stored[n] = 1..Len(stored[n])
      <3>1. stored[n] \in Seq(Pieces)
        BY DEF TypeInv, ProgramType
      <3> QED
        BY <3>1, LenProperties
    <2>2. PICK m \in Transfers, k \in 1..Size : stored[n][a] = [no |-> m, piece |-> k]
      <3>1. stored[n][a] \in Pieces
        BY <2>1, ElementOfSeq
      <3> QED
        BY <3>1 DEF Pieces
    <2>3. Copies(m, k, n) <= 1 /\ InFlight(Piece(m, k)) \in Nat
          /\ Count(stored[n], Stored(m, k)) \in Nat
          /\ Copies(m, k, n) = InFlight(Piece(m, k)) + Count(stored[n], Stored(m, k))
      BY CopiesCount DEF PieceInv
    <2>4. Count(stored[n], {[no |-> m, piece |-> k]}) <= 1
      BY <2>3 DEF Stored
    <2> QED
      BY <2>1, <2>2, <2>4, CountOnce
  <1> QED
    BY <1>1, TypeInit, TypeNext, PieceInit, PieceNext, PTL DEF Spec
-----------------------------------------------------------------------------
(* An upload's pieces overtake each other in the goroutines of the device  *)
(* program.  The page has two messages under way, so that one earlier      *)
(* piece at most is in flight when a piece is stored; and it reads a piece *)
(* from the file when none that follows has been sent.                     *)

\* The earlier pieces of the file.
Below(n, k) == {m \in Msgs : m.t = "data" /\ m.no = n /\ m.piece # 0 /\ m.piece < k}

HeadInv ==
    page.blob # <<>> /\ Head(page.blob).piece # 0 =>
        \A k \in 1..Size, f \in Transfers :
            k >= Head(page.blob).piece => Copies(Head(page.blob).no, k, f) = 0

\* What may still overtake the pieces stored in f.
Overtaken(f) ==
    \A i \in 1..Len(stored[f]) :
        /\ InFlight(Below(stored[f][i].no, stored[f][i].piece)) <= 1
        /\ (\E j \in 1..Len(stored[f]) : Overtakes(stored[f], i, j)) =>
             InFlight(Below(stored[f][i].no, stored[f][i].piece)) = 0

OvertakeInv == ~hurried =>
    /\ owed + Len(page.blob) <= 2
    /\ \A f \in Transfers : OvertakesOne(stored[f]) /\ Overtaken(f)

LEMMA FlightMore ==
    QueuesType /\ ProgramType => \A R, S : R \subseteq S => InFlight(R) <= InFlight(S)
  <1> SUFFICES ASSUME QueuesType, ProgramType, NEW R, NEW S, R \subseteq S
               PROVE  InFlight(R) <= InFlight(S)
    OBVIOUS
  <1>1. Count(fromPage, R) <= Count(fromPage, S) /\ Count(toDevice, R) <= Count(toDevice, S)
    BY CountMore DEF QueuesType
  <1>2. JobsOf(R) \subseteq JobsOf(S)
    BY DEF JobsOf
  <1>3. Among(jobs, JobsOf(R)) <= Among(jobs, JobsOf(S))
    BY <1>2, AmongMore DEF ProgramType
  <1>4. /\ InFlight(R) = Count(fromPage, R) + Count(toDevice, R) + Among(jobs, JobsOf(R))
        /\ InFlight(S) = Count(fromPage, S) + Count(toDevice, S) + Among(jobs, JobsOf(S))
        /\ Count(fromPage, R) \in Nat /\ Count(toDevice, R) \in Nat /\ Among(jobs, JobsOf(R)) \in Nat
        /\ Count(fromPage, S) \in Nat /\ Count(toDevice, S) \in Nat /\ Among(jobs, JobsOf(S)) \in Nat
    BY FlightCounts DEF InFlight
  <1> QED
    BY <1>1, <1>3, <1>4

LEMMA FlightMoreNext ==
    (QueuesType /\ ProgramType => \A R, S : R \subseteq S => InFlight(R) <= InFlight(S))'
  BY FlightMore, PTL

LEMMA FlightNext ==
    ASSUME TypeInv, [Next]_vars
    PROVE  \A S : InFlight(S) \in Nat /\ InFlight(S)' \in Nat
  <1>1. TypeInv'
    BY TypeNext
  <1>2. \A S : Count(fromPage', S) \in Nat /\ Count(toDevice', S) \in Nat
    BY <1>1, CountType DEF TypeInv, QueuesType
  <1>3. \A X : Among(jobs', X) \in Nat
    BY <1>1, AmongFinite DEF TypeInv, ProgramType
  <1>4. \A S : InFlight(S)' \in Nat
    BY <1>2, <1>3 DEF InFlight, JobsOf
  <1> QED
    BY <1>4, FlightCounts DEF TypeInv

\* A piece that is neither in flight nor stored stays so until it is sent.
LEMMA CopiesNone ==
    ASSUME TypeInv, [Next]_vars, ~SendPiece
    PROVE  \A n \in Transfers, k \in 1..Size, f \in Transfers :
             Copies(n, k, f) = 0 => Copies(n, k, f)' = 0
  <1> SUFFICES ASSUME NEW n \in Transfers, NEW k \in 1..Size, NEW f \in Transfers, Copies(n, k, f) = 0
               PROVE  Copies(n, k, f)' = 0
    OBVIOUS
  <1>1. Copies(n, k, f)' <= Copies(n, k, f)
    BY CopiesNext
  <1>2. Copies(n, k, f)' \in Nat
    <2>1. stored'[f] \in Seq(Pieces)
      BY TypeNext DEF TypeInv, ProgramType
    <2>2. \A S : Count(stored'[f], S) \in Nat
      BY <2>1, CountType
    <2> QED
      BY <2>2, FlightNext DEF Copies, Piece, Stored
  <1> QED
    BY <1>1, <1>2

LEMMA HeadNext == TypeInv /\ PieceInv /\ HeadInv /\ [Next]_vars => HeadInv'
  <1> SUFFICES ASSUME TypeInv, PieceInv, HeadInv, [Next]_vars,
                      page'.blob # <<>>, Head(page'.blob).piece # 0,
                      NEW k \in 1..Size, NEW f \in Transfers, k >= Head(page'.blob).piece
               PROVE  Copies(Head(page.blob).no, k, f)' = 0
    BY DEF HeadInv
  <1>1. PICK n : n = Head(page'.blob).no
    OBVIOUS
  <1>2. ~SendPiece
    BY PageNext
  <1>3. n \in Transfers
    <2>1. Head(page'.blob) \in Blob
      <3>1. PageType'
        BY TypeNext DEF TypeInv
      <3>2. page'.blob \in Seq(Blob)
        BY <3>1 DEF PageType, Blob
      <3> QED
        BY <3>2, HeadTailProperties
    <2> QED
      BY <1>1, <2>1 DEF Blob
  <1>4. Copies(n, k, f) = 0
    <2>1. CASE page.blob # <<>> /\ page'.blob = page.blob
      BY <1>1, <2>1 DEF HeadInv
    <2>2. CASE /\ page.file # None /\ page.offset < Size /\ page.blob = <<>>
               /\ Head(page'.blob) = [no |-> page.file, piece |-> page.offset + 1]
      <3>1. page.file = n /\ k > page.offset
        <4>1. page.offset \in Nat
          BY OneBlob, Numbers DEF TypeInv
        <4> QED
          BY <1>1, <2>2, <4>1
      <3>2. Unsent(n, k)
        BY <3>1 DEF Unsent
      <3> QED
        BY <1>3, <3>2 DEF PieceInv
    <2>3. CASE (\E len \in {0, Size} : ChooseFile(len)) /\ Head(page'.blob).no = page.modal
      <3>1. Invitations(n) <= 1 /\ page.modal = n
        BY <1>1, <1>3, <2>3 DEF PieceInv
      <3>2. Invitations(n) = 1
        BY <1>3, <2>3, <3>1, InvitationsNext
      <3>3. Unsent(n, k)
        BY <3>2 DEF Unsent
      <3> QED
        BY <1>3, <3>3 DEF PieceInv
    <2> QED
      BY <2>1, <2>2, <2>3, PageNext
  <1>5. Copies(n, k, f)' = 0
    BY <1>2, <1>3, <1>4, CopiesNone
  <1> QED
    BY <1>1, <1>5 DEF Copies, Piece, Stored

\* Nothing is sent that would overtake a stored piece.
LEMMA BelowFalls ==
    ASSUME TypeInv, HeadInv, [Next]_vars, NEW f \in Transfers, NEW i \in 1..Len(stored[f]),
           NEW n \in Transfers, NEW k \in 1..Size, stored[f][i] = [no |-> n, piece |-> k]
    PROVE  InFlight(Below(n, k))' <= InFlight(Below(n, k))
  <1>1. Below(n, k) \in SUBSET Up
    BY DEF Below, Up
  <1>2. CASE ~SendPiece /\ ~\E len \in {0, Size} : ChooseFile(len)
    <2>1. \A S \in SUBSET Up : InFlight(S)' <= InFlight(S)
      BY <1>2, FlightFalls
    <2> QED
      BY <1>1, <2>1 DEF Below, Msgs
  <1>3. CASE \E len \in {0, Size} : ChooseFile(len)
    <2>1. \A S : InFlight(S)' = InFlight(S) + (IF Msg("info", page.modal, 0) \in S THEN 1 ELSE 0)
      BY <1>3, FlightChosen
    <2>2. Msg("info", page.modal, 0) \notin Below(n, k)
      BY MsgSound DEF Below
    <2>3. InFlight(Below(n, k))' = InFlight(Below(n, k))
      BY <2>1, <2>2, FlightNext DEF Below, Msgs
    <2> QED
      BY <2>3, FlightNext DEF Below, Msgs
  <1>4. CASE SendPiece
    <2>1. PICK h : h = Head(page.blob)
      OBVIOUS
    <2>2. \A S : InFlight(S)' = InFlight(S) + (IF Msg("data", h.no, h.piece) \in S THEN 1 ELSE 0)
      BY <1>4, <2>1, FlightPiece
    <2>3. Msg("data", h.no, h.piece) \notin Below(n, k)
      <3>1. SUFFICES ASSUME h.no = n, h.piece # 0, h.piece < k PROVE FALSE
        BY MsgSound DEF Below
      <3>2. h \in Blob /\ page.blob # <<>>
        BY <1>4, <2>1, OneBlob DEF TypeInv, SendPiece
      <3>3. k >= h.piece
        BY <3>1, <3>2, Numbers DEF Blob
      <3>4. Copies(n, k, f) = 0
        BY <2>1, <3>1, <3>2, <3>3 DEF HeadInv
      <3>5. stored[f] \in Seq(Pieces) /\ stored[f][i] \in Stored(n, k)
        BY DEF TypeInv, ProgramType, Stored
      <3>6. Count(stored[f], Stored(n, k)) # 0
        BY <3>5, CountType
      <3> QED
        BY <3>4, <3>6, CopiesCount
    <2>4. InFlight(Below(n, k))' = InFlight(Below(n, k))
      BY <2>2, <2>3, FlightNext DEF Below, Msgs
    <2> QED
      BY <2>4, FlightNext DEF Below, Msgs
  <1> QED
    BY <1>2, <1>3, <1>4

\* A write stores a piece: the pieces that it has overtaken, and those that
\* it is overtaken by.
LEMMA OvertakeWritten ==
    ASSUME TypeInv, TypeInv', HeadInv, OvertakeInv, [Next]_vars, ~hurried, stored' # stored, NEW f \in Transfers
    PROVE  (OvertakesOne(stored[f]) /\ Overtaken(f))'
  <1>1. PICK j \in jobs : /\ j.msg.t = "data" /\ j.msg.piece # 0
                          /\ j.msg.no \in Transfers /\ j.file \in Transfers
                          /\ jobs' = jobs \ {j} /\ UNCHANGED <<fromPage, toDevice, history>>
                          /\ stored' = [stored EXCEPT ![j.file] =
                                          Append(@, [no |-> j.msg.no, piece |-> j.msg.piece])]
    BY StoredNext
  <1>2. PICK x : x = [no |-> j.msg.no, piece |-> j.msg.piece]
    OBVIOUS
  <1>3. j.msg \in Msgs /\ x \in Pieces /\ stored[f] \in Seq(Pieces)
    <2>1. j.msg \in Sound /\ stored \in [Transfers -> Seq(Pieces)]
      BY DEF TypeInv, ProgramType, Jobs
    <2>2. j.msg.piece \in 1..Size
      BY <1>1, <2>1, MsgSound, Numbers
    <2> QED
      BY <1>1, <1>2, <2>1, <2>2, MsgSound DEF Pieces
  <1>4. \A S : InFlight(S) = InFlight(S)' + (IF j.msg \in S THEN 1 ELSE 0) /\ InFlight(S)' \in Nat
    BY <1>1, FlightDone DEF TypeInv
  <1>5. PICK q : q = stored[f]
    OBVIOUS
  <1>6. PICK r : r = stored'[f]
    OBVIOUS
  <1>7. /\ OvertakesOne(q)
        /\ \A i \in 1..Len(q) :
             /\ InFlight(Below(q[i].no, q[i].piece)) <= 1
             /\ (\E k \in 1..Len(q) : Overtakes(q, i, k)) => InFlight(Below(q[i].no, q[i].piece)) = 0
    BY <1>5 DEF OvertakeInv, Overtaken
  <1>8. \A i \in 1..Len(q) : q[i] \in Pieces
    BY <1>3, <1>5, ElementOfSeq
  <1>9. \A i \in 1..Len(q) :
          InFlight(Below(q[i].no, q[i].piece))' <= InFlight(Below(q[i].no, q[i].piece))
    <2> SUFFICES ASSUME NEW i \in 1..Len(q)
                 PROVE  InFlight(Below(q[i].no, q[i].piece))' <= InFlight(Below(q[i].no, q[i].piece))
      OBVIOUS
    <2>1. PICK n \in Transfers, k \in 1..Size : q[i] = [no |-> n, piece |-> k]
      BY <1>8 DEF Pieces
    <2>2. InFlight(Below(n, k))' <= InFlight(Below(n, k))
      BY <1>5, <2>1, BelowFalls
    <2>3. q[i].no = n /\ q[i].piece = k
      BY <2>1
    <2> QED
      BY <2>2, <2>3
  <1>10. \A i \in 1..Len(q) :
           /\ InFlight(Below(q[i].no, q[i].piece))' \in Nat /\ InFlight(Below(q[i].no, q[i].piece)) \in Nat
           /\ x.no = q[i].no /\ x.piece < q[i].piece =>
                InFlight(Below(q[i].no, q[i].piece)) = InFlight(Below(q[i].no, q[i].piece))' + 1
    <2> SUFFICES ASSUME NEW i \in 1..Len(q)
                 PROVE  /\ InFlight(Below(q[i].no, q[i].piece))' \in Nat
                        /\ InFlight(Below(q[i].no, q[i].piece)) \in Nat
                        /\ x.no = q[i].no /\ x.piece < q[i].piece =>
                             InFlight(Below(q[i].no, q[i].piece)) = InFlight(Below(q[i].no, q[i].piece))' + 1
      OBVIOUS
    <2>1. PICK B : B = Below(q[i].no, q[i].piece)
      OBVIOUS
    <2>2. InFlight(B) = InFlight(B)' + (IF j.msg \in B THEN 1 ELSE 0) /\ InFlight(B)' \in Nat
      BY <1>4
    <2>3. x.no = q[i].no /\ x.piece < q[i].piece => j.msg \in B
      BY <1>1, <1>2, <1>3, <2>1 DEF Below
    <2>4. InFlight(B) \in Nat
      BY FlightNext
    <2> QED
      BY <2>1, <2>2, <2>3, <2>4 DEF Below, Msgs
  <1>11. CASE f # j.file
    <2>1. r = q
      BY <1>1, <1>3, <1>5, <1>6, <1>11 DEF TypeInv, ProgramType
    <2>2. \A i \in 1..Len(r) :
            /\ InFlight(Below(r[i].no, r[i].piece))' <= 1
            /\ (\E k \in 1..Len(r) : Overtakes(r, i, k)) => InFlight(Below(r[i].no, r[i].piece))' = 0
      BY <1>7, <1>9, <1>10, <2>1
    <2> QED
      BY <1>6, <1>7, <2>1, <2>2 DEF Overtaken, OvertakesOne, Overtakes, Below, Msgs
  <1>12. CASE f = j.file
    <2>1. /\ r = Append(q, x) /\ Len(q) \in Nat /\ Len(r) = Len(q) + 1 /\ r[Len(q) + 1] = x
          /\ \A i \in 1..Len(q) : r[i] = q[i]
      <3>1. r = Append(q, x)
        BY <1>1, <1>2, <1>3, <1>5, <1>6, <1>12 DEF TypeInv, ProgramType
      <3> QED
        BY <1>3, <1>5, <3>1, AppendProperties, LenProperties
    <2>2. \A i \in 1..Len(q) :
            InFlight(Below(q[i].no, q[i].piece))' <= 1
      BY <1>7, <1>9, <1>10
    <2>3. \A i, k \in 1..Len(r) : Overtakes(r, i, k) =>
            /\ i \in 1..Len(q)
            /\ \/ k \in 1..Len(q) /\ Overtakes(q, i, k)
               \/ k = Len(r) /\ x.no = q[i].no /\ x.piece < q[i].piece
      BY <2>1 DEF Overtakes
    <2>4. \A i \in 1..Len(q) : x.no = q[i].no /\ x.piece < q[i].piece =>
            /\ InFlight(Below(q[i].no, q[i].piece))' = 0
            /\ ~\E k \in 1..Len(q) : Overtakes(q, i, k)
      <3> SUFFICES ASSUME NEW i \in 1..Len(q), x.no = q[i].no, x.piece < q[i].piece
                   PROVE  /\ InFlight(Below(q[i].no, q[i].piece))' = 0
                          /\ ~\E k \in 1..Len(q) : Overtakes(q, i, k)
        OBVIOUS
      <3>1. PICK a : a = InFlight(Below(q[i].no, q[i].piece))
        OBVIOUS
      <3>2. PICK b : b = InFlight(Below(q[i].no, q[i].piece))'
        OBVIOUS
      <3>3. a <= 1 /\ ((\E k \in 1..Len(q) : Overtakes(q, i, k)) => a = 0)
        BY <1>7, <3>1
      <3>4. a \in Nat /\ b \in Nat /\ a = b + 1
        BY <1>10, <3>1, <3>2
      <3>5. b = 0 /\ a # 0
        BY <3>3, <3>4
      <3> QED
        BY <3>2, <3>3, <3>5
    <2>5. OvertakesOne(r)
      BY <1>7, <2>3, <2>4 DEF OvertakesOne
    <2>6. InFlight(Below(x.no, x.piece))' <= 1
      <3>1. PICK B : B = Below(x.no, x.piece)
        OBVIOUS
      <3>2. B \subseteq Up /\ j.msg \in Up
        BY <1>1, <1>3, <3>1 DEF Below, Up
      <3>3. InFlight(B)' <= InFlight(Up)'
        <4>1. PICK U : U = Up
          OBVIOUS
        <4>2. InFlight(B)' <= InFlight(U)'
          BY <3>2, <4>1, FlightMoreNext DEF TypeInv
        <4> QED
          BY <4>1, <4>2 DEF Up, Msgs
      <3>4. InFlight(Up) = InFlight(Up)' + 1 /\ InFlight(Up)' \in Nat
        BY <1>4, <3>2 DEF Up, Msgs
      <3>5. InFlight(Up) <= 2
        <4>1. InFlight(Up) <= owed /\ owed \in Nat
          BY TypeKept DEF Awaited
        <4>2. owed + Len(page.blob) <= 2 /\ Len(page.blob) \in Nat
          BY OneBlob, LenProperties DEF OvertakeInv, TypeInv
        <4> QED
          BY <4>1, <4>2, <3>4
      <3>6. InFlight(B)' \in Nat
        BY <1>4
      <3>7. InFlight(B)' <= 1
        BY <3>3, <3>4, <3>5, <3>6
      <3> QED
        BY <3>1, <3>7 DEF Below, Msgs
    <2>7. \A i \in 1..Len(r) :
            /\ InFlight(Below(r[i].no, r[i].piece))' <= 1
            /\ (\E k \in 1..Len(r) : Overtakes(r, i, k)) => InFlight(Below(r[i].no, r[i].piece))' = 0
      <3> SUFFICES ASSUME NEW i \in 1..Len(r)
                   PROVE  /\ InFlight(Below(r[i].no, r[i].piece))' <= 1
                          /\ (\E k \in 1..Len(r) : Overtakes(r, i, k)) =>
                               InFlight(Below(r[i].no, r[i].piece))' = 0
        OBVIOUS
      <3>1. CASE i \in 1..Len(q)
        <4>1. r[i] = q[i]
          BY <2>1, <3>1
        <4>2. InFlight(Below(q[i].no, q[i].piece))' <= 1
          BY <2>2, <3>1
        <4>3. (\E k \in 1..Len(r) : Overtakes(r, i, k)) => InFlight(Below(q[i].no, q[i].piece))' = 0
          <5>1. ASSUME NEW k \in 1..Len(q), Overtakes(q, i, k)
                PROVE  InFlight(Below(q[i].no, q[i].piece))' = 0
            <6>1. PICK a : a = InFlight(Below(q[i].no, q[i].piece))
              OBVIOUS
            <6>2. PICK b : b = InFlight(Below(q[i].no, q[i].piece))'
              OBVIOUS
            <6>3. a = 0
              BY <1>7, <3>1, <5>1, <6>1
            <6>4. b \in Nat /\ b <= a
              BY <1>9, <1>10, <3>1, <6>1, <6>2
            <6> QED
              BY <6>2, <6>3, <6>4
          <5> QED
            BY <2>3, <2>4, <3>1, <5>1
        <4> QED
          BY <4>1, <4>2, <4>3
      <3>2. CASE i \notin 1..Len(q)
        <4>1. r[i] = x
          BY <2>1, <3>2
        <4> QED
          BY <2>3, <2>6, <3>2, <4>1
      <3> QED
        BY <3>1, <3>2
    <2> QED
      BY <1>6, <2>5, <2>7 DEF Overtaken, OvertakesOne, Overtakes, Below, Msgs
  <1> QED
    BY <1>11, <1>12

\* Two messages at most are owed an acknowledgement, the piece that has been
\* read from the file counted as one.
LEMMA OwedNext ==
    ASSUME TypeInv, TypeInv', OvertakeInv, [Next]_vars, ~hurried'
    PROVE  ~hurried /\ owed' + Len(page'.blob) <= 2
  <1>1. /\ owed \in Nat /\ owed' \in Nat /\ page.blob \in Seq(Blob) /\ Len(page.blob) \in Nat
        /\ Len(page'.blob) \in Nat /\ Len(page'.blob) <= 1
    <2>1. page.blob \in Seq(Blob) /\ page'.blob \in Seq(Blob)
      BY DEF TypeInv, PageType, Blob
    <2>2. page'.blob # <<>> => Len(page'.blob) = 1
      BY DEF TypeInv, PageType
    <2>3. page'.blob = <<>> => Len(page'.blob) = 0
      BY EmptySeq
    <2>4. owed \in Nat /\ owed' \in Nat
      BY DEF TypeInv, HistoryType
    <2>5. Len(page.blob) \in Nat /\ Len(page'.blob) \in Nat
      BY <2>1, LenProperties
    <2>6. \A l \in Nat : l = 0 \/ l = 1 => l <= 1
      OBVIOUS
    <2>7. Len(page'.blob) = 0 \/ Len(page'.blob) = 1
      BY <2>2, <2>3
    <2>8. Len(page'.blob) <= 1
      BY <2>5, <2>6, <2>7
    <2> QED
      BY <2>1, <2>4, <2>5, <2>8
  <1>2. CASE SendPiece
    <2>1. ~hurried /\ owed' = owed + 1
      BY <1>2 DEF SendPiece, PageSends
    <2>2. page.blob # <<>> /\ page'.blob = <<>>
      BY <1>2, PageNext
    <2>3. Len(page.blob) = 1 /\ Len(page'.blob) = 0
      BY <2>2, EmptySeq DEF TypeInv, PageType
    <2>4. owed + Len(page.blob) <= 2
      BY <2>1 DEF OvertakeInv
    <2> QED
      BY <1>1, <2>1, <2>3, <2>4
  <1>3. CASE \E len \in {0, Size} : ChooseFile(len)
    <2>1. ~hurried /\ ~(owed > 0) /\ owed' = owed + 1
      BY <1>3 DEF ChooseFile, PageSends
    <2>2. owed = 0
      BY <1>1, <2>1
    <2>3. Len(page'.blob) \in Nat /\ Len(page'.blob) <= 1 /\ owed' = 1
      BY <1>1, <2>1, <2>2
    <2> QED
      BY <2>1, <2>3
  <1>4. CASE PageReads
    <2>1. ~hurried /\ owed + Len(page.blob) <= 2
      BY <1>4 DEF PageReads, OvertakeInv
    <2>2. \/ Head(toPage).t = "ack" /\ owed' = owed - 1
          \/ Head(toPage).t # "ack" /\ owed' = owed
      BY <1>4 DEF PageReads
    <2>3. page'.blob = page.blob \/ (Head(toPage).t = "ack" /\ page.blob = <<>>)
      <3>1. ~SendPiece /\ ~\E len \in {0, Size} : ChooseFile(len)
        <4>1. ~(owed' = owed + 1)
          BY <1>1, <2>2
        <4> QED
          BY <4>1 DEF SendPiece, ChooseFile, PageSends
      <3> QED
        BY <1>4, <3>1, PageNext
    <2>4. page.blob = <<>> => Len(page.blob) = 0
      BY EmptySeq
    <2> QED
      BY <1>1, <2>1, <2>2, <2>3, <2>4
  <1>5. CASE ~SendPiece /\ ~(\E len \in {0, Size} : ChooseFile(len)) /\ ~PageReads
    <2>1. UNCHANGED <<owed, hurried>>
      BY <1>5 DEF Next, Device, Program, Page, BeginUpload, BeginDownload, StopDownload, DeviceReads,
             CancelUpload, BrokerFileMessage, BrokerUserMessage, EndSession, GetLoads, GetReads, GetBreaks,
             GetEnds, WriterFails, HandleInfo, HandleLookup, HandleWrite, HandleEnd, HandleAbort,
             vars, history
    <2>2. page'.blob = page.blob
      BY <1>5, PageNext
    <2> QED
      BY <2>1, <2>2 DEF OvertakeInv
  <1> QED
    BY <1>2, <1>3, <1>4, <1>5

LEMMA OvertakeNext == TypeInv /\ HeadInv /\ OvertakeInv /\ [Next]_vars => OvertakeInv'
  <1> SUFFICES ASSUME TypeInv, HeadInv, OvertakeInv, [Next]_vars, ~hurried' PROVE OvertakeInv'
    BY DEF OvertakeInv
  <1>1. TypeInv'
    BY TypeNext
  <1>2. ~hurried /\ owed' + Len(page'.blob) <= 2
    BY <1>1, OwedNext
  <1>3. ASSUME NEW f \in Transfers, stored' = stored
        PROVE  (OvertakesOne(stored[f]) /\ Overtaken(f))'
    <2>1. stored[f] \in Seq(Pieces) /\ OvertakesOne(stored[f]) /\ Overtaken(f)
      BY <1>2 DEF TypeInv, ProgramType, OvertakeInv
    <2>2. PICK q : q = stored[f]
      OBVIOUS
    <2>3. \A i \in 1..Len(q) :
            /\ InFlight(Below(q[i].no, q[i].piece))' <= 1
            /\ (\E k \in 1..Len(q) : Overtakes(q, i, k)) => InFlight(Below(q[i].no, q[i].piece))' = 0
      <3> SUFFICES ASSUME NEW i \in 1..Len(q)
                   PROVE  /\ InFlight(Below(q[i].no, q[i].piece))' <= 1
                          /\ (\E k \in 1..Len(q) : Overtakes(q, i, k)) =>
                               InFlight(Below(q[i].no, q[i].piece))' = 0
        OBVIOUS
      <3>1. PICK n \in Transfers, k \in 1..Size : q[i] = [no |-> n, piece |-> k]
        <4>1. q[i] \in Pieces
          BY <2>1, <2>2, ElementOfSeq
        <4> QED
          BY <4>1 DEF Pieces
      <3>2. q[i].no = n /\ q[i].piece = k
        BY <3>1
      <3>3. InFlight(Below(n, k))' <= InFlight(Below(n, k))
        BY <2>2, <3>1, BelowFalls
      <3>4. /\ InFlight(Below(n, k)) <= 1
            /\ (\E l \in 1..Len(q) : Overtakes(q, i, l)) => InFlight(Below(n, k)) = 0
        BY <2>1, <2>2, <3>2 DEF Overtaken
      <3>5. InFlight(Below(n, k)) \in Nat /\ InFlight(Below(n, k))' \in Nat
        <4>1. PICK B : B = Below(n, k)
          OBVIOUS
        <4>2. InFlight(B) \in Nat /\ InFlight(B)' \in Nat
          BY FlightNext
        <4> QED
          BY <4>1, <4>2 DEF Below, Msgs
      <3> QED
        BY <3>2, <3>3, <3>4, <3>5
    <2>4. q = stored'[f]
      BY <1>3, <2>2
    <2> QED
      BY <2>1, <2>2, <2>3, <2>4 DEF Overtaken, OvertakesOne, Overtakes, Below, Msgs
  <1>4. ASSUME NEW f \in Transfers, stored' # stored
        PROVE  (OvertakesOne(stored[f]) /\ Overtaken(f))'
    BY <1>1, <1>2, <1>4, OvertakeWritten
  <1> QED
    BY <1>2, <1>3, <1>4 DEF OvertakeInv

LEMMA OvertakeInit == Init => HeadInv /\ OvertakeInv
  <1> SUFFICES ASSUME Init PROVE HeadInv /\ OvertakeInv
    OBVIOUS
  <1>1. /\ page.blob = <<>> /\ owed = 0 /\ Len(page.blob) = 0
        /\ \A f \in Transfers : Len(stored[f]) = 0
    BY EmptySeq DEF Init
  <1> QED
    BY <1>1 DEF HeadInv, OvertakeInv, Overtaken, OvertakesOne

\* The page has two messages of an upload under way, and the device program
\* handles each in a goroutine of its own: a piece may be stored before the one
\* ahead of it, but overtakes no other, if files are chosen when what was sent
\* before is acknowledged.
THEOREM UploadsOvertakeOne == Spec => []UploadOvertakesOne
  <1>1. OvertakeInv => UploadOvertakesOne
    BY DEF OvertakeInv, UploadOvertakesOne
  <1> QED
    BY <1>1, TypeInit, TypeNext, PieceInit, PieceNext, OvertakeInit, HeadNext, OvertakeNext, PTL DEF Spec

-----------------------------------------------------------------------------
(* What the device sends of its downloads follows their order: the request *)
(* for a download before its pieces, and one download after the other.     *)

Offer(d) == {m \in Msgs : m.t = "send" /\ m.no = d}
Offers(d) ==
    Count(toBroker, Offer(d)) + Count(toPage, Offer(d))
      + (IF get[d].at = "idle" THEN 0 ELSE 1) + (IF d > begun THEN 1 ELSE 0)
Down == {"send", "data"}

\* After the first k messages of q, the pipe is that of d or there is none.
Known(q, e, d, k) ==
    \/ \E j \in 1..k : q[j].t = "send" /\ q[j].no = d
    \/ e \in {None, d} /\ \A j \in 1..k : q[j].t # "send"

Ordered(q) ==
    \A i, j \in 1..Len(q) : j < i /\ q[i].t \in Down /\ q[j].t \in Down =>
        q[j].no <= q[i].no /\ (q[i].t = "send" => q[j].no < q[i].no)
Followed(q, e) == \A i \in 1..Len(q) : q[i].t = "data" => Known(q, e, q[i].no, i - 1)
Until(q, d) == \A i \in 1..Len(q) : q[i].t \in Down => q[i].no <= d

OrderInv ==
    /\ \A d \in Transfers : Offers(d) <= 1
    /\ \A n \in Transfers : /\ get[n].no <= begun
                            /\ get[n].at \in {"idle", "asked"} => get[n].no = None /\ get[n].got = <<>>
    /\ entry <= begun /\ source.no <= begun /\ source.sent <= Size
    /\ \A w \in writers : w.pipe = w.no
    /\ Ordered(toBroker) /\ Until(toBroker, begun)
    /\ source.no # None => Until(toBroker, source.no)
    /\ sess => Followed(toBroker, entry)
    /\ sess /\ source.no # None => Known(toBroker, entry, source.no, Len(toBroker))

\* A message is put at the end of the queue.
LEMMA OrderMore ==
    ASSUME NEW q \in Seq(Sound), NEW m \in Sound, NEW e
    PROVE  /\ \A d \in Nat : Until(q, d) /\ (m.t \in Down => m.no <= d) => Until(Append(q, m), d)
           /\ /\ Ordered(q)
              /\ m.t = "data" => Until(q, m.no)
              /\ m.t = "send" => \A i \in 1..Len(q) : q[i].t \in Down => q[i].no < m.no
              => Ordered(Append(q, m))
           /\ Followed(q, e) /\ (m.t = "data" => Known(q, e, m.no, Len(q))) => Followed(Append(q, m), e)
           /\ \A d : Known(q, e, d, Len(q)) /\ m.t # "send" => Known(Append(q, m), e, d, Len(Append(q, m)))
           /\ m.t = "send" => Known(Append(q, m), e, m.no, Len(Append(q, m)))
  <1> DEFINE p == Append(q, m)
             x == Len(q) + 1
  <1>1. /\ Len(q) \in Nat /\ Len(p) = x
        /\ \A i \in 1..Len(q) : p[i] = q[i]
        /\ p[x] = m
    BY AppendProperties, LenProperties
  <1>2. \A i \in 1..x : i \in 1..Len(q) \/ i = x
    BY <1>1
  <1>3. \A i \in 1..Len(q) : q[i] \in Sound
    BY ElementOfSeq
  <1>4. \A n \in Sound : n.no \in Nat
    BY MsgSound, Numbers
  <1> HIDE DEF p
  <1>5. \A d \in Nat : Until(q, d) /\ (m.t \in Down => m.no <= d) => Until(p, d)
    BY <1>1, <1>2 DEF Until
  <1>6. ASSUME Ordered(q), m.t = "data" => Until(q, m.no),
               m.t = "send" => \A i \in 1..Len(q) : q[i].t \in Down => q[i].no < m.no
        PROVE  Ordered(p)
    <2> SUFFICES ASSUME NEW i \in 1..Len(p), NEW j \in 1..Len(p), j < i, p[i].t \in Down, p[j].t \in Down
                 PROVE  p[j].no <= p[i].no /\ (p[i].t = "send" => p[j].no < p[i].no)
      BY DEF Ordered
    <2>1. j \in 1..Len(q) /\ p[j] = q[j]
      BY <1>1
    <2>2. CASE i = x
      <3>1. p[i] = m /\ q[j].no \in Nat /\ m.no \in Nat
        BY <1>1, <1>3, <1>4, <2>1, <2>2
      <3> QED
        BY <1>6, <2>1, <3>1 DEF Until, Down
    <2>3. CASE i \in 1..Len(q)
      BY <1>1, <1>6, <2>1, <2>3 DEF Ordered
    <2> QED
      BY <1>1, <1>2, <2>2, <2>3
  <1>7. \A k \in 0..Len(q) : \A d : Known(q, e, d, k) => Known(p, e, d, k)
    <2> SUFFICES ASSUME NEW k \in 0..Len(q), NEW d, Known(q, e, d, k) PROVE Known(p, e, d, k)
      OBVIOUS
    <2>1. \A j \in 1..k : j \in 1..Len(q) /\ p[j] = q[j]
      BY <1>1
    <2> QED
      BY <2>1 DEF Known
  <1>8. ASSUME Followed(q, e), m.t = "data" => Known(q, e, m.no, Len(q))
        PROVE  Followed(p, e)
    <2> SUFFICES ASSUME NEW i \in 1..Len(p), p[i].t = "data" PROVE Known(p, e, p[i].no, i - 1)
      BY DEF Followed
    <2>1. CASE i = x
      <3>1. i - 1 = Len(q) /\ Len(q) \in 0..Len(q) /\ p[i] = m
        BY <1>1, <2>1
      <3> QED
        BY <1>7, <1>8, <3>1
    <2>2. CASE i \in 1..Len(q)
      <3>1. i - 1 \in 0..Len(q) /\ p[i] = q[i]
        BY <1>1, <2>2
      <3>2. Known(q, e, q[i].no, i - 1)
        BY <1>8, <2>2, <3>1 DEF Followed
      <3> QED
        BY <1>7, <3>1, <3>2
    <2> QED
      BY <1>1, <1>2, <2>1, <2>2
  <1>9. ASSUME NEW d, Known(q, e, d, Len(q)), m.t # "send"
        PROVE  Known(p, e, d, Len(p))
    <2>1. Known(p, e, d, Len(q))
      BY <1>1, <1>7, <1>9
    <2> QED
      BY <1>1, <1>2, <1>9, <2>1 DEF Known
  <1>10. m.t = "send" => Known(p, e, m.no, Len(p))
    BY <1>1 DEF Known
  <1> QED
    BY <1>5, <1>6, <1>8, <1>9, <1>10 DEF p

\* The first message is taken, and sets the pipe if it asks for a download.
LEMMA OrderLess ==
    ASSUME NEW q \in Seq(Sound), q # <<>>, NEW e, NEW f,
           f = IF Head(q).t = "send" THEN Head(q).no ELSE e
    PROVE  /\ \A d : Until(q, d) => Until(Tail(q), d) /\ (Head(q).t \in Down => Head(q).no <= d)
           /\ Ordered(q) => Ordered(Tail(q))
           /\ Ordered(q) /\ Followed(q, e) => Followed(Tail(q), f)
           /\ \A d \in Nat : Until(q, d) /\ Ordered(q) /\ Known(q, e, d, Len(q)) => Known(Tail(q), f, d, Len(Tail(q)))
           /\ Followed(q, e) /\ Head(q).t = "data" => e \in {None, Head(q).no}
  <1> DEFINE p == Tail(q)
  <1>1. /\ Len(q) \in Nat \ {0} /\ Len(p) = Len(q) - 1 /\ Head(q) = q[1]
        /\ \A i \in 1..Len(p) : p[i] = q[i + 1]
    BY HeadTailProperties, EmptySeq, LenProperties
  <1>2. \A i \in 1..Len(q) : q[i] \in Sound
    BY ElementOfSeq
  <1>3. \A n \in Sound : n.no \in Nat
    BY MsgSound, Numbers
  <1>4. \A i \in 1..Len(p) : i + 1 \in 1..Len(q) /\ i + 1 > 1 /\ (i + 1) - 1 = i
    BY <1>1
  <1>5. 1 \in 1..Len(q)
    BY <1>1
  <1> HIDE DEF p
  <1>6. \A d : Until(q, d) => Until(p, d) /\ (Head(q).t \in Down => Head(q).no <= d)
    BY <1>1, <1>4, <1>5 DEF Until
  <1>7. ASSUME Ordered(q) PROVE Ordered(p)
    <2> SUFFICES ASSUME NEW i \in 1..Len(p), NEW j \in 1..Len(p), j < i, p[i].t \in Down, p[j].t \in Down
                 PROVE  p[j].no <= p[i].no /\ (p[i].t = "send" => p[j].no < p[i].no)
      BY DEF Ordered
    <2>1. p[i] = q[i + 1] /\ p[j] = q[j + 1] /\ i + 1 \in 1..Len(q) /\ j + 1 \in 1..Len(q) /\ j + 1 < i + 1
      BY <1>1
    <2> QED
      BY <1>7, <2>1 DEF Ordered
  <1>8. ASSUME NEW d \in Nat, NEW k \in 1..Len(q), Ordered(q), Known(q, e, d, k),
               \A j \in 1..k : q[j].t = "send" => q[j].no <= d
        PROVE  Known(p, f, d, k - 1)
    <2>1. \A j \in 1..(k - 1) : j \in 1..Len(p) /\ p[j] = q[j + 1] /\ j + 1 \in 1..k /\ j + 1 \in 1..Len(q) /\ 1 < j + 1
      BY <1>1
    <2>2. CASE q[1].t = "send" /\ q[1].no = d
      <3>1. f = d
        BY <1>1, <2>2
      <3>2. ASSUME NEW j \in 1..(k - 1), p[j].t = "send" PROVE FALSE
        <4>1. q[j + 1].t = "send" /\ q[j + 1].no <= d /\ q[j + 1].no \in Nat
          BY <1>2, <1>3, <1>8, <2>1, <3>2
        <4>2. q[1].no < q[j + 1].no
          BY <1>5, <1>8, <2>1, <2>2, <4>1 DEF Ordered, Down
        <4> QED
          BY <2>2, <4>1, <4>2
      <3> QED
        BY <3>1, <3>2 DEF Known
    <2>3. CASE ~(q[1].t = "send" /\ q[1].no = d)
      <3>1. CASE \E j \in 1..k : q[j].t = "send" /\ q[j].no = d
        <4>1. PICK j \in 1..k : q[j].t = "send" /\ q[j].no = d
          BY <3>1
        <4>2. j # 1 /\ j - 1 \in 1..(k - 1) /\ (j - 1) + 1 = j
          BY <2>3, <4>1
        <4>3. p[j - 1] = q[j]
          BY <2>1, <4>2
        <4> QED
          BY <4>1, <4>2, <4>3 DEF Known
      <3>2. CASE e \in {None, d} /\ \A j \in 1..k : q[j].t # "send"
        <4>1. f = e
          BY <1>1, <3>2
        <4> QED
          BY <2>1, <3>2, <4>1 DEF Known
      <3> QED
        BY <1>8, <3>1, <3>2 DEF Known
    <2> QED
      BY <2>2, <2>3
  <1>9. ASSUME Ordered(q), Followed(q, e) PROVE Followed(p, f)
    <2> SUFFICES ASSUME NEW i \in 1..Len(p), p[i].t = "data" PROVE Known(p, f, p[i].no, i - 1)
      BY DEF Followed
    <2>1. p[i] = q[i + 1] /\ i + 1 \in 1..Len(q) /\ (i + 1) - 1 = i /\ i \in 1..Len(q)
      BY <1>1
    <2>2. Known(q, e, p[i].no, i) /\ p[i].no \in Nat
      BY <1>2, <1>3, <1>9, <2>1 DEF Followed
    <2>3. ASSUME NEW j \in 1..i, q[j].t = "send" PROVE q[j].no <= p[i].no
      <3>1. j \in 1..Len(q) /\ j < i + 1
        BY <1>1
      <3> QED
        BY <1>9, <2>1, <2>3, <3>1 DEF Ordered, Down
    <2> QED
      BY <1>8, <1>9, <2>1, <2>2, <2>3
  <1>10. ASSUME NEW d \in Nat, Until(q, d), Ordered(q), Known(q, e, d, Len(q))
         PROVE  Known(p, f, d, Len(p))
    <2>1. Len(q) \in 1..Len(q) /\ Len(p) = Len(q) - 1
      BY <1>1
    <2>2. \A j \in 1..Len(q) : q[j].t = "send" => q[j].no <= d
      BY <1>10 DEF Until, Down
    <2> QED
      BY <1>8, <1>10, <2>1, <2>2
  <1>11. ASSUME Followed(q, e), Head(q).t = "data" PROVE e \in {None, Head(q).no}
    <2>1. Known(q, e, q[1].no, 1 - 1)
      BY <1>1, <1>5, <1>11 DEF Followed
    <2>2. \A j : j \notin 1..(1 - 1)
      OBVIOUS
    <2> QED
      BY <1>1, <2>1, <2>2 DEF Known
  <1> QED
    BY <1>6, <1>7, <1>9, <1>10, <1>11 DEF p

LEMMA OrderCleared ==
    ASSUME NEW q, NEW e
    PROVE  /\ Followed(q, e) => Followed(q, None)
           /\ \A d, k : Known(q, e, d, k) => Known(q, None, d, k)
  BY DEF Followed, Known

\* A request for a download goes from the device to the page once.
LEMMA OffersNext ==
    ASSUME TypeInv, [Next]_vars, NEW d \in Transfers
    PROVE  /\ Offers(d) \in Nat /\ Offers(d)' \in Nat /\ Offers(d)' <= Offers(d)
           /\ PageReads /\ Head(toPage).t = "send" /\ Head(toPage).no = d /\ Offers(d) <= 1 => get[d].at = "idle"
  <1> DEFINE I == Offer(d)
             at == IF get[d].at = "idle" THEN 0 ELSE 1
             be == IF d > begun THEN 1 ELSE 0
  <1>1. QueuesType /\ DeviceType /\ QueuesType' /\ DeviceType'
    BY TypeNext DEF TypeInv
  <1>2. /\ Offers(d) = Count(toBroker, I) + Count(toPage, I) + at + be
        /\ Offers(d)' = Count(toBroker', I) + Count(toPage', I) + at' + be'
    BY DEF Offers, Offer
  <1>3. /\ Count(toBroker, I) \in Nat /\ Count(toPage, I) \in Nat
        /\ Count(toBroker', I) \in Nat /\ Count(toPage', I) \in Nat
    BY <1>1, CountType DEF QueuesType
  <1>4. at \in 0..1 /\ be \in 0..1 /\ at' \in 0..1 /\ be' \in 0..1
    OBVIOUS
  <1>5. Offers(d) \in Nat /\ Offers(d)' \in Nat
    BY <1>2, <1>3, <1>4
  <1>6. d \in Nat /\ d # None /\ begun \in Nat
    BY <1>1, Numbers DEF DeviceType
  <1>7. \A m \in Sound : m \in I <=> m.t = "send" /\ m.no = d
    BY MsgSound DEF Offer
  <1>8. \A m \in Sound : Count(Append(toBroker, m), I) = Count(toBroker, I) + (IF m \in I THEN 1 ELSE 0)
    BY <1>1, CountAppend DEF QueuesType
  <1>g. get[d].at \in {"idle", "asked", "reading", "ended"}
    BY DEF TypeInv, ServerType
  <1>p. ASSUME PageReads, Head(toPage).t = "send", Head(toPage).no = d, Offers(d) <= 1 PROVE get[d].at = "idle"
    <2>1. toPage # <<>>
      BY <1>p DEF PageReads
    <2>2. Head(toPage) \in I
      BY <1>1, <1>7, <1>p, <2>1, QueueSteps
    <2>3. Count(toPage, I) = Count(Tail(toPage), I) + (IF Head(toPage) \in I THEN 1 ELSE 0)
          /\ Count(Tail(toPage), I) \in Nat
      BY <1>1, <2>1, CountTail, CountType, HeadTailProperties DEF QueuesType
    <2>4. at = 0
      <3> HIDE DEF I, at, be
      <3> QED
        BY <1>2, <1>3, <1>4, <1>p, <2>2, <2>3
    <2> QED
      BY <2>4
  <1> HIDE DEF I
  <1>9. CASE BeginDownload
    <2>1. /\ toBroker' = Append(toBroker, Msg("send", begun + 1, 0)) /\ begun' = begun + 1
          /\ begun < MaxTransfers /\ UNCHANGED <<toPage, get>>
      BY <1>9 DEF BeginDownload, Begin, server
    <2>2. Msg("send", begun + 1, 0) \in Sound
      BY <1>6, <2>1, NewMsg, Numbers
    <2>3. Msg("send", begun + 1, 0) \in I <=> d = begun + 1
      BY <1>7, <2>2, NewMsg
    <2>4. Count(toBroker', I) = Count(toBroker, I) + (IF d = begun + 1 THEN 1 ELSE 0)
      BY <1>8, <2>1, <2>2, <2>3
    <2>5. be = be' + (IF d = begun + 1 THEN 1 ELSE 0) /\ at' = at /\ Count(toPage', I) = Count(toPage, I)
      BY <1>6, <2>1
    <2> HIDE DEF at, be
    <2> QED
      BY <1>2, <1>3, <1>4, <1>5, <1>p, <2>4, <2>5
  <1>10. ASSUME begun' \in Nat, begun' >= begun, get[d].at # "idle" \/ get'[d].at = "idle",
                \/ toBroker' = toBroker
                \/ \E m \in Sound : toBroker' = Append(toBroker, m) /\ m.t # "send",
                UNCHANGED toPage
         PROVE  Offers(d)' <= Offers(d)
    <2>1. Count(toBroker', I) = Count(toBroker, I)
      <3>1. ASSUME NEW m \in Sound, toBroker' = Append(toBroker, m), m.t # "send"
            PROVE  Count(toBroker', I) = Count(toBroker, I)
        <4>1. Count(Append(toBroker, m), I) = Count(toBroker, I) + (IF m \in I THEN 1 ELSE 0) /\ m \notin I
          BY <1>7, <1>8, <3>1
        <4> QED
          BY <1>3, <3>1, <4>1
      <3> QED
        BY <1>10, <3>1
    <2>2. at' <= at /\ be' <= be /\ Count(toPage', I) = Count(toPage, I)
      BY <1>6, <1>10
    <2> HIDE DEF at, be
    <2> QED
      BY <1>2, <1>3, <1>4, <2>1, <2>2
  <1>11. CASE BrokerFileMessage
    <2>1. /\ toBroker # <<>> /\ toBroker' = Tail(toBroker) /\ UNCHANGED <<get, begun>>
          /\ toPage' = toPage \/ toPage' = Append(toPage, Head(toBroker))
      BY <1>11 DEF BrokerFileMessage, FileMessage, ToPipe, device
    <2>2. Head(toBroker) \in Sound
      BY <1>1, <2>1, QueueSteps
    <2>3. Count(toBroker, I) = Count(toBroker', I) + (IF Head(toBroker) \in I THEN 1 ELSE 0)
      BY <1>1, <2>1, CountTail DEF QueuesType
    <2>4. Count(Append(toPage, Head(toBroker)), I) = Count(toPage, I) + (IF Head(toBroker) \in I THEN 1 ELSE 0)
      BY <1>1, <2>2, CountAppend DEF QueuesType
    <2>5. Count(toPage', I) <= Count(toPage, I) + (IF Head(toBroker) \in I THEN 1 ELSE 0)
      <3>1. CASE toPage' = toPage
        BY <1>3, <3>1
      <3>2. CASE toPage' = Append(toPage, Head(toBroker))
        BY <1>3, <2>4, <3>2
      <3> QED
        BY <2>1, <3>1, <3>2
    <2>6. at' = at /\ be' = be
      BY <2>1
    <2> HIDE DEF at, be
    <2> QED
      BY <1>2, <1>3, <1>4, <1>5, <1>p, <2>3, <2>5, <2>6
  <1>12. CASE PageReads
    <2>1. /\ toPage # <<>> /\ toPage' = Tail(toPage) /\ UNCHANGED <<toBroker, begun>>
          /\ \/ UNCHANGED get
             \/ Head(toPage).t = "send" /\ get' = [get EXCEPT ![Head(toPage).no].at = "asked"]
      BY <1>12 DEF PageReads, device
    <2>2. Head(toPage) \in Sound
      BY <1>1, <2>1, QueueSteps
    <2>3. Count(toPage, I) = Count(toPage', I) + (IF Head(toPage) \in I THEN 1 ELSE 0)
      BY <1>1, <2>1, CountTail DEF QueuesType
    <2>4. at' <= at + (IF Head(toPage) \in I THEN 1 ELSE 0)
      <3>1. CASE Head(toPage) \in I
        BY <1>4, <3>1
      <3>2. CASE Head(toPage) \notin I
        <4>1. get'[d].at = get[d].at
          BY <1>7, <2>1, <2>2, <3>2 DEF TypeInv, ServerType
        <4> QED
          BY <3>2, <4>1
      <3> QED
        BY <3>1, <3>2
    <2>5. be' = be /\ Count(toBroker', I) = Count(toBroker, I)
      BY <2>1
    <2> HIDE DEF at, be
    <2> QED
      BY <1>2, <1>3, <1>4, <1>5, <1>p, <2>3, <2>4, <2>5
  <1> HIDE DEF at, be
  <1>13. CASE ~BeginDownload /\ ~BrokerFileMessage /\ ~PageReads
    <2>1. UNCHANGED toPage /\ (begun' = begun \/ begun' = begun + 1)
      BY <1>13 DEF Next, Device, Program, Page, BeginUpload, Begin, StopDownload, DeviceReads, SendPiece,
           CancelUpload, ChooseFile, PageSends, BrokerUserMessage, EndSession, GetLoads, GetReads, GetBreaks,
           GetEnds, WriterFails, HandleInfo, HandleLookup, HandleWrite, HandleEnd, HandleAbort, vars, device
    <2>2. \/ toBroker' = toBroker
          \/ \E m \in Sound : toBroker' = Append(toBroker, m) /\ m.t # "send"
      BY <1>13, Posted, NewMsg
    <2>3. begun' \in Nat /\ begun' >= begun
      BY <1>6, <2>1
    <2>4. get[d].at # "idle" \/ get'[d].at = "idle"
      <3>1. ASSUME NEW n \in Transfers, GetLoads(n) \/ GetReads(n) \/ GetBreaks(n) \/ GetEnds(n)
            PROVE  get[n].at # "idle" /\ (n # d => get'[d] = get[d])
        BY <3>1 DEF GetLoads, GetReads, GetBreaks, GetEnds, Reads, TypeInv, ServerType
      <3>2. \/ \E n \in Transfers : GetLoads(n) \/ GetReads(n) \/ GetBreaks(n) \/ GetEnds(n)
            \/ UNCHANGED get
        BY <1>13 DEF Next, Device, Program, Page, BeginUpload, Begin, StopDownload, DeviceReads, SendPiece,
           CancelUpload, ChooseFile, PageSends, BrokerUserMessage, EndSession,
           WriterFails, HandleInfo, HandleLookup, HandleWrite, HandleEnd, HandleAbort, vars, server
      <3> QED
        BY <3>1, <3>2
    <2> QED
      BY <1>5, <1>10, <1>13, <2>1, <2>2, <2>3, <2>4
  <1> QED
    BY <1>9, <1>11, <1>12, <1>13

LEMMA OrderInit == Init => OrderInv
  <1> SUFFICES ASSUME Init PROVE OrderInv
    OBVIOUS
  <1>1. /\ begun = 0 /\ toBroker = <<>> /\ toPage = <<>> /\ entry = None /\ writers = {}
        /\ source.no = None /\ source.sent = 0
        /\ \A n \in Transfers : get[n] = [at |-> "idle", no |-> None, got |-> <<>>]
    BY DEF Init, Idle
  <1>2. ASSUME NEW d \in Transfers PROVE Offers(d) = 1
    <2>1. d > begun /\ get[d].at = "idle"
      BY <1>1 DEF Transfers
    <2>2. Count(toBroker, Offer(d)) = 0 /\ Count(toPage, Offer(d)) = 0
      BY <1>1, NothingCounted
    <2> QED
      BY <2>1, <2>2 DEF Offers
  <1>3. Ordered(toBroker) /\ Until(toBroker, begun) /\ Followed(toBroker, entry)
    BY <1>1, EmptySeq DEF Ordered, Until, Followed
  <1> QED
    BY <1>1, <1>2, <1>3, Numbers DEF OrderInv, None

\* What the requests of the page know of their pipes.
LEMMA GetOrder ==
    ASSUME TypeInv, OrderInv, [Next]_vars
    PROVE  \A n \in Transfers :
             /\ get'[n].no <= begun
             /\ get'[n].at \in {"idle", "asked"} => get'[n].no = None /\ get'[n].got = <<>>
             /\ \/ get'[n] = get[n]
                \/ PageReads /\ get'[n].no = get[n].no /\ get[n].no = None
                \/ GetLoads(n) \/ GetReads(n) \/ GetBreaks(n) \/ GetEnds(n)
  <1>1. get \in [Transfers -> [at : {"idle", "asked", "reading", "ended"}, no : 0..MaxTransfers, got : Seq(Pieces)]]
    BY DEF TypeInv, ServerType
  <1>2. \A n \in Transfers : /\ get[n].no <= begun
                             /\ get[n].at \in {"idle", "asked"} => get[n].no = None /\ get[n].got = <<>>
    BY DEF OrderInv
  <1>3. CASE UNCHANGED get
    BY <1>2, <1>3
  <1>4. CASE PageReads /\ get' # get
    <2>1. toPage # <<>> /\ Head(toPage).t = "send" /\ get' = [get EXCEPT ![Head(toPage).no].at = "asked"]
      BY <1>4 DEF PageReads
    <2>2. \A n \in Transfers : Head(toPage).no = n => get[n].at = "idle"
      BY <1>4, <2>1, OffersNext DEF OrderInv
    <2>3. ASSUME NEW n \in Transfers
          PROVE  \/ get'[n] = get[n]
                 \/ get[n].at = "idle" /\ get'[n].at = "asked" /\ get'[n].no = get[n].no /\ get'[n].got = get[n].got
      <3>1. CASE Head(toPage).no = n
        BY <1>1, <2>1, <2>2, <3>1
      <3>2. CASE Head(toPage).no # n
        BY <1>1, <2>1, <3>2
      <3> QED
        BY <3>1, <3>2
    <2> QED
      BY <1>2, <1>4, <2>3
  <1>5. ASSUME NEW n \in Transfers, GetLoads(n) \/ GetReads(n) \/ GetBreaks(n) \/ GetEnds(n)
        PROVE  /\ get'[n].no <= begun /\ get'[n].at \notin {"idle", "asked"}
               /\ \A x \in Transfers : x # n => get'[x] = get[x]
    <2>1. CASE GetLoads(n)
      <3>1. entry <= begun
        BY DEF OrderInv
      <3> QED
        BY <1>1, <1>2, <2>1, <3>1 DEF GetLoads
    <2>2. CASE GetReads(n)
      BY <1>1, <1>2, <2>2 DEF GetReads, Reads
    <2>3. CASE GetBreaks(n)
      BY <1>1, <1>2, <2>3 DEF GetBreaks
    <2>4. CASE GetEnds(n)
      BY <1>1, <1>2, <2>4 DEF GetEnds
    <2> QED
      BY <1>5, <2>1, <2>2, <2>3, <2>4
  <1>6. ASSUME NEW n \in Transfers, GetLoads(n) \/ GetReads(n) \/ GetBreaks(n) \/ GetEnds(n)
        PROVE  \A x \in Transfers :
             /\ get'[x].no <= begun
             /\ get'[x].at \in {"idle", "asked"} => get'[x].no = None /\ get'[x].got = <<>>
             /\ \/ get'[x] = get[x]
                \/ GetLoads(x) \/ GetReads(x) \/ GetBreaks(x) \/ GetEnds(x)
    BY <1>2, <1>5, <1>6
  <1>7. UNCHANGED get \/ PageReads
        \/ \E n \in Transfers : GetLoads(n) \/ GetReads(n) \/ GetBreaks(n) \/ GetEnds(n)
    BY DEF Next, Device, Program, Page, BeginUpload, BeginDownload, StopDownload, DeviceReads, SendPiece,
           CancelUpload, ChooseFile, PageSends, BrokerFileMessage, BrokerUserMessage, EndSession,
           WriterFails, HandleInfo, HandleLookup, HandleWrite, HandleEnd, HandleAbort, vars, server
  <1> QED
    BY <1>3, <1>4, <1>6, <1>7

\* An action that begins nothing and sends nothing of a download.
LEMMA OrderKept ==
    ASSUME TypeInv, OrderInv, [Next]_vars,
           begun' = begun, source' \in {source, Idle}, sess' \in {sess, FALSE}, entry' \in {entry, None},
           toBroker' = toBroker \/ \E m \in Sound : toBroker' = Append(toBroker, m) /\ m.t \notin Down,
           \A w \in writers' : w.pipe = w.no
    PROVE  OrderInv'
  <1>1. \A d \in Transfers : Offers(d)' <= 1
    BY OffersNext DEF OrderInv
  <1>2. \A n \in Transfers : /\ get'[n].no <= begun'
                             /\ get'[n].at \in {"idle", "asked"} => get'[n].no = None /\ get'[n].got = <<>>
    BY GetOrder
  <1>3. /\ begun \in Nat /\ source.no \in Nat /\ source.sent \in Nat /\ Size \in Nat
        /\ entry <= begun /\ source.no <= begun /\ source.sent <= Size
        /\ Ordered(toBroker) /\ Until(toBroker, begun)
        /\ source.no # None => Until(toBroker, source.no)
        /\ sess => Followed(toBroker, entry)
        /\ sess /\ source.no # None => Known(toBroker, entry, source.no, Len(toBroker))
    BY Numbers DEF OrderInv, TypeInv, DeviceType
  <1>4. entry' <= begun' /\ source'.no <= begun' /\ source'.sent <= Size /\ source'.no \in {None, source.no}
    BY <1>3 DEF Idle, None
  <1>5. /\ sess' => Followed(toBroker, entry')
        /\ sess' /\ source'.no # None => Known(toBroker, entry', source'.no, Len(toBroker))
    <2>1. sess' => sess
      OBVIOUS
    <2>2. CASE entry' = entry
      BY <1>3, <1>4, <2>1, <2>2
    <2>3. CASE entry' = None
      <3>1. /\ sess => Followed(toBroker, None)
            /\ sess /\ source.no # None => Known(toBroker, None, source.no, Len(toBroker))
        BY <1>3, OrderCleared
      <3> QED
        BY <1>4, <2>1, <2>3, <3>1
    <2> QED
      BY <2>2, <2>3
  <1>6. /\ Ordered(toBroker') /\ Until(toBroker', begun')
        /\ source'.no # None => Until(toBroker', source'.no)
        /\ sess' => Followed(toBroker', entry')
        /\ sess' /\ source'.no # None => Known(toBroker', entry', source'.no, Len(toBroker'))
    <2>1. CASE toBroker' = toBroker
      BY <1>3, <1>4, <1>5, <2>1
    <2>2. ASSUME NEW m \in Sound, toBroker' = Append(toBroker, m), m.t \notin Down
          PROVE  /\ Ordered(toBroker') /\ Until(toBroker', begun')
                 /\ source'.no # None => Until(toBroker', source'.no)
                 /\ sess' => Followed(toBroker', entry')
                 /\ sess' /\ source'.no # None => Known(toBroker', entry', source'.no, Len(toBroker'))
      <3>1. toBroker \in Seq(Sound) /\ m.t # "send" /\ m.t # "data"
        BY <2>2 DEF TypeInv, QueuesType, Down
      <3>2. PICK e : e = entry'
        OBVIOUS
      <3>3. /\ Ordered(Append(toBroker, m)) /\ Until(Append(toBroker, m), begun)
            /\ source'.no # None => Until(Append(toBroker, m), source'.no)
        BY <1>3, <1>4, <2>2, <3>1, OrderMore
      <3>4. /\ sess' => Followed(Append(toBroker, m), e)
            /\ sess' /\ source'.no # None => Known(Append(toBroker, m), e, source'.no, Len(Append(toBroker, m)))
        BY <1>5, <3>1, <3>2, OrderMore
      <3> QED
        BY <2>2, <3>2, <3>3, <3>4
    <2> QED
      BY <2>1, <2>2
  <1> QED
    BY <1>1, <1>2, <1>4, <1>6 DEF OrderInv

LEMMA OrderBegun == TypeInv /\ OrderInv /\ (BeginUpload \/ BeginDownload) => OrderInv'
  <1> SUFFICES ASSUME TypeInv, OrderInv, BeginUpload \/ BeginDownload PROVE OrderInv'
    OBVIOUS
  <1>0. [Next]_vars
    BY DEF Next, Device
  <1>1. \A d \in Transfers : Offers(d)' <= 1
    BY <1>0, OffersNext DEF OrderInv
  <1>2. /\ begun \in Nat /\ begun' = begun + 1 /\ begun < MaxTransfers
        /\ UNCHANGED <<get, entry, sess, writers>>
    BY Numbers DEF BeginUpload, BeginDownload, Begin, TypeInv, DeviceType, server
  <1>3. /\ source.no \in Nat /\ source.sent \in Nat /\ Size \in Nat /\ entry \in Nat
        /\ entry <= begun /\ source.no <= begun /\ source.sent <= Size
        /\ Ordered(toBroker) /\ Until(toBroker, begun)
        /\ source.no # None => Until(toBroker, source.no)
        /\ sess => Followed(toBroker, entry)
        /\ sess /\ source.no # None => Known(toBroker, entry, source.no, Len(toBroker))
        /\ \A w \in writers : w.pipe = w.no
    BY Numbers DEF OrderInv, TypeInv, DeviceType, ServerType
  <1>4. \A n \in Transfers : /\ get'[n].no <= begun'
                             /\ get'[n].at \in {"idle", "asked"} => get'[n].no = None /\ get'[n].got = <<>>
    <2>1. \A n \in Transfers : get[n].no \in Nat
      BY Numbers DEF TypeInv, ServerType
    <2>2. \A n \in Transfers : /\ get[n].no <= begun
                               /\ get[n].at \in {"idle", "asked"} => get[n].no = None /\ get[n].got = <<>>
      BY DEF OrderInv
    <2> QED
      BY <1>2, <2>1, <2>2
  <1>5. toBroker \in Seq(Sound)
    BY DEF TypeInv, QueuesType
  <1>6. \A i \in 1..Len(toBroker) : toBroker[i].no \in Nat
    <2>1. \A i \in 1..Len(toBroker) : toBroker[i] \in Sound
      BY <1>5, ElementOfSeq
    <2> QED
      BY <2>1, MsgSound, Numbers
  <1>7. Until(toBroker, begun + 1) /\ \A i \in 1..Len(toBroker) : toBroker[i].t \in Down => toBroker[i].no < begun + 1
    BY <1>2, <1>3, <1>6 DEF Until
  <1>8. CASE BeginUpload
    <2>1. PICK m \in Sound : m = Msg("recv", begun + 1, 0)
      BY <1>2, NewMsg, Numbers
    <2>2. m.t = "recv" /\ m.t \notin Down /\ m.t # "send" /\ m.t # "data"
      BY <2>1, NewMsg DEF Down
    <2>3. toBroker' = Append(toBroker, m) /\ UNCHANGED source
      BY <1>8, <2>1 DEF BeginUpload, Begin
    <2>4. /\ Ordered(toBroker') /\ Until(toBroker', begun + 1)
          /\ source.no # None => Until(toBroker', source.no)
          /\ sess => Followed(toBroker', entry)
          /\ sess /\ source.no # None => Known(toBroker', entry, source.no, Len(toBroker'))
      <3>1. Ordered(Append(toBroker, m))
        BY <1>3, <1>5, <2>2, OrderMore
      <3>2. Until(Append(toBroker, m), begun + 1) /\ (source.no # None => Until(Append(toBroker, m), source.no))
        BY <1>2, <1>3, <1>5, <1>7, <2>2, OrderMore
      <3>3. PICK e : e = entry
        OBVIOUS
      <3>4. /\ sess => Followed(Append(toBroker, m), e)
            /\ sess /\ source.no # None => Known(Append(toBroker, m), e, source.no, Len(Append(toBroker, m)))
        BY <1>3, <1>5, <2>2, <3>3, OrderMore
      <3> QED
        BY <2>3, <3>1, <3>2, <3>3, <3>4
    <2> QED
      BY <1>1, <1>2, <1>3, <1>4, <2>3, <2>4 DEF OrderInv
  <1>9. CASE BeginDownload
    <2>1. PICK m \in Sound : m = Msg("send", begun + 1, 0)
      BY <1>2, NewMsg, Numbers
    <2>2. m.t = "send" /\ m.no = begun + 1 /\ m.t # "data"
      BY <2>1, NewMsg
    <2>3. toBroker' = Append(toBroker, m) /\ source'.no = begun + 1 /\ source'.sent = 0
      BY <1>9, <2>1 DEF BeginDownload, Begin
    <2>4. /\ Ordered(toBroker') /\ Until(toBroker', begun + 1)
          /\ sess => Followed(toBroker', entry)
          /\ Known(toBroker', entry, m.no, Len(toBroker'))
      <3>1. Ordered(Append(toBroker, m))
        BY <1>3, <1>5, <1>7, <2>2, OrderMore
      <3>2. Until(Append(toBroker, m), begun + 1)
        <4>1. begun + 1 \in Nat /\ m.no <= begun + 1
          BY <1>2, <2>2
        <4> QED
          BY <1>5, <1>7, <4>1, OrderMore
      <3>3. PICK e : e = entry
        OBVIOUS
      <3>4. /\ sess => Followed(Append(toBroker, m), e)
            /\ Known(Append(toBroker, m), e, m.no, Len(Append(toBroker, m)))
        BY <1>3, <1>5, <2>2, <3>3, OrderMore
      <3> QED
        BY <2>3, <3>1, <3>2, <3>3, <3>4
    <2> QED
      BY <1>1, <1>2, <1>3, <1>4, <2>2, <2>3, <2>4 DEF OrderInv
  <1> QED
    BY <1>8, <1>9

LEMMA OrderDevice == TypeInv /\ OrderInv /\ DeviceReads => OrderInv'
  <1> SUFFICES ASSUME TypeInv, OrderInv, DeviceReads PROVE OrderInv'
    OBVIOUS
  <1>0. [Next]_vars
    BY DEF Next, Device
  <1>1. \A w \in writers : w.pipe = w.no
    BY DEF OrderInv
  <1>2. UNCHANGED <<begun, sess, entry, writers, get>>
    BY DEF DeviceReads, server
  <1>3. CASE UNCHANGED toBroker /\ source' \in {source, Idle}
    BY <1>0, <1>1, <1>2, <1>3, OrderKept
  <1>4. ASSUME source.no # None,
               toBroker' = Append(toBroker, Msg("data", source.no, IF source.sent + 1 > Size THEN 0 ELSE source.sent + 1)),
               source' = IF source.sent + 1 > Size THEN Idle ELSE [source EXCEPT !.sent = source.sent + 1]
        PROVE  OrderInv'
    <2>1. /\ source \in [no : 0..MaxTransfers, sent : 0..(Size + 1)] /\ begun \in Nat
          /\ source.no \in Nat /\ source.sent \in Nat /\ Size \in Nat
          /\ entry <= begun /\ source.no <= begun /\ source.sent <= Size
          /\ Ordered(toBroker) /\ Until(toBroker, begun) /\ Until(toBroker, source.no)
          /\ sess => Followed(toBroker, entry) /\ Known(toBroker, entry, source.no, Len(toBroker))
      BY <1>4, Numbers DEF OrderInv, TypeInv, DeviceType
    <2>2. PICK k \in 0..Size : k = IF source.sent + 1 > Size THEN 0 ELSE source.sent + 1
      BY <2>1
    <2>3. PICK m \in Sound : m = Msg("data", source.no, k)
      BY <1>4, <2>1, <2>2, NewMsg
    <2>4. m.t = "data" /\ m.no = source.no /\ m.t # "send"
      BY <2>3, NewMsg
    <2>5. toBroker \in Seq(Sound) /\ toBroker' = Append(toBroker, m)
      BY <1>4, <2>2, <2>3 DEF TypeInv, QueuesType
    <2>6. /\ Ordered(toBroker') /\ Until(toBroker', begun) /\ Until(toBroker', source.no)
          /\ sess => Followed(toBroker', entry) /\ Known(toBroker', entry, source.no, Len(toBroker'))
      <3>1. Ordered(Append(toBroker, m))
        BY <2>1, <2>4, <2>5, OrderMore
      <3>2. Until(Append(toBroker, m), begun) /\ Until(Append(toBroker, m), source.no)
        <4>1. m.no <= begun /\ m.no <= source.no
          BY <2>1, <2>4
        <4> QED
          BY <2>1, <2>5, <4>1, OrderMore
      <3>3. PICK e : e = entry
        OBVIOUS
      <3>4. sess => /\ Followed(Append(toBroker, m), e)
                    /\ Known(Append(toBroker, m), e, source.no, Len(Append(toBroker, m)))
        BY <2>1, <2>4, <2>5, <3>3, OrderMore
      <3> QED
        BY <2>5, <3>1, <3>2, <3>3, <3>4
    <2>7. source'.no \in {None, source.no} /\ source'.sent <= Size /\ source'.no <= begun
      BY <1>4, <2>1 DEF Idle, None
    <2>8. \A d \in Transfers : Offers(d)' <= 1
      BY <1>0, OffersNext DEF OrderInv
    <2>9. \A n \in Transfers : /\ get'[n].no <= begun'
                               /\ get'[n].at \in {"idle", "asked"} => get'[n].no = None /\ get'[n].got = <<>>
      BY <1>0, <1>2, GetOrder
    <2> QED
      BY <1>1, <1>2, <2>1, <2>6, <2>7, <2>8, <2>9 DEF OrderInv
  <1> QED
    BY <1>3, <1>4 DEF DeviceReads, NextPiece

LEMMA OrderBroker == TypeInv /\ OrderInv /\ BrokerFileMessage => OrderInv'
  <1> SUFFICES ASSUME TypeInv, OrderInv, BrokerFileMessage PROVE OrderInv'
    OBVIOUS
  <1>0. [Next]_vars
    BY DEF Next
  <1>1. /\ toBroker # <<>> /\ toBroker' = Tail(toBroker) /\ UNCHANGED <<sess, begun, source>>
        /\ toBroker \in Seq(Sound)
    BY DEF BrokerFileMessage, device, TypeInv, QueuesType
  <1>2. PICK m \in Sound : m = Head(toBroker)
    BY <1>1, HeadTailProperties
  <1>3. m.t \in {"send", "recv", "info", "data", "ack", "abort"} /\ m.no \in Nat
    BY MsgSound, Numbers
  <1>4. /\ source.no \in Nat /\ begun \in Nat
        /\ entry <= begun /\ source.no <= begun /\ source.sent <= Size
        /\ Ordered(toBroker) /\ Until(toBroker, begun)
        /\ source.no # None => Until(toBroker, source.no)
        /\ sess => Followed(toBroker, entry)
        /\ sess /\ source.no # None => Known(toBroker, entry, source.no, Len(toBroker))
        /\ \A w \in writers : w.pipe = w.no
    BY Numbers DEF OrderInv, TypeInv, DeviceType
  <1>5. PICK f : f = IF Head(toBroker).t = "send" THEN Head(toBroker).no ELSE entry
    OBVIOUS
  <1>6. PICK e : e = entry
    OBVIOUS
  <1>7. /\ Ordered(toBroker') /\ Until(toBroker', begun')
        /\ source'.no # None => Until(toBroker', source'.no)
        /\ sess => Followed(toBroker', f)
        /\ sess /\ source'.no # None => Known(toBroker', f, source'.no, Len(toBroker'))
        /\ m.t = "send" => m.no <= begun
        /\ sess /\ m.t = "data" => e \in {None, m.no}
    <2>1. f = IF Head(toBroker).t = "send" THEN Head(toBroker).no ELSE e
      BY <1>5, <1>6
    <2> QED
      BY <1>1, <1>2, <1>4, <1>6, <2>1, OrderLess DEF Down
  <1>8. sess => entry' = f /\ entry' <= begun
    BY <1>2, <1>4, <1>5, <1>7 DEF BrokerFileMessage, FileMessage
  <1>9. ~sess => entry' = entry
    BY DEF BrokerFileMessage
  <1>10. \A w \in writers' : w.pipe = w.no
    <2>1. CASE sess /\ m.t = "data"
      <3>1. Pipe \subseteq {m.no}
        BY <1>6, <1>7, <2>1 DEF Pipe
      <3>2. \/ writers' = writers
            \/ writers' = writers \cup {[pipe |-> p, no |-> m.no, piece |-> m.piece] : p \in Pipe}
        BY <1>2, <2>1 DEF BrokerFileMessage, FileMessage, ToPipe
      <3> QED
        BY <1>4, <3>1, <3>2
    <2>2. CASE ~(sess /\ m.t = "data")
      BY <1>2, <1>4, <2>2 DEF BrokerFileMessage, FileMessage
    <2> QED
      BY <2>1, <2>2
  <1>11. \A d \in Transfers : Offers(d)' <= 1
    BY <1>0, OffersNext DEF OrderInv
  <1>12. \A n \in Transfers : /\ get'[n].no <= begun'
                              /\ get'[n].at \in {"idle", "asked"} => get'[n].no = None /\ get'[n].got = <<>>
    BY <1>0, <1>1, GetOrder
  <1> QED
    BY <1>1, <1>4, <1>7, <1>8, <1>9, <1>10, <1>11, <1>12 DEF OrderInv

LEMMA OrderNext == TypeInv /\ OrderInv /\ [Next]_vars => OrderInv'
  <1> SUFFICES ASSUME TypeInv, OrderInv, [Next]_vars PROVE OrderInv'
    OBVIOUS
  <1>1. CASE BeginUpload \/ BeginDownload \/ DeviceReads \/ BrokerFileMessage
    BY <1>1, OrderBegun, OrderDevice, OrderBroker
  <1>2. CASE ~(BeginUpload \/ BeginDownload \/ DeviceReads \/ BrokerFileMessage)
    <2>1. /\ begun' = begun /\ sess' \in {sess, FALSE} /\ entry' \in {entry, None} /\ source' \in {source, Idle}
          /\ writers' \subseteq writers
      BY <1>2 DEF Next, Device, Program, Page, StopDownload, PageReads, SendPiece,
           CancelUpload, ChooseFile, PageSends, BrokerUserMessage, EndSession, GetLoads, GetReads, GetBreaks,
           GetEnds, Reads, WriterFails, HandleInfo, HandleLookup, HandleWrite, HandleEnd, HandleAbort,
           vars, device, server
    <2>2. \/ toBroker' = toBroker
          \/ \E m \in Sound : toBroker' = Append(toBroker, m) /\ m.t \notin Down
      BY <1>2, Posted, NewMsg DEF Down
    <2>3. \A w \in writers' : w.pipe = w.no
      BY <2>1 DEF OrderInv
    <2> QED
      BY <2>1, <2>2, <2>3, OrderKept
  <1> QED
    BY <1>1, <1>2

\* The next piece keeps a file in order.
LEMMA InOrderMore ==
    ASSUME NEW q \in Seq(Pieces), NEW n, NEW x \in Pieces, InOrder(q, n), x = [no |-> n, piece |-> Len(q) + 1]
    PROVE  /\ InOrder(Append(q, x), n)
           /\ Len(Append(q, x)) = Len(q) + 1 /\ Len(q) \in Nat
  <1>1. /\ Len(Append(q, x)) = Len(q) + 1 /\ Len(q) \in Nat
        /\ \A i \in 1..Len(q) : Append(q, x)[i] = q[i]
        /\ Append(q, x)[Len(q) + 1] = x
    BY AppendProperties, LenProperties
  <1> SUFFICES ASSUME NEW i \in 1..Len(Append(q, x)) PROVE Append(q, x)[i] = [no |-> n, piece |-> i]
    BY <1>1 DEF InOrder
  <1>2. CASE i \in 1..Len(q)
    BY <1>1, <1>2 DEF InOrder
  <1>3. CASE i = Len(q) + 1
    BY <1>1, <1>3
  <1> QED
    BY <1>1, <1>2, <1>3

-----------------------------------------------------------------------------
(* A download that shares no acknowledgement has one piece under way: an   *)
(* acknowledgement asks for it, the device sends it, and a goroutine       *)
(* writes it, until the request for the download reads it.                 *)

AckOf(d) == {m \in Msgs : m.t = "ack" /\ m.no = d}
DataOf(d) == {m \in Msgs : m.t = "data" /\ m.no = d}
WritersOf(d) == [pipe : {d}, no : Transfers, piece : 1..Size]
Asked(d) == InFlight(AckOf(d))
Tokens(d) == Asked(d) + Count(toBroker, DataOf(d)) + Among(writers, WritersOf(d))

\* The k-th piece is the one that follows the first l.
Follows(d, k, l) == k = l + 1 /\ (source.no = d => source.sent = k)

\* Request n reads download d, which nobody has aborted.
Going(n, d) ==
    /\ get[n].at = "ended" => d \in closed
    /\ d \in closed => Len(get[n].got) = Size
    /\ Asked(d) > 0 /\ source.no = d => source.sent = Len(get[n].got)
    /\ \A k \in 0..Size : Count(toBroker, Piece(d, k)) > 0 =>
         IF k = 0 THEN Len(get[n].got) = Size ELSE Follows(d, k, Len(get[n].got))
    /\ \A w \in writers : w.pipe = d => Follows(d, w.piece, Len(get[n].got))

Reader(n, d) ==
    /\ \A x \in Transfers : get[x].no = d => x = n
    /\ InOrder(get[n].got, d)
    /\ d \in aborted => d \in closed \/ get[n].at = "ended"
    /\ d \notin aborted => Going(n, d)

Download(d) ==
    /\ Tokens(d) <= 1
    /\ \A n \in Transfers : get[n].no = d => Reader(n, d)
    /\ (\A n \in Transfers : get[n].no # d) =>
         /\ Tokens(d) = 0
         /\ d \in closed <=> d \in aborted
         /\ source.no = d => source.sent = 0

DownloadInv == \A d \in Transfers \ shared : Download(d)

LEMMA TokenCounts == TypeInv => \A d \in Transfers :
    /\ Asked(d) \in Nat /\ Count(toBroker, DataOf(d)) \in Nat /\ Among(writers, WritersOf(d)) \in Nat
    /\ Tokens(d) = Asked(d) + Count(toBroker, DataOf(d)) + Among(writers, WritersOf(d))
    /\ \A k \in 0..Size : /\ Count(toBroker, Piece(d, k)) \in Nat
                          /\ Count(toBroker, Piece(d, k)) <= Count(toBroker, DataOf(d))
    /\ \A w \in writers : w.pipe = d => w \in WritersOf(d) /\ Among(writers, WritersOf(d)) > 0
  <1> SUFFICES ASSUME TypeInv, NEW d \in Transfers
               PROVE  /\ Asked(d) \in Nat /\ Count(toBroker, DataOf(d)) \in Nat
                      /\ Among(writers, WritersOf(d)) \in Nat
                      /\ Tokens(d) = Asked(d) + Count(toBroker, DataOf(d)) + Among(writers, WritersOf(d))
                      /\ \A k \in 0..Size : /\ Count(toBroker, Piece(d, k)) \in Nat
                                            /\ Count(toBroker, Piece(d, k)) <= Count(toBroker, DataOf(d))
                      /\ \A w \in writers : w.pipe = d => w \in WritersOf(d) /\ Among(writers, WritersOf(d)) > 0
    OBVIOUS
  <1>1. toBroker \in Seq(Sound) /\ IsFiniteSet(writers)
        /\ writers \subseteq [pipe : Transfers, no : Transfers, piece : 1..Size]
    BY DEF TypeInv, QueuesType, ServerType
  <1>2. Asked(d) \in Nat
    BY FlightCounts DEF Asked, TypeInv
  <1>3. \A S : Count(toBroker, S) \in Nat
    BY <1>1, CountType
  <1>4. \A X : Among(writers, X) \in Nat /\ (Among(writers, X) = 0 <=> writers \cap X = {})
    BY <1>1, AmongFinite
  <1>5. ASSUME NEW k \in 0..Size PROVE Count(toBroker, Piece(d, k)) <= Count(toBroker, DataOf(d))
    <2>1. Piece(d, k) \subseteq DataOf(d)
      <3>1. Msg("data", d, k) \in Sound /\ Msg("data", d, k).t = "data" /\ Msg("data", d, k).no = d
        BY NewMsg, Numbers
      <3> QED
        BY <3>1, MsgSound DEF Piece, DataOf
    <2> QED
      BY <1>1, <2>1, CountMore
  <1>6. ASSUME NEW w \in writers, w.pipe = d PROVE w \in WritersOf(d) /\ Among(writers, WritersOf(d)) > 0
    <2>1. w \in WritersOf(d)
      BY <1>1, <1>6 DEF WritersOf
    <2>2. Among(writers, WritersOf(d)) # 0 /\ Among(writers, WritersOf(d)) \in Nat
      BY <1>4, <2>1
    <2> QED
      BY <2>1, <2>2
  <1>7. Tokens(d) = Asked(d) + Count(toBroker, DataOf(d)) + Among(writers, WritersOf(d))
    BY DEF Tokens
  <1> QED
    BY <1>2, <1>3, <1>4, <1>5, <1>6, <1>7

LEMMA TokenCountsNext == (TypeInv => \A d \in Transfers :
    /\ Asked(d) \in Nat /\ Count(toBroker, DataOf(d)) \in Nat /\ Among(writers, WritersOf(d)) \in Nat
    /\ Tokens(d) = Asked(d) + Count(toBroker, DataOf(d)) + Among(writers, WritersOf(d))
    /\ \A k \in 0..Size : /\ Count(toBroker, Piece(d, k)) \in Nat
                          /\ Count(toBroker, Piece(d, k)) <= Count(toBroker, DataOf(d))
    /\ \A w \in writers : w.pipe = d => w \in WritersOf(d) /\ Among(writers, WritersOf(d)) > 0)'
  BY TokenCounts, PTL

\* The writers of a pipe are no more when none is added.
LEMMA WritersFall ==
    ASSUME TypeInv, TypeInv', NEW d \in Transfers, \A w \in writers' : w.pipe = d => w \in writers
    PROVE  Among(writers, WritersOf(d))' <= Among(writers, WritersOf(d))
  <1> DEFINE W == WritersOf(d)
  <1>1. writers' \cap W \in SUBSET (writers \cap W)
    BY DEF WritersOf
  <1>2. IsFiniteSet(writers)
    BY DEF TypeInv, ServerType
  <1>3. Among(writers, WritersOf(d))' = Among(writers', W)
    BY DEF WritersOf
  <1> HIDE DEF W
  <1>4. writers \cap W \in SUBSET writers
    OBVIOUS
  <1>5. IsFiniteSet(writers \cap W)
    BY <1>2, <1>4, FS_Subset
  <1>6. Cardinality(writers' \cap W) <= Cardinality(writers \cap W)
    BY <1>1, <1>5, FS_Subset
  <1> QED
    BY <1>3, <1>6 DEF Among, W

\* An action that neither feeds nor ends the download.
LEMMA DownloadKept ==
    ASSUME TypeInv, TypeInv', NEW d \in Transfers, Download(d),
           Asked(d)' <= Asked(d), Count(toBroker, DataOf(d))' <= Count(toBroker, DataOf(d)),
           \A k \in 0..Size : Count(toBroker, Piece(d, k))' <= Count(toBroker, Piece(d, k)),
           \A w \in writers' : w.pipe = d => w \in writers,
           source' = source \/ source'.no # d,
           d \in closed' <=> d \in closed, d \in aborted' <=> d \in aborted,
           \A n \in Transfers : get'[n].no = d \/ get[n].no = d => get'[n] = get[n]
    PROVE  Download(d)'
  <1>1. /\ Asked(d) \in Nat /\ Count(toBroker, DataOf(d)) \in Nat /\ Among(writers, WritersOf(d)) \in Nat
        /\ Tokens(d) = Asked(d) + Count(toBroker, DataOf(d)) + Among(writers, WritersOf(d))
        /\ \A k \in 0..Size : Count(toBroker, Piece(d, k)) \in Nat
    BY TokenCounts
  <1>2. /\ Asked(d)' \in Nat /\ Count(toBroker, DataOf(d))' \in Nat /\ Among(writers, WritersOf(d))' \in Nat
        /\ Tokens(d)' = Asked(d)' + Count(toBroker, DataOf(d))' + Among(writers, WritersOf(d))'
        /\ \A k \in 0..Size : Count(toBroker, Piece(d, k))' \in Nat
    BY TokenCountsNext
  <1>3. Tokens(d)' <= Tokens(d) /\ Tokens(d)' \in Nat /\ Tokens(d) \in Nat
    BY <1>1, <1>2, WritersFall
  <1>4. Tokens(d)' <= 1
    BY <1>3 DEF Download
  <1>5. ASSUME NEW n \in Transfers, get'[n].no = d PROVE Reader(n, d)'
    <2>1. get'[n] = get[n] /\ Reader(n, d)
      BY <1>5 DEF Download
    <2>2. \A x \in Transfers : get'[x].no = d => x = n
      BY <2>1 DEF Reader
    <2>3. ASSUME d \notin aborted' PROVE Going(n, d)'
      <3>1. Going(n, d)
        BY <2>1, <2>3 DEF Reader
      <3>2. Asked(d)' > 0 /\ source'.no = d => source'.sent = Len(get'[n].got)
        BY <1>1, <1>2, <2>1, <3>1 DEF Going
      <3>3. \A k, l : Follows(d, k, l) => Follows(d, k, l)'
        BY DEF Follows
      <3>4. ASSUME NEW k \in 0..Size, Count(toBroker, Piece(d, k))' > 0
            PROVE  IF k = 0 THEN Len(get'[n].got) = Size ELSE Follows(d, k, Len(get[n].got))'
        <4>1. Count(toBroker, Piece(d, k)) > 0
          BY <1>1, <1>2, <3>4
        <4>2. PICK l : l = Len(get[n].got) /\ l = Len(get'[n].got)
          BY <2>1
        <4>3. IF k = 0 THEN l = Size ELSE Follows(d, k, l)
          BY <3>1, <4>1, <4>2 DEF Going
        <4>4. k # 0 => Follows(d, k, l)'
          BY <3>3, <4>3
        <4> QED
          BY <4>2, <4>3, <4>4 DEF Follows
      <3>5. ASSUME NEW w \in writers', w.pipe = d PROVE Follows(d, w.piece, Len(get[n].got))'
        <4>2. PICK l : l = Len(get[n].got) /\ l = Len(get'[n].got)
          BY <2>1
        <4>3. Follows(d, w.piece, l)
          BY <3>1, <3>5, <4>2 DEF Going
        <4>4. Follows(d, w.piece, l)'
          BY <3>3, <4>3
        <4> QED
          BY <4>2, <4>4 DEF Follows
      <3> QED
        BY <2>1, <3>1, <3>2, <3>4, <3>5 DEF Going, Piece
    <2> QED
      BY <2>1, <2>2, <2>3 DEF Reader
  <1>6. ASSUME \A n \in Transfers : get'[n].no # d
        PROVE  Tokens(d)' = 0 /\ (d \in closed' <=> d \in aborted') /\ (source'.no = d => source'.sent = 0)
    <2>1. \A n \in Transfers : get[n].no # d
      BY <1>6
    <2> QED
      BY <1>3, <2>1 DEF Download
  <1> QED
    BY <1>4, <1>5, <1>6 DEF Download

\* The download is aborted: what was read stays in order.
LEMMA DownloadAborted ==
    ASSUME TypeInv, TypeInv', NEW d \in Transfers, Download(d), d \in aborted',
           Tokens(d)' <= Tokens(d), source' = source,
           \A n \in Transfers : get[n].no = d => get'[n].got = get[n].got,
           \A n \in Transfers : get'[n].no = get[n].no,
           d \in closed' \/ \E n \in Transfers : get[n].no = d /\ get'[n].at = "ended"
    PROVE  Download(d)'
  <1>1. Tokens(d) \in Nat /\ Tokens(d)' \in Nat
    <2>1. /\ Asked(d) \in Nat /\ Count(toBroker, DataOf(d)) \in Nat /\ Among(writers, WritersOf(d)) \in Nat
          /\ Tokens(d) = Asked(d) + Count(toBroker, DataOf(d)) + Among(writers, WritersOf(d))
      BY TokenCounts
    <2>2. /\ Asked(d)' \in Nat /\ Count(toBroker, DataOf(d))' \in Nat /\ Among(writers, WritersOf(d))' \in Nat
          /\ Tokens(d)' = Asked(d)' + Count(toBroker, DataOf(d))' + Among(writers, WritersOf(d))'
      BY TokenCountsNext
    <2> QED
      BY <2>1, <2>2
  <1>2. Tokens(d)' <= 1
    BY <1>1 DEF Download
  <1>3. ASSUME NEW n \in Transfers, get'[n].no = d PROVE Reader(n, d)'
    <2>1. get[n].no = d /\ get'[n].got = get[n].got /\ Reader(n, d)
      BY <1>3 DEF Download
    <2> QED
      BY <2>1 DEF Reader
  <1>4. ASSUME \A n \in Transfers : get'[n].no # d
        PROVE  Tokens(d)' = 0 /\ (d \in closed' <=> d \in aborted') /\ (source'.no = d => source'.sent = 0)
    BY <1>1, <1>4 DEF Download
  <1> QED
    BY <1>2, <1>3, <1>4 DEF Download

\* Only a request for a download acknowledges what it reads.
LEMMA AsksFall ==
    ASSUME TypeInv, [Next]_vars, NEW d \in Transfers,
           ~\E n \in Transfers : GetLoads(n) \/ GetReads(n) \/ GetBreaks(n) \/ GetEnds(n)
    PROVE  Asked(d)' <= Asked(d)
  <1> DEFINE S == AckOf(d)
  <1> SUFFICES InFlight(S)' <= InFlight(S)
    BY DEF Asked, AckOf
  <1>0. \A m \in S : m.t = "ack"
    BY DEF AckOf
  <1> HIDE DEF S
  <1>1. QueuesType /\ ProgramType /\ ServerType
    BY DEF TypeInv
  <1>2. \A R : InFlight(R) \in Nat
    BY <1>1, FlightCounts
  <1>3. PICK R : R = S
    OBVIOUS
  <1> SUFFICES InFlight(R)' <= InFlight(R)
    BY <1>3 DEF S, AckOf
  <1>4. UNCHANGED <<fromPage, toDevice, jobs>> => InFlight(R)' <= InFlight(R)
    <2>1. UNCHANGED <<fromPage, toDevice, jobs>> => InFlight(R)' = InFlight(R)
      BY DEF InFlight, JobsOf
    <2> QED
      BY <1>2, <2>1
  <1>5. ASSUME NEW m \in Sound, m.t # "ack", UNCHANGED jobs,
               \/ toDevice' = Append(toDevice, m) /\ UNCHANGED fromPage
               \/ fromPage' = Append(fromPage, m) /\ UNCHANGED toDevice
        PROVE  InFlight(R)' <= InFlight(R)
    <2>1. m \notin R
      BY <1>0, <1>3, <1>5
    <2>2. InFlight(R)' = InFlight(R) + (IF m \in R THEN 1 ELSE 0)
      BY <1>1, <1>5, FlightSent, FlightKept
    <2> QED
      BY <1>2, <2>1, <2>2
  <1>6. ASSUME NEW j \in jobs, jobs' = jobs \ {j}, UNCHANGED <<fromPage, toDevice>>
        PROVE  InFlight(R)' <= InFlight(R)
    <2>1. InFlight(R) = InFlight(R)' + (IF j.msg \in R THEN 1 ELSE 0) /\ InFlight(R)' \in Nat
      BY <1>1, <1>6, FlightDone
    <2> QED
      BY <2>1
  <1>7. CASE DeviceReads \/ BrokerUserMessage
    BY <1>1, <1>7, FlightTaken, FlightMoved
  <1>8. CASE CancelUpload \/ SendPiece \/ \E len \in {0, Size} : ChooseFile(len)
    <2>1. /\ UNCHANGED <<toDevice, jobs>>
          /\ \/ fromPage' = Append(fromPage, Msg("abort", page.modal, 0))
             \/ fromPage' = Append(fromPage, Msg("info", page.modal, 0))
             \/ SendPiece /\ fromPage' = Append(fromPage, Msg("data", Head(page.blob).no, Head(page.blob).piece))
      BY <1>8 DEF CancelUpload, SendPiece, ChooseFile, PageSends, program
    <2>2. \A t \in {"abort", "info"} : Msg(t, page.modal, 0) \in Sound /\ Msg(t, page.modal, 0).t # "ack"
      BY OneBlob, NewMsg, Numbers DEF TypeInv
    <2>3. SendPiece => /\ Msg("data", Head(page.blob).no, Head(page.blob).piece) \in Sound
                       /\ Msg("data", Head(page.blob).no, Head(page.blob).piece).t # "ack"
      <3> SUFFICES ASSUME SendPiece
                   PROVE  /\ Msg("data", Head(page.blob).no, Head(page.blob).piece) \in Sound
                          /\ Msg("data", Head(page.blob).no, Head(page.blob).piece).t # "ack"
        OBVIOUS
      <3>1. PICK b \in Blob : b = Head(page.blob)
        BY OneBlob DEF TypeInv, SendPiece
      <3>2. b.no \in 0..MaxTransfers /\ b.no # None /\ b.piece \in 0..Size
        BY Numbers DEF Blob
      <3> QED
        BY <3>1, <3>2, NewMsg
    <2> QED
      BY <1>5, <2>1, <2>2, <2>3
  <1>9. ASSUME NEW w \in writers, WriterFails(w) PROVE InFlight(R)' <= InFlight(R)
    <2>1. UNCHANGED <<fromPage, jobs>> /\ toDevice' = Append(toDevice, Msg("abort", w.pipe, 0))
      BY <1>9 DEF WriterFails, program
    <2>2. Msg("abort", w.pipe, 0) \in Sound /\ Msg("abort", w.pipe, 0).t = "abort"
      BY <1>1, NewMsg, Numbers DEF ServerType
    <2> QED
      BY <1>5, <2>1, <2>2
  <1>10. ASSUME NEW j \in jobs, \/ HandleInfo(j) \/ HandleLookup(j) \/ HandleWrite(j)
                                \/ HandleEnd(j) \/ HandleAbort(j)
         PROVE  InFlight(R)' <= InFlight(R)
    <2>1. /\ UNCHANGED <<fromPage, toDevice>>
          /\ \/ jobs' = jobs \ {j}
             \/ jobs' = (jobs \ {j}) \cup {[j EXCEPT !.file = target]}
      BY <1>10 DEF HandleInfo, HandleLookup, HandleWrite, HandleEnd, HandleAbort, Done
    <2>2. CASE jobs' = (jobs \ {j}) \cup {[j EXCEPT !.file = target]}
      BY <1>1, <2>1, <2>2, FlightLooked DEF ProgramType
    <2> QED
      BY <1>6, <2>1, <2>2
  <1>11. CASE BeginUpload \/ BeginDownload \/ StopDownload \/ PageReads \/ BrokerFileMessage
               \/ EndSession \/ UNCHANGED vars
    <2>1. fromPage' = fromPage /\ jobs' = jobs
      BY <1>11 DEF BeginUpload, BeginDownload, StopDownload, PageReads, BrokerFileMessage, EndSession, vars, program
    <2>2. toDevice' = toDevice
      BY <1>11 DEF BeginUpload, BeginDownload, StopDownload, PageReads, BrokerFileMessage,
                   FileMessage, ToPipe, EndSession, vars
    <2> QED
      BY <1>4, <2>1, <2>2
  <1> QED
    BY <1>7, <1>8, <1>9, <1>10, <1>11 DEF Next, Device, Page, Program

\* Only the device sends pieces of a download, of the one that goes on.
LEMMA DataFalls ==
    ASSUME TypeInv, [Next]_vars, NEW d \in Transfers,
           ~(DeviceReads /\ source.no = d /\ toBroker' # toBroker)
    PROVE  /\ Count(toBroker, DataOf(d))' <= Count(toBroker, DataOf(d))
           /\ \A k \in 0..Size : Count(toBroker, Piece(d, k))' <= Count(toBroker, Piece(d, k))
  <1>1. toBroker \in Seq(Sound)
    BY DEF TypeInv, QueuesType
  <1>2. \A S : Count(toBroker, S) \in Nat
    BY <1>1, CountType
  <1>3. CASE toBroker' = toBroker
    <2>1. \A S : Count(toBroker', S) <= Count(toBroker, S)
      BY <1>2, <1>3
    <2> QED
      BY <2>1 DEF DataOf, Piece
  <1>4. CASE BrokerFileMessage
    <2>1. toBroker # <<>> /\ toBroker' = Tail(toBroker) /\ Tail(toBroker) \in Seq(Sound)
      BY <1>1, <1>4, HeadTailProperties DEF BrokerFileMessage
    <2>2. \A S : Count(toBroker, S) = Count(toBroker', S) + (IF Head(toBroker) \in S THEN 1 ELSE 0)
      BY <1>1, <2>1, CountTail
    <2>3. \A S : Count(toBroker', S) \in Nat
      BY <2>1, CountType
    <2>4. \A S : Count(toBroker', S) <= Count(toBroker, S)
      BY <2>2, <2>3
    <2> QED
      BY <2>4 DEF DataOf, Piece
  <1>5. CASE ~BrokerFileMessage /\ toBroker' # toBroker
    <2>1. PICK m \in Sound : toBroker' = Append(toBroker, m) /\ (m.t # "data" \/ m.no # d)
      BY <1>5, Posted, NewMsg
    <2>2. \A S : Count(toBroker', S) = Count(toBroker, S) + (IF m \in S THEN 1 ELSE 0)
      BY <1>1, <2>1, CountAppend
    <2>3. m \notin DataOf(d) /\ \A k : m \notin Piece(d, k)
      BY <2>1, NewMsg DEF DataOf, Piece
    <2>4. \A S : m \notin S => Count(toBroker', S) <= Count(toBroker, S)
      BY <1>2, <2>2
    <2> QED
      BY <2>3, <2>4 DEF DataOf, Piece
  <1> QED
    BY <1>3, <1>4, <1>5

LEMMA FlightRead ==
    ASSUME QueuesType, ProgramType, DeviceReads, UNCHANGED jobs
    PROVE  \A S : InFlight(S) = InFlight(S)' + (IF Head(toDevice) \in S THEN 1 ELSE 0)
  <1>1. toDevice # <<>> /\ toDevice' = Tail(toDevice) /\ UNCHANGED fromPage
    BY DEF DeviceReads
  <1>2. \A S : Count(toDevice, S) = Count(toDevice', S) + (IF Head(toDevice) \in S THEN 1 ELSE 0)
    BY <1>1, CountTail DEF QueuesType
  <1>3. toDevice' \in Seq(Sound)
    BY <1>1, QueueSteps
  <1>4. \A S : Count(toDevice', S) \in Nat
    BY <1>3, CountType
  <1> SUFFICES ASSUME NEW S
               PROVE  InFlight(S) = InFlight(S)' + (IF Head(toDevice) \in S THEN 1 ELSE 0)
    OBVIOUS
  <1>n. /\ InFlight(S) = Count(fromPage, S) + Count(toDevice, S) + Among(jobs, JobsOf(S))
        /\ InFlight(S)' = Count(fromPage', S) + Count(toDevice', S) + Among(jobs', JobsOf(S))
        /\ Count(fromPage, S) \in Nat /\ Count(toDevice, S) \in Nat /\ Among(jobs, JobsOf(S)) \in Nat
    BY FlightCounts DEF InFlight, JobsOf
  <1>5. /\ Count(toDevice, S) = Count(toDevice', S) + (IF Head(toDevice) \in S THEN 1 ELSE 0)
        /\ Count(toDevice', S) \in Nat
        /\ Count(fromPage', S) = Count(fromPage, S) /\ Among(jobs', JobsOf(S)) = Among(jobs, JobsOf(S))
    BY <1>1, <1>2, <1>4
  <1> QED
    BY <1>5, <1>n

\* The device answers an acknowledgement of the download with its next piece, or the end.
LEMMA DownloadSent ==
    ASSUME TypeInv, OrderInv, NEW d \in Transfers, Download(d), d \notin shared',
           DeviceReads, source.no = d, toBroker' # toBroker
    PROVE  Download(d)'
  <1>0. [Next]_vars /\ TypeInv'
    <2>1. [Next]_vars
      BY DEF Next, Device
    <2> QED
      BY <2>1, TypeNext
  <1>1. /\ toDevice # <<>> /\ Head(toDevice).t = "ack" /\ UNCHANGED <<jobs, closed, writers, get, aborted>>
        /\ toBroker' = Append(toBroker, Msg("data", source.no, IF source.sent + 1 > Size THEN 0 ELSE source.sent + 1))
        /\ source' = IF source.sent + 1 > Size THEN Idle ELSE [source EXCEPT !.sent = source.sent + 1]
        /\ shared' = shared \cup ({source.no} \ {Head(toDevice).no})
    BY DEF DeviceReads, NextPiece, server
  <1>2. PICK h \in Sound : h = Head(toDevice)
    BY <1>1, QueueSteps DEF TypeInv
  <1>3. h \in AckOf(d)
    BY <1>1, <1>2, MsgSound DEF AckOf
  <1>4. Asked(d) = Asked(d)' + 1
    <2>1. \A S : InFlight(S) = InFlight(S)' + (IF h \in S THEN 1 ELSE 0)
      BY <1>1, <1>2, FlightRead DEF TypeInv
    <2>2. InFlight(AckOf(d)) = InFlight(AckOf(d))' + (IF h \in AckOf(d) THEN 1 ELSE 0)
      BY <2>1 DEF AckOf
    <2> QED
      BY <1>3, <2>2 DEF Asked
  <1>5. /\ source \in [no : 0..MaxTransfers, sent : 0..(Size + 1)] /\ source.sent <= Size
        /\ source.sent \in Nat /\ Size \in Nat /\ d # None
    BY Numbers DEF TypeInv, DeviceType, OrderInv
  <1>6. PICK k \in 0..Size : k = IF source.sent + 1 > Size THEN 0 ELSE source.sent + 1
    BY <1>5
  <1>7. PICK m \in Sound : m = Msg("data", d, k)
    BY NewMsg, Numbers
  <1>8. toBroker' = Append(toBroker, m)
    BY <1>1, <1>6, <1>7
  <1>9. /\ Asked(d) \in Nat /\ Count(toBroker, DataOf(d)) \in Nat /\ Among(writers, WritersOf(d)) \in Nat
        /\ Tokens(d) = Asked(d) + Count(toBroker, DataOf(d)) + Among(writers, WritersOf(d))
        /\ \A i \in 0..Size : /\ Count(toBroker, Piece(d, i)) \in Nat
                              /\ Count(toBroker, Piece(d, i)) <= Count(toBroker, DataOf(d))
        /\ \A w \in writers : w.pipe = d => Among(writers, WritersOf(d)) > 0
    BY TokenCounts
  <1>10. /\ Asked(d)' \in Nat
         /\ Tokens(d)' = Asked(d)' + Count(toBroker, DataOf(d))' + Among(writers, WritersOf(d))'
    BY <1>0, TokenCountsNext
  <1>11. /\ Tokens(d) = 1 /\ Asked(d) = 1 /\ Asked(d)' = 0
         /\ Count(toBroker, DataOf(d)) = 0 /\ Among(writers, WritersOf(d)) = 0
    BY <1>4, <1>9, <1>10 DEF Download
  <1>12. \A S : Count(toBroker', S) = Count(toBroker, S) + (IF m \in S THEN 1 ELSE 0)
    BY <1>8, CountAppend DEF TypeInv, QueuesType
  <1>13. Count(toBroker, DataOf(d))' = 1
    <2>1. m \in DataOf(d)
      BY <1>7, NewMsg, MsgSound DEF DataOf
    <2>2. Count(toBroker', DataOf(d)) = Count(toBroker, DataOf(d)) + (IF m \in DataOf(d) THEN 1 ELSE 0)
      BY <1>12
    <2> QED
      BY <1>11, <2>1, <2>2 DEF DataOf
  <1>14. Among(writers, WritersOf(d))' = 0
    BY <1>1, <1>11 DEF WritersOf
  <1>15. Tokens(d)' = 1
    BY <1>10, <1>11, <1>13, <1>14
  <1>16. ASSUME NEW i \in 0..Size, Count(toBroker, Piece(d, i))' > 0 PROVE i = k
    <2> SUFFICES ASSUME i # k PROVE FALSE
      OBVIOUS
    <2>1. m \notin Piece(d, i)
      BY <1>7, NewMsg DEF Piece
    <2>2. Count(toBroker', Piece(d, i)) = Count(toBroker, Piece(d, i)) + (IF m \in Piece(d, i) THEN 1 ELSE 0)
      BY <1>12
    <2>3. Count(toBroker', Piece(d, i)) = 0
      BY <1>9, <1>11, <2>1, <2>2
    <2> QED
      BY <1>16, <2>3 DEF Piece
  <1>17. ASSUME NEW n \in Transfers, get'[n].no = d PROVE Reader(n, d)'
    <2>1. get'[n] = get[n] /\ Reader(n, d)
      BY <1>1, <1>17 DEF Download
    <2>2. ASSUME d \notin aborted' PROVE Going(n, d)'
      <3>1. Going(n, d)
        BY <1>1, <2>1, <2>2 DEF Reader
      <3>2. source.sent = Len(get[n].got)
        BY <1>11, <3>1 DEF Going
      <3>3. k = 0 => Len(get'[n].got) = Size
        BY <1>5, <1>6, <2>1, <3>2
      <3>4. k # 0 => k = Len(get'[n].got) + 1 /\ source'.sent = k
        BY <1>1, <1>5, <1>6, <2>1, <3>2
      <3>5. \A w \in writers' : w.pipe # d
        BY <1>1, <1>9, <1>11
      <3>6. /\ get'[n].at = "ended" => d \in closed'
            /\ d \in closed' => Len(get'[n].got) = Size
        BY <1>1, <2>1, <3>1 DEF Going
      <3>7. ASSUME NEW i \in 0..Size, Count(toBroker, Piece(d, i))' > 0
            PROVE  (IF i = 0 THEN Len(get[n].got) = Size ELSE Follows(d, i, Len(get[n].got)))'
        BY <1>16, <3>3, <3>4, <3>7 DEF Follows
      <3> QED
        BY <1>11, <3>5, <3>6, <3>7 DEF Going
    <2> QED
      BY <1>1, <2>1, <2>2 DEF Reader
  <1>18. ASSUME \A n \in Transfers : get'[n].no # d PROVE FALSE
    BY <1>1, <1>11, <1>18 DEF Download
  <1> QED
    BY <1>15, <1>17, <1>18 DEF Download

\* The broker gets a piece of the download, or its end.
LEMMA DownloadWritten ==
    ASSUME TypeInv, NEW d \in Transfers, Download(d), BrokerFileMessage, sess, entry = d,
           Head(toBroker).t = "data", Head(toBroker).no = d
    PROVE  Download(d)'
  <1>0. [Next]_vars /\ TypeInv'
    <2>1. [Next]_vars
      BY DEF Next
    <2> QED
      BY <2>1, TypeNext
  <1>1. /\ toBroker # <<>> /\ toBroker' = Tail(toBroker) /\ toBroker \in Seq(Sound) /\ Tail(toBroker) \in Seq(Sound)
        /\ UNCHANGED <<jobs, fromPage, get, source, aborted>>
        /\ ToPipe(Head(toBroker))
    BY QueueSteps DEF BrokerFileMessage, FileMessage, program, device, TypeInv, QueuesType
  <1>2. PICK m \in Sound : m = Head(toBroker)
    BY <1>1, QueueSteps DEF TypeInv
  <1>3. PICK k \in 0..Size : k = m.piece /\ m = Msg("data", d, k)
    BY <1>2, MsgSound
  <1>4. Pipe = {d} /\ UNCHANGED toDevice
    BY <1>1, Numbers DEF Pipe, ToPipe
  <1>5. /\ Asked(d) \in Nat /\ Count(toBroker, DataOf(d)) \in Nat /\ Among(writers, WritersOf(d)) \in Nat
        /\ Tokens(d) = Asked(d) + Count(toBroker, DataOf(d)) + Among(writers, WritersOf(d))
        /\ \A w \in writers : w.pipe = d => Among(writers, WritersOf(d)) > 0
    BY TokenCounts
  <1>6. /\ Count(toBroker, DataOf(d))' \in Nat /\ Among(writers, WritersOf(d))' \in Nat
        /\ Tokens(d)' = Asked(d)' + Count(toBroker, DataOf(d))' + Among(writers, WritersOf(d))'
        /\ \A i \in 0..Size : /\ Count(toBroker, Piece(d, i))' \in Nat
                              /\ Count(toBroker, Piece(d, i))' <= Count(toBroker, DataOf(d))'
    BY <1>0, TokenCountsNext
  <1>7. Asked(d)' = Asked(d)
    BY <1>1, <1>4 DEF Asked, InFlight, JobsOf, AckOf
  <1>8. \A S : Count(toBroker, S) = Count(toBroker', S) + (IF m \in S THEN 1 ELSE 0)
    BY <1>1, <1>2, CountTail
  <1>9. Count(toBroker, DataOf(d)) = Count(toBroker, DataOf(d))' + 1
    <2>1. m \in DataOf(d)
      BY <1>2, MsgSound DEF DataOf
    <2>2. Count(toBroker, DataOf(d)) = Count(toBroker', DataOf(d)) + (IF m \in DataOf(d) THEN 1 ELSE 0)
      BY <1>8
    <2> QED
      BY <2>1, <2>2 DEF DataOf
  <1>10. /\ Tokens(d) = 1 /\ Asked(d) = 0 /\ Count(toBroker, DataOf(d))' = 0 /\ Among(writers, WritersOf(d)) = 0
    BY <1>5, <1>6, <1>9 DEF Download
  <1>11. Count(toBroker, Piece(d, k)) > 0
    <2>1. m \in Piece(d, k)
      BY <1>3 DEF Piece
    <2>2. Count(toBroker, Piece(d, k)) = Count(toBroker', Piece(d, k)) + (IF m \in Piece(d, k) THEN 1 ELSE 0)
      BY <1>8
    <2>3. Count(toBroker', Piece(d, k)) \in Nat
      BY <1>1, CountType
    <2> QED
      BY <2>1, <2>2, <2>3
  <1>12. \A n \in Transfers : get[n].no = d => Reader(n, d)
    BY DEF Download
  <1>13. ASSUME \A n \in Transfers : get'[n].no # d PROVE FALSE
    BY <1>1, <1>10, <1>13 DEF Download
  <1>14. \A i \in 0..Size : Count(toBroker, Piece(d, i))' = 0
    BY <1>6, <1>10
  <1>15. \A w \in writers : w.pipe # d
    BY <1>5, <1>10
  <1>16. CASE k = 0
    <2>1. closed' = closed \cup {d} /\ UNCHANGED writers
      BY <1>1, <1>2, <1>3, <1>4, <1>16 DEF ToPipe
    <2>2. Tokens(d)' <= 1
      <3>1. Among(writers, WritersOf(d))' = 0
        BY <1>10, <2>1 DEF WritersOf
      <3> QED
        BY <1>6, <1>7, <1>10, <3>1
    <2>3. ASSUME NEW n \in Transfers, get'[n].no = d PROVE Reader(n, d)'
      <3>1. get'[n] = get[n] /\ Reader(n, d)
        BY <1>1, <1>12, <2>3
      <3>2. d \notin aborted => Len(get[n].got) = Size
        BY <1>11, <1>16, <3>1 DEF Reader, Going
      <3>3. d \notin aborted' => Going(n, d)'
        BY <1>1, <1>7, <1>10, <1>14, <1>15, <2>1, <3>1, <3>2 DEF Going
      <3> QED
        BY <1>1, <2>1, <3>1, <3>3 DEF Reader
    <2> QED
      BY <1>13, <2>2, <2>3 DEF Download
  <1>17. CASE k # 0
    <2> DEFINE w == [pipe |-> d, no |-> m.no, piece |-> m.piece]
    <2>1. writers' = writers \cup {w} /\ UNCHANGED closed
      BY <1>1, <1>2, <1>3, <1>4, <1>17 DEF ToPipe
    <2>2. w.pipe = d /\ w.piece = k
      BY <1>3
    <2>3. Tokens(d)' <= 1
      <3> HIDE DEF w
      <3>1. Among(writers \cup {w}, WritersOf(d)) <= Among(writers, WritersOf(d)) + (IF w \in WritersOf(d) THEN 1 ELSE 0)
        BY AmongAdded DEF TypeInv, ServerType
      <3>2. Among(writers, WritersOf(d))' = Among(writers \cup {w}, WritersOf(d))
        BY <2>1 DEF WritersOf
      <3>3. Among(writers, WritersOf(d))' <= 1
        BY <1>6, <1>10, <3>1, <3>2
      <3> QED
        BY <1>6, <1>7, <1>10, <3>3
    <2> HIDE DEF w
    <2>4. ASSUME NEW n \in Transfers, get'[n].no = d PROVE Reader(n, d)'
      <3>1. get'[n] = get[n] /\ Reader(n, d)
        BY <1>1, <1>12, <2>4
      <3>2. d \notin aborted => Follows(d, k, Len(get[n].got))
        BY <1>11, <1>17, <3>1 DEF Reader, Going
      <3>3. d \notin aborted => Follows(d, k, Len(get[n].got))'
        BY <1>1, <3>1, <3>2 DEF Follows
      <3>4. ASSUME NEW v \in writers', v.pipe = d PROVE v.piece = k
        BY <1>15, <2>1, <2>2, <3>4
      <3>5. d \notin aborted' => Going(n, d)'
        BY <1>1, <1>7, <1>10, <1>14, <2>1, <3>1, <3>3, <3>4 DEF Reader, Going
      <3> QED
        BY <1>1, <2>1, <3>1, <3>5 DEF Reader
    <2> QED
      BY <1>13, <2>3, <2>4 DEF Download
  <1> QED
    BY <1>16, <1>17

\* A request for the download acknowledges what it asks for, or has read.
LEMMA AskedMore ==
    ASSUME TypeInv, NEW d \in Transfers, toDevice' = Append(toDevice, Msg("ack", d, 0)), UNCHANGED <<fromPage, jobs>>
    PROVE  Asked(d)' = Asked(d) + 1
  <1>1. PICK m \in Sound : m = Msg("ack", d, 0)
    BY NewMsg, Numbers
  <1>2. m \in AckOf(d)
    BY <1>1, NewMsg, MsgSound DEF AckOf
  <1>3. \A S : InFlight(S)' = InFlight(S) + (IF m \in S THEN 1 ELSE 0)
    BY <1>1, FlightKept DEF TypeInv
  <1>4. InFlight(AckOf(d))' = InFlight(AckOf(d)) + (IF m \in AckOf(d) THEN 1 ELSE 0)
    BY <1>3 DEF AckOf
  <1> QED
    BY <1>2, <1>4 DEF Asked

LEMMA AskedSame ==
    ASSUME TypeInv, NEW d \in Transfers, NEW p \in 0..MaxTransfers, p # d,
           toDevice' = Append(toDevice, Msg("ack", p, 0)), UNCHANGED <<fromPage, jobs>>
    PROVE  Asked(d)' <= Asked(d)
  <1>1. PICK m \in Sound : m = Msg("ack", p, 0)
    BY NewMsg, Numbers
  <1>2. m \notin AckOf(d)
    BY <1>1, NewMsg DEF AckOf
  <1>3. \A S : InFlight(S)' = InFlight(S) + (IF m \in S THEN 1 ELSE 0) /\ InFlight(S) \in Nat
    BY <1>1, FlightKept, FlightCounts DEF TypeInv
  <1>4. /\ InFlight(AckOf(d))' = InFlight(AckOf(d)) + (IF m \in AckOf(d) THEN 1 ELSE 0)
        /\ InFlight(AckOf(d)) \in Nat
    BY <1>3 DEF AckOf
  <1> QED
    BY <1>2, <1>4 DEF Asked

\* The request for the download finds its pipe.
LEMMA DownloadLoaded ==
    ASSUME TypeInv, OrderInv, NEW d \in Transfers, Download(d), d \notin shared',
           NEW n \in Transfers, GetLoads(n), entry = d, sess
    PROVE  Download(d)'
  <1>0. [Next]_vars /\ TypeInv'
    <2>1. [Next]_vars
      BY DEF Next
    <2> QED
      BY <2>1, TypeNext
  <1>1. Pipe = {d}
    BY Numbers DEF Pipe
  <1>2. /\ get[n].at = "asked" /\ get' = [get EXCEPT ![n].at = "reading", ![n].no = d]
        /\ toDevice' = Append(toDevice, Msg("ack", d, 0))
        /\ shared' = shared \cup IF \E g \in Transfers : get[g].no = d THEN {d} ELSE {}
        /\ UNCHANGED <<closed, writers, source, aborted, jobs, fromPage, toBroker>>
    BY <1>1 DEF GetLoads, device, program
  <1>3. \A x \in Transfers : get[x].no # d
    BY <1>2
  <1>4. Tokens(d) = 0 /\ (d \in closed <=> d \in aborted) /\ (source.no = d => source.sent = 0)
    BY <1>3 DEF Download
  <1>5. /\ Asked(d) \in Nat /\ Count(toBroker, DataOf(d)) \in Nat /\ Among(writers, WritersOf(d)) \in Nat
        /\ Tokens(d) = Asked(d) + Count(toBroker, DataOf(d)) + Among(writers, WritersOf(d))
        /\ \A w \in writers : w.pipe = d => Among(writers, WritersOf(d)) > 0
    BY TokenCounts
  <1>6. Asked(d) = 0 /\ Count(toBroker, DataOf(d)) = 0 /\ Among(writers, WritersOf(d)) = 0
    BY <1>4, <1>5
  <1>7. Asked(d)' = 1
    BY <1>2, <1>6, AskedMore
  <1>8. Count(toBroker, DataOf(d))' = 0 /\ Among(writers, WritersOf(d))' = 0
    BY <1>2, <1>6 DEF DataOf, WritersOf
  <1>9. /\ Tokens(d)' = Asked(d)' + Count(toBroker, DataOf(d))' + Among(writers, WritersOf(d))'
        /\ \A k \in 0..Size : /\ Count(toBroker, Piece(d, k))' \in Nat
                              /\ Count(toBroker, Piece(d, k))' <= Count(toBroker, DataOf(d))'
    BY <1>0, TokenCountsNext
  <1>10. /\ get'[n].at = "reading" /\ get'[n].no = d /\ get'[n].got = <<>>
         /\ \A x \in Transfers : x # n => get'[x] = get[x]
    <2>1. get[n].got = <<>>
      BY <1>2 DEF OrderInv
    <2> QED
      BY <1>2, <2>1 DEF TypeInv, ServerType
  <1>11. Reader(n, d)'
    <2>1. \A x \in Transfers : get'[x].no = d => x = n
      BY <1>3, <1>10
    <2>2. InOrder(get'[n].got, d) /\ Len(get'[n].got) = 0
      BY <1>10, EmptySeq DEF InOrder
    <2>3. d \in aborted' => d \in closed'
      BY <1>2, <1>4
    <2>4. ASSUME d \notin aborted' PROVE Going(n, d)'
      <3>1. d \notin closed' /\ get'[n].at # "ended"
        BY <1>2, <1>4, <1>10, <2>4
      <3>2. source'.no = d => source'.sent = Len(get'[n].got)
        BY <1>2, <1>4, <2>2
      <3>3. \A k \in 0..Size : ~(Count(toBroker, Piece(d, k))' > 0)
        BY <1>8, <1>9
      <3>4. \A w \in writers' : w.pipe # d
        BY <1>2, <1>5, <1>6
      <3> QED
        BY <3>1, <3>2, <3>3, <3>4 DEF Going, Piece
    <2> QED
      BY <2>1, <2>2, <2>3, <2>4 DEF Reader
  <1>12. Tokens(d)' <= 1
    BY <1>7, <1>8, <1>9
  <1>13. \A x \in Transfers : get'[x].no = d => x = n
    BY <1>3, <1>10
  <1>14. ASSUME NEW x \in Transfers, get'[x].no = d PROVE Reader(x, d)'
    <2>1. x = n
      BY <1>13, <1>14
    <2> QED
      BY <1>11, <2>1
  <1> QED
    BY <1>10, <1>12, <1>14 DEF Download

\* What both ways to end a read do to the token.
LEMMA TokenRead ==
    ASSUME TypeInv, TypeInv', NEW d \in Transfers, Download(d), NEW w \in writers, w.pipe = d,
           writers' = writers \ {w}, toDevice' = Append(toDevice, Msg("ack", d, 0)),
           UNCHANGED <<fromPage, jobs, toBroker>>
    PROVE  /\ Tokens(d)' = 1 /\ Tokens(d) = 1 /\ Asked(d)' = 1
           /\ \A k \in 0..Size : Count(toBroker, Piece(d, k))' = 0
           /\ \A v \in writers' : v.pipe # d
  <1>1. /\ Asked(d) \in Nat /\ Count(toBroker, DataOf(d)) \in Nat /\ Among(writers, WritersOf(d)) \in Nat
        /\ Tokens(d) = Asked(d) + Count(toBroker, DataOf(d)) + Among(writers, WritersOf(d))
        /\ \A v \in writers : v.pipe = d => v \in WritersOf(d) /\ Among(writers, WritersOf(d)) > 0
    BY TokenCounts
  <1>2. Tokens(d) = 1 /\ Asked(d) = 0 /\ Count(toBroker, DataOf(d)) = 0 /\ Among(writers, WritersOf(d)) = 1
    BY <1>1 DEF Download
  <1>3. Asked(d)' = 1
    BY <1>2, AskedMore
  <1>4. Among(writers, WritersOf(d))' = 0
    <2>1. Among(writers, WritersOf(d)) = Among(writers \ {w}, WritersOf(d)) + (IF w \in WritersOf(d) THEN 1 ELSE 0)
      <3>1. IsFiniteSet(writers)
        BY DEF TypeInv, ServerType
      <3>2. \A X : Among(writers, X) = Among(writers \ {w}, X) + (IF w \in X THEN 1 ELSE 0)
        BY <3>1, AmongRemoved
      <3> QED
        BY <3>2
    <2>2. Among(writers, WritersOf(d))' = Among(writers \ {w}, WritersOf(d))
      BY DEF WritersOf
    <2>3. Among(writers, WritersOf(d))' \in Nat
      BY TokenCountsNext
    <2> QED
      BY <1>1, <1>2, <2>1, <2>2, <2>3
  <1>5. Count(toBroker, DataOf(d))' = 0
    BY <1>2 DEF DataOf
  <1>6. /\ Tokens(d)' = Asked(d)' + Count(toBroker, DataOf(d))' + Among(writers, WritersOf(d))'
        /\ \A k \in 0..Size : /\ Count(toBroker, Piece(d, k))' \in Nat
                              /\ Count(toBroker, Piece(d, k))' <= Count(toBroker, DataOf(d))'
        /\ \A v \in writers' : v.pipe = d => Among(writers, WritersOf(d))' > 0
    BY TokenCountsNext
  <1>7. \A k \in 0..Size : Count(toBroker, Piece(d, k))' = 0
    BY <1>5, <1>6
  <1>8. ASSUME NEW v \in writers', v.pipe = d PROVE FALSE
    <2>1. Among(writers, WritersOf(d))' > 0
      BY <1>6, <1>8
    <2> QED
      BY <1>4, <2>1
  <1> QED
    BY <1>2, <1>3, <1>4, <1>5, <1>6, <1>7, <1>8

\* The request reads a piece of the download.
LEMMA DownloadRead ==
    ASSUME TypeInv, OrderInv, NEW d \in Transfers, Download(d), NEW n \in Transfers, GetReads(n), get[n].no = d
    PROVE  Download(d)'
  <1>0. [Next]_vars /\ TypeInv'
    <2>1. [Next]_vars
      BY DEF Next
    <2> QED
      BY <2>1, TypeNext
  <1>1. PICK w \in writers :
          /\ get[n].at = "reading" /\ d \notin closed /\ w.pipe = d
          /\ writers' = writers \ {w} /\ toDevice' = Append(toDevice, Msg("ack", d, 0))
          /\ get' = [get EXCEPT ![n].got = Append(@, [no |-> w.no, piece |-> w.piece])]
    BY DEF GetReads, Reads, Ack
  <1>2. UNCHANGED <<closed, source, aborted, jobs, fromPage, toBroker>>
    BY DEF GetReads, device, program, history
  <1>3. /\ Tokens(d)' = 1 /\ Tokens(d) = 1 /\ Asked(d)' = 1
        /\ \A k \in 0..Size : Count(toBroker, Piece(d, k))' = 0
        /\ \A v \in writers' : v.pipe # d
    BY <1>0, <1>1, <1>2, TokenRead
  <1>4. Reader(n, d) /\ d \notin aborted
    BY <1>1 DEF Download, Reader
  <1>5. Follows(d, w.piece, Len(get[n].got)) /\ InOrder(get[n].got, d) /\ w.no = d
    BY <1>1, <1>4 DEF Reader, Going, OrderInv
  <1> DEFINE x == [no |-> w.no, piece |-> w.piece]
  <1>6. x \in Pieces /\ get[n].got \in Seq(Pieces)
    BY DEF TypeInv, ServerType, Pieces
  <1>7. x = [no |-> d, piece |-> Len(get[n].got) + 1] /\ (source.no = d => source.sent = Len(get[n].got) + 1)
    BY <1>5 DEF Follows
  <1>8. /\ get'[n].at = "reading" /\ get'[n].no = d /\ get'[n].got = Append(get[n].got, x)
        /\ \A y \in Transfers : y # n => get'[y] = get[y]
    BY <1>1 DEF TypeInv, ServerType
  <1> HIDE DEF x
  <1>9. InOrder(get'[n].got, d) /\ Len(get'[n].got) = Len(get[n].got) + 1
    BY <1>5, <1>6, <1>7, <1>8, InOrderMore
  <1>10. \A y \in Transfers : get'[y].no = d => y = n
    BY <1>4, <1>8 DEF Reader
  <1>11. Going(n, d)'
    <2>1. d \notin closed' /\ get'[n].at # "ended"
      BY <1>1, <1>2, <1>8
    <2>2. source'.no = d => source'.sent = Len(get'[n].got)
      BY <1>2, <1>7, <1>9
    <2>3. \A k \in 0..Size : ~(Count(toBroker, Piece(d, k))' > 0)
      BY <1>3
    <2> QED
      BY <1>3, <2>1, <2>2, <2>3 DEF Going, Piece
  <1>12. Reader(n, d)'
    BY <1>2, <1>4, <1>9, <1>10, <1>11 DEF Reader
  <1> QED
    BY <1>3, <1>8, <1>10, <1>12 DEF Download

LEMMA DownloadBroken ==
    ASSUME TypeInv, NEW d \in Transfers, Download(d), NEW n \in Transfers, GetBreaks(n), get[n].no = d
    PROVE  Download(d)'
  <1>0. [Next]_vars /\ TypeInv'
    <2>1. [Next]_vars
      BY DEF Next
    <2> QED
      BY <2>1, TypeNext
  <1>1. PICK w \in writers :
          /\ w.pipe = d /\ writers' = writers \ {w} /\ toDevice' = Append(toDevice, Msg("ack", d, 0))
    BY DEF GetBreaks, Reads, Ack
  <1>2. /\ UNCHANGED <<source, jobs, fromPage, toBroker>> /\ aborted' = aborted \cup {d}
        /\ get' = [get EXCEPT ![n].at = "ended"]
    BY DEF GetBreaks, device, program
  <1>3. Tokens(d)' <= Tokens(d)
    BY <1>0, <1>1, <1>2, TokenRead
  <1>4. /\ get'[n].at = "ended" /\ \A x \in Transfers : get'[x].no = get[x].no /\ get'[x].got = get[x].got
    BY <1>2 DEF TypeInv, ServerType
  <1> QED
    BY <1>0, <1>2, <1>3, <1>4, DownloadAborted

\* The request comes to the end of its pipe.
LEMMA DownloadEnded ==
    ASSUME TypeInv, NEW d \in Transfers, Download(d), NEW n \in Transfers, GetEnds(n), get[n].no = d
    PROVE  Download(d)'
  <1>1. /\ d \in closed /\ get' = [get EXCEPT ![n].at = "ended"]
        /\ UNCHANGED <<closed, writers, source, aborted, jobs, fromPage, toDevice, toBroker>>
    BY DEF GetEnds, device, program, history
  <1>2. /\ get'[n].at = "ended" /\ \A x \in Transfers : get'[x].no = get[x].no /\ get'[x].got = get[x].got
    BY <1>1 DEF TypeInv, ServerType
  <1>3. Asked(d)' = Asked(d) /\ Tokens(d)' = Tokens(d) /\ \A k \in 0..Size : Count(toBroker, Piece(d, k))' = Count(toBroker, Piece(d, k))
    BY <1>1 DEF Tokens, Asked, InFlight, JobsOf, AckOf, DataOf, WritersOf, Piece
  <1>4. Reader(n, d) /\ \A x \in Transfers : get[x].no = d => x = n
    BY DEF Download, Reader
  <1>5. ASSUME d \notin aborted' PROVE Going(n, d)'
    <2>1. Going(n, d)
      BY <1>1, <1>4, <1>5 DEF Reader
    <2>2. /\ d \in closed' => Len(get'[n].got) = Size
          /\ Asked(d)' > 0 /\ source'.no = d => source'.sent = Len(get'[n].got)
      BY <1>1, <1>2, <1>3, <2>1 DEF Going
    <2>3. ASSUME NEW k \in 0..Size, Count(toBroker, Piece(d, k))' > 0
          PROVE  (IF k = 0 THEN Len(get[n].got) = Size ELSE Follows(d, k, Len(get[n].got)))'
      BY <1>1, <1>2, <1>3, <2>1, <2>3 DEF Going, Follows
    <2>4. ASSUME NEW w \in writers', w.pipe = d PROVE Follows(d, w.piece, Len(get[n].got))'
      BY <1>1, <1>2, <2>1, <2>4 DEF Going, Follows
    <2> QED
      BY <1>1, <2>2, <2>3, <2>4 DEF Going
  <1>6. Reader(n, d)'
    BY <1>1, <1>2, <1>4, <1>5 DEF Reader
  <1> QED
    BY <1>2, <1>3, <1>4, <1>6 DEF Download

\* A download that begins has nothing under way.
LEMMA DownloadBegun ==
    ASSUME TypeInv, OrderInv, NEW d \in Transfers, Download(d), BeginDownload
    PROVE  Download(d)'
  <1>0. [Next]_vars /\ TypeInv'
    <2>1. [Next]_vars
      BY DEF Next, Device
    <2> QED
      BY <2>1, TypeNext
  <1>1. /\ source' = [no |-> begun + 1, sent |-> 0] /\ begun \in Nat
        /\ UNCHANGED <<closed, writers, aborted, get, jobs, fromPage, toDevice>>
    BY Numbers DEF BeginDownload, TypeInv, DeviceType, server, program, history
  <1>2. /\ Asked(d)' = Asked(d) /\ Asked(d) \in Nat
    <2>1. Asked(d)' = Asked(d)
      BY <1>1 DEF Asked, InFlight, JobsOf, AckOf
    <2> QED
      BY <2>1, TokenCounts
  <1>3. ~DeviceReads
    <2>1. toDevice \in Seq(Sound)
      BY DEF TypeInv, QueuesType
    <2>2. toDevice # <<>> => Tail(toDevice) # toDevice
      BY <2>1, HeadTailProperties, EmptySeq
    <2> QED
      BY <1>1, <2>2 DEF DeviceReads
  <1>4. /\ Count(toBroker, DataOf(d))' <= Count(toBroker, DataOf(d))
        /\ \A k \in 0..Size : Count(toBroker, Piece(d, k))' <= Count(toBroker, Piece(d, k))
    BY <1>0, <1>3, DataFalls
  <1>5. CASE d # begun + 1
    <2>1. source'.no # d
      BY <1>1, <1>5
    <2> QED
      BY <1>0, <1>1, <1>2, <1>4, <2>1, DownloadKept
  <1>6. CASE d = begun + 1
    <2>1. \A n \in Transfers : get[n].no # d
      <3>1. \A n \in Transfers : get[n].no <= begun /\ get[n].no \in Nat
        BY Numbers DEF OrderInv, TypeInv, ServerType
      <3> QED
        BY <1>1, <1>6, <3>1
    <2>2. Tokens(d) = 0 /\ (d \in closed <=> d \in aborted)
      BY <2>1 DEF Download
    <2>3. Tokens(d)' = 0
      <3>1. /\ Asked(d) \in Nat /\ Count(toBroker, DataOf(d)) \in Nat /\ Among(writers, WritersOf(d)) \in Nat
            /\ Tokens(d) = Asked(d) + Count(toBroker, DataOf(d)) + Among(writers, WritersOf(d))
        BY TokenCounts
      <3>2. /\ Asked(d)' \in Nat /\ Count(toBroker, DataOf(d))' \in Nat
            /\ Tokens(d)' = Asked(d)' + Count(toBroker, DataOf(d))' + Among(writers, WritersOf(d))'
        BY <1>0, TokenCountsNext
      <3>3. Among(writers, WritersOf(d))' = Among(writers, WritersOf(d))
        BY <1>1 DEF WritersOf
      <3> QED
        BY <1>2, <1>4, <2>2, <3>1, <3>2, <3>3
    <2> QED
      BY <1>1, <2>1, <2>2, <2>3 DEF Download
  <1> QED
    BY <1>5, <1>6

LEMMA DownloadBroker ==
    ASSUME TypeInv, OrderInv, NEW d \in Transfers, Download(d), BrokerFileMessage
    PROVE  Download(d)'
  <1>0. [Next]_vars /\ TypeInv'
    <2>1. [Next]_vars
      BY DEF Next
    <2> QED
      BY <2>1, TypeNext
  <1>1. /\ toBroker # <<>> /\ toBroker' = Tail(toBroker) /\ toBroker \in Seq(Sound)
        /\ UNCHANGED <<jobs, fromPage, get, source, toDevice>>
    BY DEF BrokerFileMessage, FileMessage, ToPipe, program, device, TypeInv, QueuesType
  <1>2. Asked(d)' = Asked(d) /\ Asked(d) \in Nat
    <2>1. Asked(d)' = Asked(d)
      BY <1>1 DEF Asked, InFlight, JobsOf, AckOf
    <2> QED
      BY <2>1, TokenCounts
  <1>3. ~DeviceReads
    <2>1. toDevice \in Seq(Sound)
      BY DEF TypeInv, QueuesType
    <2>2. toDevice # <<>> => Tail(toDevice) # toDevice
      BY <2>1, HeadTailProperties, EmptySeq
    <2> QED
      BY <1>1, <2>2 DEF DeviceReads
  <1>4. /\ Count(toBroker, DataOf(d))' <= Count(toBroker, DataOf(d))
        /\ \A k \in 0..Size : Count(toBroker, Piece(d, k))' <= Count(toBroker, Piece(d, k))
    BY <1>0, <1>3, DataFalls
  <1>5. ASSUME \A w \in writers' : w.pipe = d => w \in writers,
               d \in closed' <=> d \in closed, d \in aborted' <=> d \in aborted
        PROVE  Download(d)'
    BY <1>0, <1>1, <1>2, <1>4, <1>5, DownloadKept
  <1>6. CASE ~sess
    BY <1>5, <1>6 DEF BrokerFileMessage
  <1>7. CASE sess /\ Head(toBroker).t = "data"
    <2>1. entry \in {None, Head(toBroker).no}
      <3>1. PICK e : e = entry
        OBVIOUS
      <3>2. PICK f : f = IF Head(toBroker).t = "send" THEN Head(toBroker).no ELSE e
        OBVIOUS
      <3>3. Followed(toBroker, e)
        BY <1>7, <3>1 DEF OrderInv
      <3> QED
        BY <1>1, <1>7, <3>1, <3>2, <3>3, OrderLess
    <2>2. CASE entry = d
      BY <1>7, <2>1, <2>2, Numbers, DownloadWritten
    <2>3. CASE entry # d
      <3>1. d \notin Pipe
        BY <2>3 DEF Pipe
      <3>2. /\ writers' = writers \/ writers' = writers \cup {[pipe |-> p, no |-> Head(toBroker).no, piece |-> Head(toBroker).piece] : p \in Pipe}
            /\ closed' = closed \/ closed' = closed \cup Pipe
            /\ aborted' = aborted
        BY <1>7 DEF BrokerFileMessage, FileMessage, ToPipe
      <3>3. \A w \in writers' : w.pipe = d => w \in writers
        BY <3>1, <3>2
      <3> QED
        BY <1>5, <3>1, <3>2, <3>3
    <2> QED
      BY <2>2, <2>3
  <1>8. CASE sess /\ Head(toBroker).t # "data"
    <2>1. /\ writers' = writers
          /\ \/ closed' = closed \cup Pipe /\ aborted' = aborted \cup Pipe
             \/ UNCHANGED <<closed, aborted>>
      BY <1>8 DEF BrokerFileMessage, FileMessage
    <2>2. CASE d \in Pipe /\ closed' = closed \cup Pipe /\ aborted' = aborted \cup Pipe
      <3>1. Tokens(d)' <= Tokens(d)
        <4>1. /\ Asked(d) \in Nat /\ Count(toBroker, DataOf(d)) \in Nat /\ Among(writers, WritersOf(d)) \in Nat
              /\ Tokens(d) = Asked(d) + Count(toBroker, DataOf(d)) + Among(writers, WritersOf(d))
          BY TokenCounts
        <4>2. /\ Count(toBroker, DataOf(d))' \in Nat
              /\ Tokens(d)' = Asked(d)' + Count(toBroker, DataOf(d))' + Among(writers, WritersOf(d))'
          BY <1>0, TokenCountsNext
        <4>3. Among(writers, WritersOf(d))' = Among(writers, WritersOf(d))
          BY <2>1 DEF WritersOf
        <4> QED
          BY <1>2, <1>4, <4>1, <4>2, <4>3
      <3> QED
        BY <1>0, <1>1, <2>2, <3>1, DownloadAborted
    <2>3. CASE d \notin Pipe \/ UNCHANGED <<closed, aborted>>
      BY <1>5, <2>1, <2>3
    <2> QED
      BY <2>1, <2>2, <2>3
  <1> QED
    BY <1>6, <1>7, <1>8

LEMMA DownloadGet ==
    ASSUME TypeInv, OrderInv, NEW d \in Transfers, Download(d), d \notin shared',
           NEW n \in Transfers, GetLoads(n) \/ GetReads(n) \/ GetBreaks(n) \/ GetEnds(n)
    PROVE  Download(d)'
  <1>0. [Next]_vars /\ TypeInv'
    <2>1. [Next]_vars
      BY DEF Next
    <2> QED
      BY <2>1, TypeNext
  <1>1. /\ UNCHANGED <<source, jobs, fromPage, toBroker>>
        /\ \A w \in writers' : w \in writers
        /\ get \in [Transfers -> [at : {"idle", "asked", "reading", "ended"}, no : 0..MaxTransfers, got : Seq(Pieces)]]
    BY DEF GetLoads, GetReads, GetBreaks, GetEnds, Reads, device, program, TypeInv, ServerType
  <1>2. /\ Count(toBroker, DataOf(d))' <= Count(toBroker, DataOf(d))
        /\ \A k \in 0..Size : Count(toBroker, Piece(d, k))' <= Count(toBroker, Piece(d, k))
    BY <1>0, <1>1, DataFalls
  <1>3. Asked(d) \in Nat /\ (UNCHANGED toDevice => Asked(d)' <= Asked(d))
    <2>1. UNCHANGED toDevice => Asked(d)' = Asked(d)
      BY <1>1 DEF Asked, InFlight, JobsOf, AckOf
    <2>2. Asked(d) \in Nat
      BY TokenCounts
    <2> QED
      BY <2>1, <2>2
  <1>4. ASSUME Asked(d)' <= Asked(d), d \in closed' <=> d \in closed, d \in aborted' <=> d \in aborted,
               get'[n].no # d, get[n].no # d, \A x \in Transfers : x # n => get'[x] = get[x]
        PROVE  Download(d)'
    BY <1>0, <1>1, <1>2, <1>4, DownloadKept
  <1>5. CASE GetLoads(n)
    <2>1. get[n].at = "asked" /\ get[n].no = None /\ d # None
      BY <1>5, Numbers DEF GetLoads, OrderInv
    <2>2. CASE entry = d /\ sess
      BY <1>5, <2>2, DownloadLoaded
    <2>3. CASE ~(entry = d /\ sess)
      <3>1. \/ /\ toDevice' = Append(toDevice, Msg("ack", entry, 0)) /\ entry # d
               /\ get' = [get EXCEPT ![n].at = "reading", ![n].no = entry]
            \/ UNCHANGED toDevice /\ get' = [get EXCEPT ![n].at = "ended"]
        BY <1>5, <2>3 DEF GetLoads
      <3>2. Asked(d)' <= Asked(d)
        <4>1. PICK p \in 0..MaxTransfers : p = entry
          BY DEF TypeInv, ServerType
        <4> QED
          BY <1>1, <1>3, <3>1, <4>1, AskedSame
      <3>3. get'[n].no # d /\ \A x \in Transfers : x # n => get'[x] = get[x]
        BY <1>1, <2>1, <3>1
      <3>4. UNCHANGED <<closed, aborted>>
        BY <1>5 DEF GetLoads
      <3> QED
        BY <1>4, <2>1, <3>2, <3>3, <3>4
    <2> QED
      BY <2>2, <2>3
  <1>6. CASE GetReads(n) \/ GetBreaks(n)
    <2>1. CASE get[n].no = d
      BY <1>6, <2>1, DownloadRead, DownloadBroken
    <2>2. CASE get[n].no # d
      <3>1. PICK w \in writers : w.pipe = get[n].no /\ toDevice' = Append(toDevice, Msg("ack", w.pipe, 0))
        BY <1>6 DEF GetReads, GetBreaks, Reads, Ack
      <3>2. Asked(d)' <= Asked(d)
        <4>1. w.pipe \in 0..MaxTransfers /\ w.pipe # d
          BY <2>2, <3>1, Numbers DEF TypeInv, ServerType
        <4>2. PICK p \in 0..MaxTransfers : p = w.pipe
          BY <4>1
        <4> QED
          BY <1>1, <3>1, <4>1, <4>2, AskedSame
      <3>3. /\ get'[n].no # d /\ \A x \in Transfers : x # n => get'[x] = get[x]
        BY <1>1, <1>6, <2>2 DEF GetReads, GetBreaks
      <3>4. (d \in closed' <=> d \in closed) /\ (d \in aborted' <=> d \in aborted)
        BY <1>6, <2>2 DEF GetReads, GetBreaks, history
      <3> QED
        BY <1>4, <2>2, <3>2, <3>3, <3>4
    <2> QED
      BY <2>1, <2>2
  <1>7. CASE GetEnds(n)
    <2>1. CASE get[n].no = d
      BY <1>7, <2>1, DownloadEnded
    <2>2. CASE get[n].no # d
      <3>1. UNCHANGED <<toDevice, closed, aborted>> /\ get' = [get EXCEPT ![n].at = "ended"]
        BY <1>7 DEF GetEnds, history
      <3>2. get'[n].no # d /\ \A x \in Transfers : x # n => get'[x] = get[x]
        BY <1>1, <2>2, <3>1
      <3> QED
        BY <1>3, <1>4, <2>2, <3>1, <3>2
    <2> QED
      BY <2>1, <2>2
  <1> QED
    BY <1>5, <1>6, <1>7

LEMMA DownloadNext == TypeInv /\ OrderInv /\ DownloadInv /\ [Next]_vars => DownloadInv'
  <1> SUFFICES ASSUME TypeInv, OrderInv, DownloadInv, [Next]_vars, NEW d \in Transfers, d \notin shared'
               PROVE  Download(d)'
    BY DEF DownloadInv
  <1>1. shared \subseteq shared'
    BY DEF Next, Device, Program, Page, BeginUpload, BeginDownload, StopDownload, DeviceReads, NextPiece,
           PageReads, SendPiece, CancelUpload, ChooseFile, PageSends, BrokerFileMessage, BrokerUserMessage,
           EndSession, GetLoads, GetReads, GetBreaks, GetEnds, WriterFails, HandleInfo, HandleLookup,
           HandleWrite, HandleEnd, HandleAbort, vars, history
  <1>2. Download(d)
    BY <1>1 DEF DownloadInv
  <1>3. TypeInv' /\ d # None
    BY TypeNext, Numbers
  <1>4. CASE BeginDownload \/ BrokerFileMessage
               \/ \E n \in Transfers : GetLoads(n) \/ GetReads(n) \/ GetBreaks(n) \/ GetEnds(n)
    BY <1>2, <1>4, DownloadBegun, DownloadBroker, DownloadGet
  <1>5. CASE DeviceReads /\ source.no = d /\ toBroker' # toBroker
    BY <1>2, <1>5, DownloadSent
  <1>6. CASE /\ ~(BeginDownload \/ BrokerFileMessage)
             /\ ~\E n \in Transfers : GetLoads(n) \/ GetReads(n) \/ GetBreaks(n) \/ GetEnds(n)
             /\ ~(DeviceReads /\ source.no = d /\ toBroker' # toBroker)
    <2>1. Asked(d)' <= Asked(d)
      BY <1>6, AsksFall
    <2>2. /\ Count(toBroker, DataOf(d))' <= Count(toBroker, DataOf(d))
          /\ \A k \in 0..Size : Count(toBroker, Piece(d, k))' <= Count(toBroker, Piece(d, k))
      BY <1>6, DataFalls
    <2>3. (\A w \in writers' : w \in writers) /\ UNCHANGED <<closed, aborted>>
      BY <1>6 DEF Next, Device, Program, Page, BeginUpload, StopDownload, DeviceReads,
           PageReads, SendPiece, CancelUpload, ChooseFile, PageSends, BrokerUserMessage,
           EndSession, WriterFails, HandleInfo, HandleLookup, HandleWrite, HandleEnd, HandleAbort,
           vars, history, server
    <2>4. source' = source \/ source'.no # d
      <3>1. CASE ~DeviceReads
        <4>1. UNCHANGED source \/ source' = Idle
          BY <1>6, <3>1 DEF Next, Device, Program, Page, BeginUpload, StopDownload,
             PageReads, SendPiece, CancelUpload, ChooseFile, PageSends, BrokerUserMessage,
             EndSession, WriterFails, HandleInfo, HandleLookup, HandleWrite, HandleEnd, HandleAbort,
             vars, device
        <4> QED
          BY <1>3, <4>1 DEF Idle
      <3>2. CASE DeviceReads
        <4>1. \/ source' = source \/ source' = Idle
              \/ source.no # d /\ source' = [source EXCEPT !.sent = source.sent + 1]
              \/ source.no = d /\ toBroker' = toBroker
              \/ source.no = d /\ toBroker' # toBroker
          BY <3>2 DEF DeviceReads, NextPiece
        <4>2. source.no = d /\ toBroker' = toBroker => source' = source \/ source' = Idle
          <5> SUFFICES ASSUME source.no = d, toBroker' = toBroker PROVE source' = source \/ source' = Idle
            OBVIOUS
          <5>1. PICK k \in 0..Size : k = IF source.sent + 1 > Size THEN 0 ELSE source.sent + 1
            BY Numbers DEF TypeInv, DeviceType
          <5>2. Msg("data", d, k) \in Sound
            BY NewMsg, Numbers
          <5>3. Append(toBroker, Msg("data", d, k)) # toBroker
            BY <5>2, AppendProperties, LenProperties DEF TypeInv, QueuesType
          <5> QED
            BY <1>3, <3>2, <5>1, <5>3 DEF DeviceReads, NextPiece
        <4>3. source.no # d => [source EXCEPT !.sent = source.sent + 1].no # d
          BY DEF TypeInv, DeviceType
        <4>4. Idle.no # d
          BY <1>3 DEF Idle
        <4>5. CASE source' = source \/ source' = Idle
          BY <4>4, <4>5
        <4>6. CASE source.no # d /\ source' = [source EXCEPT !.sent = source.sent + 1]
          <5>1. source'.no = [source EXCEPT !.sent = source.sent + 1].no
            BY <4>6
          <5> QED
            BY <4>3, <4>6, <5>1
        <4>7. CASE source.no = d /\ toBroker' = toBroker
          <5>1. source' = source \/ source' = Idle
            BY <4>2, <4>7
          <5> QED
            BY <4>4, <5>1
        <4>8. ~(source.no = d /\ toBroker' # toBroker)
          BY <1>6, <3>2
        <4> QED
          BY <4>1, <4>5, <4>6, <4>7, <4>8
      <3> QED
        BY <3>1, <3>2
    <2>5. \A n \in Transfers : get'[n].no = d \/ get[n].no = d => get'[n] = get[n]
      BY <1>3, <1>6, GetOrder
    <2> QED
      BY <1>2, <1>3, <2>1, <2>2, <2>3, <2>4, <2>5, DownloadKept
  <1> QED
    BY <1>4, <1>5, <1>6

LEMMA DownloadInit == Init => DownloadInv
  <1> SUFFICES ASSUME Init, NEW d \in Transfers PROVE Download(d)
    BY DEF DownloadInv
  <1>1. /\ toBroker = <<>> /\ toDevice = <<>> /\ fromPage = <<>> /\ jobs = {} /\ writers = {}
        /\ closed = {} /\ aborted = {} /\ source.sent = 0
        /\ \A n \in Transfers : get[n].no = None
    BY DEF Init, Idle
  <1>2. Tokens(d) = 0
    BY <1>1, NothingCounted DEF Tokens, Asked, InFlight
  <1> QED
    BY <1>1, <1>2, Numbers DEF Download

\* What a download hands to the browser is the start of its file, in order,
\* and the whole file if it ends and was not aborted, although a goroutine of
\* its own writes each piece: as long as the download is the only one to read
\* its pipe, and the device takes no acknowledgement of another for its own.
THEOREM DownloadsInOrder == Spec => []DownloadInOrder
  <1>1. TypeInv /\ DownloadInv => DownloadInOrder
    <2> SUFFICES ASSUME TypeInv, DownloadInv, NEW n \in Transfers, get[n].no \notin shared \cup {None}
                 PROVE  /\ InOrder(get[n].got, get[n].no)
                        /\ get[n].at = "ended" /\ get[n].no \notin aborted => Len(get[n].got) = Size
      BY DEF DownloadInOrder
    <2>1. PICK d \in Transfers : d = get[n].no
      BY Numbers DEF TypeInv, ServerType
    <2>2. Reader(n, d)
      BY <2>1 DEF DownloadInv, Download
    <2> QED
      BY <2>1, <2>2 DEF Reader, Going
  <1> QED
    BY <1>1, TypeInit, TypeNext, OrderInit, OrderNext, DownloadInit, DownloadNext, PTL DEF Spec

-----------------------------------------------------------------------------
(* Heartbeat: durations.                                                   *)

\* Threshold is seven and a half seconds, rounded down.
LEMMA Durations ==
    /\ Second \in Nat \ {0} /\ MaxSilence \in Nat
    /\ Interval = 5 * Second /\ Interval \in Nat
    /\ Threshold \in Nat
    /\ 2 * Threshold <= 15 * Second /\ 15 * Second <= 2 * Threshold + 1
    /\ MaxSilence > 10 * Second
  <1>1. Second \in Nat \ {0} /\ MaxSilence \in Nat /\ MaxSilence > 2 * (5 * Second)
    BY HeartbeatAssumption DEF Interval
  <1>2. \A n \in Nat : n \div 2 \in Nat /\ 2 * (n \div 2) <= n /\ n <= 2 * (n \div 2) + 1
    OBVIOUS
  <1>3. Threshold = (15 * Second) \div 2
    BY <1>1 DEF Threshold, Interval
  <1> QED
    BY <1>1, <1>2, <1>3 DEF Interval

-----------------------------------------------------------------------------
(* Heartbeat: types.                                                       *)

LEMMA HeartbeatTypeInit == HeartbeatInit => HeartbeatTypeOK
  <1> SUFFICES ASSUME HeartbeatInit PROVE HeartbeatTypeOK
    OBVIOUS
  <1>1. next \in 1..Second /\ silence \in 0..MaxSilence
    BY Durations DEF HeartbeatInit
  <1>2. since \in 0..Interval /\ ninactive \in 0..4
    BY Durations DEF HeartbeatInit
  <1> QED
    BY <1>1, <1>2 DEF HeartbeatInit, HeartbeatTypeOK

LEMMA HeartbeatTypeNext == HeartbeatTypeOK /\ [HeartbeatNext]_heartbeatVars => HeartbeatTypeOK'
  <1> SUFFICES ASSUME HeartbeatTypeOK, [HeartbeatNext]_heartbeatVars PROVE HeartbeatTypeOK'
    OBVIOUS
  <1> USE Durations DEF HeartbeatTypeOK
  <1>1. CASE Elapse
    BY <1>1 DEF Elapse, Upto
  <1>2. CASE Speak
    BY <1>2 DEF Speak
  <1>3. CASE Vanish
    BY <1>3 DEF Vanish
  <1>4. CASE WriteBlocks
    BY <1>4 DEF WriteBlocks
  <1>5. CASE WriteReturns
    BY <1>5 DEF WriteReturns
  <1>6. CASE ServeTick
    <2>1. ninactive' \in 0..4
      BY <1>6 DEF ServeTick, Counted, Passed
    <2>2. since' \in 0..Interval
      BY <1>6 DEF ServeTick, HeartbeatDue
    <2> QED
      BY <1>6, <2>1, <2>2 DEF ServeTick
  <1>7. CASE Kill
    BY <1>7 DEF Kill
  <1>8. CASE UNCHANGED heartbeatVars
    BY <1>8 DEF heartbeatVars
  <1> QED
    BY <1>1, <1>2, <1>3, <1>4, <1>5, <1>6, <1>7, <1>8 DEF HeartbeatNext

\* Every variable keeps its type; the count of inactive ticks stays below five.
THEOREM HeartbeatTypeCorrect == HeartbeatSpec => []HeartbeatTypeOK
  BY HeartbeatTypeInit, HeartbeatTypeNext, PTL DEF HeartbeatSpec

-----------------------------------------------------------------------------
(* Only a silent device is given up.  While no tick is dropped, either the *)
(* device has spoken since the last heartbeat of the server, and then it   *)
(* is not inactive at the next; or the count stands for as many ticks of   *)
(* the silence that lasts.                                                 *)

Late == IF tick THEN Second ELSE 0

\* What the time since the server's heartbeat can be at most: the heartbeat
\* that is due goes out with the next tick that is served.
SinceAtMost == IF since < Interval THEN since ELSE Interval + (Second - next) + Late

SpokenSince == silence <= SinceAtMost

\* The first of the counted ticks found the device inactive, and was itself
\* served before the tick after it.
CountedSilence ==
    \/ ninactive = 0
    \/ silence = MaxSilence
    \/ silence + next > Threshold + 1 + (ninactive - 1) * Second + Late

KillInv ==
    /\ HeartbeatTypeOK
    /\ state = "open" /\ ~stalled => SpokenSince \/ CountedSilence
    /\ KilledOnlySilent

\* The next heartbeat comes before the threshold.
LEMMA HeardInTime == HeartbeatTypeOK /\ SpokenSince => ~Inactive
  BY Durations DEF HeartbeatTypeOK, SpokenSince, SinceAtMost, Late, Inactive

LEMMA KillNext == KillInv /\ [HeartbeatNext]_heartbeatVars => KillInv'
  <1> SUFFICES ASSUME KillInv, [HeartbeatNext]_heartbeatVars PROVE KillInv'
    OBVIOUS
  <1>0. HeartbeatTypeOK /\ HeartbeatTypeOK' /\ KilledOnlySilent
    BY HeartbeatTypeNext DEF KillInv
  <1>a. state = "open" /\ ~stalled => SpokenSince \/ CountedSilence
    BY DEF KillInv
  <1> USE Durations
  <1> SUFFICES /\ state' = "open" /\ ~stalled' => SpokenSince' \/ CountedSilence'
               /\ KilledOnlySilent'
    BY <1>0 DEF KillInv
  <1>1. CASE Elapse
    <2>1. /\ state = "open" /\ state' = "open"
          /\ ninactive' = ninactive
      BY <1>1 DEF Elapse
    <2>2. ASSUME ~stalled', SpokenSince PROVE SpokenSince'
      <3>1. SinceAtMost \in Nat /\ SinceAtMost' \in Nat /\ SinceAtMost' >= SinceAtMost + 1
        <4>1. CASE next = 1
          <5>1. ~tick /\ Late = 0 /\ Late' = Second /\ next' = Second
            BY <1>1, <2>2, <4>1 DEF Elapse, Late
          <5> QED
            BY <1>0, <1>1, <4>1, <5>1 DEF Elapse, Upto, HeartbeatTypeOK, SinceAtMost
        <4>2. CASE next # 1
          <5>1. Late' = Late /\ next' = next - 1 /\ Late \in Nat
            BY <1>0, <1>1, <4>2 DEF Elapse, Late, HeartbeatTypeOK
          <5> QED
            BY <1>0, <1>1, <4>2, <5>1 DEF Elapse, Upto, HeartbeatTypeOK, SinceAtMost
        <4> QED
          BY <4>1, <4>2
      <3>2. silence' <= silence + 1 /\ silence' \in Nat /\ silence \in Nat
        BY <1>0, <1>1 DEF Elapse, Upto, HeartbeatTypeOK
      <3> QED
        BY <2>2, <3>1, <3>2 DEF SpokenSince
    <2>3. ASSUME ~stalled', CountedSilence PROVE CountedSilence'
      <3> DEFINE b == (ninactive - 1) * Second
      <3>1. b \in Int
        BY <1>0 DEF HeartbeatTypeOK
      <3>2. CASE silence + next > Threshold + 1 + b + Late
        <4> HIDE DEF b
        <4>1. silence' + next' > Threshold + 1 + b + Late' \/ silence' = MaxSilence
          BY <1>0, <1>1, <2>3, <3>1, <3>2 DEF Elapse, Upto, HeartbeatTypeOK, Late
        <4> QED
          BY <2>1, <4>1 DEF CountedSilence, b
      <3>3. CASE ninactive = 0 \/ silence = MaxSilence
        BY <1>0, <1>1, <3>3 DEF Elapse, Upto, HeartbeatTypeOK, CountedSilence
      <3> QED
        BY <2>3, <3>2, <3>3 DEF CountedSilence
    <2>4. ~stalled' => ~stalled
      BY <1>1 DEF Elapse
    <2> QED
      BY <1>a, <2>1, <2>2, <2>3, <2>4 DEF KilledOnlySilent
  <1>2. CASE Speak
    BY <1>0, <1>2 DEF Speak, HeartbeatTypeOK, SpokenSince, SinceAtMost, Late, KilledOnlySilent
  <1>3. CASE Vanish \/ WriteBlocks \/ WriteReturns \/ UNCHANGED heartbeatVars
    <2>1. /\ UNCHANGED <<registered, silence, next, tick, since, ninactive, stalled>>
          /\ state' \in {state, "closed"} /\ (state # "open" => state' = state)
      BY <1>3 DEF Vanish, WriteBlocks, WriteReturns, heartbeatVars
    <2> QED
      BY <1>0, <1>a, <2>1 DEF SpokenSince, SinceAtMost, CountedSilence, Late, KilledOnlySilent
  <1>4. CASE ServeTick
    <2>1. /\ state = "open" /\ state' = "open" /\ tick /\ ~tick'
          /\ UNCHANGED <<silence, next, stalled>>
          /\ ninactive' = Counted
          /\ since' = IF HeartbeatDue THEN 0 ELSE since
      BY <1>4 DEF ServeTick
    <2>2. CASE HeartbeatDue
      BY <2>1, <2>2 DEF Counted, CountedSilence, KilledOnlySilent
    <2>3. ASSUME ~HeartbeatDue, SpokenSince PROVE SpokenSince'
      BY <1>0, <2>1, <2>3 DEF HeartbeatTypeOK, HeartbeatDue, SpokenSince, SinceAtMost
    <2>4. ASSUME ~HeartbeatDue, ~SpokenSince, ~stalled, Inactive PROVE CountedSilence'
      <3>1. CountedSilence /\ ninactive' = ninactive + 1
        BY <1>a, <2>1, <2>4 DEF Counted
      <3>2. CASE ninactive = 0
        BY <1>0, <2>1, <2>4, <3>1, <3>2 DEF HeartbeatTypeOK, Inactive, CountedSilence, Late
      <3>3. CASE silence = MaxSilence
        BY <2>1, <3>3 DEF CountedSilence
      <3>4. CASE silence + next > Threshold + 1 + (ninactive - 1) * Second + Late
        <4>1. (ninactive' - 1) * Second = (ninactive - 1) * Second + Second
          BY <1>0, <3>1 DEF HeartbeatTypeOK
        <4>2. Late = Second /\ Late' = 0 /\ (ninactive - 1) * Second \in Int
          BY <1>0, <2>1 DEF Late, HeartbeatTypeOK
        <4>3. (ninactive' - 1) * Second + Late' = (ninactive - 1) * Second + Late
          BY <4>1, <4>2
        <4>4. silence' + next' > Threshold + 1 + (ninactive' - 1) * Second + Late'
          <5> DEFINE b == (ninactive - 1) * Second
                     c == (ninactive' - 1) * Second
          <5>1. b \in Int /\ c = b + Second /\ Late = Second /\ Late' = 0
                /\ silence + next > Threshold + 1 + b + Late
            BY <3>4, <4>1, <4>2
          <5> HIDE DEF b, c
          <5>2. silence' + next' > Threshold + 1 + c + Late'
            BY <1>0, <2>1, <5>1 DEF HeartbeatTypeOK
          <5> QED
            BY <5>2 DEF c
        <4> QED
          BY <4>4 DEF CountedSilence
      <3> QED
        BY <3>1, <3>2, <3>3, <3>4 DEF CountedSilence
    <2>5. ASSUME ~HeartbeatDue, ~SpokenSince, ~stalled, ~Inactive PROVE CountedSilence'
      <3> DEFINE b == (ninactive - 1) * Second
      <3>1. CountedSilence /\ ninactive' = ninactive /\ b \in Int
        BY <1>0, <1>a, <2>1, <2>5 DEF Counted, HeartbeatTypeOK
      <3>2. CASE silence + next > Threshold + 1 + b + Late
        <4> HIDE DEF b
        <4>1. silence' + next' > Threshold + 1 + b + Late'
          BY <1>0, <2>1, <3>1, <3>2 DEF HeartbeatTypeOK, Late
        <4> QED
          BY <3>1, <4>1 DEF b, CountedSilence
      <3> QED
        BY <2>1, <3>1, <3>2 DEF CountedSilence
    <2> QED
      BY <1>a, <2>1, <2>2, <2>3, <2>4, <2>5 DEF KilledOnlySilent
  <1>5. CASE Kill
    <2>1. /\ state = "open" /\ state' = "killed" /\ tick /\ Inactive
          /\ UNCHANGED <<silence, registered, stalled>>
          /\ registered => ninactive > 3
      BY <1>5 DEF Kill, Passed
    <2>2. ASSUME registered, ~stalled PROVE silence > 2 * Interval
      <3>1. CountedSilence /\ ninactive = 4
        BY <1>0, <1>a, <2>1, <2>2, HeardInTime DEF HeartbeatTypeOK
      <3>2. (ninactive - 1) * Second = 3 * Second
        BY <3>1
      <3> QED
        BY <1>0, <2>1, <3>1, <3>2 DEF HeartbeatTypeOK, CountedSilence, Late
    <2> QED
      BY <2>1, <2>2 DEF KilledOnlySilent
  <1> QED
    BY <1>1, <1>2, <1>3, <1>4, <1>5 DEF HeartbeatNext

\* A registered device is given up only after two intervals of silence, unless
\* a write blocked past a tick.
THEOREM KilledSilent == HeartbeatSpec => []KilledOnlySilent
  <1>1. HeartbeatInit => KillInv
    BY HeartbeatTypeInit DEF HeartbeatInit, KillInv, CountedSilence, KilledOnlySilent
  <1>2. KillInv => KilledOnlySilent
    BY DEF KillInv
  <1> QED
    BY <1>1, <1>2, KillNext, PTL DEF HeartbeatSpec
=============================================================================
