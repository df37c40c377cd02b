--------------------------- MODULE CommandProofs ----------------------------
(* Theorems about Command, for any set of requests: type correctness, that *)
(* output is earned, that two replies take a timer and a response that     *)
(* meet, and that a response that comes after the timeout is dropped.      *)
EXTENDS Command, SequenceTheorems, TLAPS

In(r, q) == \E i \in 1..Len(q) : q[i] = r

Once(q) == \A i, j \in 1..Len(q) : q[i] = q[j] => i = j

\* What a queue's receiver takes, and what it leaves.
LEMMA TailQueue ==
    ASSUME NEW S, NEW q \in Seq(S), q # <<>>
    PROVE  /\ Head(q) \in S /\ Tail(q) \in Seq(S)
           /\ In(Head(q), q)
           /\ \A r : In(r, Tail(q)) => In(r, q)
           /\ Once(q) => Once(Tail(q)) /\ ~In(Head(q), Tail(q))
  <1>1. /\ Head(q) = q[1] /\ Head(q) \in S /\ Tail(q) \in Seq(S)
        /\ Len(q) \in Nat \ {0} /\ Len(Tail(q)) = Len(q) - 1
        /\ \A i \in 1..Len(Tail(q)) : Tail(q)[i] = q[i + 1]
    BY HeadTailProperties, EmptySeq
  <1>2. \A i \in 1..Len(Tail(q)) : i + 1 \in 1..Len(q) /\ i + 1 # 1
    BY <1>1
  <1>3. 1 \in 1..Len(q)
    BY <1>1
  <1>4. \A i, j \in 1..Len(Tail(q)) : i + 1 = j + 1 => i = j
    BY <1>1
  <1> QED
    BY <1>1, <1>2, <1>3, <1>4 DEF In, Once

\* What is sent is last.
LEMMA AppendQueue ==
    ASSUME NEW S, NEW q \in Seq(S), NEW e \in S
    PROVE  /\ Append(q, e) \in Seq(S)
           /\ \A r : In(r, Append(q, e)) <=> In(r, q) \/ r = e
           /\ Once(q) /\ ~In(e, q) => Once(Append(q, e))
  <1>1. /\ Append(q, e) \in Seq(S)
        /\ Len(q) \in Nat /\ Len(Append(q, e)) = Len(q) + 1
        /\ \A i \in 1..Len(q) : Append(q, e)[i] = q[i]
        /\ Append(q, e)[Len(q) + 1] = e
    BY AppendProperties, LenProperties
  <1>2. \A i \in 1..Len(Append(q, e)) : i \in 1..Len(q) \/ i = Len(q) + 1
    BY <1>1
  <1>3. \A i \in 1..Len(q) : i \in 1..Len(Append(q, e))
    BY <1>1
  <1>4. Len(q) + 1 \in 1..Len(Append(q, e))
    BY <1>1
  <1> QED
    BY <1>1, <1>2, <1>3, <1>4 DEF In, Once

\* Nothing waits in a queue that is empty.
LEMMA EmptyQueue == Once(<<>>) /\ \A r : ~In(r, <<>>)
  BY EmptySeq DEF In, Once

-----------------------------------------------------------------------------
(* Types.                                                                  *)

LEMMA TypeInit == Init => TypeOK
  BY EmptySeq DEF Init, TypeOK

\* The handler's steps.
LEMMA TypeHandler ==
    ASSUME TypeOK, NEW r \in Reqs, HandlerStep(r)
    PROVE  TypeOK'
  <1> USE DEF TypeOK, device
  <1>1. ASSUME NEW s \in Reqs, NEW to \in {"posted", "waiting", "returned"},
               NEW from, Move(s, from, to)
        PROVE  pc' \in [Reqs -> {"start", "posted", "waiting", "returned"}]
    BY <1>1 DEF Move
  <1>2. ASSUME NEW reply \in Replies, Write(r, reply)
        PROVE  replies' \in [Reqs -> Seq(Replies)] /\ cancelled' \subseteq Reqs
    BY <1>2, AppendQueue DEF Write
  <1>3. CASE Refuse(r)
    <2>1. replies' \in [Reqs -> Seq(Replies)] /\ cancelled' \subseteq Reqs
      BY <1>2, <1>3 DEF Refuse, Replies
    <2> QED
      BY <1>1, <1>3, <2>1 DEF Refuse, Reject
  <1>4. CASE Post(r)
    BY <1>1, <1>4, AppendQueue DEF Post
  <1>5. CASE ReturnAtOnce(r) \/ Answered(r)
    BY <1>1, <1>5 DEF ReturnAtOnce, Answered
  <1>6. CASE Await(r)
    BY <1>1, <1>6 DEF Await
  <1>7. CASE TimedOut(r)
    <2>1. replies' \in [Reqs -> Seq(Replies)] /\ cancelled' \subseteq Reqs
      BY <1>2, <1>7 DEF TimedOut, TimeoutReply, Replies
    <2> QED
      BY <1>1, <1>7, <2>1 DEF TimedOut, Forget
  <1> QED
    BY <1>3, <1>4, <1>5, <1>6, <1>7 DEF HandlerStep

\* The broker's arms.
LEMMA TypeBroker ==
    ASSUME TypeOK, NEW r \in Reqs, BrokerStep(r)
    PROVE  TypeOK'
  <1> USE DEF TypeOK, device, handler
  <1>1. CASE ForwardCmd(r)
    <2>1. cmdReqQ' \in Seq(Reqs) /\ outbox' \in Seq(Reqs)
      BY <1>1, TailQueue, AppendQueue DEF ForwardCmd
    <2> QED
      BY <1>1, <2>1 DEF ForwardCmd
  <1>2. CASE LoadCmd(r)
    <2>1. cmdRespQ' \in Seq(Reqs)
      BY <1>2, TailQueue DEF LoadCmd
    <2> QED
      BY <1>2, <2>1 DEF LoadCmd, Lookup
  <1>3. CASE HandleCmdResp(r)
    BY <1>3, AppendQueue DEF HandleCmdResp, Write, Replies
  <1> QED
    BY <1>1, <1>2, <1>3 DEF BrokerStep

\* The device.
LEMMA TypeDevice ==
    ASSUME TypeOK, (\E r \in Reqs : StartCmd(r) \/ FinishCmd(r)) \/ DeviceGoes \/ DeviceReturns
    PROVE  TypeOK'
  <1> USE DEF TypeOK, handler
  <1>1. ASSUME NEW r \in Reqs, StartCmd(r) PROVE TypeOK'
    BY <1>1, TailQueue DEF StartCmd
  <1>2. ASSUME NEW r \in Reqs, FinishCmd(r) PROVE TypeOK'
    <2>1. cmdRespQ' \in Seq(Reqs)
      BY <1>2, AppendQueue DEF FinishCmd
    <2> QED
      BY <1>2, <2>1 DEF FinishCmd
  <1>3. CASE DeviceGoes \/ DeviceReturns
    BY <1>3, EmptySeq DEF DeviceGoes, DeviceReturns
  <1> QED
    BY <1>1, <1>2, <1>3

LEMMA TypeNext == TypeOK /\ [Next]_vars => TypeOK'
  <1> SUFFICES ASSUME TypeOK, [Next]_vars PROVE TypeOK'
    OBVIOUS
  <1>1. CASE UNCHANGED vars
    BY <1>1 DEF TypeOK, vars, handler, device
  <1> QED
    BY <1>1, TypeHandler, TypeBroker, TypeDevice DEF Next

\* Every variable keeps its type.
THEOREM TypeCorrect == Spec => []TypeOK
  BY TypeInit, TypeNext, PTL DEF Spec

-----------------------------------------------------------------------------
(* The way of a request.                                                   *)

\* A request that was not posted is nowhere.
Fresh(r) == ~In(r, cmdReqQ) /\ ~In(r, outbox) /\ r \notin running \cup executed

\* A command is in one place at a time, so the device runs it once, answers
\* it once, and its response is not yet used up.
Route(r) ==
    /\ pc[r] = "start" => Fresh(r)
    /\ In(r, cmdReqQ) => ~In(r, outbox) /\ r \notin running \cup executed
    /\ In(r, outbox) => r \notin running \cup executed
    /\ r \in running => r \notin executed
    /\ In(r, cmdRespQ) => r \in executed /\ held # r /\ ~Outputs(r)
    /\ held = r => r \in executed /\ wait[r] /\ pc[r] \in {"waiting", "returned"} /\ ~Outputs(r)

\* The entry outlives the handler only if the reply was written.
Entry(r) ==
    r \in commands => wait[r] /\ \/ pc[r] = "waiting"
                                 \/ pc[r] = "returned" /\ Outputs(r)

\* What the handler and the broker write between them.
Written(r) ==
    /\ pc[r] \in {"start", "posted"} => replies[r] = <<>> /\ r \notin cancelled
    /\ pc[r] = "waiting" => \/ replies[r] = <<>> /\ r \notin cancelled
                            \/ replies[r] = <<"output">>
    /\ pc[r] = "returned" =>
         \/ replies[r] \in {<<"offline">>, <<"invalid">>} /\ Fresh(r)
         \/ replies[r] = <<>> /\ ~wait[r]
         \/ replies[r] \in {<<"output">>, <<"timeout">>,
                            <<"timeout", "output">>, <<"output", "timeout">>}

Queues == Once(cmdReqQ) /\ Once(outbox) /\ Once(cmdRespQ)

RequestFacts ==
    /\ Queues
    /\ \A r \in Reqs : Route(r) /\ Entry(r) /\ Written(r)
    /\ OutputIsEarned

RequestInv == TypeOK /\ RequestFacts

\* What a context has been given holds output only if output was written.
LEMMA OutputsShape ==
    ASSUME NEW r \in Reqs
    PROVE  /\ replies[r] \in {<<>>, <<"offline">>, <<"invalid">>, <<"timeout">>} => ~Outputs(r)
           /\ replies[r] \in {<<"output">>, <<"timeout", "output">>, <<"output", "timeout">>}
                => Outputs(r)
  <1>1. CASE replies[r] = <<>>
    BY <1>1, EmptySeq DEF Outputs
  <1>2. ASSUME NEW x \in Replies, replies[r] = <<x>> PROVE Outputs(r) <=> x = "output"
    BY <1>2 DEF Outputs
  <1>3. ASSUME NEW x \in Replies, NEW y \in Replies, replies[r] = <<x, y>>
        PROVE  Outputs(r) <=> x = "output" \/ y = "output"
    <2>1. Len(replies[r]) = 2 /\ replies[r][1] = x /\ replies[r][2] = y
      BY <1>3
    <2> QED
      BY <2>1 DEF Outputs
  <1> QED
    BY <1>1, <1>2, <1>3 DEF Replies

\* Replies in order.
LEMMA Replied ==
    ASSUME NEW x \in Replies
    PROVE  /\ Append(<<>>, x) = <<x>>
           /\ \A y \in Replies : Append(<<y>>, x) = <<y, x>>
           /\ Len(<<>>) = 0 /\ Len(<<x>>) = 1
  <1>1. Append(<<>>, x) = <<x>>
    OBVIOUS
  <1>2. Len(<<>>) = 0 /\ Len(<<x>>) = 1
    BY EmptySeq
  <1>3. ASSUME NEW y \in Replies PROVE Append(<<y>>, x) = <<y, x>>
    <2>1. <<y>> \in Seq(Replies) /\ Len(<<y>>) = 1 /\ <<y>>[1] = y
      OBVIOUS
    <2>2. /\ Append(<<y>>, x) \in Seq(Replies) /\ Len(Append(<<y>>, x)) = 2
          /\ Append(<<y>>, x)[1] = y /\ Append(<<y>>, x)[2] = x
      BY <2>1, AppendProperties
    <2>3. /\ <<y, x>> \in Seq(Replies) /\ Len(<<y, x>>) = 2
          /\ <<y, x>>[1] = y /\ <<y, x>>[2] = x
      OBVIOUS
    <2>4. \A i \in 1..2 : i = 1 \/ i = 2
      OBVIOUS
    <2> QED
      BY <2>2, <2>3, <2>4, SeqEqual
  <1> QED
    BY <1>1, <1>2, <1>3

\* A step that leaves a request's context alone.
LEMMA OutputsSame ==
    ASSUME NEW r \in Reqs, replies'[r] = replies[r]
    PROVE  Outputs(r)' <=> Outputs(r)
  BY DEF Outputs

\* A write.
LEMMA WriteEffect ==
    ASSUME TypeOK, NEW r \in Reqs, NEW reply \in Replies, Write(r, reply)
    PROVE  /\ replies'[r] = Append(replies[r], reply)
           /\ \A s \in Reqs \ {r} : replies'[s] = replies[s] /\ (s \in cancelled' <=> s \in cancelled)
           /\ r \in cancelled'
           /\ Outputs(r)' <=> Outputs(r) \/ reply = "output"
           /\ \A s \in Reqs \ {r} : Outputs(s)' <=> Outputs(s)
  <1>1. /\ replies'[r] = Append(replies[r], reply)
        /\ \A s \in Reqs \ {r} : replies'[s] = replies[s] /\ (s \in cancelled' <=> s \in cancelled)
        /\ r \in cancelled'
    BY DEF Write, TypeOK
  <1>2. replies[r] \in Seq(Replies)
    BY DEF TypeOK
  <1>3. In("output", Append(replies[r], reply)) <=> In("output", replies[r]) \/ reply = "output"
    BY <1>2, AppendQueue
  <1>4. Outputs(r)' <=> Outputs(r) \/ reply = "output"
    BY <1>1, <1>3 DEF Outputs, In
  <1> QED
    BY <1>1, <1>4, OutputsSame

LEMMA RequestInit == Init => RequestFacts
  <1> SUFFICES ASSUME Init PROVE RequestFacts
    OBVIOUS
  <1>1. Queues /\ \A r \in Reqs : Fresh(r)
    BY EmptyQueue DEF Init, Queues, Fresh
  <1>2. \A r \in Reqs : ~Outputs(r)
    BY OutputsShape DEF Init
  <1>3. \A r \in Reqs : Route(r)
    BY <1>1, EmptyQueue, CommandAssumption DEF Init, Route, Fresh
  <1>4. \A r \in Reqs : Entry(r) /\ Written(r)
    BY DEF Init, Entry, Written
  <1> QED
    BY <1>1, <1>2, <1>3, <1>4 DEF RequestFacts, OutputIsEarned

\* A step that takes a request on, and every other one not back.
LEMMA RequestHandler ==
    ASSUME TypeOK, RequestFacts, NEW r \in Reqs, HandlerStep(r)
    PROVE  RequestFacts'
  <1> USE DEF device
  <1>0. /\ Queues /\ OutputIsEarned
        /\ \A s \in Reqs : Route(s) /\ Entry(s) /\ Written(s)
    BY DEF RequestFacts
  <1>a. \A from, to : Move(r, from, to) =>
            /\ pc[r] = from /\ pc'[r] = to
            /\ \A s \in Reqs \ {r} : pc'[s] = pc[s]
    BY DEF Move, TypeOK
  <1>1. CASE Refuse(r)
    <2>1. PICK reply \in {"offline", "invalid"} : Write(r, reply)
      BY <1>1 DEF Refuse
    <2>2. /\ replies'[r] = Append(replies[r], reply)
          /\ \A s \in Reqs \ {r} : replies'[s] = replies[s] /\ (s \in cancelled' <=> s \in cancelled)
          /\ \A s \in Reqs : Outputs(s)' <=> Outputs(s)
      BY <2>1, WriteEffect DEF Replies
    <2>3. /\ pc[r] = "start" /\ pc'[r] = "returned"
          /\ \A s \in Reqs \ {r} : pc'[s] = pc[s]
          /\ UNCHANGED <<wait, commands, held, cmdReqQ, cmdRespQ, outbox, running, executed>>
      BY <1>1, <1>a DEF Refuse, Reject
    <2>4. replies[r] = <<>> /\ Fresh(r)
      BY <1>0, <2>3 DEF Written, Route
    <2>5. \A s \in Reqs : Fresh(s)' <=> Fresh(s)
      BY <2>3 DEF Fresh
    <2>6. replies'[r] \in {<<"offline">>, <<"invalid">>}
      BY <2>2, <2>4
    <2>7. \A s \in Reqs : Route(s)'
      BY <1>0, <2>2, <2>3, <2>5 DEF Route, Fresh
    <2>8. \A s \in Reqs : Entry(s)'
      BY <1>0, <2>2, <2>3 DEF Entry
    <2>9. \A s \in Reqs : Written(s)'
      BY <1>0, <2>2, <2>3, <2>4, <2>5, <2>6 DEF Written
    <2> QED
      BY <1>0, <2>2, <2>3, <2>7, <2>8, <2>9 DEF RequestFacts, Queues, OutputIsEarned
  <1>2. CASE Post(r)
    <2>1. /\ pc[r] = "start" /\ pc'[r] = "posted"
          /\ \A s \in Reqs \ {r} : pc'[s] = pc[s]
          /\ cmdReqQ' = Append(cmdReqQ, r)
          /\ UNCHANGED <<wait, replies, cancelled, commands, held, cmdRespQ, outbox, running, executed>>
      BY <1>2, <1>a DEF Post
    <2>2. Fresh(r) /\ replies[r] = <<>> /\ r \notin cancelled
      BY <1>0, <2>1 DEF Route, Written
    <2>3. /\ \A s : In(s, cmdReqQ') <=> In(s, cmdReqQ) \/ s = r
          /\ Once(cmdReqQ')
      BY <1>0, <2>1, <2>2, AppendQueue DEF TypeOK, Queues, Fresh
    <2>4. \A s \in Reqs : Outputs(s)' <=> Outputs(s)
      BY <2>1, OutputsSame
    <2>5. \A s \in Reqs \ {r} : Fresh(s)' <=> Fresh(s)
      BY <2>1, <2>3 DEF Fresh
    <2>6. \A s \in Reqs : Route(s)'
      BY <1>0, <2>1, <2>2, <2>3, <2>4, <2>5 DEF Route, Fresh
    <2>7. \A s \in Reqs : Entry(s)' /\ Written(s)'
      BY <1>0, <2>1, <2>2, <2>4, <2>5 DEF Entry, Written
    <2> QED
      BY <1>0, <2>1, <2>3, <2>4, <2>6, <2>7 DEF RequestFacts, Queues, OutputIsEarned
  <1>3. CASE ReturnAtOnce(r) \/ Await(r) \/ Answered(r)
    <2>1. /\ pc[r] \in {"posted", "waiting"} /\ pc'[r] \in {"waiting", "returned"}
          /\ \A s \in Reqs \ {r} : pc'[s] = pc[s]
          /\ UNCHANGED <<wait, replies, cancelled, held, cmdReqQ, cmdRespQ, outbox, running, executed>>
          /\ \A s \in Reqs \ {r} : s \in commands' <=> s \in commands
      BY <1>3, <1>a DEF ReturnAtOnce, Await, Answered
    <2>2. \/ pc[r] = "posted" /\ pc'[r] = "returned" /\ ~wait[r] /\ commands' = commands
          \/ pc[r] = "posted" /\ pc'[r] = "waiting" /\ wait[r]
          \/ pc[r] = "waiting" /\ pc'[r] = "returned" /\ r \in cancelled /\ commands' = commands
      BY <1>3, <1>a DEF ReturnAtOnce, Await, Answered
    <2>3. \A s \in Reqs : (Fresh(s)' <=> Fresh(s)) /\ (Outputs(s)' <=> Outputs(s))
      BY <2>1, OutputsSame DEF Fresh
    <2>4. pc'[r] = "returned" => \/ replies[r] = <<>> /\ ~wait[r] /\ r \notin commands'
                                 \/ replies[r] = <<"output">> /\ Outputs(r)
      BY <1>0, <2>2, OutputsShape DEF Written, Entry
    <2>5. \A s \in Reqs : Route(s)'
      BY <1>0, <2>1, <2>2, <2>3 DEF Route
    <2>6. \A s \in Reqs : Entry(s)'
      BY <1>0, <2>1, <2>2, <2>3, <2>4 DEF Entry
    <2>7. \A s \in Reqs : Written(s)'
      BY <1>0, <2>1, <2>2, <2>3, <2>4 DEF Written
    <2> QED
      BY <1>0, <2>1, <2>3, <2>5, <2>6, <2>7 DEF RequestFacts, Queues, OutputIsEarned
  <1>4. CASE TimedOut(r)
    <2>1. /\ pc[r] = "waiting" /\ pc'[r] = "returned"
          /\ \A s \in Reqs \ {r} : pc'[s] = pc[s]
          /\ commands' = commands \ {r}
          /\ UNCHANGED <<wait, held, cmdReqQ, cmdRespQ, outbox, running, executed>>
      BY <1>4, <1>a DEF TimedOut, Forget
    <2>2. /\ replies'[r] = Append(replies[r], "timeout")
          /\ \A s \in Reqs \ {r} : replies'[s] = replies[s] /\ (s \in cancelled' <=> s \in cancelled)
          /\ \A s \in Reqs : Outputs(s)' <=> Outputs(s)
      BY <1>4, WriteEffect DEF TimedOut, TimeoutReply, Replies
    <2>3. replies'[r] \in {<<"timeout">>, <<"output", "timeout">>}
      <3>1. replies[r] \in {<<>>, <<"output">>}
        BY <1>0, <2>1 DEF Written
      <3> QED
        BY <2>2, <3>1, Replied DEF Replies
    <2>4. \A s \in Reqs : Fresh(s)' <=> Fresh(s)
      BY <2>1 DEF Fresh
    <2>5. \A s \in Reqs : Route(s)'
      BY <1>0, <2>1, <2>2, <2>4 DEF Route
    <2>6. \A s \in Reqs : Entry(s)'
      BY <1>0, <2>1, <2>2 DEF Entry
    <2>7. \A s \in Reqs : Written(s)'
      BY <1>0, <2>1, <2>2, <2>3, <2>4 DEF Written
    <2> QED
      BY <1>0, <2>1, <2>2, <2>5, <2>6, <2>7 DEF RequestFacts, Queues, OutputIsEarned
  <1> QED
    BY <1>1, <1>2, <1>3, <1>4 DEF HandlerStep

\* The broker takes a request on.
LEMMA RequestBroker ==
    ASSUME TypeOK, RequestFacts, NEW r \in Reqs, BrokerStep(r)
    PROVE  RequestFacts'
  <1> USE CommandAssumption DEF device, handler
  <1>0. /\ Queues /\ OutputIsEarned
        /\ \A s \in Reqs : Route(s) /\ Entry(s) /\ Written(s)
    BY DEF RequestFacts
  <1>1. CASE ForwardCmd(r)
    <2>1. /\ cmdReqQ # <<>> /\ r = Head(cmdReqQ) /\ cmdReqQ' = Tail(cmdReqQ)
          /\ outbox' = Append(outbox, r) \/ outbox' = outbox
          /\ UNCHANGED <<pc, wait, replies, cancelled, commands, held, cmdRespQ, running, executed>>
      BY <1>1 DEF ForwardCmd
    <2>2. /\ In(r, cmdReqQ) /\ Once(cmdReqQ') /\ ~In(r, cmdReqQ')
          /\ \A s : In(s, cmdReqQ') => In(s, cmdReqQ)
      BY <1>0, <2>1, TailQueue DEF TypeOK, Queues
    <2>3. ~In(r, outbox) /\ r \notin running \cup executed
      BY <1>0, <2>2 DEF Route
    <2>4. /\ \A s : In(s, outbox') => In(s, outbox) \/ s = r
          /\ Once(outbox')
      <3>1. outbox \in Seq(Reqs) /\ Once(outbox)
        BY <1>0 DEF TypeOK, Queues
      <3>2. /\ \A s : In(s, Append(outbox, r)) => In(s, outbox) \/ s = r
            /\ Once(Append(outbox, r))
        BY <2>3, <3>1, AppendQueue
      <3> QED
        BY <2>1, <3>1, <3>2
    <2>5. \A s \in Reqs : Outputs(s)' <=> Outputs(s)
      BY <2>1, OutputsSame
    <2>6. \A s \in Reqs : Fresh(s) => Fresh(s)'
      BY <2>1, <2>2, <2>4 DEF Fresh
    <2>7. \A s \in Reqs : Route(s)'
      BY <1>0, <2>1, <2>2, <2>3, <2>4, <2>5, <2>6 DEF Route
    <2>8. \A s \in Reqs : Entry(s)' /\ Written(s)'
      BY <1>0, <2>1, <2>5, <2>6 DEF Entry, Written
    <2> QED
      BY <1>0, <2>1, <2>2, <2>4, <2>5, <2>7, <2>8 DEF RequestFacts, Queues, OutputIsEarned
  <1>2. CASE LoadCmd(r)
    <2>1. /\ held = None /\ cmdRespQ # <<>> /\ r = Head(cmdRespQ) /\ cmdRespQ' = Tail(cmdRespQ)
          /\ (held' = r /\ r \in commands) \/ held' = None
          /\ UNCHANGED <<pc, wait, replies, cancelled, commands, cmdReqQ, outbox, running, executed>>
      BY <1>2 DEF LoadCmd, Lookup
    <2>2. /\ In(r, cmdRespQ) /\ Once(cmdRespQ') /\ ~In(r, cmdRespQ')
          /\ \A s : In(s, cmdRespQ') => In(s, cmdRespQ)
      BY <1>0, <2>1, TailQueue DEF TypeOK, Queues
    <2>3. \A s \in Reqs : (Fresh(s)' <=> Fresh(s)) /\ (Outputs(s)' <=> Outputs(s))
      BY <2>1, OutputsSame DEF Fresh
    <2>4. r \in executed /\ ~Outputs(r)
      BY <1>0, <2>2 DEF Route
    <2>5. \A s \in Reqs : Route(s)'
      BY <1>0, <2>1, <2>2, <2>3, <2>4 DEF Route, Entry
    <2>6. \A s \in Reqs : Entry(s)' /\ Written(s)'
      BY <1>0, <2>1, <2>3 DEF Entry, Written
    <2> QED
      BY <1>0, <2>1, <2>2, <2>3, <2>5, <2>6 DEF RequestFacts, Queues, OutputIsEarned
  <1>3. CASE HandleCmdResp(r)
    <2>1. /\ held = r /\ held' = None
          /\ UNCHANGED <<pc, wait, commands, cmdReqQ, cmdRespQ, outbox, running, executed>>
      BY <1>3 DEF HandleCmdResp
    <2>2. /\ replies'[r] = Append(replies[r], "output")
          /\ \A s \in Reqs \ {r} : replies'[s] = replies[s] /\ (s \in cancelled' <=> s \in cancelled)
          /\ Outputs(r)'
          /\ \A s \in Reqs \ {r} : Outputs(s)' <=> Outputs(s)
      BY <1>3, WriteEffect DEF HandleCmdResp, Replies
    <2>3. r \in executed /\ wait[r] /\ pc[r] \in {"waiting", "returned"} /\ ~Outputs(r)
      BY <1>0, <2>1 DEF Route
    <2>4. \/ pc[r] = "waiting" /\ replies[r] = <<>>
          \/ pc[r] = "returned" /\ replies[r] = <<"timeout">>
      BY <1>0, <2>3, OutputsShape DEF Written, Fresh
    <2>5. \/ pc[r] = "waiting" /\ replies'[r] = <<"output">>
          \/ pc[r] = "returned" /\ replies'[r] = <<"timeout", "output">>
      BY <2>2, <2>4, Replied DEF Replies
    <2>6. \A s \in Reqs : Fresh(s)' <=> Fresh(s)
      BY <2>1 DEF Fresh
    <2>7. \A s \in Reqs : Route(s)'
      BY <1>0, <2>1, <2>2, <2>6 DEF Route
    <2>8. \A s \in Reqs : Entry(s)'
      BY <1>0, <2>1, <2>2 DEF Entry
    <2>9. \A s \in Reqs : Written(s)'
      BY <1>0, <2>1, <2>2, <2>5, <2>6 DEF Written
    <2> QED
      BY <1>0, <2>1, <2>2, <2>3, <2>7, <2>8, <2>9 DEF RequestFacts, Queues, OutputIsEarned
  <1> QED
    BY <1>1, <1>2, <1>3 DEF BrokerStep

\* The device runs a command once, or loses it.
LEMMA RequestDevice ==
    ASSUME TypeOK, RequestFacts,
           (\E r \in Reqs : StartCmd(r) \/ FinishCmd(r)) \/ DeviceGoes \/ DeviceReturns
    PROVE  RequestFacts'
  <1> USE DEF handler
  <1>0. /\ Queues /\ OutputIsEarned
        /\ \A s \in Reqs : Route(s) /\ Entry(s) /\ Written(s)
    BY DEF RequestFacts
  <1>a. UNCHANGED <<pc, wait, replies, cancelled, commands, held, cmdReqQ>>
    BY DEF StartCmd, FinishCmd, DeviceGoes, DeviceReturns
  <1>b. \A s \in Reqs : Outputs(s)' <=> Outputs(s)
    BY <1>a, OutputsSame
  <1>c. ASSUME \A s \in Reqs : Fresh(s) => Fresh(s)' PROVE \A s \in Reqs : Entry(s)' /\ Written(s)'
    BY <1>0, <1>a, <1>b, <1>c DEF Entry, Written
  <1>1. ASSUME NEW r \in Reqs, StartCmd(r) PROVE RequestFacts'
    <2>1. /\ outbox # <<>> /\ r = Head(outbox) /\ outbox' = Tail(outbox)
          /\ running' = running \cup {r}
          /\ UNCHANGED <<cmdRespQ, executed>>
      BY <1>1 DEF StartCmd
    <2>2. /\ In(r, outbox) /\ Once(outbox') /\ ~In(r, outbox')
          /\ \A s : In(s, outbox') => In(s, outbox)
      BY <1>0, <2>1, TailQueue DEF TypeOK, Queues
    <2>3. r \notin running \cup executed /\ ~In(r, cmdReqQ)
      BY <1>0, <2>2 DEF Route
    <2>4. \A s \in Reqs : Fresh(s) => Fresh(s)'
      BY <1>a, <2>1, <2>2 DEF Fresh
    <2>5. \A s \in Reqs : Route(s)'
      BY <1>0, <1>a, <1>b, <2>1, <2>2, <2>3, <2>4 DEF Route
    <2> QED
      BY <1>0, <1>a, <1>b, <1>c, <2>1, <2>2, <2>4, <2>5 DEF RequestFacts, Queues, OutputIsEarned
  <1>2. ASSUME NEW r \in Reqs, FinishCmd(r) PROVE RequestFacts'
    <2>1. /\ r \in running /\ running' = running \ {r} /\ executed' = executed \cup {r}
          /\ cmdRespQ' = Append(cmdRespQ, r) \/ cmdRespQ' = cmdRespQ
          /\ UNCHANGED outbox
      BY <1>2 DEF FinishCmd
    <2>2. /\ r \notin executed /\ ~In(r, cmdReqQ) /\ ~In(r, outbox) /\ ~In(r, cmdRespQ)
          /\ held # r /\ ~Outputs(r)
      BY <1>0, <2>1 DEF Route, OutputIsEarned
    <2>3. /\ \A s : In(s, cmdRespQ') => In(s, cmdRespQ) \/ s = r
          /\ Once(cmdRespQ')
      <3>1. cmdRespQ \in Seq(Reqs) /\ Once(cmdRespQ)
        BY <1>0 DEF TypeOK, Queues
      <3>2. /\ \A s : In(s, Append(cmdRespQ, r)) => In(s, cmdRespQ) \/ s = r
            /\ Once(Append(cmdRespQ, r))
        BY <2>2, <3>1, AppendQueue
      <3> QED
        BY <2>1, <3>1, <3>2
    <2>4. \A s \in Reqs : Fresh(s) => Fresh(s)'
      BY <1>a, <2>1 DEF Fresh
    <2>5. \A s \in Reqs : Route(s)'
      BY <1>0, <1>a, <1>b, <2>1, <2>2, <2>3, <2>4 DEF Route
    <2> QED
      BY <1>0, <1>a, <1>b, <1>c, <2>1, <2>3, <2>4, <2>5 DEF RequestFacts, Queues, OutputIsEarned
  <1>3. CASE DeviceGoes \/ DeviceReturns
    <2>1. outbox' \in {outbox, <<>>} /\ UNCHANGED <<cmdRespQ, running, executed>>
      BY <1>3 DEF DeviceGoes, DeviceReturns
    <2>2. Once(outbox') /\ \A s : In(s, outbox') => In(s, outbox)
      BY <1>0, <2>1, EmptyQueue DEF Queues
    <2>3. \A s \in Reqs : Fresh(s) => Fresh(s)'
      BY <1>a, <2>1, <2>2 DEF Fresh
    <2>4. \A s \in Reqs : Route(s)'
      BY <1>0, <1>a, <1>b, <2>1, <2>2, <2>3 DEF Route
    <2> QED
      BY <1>0, <1>a, <1>b, <1>c, <2>1, <2>2, <2>3, <2>4 DEF RequestFacts, Queues, OutputIsEarned
  <1> QED
    BY <1>1, <1>2, <1>3

LEMMA RequestNext == RequestInv /\ [Next]_vars => RequestInv'
  <1> SUFFICES ASSUME TypeOK, RequestFacts, [Next]_vars PROVE RequestFacts'
    BY TypeNext DEF RequestInv
  <1>1. CASE UNCHANGED vars
    BY <1>1 DEF vars, handler, device, RequestFacts, Queues, Route, Entry, Written, Fresh, In, Once,
        OutputIsEarned, Outputs
  <1> QED
    BY <1>1, RequestHandler, RequestBroker, RequestDevice DEF Next

LEMMA RequestCorrect == Spec => []RequestInv
  <1>1. Init => RequestInv
    BY TypeInit, RequestInit DEF RequestInv
  <1> QED
    BY <1>1, RequestNext, PTL DEF Spec

\* A caller gets output only for a command that the device has run and for
\* which it waited, however responses, timers and lost connections interleave.
THEOREM OutputEarned == Spec => []OutputIsEarned
  <1>1. RequestInv => OutputIsEarned
    BY DEF RequestInv, RequestFacts
  <1> QED
    BY <1>1, RequestCorrect, PTL

\* A context is written to twice only by a timer and a response that meet.
THEOREM TwoReplies == Spec => []TwoRepliesOnlyAtTimeout
  <1>1. RequestInv => TwoRepliesOnlyAtTimeout
    <2> SUFFICES ASSUME RequestInv, NEW r \in Reqs, Len(replies[r]) > 1
                 PROVE  replies[r] \in {<<"timeout", "output">>, <<"output", "timeout">>}
      BY DEF TwoRepliesOnlyAtTimeout
    <2>1. Written(r) /\ pc[r] \in {"start", "posted", "waiting", "returned"}
      BY DEF RequestInv, RequestFacts, TypeOK
    <2>2. Len(<<>>) = 0 /\ \A x \in Replies : Len(<<x>>) = 1
      BY EmptySeq, Replied
    <2>3. replies[r] # <<>> /\ \A x \in Replies : replies[r] # <<x>>
      <3>1. Len(replies[r]) \in Nat
        <4>1. replies[r] \in Seq(Replies)
          BY DEF RequestInv, TypeOK
        <4> QED
          BY <4>1, LenProperties
      <3>2. \A n \in Nat : n > 1 => n # 0 /\ n # 1
        OBVIOUS
      <3> QED
        BY <2>2, <3>1, <3>2
    <2> QED
      BY <2>1, <2>3 DEF Written, Replies
  <1> QED
    BY <1>1, RequestCorrect, PTL

\* A response that comes after the timeout finds no entry: the broker does not
\* pick up a request whose handler has returned.
THEOREM LateDropped == Spec => LateResponseDropped
  <1>1. RequestInv /\ [Next]_vars =>
            [\A r \in Reqs : (pc[r] = "returned" /\ held' = r) => held = r]_vars
    <2> SUFFICES ASSUME RequestInv, Next, NEW r \in Reqs, pc[r] = "returned", held' = r
                 PROVE  held = r
      OBVIOUS
    <2>1. CASE held' = held
      BY <2>1
    <2>2. ASSUME NEW s \in Reqs, LoadCmd(s) PROVE FALSE
      <3>1. /\ cmdRespQ # <<>> /\ r = Head(cmdRespQ) /\ r \in commands
        BY <2>2, CommandAssumption DEF LoadCmd, Lookup
      <3>2. In(r, cmdRespQ) /\ Route(r) /\ Entry(r)
        BY <3>1, TailQueue DEF RequestInv, RequestFacts, TypeOK
      <3> QED
        BY <3>1, <3>2 DEF Route, Entry
    <2>3. ASSUME NEW s \in Reqs, HandleCmdResp(s) PROVE FALSE
      BY <2>3, CommandAssumption DEF HandleCmdResp
    <2>4. ASSUME NEW s \in Reqs, HandlerStep(s) \/ ForwardCmd(s) \/ StartCmd(s) \/ FinishCmd(s)
          PROVE  held' = held
      BY <2>4 DEF HandlerStep, Refuse, Post, ReturnAtOnce, Await, TimedOut, Answered,
          ForwardCmd, StartCmd, FinishCmd
    <2>5. DeviceGoes \/ DeviceReturns => held' = held
      BY DEF DeviceGoes, DeviceReturns
    <2> QED
      BY <2>1, <2>2, <2>3, <2>4, <2>5 DEF Next, BrokerStep
  <1> QED
    BY <1>1, RequestCorrect, PTL DEF Spec, LateResponseDropped
=============================================================================
