------------------------------ MODULE Command -------------------------------
(* Remote command execution: the HTTP handler of POST /cmd/:devid          *)
(* (command.go), the broker arms that forward a command and match its      *)
(* response (broker.go), and the device program that runs it.              *)
(*                                                                         *)
(* A request is identified with the token drawn for it.  The reply to a    *)
(* request is written through its gin context, which the web framework     *)
(* reuses for other requests as soon as the handler has returned.          *)
EXTENDS Naturals, Sequences

CONSTANTS Reqs, None

ASSUME CommandAssumption == None \notin Reqs

VARIABLES
    pc,        \* of the handler: start, posted, waiting, returned
    wait,      \* the wait parameter: 0 or a number of seconds, by request
    replies,   \* what has been written to the request's context, in order
    cancelled, \* requests whose context.CancelFunc has been called
    commands,  \* the table of pending commands, by token
    held,      \* the request the broker has looked up and is answering
    online,    \* the device is registered (the session registry's part)
    cmdReqQ, cmdRespQ,  \* the broker's channels
    outbox,    \* commands on their way to the device
    running,   \* commands that the device program is executing
    executed   \* commands that the device program has finished

handler == <<pc, wait, replies, cancelled>>
device  == <<online, outbox, running, executed>>
vars == <<handler, commands, held, cmdReqQ, cmdRespQ, device>>

Replies == {"offline", "invalid", "output", "timeout"}

TypeOK ==
    /\ pc \in [Reqs -> {"start", "posted", "waiting", "returned"}]
    /\ wait \in [Reqs -> BOOLEAN]
    /\ replies \in [Reqs -> Seq(Replies)]
    /\ cancelled \subseteq Reqs
    /\ commands \subseteq Reqs
    /\ held \in Reqs \cup {None}
    /\ online \in BOOLEAN
    /\ cmdReqQ \in Seq(Reqs)
    /\ cmdRespQ \in Seq(Reqs)
    /\ outbox \in Seq(Reqs)
    /\ running \subseteq Reqs
    /\ executed \subseteq Reqs

Init ==
    /\ pc = [r \in Reqs |-> "start"]
    /\ wait \in [Reqs -> BOOLEAN]
    /\ replies = [r \in Reqs |-> <<>>]
    /\ cancelled = {}
    /\ commands = {}
    /\ held = None
    /\ online = TRUE
    /\ cmdReqQ = <<>>
    /\ cmdRespQ = <<>>
    /\ outbox = <<>>
    /\ running = {}
    /\ executed = {}

-----------------------------------------------------------------------------
(* The handler.                                                            *)

Move(r, from, to) == pc[r] = from /\ pc' = [pc EXCEPT ![r] = to]

Write(r, reply) ==
    /\ replies' = [replies EXCEPT ![r] = Append(@, reply)]
    /\ cancelled' = cancelled \cup {r}

RejectAndGoOn(r) == Move(r, "start", "posted")  \* mutant: return forgotten
Reject(r) == Move(r, "start", "returned")

\* The device is not in br.devices, or the body cannot be read or parsed.
Refuse(r) ==
    /\ Reject(r)
    /\ \/ ~online /\ Write(r, "offline")
       \/ online /\ Write(r, "invalid")
    /\ UNCHANGED <<wait, commands, held, cmdReqQ, cmdRespQ, device>>

\* The command is posted before it is stored in the table of pending ones.
Post(r) ==
    /\ Move(r, "start", "posted")
    /\ online
    /\ cmdReqQ' = Append(cmdReqQ, r)
    /\ UNCHANGED <<wait, replies, cancelled, commands, held, cmdRespQ, device>>

\* A caller that does not want to wait gets an empty answer and no entry.
ReturnAtOnce(r) ==
    /\ Move(r, "posted", "returned")
    /\ ~wait[r]
    /\ UNCHANGED <<wait, replies, cancelled, commands, held, cmdReqQ, cmdRespQ, device>>

Await(r) ==
    /\ Move(r, "posted", "waiting")
    /\ wait[r]
    /\ commands' = commands \cup {r}
    /\ UNCHANGED <<wait, replies, cancelled, held, cmdReqQ, cmdRespQ, device>>

Remember(r) == commands  \* mutant: the token is not deleted
Forget(r) == commands \ {r}

SilentTimeout(r) == UNCHANGED <<replies, cancelled>>  \* mutant
TimeoutReply(r) == Write(r, "timeout")

\* The timer arm, which select may pick although the other one is ready too.
TimedOut(r) ==
    /\ Move(r, "waiting", "returned")
    /\ TimeoutReply(r)
    /\ commands' = Forget(r)
    /\ UNCHANGED <<wait, held, cmdReqQ, cmdRespQ, device>>

\* The context was cancelled: the reply has been written.  The entry stays.
Answered(r) ==
    /\ Move(r, "waiting", "returned")
    /\ r \in cancelled
    /\ UNCHANGED <<wait, replies, cancelled, commands, held, cmdReqQ, cmdRespQ, device>>

-----------------------------------------------------------------------------
(* The broker, which serves one message at a time (held = None).           *)

ForwardCmd(r) ==
    /\ held = None
    /\ cmdReqQ # <<>> /\ r = Head(cmdReqQ)
    /\ cmdReqQ' = Tail(cmdReqQ)
    /\ outbox' = IF online THEN Append(outbox, r) ELSE outbox
    /\ UNCHANGED <<handler, commands, held, cmdRespQ, online, running, executed>>

\* handleCmdResp looks the token up ...
LookupAny(r) == r               \* mutant: the table is not consulted
Lookup(r) == IF r \in commands THEN r ELSE None

LoadCmd(r) ==
    /\ held = None
    /\ cmdRespQ # <<>> /\ r = Head(cmdRespQ)
    /\ cmdRespQ' = Tail(cmdRespQ)
    /\ held' = Lookup(r)
    /\ UNCHANGED <<handler, commands, cmdReqQ, device>>

\* ... and writes to the context it found, whatever has happened since.
HandleCmdResp(r) ==
    /\ held = r
    /\ held' = None
    /\ Write(r, "output")
    /\ UNCHANGED <<pc, wait, commands, cmdReqQ, cmdRespQ, device>>

-----------------------------------------------------------------------------
(* The device: every command runs in a goroutine of its own, which outlives*)
(* a lost connection and answers over the next one.                        *)

StartCmd(r) ==
    /\ online
    /\ outbox # <<>> /\ r = Head(outbox)
    /\ outbox' = Tail(outbox)
    /\ running' = running \cup {r}
    /\ UNCHANGED <<handler, commands, held, cmdReqQ, cmdRespQ, online, executed>>

FinishCmd(r) ==
    /\ r \in running
    /\ running' = running \ {r}
    /\ executed' = executed \cup {r}
    /\ cmdRespQ' = IF online THEN Append(cmdRespQ, r) ELSE cmdRespQ
    /\ UNCHANGED <<handler, commands, held, cmdReqQ, online, outbox>>

\* The connection is lost, with what is still to be read from it, or back.
DeviceGoes ==
    /\ online
    /\ online' = FALSE
    /\ outbox' = <<>>
    /\ UNCHANGED <<handler, commands, held, cmdReqQ, cmdRespQ, running, executed>>

DeviceReturns ==
    /\ ~online
    /\ online' = TRUE
    /\ UNCHANGED <<handler, commands, held, cmdReqQ, cmdRespQ, outbox, running, executed>>

-----------------------------------------------------------------------------
HandlerStep(r) == Refuse(r) \/ Post(r) \/ ReturnAtOnce(r) \/ Await(r)
                  \/ TimedOut(r) \/ Answered(r)
BrokerStep(r) == ForwardCmd(r) \/ LoadCmd(r) \/ HandleCmdResp(r)

Next ==
    \/ \E r \in Reqs : HandlerStep(r) \/ BrokerStep(r)
    \/ \E r \in Reqs : StartCmd(r) \/ FinishCmd(r)
    \/ DeviceGoes \/ DeviceReturns

Spec == Init /\ [][Next]_vars

\* The handler's goroutine runs and its timer fires; the broker serves its
\* channels.  The device owes nothing.
FairSpec ==
    /\ Spec
    /\ \A r \in Reqs : WF_vars(pc[r] # "start" /\ HandlerStep(r))
    /\ WF_vars(\E r \in Reqs : BrokerStep(r))

-----------------------------------------------------------------------------
(* Properties.                                                             *)

Outputs(r) == \E i \in 1..Len(replies[r]) : replies[r][i] = "output"

\* A caller gets output only for a command that the device has run and that
\* waited for it: not after a refusal, not for a caller that did not wait.
OutputIsEarned ==
    \A r \in Reqs : Outputs(r) => r \in executed /\ wait[r]

\* A request gets one reply.  A second write to its context, which by then
\* may serve another request, takes a timer and a response that meet.
TwoRepliesOnlyAtTimeout ==
    \A r \in Reqs : Len(replies[r]) > 1
        => replies[r] \in {<<"timeout", "output">>, <<"output", "timeout">>}

\* The broker never picks up a request whose handler has returned: a response
\* that comes after the timeout is dropped, so only the request that the
\* broker was holding at that moment is written to late.
LateResponseDropped ==
    [][\A r \in Reqs : (pc[r] = "returned" /\ held' = r) => held = r]_vars

\* Every request whose command was posted returns, and a caller that waits is
\* given something, although the device may never answer, or may answer
\* before the token is stored.
WaiterAnswered ==
    \A r \in Reqs : pc[r] = "posted"
        ~> (pc[r] = "returned" /\ (wait[r] => replies[r] # <<>>))
=============================================================================
