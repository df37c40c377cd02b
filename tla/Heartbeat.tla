------------------------------ MODULE Heartbeat ------------------------------
(* When the server gives a device's connection up for silent: the ticks of *)
(* writeLoop (device.go).  Every tick of a second counts an inactive       *)
(* device, every heartbeat of the server's own sets the count back, and    *)
(* the count must pass three to close the connection; between them is one  *)
(* tick.  Time passes in steps, Second of them a second, so that a tick    *)
(* may be served late: the loop is busy while conn.Write blocks, and the   *)
(* ticker keeps one tick and drops the others.                             *)
(*                                                                         *)
(* What other modules have too (Init, Next, Spec, ...) bears the module's  *)
(* name, so that DeviceProofs can extend this module beside another.       *)
EXTENDS Naturals

CONSTANTS
    Second,      \* steps of a second
    MaxSilence   \* steps after which silence is not counted further

Interval  == 5 * Second             \* heartbeatInterval
Threshold == (3 * Interval) \div 2

ASSUME HeartbeatAssumption ==
    Second \in Nat \ {0} /\ MaxSilence \in Nat /\ MaxSilence > 2 * Interval

VARIABLES
    state,       \* of the connection: "open", "killed" for silence, "closed"
    registered,  \* dev.id is set
    gone,        \* the peer has vanished
    silence,     \* since dev.active
    next,        \* until the ticker's next tick
    tick,        \* a tick is in ticker.C
    since,       \* since lastHeartbeat
    ninactive,
    busy,        \* the loop is in conn.Write
    stalled      \* a write has blocked so long that a tick was dropped (history)

heartbeatVars == <<state, registered, gone, silence, next, tick, since, ninactive, busy, stalled>>

HeartbeatTypeOK ==
    /\ state \in {"open", "killed", "closed"}
    /\ registered \in BOOLEAN /\ gone \in BOOLEAN
    /\ silence \in 0..MaxSilence
    /\ next \in 1..Second
    /\ tick \in BOOLEAN
    /\ since \in 0..Interval
    /\ ninactive \in 0..4
    /\ busy \in BOOLEAN /\ stalled \in BOOLEAN

HeartbeatInit ==
    /\ state = "open"
    /\ registered = FALSE /\ gone = FALSE
    /\ silence = 0
    /\ next = Second
    /\ tick = FALSE
    /\ since = 0
    /\ ninactive = 0
    /\ busy = FALSE /\ stalled = FALSE

Upto(n, max) == IF n > max THEN max ELSE n

\* A tick is served at once, unless the loop is busy.
Elapse ==
    /\ state = "open"
    /\ tick => busy
    /\ silence' = Upto(silence + 1, MaxSilence)
    /\ since' = Upto(since + 1, Interval)
    /\ next' = IF next = 1 THEN Second ELSE next - 1
    /\ tick' = (tick \/ next = 1)
    /\ stalled' = (stalled \/ (tick /\ next = 1))
    /\ UNCHANGED <<state, registered, gone, ninactive, busy>>

\* The device sends a message, its own heartbeat or the answer to the server's.
Speak ==
    /\ state = "open" /\ ~gone
    /\ silence' = 0
    /\ registered' = TRUE
    /\ UNCHANGED <<state, gone, next, tick, since, ninactive, busy, stalled>>

Vanish ==
    /\ ~gone
    /\ gone' = TRUE
    /\ UNCHANGED <<state, registered, silence, next, tick, since, ninactive, busy, stalled>>

WriteBlocks ==
    /\ state = "open" /\ ~busy
    /\ busy' = TRUE
    /\ UNCHANGED <<state, registered, gone, silence, next, tick, since, ninactive, stalled>>

\* What blocks on a peer that has vanished fails in the end.
WriteReturns ==
    /\ state = "open" /\ busy
    /\ busy' = FALSE
    /\ state' = IF gone THEN "closed" ELSE "open"
    /\ UNCHANGED <<registered, gone, silence, next, tick, since, ninactive, stalled>>

Inactive == silence > Threshold

Passed == ninactive > 3

HeartbeatEarly == since >= Interval - Second  \* mutant: a heartbeat every four ticks
HeartbeatDue == since >= Interval

CountedForever == IF Inactive THEN ninactive + 1 ELSE ninactive  \* mutant: it is not set back

\* The server's heartbeat sets the count back.
Counted == IF HeartbeatDue THEN 0 ELSE IF Inactive THEN ninactive + 1 ELSE ninactive

ServeTick ==
    /\ state = "open" /\ tick /\ ~busy
    /\ ~(Inactive /\ (Passed \/ ~registered))
    /\ tick' = FALSE
    /\ ninactive' = Counted
    /\ since' = IF HeartbeatDue THEN 0 ELSE since
    /\ UNCHANGED <<state, registered, gone, silence, next, busy, stalled>>

Kill ==
    /\ state = "open" /\ tick /\ ~busy
    /\ Inactive /\ (Passed \/ ~registered)
    /\ state' = "killed"
    /\ UNCHANGED <<registered, gone, silence, next, tick, since, ninactive, busy, stalled>>

HeartbeatNext == Elapse \/ Speak \/ Vanish \/ WriteBlocks \/ WriteReturns \/ ServeTick \/ Kill

HeartbeatSpec == HeartbeatInit /\ [][HeartbeatNext]_heartbeatVars

\* Time passes, the loop serves its ticks, and no write blocks for good.
HeartbeatFairSpec ==
    /\ HeartbeatSpec
    /\ WF_heartbeatVars(Elapse)
    /\ WF_heartbeatVars(ServeTick \/ Kill)
    /\ WF_heartbeatVars(WriteReturns)

-----------------------------------------------------------------------------
(* Properties.                                                             *)

\* A registered device is given up only after two intervals of silence, also
\* if ticks were late: one lost or late heartbeat costs no connection.  After
\* a write that blocked past a tick the count may be of an earlier silence.
KilledOnlySilent ==
    state = "killed" /\ registered /\ ~stalled => silence > 2 * Interval

\* The connection of a device that has vanished is closed, although the
\* server's own heartbeats set the count back every five ticks.
GoneIsClosed == gone ~> (state # "open")
=============================================================================
