------------------------------ MODULE Accounts ------------------------------
(* Who may do what with which device: the handlers of api.go that sign up, *)
(* in and out, bind, unbind and delete, the cache of HTTP sessions and its *)
(* sweep (cache/cache.go), and the row that a device has once it has       *)
(* registered (UpdateDb in device.go).  Handlers run concurrently; each    *)
(* statement of the database and each operation of the cache is one step.  *)
EXTENDS Integers, FiniteSets

CONSTANTS
    Users, Devices,
    Sids,     \* session identifiers, each generated once
    Reqs,     \* concurrent HTTP requests
    TTL,      \* lifetime of an idle session (30 minutes)
    MaxTime,  \* bound on the clock
    Nobody,   \* the empty username
    Local,    \* in place of a sid: a local request, if the configuration trusts them
    None

ASSUME AccountsAssumption ==
    /\ {Nobody, None} \cap Users = {} /\ Nobody # None
    /\ None \notin Devices
    /\ {None, Local} \cap Sids = {}
    /\ None \notin {"user", "admin"}
    /\ TTL \in Nat /\ MaxTime \in Nat

VARIABLES
    account,    \* of a username: None, "user" or "admin"
    live,       \* sids in httpSessions
    owner,      \* username of a sid, None before the sign-in
    expires,    \* expiration of a sid
    now,        \* the clock
    row,        \* of a device: its owner, Nobody, or None without a row
    online,     \* devices in br.devices
    updating,   \* device whose row the broker updates: [dev, found], dev # None
    req,        \* of a request: [at, user, dev, flag, sid], "idle" when there is none
    sweep,      \* the sweep: [at, time, todo, doomed]
    signedOut,  \* sids that have been signed out (history)
    used,       \* time of the last request a sid was accepted for (history)
    late,       \* sids renewed when they had expired already (history)
    crowded,    \* two sign-ups have overlapped while there was no account (history)
    missed      \* devices that were deleted while they registered (history)

sessions == <<live, owner, expires, sweep>>
devices  == <<row, online, updating>>
history  == <<signedOut, used, late>>
vars == <<account, sessions, now, devices, req, history, crowded, missed>>

Idle == [at |-> "idle", user |-> None, dev |-> None, flag |-> FALSE, sid |-> None]
Names == Users \cup {Nobody, None}

TypeOK ==
    /\ account \in [Users -> {None, "user", "admin"}]
    /\ live \subseteq {s \in Sids : owner[s] # None}
    /\ owner \in [Sids -> Users \cup {None}]
    /\ expires \in [Sids -> 0..(MaxTime + TTL)]
    /\ now \in 0..MaxTime
    /\ row \in [Devices -> Names]
    /\ online \subseteq Devices
    /\ updating \in [dev : Devices \cup {None}, at : {"idle", "count", "exec"}, found : BOOLEAN]
    /\ req \in [Reqs -> [at : {"idle", "admin", "name", "insert", "renew", "target", "bind",
                               "unbind", "delete"},
                         user : Names, dev : Devices \cup {None}, flag : BOOLEAN,
                         sid : Sids \cup {None}]]
    /\ \A r \in Reqs : /\ req[r].at = "delete" => req[r].user # None
                      /\ req[r].at = "renew" => req[r].sid \in Sids
    /\ sweep \in [at : {"idle", "look", "delete"}, time : 0..MaxTime, todo : SUBSET Sids,
                  doomed : SUBSET Sids]
    /\ signedOut \cup late \subseteq Sids
    /\ used \in [Sids -> 0..MaxTime]
    /\ crowded \in BOOLEAN
    /\ missed \subseteq Devices

NoSweep == [at |-> "idle", time |-> 0, todo |-> {}, doomed |-> {}]
NoUpdate == [dev |-> None, at |-> "idle", found |-> FALSE]

Init ==
    /\ account = [u \in Users |-> None]
    /\ live = {}
    /\ owner = [s \in Sids |-> None]
    /\ expires = [s \in Sids |-> 0]
    /\ now = 0
    /\ row = [d \in Devices |-> None]
    /\ online = {}
    /\ updating = NoUpdate
    /\ req = [r \in Reqs |-> Idle]
    /\ sweep = NoSweep
    /\ signedOut = {} /\ late = {}
    /\ used = [s \in Sids |-> 0]
    /\ crowded = FALSE
    /\ missed = {}

\* r goes on to a statement, remembering what the handler's locals hold.
Goto(r, at, user, dev, flag, sid) ==
    req' = [req EXCEPT ![r] = [at |-> at, user |-> user, dev |-> dev, flag |-> flag, sid |-> sid]]
Return(r) == req' = [req EXCEPT ![r] = Idle]

Tick ==
    /\ now < MaxTime
    /\ now' = now + 1
    /\ UNCHANGED <<account, sessions, devices, req, history, crowded, missed>>

-----------------------------------------------------------------------------
(* /signup: two counts and an insertion.                                   *)

Exists == \E u \in Users : account[u] # None
SigningUp(r) == req[r].at \in {"admin", "name", "insert"}

SignUp(r, u) ==
    /\ req[r].at = "idle"
    /\ Goto(r, "admin", u, None, FALSE, None)
    /\ crowded' = (crowded \/ (~Exists /\ \E q \in Reqs \ {r} : SigningUp(q)))
    /\ UNCHANGED <<account, sessions, now, devices, history, missed>>

\* mutant: the first count is the count of the name
CountNameOnly(r) ==
    /\ req[r].at = "admin"
    /\ Goto(r, "name", req[r].user, None, account[req[r].user] = None, None)
    /\ UNCHANGED <<account, sessions, now, devices, history, crowded, missed>>

CountAccounts(r) ==
    /\ req[r].at = "admin"
    /\ Goto(r, "name", req[r].user, None, ~Exists, None)
    /\ UNCHANGED <<account, sessions, now, devices, history, crowded, missed>>

CountName(r) ==
    /\ req[r].at = "name"
    /\ IF account[req[r].user] = None
       THEN req' = [req EXCEPT ![r].at = "insert"]
       ELSE Return(r)
    /\ UNCHANGED <<account, sessions, now, devices, history, crowded, missed>>

\* The name is the primary key: of two insertions one fails.
Inserted(r) ==
    LET u == req[r].user IN
    IF account[u] # None THEN account[u] ELSE IF req[r].flag THEN "admin" ELSE "user"

InsertAccount(r) ==
    /\ req[r].at = "insert"
    /\ account' = [account EXCEPT ![req[r].user] = Inserted(r)]
    /\ Return(r)
    /\ UNCHANGED <<sessions, now, devices, history, crowded, missed>>

-----------------------------------------------------------------------------
(* /signin, /signout, httpAuth and the cache.                              *)

Lease == now + TTL

SignIn(s, u) ==
    /\ owner[s] = None
    /\ account[u] # None
    /\ live' = live \cup {s}
    /\ owner' = [owner EXCEPT ![s] = u]
    /\ expires' = [expires EXCEPT ![s] = Lease]
    /\ used' = [used EXCEPT ![s] = now]
    /\ UNCHANGED <<account, sweep, now, devices, req, signedOut, late, crowded, missed>>

SignOut(s) ==
    /\ s \in live
    /\ live' = live \ {s}
    /\ signedOut' = signedOut \cup {s}
    /\ UNCHANGED <<account, owner, expires, sweep, now, devices, req, used, late, crowded, missed>>

\* httpAuth: Have, and then Active, which loads the item again.
Authorize(r, s) ==
    /\ req[r].at = "idle"
    /\ s \in live
    /\ Goto(r, "renew", None, None, FALSE, s)
    /\ UNCHANGED <<account, sessions, now, devices, history, crowded, missed>>

ActiveStores(s) ==  \* mutant: Active stores the item
    /\ live' = live \cup {s}
    /\ expires' = [expires EXCEPT ![s] = Lease]
ActiveNever(s) == UNCHANGED <<live, expires>>  \* mutant: Active does not renew
Active(s) ==
    /\ expires' = [expires EXCEPT ![s] = IF s \in live THEN Lease ELSE @]
    /\ UNCHANGED live

Renew(r) ==
    LET s == req[r].sid IN
    /\ req[r].at = "renew"
    /\ Active(s)
    /\ Return(r)
    /\ used' = [used EXCEPT ![s] = now]
    /\ late' = late \cup IF expires[s] < now THEN {s} ELSE {}
    /\ UNCHANGED <<account, owner, sweep, now, devices, signedOut, crowded, missed>>

\* DeleteExpired reads the clock once, then decides on one item after the other.
BeginSweep ==
    /\ sweep.at = "idle"
    /\ sweep' = [at |-> "look", time |-> now, todo |-> live, doomed |-> {}]
    /\ UNCHANGED <<account, live, owner, expires, now, devices, req, history, crowded, missed>>

LookAtItem(s) ==
    /\ sweep.at = "look" /\ s \in sweep.todo
    /\ sweep' = IF s \in live /\ sweep.time > expires[s]
                THEN [sweep EXCEPT !.at = "delete", !.doomed = {s}, !.todo = @ \ {s}]
                ELSE [sweep EXCEPT !.todo = @ \ {s}]
    /\ UNCHANGED <<account, live, owner, expires, now, devices, req, history, crowded, missed>>

Remaining == live \ sweep.doomed

DeleteItem ==
    /\ sweep.at = "delete"
    /\ live' = Remaining
    /\ sweep' = [sweep EXCEPT !.at = "look", !.doomed = {}]
    /\ UNCHANGED <<account, owner, expires, now, devices, req, history, crowded, missed>>

EndSweep ==
    /\ sweep.at = "look" /\ sweep.todo = {}
    /\ sweep' = NoSweep
    /\ UNCHANGED <<account, live, owner, expires, now, devices, req, history, crowded, missed>>

Sweep == BeginSweep \/ DeleteItem \/ EndSweep \/ \E s \in Sids : LookAtItem(s)

-----------------------------------------------------------------------------
(* /bind, /unbind and /delete.                                             *)

\* A session's username, Nobody without a session in the cache.
LoginUsername(s) == IF s \in live THEN owner[s] ELSE Nobody
IsAdmin(u) == u \in Users /\ account[u] = "admin"
MayBind(s) == s = Local \/ IsAdmin(LoginUsername(s))

Bind(r, u, d, s) ==
    /\ req[r].at = "idle"
    /\ MayBind(s)
    /\ Goto(r, "target", u, d, FALSE, None)
    /\ UNCHANGED <<account, sessions, now, devices, history, crowded, missed>>

BindAnybody(r) ==  \* mutant: an administrator may be bound to
    /\ req[r].at = "target"
    /\ IF account[req[r].user] # None
       THEN req' = [req EXCEPT ![r].at = "bind"]
       ELSE Return(r)
    /\ UNCHANGED <<account, sessions, now, devices, history, crowded, missed>>

\* Only an account that exists and is not an administrator's.
CheckTarget(r) ==
    /\ req[r].at = "target"
    /\ IF account[req[r].user] = "user"
       THEN req' = [req EXCEPT ![r].at = "bind"]
       ELSE Return(r)
    /\ UNCHANGED <<account, sessions, now, devices, history, crowded, missed>>

Unbind(r, d, s) ==
    /\ req[r].at = "idle"
    /\ MayBind(s)
    /\ Goto(r, "unbind", Nobody, d, FALSE, None)
    /\ UNCHANGED <<account, sessions, now, devices, history, crowded, missed>>

\* UPDATE device SET username.
SetOwner(r) ==
    /\ req[r].at \in {"bind", "unbind"}
    /\ row' = [row EXCEPT ![req[r].dev] = IF @ = None THEN None ELSE req[r].user]
    /\ Return(r)
    /\ UNCHANGED <<account, sessions, now, online, updating, history, crowded, missed>>

\* A device that is offline may be deleted, by a user only if it is the user's.
Delete(r, d, s) ==
    LET u == LoginUsername(s) IN
    /\ req[r].at = "idle"
    /\ d \notin online
    /\ Goto(r, "delete", IF IsAdmin(u) THEN Nobody ELSE u, d, d \notin online, None)
    /\ UNCHANGED <<account, sessions, now, devices, history, crowded, missed>>

DeleteRow(r) ==
    LET d == req[r].dev IN
    /\ req[r].at = "delete"
    /\ row' = [row EXCEPT ![d] = IF req[r].user \in {Nobody, @} THEN None ELSE @]
    /\ missed' = missed \cup IF req[r].flag /\ d \in online THEN {d} ELSE {}
    /\ Return(r)
    /\ UNCHANGED <<account, sessions, now, online, updating, history, crowded>>

-----------------------------------------------------------------------------
(* A device registers: the broker enters it into br.devices and updates    *)
(* its row before it serves anything else.                                 *)

Register(d) ==
    /\ d \notin online
    /\ updating.at = "idle"
    /\ online' = online \cup {d}
    /\ updating' = [dev |-> d, at |-> "count", found |-> FALSE]
    /\ missed' = missed \ {d}
    /\ UNCHANGED <<account, sessions, now, row, req, history, crowded>>

CountRows ==
    /\ updating.at = "count"
    /\ updating' = [updating EXCEPT !.at = "exec", !.found = row[updating.dev] # None]
    /\ UNCHANGED <<account, sessions, now, row, online, req, history, crowded, missed>>

Updated == row[updating.dev]

\* INSERT, or UPDATE of the description and the time, which may find no row any more.
UpdateRow ==
    /\ updating.at = "exec"
    /\ row' = [row EXCEPT ![updating.dev] = IF updating.found THEN Updated ELSE Nobody]
    /\ updating' = NoUpdate
    /\ UNCHANGED <<account, sessions, now, online, req, history, crowded, missed>>

Unregister(d) ==
    /\ d \in online
    /\ updating.at = "idle"
    /\ online' = online \ {d}
    /\ UNCHANGED <<account, sessions, now, row, updating, req, history, crowded, missed>>

-----------------------------------------------------------------------------
Serve(r) == \/ CountAccounts(r) \/ CountName(r) \/ InsertAccount(r)
            \/ Renew(r) \/ CheckTarget(r) \/ SetOwner(r) \/ DeleteRow(r)
Update == CountRows \/ UpdateRow

Next ==
    \/ Tick \/ Sweep \/ Update
    \/ \E r \in Reqs :
        \/ Serve(r)
        \/ \E u \in Users : SignUp(r, u)
        \/ \E s \in Sids : Authorize(r, s)
        \/ \E d \in Devices, s \in Sids \cup {None, Local} :
            Unbind(r, d, s) \/ Delete(r, d, s) \/ \E u \in Users : Bind(r, u, d, s)
    \/ \E s \in Sids : SignOut(s) \/ \E u \in Users : SignIn(s, u)
    \/ \E d \in Devices : Register(d) \/ Unregister(d)

Spec == Init /\ [][Next]_vars

-----------------------------------------------------------------------------
(* Properties.                                                             *)

\* A session that is signed out is not accepted again, although a request
\* that found it before renews it afterwards.
SignedOutStaysOut == live \cap signedOut = {}

\* A session that is used within its lifetime is kept, whatever the sweep has
\* decided on; only one that was renewed after it had expired, between the
\* decision and the deletion, may be lost.
UsedSessionKept ==
    \A s \in Sids \ (signedOut \cup late) :
        owner[s] # None /\ now - used[s] <= TTL => s \in live

\* There is one administrator, the first account; sign-ups that overlap
\* before there is an account may all become administrators.
OneAdmin ==
    ~crowded /\ Exists => Cardinality({u \in Users : account[u] = "admin"}) = 1

\* A device belongs to nobody or to an account that exists and is not an
\* administrator's.
BoundToUser == \A d \in Devices : row[d] \in Users => account[row[d]] = "user"

\* A device that is online has a row, unless it was deleted while it registered.
OnlineHasRow == \A d \in online \ missed : row[d] # None \/ updating.dev = d

\* Registering again neither frees a device nor gives it to somebody.
OwnerKept ==
    [][\A d \in Devices : row[d] \in Users /\ row'[d] # row[d] =>
            \E r \in Reqs : req[r].at \in {"bind", "unbind", "delete"} /\ req[r].dev = d]_vars

\* After a sweep no session is left that had expired when it began.
SweepLeavesNoneExpired ==
    [][sweep.at = "look" /\ sweep'.at = "idle" =>
            \A s \in live : expires[s] >= sweep.time]_vars
=============================================================================
