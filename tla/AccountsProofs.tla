--------------------------- MODULE AccountsProofs ---------------------------
(* Theorems about Accounts, for any sets of users, devices, sessions and   *)
(* requests, any lifetime and any bound on the clock: all of its safety    *)
(* properties.                                                             *)
EXTENDS Accounts, FiniteSetTheorems, TLAPS

-----------------------------------------------------------------------------
(* Types.                                                                  *)

LEMMA TypeInit == Init => TypeOK
  <1> SUFFICES ASSUME Init PROVE TypeOK
    OBVIOUS
  <1> USE AccountsAssumption DEF Init
  <1>1. \A r \in Reqs : req[r] = Idle
    OBVIOUS
  <1>2. sweep = NoSweep /\ updating = NoUpdate
    OBVIOUS
  <1>3. /\ expires \in [Sids -> 0..(MaxTime + TTL)] /\ used \in [Sids -> 0..MaxTime]
        /\ now \in 0..MaxTime
    OBVIOUS
  <1>4. Idle \in [at : {"idle", "admin", "name", "insert", "renew", "target", "bind", "unbind",
                         "delete"},
                  user : Names, dev : Devices \cup {None}, flag : BOOLEAN,
                  sid : Sids \cup {None}]
    BY DEF Idle, Names
  <1>5. Idle.at = "idle"
    BY DEF Idle
  <1>6. /\ sweep \in [at : {"idle", "look", "delete"}, time : 0..MaxTime, todo : SUBSET Sids,
                      doomed : SUBSET Sids]
        /\ updating \in [dev : Devices \cup {None}, at : {"idle", "count", "exec"}, found : BOOLEAN]
    BY <1>2, <1>3 DEF NoSweep, NoUpdate
  <1>7. /\ live = {} /\ online = {} /\ signedOut = {} /\ late = {} /\ missed = {}
        /\ crowded = FALSE
        /\ account = [u \in Users |-> None] /\ owner = [s \in Sids |-> None]
        /\ row = [d \in Devices |-> None]
        /\ req = [r \in Reqs |-> Idle]
    OBVIOUS
  <1> QED
    BY ONLY <1>1, <1>3, <1>4, <1>5, <1>6, <1>7 DEF TypeOK, Names

\* The statements of the handlers that sign up, bind, unbind and delete.
LEMMA TypeServe ==
    ASSUME TypeOK, NEW r \in Reqs, Serve(r)
    PROVE  TypeOK'
  <1> USE AccountsAssumption DEF TypeOK, Goto, Return, Idle, Names, sessions, devices, history
  <1>1. CASE CountAccounts(r)
    BY <1>1 DEF CountAccounts, Exists
  <1>2. CASE CountName(r)
    <2>1. req' \in {[req EXCEPT ![r].at = "insert"], [req EXCEPT ![r] = Idle]}
      BY <1>2 DEF CountName
    <2>2. CASE req' = [req EXCEPT ![r].at = "insert"]
      BY <1>2, <2>2 DEF CountName
    <2>3. CASE req' = [req EXCEPT ![r] = Idle]
      BY <1>2, <2>3 DEF CountName
    <2> QED
      BY <2>1, <2>2, <2>3
  <1>3. CASE InsertAccount(r)
    <2>1. account' \in [Users -> {None, "user", "admin"}]
      BY <1>3 DEF InsertAccount, Inserted
    <2>2. /\ req' = [req EXCEPT ![r] = Idle]
          /\ UNCHANGED <<sessions, now, devices, history, crowded, missed>>
      BY <1>3 DEF InsertAccount
    <2> QED
      BY <2>1, <2>2
  <1>4. CASE Renew(r)
    <2>1. req[r].sid \in Sids /\ now + TTL \in 0..(MaxTime + TTL)
      BY <1>4 DEF Renew
    <2>2. expires' \in [Sids -> 0..(MaxTime + TTL)]
      BY <1>4, <2>1 DEF Renew, Active, Lease
    <2>3. used' \in [Sids -> 0..MaxTime] /\ late' \subseteq Sids
      BY <1>4, <2>1 DEF Renew
    <2>4. req' = [req EXCEPT ![r] = Idle] /\ UNCHANGED live
      BY <1>4 DEF Renew, Active
    <2> QED
      BY <1>4, <2>2, <2>3, <2>4 DEF Renew
  <1>5. CASE CheckTarget(r)
    <2>1. req' = [req EXCEPT ![r].at = "bind"] \/ req' = [req EXCEPT ![r] = Idle]
      <3>1. CASE account[req[r].user] = "user"
        BY <1>5, <3>1 DEF CheckTarget
      <3>2. CASE account[req[r].user] # "user"
        BY <1>5, <3>2 DEF CheckTarget
      <3> QED
        BY <3>1, <3>2
    <2>2. CASE req' = [req EXCEPT ![r].at = "bind"]
      <3>1. /\ req'[r] = [req[r] EXCEPT !.at = "bind"]
            /\ \A q \in Reqs \ {r} : req'[q] = req[q]
        BY <2>2
      <3>2. UNCHANGED <<account, sessions, now, devices, history, crowded, missed>>
        BY <1>5 DEF CheckTarget
      <3> QED
        BY <2>2, <3>1, <3>2
    <2>3. CASE req' = [req EXCEPT ![r] = Idle]
      BY <1>5, <2>3 DEF CheckTarget
    <2> QED
      BY <2>1, <2>2, <2>3
  <1>6. CASE SetOwner(r)
    <2>1. row' \in [Devices -> Names]
      BY <1>6 DEF SetOwner
    <2>2. /\ req' = [req EXCEPT ![r] = Idle]
          /\ UNCHANGED <<account, sessions, now, online, updating, history, crowded, missed>>
      BY <1>6 DEF SetOwner
    <2> QED
      BY <2>1, <2>2
  <1>7. CASE DeleteRow(r)
    <2>1. row' \in [Devices -> Names]
      BY <1>7 DEF DeleteRow
    <2>2. missed' \subseteq Devices
      BY <1>7 DEF DeleteRow
    <2>3. /\ req' = [req EXCEPT ![r] = Idle]
          /\ UNCHANGED <<account, sessions, now, online, updating, history, crowded>>
      BY <1>7 DEF DeleteRow
    <2> QED
      BY <2>1, <2>2, <2>3
  <1> QED
    BY <1>1, <1>2, <1>3, <1>4, <1>5, <1>6, <1>7 DEF Serve

\* The first steps of the handlers.
LEMMA TypeRequest ==
    ASSUME TypeOK, NEW r \in Reqs
    PROVE  /\ \A u \in Users : SignUp(r, u) => TypeOK'
           /\ \A s \in Sids : Authorize(r, s) => TypeOK'
           /\ \A d \in Devices, s \in Sids \cup {None, Local} :
                /\ Unbind(r, d, s) => TypeOK'
                /\ Delete(r, d, s) => TypeOK'
                /\ \A u \in Users : Bind(r, u, d, s) => TypeOK'
  <1> USE AccountsAssumption DEF TypeOK, Goto, Names, sessions, devices, history
  <1>1. ASSUME NEW u \in Users, SignUp(r, u) PROVE TypeOK'
    BY <1>1 DEF SignUp, Exists, SigningUp
  <1>2. ASSUME NEW s \in Sids, Authorize(r, s) PROVE TypeOK'
    BY <1>2 DEF Authorize
  <1>3. ASSUME NEW d \in Devices, NEW s \in Sids \cup {None, Local} PROVE
            /\ Unbind(r, d, s) => TypeOK'
            /\ \A u \in Users : Bind(r, u, d, s) => TypeOK'
    <2>1. CASE Unbind(r, d, s)
      BY <2>1 DEF Unbind
    <2>2. ASSUME NEW u \in Users, Bind(r, u, d, s) PROVE TypeOK'
      BY <2>2 DEF Bind
    <2> QED
      BY <2>1, <2>2
  <1>4. ASSUME NEW d \in Devices, NEW s \in Sids \cup {None, Local}, Delete(r, d, s)
        PROVE TypeOK'
    <2>1. LoginUsername(s) \in Users \cup {Nobody}
      BY DEF LoginUsername
    <2> QED
      BY <1>4, <2>1 DEF Delete
  <1> QED
    BY <1>1, <1>2, <1>3, <1>4

\* The cache and its sweep, the clock, the devices.
LEMMA TypeOthers ==
    ASSUME TypeOK
    PROVE  /\ Tick \/ Sweep \/ Update => TypeOK'
           /\ \A s \in Sids : /\ SignOut(s) => TypeOK'
                              /\ \A u \in Users : SignIn(s, u) => TypeOK'
           /\ \A d \in Devices : Register(d) \/ Unregister(d) => TypeOK'
  <1> USE AccountsAssumption DEF TypeOK, Names, sessions, devices, history
  <1>1. CASE Tick
    BY <1>1 DEF Tick
  <1>2. CASE BeginSweep
    BY <1>2 DEF BeginSweep
  <1>3. ASSUME NEW s \in Sids, LookAtItem(s) PROVE TypeOK'
    BY <1>3 DEF LookAtItem
  <1>4. CASE DeleteItem
    BY <1>4 DEF DeleteItem, Remaining
  <1>5. CASE EndSweep
    BY <1>5 DEF EndSweep, NoSweep
  <1>6. CASE CountRows
    BY <1>6 DEF CountRows
  <1>7. CASE UpdateRow
    BY <1>7 DEF UpdateRow, Updated, NoUpdate
  <1>8. ASSUME NEW s \in Sids, SignOut(s) PROVE TypeOK'
    BY <1>8 DEF SignOut
  <1>9. ASSUME NEW s \in Sids, NEW u \in Users, SignIn(s, u) PROVE TypeOK'
    BY <1>9 DEF SignIn, Lease
  <1>10. ASSUME NEW d \in Devices, Register(d) PROVE TypeOK'
    BY <1>10 DEF Register
  <1>11. ASSUME NEW d \in Devices, Unregister(d) PROVE TypeOK'
    BY <1>11 DEF Unregister
  <1> QED
    BY <1>1, <1>2, <1>3, <1>4, <1>5, <1>6, <1>7, <1>8, <1>9, <1>10, <1>11 DEF Sweep, Update

LEMMA TypeNext == TypeOK /\ [Next]_vars => TypeOK'
  <1> SUFFICES ASSUME TypeOK, [Next]_vars PROVE TypeOK'
    OBVIOUS
  <1>1. CASE UNCHANGED vars
    BY <1>1 DEF TypeOK, vars, sessions, devices, history
  <1> QED
    BY <1>1, TypeServe, TypeRequest, TypeOthers DEF Next

\* Every variable keeps its type.
THEOREM TypeCorrect == Spec => []TypeOK
  BY TypeInit, TypeNext, PTL DEF Spec

-----------------------------------------------------------------------------
(* Sessions.                                                               *)

\* A session that nothing disturbed expires TTL after its last use; it is out
\* of the cache, or about to be deleted, only when that time has passed.
LeaseKept ==
    \A s \in Sids : s \notin signedOut \cup late /\ owner[s] # None =>
        /\ expires[s] = used[s] + TTL
        /\ s \notin live => expires[s] < now
        /\ s \in sweep.doomed => expires[s] < sweep.time

\* The sweep has still to look at, or to delete, what had expired when it began.
ToSweep ==
    /\ sweep.at # "idle" =>
          \A s \in live : expires[s] >= sweep.time \/ s \in sweep.todo \cup sweep.doomed
    /\ sweep.at = "look" => sweep.doomed = {}

SessionFacts ==
    /\ SignedOutStaysOut
    /\ sweep.time <= now
    /\ \A s \in signedOut \cup sweep.doomed : owner[s] # None
    /\ LeaseKept
    /\ ToSweep

SessionInv == TypeOK /\ SessionFacts

LEMMA SessionInit == Init => SessionFacts
  BY AccountsAssumption DEF Init, SessionFacts, SignedOutStaysOut, LeaseKept, ToSweep, NoSweep

\* The handlers of accounts and devices do not touch sessions.
LEMMA SessionFrame ==
    SessionFacts /\ UNCHANGED <<sessions, now, history>> => SessionFacts'
  BY DEF SessionFacts, SignedOutStaysOut, LeaseKept, ToSweep, sessions, history

\* What the cache's numbers and sets are.
LEMMA SessionTypes ==
    ASSUME TypeOK
    PROVE  /\ now \in Nat /\ TTL \in Nat /\ sweep.time \in Nat
           /\ \A s \in Sids : expires[s] \in Nat /\ used[s] \in Nat
           /\ live \subseteq Sids /\ sweep.todo \subseteq Sids /\ sweep.doomed \subseteq Sids
           /\ \A s \in live : owner[s] # None
  BY AccountsAssumption DEF TypeOK

\* A request is accepted and renews its session, which may have gone.
LEMMA SessionRenew ==
    ASSUME SessionInv, NEW r \in Reqs, Renew(r)
    PROVE  SessionFacts'
  <1> USE SessionTypes, AccountsAssumption DEF SessionInv
  <1> DEFINE s == req[r].sid
  <1>1. s \in Sids
    BY DEF TypeOK, Renew
  <1>2. /\ UNCHANGED <<live, owner, sweep, now, signedOut>>
        /\ expires' = [expires EXCEPT ![s] = IF s \in live THEN now + TTL ELSE expires[s]]
        /\ used' = [used EXCEPT ![s] = now]
        /\ late' = late \cup IF expires[s] < now THEN {s} ELSE {}
    BY DEF Renew, Active, Lease
  <1>3. expires \in [Sids -> Nat] /\ used \in [Sids -> Nat]
    BY DEF TypeOK
  <1>4. LeaseKept'
    <2> SUFFICES ASSUME NEW x \in Sids, x \notin signedOut' \cup late', owner'[x] # None
                 PROVE  /\ expires'[x] = used'[x] + TTL
                        /\ x \notin live' => expires'[x] < now'
                        /\ x \in sweep'.doomed => expires'[x] < sweep'.time
      BY DEF LeaseKept
    <2>1. /\ x \notin signedOut \cup late /\ owner[x] # None
          /\ expires[x] = used[x] + TTL
          /\ x \notin live => expires[x] < now
          /\ x \in sweep.doomed => expires[x] < sweep.time
      BY <1>2 DEF SessionFacts, LeaseKept
    <2>2. CASE x = s
      <3>1. ~(expires[x] < now)
        BY <1>2, <2>2
      <3>2. x \in live /\ x \notin sweep.doomed
        BY <2>1, <3>1 DEF SessionFacts
      <3> QED
        BY <1>1, <1>2, <1>3, <2>2, <3>2
    <2>3. CASE x # s
      BY <1>1, <1>2, <1>3, <2>1, <2>3
    <2> QED
      BY <2>2, <2>3
  <1>5. ToSweep'
    <2>1. \A x \in live : expires'[x] = expires[x] \/ expires'[x] >= sweep.time
      BY <1>1, <1>2, <1>3 DEF SessionFacts
    <2> QED
      BY <1>2, <2>1 DEF SessionFacts, ToSweep
  <1> QED
    BY <1>2, <1>4, <1>5 DEF SessionFacts, SignedOutStaysOut

\* Signing in and out, and the clock.
LEMMA SessionSigns ==
    ASSUME SessionInv
    PROVE  /\ Tick => SessionFacts'
           /\ \A s \in Sids : /\ SignOut(s) => SessionFacts'
                              /\ \A u \in Users : SignIn(s, u) => SessionFacts'
  <1> USE SessionTypes, AccountsAssumption
      DEF SessionInv, SessionFacts, SignedOutStaysOut, LeaseKept, ToSweep, sessions, history
  <1>1. CASE Tick
    BY <1>1 DEF Tick
  <1>2. ASSUME NEW s \in Sids, SignOut(s) PROVE SessionFacts'
    BY <1>2 DEF SignOut
  <1>3. ASSUME NEW s \in Sids, NEW u \in Users, SignIn(s, u) PROVE SessionFacts'
    BY <1>3 DEF SignIn, Lease, TypeOK
  <1> QED
    BY <1>1, <1>2, <1>3

\* The sweep, in its steps.
LEMMA SessionSweep ==
    ASSUME SessionInv, Sweep
    PROVE  SessionFacts'
  <1> USE SessionTypes, AccountsAssumption
      DEF SessionInv, SessionFacts, SignedOutStaysOut, LeaseKept, ToSweep, history
  <1>0. sweep \in [at : {"idle", "look", "delete"}, time : 0..MaxTime, todo : SUBSET Sids,
                   doomed : SUBSET Sids]
    BY DEF TypeOK
  <1>1. CASE BeginSweep
    BY <1>0, <1>1 DEF BeginSweep
  <1>2. ASSUME NEW s \in Sids, LookAtItem(s) PROVE SessionFacts'
    BY <1>0, <1>2 DEF LookAtItem
  <1>3. CASE DeleteItem
    BY <1>0, <1>3 DEF DeleteItem, Remaining
  <1>4. CASE EndSweep
    BY <1>0, <1>4 DEF EndSweep, NoSweep
  <1> QED
    BY <1>1, <1>2, <1>3, <1>4 DEF Sweep

LEMMA SessionNext == SessionInv /\ [Next]_vars => SessionFacts'
  <1> SUFFICES ASSUME SessionInv, [Next]_vars PROVE SessionFacts'
    OBVIOUS
  <1> USE DEF SessionInv
  <1>1. ASSUME NEW r \in Reqs, Serve(r) PROVE SessionFacts'
    <2>1. CASE Renew(r)
      BY <2>1, SessionRenew
    <2>2. CASE CountAccounts(r) \/ CountName(r) \/ InsertAccount(r)
      BY <2>2, SessionFrame DEF CountAccounts, CountName, InsertAccount
    <2>3. CASE CheckTarget(r) \/ SetOwner(r) \/ DeleteRow(r)
      BY <2>3, SessionFrame DEF CheckTarget, SetOwner, DeleteRow
    <2> QED
      BY <1>1, <2>1, <2>2, <2>3 DEF Serve
  <1>2. ASSUME NEW r \in Reqs PROVE
            /\ \A u \in Users : SignUp(r, u) => SessionFacts'
            /\ \A s \in Sids : Authorize(r, s) => SessionFacts'
            /\ \A d \in Devices, s \in Sids \cup {None, Local} :
                 /\ Unbind(r, d, s) \/ Delete(r, d, s) => SessionFacts'
                 /\ \A u \in Users : Bind(r, u, d, s) => SessionFacts'
    BY SessionFrame DEF SignUp, Authorize, Unbind, Delete, Bind
  <1>3. Update => SessionFacts'
    BY SessionFrame DEF Update, CountRows, UpdateRow
  <1>4. ASSUME NEW d \in Devices, Register(d) \/ Unregister(d) PROVE SessionFacts'
    BY <1>4, SessionFrame DEF Register, Unregister
  <1>5. CASE UNCHANGED vars
    BY <1>5, SessionFrame DEF vars
  <1> QED
    BY <1>1, <1>2, <1>3, <1>4, <1>5, SessionSigns, SessionSweep DEF Next

LEMMA SessionSafe == Spec => []SessionInv
  <1>1. Init => SessionInv
    BY TypeInit, SessionInit DEF SessionInv
  <1>2. SessionInv /\ [Next]_vars => SessionInv'
    BY TypeNext, SessionNext DEF SessionInv
  <1> QED
    BY <1>1, <1>2, PTL DEF Spec

\* A session that is signed out is never accepted again, whatever requests
\* were under way.
THEOREM SignedOut == Spec => []SignedOutStaysOut
  <1>1. SessionInv => SignedOutStaysOut
    BY DEF SessionInv, SessionFacts
  <1> QED
    BY <1>1, SessionSafe, PTL

\* A session that is used within its lifetime stays in the cache, in whatever
\* order requests renew it and the sweep decides and deletes.
THEOREM UsedKept == Spec => []UsedSessionKept
  <1>1. SessionInv => UsedSessionKept
    <2> SUFFICES ASSUME SessionInv, NEW s \in Sids, s \notin signedOut \cup late,
                        owner[s] # None, now - used[s] <= TTL
                 PROVE  s \in live
      BY DEF UsedSessionKept
    <2>1. expires[s] = used[s] + TTL /\ (s \notin live => expires[s] < now)
      BY DEF SessionInv, SessionFacts, LeaseKept
    <2> QED
      BY <2>1, SessionTypes, AccountsAssumption DEF SessionInv
  <1> QED
    BY <1>1, SessionSafe, PTL

\* A sweep leaves no session that had expired when it began, although sessions
\* are opened, renewed and signed out while it runs.
THEOREM Swept == Spec => SweepLeavesNoneExpired
  <1> DEFINE Left == sweep.at = "look" /\ sweep'.at = "idle" =>
                        \A s \in live : expires[s] >= sweep.time
  <1>1. SessionInv /\ [Next]_vars => [Left]_vars
    <2> SUFFICES ASSUME SessionInv, [Next]_vars, sweep.at = "look", sweep'.at = "idle"
                 PROVE  \A s \in live : expires[s] >= sweep.time
      OBVIOUS
    <2>1. sweep' # sweep
      OBVIOUS
    <2>2. ~(\E d \in Devices : Register(d) \/ Unregister(d))
      BY <2>1 DEF Register, Unregister, sessions
    <2>3. ~(\E s \in Sids : SignOut(s) \/ \E u \in Users : SignIn(s, u))
      BY <2>1 DEF SignIn, SignOut
    <2>4. ~Tick /\ ~Update
      BY <2>1 DEF Tick, Update, CountRows, UpdateRow, sessions
    <2>5. ASSUME NEW r \in Reqs PROVE
            /\ ~Serve(r)
            /\ \A u \in Users : ~SignUp(r, u)
            /\ \A s \in Sids : ~Authorize(r, s)
            /\ \A d \in Devices, s \in Sids \cup {None, Local} :
                 ~Unbind(r, d, s) /\ ~Delete(r, d, s) /\ \A u \in Users : ~Bind(r, u, d, s)
      BY <2>1 DEF Serve, CountAccounts, CountName, InsertAccount, Renew, CheckTarget, SetOwner,
          DeleteRow, SignUp, Authorize, Unbind, Delete, Bind, sessions
    <2>6. Sweep
      BY <2>1, <2>2, <2>3, <2>4, <2>5 DEF Next, vars, sessions
    <2>7. ~DeleteItem /\ ~BeginSweep
      BY DEF DeleteItem, BeginSweep
    <2>8. ASSUME NEW s \in Sids PROVE ~LookAtItem(s)
      <3>1. sweep \in [at : {"idle", "look", "delete"}, time : 0..MaxTime, todo : SUBSET Sids,
                       doomed : SUBSET Sids]
        BY DEF SessionInv, TypeOK
      <3> QED
        BY <3>1 DEF LookAtItem
    <2>9. sweep.todo = {}
      BY <2>6, <2>7, <2>8 DEF Sweep, EndSweep
    <2> QED
      BY <2>9 DEF SessionInv, SessionFacts, ToSweep
  <1> QED
    BY <1>1, SessionSafe, PTL DEF Spec, SweepLeavesNoneExpired

-----------------------------------------------------------------------------
(* What the handlers' locals hold.                                         *)

\* The names of requests in progress; an account is bound to only when it was
\* seen to be a user's, which it remains.
Named ==
    \A r \in Reqs :
        /\ SigningUp(r) => req[r].user \in Users
        /\ req[r].at = "unbind" => req[r].user = Nobody
        /\ req[r].at = "bind" => req[r].user \in Users /\ account[req[r].user] = "user"
        /\ req[r].at = "target" => req[r].user \in Users
        /\ req[r].at = "delete" => req[r].flag

\* A step that changes the request of r alone, by what it becomes.
LEMMA NamedFrame ==
    ASSUME TypeOK, Named, NEW r \in Reqs,
           \A u \in Users : account[u] = "user" => account'[u] = "user",
           req' = [req EXCEPT ![r] = req'[r]],
           /\ SigningUp(r)' => req'[r].user \in Users
           /\ req'[r].at = "unbind" => req'[r].user = Nobody
           /\ req'[r].at = "bind" => req'[r].user \in Users /\ account'[req'[r].user] = "user"
           /\ req'[r].at = "target" => req'[r].user \in Users
           /\ req'[r].at = "delete" => req'[r].flag
    PROVE  Named'
  <1> SUFFICES ASSUME NEW q \in Reqs
               PROVE  /\ SigningUp(q)' => req'[q].user \in Users
                      /\ req'[q].at = "unbind" => req'[q].user = Nobody
                      /\ req'[q].at = "bind" => req'[q].user \in Users /\ account'[req'[q].user] = "user"
                      /\ req'[q].at = "target" => req'[q].user \in Users
                      /\ req'[q].at = "delete" => req'[q].flag
    BY DEF Named
  <1>1. CASE q = r
    BY <1>1
  <1>2. CASE q # r
    <2>1. req'[q] = req[q]
      BY <1>2 DEF TypeOK
    <2> QED
      BY <2>1 DEF Named, SigningUp
  <1> QED
    BY <1>1, <1>2

LEMMA NamedServe ==
    ASSUME TypeOK, Named, NEW r \in Reqs, Serve(r)
    PROVE  Named'
  <1> USE DEF SigningUp, Goto, Return, Idle, devices, sessions, history
  <1>0. req \in [Reqs -> [at : {"idle", "admin", "name", "insert", "renew", "target", "bind",
                               "unbind", "delete"},
                         user : Names, dev : Devices \cup {None}, flag : BOOLEAN,
                         sid : Sids \cup {None}]]
    BY DEF TypeOK
  <1>1. CASE CountAccounts(r)
    <2>1. req[r].user \in Users
      BY <1>1 DEF CountAccounts, Named
    <2> QED
      BY <1>0, <1>1, <2>1, NamedFrame DEF CountAccounts
  <1>2. CASE CountName(r)
    <2>1. req[r].user \in Users
      BY <1>2 DEF CountName, Named
    <2>2. req' = [req EXCEPT ![r] = Idle] \/ req' = [req EXCEPT ![r].at = "insert"]
      BY <1>2 DEF CountName
    <2> QED
      BY <1>0, <1>2, <2>1, <2>2, NamedFrame DEF CountName
  <1>3. CASE InsertAccount(r)
    <2>1. \A u \in Users : account[u] = "user" => account'[u] = "user"
      BY <1>3, AccountsAssumption DEF InsertAccount, Inserted, TypeOK
    <2>2. req' = [req EXCEPT ![r] = Idle]
      BY <1>3 DEF InsertAccount
    <2> QED
      BY <1>0, <2>1, <2>2, NamedFrame
  <1>4. CASE Renew(r) \/ SetOwner(r) \/ DeleteRow(r)
    <2>1. req' = [req EXCEPT ![r] = Idle] /\ UNCHANGED account
      BY <1>4 DEF Renew, SetOwner, DeleteRow
    <2> QED
      BY <1>0, <2>1, NamedFrame
  <1>5. CASE CheckTarget(r)
    <2>1. req[r].user \in Users
      BY <1>5 DEF CheckTarget, Named
    <2>2. \/ req' = [req EXCEPT ![r] = Idle]
          \/ req' = [req EXCEPT ![r].at = "bind"] /\ account[req[r].user] = "user"
      BY <1>5 DEF CheckTarget
    <2> QED
      BY <1>0, <1>5, <2>1, <2>2, NamedFrame DEF CheckTarget
  <1> QED
    BY <1>1, <1>2, <1>3, <1>4, <1>5 DEF Serve

LEMMA NamedRequest ==
    ASSUME TypeOK, Named, NEW r \in Reqs
    PROVE  /\ \A u \in Users : SignUp(r, u) => Named'
           /\ \A s \in Sids : Authorize(r, s) => Named'
           /\ \A d \in Devices, s \in Sids \cup {None, Local} :
                /\ Unbind(r, d, s) => Named'
                /\ Delete(r, d, s) => Named'
                /\ \A u \in Users : Bind(r, u, d, s) => Named'
  <1> USE DEF SigningUp, Goto
  <1>0. req \in [Reqs -> [at : {"idle", "admin", "name", "insert", "renew", "target", "bind",
                               "unbind", "delete"},
                         user : Names, dev : Devices \cup {None}, flag : BOOLEAN,
                         sid : Sids \cup {None}]]
    BY DEF TypeOK
  <1>1. ASSUME NEW u \in Users, SignUp(r, u) PROVE Named'
    BY <1>0, <1>1, NamedFrame DEF SignUp
  <1>2. ASSUME NEW s \in Sids, Authorize(r, s) PROVE Named'
    BY <1>0, <1>2, NamedFrame DEF Authorize
  <1>3. ASSUME NEW d \in Devices, NEW s \in Sids \cup {None, Local}, Unbind(r, d, s) PROVE Named'
    BY <1>0, <1>3, NamedFrame DEF Unbind
  <1>4. ASSUME NEW d \in Devices, NEW s \in Sids \cup {None, Local}, Delete(r, d, s) PROVE Named'
    BY <1>0, <1>4, NamedFrame DEF Delete
  <1>5. ASSUME NEW d \in Devices, NEW s \in Sids \cup {None, Local}, NEW u \in Users,
               Bind(r, u, d, s)
        PROVE  Named'
    BY <1>0, <1>5, NamedFrame DEF Bind
  <1> QED
    BY <1>1, <1>2, <1>3, <1>4, <1>5

\* The other steps leave requests and accounts alone.
LEMMA RequestsFrame ==
    ASSUME TypeOK
    PROVE  /\ Tick \/ Sweep \/ Update => UNCHANGED <<account, req, crowded>>
           /\ \A s \in Sids : /\ SignOut(s) => UNCHANGED <<account, req, crowded>>
                              /\ \A u \in Users : SignIn(s, u) => UNCHANGED <<account, req, crowded>>
           /\ \A d \in Devices :
                Register(d) \/ Unregister(d) => UNCHANGED <<account, req, crowded>>
           /\ UNCHANGED vars => UNCHANGED <<account, req, crowded>>
  BY DEF Tick, Sweep, BeginSweep, LookAtItem, DeleteItem, EndSweep, Update, CountRows, UpdateRow,
     SignOut, SignIn, Register, Unregister, vars

LEMMA NamedNext == TypeOK /\ Named /\ [Next]_vars => Named'
  <1> SUFFICES ASSUME TypeOK, Named, [Next]_vars PROVE Named'
    OBVIOUS
  <1>1. UNCHANGED <<account, req, crowded>> => Named'
    BY DEF Named, SigningUp
  <1> QED
    BY <1>1, NamedServe, NamedRequest, RequestsFrame DEF Next

-----------------------------------------------------------------------------
(* The administrator.                                                      *)

\* Before there is an account one request signs up, and knows that it is the
\* first.
OneSignsUp ==
    ~crowded /\ ~Exists =>
        /\ \A r, q \in Reqs : SigningUp(r) /\ SigningUp(q) => r = q
        /\ \A r \in Reqs : req[r].at \in {"name", "insert"} => req[r].flag

\* From then on nobody believes to be the first.
AdminChosen ==
    ~crowded /\ Exists =>
        /\ \A r \in Reqs : req[r].at \in {"name", "insert"} => ~req[r].flag
        /\ \E a \in Users : \A u \in Users : account[u] = "admin" <=> u = a

AdminFacts == OneSignsUp /\ AdminChosen

AdminInv == TypeOK /\ Named /\ AdminFacts

\* A request that does not sign up, or no longer.
LEMMA AdminFrame ==
    ASSUME TypeOK, AdminFacts, NEW r \in Reqs, UNCHANGED <<account, crowded>>,
           req' = [req EXCEPT ![r] = req'[r]], ~SigningUp(r)'
    PROVE  AdminFacts'
  <1>1. \A q \in Reqs : q # r => req'[q] = req[q]
    BY DEF TypeOK
  <1>2. Exists' = Exists
    BY DEF Exists
  <1>3. \A q \in Reqs : SigningUp(q)' => q # r /\ SigningUp(q) /\ req'[q] = req[q]
    BY <1>1 DEF SigningUp
  <1>4. \A q \in Reqs : req'[q].at \in {"name", "insert"} => SigningUp(q)'
    BY DEF SigningUp
  <1>5. OneSignsUp'
    BY <1>2, <1>3, <1>4 DEF AdminFacts, OneSignsUp
  <1>6. AdminChosen'
    BY <1>2, <1>3, <1>4 DEF AdminFacts, AdminChosen
  <1> QED
    BY <1>5, <1>6 DEF AdminFacts

LEMMA AdminSignUp ==
    ASSUME TypeOK, AdminFacts, NEW r \in Reqs, NEW u \in Users, SignUp(r, u)
    PROVE  AdminFacts'
  <1>1. /\ \A q \in Reqs : q # r => req'[q] = req[q]
        /\ req'[r].at = "admin"
    BY DEF TypeOK, SignUp, Goto
  <1>2. Exists' = Exists /\ UNCHANGED account
    BY DEF Exists, SignUp
  <1>3. ~crowded' => ~crowded /\ (Exists \/ \A q \in Reqs \ {r} : ~SigningUp(q))
    BY DEF SignUp
  <1>4. \A q \in Reqs \ {r} : SigningUp(q)' => SigningUp(q)
    BY <1>1 DEF SigningUp
  <1>5. OneSignsUp'
    <2> SUFFICES ASSUME ~crowded', ~Exists'
                 PROVE  /\ \A p, q \in Reqs : SigningUp(p)' /\ SigningUp(q)' => p = q
                        /\ \A q \in Reqs : req'[q].at \in {"name", "insert"} => req'[q].flag
      BY DEF OneSignsUp
    <2>1. \A q \in Reqs : SigningUp(q)' => q = r
      BY <1>2, <1>3, <1>4
    <2>2. \A q \in Reqs : req'[q].at \in {"name", "insert"} => SigningUp(q)'
      BY DEF SigningUp
    <2> QED
      BY <1>1, <2>1, <2>2
  <1>6. AdminChosen'
    BY <1>1, <1>2, <1>3 DEF AdminFacts, AdminChosen
  <1> QED
    BY <1>5, <1>6 DEF AdminFacts

\* The two counts.
LEMMA AdminCounts ==
    ASSUME TypeOK, AdminFacts, NEW r \in Reqs, CountAccounts(r) \/ CountName(r)
    PROVE  AdminFacts'
  <1>1. \A q \in Reqs : q # r => req'[q] = req[q]
    BY DEF TypeOK, CountAccounts, CountName, Goto, Return
  <1>2. Exists' = Exists /\ UNCHANGED <<account, crowded>>
    BY DEF Exists, CountAccounts, CountName
  <1>3. SigningUp(r)
    BY DEF CountAccounts, CountName, SigningUp
  <1>4. \A q \in Reqs : SigningUp(q)' => SigningUp(q)
    BY <1>1, <1>3 DEF SigningUp
  <1>5. req'[r].at \in {"name", "insert"} =>
            \/ req'[r].flag = ~Exists
            \/ req[r].at \in {"name", "insert"} /\ req'[r].flag = req[r].flag
    <2>1. CASE CountAccounts(r)
      BY <2>1 DEF CountAccounts, Goto, TypeOK
    <2>2. CASE CountName(r)
      <3>1. \/ req' = [req EXCEPT ![r] = Idle]
            \/ req' = [req EXCEPT ![r].at = "insert"]
        BY <2>2 DEF CountName, Return
      <3>2. req[r].at = "name"
        BY <2>2 DEF CountName
      <3> QED
        BY <3>1, <3>2 DEF TypeOK, Idle
    <2> QED
      BY <2>1, <2>2
  <1>6. OneSignsUp'
    BY <1>1, <1>2, <1>4, <1>5 DEF AdminFacts, OneSignsUp
  <1>7. AdminChosen'
    BY <1>1, <1>2, <1>5 DEF AdminFacts, AdminChosen
  <1> QED
    BY <1>6, <1>7 DEF AdminFacts

\* The first account is made by the one request that signs up.
LEMMA AdminInsert ==
    ASSUME AdminInv, NEW r \in Reqs, InsertAccount(r)
    PROVE  AdminFacts'
  <1> USE AccountsAssumption DEF AdminInv
  <1> DEFINE n == req[r].user
  <1>1. n \in Users /\ SigningUp(r) /\ req[r].at = "insert"
    BY DEF Named, SigningUp, InsertAccount
  <1>2. /\ \A q \in Reqs : q # r => req'[q] = req[q]
        /\ req'[r].at = "idle"
    BY DEF TypeOK, InsertAccount, Return, Idle
  <1>3. /\ \A u \in Users : u # n => account'[u] = account[u]
        /\ account[n] # None => account'[n] = account[n]
        /\ account[n] = None => account'[n] = IF req[r].flag THEN "admin" ELSE "user"
        /\ UNCHANGED crowded
    BY <1>1 DEF TypeOK, InsertAccount, Inserted
  <1>4. Exists'
    BY <1>1, <1>3 DEF Exists
  <1>5. AdminChosen'
    <2> SUFFICES ASSUME ~crowded
                 PROVE  /\ \A q \in Reqs : req'[q].at \in {"name", "insert"} => ~req'[q].flag
                        /\ \E a \in Users : \A u \in Users : account'[u] = "admin" <=> u = a
      BY <1>3 DEF AdminChosen
    <2>1. CASE Exists
      <3>1. ~req[r].flag
        BY <1>1, <2>1 DEF AdminFacts, AdminChosen
      <3>2. PICK a \in Users : \A u \in Users : account[u] = "admin" <=> u = a
        BY <2>1 DEF AdminFacts, AdminChosen
      <3>3. \A u \in Users : account'[u] = "admin" <=> account[u] = "admin"
        BY <1>1, <1>3, <3>1
      <3>4. \A q \in Reqs : req'[q].at \in {"name", "insert"} => ~req'[q].flag
        BY <1>2, <2>1 DEF AdminFacts, AdminChosen
      <3> QED
        BY <3>2, <3>3, <3>4
    <2>2. CASE ~Exists
      <3>1. req[r].flag /\ \A q \in Reqs : SigningUp(q) => q = r
        BY <1>1, <2>2 DEF AdminFacts, OneSignsUp
      <3>2. \A u \in Users : account'[u] = "admin" <=> u = n
        BY <1>1, <1>3, <2>2, <3>1 DEF Exists
      <3>3. \A q \in Reqs : req'[q].at \notin {"name", "insert"}
        BY <1>2, <3>1 DEF SigningUp
      <3> QED
        BY <1>1, <3>2, <3>3
    <2> QED
      BY <2>1, <2>2
  <1> QED
    BY <1>4, <1>5 DEF AdminFacts, OneSignsUp

LEMMA AdminNext == AdminInv /\ [Next]_vars => AdminFacts'
  <1> SUFFICES ASSUME AdminInv, [Next]_vars PROVE AdminFacts'
    OBVIOUS
  <1> USE DEF AdminInv
  <1>0. req \in [Reqs -> [at : {"idle", "admin", "name", "insert", "renew", "target", "bind",
                               "unbind", "delete"},
                         user : Names, dev : Devices \cup {None}, flag : BOOLEAN,
                         sid : Sids \cup {None}]]
    BY DEF TypeOK
  <1>1. ASSUME NEW r \in Reqs, Serve(r) PROVE AdminFacts'
    <2>1. CASE CountAccounts(r) \/ CountName(r) \/ InsertAccount(r)
      BY <2>1, AdminCounts, AdminInsert
    <2>2. CASE Renew(r) \/ CheckTarget(r) \/ SetOwner(r) \/ DeleteRow(r)
      <3>1. UNCHANGED <<account, crowded>>
        BY <2>2 DEF Renew, CheckTarget, SetOwner, DeleteRow
      <3>2. \/ req' = [req EXCEPT ![r] = Idle]
            \/ req' = [req EXCEPT ![r].at = "bind"]
        BY <2>2 DEF Renew, CheckTarget, SetOwner, DeleteRow, Return
      <3> QED
        BY <1>0, <3>1, <3>2, AdminFrame DEF Idle, SigningUp
    <2> QED
      BY <1>1, <2>1, <2>2 DEF Serve
  <1>2. ASSUME NEW r \in Reqs, NEW s \in Sids, Authorize(r, s) PROVE AdminFacts'
    BY <1>0, <1>2, AdminFrame DEF Authorize, Goto, SigningUp
  <1>3. ASSUME NEW r \in Reqs, NEW d \in Devices, NEW s \in Sids \cup {None, Local}
        PROVE  /\ Unbind(r, d, s) \/ Delete(r, d, s) => AdminFacts'
               /\ \A u \in Users : Bind(r, u, d, s) => AdminFacts'
    <2>1. CASE Unbind(r, d, s)
      BY <1>0, <2>1, AdminFrame DEF Unbind, Goto, SigningUp
    <2>2. CASE Delete(r, d, s)
      BY <1>0, <2>2, AdminFrame DEF Delete, Goto, SigningUp
    <2>3. ASSUME NEW u \in Users, Bind(r, u, d, s) PROVE AdminFacts'
      BY <1>0, <2>3, AdminFrame DEF Bind, Goto, SigningUp
    <2> QED
      BY <2>1, <2>2, <2>3
  <1>4. UNCHANGED <<account, req, crowded>> => AdminFacts'
    BY DEF AdminFacts, OneSignsUp, AdminChosen, Exists, SigningUp
  <1> QED
    BY <1>1, <1>2, <1>3, <1>4, AdminSignUp, RequestsFrame DEF Next

\* There is one administrator as soon as there is an account, unless sign-ups
\* have overlapped before.
THEOREM OneAdministrator == Spec => []OneAdmin
  <1>1. Init => AdminInv
    <2>1. Init => Named /\ AdminFacts
      BY AccountsAssumption
         DEF Init, Named, SigningUp, AdminFacts, OneSignsUp, AdminChosen, Exists, Idle
    <2> QED
      BY <2>1, TypeInit DEF AdminInv
  <1>2. AdminInv /\ [Next]_vars => AdminInv'
    BY TypeNext, NamedNext, AdminNext DEF AdminInv
  <1>3. AdminInv => OneAdmin
    <2> SUFFICES ASSUME AdminInv, ~crowded, Exists
                 PROVE  Cardinality({u \in Users : account[u] = "admin"}) = 1
      BY DEF OneAdmin
    <2>1. PICK a \in Users : \A u \in Users : account[u] = "admin" <=> u = a
      BY DEF AdminInv, AdminFacts, AdminChosen
    <2>2. {u \in Users : account[u] = "admin"} = {a}
      BY <2>1
    <2> QED
      BY <2>2, FS_Singleton
  <1> QED
    BY <1>1, <1>2, <1>3, PTL DEF Spec

-----------------------------------------------------------------------------
(* Devices and their owners.                                               *)

\* The broker updates the row of a device that is online; what it has counted
\* is still so, unless the device was deleted meanwhile.
RowKept ==
    /\ IF updating.at = "idle" THEN updating.dev = None ELSE updating.dev \in online
    /\ updating.at = "exec" =>
          IF updating.found THEN updating.dev \in missed \/ row[updating.dev] # None
          ELSE row[updating.dev] = None

DeviceFacts == BoundToUser /\ OnlineHasRow /\ RowKept

DeviceInv == TypeOK /\ Named /\ DeviceFacts

\* Statements that change a row.
LEMMA DeviceServe ==
    ASSUME DeviceInv, NEW r \in Reqs, Serve(r)
    PROVE  DeviceFacts'
  <1> USE AccountsAssumption DEF DeviceInv, DeviceFacts, BoundToUser, OnlineHasRow, RowKept, devices
  <1>1. CASE InsertAccount(r)
    <2>1. \A u \in Users : account[u] = "user" => account'[u] = "user"
      BY <1>1 DEF InsertAccount, Inserted, TypeOK
    <2> QED
      BY <1>1, <2>1 DEF InsertAccount
  <1>2. CASE SetOwner(r)
    <2> DEFINE d == req[r].dev
    <2>1. /\ req[r].user # None
          /\ req[r].user \in Users => account[req[r].user] = "user"
      BY <1>2 DEF SetOwner, Named
    <2>2. \A x \in Devices : \/ row'[x] = row[x]
                             \/ row[x] # None /\ row'[x] = req[r].user
      BY <1>2 DEF SetOwner, TypeOK
    <2>3. UNCHANGED <<account, online, updating, missed>>
      BY <1>2 DEF SetOwner
    <2> QED
      BY <2>1, <2>2, <2>3 DEF TypeOK
  <1>3. CASE DeleteRow(r)
    <2>1. req[r].flag
      BY <1>3 DEF DeleteRow, Named
    <2>2. \A x \in Devices :
            \/ row'[x] = row[x]
            \/ row'[x] = None /\ (x \in online => x \in missed')
      BY <1>3, <2>1 DEF DeleteRow, TypeOK
    <2>3. UNCHANGED <<account, online, updating>> /\ missed \subseteq missed'
      BY <1>3 DEF DeleteRow
    <2> QED
      BY <2>2, <2>3 DEF TypeOK
  <1>4. CASE CountAccounts(r) \/ CountName(r) \/ Renew(r) \/ CheckTarget(r)
    BY <1>4 DEF CountAccounts, CountName, Renew, CheckTarget
  <1> QED
    BY <1>1, <1>2, <1>3, <1>4 DEF Serve

\* A device registers, and leaves.
LEMMA DeviceRegisters ==
    ASSUME DeviceInv
    PROVE  /\ Update => DeviceFacts'
           /\ \A d \in Devices : Register(d) \/ Unregister(d) => DeviceFacts'
  <1> USE AccountsAssumption DEF DeviceInv, DeviceFacts, BoundToUser, OnlineHasRow, RowKept, TypeOK
  <1>1. CASE CountRows
    BY <1>1 DEF CountRows
  <1>2. CASE UpdateRow
    <2>1. updating.dev \in online /\ updating.dev \in Devices
      BY <1>2 DEF UpdateRow
    <2>2. \A x \in Devices : row'[x] = row[x] \/ (x = updating.dev /\ row'[x] = Nobody)
      BY <1>2 DEF UpdateRow, Updated
    <2>3. updating.dev \in missed \/ row'[updating.dev] # None
      BY <1>2, <2>1 DEF UpdateRow, Updated
    <2>4. /\ updating'.at = "idle" /\ updating'.dev = None
          /\ UNCHANGED <<account, online, missed>>
      BY <1>2 DEF UpdateRow, NoUpdate
    <2>5. BoundToUser'
      BY <2>2, <2>4
    <2>6. OnlineHasRow'
      BY <2>1, <2>2, <2>3, <2>4
    <2>7. RowKept'
      BY <2>4
    <2> QED
      BY <2>5, <2>6, <2>7
  <1>3. ASSUME NEW d \in Devices, Register(d) PROVE DeviceFacts'
    <2>1. /\ online' = online \cup {d} /\ missed' = missed \ {d}
          /\ updating' = [dev |-> d, at |-> "count", found |-> FALSE]
          /\ UNCHANGED <<account, row>>
      BY <1>3 DEF Register
    <2>2. BoundToUser' /\ RowKept'
      BY <2>1
    <2>3. updating.at = "idle"
      BY <1>3 DEF Register
    <2>4. OnlineHasRow'
      BY <2>1, <2>3
    <2> QED
      BY <2>2, <2>4
  <1>4. ASSUME NEW d \in Devices, Unregister(d) PROVE DeviceFacts'
    BY <1>4 DEF Unregister
  <1> QED
    BY <1>1, <1>2, <1>3, <1>4 DEF Update

LEMMA DeviceNext == DeviceInv /\ [Next]_vars => DeviceFacts'
  <1> SUFFICES ASSUME DeviceInv, [Next]_vars PROVE DeviceFacts'
    OBVIOUS
  <1>1. UNCHANGED <<account, devices, missed>> => DeviceFacts'
    BY DEF DeviceInv, DeviceFacts, BoundToUser, OnlineHasRow, RowKept, devices
  <1>2. Tick \/ Sweep \/ UNCHANGED vars => DeviceFacts'
    BY <1>1 DEF Tick, Sweep, BeginSweep, LookAtItem, DeleteItem, EndSweep, vars
  <1>3. \A s \in Sids : SignOut(s) \/ (\E u \in Users : SignIn(s, u)) => DeviceFacts'
    BY <1>1 DEF SignOut, SignIn
  <1>4. ASSUME NEW r \in Reqs PROVE
            /\ \A u \in Users : SignUp(r, u) => DeviceFacts'
            /\ \A s \in Sids : Authorize(r, s) => DeviceFacts'
            /\ \A d \in Devices, s \in Sids \cup {None, Local} :
                 /\ Unbind(r, d, s) \/ Delete(r, d, s) => DeviceFacts'
                 /\ \A u \in Users : Bind(r, u, d, s) => DeviceFacts'
    BY <1>1 DEF SignUp, Authorize, Unbind, Delete, Bind
  <1> QED
    BY <1>2, <1>3, <1>4, DeviceServe, DeviceRegisters DEF Next

LEMMA DeviceSafe == Spec => []DeviceInv
  <1>1. Init => DeviceInv
    <2>1. Init => Named /\ DeviceFacts
      BY AccountsAssumption
         DEF Init, Named, SigningUp, Idle, DeviceFacts, BoundToUser, OnlineHasRow, RowKept, NoUpdate
    <2> QED
      BY <2>1, TypeInit DEF DeviceInv
  <1>2. DeviceInv /\ [Next]_vars => DeviceInv'
    BY TypeNext, NamedNext, DeviceNext DEF DeviceInv
  <1> QED
    BY <1>1, <1>2, PTL DEF Spec

\* A device belongs to nobody or to a user's account, although the account is
\* looked at and the row written in two statements.
THEOREM OwnersAreUsers == Spec => []BoundToUser
  <1>1. DeviceInv => BoundToUser
    BY DEF DeviceInv, DeviceFacts
  <1> QED
    BY <1>1, DeviceSafe, PTL

\* A device that is online has a row, unless it was deleted while it registered.
THEOREM OnlineHaveRows == Spec => []OnlineHasRow
  <1>1. DeviceInv => OnlineHasRow
    BY DEF DeviceInv, DeviceFacts
  <1> QED
    BY <1>1, DeviceSafe, PTL

\* Only a request that binds, unbinds or deletes a device changes its owner.
THEOREM OwnersKept == Spec => OwnerKept
  <1> DEFINE Kept == \A d \in Devices : row[d] \in Users /\ row'[d] # row[d] =>
                \E r \in Reqs : req[r].at \in {"bind", "unbind", "delete"} /\ req[r].dev = d
  <1>1. DeviceInv /\ [Next]_vars => [Kept]_vars
    <2> SUFFICES ASSUME DeviceInv, [Next]_vars, NEW d \in Devices, row[d] \in Users,
                        row'[d] # row[d]
                 PROVE  \E r \in Reqs : /\ req[r].at \in {"bind", "unbind", "delete"}
                                        /\ req[r].dev = d
      OBVIOUS
    <2>1. \A e \in Devices : ~Register(e) /\ ~Unregister(e)
      BY DEF Register, Unregister
    <2>2. \A s \in Sids : ~SignOut(s) /\ \A u \in Users : ~SignIn(s, u)
      BY DEF SignIn, SignOut, devices
    <2>3. ~Tick /\ ~Sweep
      BY DEF Tick, Sweep, BeginSweep, LookAtItem, DeleteItem, EndSweep, devices
    <2>4. ~Update
      <3>1. ~CountRows
        BY DEF CountRows
      <3>2. ~UpdateRow
        BY AccountsAssumption
           DEF UpdateRow, Updated, DeviceInv, DeviceFacts, RowKept, TypeOK
      <3> QED
        BY <3>1, <3>2 DEF Update
    <2>5. PICK r \in Reqs :
            \/ Serve(r)
            \/ \E u \in Users : SignUp(r, u)
            \/ \E s \in Sids : Authorize(r, s)
            \/ \E e \in Devices, s \in Sids \cup {None, Local} :
                 Unbind(r, e, s) \/ Delete(r, e, s) \/ \E u \in Users : Bind(r, u, e, s)
      BY <2>1, <2>2, <2>3, <2>4 DEF Next, vars, devices
    <2>6. SetOwner(r) \/ DeleteRow(r)
      BY <2>5 DEF Serve, CountAccounts, CountName, InsertAccount, Renew, CheckTarget, SignUp,
         Authorize, Unbind, Delete, Bind, devices
    <2>7. req[r].dev = d
      BY <2>6 DEF SetOwner, DeleteRow, DeviceInv, TypeOK
    <2> QED
      BY <2>6, <2>7 DEF SetOwner, DeleteRow
  <1> QED
    BY <1>1, DeviceSafe, PTL DEF Spec, OwnerKept
=============================================================================
