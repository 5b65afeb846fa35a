---------------------------- MODULE AccountsProofs ----------------------------
(***************************************************************************)
(* Of any number of users, sessions and requests: a session that was ended *)
(* stays ended, roles are a root's doing, addresses are as unique as a     *)
(* check before the write keeps them, and a login holds its user's         *)
(* sessions to the limit but for what others set while it looks for them.  *)
(*                                                                         *)
(* What a request has read is part of every invariant: the session that a  *)
(* refresh will write again, the role that an update will write, the       *)
(* sessions that a login is about to delete.                               *)
(***************************************************************************)
EXTENDS Accounts, FiniteSetTheorems, FunctionTheorems, TLAPS

-----------------------------------------------------------------------------
(* The inductive invariant.                                                *)

\* What a request holds at each of its steps.
RequestOK(q) ==
    /\ q.at \in {"idle", "authed", "scan", "others", "revoke", "close", "set", "record", "unset",
                 "insertuser", "setuser", "check", "dropusers"}
    /\ q.at = "idle" => q = Idle
    /\ q.at = "authed" => q \in [at : {"authed"}, session : Session, actor : User, role : Role]
    /\ q.at = "scan" => q \in [at : {"scan"}, user : User, there : SUBSET Session]
    /\ q.at = "others" => q \in [at : {"others"}, user : User, session : Session, there : SUBSET Session]
    /\ q.at \in {"revoke", "close"} =>
           /\ q \in [at : {"revoke", "close"}, user : User, keys : SUBSET Session,
                     then : {Idle} \cup {LoginSet(u) : u \in User}]
           /\ q.then # Idle => q.then = LoginSet(q.user)
    /\ q.at = "set" => q \in [at : {"set"}, user : User, keep : {<<>>} \cup {<<s>> : s \in Session}]
    /\ q.at = "unset" => q \in [at : {"unset"}, user : User, keep : {<<s>> : s \in Session}]
    /\ q.at = "record" => q \in [at : {"record"}, session : Session]
    /\ q.at = "insertuser" =>
           q \in [at : {"insertuser"}, user : User, by : Role,
                  doc : [email : Email, role : {"admin", "user"}, on : BOOLEAN]]
    /\ q.at = "setuser" =>
           q \in [at : {"setuser"}, target : User, role : {"admin", "user"}, on : BOOLEAN,
                  actor : User, by : Role]
    /\ q.at = "check" =>
           q \in [at : {"check"}, left : SUBSET User, users : SUBSET User, actor : User, role : Role]
    /\ q.at = "dropusers" => q \in [at : {"dropusers"}, users : SUBSET User]

RequestsOK == DOMAIN req = Handler /\ \A h \in Handler : RequestOK(req[h])

\* The parts of TypeOK.
UserOK == user \in [User -> UserDoc] /\ raised \subseteq User
LiveOK ==
    /\ DOMAIN live \subseteq Session /\ live \in [DOMAIN live -> SUBSET DOMAIN live]
    /\ \A s, t \in DOMAIN live : t \in live[s] <=> s # t /\ s \notin live[t]
    /\ \A s \in DOMAIN live : \A t \in live[s] : live[t] \subseteq live[s]
OwnerOK ==
    /\ DOMAIN owner = Session
    /\ \A s \in Session : owner[s] = <<>> \/ \E u \in User : owner[s] = <<u>>
    /\ \A s \in Session : owner[s] = <<>> => ~IsLive(s) /\ record[s] = "none"
    /\ record \in [Session -> {"none", "open", "closed"}]
UnseenOK == unseen \in [Handler -> SUBSET Session]
CountersOK ==
    started \in 0 .. MaxRequests /\ faults \in 0 .. MaxFaults /\ blind \in 0 .. faults

\* A refresh renews a session of its own user, and a record is of a session that was made.
Owned(q, of) ==
    /\ q.at \in {"unset", "set"} => \A s \in Session : q.keep = <<s>> => of[s] = <<q.user>>
    /\ q.at = "record" => of[q.session] # <<>>
SessionsOwned == \A h \in Handler : Owned(req[h], owner)

\* No login takes the id of a revoked session, and no refresh of it is under way.
RevokedGone == \A s \in revoked : s \in Session /\ owner[s] # <<>> /\ ~IsLive(s) /\ ~Refreshing(s)

\* A request that no root sent writes the role of a plain user, or its actor's own, which a root gave.
RolesGranted ==
    /\ \A u \in User : user[u].role # "user" => u \in raised
    /\ \A u \in User : user[u].role = "root" => Initial[u].role = "root"
    /\ \A h \in Handler : req[h].at = "insertuser" /\ req[h].by # "root" => req[h].doc.role = "user"
    /\ \A h \in Handler : req[h].at = "setuser" /\ req[h].by # "root" /\ req[h].role # "user" =>
           req[h].actor = req[h].target /\ req[h].target \in raised

IInv ==
    RequestsOK /\ UserOK /\ LiveOK /\ OwnerOK /\ UnseenOK /\ CountersOK /\ SessionsOwned /\ RevokedGone /\ RolesGranted

-----------------------------------------------------------------------------
(* What a step changes.                                                    *)

\* Only these write the collections, the keys, the ghosts and the counters.
LEMMA Writes ==
    ASSUME [Next]_vars
    PROVE  /\ UNCHANGED <<user, raised>> \/ \E h \in Handler : InsertUser(h) \/ SetUser(h) \/ DropUsers(h)
           /\ \/ UNCHANGED <<live, owner>>
              \/ \E h \in Handler : RevokeSessions(h) \/ UnsetSession(h) \/ \E s \in Session : SetSession(h, s)
              \/ \E s \in Session : SessionExpires(s)
           /\ UNCHANGED record \/ \E h \in Handler : CloseRecords(h) \/ InsertRecord(h)
           /\ UNCHANGED revoked \/ \E h \in Handler : RevokeSessions(h)
           /\ UNCHANGED started \/ (started < MaxRequests /\ started' = started + 1)
           /\ \/ UNCHANGED <<faults, blind>>
              \/ Fails /\ (UNCHANGED blind \/ blind' = blind + 1)
<1> USE DEF stores, bounds, vars, Begins, EmailIsFree
<1>1. ASSUME NEW h \in Handler, Request(h) PROVE
           /\ UNCHANGED <<user, live, owner, record, revoked, raised>>
           /\ UNCHANGED started \/ (started < MaxRequests /\ started' = started + 1)
           /\ UNCHANGED <<faults, blind>> \/ (Fails /\ blind' = blind + 1)
  BY <1>1 DEF Request, Authenticate, PostLogin, Login, PostRefresh, RefreshToken, PostRegister, Register,
     PostLogout, Logout, RemoveSession, DeleteSession, RemoveOtherSessions, ScanOthers,
     PostUser, CreateUser, PutUser, UpdateUser, RemoveUser, RemoveUsers, RemoveProfile, Deletes
<1>2. ASSUME NEW h \in Handler, Continue(h) PROVE
           /\ UNCHANGED <<user, raised>> \/ InsertUser(h) \/ SetUser(h) \/ DropUsers(h)
           /\ \/ UNCHANGED <<live, owner>>
              \/ RevokeSessions(h) \/ UnsetSession(h) \/ \E s \in Session : SetSession(h, s)
           /\ UNCHANGED record \/ CloseRecords(h) \/ InsertRecord(h)
           /\ UNCHANGED revoked \/ RevokeSessions(h)
           /\ UNCHANGED started
           /\ UNCHANGED blind /\ (UNCHANGED faults \/ Fails)
  BY <1>2 DEF Continue, ScanSessions, ScanFails, DeleteAllSessions, RevokeSessions,
     RevokeFails, CloseRecords, CloseFails,
     SetSession, InsertRecord, UnsetSession, UnsetFails, InsertUser, SetUser, DropUsers, CheckTarget, RequestDies
<1>3. ASSUME NEW s \in Session, SessionExpires(s)
      PROVE  UNCHANGED <<user, owner, record, started, faults, blind, revoked, raised>>
  BY <1>3 DEF SessionExpires
<1> QED BY <1>1, <1>2, <1>3 DEF Next

\* A handler that goes on with a request of one of the shapes.
LEMMA GoesOK ==
    ASSUME RequestsOK, NEW h \in Handler, NEW q, Goes(h, q), RequestOK(q)
    PROVE  RequestsOK'
BY DEF RequestsOK, Goes

LEMMA IdleOK == RequestOK(Idle)
BY DEF RequestOK, Idle
\* A request that goes on with what it holds.
LEMMA AtOK ==
    ASSUME RequestsOK, NEW h \in Handler
    PROVE  /\ req[h].at = "unset" => At(h, "set") = [at |-> "set", user |-> req[h].user, keep |-> req[h].keep]
           /\ req[h].at = "revoke" =>
                  At(h, "close") = [at |-> "close", user |-> req[h].user, keys |-> req[h].keys, then |-> req[h].then]
<1> DEFINE q == req[h]
<1>0. RequestOK(q)
  BY DEF RequestsOK
<1>1. ASSUME q.at = "unset"
      PROVE  At(h, "set") = [at |-> "set", user |-> q.user, keep |-> q.keep]
  <2>1. q \in [at : {"unset"}, user : User, keep : {<<s>> : s \in Session}]
    BY <1>0, <1>1 DEF RequestOK
  <2> QED BY <2>1 DEF At
<1>2. ASSUME q.at = "revoke"
      PROVE  At(h, "close") = [at |-> "close", user |-> q.user, keys |-> q.keys, then |-> q.then]
  <2>1. q \in [at : {"revoke", "close"}, user : User, keys : SUBSET Session,
               then : {Idle} \cup {LoginSet(u) : u \in User}]
    BY <1>0, <1>2 DEF RequestOK
  <2> QED BY <2>1 DEF At
<1> QED BY <1>1, <1>2

\* How a login begins, and what the reading of sessions comes to.
LEMMA LoginGoes ==
    ASSUME NEW h \in Handler, PostLogin(h)
    PROVE  \E u \in User : /\ req[h] = Idle
                          /\ \/ Goes(h, LoginSet(u)) /\ MaxSessions <= 0
                             \/ Goes(h, [at |-> "scan", user |-> u, there |-> SessionsOf(u)])
BY AccountsAssumption DEF PostLogin, Login, Begins

LEMMA ScanGoes ==
    ASSUME RequestsOK, UnseenOK, NEW h \in Handler, ScanSessions(h)
    PROVE  /\ req[h].user \in User
           /\ \E keys, old \in SUBSET Session :
                  /\ Scanned(h, keys) /\ Excess(h, keys, old)
                  /\ \/ old = {} /\ Goes(h, LoginSet(req[h].user))
                     \/ Goes(h, [at |-> "revoke", user |-> req[h].user, keys |-> old,
                                 then |-> LoginSet(req[h].user)])
<1>1. RequestOK(req[h]) /\ req[h].at = "scan"
  BY DEF RequestsOK, ScanSessions
<1>2. req[h].user \in User /\ req[h].there \cup unseen[h] \subseteq Session
  BY <1>1 DEF RequestOK, UnseenOK
<1>3. PICK keys \in SUBSET (req[h].there \cup unseen[h]), old \in SUBSET (req[h].there \cup unseen[h]) :
          /\ Scanned(h, keys) /\ Excess(h, keys, old)
          /\ Goes(h, IF old = {} THEN LoginSet(req[h].user)
                     ELSE [at |-> "revoke", user |-> req[h].user, keys |-> old, then |-> LoginSet(req[h].user)])
  BY DEF ScanSessions
<1> QED BY <1>2, <1>3

LEMMA OthersGo ==
    ASSUME RequestsOK, UnseenOK, NEW h \in Handler, DeleteAllSessions(h)
    PROVE  /\ req[h].user \in User
           /\ \E others \in SUBSET Session :
                  \/ Goes(h, Idle)
                  \/ Goes(h, [at |-> "revoke", user |-> req[h].user, keys |-> others, then |-> Idle])
<1>1. RequestOK(req[h]) /\ req[h].at = "others"
  BY DEF RequestsOK, DeleteAllSessions
<1>2. req[h].user \in User /\ req[h].there \cup unseen[h] \subseteq Session
  BY <1>1 DEF RequestOK, UnseenOK
<1>3. PICK keys \in SUBSET (req[h].there \cup unseen[h]) :
          Goes(h, IF keys \ {req[h].session} = {} THEN Idle
                  ELSE [at |-> "revoke", user |-> req[h].user, keys |-> keys \ {req[h].session}, then |-> Idle])
  BY DEF DeleteAllSessions
<1> QED BY <1>2, <1>3

-----------------------------------------------------------------------------
(* Types.                                                                  *)

LEMMA RequestBegins ==
    ASSUME NEW h \in Handler, Request(h)
    PROVE  req[h] = Idle \/ Authed(h)
BY DEF Request, Authenticate, PostLogin, Login, PostRefresh, RefreshToken, PostRegister, Register,
   PostLogout, Logout, RemoveSession, DeleteSession, RemoveOtherSessions, ScanOthers,
   PostUser, PutUser, RemoveUser, RemoveUsers, RemoveProfile, Begins

LEMMA NextRequests ==
    ASSUME RequestsOK, UserOK, LiveOK, OwnerOK, UnseenOK, [Next]_vars
    PROVE  RequestsOK'
<1> USE DEF Known, UserOK, UserDoc, Role
<1>1. ASSUME NEW h \in Handler, req[h] = Idle, Request(h) PROVE RequestsOK'
  <2> SUFFICES \E q : Goes(h, q) /\ RequestOK(q)
    BY GoesOK
  <2>1. CASE \E s \in Session : Authenticate(h, s)
    BY <2>1 DEF Authenticate, RequestOK
  <2>2. CASE PostLogin(h)
    <3>1. ASSUME NEW u \in User PROVE /\ RequestOK(LoginSet(u))
                                     /\ RequestOK([at |-> "scan", user |-> u, there |-> SessionsOf(u)])
      <4>1. SessionsOf(u) \subseteq Session
        BY DEF SessionsOf, LiveOK
      <4> QED BY <4>1 DEF RequestOK, LoginSet
    <3> QED BY <2>2, <3>1, LoginGoes
  <2>3. CASE PostRefresh(h)
    BY <2>3 DEF PostRefresh, RefreshToken, RequestOK
  <2>4. CASE PostRegister(h)
    BY <2>4 DEF PostRegister, Register, Inserting, RequestOK
  <2> QED BY <1>1, <2>1, <2>2, <2>3, <2>4 DEF Request, Idle, PostLogout, Logout, RemoveSession,
        DeleteSession, RemoveOtherSessions, ScanOthers, PostUser, PutUser, RemoveUser,
        RemoveUsers, RemoveProfile, Authed
<1>2. ASSUME NEW h \in Handler, Authed(h), Request(h) PROVE RequestsOK'
  <2> SUFFICES \E q : Goes(h, q) /\ RequestOK(q)
    BY GoesOK
  <2>0. req[h] \in [at : {"authed"}, session : Session, actor : User, role : Role]
    BY <1>2 DEF RequestsOK, RequestOK, Authed
  <2>1. CASE PostLogout(h)
    BY <2>0, <2>1 DEF PostLogout, Logout, Revokes, RequestOK
  <2>2. CASE RemoveSession(h)
    BY <2>0, <2>2 DEF RemoveSession, DeleteSession, Revokes, RequestOK
  <2>3. CASE RemoveOtherSessions(h)
    BY <2>0, <2>3 DEF RemoveOtherSessions, ScanOthers, SessionsOf, LiveOK, RequestOK
  <2>4. CASE PostUser(h)
    <3>1. PICK u \in User, e \in Email, role \in {"admin", "user"} :
              Goes(h, Inserting(u, e, role, TRUE, req[h].role))
      BY <2>4 DEF PostUser, CreateUser, AllowedRole
    <3>2. RequestOK(Inserting(u, e, role, TRUE, req[h].role))
      BY <2>0 DEF Inserting, RequestOK
    <3> QED BY <3>1, <3>2
  <2>5. CASE PutUser(h)
    BY <2>0, <2>5 DEF PutUser, UpdateUser, AllowedRole, RequestOK
  <2>6. CASE RemoveUser(h)
    BY <2>0, <2>6 DEF RemoveUser, Deletes, RequestOK
  <2>7. CASE RemoveUsers(h)
    BY <2>0, <2>7 DEF RemoveUsers, RequestOK
  <2>8. CASE RemoveProfile(h)
    BY <2>0, <2>8 DEF RemoveProfile, Deletes, RequestOK
  <2>9. req[h] # Idle
    BY <1>2 DEF Authed, Idle
  <2> QED BY <1>2, <2>1, <2>2, <2>3, <2>4, <2>5, <2>6, <2>7, <2>8, <2>9
        DEF Request, Authenticate, PostLogin, Login, PostRefresh, RefreshToken, PostRegister, Register, Begins
<1>3. ASSUME NEW h \in Handler, Continue(h) PROVE RequestsOK'
  <2>0. RequestOK(req[h])
    BY DEF RequestsOK
  <2>1. CASE ScanSessions(h)
    BY <2>1, ScanGoes, GoesOK DEF RequestOK, LoginSet
  <2>2. CASE ScanFails(h)
    BY <2>0, <2>2, GoesOK DEF ScanFails, RequestOK, LoginSet
  <2>3. CASE RevokeSessions(h) \/ RevokeFails(h)
    BY <2>0, <2>3, AtOK, GoesOK DEF RevokeSessions, RevokeFails, RequestOK
  <2>4. CASE CloseRecords(h) \/ CloseFails(h)
    BY <2>0, <2>4, IdleOK, GoesOK DEF CloseRecords, CloseFails, RequestOK, LoginSet
  <2>5. CASE \E s \in Session : SetSession(h, s)
    BY <2>0, <2>5, IdleOK, GoesOK DEF SetSession, RequestOK
  <2>6. CASE UnsetSession(h) \/ UnsetFails(h)
    BY <2>0, <2>6, AtOK, GoesOK DEF UnsetSession, UnsetFails, RequestOK
  <2>7. CASE InsertRecord(h) \/ InsertUser(h) \/ SetUser(h) \/ DropUsers(h) \/ RequestDies(h)
    BY <2>7, IdleOK, GoesOK DEF InsertRecord, InsertUser, SetUser, DropUsers, RequestDies, Ends
  <2>8. ASSUME NEW t \in User, CheckTarget(h, t) PROVE RequestsOK'
    <3>1. req[h] \in [at : {"check"}, left : SUBSET User, users : SUBSET User, actor : User, role : Role]
      BY <2>0, <2>8 DEF CheckTarget, RequestOK
    <3>2. RequestOK([req[h] EXCEPT !.left = @ \ {t}])
      BY <3>1 DEF RequestOK
    <3>3. RequestOK([at |-> "dropusers", users |-> req[h].users])
      BY <3>1 DEF RequestOK
    <3> QED BY <2>8, <3>2, <3>3, IdleOK, GoesOK DEF CheckTarget, Ends
  <2>9. CASE DeleteAllSessions(h)
    BY <2>9, OthersGo, IdleOK, GoesOK DEF RequestOK
  <2> QED BY <1>3, <2>1, <2>2, <2>3, <2>4, <2>5, <2>6, <2>7, <2>8, <2>9 DEF Continue
<1>4. CASE (\E s \in Session : SessionExpires(s)) \/ UNCHANGED vars
  BY <1>4 DEF SessionExpires, vars, RequestsOK
<1> QED BY <1>1, <1>2, <1>3, <1>4, RequestBegins DEF Next

LEMMA NextUsers ==
    ASSUME RequestsOK, UserOK, [Next]_vars
    PROVE  UserOK'
<1>1. CASE UNCHANGED <<user, raised>>
  BY <1>1 DEF UserOK
<1>2. ASSUME NEW h \in Handler, InsertUser(h) PROVE UserOK'
  <2>1. req[h].user \in User /\ req[h].doc \in UserDoc
    BY <1>2 DEF InsertUser, RequestsOK, RequestOK, UserDoc, Role
  <2> QED BY <1>2, <2>1 DEF InsertUser, Raises, UserOK
<1>3. ASSUME NEW h \in Handler, SetUser(h) PROVE UserOK'
  <2>1. req[h].target \in User /\ req[h].role \in Role /\ req[h].on \in BOOLEAN
    BY <1>3 DEF SetUser, RequestsOK, RequestOK, Role
  <2>2. [user EXCEPT ![req[h].target].role = req[h].role, ![req[h].target].on = req[h].on]
            \in [User -> UserDoc]
    BY <2>1 DEF UserOK, UserDoc
  <2> QED BY <1>3, <2>1, <2>2 DEF SetUser, Raises, UserOK
<1>4. ASSUME NEW h \in Handler, DropUsers(h) PROVE UserOK'
  BY <1>4 DEF DropUsers, UserOK, UserDoc, Deleted, Role
<1> QED BY <1>1, <1>2, <1>3, <1>4, Writes

\* Deleting keys and renewing one keep the order of the others' times.
LEMMA WithoutOK ==
    ASSUME LiveOK, NEW keys, live' = Without(keys)
    PROVE  LiveOK' /\ DOMAIN live' = DOMAIN live \ keys
BY DEF LiveOK, Without

LEMMA RenewedOK ==
    ASSUME LiveOK, NEW s \in Session, live' = Renewed(s)
    PROVE  LiveOK' /\ DOMAIN live' = DOMAIN live \cup {s}
BY DEF LiveOK, Renewed

LEMMA NextLive ==
    ASSUME LiveOK, [Next]_vars
    PROVE  LiveOK'
<1>1. \/ UNCHANGED <<live, owner>>
      \/ \E h \in Handler : RevokeSessions(h) \/ UnsetSession(h) \/ \E s \in Session : SetSession(h, s)
      \/ \E s \in Session : SessionExpires(s)
  BY Writes
<1>2. CASE UNCHANGED <<live, owner>>
  BY <1>2 DEF LiveOK
<1>3. ASSUME NEW h \in Handler, RevokeSessions(h) \/ UnsetSession(h) PROVE LiveOK'
  <2>1. \E keys : live' = Without(keys)
    BY <1>3 DEF RevokeSessions, UnsetSession
  <2> QED BY <2>1, WithoutOK
<1>4. ASSUME NEW h \in Handler, NEW s \in Session, SetSession(h, s) PROVE LiveOK'
  <2>1. live' = Renewed(s)
    BY <1>4 DEF SetSession
  <2> QED BY <2>1, RenewedOK
<1>5. ASSUME NEW s \in Session, SessionExpires(s) PROVE LiveOK'
  <2>1. \E keys : live' = Without(keys)
    BY <1>5 DEF SessionExpires
  <2> QED BY <2>1, WithoutOK
<1> QED BY <1>1, <1>2, <1>3, <1>4, <1>5

LEMMA NextUnseen ==
    ASSUME RequestsOK, LiveOK, UnseenOK, [Next]_vars
    PROVE  UnseenOK'
<1>1. ASSUME NEW h \in Handler, Request(h) PROVE unseen' = unseen
  BY <1>1 DEF Request, Authenticate, PostLogin, Login, PostRefresh, RefreshToken, PostRegister, Register,
     PostLogout, Logout, RemoveSession, DeleteSession, RemoveOtherSessions, ScanOthers,
     PostUser, CreateUser, PutUser, UpdateUser, RemoveUser, RemoveUsers, RemoveProfile, Deletes
<1>2. ASSUME NEW h \in Handler, Continue(h) PROVE UnseenOK'
  <2>1. CASE ScanFails(h)
    BY <2>1 DEF ScanFails, SessionsOf, LiveOK, UnseenOK
  <2>2. CASE RevokeFails(h)
    BY <2>2 DEF RevokeFails, RequestsOK, RequestOK, UnseenOK
  <2>3. CASE DeleteAllSessions(h) \/ RequestDies(h)
    BY <2>3 DEF DeleteAllSessions, RequestDies, LooksNoMore, UnseenOK
  <2>4. CASE \E s \in Session : SetSession(h, s)
    BY <2>4 DEF SetSession, UnseenOK
  <2> QED BY <1>2, <2>1, <2>2, <2>3, <2>4 DEF Continue, ScanSessions, RevokeSessions, CloseRecords, CloseFails,
       InsertRecord, UnsetSession, UnsetFails, InsertUser, SetUser, DropUsers, CheckTarget, UnseenOK
<1>3. CASE (\E s \in Session : SessionExpires(s)) \/ UNCHANGED vars
  BY <1>3 DEF SessionExpires, vars, UnseenOK
<1> QED BY <1>1, <1>2, <1>3 DEF Next, UnseenOK

LEMMA NextCounters ==
    ASSUME CountersOK, [Next]_vars
    PROVE  CountersOK'
BY Writes, AccountsAssumption DEF CountersOK, Fails

\* A session keeps the user it was made for.
LEMMA OwnerStays ==
    ASSUME RequestsOK, OwnerOK, SessionsOwned, [Next]_vars
    PROVE  /\ DOMAIN owner' = Session
           /\ \A s \in Session : owner[s] # <<>> => owner'[s] = owner[s]
           /\ \A s \in Session : owner'[s] = <<>> \/ \E u \in User : owner'[s] = <<u>>
<1>1. ASSUME NEW h \in Handler, NEW s \in Session, SetSession(h, s)
      PROVE  /\ req[h].user \in User /\ owner' = [owner EXCEPT ![s] = <<req[h].user>>]
             /\ owner[s] = <<>> \/ owner[s] = <<req[h].user>>
  BY <1>1 DEF SetSession, RequestsOK, RequestOK, SessionsOwned, Owned
<1>2. UNCHANGED owner \/ \E h \in Handler, s \in Session : SetSession(h, s)
  BY Writes DEF RevokeSessions, UnsetSession, SessionExpires
<1> QED BY <1>1, <1>2 DEF OwnerOK

LEMMA NextOwner ==
    ASSUME RequestsOK, LiveOK, OwnerOK, SessionsOwned, [Next]_vars
    PROVE  OwnerOK'
<1>1. ASSUME NEW s \in Session, owner'[s] = <<>> PROVE ~IsLive(s)' /\ record'[s] = "none"
  <2>0. owner[s] = <<>> /\ ~IsLive(s) /\ record[s] = "none"
    BY <1>1, OwnerStays DEF OwnerOK
  <2>1. ~IsLive(s)'
    <3>1. CASE UNCHANGED <<live, owner>>
      BY <2>0, <3>1 DEF IsLive
    <3>2. CASE (\E h \in Handler : RevokeSessions(h) \/ UnsetSession(h)) \/ \E t \in Session : SessionExpires(t)
      BY <2>0, <3>2, WithoutOK DEF IsLive, RevokeSessions, UnsetSession, SessionExpires
    <3>3. ASSUME NEW h \in Handler, NEW t \in Session, SetSession(h, t) PROVE ~IsLive(s)'
      <4>1. t # s
        BY <1>1, <3>3 DEF SetSession, OwnerOK
      <4> QED BY <2>0, <3>3, <4>1, RenewedOK DEF IsLive, SetSession
    <3> QED BY <3>1, <3>2, <3>3, Writes
  <2>2. record'[s] = "none"
    <3>1. ASSUME NEW h \in Handler, InsertRecord(h) PROVE record'[s] = "none"
      <4>1. req[h].session # s
        BY <2>0, <3>1 DEF InsertRecord, SessionsOwned, Owned
      <4> QED BY <2>0, <3>1, <4>1 DEF InsertRecord, OwnerOK
    <3>2. ASSUME NEW h \in Handler, CloseRecords(h) PROVE record'[s] = "none"
      BY <2>0, <3>2 DEF CloseRecords
    <3> QED BY <2>0, <3>1, <3>2, Writes
  <2> QED BY <2>1, <2>2
<1>2. record' \in [Session -> {"none", "open", "closed"}]
  BY Writes DEF OwnerOK, InsertRecord, CloseRecords
<1> QED BY <1>1, <1>2, OwnerStays DEF OwnerOK

LEMMA NextSessionsOwned ==
    ASSUME RequestsOK, LiveOK, OwnerOK, UnseenOK, SessionsOwned, [Next]_vars
    PROVE  SessionsOwned'
<1>1. ASSUME NEW q, RequestOK(q), Owned(q, owner) PROVE Owned(q, owner')
  BY <1>1, OwnerStays DEF Owned, RequestOK
<1>2. ASSUME NEW h \in Handler, NEW q, Goes(h, q), Owned(q, owner') PROVE SessionsOwned'
  BY <1>1, <1>2 DEF SessionsOwned, RequestsOK, Goes
<1>3. Owned(Idle, owner')
  BY DEF Owned, Idle
<1>4. ASSUME NEW h \in Handler, Request(h) PROVE SessionsOwned'
  <2>1. ASSUME NEW s \in Session, RefreshToken(h, s) PROVE SessionsOwned'
    <3>1. PICK u \in User : owner[s] = <<u>> /\ Goes(h, [at |-> "unset", user |-> u, keep |-> <<s>>])
      BY <2>1 DEF RefreshToken, Known
    <3>2. Owned([at |-> "unset", user |-> u, keep |-> <<s>>], owner')
      BY <3>1, OwnerStays DEF Owned
    <3> QED BY <1>2, <3>1, <3>2
  <2>2. CASE PostLogin(h)
    <3>1. ASSUME NEW u PROVE /\ Owned(LoginSet(u), owner')
                             /\ Owned([at |-> "scan", user |-> u, there |-> SessionsOf(u)], owner')
      BY DEF Owned, LoginSet
    <3> QED BY <1>2, <2>2, <3>1, LoginGoes
  <2>3. ASSUME NEW q, Goes(h, q), q.at \in {"authed", "others", "insertuser", "setuser", "check", "dropusers"}
        PROVE  SessionsOwned'
    BY <1>2, <2>3 DEF Owned
  <2>4. ASSUME NEW keys, Revokes(h, keys) PROVE SessionsOwned'
    BY <1>2, <2>4 DEF Revokes, Owned
  <2>5. CASE \E s \in Session : Authenticate(h, s)
    BY <2>3, <2>5 DEF Authenticate
  <2>6. CASE PostRegister(h) \/ PostUser(h)
    BY <2>3, <2>6 DEF PostRegister, Register, PostUser, CreateUser, Inserting
  <2>7. CASE PostLogout(h) \/ RemoveSession(h) \/ RemoveOtherSessions(h)
    BY <2>3, <2>4, <2>7 DEF PostLogout, Logout, RemoveSession, DeleteSession, RemoveOtherSessions, ScanOthers
  <2>8. CASE PutUser(h) \/ RemoveUser(h) \/ RemoveUsers(h) \/ RemoveProfile(h)
    BY <2>3, <2>8 DEF PutUser, UpdateUser, RemoveUser, RemoveUsers, RemoveProfile, Deletes
  <2> QED BY <1>4, <2>1, <2>2, <2>5, <2>6, <2>7, <2>8 DEF Request, PostRefresh
<1>5. ASSUME NEW h \in Handler, Continue(h) PROVE SessionsOwned'
  <2>0. RequestOK(req[h]) /\ Owned(req[h], owner)
    BY DEF RequestsOK, SessionsOwned
  <2>1. ASSUME NEW u \in User PROVE Owned(LoginSet(u), owner')
    BY DEF Owned, LoginSet
  <2>2. CASE ScanSessions(h)
    <3>1. ASSUME NEW keys PROVE
              Owned([at |-> "revoke", user |-> req[h].user, keys |-> keys, then |-> LoginSet(req[h].user)], owner')
      BY DEF Owned
    <3> QED BY <1>2, <2>1, <2>2, <3>1, ScanGoes
  <2>3. CASE ScanFails(h)
    BY <1>2, <2>0, <2>1, <2>3 DEF ScanFails, RequestOK
  <2>4. CASE RevokeSessions(h) \/ RevokeFails(h)
    <3>1. Owned([at |-> "close", user |-> req[h].user, keys |-> req[h].keys, then |-> req[h].then], owner')
      BY DEF Owned
    <3> QED BY <1>2, <2>4, <3>1, AtOK DEF RevokeSessions, RevokeFails
  <2>5. CASE CloseRecords(h) \/ CloseFails(h)
    BY <1>2, <1>3, <2>0, <2>1, <2>5 DEF CloseRecords, CloseFails, RequestOK
  <2>6. ASSUME NEW s \in Session, SetSession(h, s) PROVE SessionsOwned'
    <3>1. owner'[s] # <<>>
      BY <2>6 DEF SetSession, OwnerOK
    <3>2. Owned([at |-> "record", session |-> s], owner')
      BY <3>1 DEF Owned
    <3> QED BY <1>2, <1>3, <2>6, <3>2 DEF SetSession
  <2>7. CASE UnsetSession(h) \/ UnsetFails(h)
    <3>1. Owned([at |-> "set", user |-> req[h].user, keep |-> req[h].keep], owner')
      <4>1. req[h].user \in User /\ req[h].at = "unset"
        BY <2>0, <2>7 DEF RequestOK, UnsetSession, UnsetFails
      <4> QED BY <2>0, <4>1, OwnerStays DEF Owned
    <3> QED BY <1>2, <2>7, <3>1, AtOK DEF UnsetSession, UnsetFails
  <2>8. CASE InsertRecord(h) \/ InsertUser(h) \/ SetUser(h) \/ DropUsers(h) \/ RequestDies(h)
    BY <1>2, <1>3, <2>8 DEF InsertRecord, InsertUser, SetUser, DropUsers, RequestDies, Ends
  <2>9. ASSUME NEW t \in User, CheckTarget(h, t) PROVE SessionsOwned'
    <3>1. req[h] \in [at : {"check"}, left : SUBSET User, users : SUBSET User, actor : User, role : Role]
      BY <2>0, <2>9 DEF CheckTarget, RequestOK
    <3>2. Owned([req[h] EXCEPT !.left = @ \ {t}], owner')
      BY <3>1 DEF Owned
    <3>3. Owned([at |-> "dropusers", users |-> req[h].users], owner')
      BY DEF Owned
    <3> QED BY <1>2, <1>3, <2>9, <3>2, <3>3 DEF CheckTarget, Ends
  <2>10. CASE DeleteAllSessions(h)
    <3>1. ASSUME NEW keys PROVE
              Owned([at |-> "revoke", user |-> req[h].user, keys |-> keys, then |-> Idle], owner')
      BY DEF Owned
    <3> QED BY <1>2, <1>3, <2>10, <3>1, OthersGo
  <2> QED BY <1>5, <2>2, <2>3, <2>4, <2>5, <2>6, <2>7, <2>8, <2>9, <2>10 DEF Continue
<1>6. CASE (\E s \in Session : SessionExpires(s)) \/ UNCHANGED vars
  BY <1>1, <1>6 DEF SessionExpires, vars, SessionsOwned, RequestsOK
<1> QED BY <1>4, <1>5, <1>6 DEF Next

-----------------------------------------------------------------------------
(* Sessions that were ended.                                               *)

\* The refreshes under way are of sessions that were there when they began.
LEMMA RefreshingBegan ==
    ASSUME RequestsOK, UnseenOK, [Next]_vars, NEW s \in Session, Refreshing(s)'
    PROVE  Refreshing(s) \/ IsLive(s)
<1> PICK g \in Handler : req'[g].at \in {"unset", "set"} /\ req'[g].keep = <<s>>
  BY DEF Refreshing
<1>1. CASE UNCHANGED req
  BY <1>1 DEF Refreshing
<1>2. ASSUME NEW h \in Handler, NEW q, Goes(h, q),
             q.at \in {"unset", "set"} => q.keep # <<s>> \/ Refreshing(s) \/ IsLive(s)
      PROVE  Refreshing(s) \/ IsLive(s)
  BY <1>2 DEF Goes, Refreshing, RequestsOK
<1>3. ASSUME NEW h \in Handler, NEW q, Goes(h, q), q.at \notin {"unset", "set"}
      PROVE  Refreshing(s) \/ IsLive(s)
  BY <1>2, <1>3
<1>4. Idle.at \notin {"unset", "set"}
  BY DEF Idle
<1>5. ASSUME NEW h \in Handler, Request(h) PROVE Refreshing(s) \/ IsLive(s)
  <2>1. CASE PostRefresh(h)
    <3>1. PICK t \in Session, u \in User : IsLive(t) /\ Goes(h, [at |-> "unset", user |-> u, keep |-> <<t>>])
      BY <2>1 DEF PostRefresh, RefreshToken, Known
    <3> QED BY <1>2, <3>1
  <2>2. CASE PostLogin(h)
    <3>1. \A u : LoginSet(u).keep # <<s>>
      BY DEF LoginSet
    <3> QED BY <1>2, <1>3, <2>2, <3>1, LoginGoes
  <2>3. CASE (\E t \in Session : Authenticate(h, t)) \/ PostRegister(h) \/ PostUser(h)
    BY <1>3, <2>3 DEF Authenticate, PostRegister, Register, PostUser, CreateUser, Inserting
  <2>4. CASE PostLogout(h) \/ RemoveSession(h) \/ RemoveOtherSessions(h)
    BY <1>3, <1>4, <2>4 DEF PostLogout, Logout, RemoveSession, DeleteSession,
       RemoveOtherSessions, ScanOthers, Revokes, Ends
  <2>5. CASE PutUser(h) \/ RemoveUser(h) \/ RemoveUsers(h) \/ RemoveProfile(h)
    BY <1>3, <2>5 DEF PutUser, UpdateUser, RemoveUser, RemoveUsers, RemoveProfile, Deletes
  <2> QED BY <1>5, <2>1, <2>2, <2>3, <2>4, <2>5 DEF Request
<1>6. ASSUME NEW h \in Handler, Continue(h) PROVE Refreshing(s) \/ IsLive(s)
  <2>0. RequestOK(req[h])
    BY DEF RequestsOK
  <2>1. ASSUME NEW u, Goes(h, LoginSet(u)) PROVE Refreshing(s) \/ IsLive(s)
    BY <1>2, <2>1 DEF LoginSet
  <2>2. CASE ScanSessions(h)
    BY <1>3, <2>1, <2>2, ScanGoes
  <2>3. CASE ScanFails(h)
    BY <2>1, <2>3 DEF ScanFails
  <2>4. CASE RevokeSessions(h) \/ RevokeFails(h)
    BY <1>3, <2>4, AtOK DEF RevokeSessions, RevokeFails
  <2>5. CASE CloseRecords(h) \/ CloseFails(h)
    BY <1>3, <1>4, <2>0, <2>1, <2>5 DEF CloseRecords, CloseFails, RequestOK
  <2>6. CASE \E t \in Session : SetSession(h, t)
    BY <1>3, <1>4, <2>6 DEF SetSession
  <2>7. CASE UnsetSession(h) \/ UnsetFails(h)
    <3>1. req[h].at = "unset" /\ Goes(h, [at |-> "set", user |-> req[h].user, keep |-> req[h].keep])
      BY <2>7, AtOK DEF UnsetSession, UnsetFails
    <3>2. req[h].keep = <<s>> => Refreshing(s)
      BY <3>1 DEF Refreshing
    <3> QED BY <1>2, <3>1, <3>2
  <2>8. CASE InsertRecord(h) \/ InsertUser(h) \/ SetUser(h) \/ DropUsers(h) \/ RequestDies(h)
    BY <1>3, <1>4, <2>8 DEF InsertRecord, InsertUser, SetUser, DropUsers, RequestDies, Ends
  <2>9. ASSUME NEW t \in User, CheckTarget(h, t) PROVE Refreshing(s) \/ IsLive(s)
    <3>1. req[h] \in [at : {"check"}, left : SUBSET User, users : SUBSET User, actor : User, role : Role]
      BY <2>0, <2>9 DEF CheckTarget, RequestOK
    <3>2. [req[h] EXCEPT !.left = @ \ {t}].at = "check"
      BY <3>1
    <3> QED BY <1>3, <1>4, <2>9, <3>2 DEF CheckTarget, Ends
  <2>10. CASE DeleteAllSessions(h)
    BY <1>3, <1>4, <2>10, OthersGo
  <2> QED BY <1>6, <2>2, <2>3, <2>4, <2>5, <2>6, <2>7, <2>8, <2>9, <2>10 DEF Continue
<1>7. CASE (\E t \in Session : SessionExpires(t)) \/ UNCHANGED vars
  BY <1>1, <1>7 DEF SessionExpires, vars
<1> QED BY <1>5, <1>6, <1>7 DEF Next

LEMMA NextRevoked ==
    ASSUME RequestsOK, LiveOK, OwnerOK, UnseenOK, SessionsOwned, RevokedGone, [Next]_vars
    PROVE  RevokedGone'
<1>1. ASSUME NEW s \in revoked PROVE s \in Session /\ owner'[s] # <<>> /\ ~IsLive(s)' /\ ~Refreshing(s)'
  <2>0. s \in Session /\ owner[s] # <<>> /\ ~IsLive(s) /\ ~Refreshing(s)
    BY DEF RevokedGone
  <2>1. ~IsLive(s)'
    <3>1. CASE UNCHANGED live
      BY <2>0, <3>1 DEF IsLive
    <3>2. CASE (\E h \in Handler : RevokeSessions(h) \/ UnsetSession(h)) \/ \E t \in Session : SessionExpires(t)
      BY <2>0, <3>2, WithoutOK DEF IsLive, RevokeSessions, UnsetSession, SessionExpires
    <3>3. ASSUME NEW h \in Handler, NEW t \in Session, SetSession(h, t) PROVE ~IsLive(s)'
      <4>1. t # s
        BY <2>0, <3>3 DEF SetSession, Refreshing
      <4> QED BY <2>0, <3>3, <4>1, RenewedOK DEF IsLive, SetSession
    <3> QED BY <3>1, <3>2, <3>3, Writes
  <2> QED BY <2>0, <2>1, OwnerStays, RefreshingBegan
<1>2. ASSUME NEW h \in Handler, RevokeSessions(h), NEW s \in revoked', s \notin revoked
      PROVE  s \in Session /\ owner'[s] # <<>> /\ ~IsLive(s)' /\ ~Refreshing(s)'
  <2>1. /\ s \in req[h].keys /\ owner[s] = <<req[h].user>> /\ ~Refreshing(s)
        /\ req[h].keys \subseteq Session
    BY <1>2 DEF RevokeSessions, RequestsOK, RequestOK
  <2>2. ~IsLive(s)'
    <3>1. live' = Without({t \in req[h].keys : owner[t] = <<req[h].user>>})
      BY <1>2 DEF RevokeSessions
    <3>2. DOMAIN live' = DOMAIN live \ {t \in req[h].keys : owner[t] = <<req[h].user>>}
      BY <3>1, WithoutOK
    <3> QED BY <2>1, <3>2 DEF IsLive
  <2>3. ~Refreshing(s)'
    <3>1. req' = [req EXCEPT ![h] = At(h, "close")] /\ At(h, "close").at = "close"
      BY <1>2, AtOK DEF RevokeSessions, Goes
    <3> QED BY <2>1, <3>1 DEF Refreshing, RequestsOK
  <2>4. owner' = owner /\ owner[s] # <<>>
    BY <1>2, <2>1 DEF RevokeSessions
  <2> QED BY <2>1, <2>2, <2>3, <2>4
<1> QED BY <1>1, <1>2, Writes DEF RevokedGone

-----------------------------------------------------------------------------
(* Roles.                                                                  *)

\* What a request is about to write as it begins: what its actor may grant, or what its own row has.
LEMMA GrantedAtStart ==
    ASSUME RequestsOK, UserOK, RolesGranted, NEW h \in Handler, Request(h), NEW q, Goes(h, q)
    PROVE  /\ q.at = "insertuser" /\ q.by # "root" => q.doc.role = "user"
           /\ q.at = "setuser" /\ q.by # "root" /\ q.role # "user" =>
                  q.actor = q.target /\ q.target \in raised
<1> DEFINE Granted ==
           /\ q.at = "insertuser" /\ q.by # "root" => q.doc.role = "user"
           /\ q.at = "setuser" /\ q.by # "root" /\ q.role # "user" =>
                  q.actor = q.target /\ q.target \in raised
<1>0. ASSUME NEW p, Goes(h, p) PROVE p = q
  BY <1>0 DEF Goes, RequestsOK
<1>1. ASSUME NEW p, Goes(h, p), p.at \notin {"insertuser", "setuser"} PROVE Granted
  BY <1>0, <1>1
<1>2. CASE PostRegister(h)
  <2>1. PICK u, e, on : Goes(h, Inserting(u, e, "user", on, "user"))
    BY <1>2 DEF PostRegister, Register
  <2> QED BY <2>1, <1>0 DEF Inserting
<1>3. CASE PostUser(h)
  <2>1. PICK u, e, role : /\ Goes(h, Inserting(u, e, role, TRUE, req[h].role))
                          /\ CanSetUserRole(req[h].role, role)
    BY <1>3 DEF PostUser, CreateUser
  <2> QED BY <2>1, <1>0 DEF Inserting, CanSetUserRole
<1>4. CASE PutUser(h)
  <2>1. PICK t \in User, role \in Role, on \in BOOLEAN :
            /\ CanSetNewRole(req[h], t, role)
            /\ Goes(h, [at |-> "setuser", target |-> t, role |-> role, on |-> on,
                        actor |-> req[h].actor, by |-> req[h].role])
    BY <1>4 DEF PutUser, UpdateUser, Known
  <2>2. req[h].role = "root" \/ role = "user" \/ (t = req[h].actor /\ user[t].role = role)
    BY <2>1 DEF CanSetNewRole
  <2> QED BY <2>1, <2>2, <1>0 DEF RolesGranted
<1>5. CASE PostLogin(h)
  <2>1. \A u : LoginSet(u).at = "set"
    BY DEF LoginSet
  <2> QED BY <1>1, <1>5, <2>1, LoginGoes
<1>6. CASE PostRefresh(h) \/ \E s \in Session : Authenticate(h, s)
  BY <1>1, <1>6 DEF PostRefresh, RefreshToken, Authenticate
<1>7. CASE PostLogout(h) \/ RemoveSession(h) \/ RemoveOtherSessions(h)
  BY <1>1, <1>7 DEF PostLogout, Logout, RemoveSession, DeleteSession, RemoveOtherSessions,
     ScanOthers, Revokes, Ends, Idle
<1>8. CASE RemoveUser(h) \/ RemoveUsers(h) \/ RemoveProfile(h)
  BY <1>1, <1>8 DEF RemoveUser, RemoveUsers, RemoveProfile, Deletes
<1> QED BY <1>2, <1>3, <1>4, <1>5, <1>6, <1>7, <1>8 DEF Request

\* No request goes on to write a user but by an update or a creation of its own.
LEMMA ContinueWritesNoMore ==
    ASSUME RequestsOK, UnseenOK, NEW h \in Handler, Continue(h)
    PROVE  req'[h].at \notin {"insertuser", "setuser"} /\ \A g \in Handler \ {h} : req'[g] = req[g]
<1>0. RequestOK(req[h])
  BY DEF RequestsOK
<1>1. ASSUME NEW q, Goes(h, q), q.at \notin {"insertuser", "setuser"}
      PROVE  req'[h].at \notin {"insertuser", "setuser"} /\ \A g \in Handler \ {h} : req'[g] = req[g]
  BY <1>1 DEF Goes, RequestsOK
<1>2. Idle.at \notin {"insertuser", "setuser"} /\ \A u : LoginSet(u).at \notin {"insertuser", "setuser"}
  BY DEF Idle, LoginSet
<1>3. CASE ScanSessions(h)
  BY <1>1, <1>2, <1>3, ScanGoes
<1>4. CASE ScanFails(h)
  BY <1>1, <1>2, <1>4 DEF ScanFails
<1>5. CASE RevokeSessions(h) \/ RevokeFails(h)
  BY <1>1, <1>5, AtOK DEF RevokeSessions, RevokeFails
<1>6. CASE CloseRecords(h) \/ CloseFails(h)
  BY <1>0, <1>1, <1>2, <1>6 DEF CloseRecords, CloseFails, RequestOK
<1>7. CASE \E t \in Session : SetSession(h, t)
  BY <1>1, <1>2, <1>7 DEF SetSession
<1>8. CASE UnsetSession(h) \/ UnsetFails(h)
  BY <1>1, <1>8, AtOK DEF UnsetSession, UnsetFails
<1>9. CASE InsertRecord(h) \/ InsertUser(h) \/ SetUser(h) \/ DropUsers(h) \/ RequestDies(h)
  BY <1>1, <1>2, <1>9 DEF InsertRecord, InsertUser, SetUser, DropUsers, RequestDies, Ends
<1>10. ASSUME NEW t \in User, CheckTarget(h, t)
       PROVE  req'[h].at \notin {"insertuser", "setuser"} /\ \A g \in Handler \ {h} : req'[g] = req[g]
  <2>1. req[h] \in [at : {"check"}, left : SUBSET User, users : SUBSET User, actor : User, role : Role]
    BY <1>0, <1>10 DEF CheckTarget, RequestOK
  <2>2. [req[h] EXCEPT !.left = @ \ {t}].at = "check"
    BY <2>1
  <2> QED BY <1>1, <1>2, <1>10, <2>2 DEF CheckTarget, Ends
<1>11. CASE DeleteAllSessions(h)
  BY <1>1, <1>2, <1>11, OthersGo
<1> QED BY <1>3, <1>4, <1>5, <1>6, <1>7, <1>8, <1>9, <1>10, <1>11 DEF Continue

\* The creations and the updates under way before a step: those after it, and what a request starts.
LEMMA GrantsStep ==
    ASSUME RequestsOK, UserOK, UnseenOK, RolesGranted, [Next]_vars, NEW g \in Handler
    PROVE  /\ req'[g].at = "insertuser" /\ req'[g].by # "root" => req'[g].doc.role = "user"
           /\ req'[g].at = "setuser" /\ req'[g].by # "root" /\ req'[g].role # "user" =>
                  /\ req'[g].actor = req'[g].target /\ req'[g].target \in raised
                  /\ req'[g] = req[g] \/ raised' = raised
<1>1. CASE req'[g] = req[g]
  BY <1>1 DEF RolesGranted
<1>2. ASSUME NEW h \in Handler, Request(h), req'[g] # req[g] PROVE
           /\ req'[g].at = "insertuser" /\ req'[g].by # "root" => req'[g].doc.role = "user"
           /\ req'[g].at = "setuser" /\ req'[g].by # "root" /\ req'[g].role # "user" =>
                  req'[g].actor = req'[g].target /\ req'[g].target \in raised /\ raised' = raised
  <2>1. g = h /\ Goes(h, req'[g])
    <3>1. PICK q : Goes(h, q)
      BY <1>2 DEF Request, Authenticate, PostLogin, Login, PostRefresh, RefreshToken, PostRegister, Register,
         PostLogout, Logout, RemoveSession, DeleteSession, RemoveOtherSessions, ScanOthers,
         PostUser, CreateUser, PutUser, UpdateUser, RemoveUser, RemoveUsers, RemoveProfile, Deletes, Revokes, Ends
    <3> QED BY <1>2, <3>1 DEF Goes, RequestsOK
  <2>2. raised' = raised
    BY <1>2 DEF Request, Authenticate, PostLogin, Login, PostRefresh, RefreshToken, PostRegister, Register,
       PostLogout, Logout, RemoveSession, DeleteSession, RemoveOtherSessions, ScanOthers,
       PostUser, CreateUser, PutUser, UpdateUser, RemoveUser, RemoveUsers, RemoveProfile, Deletes
  <2>3. \A q : Goes(h, q) =>
            /\ q.at = "insertuser" /\ q.by # "root" => q.doc.role = "user"
            /\ q.at = "setuser" /\ q.by # "root" /\ q.role # "user" =>
                   q.actor = q.target /\ q.target \in raised
    BY <1>2, GrantedAtStart
  <2> QED BY <2>1, <2>2, <2>3
<1>3. CASE \E h \in Handler : Continue(h)
  BY <1>1, <1>3, ContinueWritesNoMore
<1>4. CASE (\E s \in Session : SessionExpires(s)) \/ UNCHANGED vars
  BY <1>1, <1>4 DEF SessionExpires, vars
<1> QED BY <1>1, <1>2, <1>3, <1>4 DEF Next

LEMMA NextRoles ==
    ASSUME RequestsOK, UserOK, UnseenOK, RolesGranted, [Next]_vars
    PROVE  RolesGranted'
<1> DEFINE Given(u) == /\ user'[u].role # "user" => u \in raised'
                       /\ user'[u].role = "root" => Initial[u].role = "root"
           Pending(g) == req'[g].at = "setuser" /\ req'[g].by # "root" /\ req'[g].role # "user"
                             => req'[g].actor = req'[g].target /\ req'[g].target \in raised'
<1>1. CASE UNCHANGED <<user, raised>>
  BY <1>1, GrantsStep DEF RolesGranted
<1>2. ASSUME NEW h \in Handler, NEW by, NEW t \in User, NEW role \in {"admin", "user"}, Raises(by, t, role),
             InsertUser(h) \/ SetUser(h),
             \A u \in User : user'[u].role = IF u = t THEN role ELSE user[u].role,
             by # "root" /\ role # "user" => t \in raised
      PROVE  RolesGranted'
  <2>1. ASSUME NEW u \in User PROVE Given(u)
    BY <1>2 DEF Raises, RolesGranted
  <2>2. ASSUME NEW g \in Handler PROVE Pending(g)
    <3>1. ASSUME req'[g] = req[g], Pending(g)!1 PROVE req'[g].target \in raised'
      <4>1. req[g].actor = req[g].target /\ req[g].target \in raised /\ req[g].at = "setuser"
        BY <3>1 DEF RolesGranted
      <4>2. req[g].target = t => OwnUpdate(t)
        BY <4>1 DEF OwnUpdate
      <4> QED BY <1>2, <3>1, <4>1, <4>2 DEF Raises
    <3> QED BY <3>1, GrantsStep
  <2> QED BY <2>1, <2>2, GrantsStep DEF RolesGranted
<1>3. ASSUME NEW h \in Handler, InsertUser(h) PROVE RolesGranted'
  <2>1. /\ req[h].user \in User /\ req[h].doc.role \in {"admin", "user"}
        /\ req[h].by # "root" => req[h].doc.role = "user"
    BY <1>3 DEF InsertUser, RequestsOK, RequestOK, RolesGranted
  <2>2. \A u \in User : user'[u].role = IF u = req[h].user THEN req[h].doc.role ELSE user[u].role
    BY <1>3 DEF InsertUser, UserOK
  <2> QED BY <1>2, <1>3, <2>1, <2>2 DEF InsertUser
<1>4. ASSUME NEW h \in Handler, SetUser(h) PROVE RolesGranted'
  <2>1. /\ req[h].target \in User /\ req[h].role \in {"admin", "user"}
        /\ req[h].by # "root" /\ req[h].role # "user" => req[h].target \in raised
    BY <1>4 DEF SetUser, RequestsOK, RequestOK, RolesGranted
  <2>2. CASE req[h].target \in Known
    <3>1. user' = [user EXCEPT ![req[h].target].role = req[h].role, ![req[h].target].on = req[h].on]
      BY <1>4, <2>2 DEF SetUser
    <3>2. \A u \in User : user'[u].role = IF u = req[h].target THEN req[h].role ELSE user[u].role
      BY <2>1, <3>1 DEF UserOK, UserDoc
    <3> QED BY <1>2, <1>4, <2>1, <2>2, <3>2 DEF SetUser
  <2>3. CASE req[h].target \notin Known
    BY <1>1, <1>4, <2>3 DEF SetUser
  <2> QED BY <2>2, <2>3
<1>5. ASSUME NEW h \in Handler, DropUsers(h) PROVE RolesGranted'
  <2>1. \A u \in User : user'[u].role \in {user[u].role, "user"} /\ raised' = raised
    BY <1>5 DEF DropUsers, Deleted
  <2> QED BY <1>5, <2>1, GrantsStep DEF RolesGranted, DropUsers
<1> QED BY <1>1, <1>3, <1>4, <1>5, Writes

-----------------------------------------------------------------------------
(* The invariant holds.                                                    *)

LEMMA PlaceFacts ==
    /\ OpenAtStart \subseteq Session
    /\ \A s \in OpenAtStart : Place(s) \in Nat /\ SignedIn[Place(s)][1] = s /\ \E u \in User : SignedIn[Place(s)][2] = u
<1>1. \A i \in DOMAIN SignedIn : i \in Nat /\ SignedIn[i] \in Session \X User
  BY AccountsAssumption
<1>2. ASSUME NEW s \in OpenAtStart PROVE Place(s) \in DOMAIN SignedIn /\ SignedIn[Place(s)][1] = s
  <2>1. PICK i \in DOMAIN SignedIn : SignedIn[i][1] = s
    BY DEF OpenAtStart
  <2> QED BY <2>1 DEF Place
<1> QED BY <1>1, <1>2 DEF OpenAtStart

LEMMA InitInv == Init => IInv
<1> SUFFICES ASSUME Init PROVE IInv
  OBVIOUS
<1>1. RequestsOK /\ SessionsOwned
  BY IdleOK DEF Init, RequestsOK, SessionsOwned, Owned, Idle
<1>2. UserOK
  BY AccountsAssumption DEF Init, UserOK
<1>3. LiveOK
  <2>1. DOMAIN live = OpenAtStart /\ \A s \in OpenAtStart : live[s] = {t \in OpenAtStart : Place(s) < Place(t)}
    BY DEF Init
  <2>2. \A s, t \in OpenAtStart : s # t => Place(s) # Place(t)
    BY PlaceFacts
  <2>3. live \in [DOMAIN live -> SUBSET DOMAIN live]
    BY <2>1 DEF Init
  <2>4. \A s, t \in DOMAIN live : t \in live[s] <=> s # t /\ s \notin live[t]
    BY <2>1, <2>2, PlaceFacts
  <2>5. \A s \in DOMAIN live : \A t \in live[s] : live[t] \subseteq live[s]
    BY <2>1, PlaceFacts
  <2> QED BY <2>1, <2>3, <2>4, <2>5, PlaceFacts DEF LiveOK
<1>4. OwnerOK
  BY PlaceFacts DEF Init, OwnerOK, OwnerAtStart, IsLive
<1>5. CountersOK
  BY AccountsAssumption DEF Init, CountersOK
<1>6. RevokedGone
  BY DEF Init, RevokedGone
<1>7. RolesGranted
  BY DEF Init, RolesGranted, Idle
<1>8. UnseenOK
  BY DEF Init, UnseenOK
<1> QED BY <1>1, <1>2, <1>3, <1>4, <1>5, <1>6, <1>7, <1>8 DEF IInv

LEMMA NextInv == IInv /\ [Next]_vars => IInv'
BY NextRequests, NextUsers, NextLive, NextOwner, NextUnseen, NextCounters, NextSessionsOwned, NextRevoked, NextRoles DEF IInv

LEMMA Inductive == Spec => []IInv
<1> QED BY InitInv, NextInv, PTL DEF Spec

LEMMA IInvTypes == IInv => TypeOK
<1> SUFFICES ASSUME IInv PROVE TypeOK
  OBVIOUS
<1>1. revoked \subseteq Session
  BY DEF IInv, RevokedGone
<1> QED BY <1>1 DEF IInv, UserOK, LiveOK, OwnerOK, UnseenOK, CountersOK, TypeOK

\* Keys are of sessions that were made for somebody and hold different times; a session without an
\* owner has no key and no record (generateTokensWithSession, SessionCache, UserSessionRepository).
THEOREM TypesHold == Spec => []TypeOK
<1> QED BY Inductive, IInvTypes, PTL

\* Whatever logins, refreshes, sign-outs and revocations run beside each other, and whoever still has
\* a refresh token: a session that was revoked with no refresh under way never comes back
\* (AuthService.RefreshToken and Logout, AccountService, SessionCache.Delete).
THEOREM RevokedStayRevoked == Spec => []RevokedStays
<1>1. IInv => RevokedStays
  BY DEF IInv, RevokedGone, RevokedStays
<1> QED BY <1>1, Inductive, PTL

\* However many admins act at a time on rows they read earlier: who is more than a plain user has it
\* from a root, and no request makes a root (UserService.Create and Update, the handlers' checks).
THEOREM RolesAreGranted == Spec => []RolesAreRoots
<1>1. IInv => RolesAreRoots
  BY DEF IInv, RolesGranted, RolesAreRoots, Known
<1> QED BY <1>1, Inductive, PTL

-----------------------------------------------------------------------------
(* Addresses: the uniqueness check that the module implements.             *)

LEMMA InitImplements == Init => EmailCheck!Init
BY AccountsAssumption DEF Init, EmailCheck!Init, Address, Claim, Idle, UserDoc

\* A request that neither looks an address up nor writes one may drop its claim.
LEMMA KeepsOrDrops ==
    ASSUME RequestsOK, NEW h \in Handler, NEW q, Goes(h, q), q.at # "insertuser"
    PROVE  EmailCheck!KeepsSome(h)
<1>1. Claim' = [Claim EXCEPT ![h] = {}]
  BY DEF Claim, Goes, RequestsOK
<1> QED BY <1>1 DEF EmailCheck!KeepsSome, Claim

LEMMA GivesUp ==
    ASSUME RequestsOK, NEW h \in Handler, NEW q, Goes(h, q), q.at # "insertuser", UNCHANGED <<Address, blind>>
    PROVE  EmailCheck!Next
<1>1. EmailCheck!GiveUp(h)
  BY KeepsOrDrops DEF EmailCheck!GiveUp, Address
<1> QED BY <1>1 DEF EmailCheck!Next

\* A registration or a creation looks the address up, or fails to, and claims it.
LEMMA LooksUp ==
    ASSUME RequestsOK, NEW h \in Handler, req[h].at # "insertuser",
           NEW u \in User, NEW e \in Email, NEW role, NEW on, NEW by,
           EmailIsFree(e), Goes(h, Inserting(u, e, role, on, by)), user' = user
    PROVE  EmailCheck!Next
<1>1. Claim[h] = {} /\ Claim' = [Claim EXCEPT ![h] = @ \cup ({u} \X {e})]
  <2> DEFINE q == Inserting(u, e, role, on, by)
  <2>1. q.at = "insertuser" /\ <<q.user, q.doc.email>> = <<u, e>>
    BY DEF Inserting
  <2>2. req' = [req EXCEPT ![h] = q] /\ DOMAIN req = Handler
    BY DEF Goes, RequestsOK
  <2>3. {u} \X {e} = {<<u, e>>}
    OBVIOUS
  <2> HIDE DEF q
  <2>4. Claim' = [Claim EXCEPT ![h] = {<<u, e>>}] /\ Claim[h] = {}
    BY <2>1, <2>2 DEF Claim
  <2> QED BY <2>3, <2>4
<1>2. EmailCheck!ClaimsToo(h, u, {e})
  BY <1>1 DEF EmailCheck!ClaimsToo, EmailCheck!Claims, Claim
<1>3. Address' = Address
  BY DEF Address
<1>4. CASE FindByEmail(e) = {} /\ UNCHANGED <<faults, blind>>
  <2>1. EmailCheck!Named(e) = {}
    BY <1>4, AccountsAssumption DEF EmailCheck!Named, Address, FindByEmail, Known
  <2>2. EmailCheck!Look(h, u, {e})
    BY <1>2, <1>3, <1>4, <2>1 DEF EmailCheck!Look, Address
  <2> QED BY <2>2 DEF EmailCheck!Next
<1>5. CASE Fails /\ blind' = blind + 1
  <2>1. EmailCheck!LookFails(h, u, {e})
    BY <1>2, <1>3, <1>5 DEF EmailCheck!LookFails, Address
  <2> QED BY <2>1 DEF EmailCheck!Next
<1> QED BY <1>4, <1>5 DEF EmailIsFree

LEMMA InsertWrites ==
    ASSUME RequestsOK, UserOK, NEW h \in Handler, InsertUser(h)
    PROVE  EmailCheck!Next
<1>1. req[h].at = "insertuser" /\ req[h].user \in User
  BY DEF InsertUser, RequestsOK, RequestOK
<1>2. PICK c : c = <<req[h].user, req[h].doc.email>>
  OBVIOUS
<1>3. Address' = [Address EXCEPT ![c[1]] = c[2]]
  <2>1. user' = [user EXCEPT ![req[h].user] = req[h].doc] /\ DOMAIN user = User
    BY DEF InsertUser, UserOK
  <2>2. Address' = [Address EXCEPT ![req[h].user] = req[h].doc.email]
    BY <1>1, <2>1 DEF Address
  <2> QED BY <1>2, <2>2
<1>4. EmailCheck!KeepsSome(h)
  BY KeepsOrDrops DEF InsertUser, Ends, Idle
<1>5. EmailCheck!Write(h, c)
  BY <1>3, <1>4 DEF EmailCheck!Write, Address, InsertUser, bounds
<1>6. c \in Claim[h]
  BY <1>1, <1>2 DEF Claim
<1> QED BY <1>5, <1>6 DEF EmailCheck!Next, Claim

LEMMA DropFrees ==
    ASSUME RequestsOK, UserOK, NEW h \in Handler, DropUsers(h)
    PROVE  EmailCheck!Next
<1>1. PICK D : D = req[h].users
  OBVIOUS
<1>2. D \subseteq User /\ Claim' = Claim
  <2>1. req[h].at = "dropusers" /\ req' = [req EXCEPT ![h] = Idle] /\ DOMAIN req = Handler
    BY DEF DropUsers, Ends, Goes, RequestsOK
  <2>2. Claim' = Claim
    BY <2>1 DEF Claim, Idle
  <2>3. RequestOK(req[h])
    BY DEF RequestsOK
  <2> QED BY <1>1, <2>1, <2>2, <2>3 DEF RequestOK
<1>3. Address' = [u \in User |-> IF u \in D THEN None ELSE Address[u]]
  BY <1>1 DEF DropUsers, Address, Deleted
<1>4. EmailCheck!Free(D)
  BY <1>2, <1>3 DEF EmailCheck!Free, Address, Claim, DropUsers, bounds
<1> QED BY <1>2, <1>4 DEF EmailCheck!Next

\* A step that starts no insertion and writes no address.
LEMMA StaysOrGivesUp ==
    ASSUME RequestsOK, NEW h \in Handler, Request(h) \/ Continue(h), UNCHANGED <<Address, blind>>,
           req'[h].at # "insertuser"
    PROVE  EmailCheck!Next
<1>1. PICK q : Goes(h, q)
  <2>1. CASE Request(h)
    BY <2>1 DEF Request, Authenticate, PostLogin, Login, PostRefresh, RefreshToken, PostRegister, Register,
       PostLogout, Logout, RemoveSession, DeleteSession, RemoveOtherSessions, ScanOthers,
       PostUser, CreateUser, PutUser, UpdateUser, RemoveUser, RemoveUsers, RemoveProfile, Deletes, Revokes, Ends
  <2>2. ASSUME NEW t \in User, CheckTarget(h, t) PROVE \E q : Goes(h, q)
    <3> DEFINE p == [req[h] EXCEPT !.left = @ \ {t}]
    <3>1. Goes(h, p) \/ Goes(h, Idle) \/ Goes(h, [at |-> "dropusers", users |-> req[h].users])
      BY <2>2 DEF CheckTarget, Ends
    <3> QED BY <3>1
  <2>3. CASE Continue(h)
    BY <2>2, <2>3 DEF Continue, ScanSessions, ScanFails, DeleteAllSessions, RevokeSessions,
     RevokeFails, CloseRecords, CloseFails,
       SetSession, InsertRecord, UnsetSession, UnsetFails, InsertUser, SetUser, DropUsers, RequestDies, Ends
  <2> QED BY <2>1, <2>2, <2>3
<1>2. q = req'[h]
  BY <1>1 DEF Goes, RequestsOK
<1> QED BY <1>1, <1>2, GivesUp

\* Only a registration or a creation goes on to write an address.
LEMMA ClaimsNothing ==
    ASSUME RequestsOK, NEW h \in Handler, Request(h), ~PostRegister(h), ~PostUser(h)
    PROVE  req'[h].at # "insertuser"
<1>1. ASSUME NEW q, Goes(h, q), q.at # "insertuser" PROVE req'[h].at # "insertuser"
  BY <1>1 DEF Goes, RequestsOK
<1>2. CASE PostLogin(h)
  <2>1. \A u : LoginSet(u).at # "insertuser"
    BY DEF LoginSet
  <2> QED BY <1>1, <1>2, <2>1, LoginGoes
<1>3. CASE (\E s \in Session : Authenticate(h, s)) \/ PostRefresh(h)
  BY <1>1, <1>3 DEF Authenticate, PostRefresh, RefreshToken
<1>4. CASE PostLogout(h) \/ RemoveSession(h) \/ RemoveOtherSessions(h)
  BY <1>1, <1>4 DEF PostLogout, Logout, RemoveSession, DeleteSession, RemoveOtherSessions,
     ScanOthers, Revokes
<1>5. CASE PutUser(h) \/ RemoveUser(h) \/ RemoveUsers(h) \/ RemoveProfile(h)
  BY <1>1, <1>5 DEF PutUser, UpdateUser, RemoveUser, RemoveUsers, RemoveProfile, Deletes
<1> QED BY <1>2, <1>3, <1>4, <1>5 DEF Request

LEMMA NextImplements ==
    ASSUME IInv, [Next]_vars
    PROVE  [EmailCheck!Next]_<<Address, Claim, blind>>
<1> USE DEF IInv
<1>1. ASSUME NEW h \in Handler, Request(h) PROVE EmailCheck!Next
  <2>1. CASE PostRegister(h)
    <3>1. PICK u \in User, e \in Email, on \in BOOLEAN : Register(h, u, e, on)
      BY <2>1 DEF PostRegister
    <3>2. /\ req[h].at # "insertuser" /\ EmailIsFree(e) /\ user' = user
          /\ Goes(h, Inserting(u, e, "user", on, "user"))
      BY <3>1 DEF Register, Begins, Idle, stores
    <3> QED BY <3>2, LooksUp
  <2>2. CASE PostUser(h)
    <3>1. PICK u \in User, e \in Email, role \in Role : CreateUser(h, u, e, role)
      BY <2>2 DEF PostUser
    <3>2. PICK by : by = req[h].role
      OBVIOUS
    <3>3. /\ req[h].at # "insertuser" /\ EmailIsFree(e) /\ user' = user
          /\ Goes(h, Inserting(u, e, role, TRUE, by))
      BY <2>2, <3>1, <3>2 DEF PostUser, Authed, CreateUser, stores
    <3> QED BY <3>3, LooksUp
  <2>3. CASE ~PostRegister(h) /\ ~PostUser(h)
    <3>1. UNCHANGED <<user, blind>> /\ req'[h].at # "insertuser"
      <4>1. UNCHANGED <<user, blind>>
        BY <1>1, <2>3 DEF Request, Authenticate, PostLogin, Login, PostRefresh, RefreshToken,
           PostLogout, Logout, RemoveSession, DeleteSession, RemoveOtherSessions, ScanOthers,
           PutUser, UpdateUser, RemoveUser, RemoveUsers, RemoveProfile, Deletes, stores, bounds
      <4> QED BY <1>1, <2>3, <4>1, ClaimsNothing
    <3> QED BY <1>1, <3>1, StaysOrGivesUp DEF Address
  <2> QED BY <2>1, <2>2, <2>3
<1>2. ASSUME NEW h \in Handler, Continue(h) PROVE EmailCheck!Next
  <2>1. CASE InsertUser(h)
    BY <2>1, InsertWrites
  <2>2. CASE DropUsers(h)
    BY <2>2, DropFrees
  <2>3. CASE SetUser(h)
    <3>1. Address' = Address
      <4>1. CASE req[h].target \in Known
        <5>1. user' = [user EXCEPT ![req[h].target].role = req[h].role, ![req[h].target].on = req[h].on]
          BY <2>3, <4>1 DEF SetUser
        <5>2. \A u \in User : user'[u].email = user[u].email
          BY <5>1, <4>1 DEF UserOK, UserDoc, Known
        <5> QED BY <5>2 DEF Address
      <4>2. CASE req[h].target \notin Known
        BY <2>3, <4>2 DEF SetUser, Address
      <4> QED BY <4>1, <4>2
    <3> QED BY <1>2, <2>3, <3>1, ContinueWritesNoMore, StaysOrGivesUp DEF SetUser, bounds
  <2>4. CASE ~InsertUser(h) /\ ~DropUsers(h) /\ ~SetUser(h)
    <3>1. UNCHANGED <<user, blind>>
      BY <1>2, <2>4 DEF Continue, ScanSessions, ScanFails, DeleteAllSessions, RevokeSessions,
     RevokeFails, CloseRecords, CloseFails,
         SetSession, InsertRecord, UnsetSession, UnsetFails, CheckTarget, RequestDies, stores, bounds
    <3> QED BY <1>2, <3>1, ContinueWritesNoMore, StaysOrGivesUp DEF Address
  <2> QED BY <2>1, <2>2, <2>3, <2>4
<1>3. CASE (\E s \in Session : SessionExpires(s)) \/ UNCHANGED vars
  BY <1>3 DEF SessionExpires, vars, stores, bounds, Address, Claim
<1> QED BY <1>1, <1>2, <1>3 DEF Next

\* For any users, addresses and requests: sign-ups and creations implement the look-up before the write
\* (AuthService.Register, UserService.Create and Delete).
THEOREM AddressesAreChecked == Spec => UniqueEmails
<1>1. IInv /\ [Next]_vars => [EmailCheck!Next]_EmailCheck!vars
  BY NextImplements DEF EmailCheck!vars, Address, Claim
<1> QED BY <1>1, InitImplements, Inductive, PTL DEF Spec, UniqueEmails, EmailCheck!Spec

Addresses == INSTANCE UniqueCheckProofs WITH
    Key <- Email, Doc <- User, Writer <- Handler, name <- Address, claim <- Claim

\* An address has at most as many users, there or about to be, as requests run at a time, and one more
\* for each look-up that failed.
THEOREM AddressesAreBounded == Spec => []EmailCheck!AtMostWriters
<1>1. Addresses!UniqueCheckAssumption
  BY AccountsAssumption DEF Addresses!UniqueCheckAssumption, Addresses!IsFiniteSet, IsFiniteSet
<1>2. Addresses!Spec => []Addresses!AtMostWriters
  BY <1>1, Addresses!AtMostWritersHold
<1>3. EmailCheck!Init => Addresses!Init
  BY DEF EmailCheck!Init, Addresses!Init
<1>4. [EmailCheck!Next]_EmailCheck!vars => [Addresses!Next]_Addresses!vars
  BY DEF EmailCheck!vars, Addresses!vars, EmailCheck!Next, Addresses!Next, EmailCheck!Look, Addresses!Look,
     EmailCheck!LookFails, Addresses!LookFails, EmailCheck!GiveUp, Addresses!GiveUp, EmailCheck!Write,
     Addresses!Write, EmailCheck!Free, Addresses!Free, EmailCheck!KeepsSome, Addresses!KeepsSome,
     EmailCheck!ClaimsToo, Addresses!ClaimsToo, EmailCheck!Claims, Addresses!Claims, EmailCheck!Named,
     Addresses!Named
<1>5. Addresses!AtMostWriters => EmailCheck!AtMostWriters
  BY DEF Addresses!AtMostWriters, EmailCheck!AtMostWriters, Addresses!Named, EmailCheck!Named,
     Addresses!Claimed, EmailCheck!Claimed, Addresses!Claims, EmailCheck!Claims,
     Addresses!Cardinality, EmailCheck!Cardinality
<1> QED BY AddressesAreChecked, <1>2, <1>3, <1>4, <1>5, PTL DEF UniqueEmails, EmailCheck!Spec, Addresses!Spec

-----------------------------------------------------------------------------
(* The limit on sessions.                                                  *)

\* What a login has made sure of: of the sessions that it has an account of, less those that it is
\* about to delete, there are so few that there is room for its own.
Held(u, h) == SessionsOf(u) \ unseen[h]
Deleting(q, u) == q.at = "revoke" /\ q.then = LoginSet(u)
Ready(q, u) == (q.at = "close" /\ q.then = LoginSet(u)) \/ q = LoginSet(u)
Room(h) ==
    /\ IsFiniteSet(unseen[h])
    /\ req[h].at = "scan" => IsFiniteSet(req[h].there)
    /\ \A u \in User : Deleting(req[h], u) => IsFiniteSet(req[h].keys)
    /\ MaxSessions > 0 => \A u \in User :
           /\ Deleting(req[h], u) => Cardinality(Held(u, h) \ req[h].keys) <= MaxSessions - 1
           /\ Ready(req[h], u) => Cardinality(Held(u, h)) <= MaxSessions - 1
RoomInv == IsFiniteSet(DOMAIN live) /\ \A h \in Handler : Room(h)

LEMMA Smaller ==
    ASSUME NEW B, IsFiniteSet(B), NEW A \in SUBSET B
    PROVE  /\ IsFiniteSet(A) /\ Cardinality(A) \in Nat /\ Cardinality(B) \in Nat
           /\ Cardinality(A) <= Cardinality(B)
BY FS_Subset, FS_CardinalityType

LEMMA HeldFinite ==
    ASSUME RoomInv, NEW u, NEW h \in Handler
    PROVE  IsFiniteSet(SessionsOf(u)) /\ IsFiniteSet(Held(u, h))
<1>1. Held(u, h) \subseteq SessionsOf(u) /\ SessionsOf(u) \subseteq DOMAIN live
  BY DEF Held, SessionsOf
<1> QED BY <1>1, Smaller DEF RoomInv

LEMMA LoginSets ==
    /\ \A u, v : LoginSet(u) = LoginSet(v) => u = v
    /\ \A u : LoginSet(u).at = "set" /\ LoginSet(u).keep = <<>> /\ LoginSet(u) # Idle
BY DEF LoginSet, Idle

LEMMA OthersStay ==
    ASSUME RequestsOK, UnseenOK, NEW h \in Handler, Request(h) \/ Continue(h)
    PROVE  \A g \in Handler \ {h} : req'[g] = req[g]
<1>1. ASSUME NEW q, Goes(h, q) PROVE \A g \in Handler \ {h} : req'[g] = req[g]
  BY <1>1 DEF Goes, RequestsOK
<1>2. CASE Request(h)
  BY <1>1, <1>2 DEF Request, Authenticate, PostLogin, Login, PostRefresh, RefreshToken, PostRegister, Register,
     PostLogout, Logout, RemoveSession, DeleteSession, RemoveOtherSessions, ScanOthers,
     PostUser, CreateUser, PutUser, UpdateUser, RemoveUser, RemoveUsers, RemoveProfile, Deletes, Revokes
<1> QED BY <1>2, ContinueWritesNoMore

\* A session comes by SetSession, the only one.
LEMMA SetAddsOne ==
    ASSUME IInv, NEW h \in Handler, NEW s \in Session, SetSession(h, s), NEW u
    PROVE  /\ DOMAIN live' = DOMAIN live \cup {s}
           /\ SessionsOf(u)' \subseteq SessionsOf(u) \cup {s}
           /\ req[h].user # u => SessionsOf(u)' \subseteq SessionsOf(u)
<1>1. live' = Renewed(s) /\ owner' = [owner EXCEPT ![s] = <<req[h].user>>]
  BY DEF SetSession
<1>2. DOMAIN live' = DOMAIN live \cup {s}
  BY <1>1, RenewedOK DEF IInv
<1>3. DOMAIN owner = Session
  BY DEF IInv, OwnerOK
<1>4. \A t : t \in SessionsOf(u)' => t = s \/ t \in SessionsOf(u)
  BY <1>1, <1>2, <1>3 DEF SessionsOf, IInv, LiveOK
<1>5. s \in SessionsOf(u)' => req[h].user = u
  BY <1>1, <1>3 DEF SessionsOf
<1> QED BY <1>2, <1>4, <1>5

\* A login keeps its room beside the steps of others.
LEMMA RoomBeside ==
    ASSUME IInv, RoomInv, [Next]_vars, NEW g \in Handler, req'[g] = req[g], IsFiniteSet(unseen'[g]),
           \A u \in User : Looks(g, u) => Held(u, g)' \subseteq Held(u, g)
    PROVE  Room(g)'
<1>1. req[g].at = "scan" => IsFiniteSet(req[g].there)
  BY DEF RoomInv, Room
<1>2. ASSUME MaxSessions > 0, NEW u \in User, Deleting(req[g], u)
      PROVE  Cardinality(Held(u, g)' \ req[g].keys) <= MaxSessions - 1
  <2>1. Held(u, g)' \ req[g].keys \subseteq Held(u, g) \ req[g].keys
    BY <1>2 DEF Looks, Deleting
  <2>2. IsFiniteSet(Held(u, g) \ req[g].keys)
    BY HeldFinite, Smaller
  <2>3. Cardinality(Held(u, g) \ req[g].keys) <= MaxSessions - 1
    BY <1>2 DEF RoomInv, Room
  <2>4. MaxSessions \in Nat
    BY AccountsAssumption
  <2> QED BY <2>1, <2>2, <2>3, <2>4, Smaller
<1>3. ASSUME MaxSessions > 0, NEW u \in User, Ready(req[g], u)
      PROVE  Cardinality(Held(u, g)') <= MaxSessions - 1
  <2>1. Held(u, g)' \subseteq Held(u, g)
    BY <1>3 DEF Looks, Ready
  <2>2. IsFiniteSet(Held(u, g)) /\ Cardinality(Held(u, g)) <= MaxSessions - 1
    BY <1>3, HeldFinite DEF RoomInv, Room
  <2>3. MaxSessions \in Nat
    BY AccountsAssumption
  <2> QED BY <2>1, <2>2, <2>3, Smaller
<1>4. \A u \in User : Deleting(req[g], u) => IsFiniteSet(req[g].keys)
  BY DEF RoomInv, Room
<1> QED BY <1>1, <1>2, <1>3, <1>4 DEF Room

\* A request that makes no room, or none yet.
LEMMA RoomVacant ==
    ASSUME NEW g \in Handler, IsFiniteSet(unseen'[g]), req'[g].at # "scan",
           \A u : ~Deleting(req'[g], u) /\ ~Ready(req'[g], u)
    PROVE  Room(g)'
BY DEF Room

\* What the login itself does: it counts, it deletes the excess, and what a failure keeps it takes down.
LEMMA ScanMakesRoom ==
    ASSUME IInv, RoomInv, NEW h \in Handler, ScanSessions(h)
    PROVE  Room(h)'
<1> DEFINE u == req[h].user
<1>0. MaxSessions \in Nat /\ RequestsOK /\ UnseenOK
  BY AccountsAssumption DEF IInv
<1>1. PICK keys \in SUBSET Session, old \in SUBSET Session :
          /\ Scanned(h, keys) /\ Excess(h, keys, old)
          /\ \/ old = {} /\ Goes(h, LoginSet(u))
             \/ Goes(h, [at |-> "revoke", user |-> u, keys |-> old, then |-> LoginSet(u)])
  BY <1>0, ScanGoes
<1>2. req[h].at = "scan" /\ unseen' = unseen /\ UNCHANGED <<live, owner>>
  BY DEF ScanSessions, stores
<1>3. IsFiniteSet(keys) /\ IsFiniteSet(old) /\ IsFiniteSet(keys \ old) /\ Held(u, h) \subseteq keys
  <2>1. IsFiniteSet(req[h].there \cup unseen[h])
    BY <1>2, FS_Union DEF RoomInv, Room
  <2>2. keys \subseteq req[h].there \cup unseen[h] /\ old \subseteq keys /\ Held(u, h) \subseteq keys
    BY <1>1 DEF Scanned, Excess, Held
  <2>3. IsFiniteSet(keys)
    BY <2>1, <2>2, Smaller
  <2> QED BY <2>2, <2>3, Smaller
<1>4. MaxSessions > 0 => Cardinality(keys \ old) <= MaxSessions - 1
  <2>1. CASE Cardinality(keys) < MaxSessions
    <3>1. keys \ old = keys /\ Cardinality(keys) \in Nat
      BY <1>1, <1>3, <2>1, Smaller DEF Excess
    <3> QED BY <1>0, <2>1, <3>1
  <2>2. CASE ~(Cardinality(keys) < MaxSessions)
    <3>1. Cardinality(keys \ old) = MaxSessions - 1
      BY <1>1, <2>2 DEF Excess
    <3> QED BY <1>0, <3>1
  <2> QED BY <2>1, <2>2
<1>5. MaxSessions > 0 => Cardinality(Held(u, h) \ old) <= MaxSessions - 1
  <2>1. Held(u, h) \ old \subseteq keys \ old
    BY <1>3
  <2>2. /\ Cardinality(Held(u, h) \ old) \in Nat /\ Cardinality(keys \ old) \in Nat
        /\ Cardinality(Held(u, h) \ old) <= Cardinality(keys \ old)
    BY <1>3, <2>1, Smaller
  <2> QED BY <1>0, <1>4, <2>2
<1>6. \A v : Held(v, h)' = Held(v, h)
  BY <1>2 DEF Held, SessionsOf
<1>7. IsFiniteSet(unseen'[h])
  BY <1>2 DEF RoomInv, Room
<1>8. CASE old = {} /\ Goes(h, LoginSet(u))
  <2>1. req'[h] = LoginSet(u) /\ Held(u, h) \ old = Held(u, h)
    BY <1>0, <1>8 DEF Goes, RequestsOK
  <2>2. \A v : ~Deleting(req'[h], v) /\ (Ready(req'[h], v) => v = u)
    BY <2>1, LoginSets DEF Deleting, Ready
  <2>3. req'[h].at # "scan"
    BY <2>1, LoginSets
  <2> QED BY <1>5, <1>6, <1>7, <2>1, <2>2, <2>3 DEF Room
<1>9. CASE Goes(h, [at |-> "revoke", user |-> u, keys |-> old, then |-> LoginSet(u)])
  <2>1. req'[h] = [at |-> "revoke", user |-> u, keys |-> old, then |-> LoginSet(u)]
    BY <1>0, <1>9 DEF Goes, RequestsOK
  <2>2. \A v : ~Ready(req'[h], v) /\ (Deleting(req'[h], v) => v = u)
    BY <2>1, LoginSets DEF Deleting, Ready
  <2>3. req'[h].at # "scan" /\ req'[h].keys = old
    BY <2>1
  <2> QED BY <1>3, <1>5, <1>6, <1>7, <2>2, <2>3 DEF Room
<1> QED BY <1>1, <1>8, <1>9

LEMMA ScanFailsMakesRoom ==
    ASSUME IInv, RoomInv, NEW h \in Handler, ScanFails(h)
    PROVE  Room(h)'
<1> PICK u : u = req[h].user
  OBVIOUS
<1>0. MaxSessions \in Nat /\ DOMAIN req = Handler /\ DOMAIN unseen = Handler
  BY AccountsAssumption DEF IInv, RequestsOK, UnseenOK
<1>1. req'[h] = LoginSet(u) /\ unseen'[h] = unseen[h] \cup SessionsOf(u) /\ UNCHANGED <<live, owner>>
  BY <1>0 DEF ScanFails, Goes, stores
<1>2. IsFiniteSet(unseen'[h])
  <2>1. IsFiniteSet(unseen[h]) /\ IsFiniteSet(SessionsOf(u))
    BY HeldFinite DEF RoomInv, Room
  <2>2. IsFiniteSet(unseen[h] \cup SessionsOf(u))
    BY <2>1, FS_Union
  <2> QED BY <1>1, <2>2
<1>3. Held(u, h)' = {}
  BY <1>1 DEF Held, SessionsOf
<1>4. \A v : ~Deleting(req'[h], v) /\ (Ready(req'[h], v) => v = u)
  BY <1>1, LoginSets DEF Deleting, Ready
<1>5. req'[h].at # "scan"
  BY <1>1, LoginSets
<1>6. MaxSessions > 0 => Cardinality(Held(u, h)') <= MaxSessions - 1
  <2>1. Cardinality(Held(u, h)') = 0
    BY <1>3, FS_EmptySet
  <2> QED BY <1>0, <2>1
<1> QED BY <1>2, <1>4, <1>5, <1>6 DEF Room

LEMMA RevokeMakesRoom ==
    ASSUME IInv, RoomInv, NEW h \in Handler, RevokeSessions(h) \/ RevokeFails(h)
    PROVE  Room(h)'
<1> DEFINE q == req[h]
<1>0. MaxSessions \in Nat /\ DOMAIN req = Handler /\ DOMAIN unseen = Handler /\ RequestOK(q) /\ q.at = "revoke"
  BY AccountsAssumption DEF IInv, RequestsOK, UnseenOK, RevokeSessions, RevokeFails
<1>1. req'[h] = [at |-> "close", user |-> q.user, keys |-> q.keys, then |-> q.then]
  BY <1>0, AtOK DEF RevokeSessions, RevokeFails, Goes, IInv
<1>2. q.then # Idle => q.then = LoginSet(q.user)
  BY <1>0 DEF RequestOK
<1>3. \A v : /\ ~Deleting(req'[h], v)
             /\ Ready(req'[h], v) => v = q.user /\ Deleting(q, v)
  BY <1>0, <1>1, <1>2, LoginSets DEF Deleting, Ready
<1>4. req'[h].at # "scan"
  BY <1>1
<1>5. IsFiniteSet(unseen'[h])
  <2>1. CASE RevokeSessions(h)
    BY <2>1 DEF RevokeSessions, RoomInv, Room
  <2>2. CASE RevokeFails(h)
    <3>1. unseen'[h] = unseen[h] \cup q.keys /\ q.then = LoginSet(q.user)
      BY <1>0, <1>2, <2>2 DEF RevokeFails
    <3>2. q.user \in User
      BY <1>0 DEF RequestOK
    <3>3. IsFiniteSet(q.keys)
      BY <1>0, <3>1, <3>2 DEF RoomInv, Room, Deleting
    <3> QED BY <3>1, <3>3, FS_Union DEF RoomInv, Room
  <2> QED BY <2>1, <2>2
<1>6. ASSUME MaxSessions > 0, NEW u \in User, Deleting(q, u), u = q.user
      PROVE  Cardinality(Held(u, h)') <= MaxSessions - 1
  <2>1. Held(u, h)' \subseteq Held(u, h) \ q.keys
    <3>1. CASE RevokeSessions(h)
      <4>1. live' = Without({s \in q.keys : owner[s] = <<u>>}) /\ owner' = owner /\ unseen' = unseen
        BY <1>6, <3>1 DEF RevokeSessions
      <4>2. DOMAIN live' = DOMAIN live \ {s \in q.keys : owner[s] = <<u>>}
        BY <4>1, WithoutOK DEF IInv
      <4> QED BY <4>1, <4>2 DEF Held, SessionsOf
    <3>2. CASE RevokeFails(h)
      BY <1>0, <3>2 DEF RevokeFails, stores, Held, SessionsOf
    <3> QED BY <3>1, <3>2
  <2>2. IsFiniteSet(Held(u, h) \ q.keys)
    BY HeldFinite, Smaller
  <2>3. Cardinality(Held(u, h) \ q.keys) <= MaxSessions - 1
    BY <1>6 DEF RoomInv, Room
  <2> QED BY <1>0, <2>1, <2>2, <2>3, Smaller
<1> QED BY <1>3, <1>4, <1>5, <1>6 DEF Room

\* The other steps of a request make no room, or keep what there is.
LEMMA RoomOfOwn ==
    ASSUME IInv, RoomInv, NEW h \in Handler, Continue(h), ~ScanSessions(h), ~ScanFails(h),
           ~RevokeSessions(h), ~RevokeFails(h)
    PROVE  Room(h)'
<1>0. RequestsOK /\ RequestOK(req[h]) /\ UnseenOK /\ IsFiniteSet(unseen[h]) /\ DOMAIN unseen = Handler
  BY DEF IInv, RequestsOK, UnseenOK, RoomInv, Room
<1>1. ASSUME NEW q, Goes(h, q), q.at \notin {"scan", "revoke", "close"}, \A u : q # LoginSet(u),
             IsFiniteSet(unseen'[h])
      PROVE  Room(h)'
  <2>1. req'[h] = q
    BY <1>0, <1>1 DEF Goes, RequestsOK
  <2> QED BY <1>1, <2>1 DEF Room, Deleting, Ready
<1>2. Idle.at = "idle" /\ \A u : Idle # LoginSet(u)
  BY LoginSets DEF Idle
<1>3. CASE CloseRecords(h) \/ CloseFails(h)
  <2>1. Goes(h, req[h].then) /\ req[h].at = "close" /\ UNCHANGED <<live, owner, unseen>>
    BY <1>3 DEF CloseRecords, CloseFails, stores
  <2>2. req[h].then = Idle \/ req[h].then = LoginSet(req[h].user)
    BY <1>0, <2>1 DEF RequestOK
  <2>3. CASE req[h].then = Idle
    BY <1>0, <1>1, <1>2, <2>1, <2>3
  <2>4. CASE req[h].then = LoginSet(req[h].user)
    <3>1. req'[h] = LoginSet(req[h].user)
      BY <1>0, <2>1, <2>4 DEF Goes, RequestsOK
    <3>2. \A v : ~Deleting(req'[h], v) /\ (Ready(req'[h], v) => Ready(req[h], v))
      BY <2>1, <2>4, <3>1, LoginSets DEF Deleting, Ready
    <3>3. \A v : Held(v, h)' = Held(v, h)
      BY <2>1 DEF Held, SessionsOf
    <3>4. req'[h].at # "scan"
      BY <3>1, LoginSets
    <3>5. unseen'[h] = unseen[h]
      BY <2>1
    <3> QED BY <1>0, <3>2, <3>3, <3>4, <3>5 DEF RoomInv, Room
  <2> QED BY <2>2, <2>3, <2>4
<1>4. ASSUME NEW s \in Session, SetSession(h, s) PROVE Room(h)'
  <2>1. IsFiniteSet(unseen'[h])
    BY <1>4, FS_EmptySet DEF SetSession
  <2>2. \A u : [at |-> "record", session |-> s] # LoginSet(u)
    BY LoginSets
  <2> QED BY <1>1, <1>2, <1>4, <2>1, <2>2 DEF SetSession
<1>5. CASE UnsetSession(h) \/ UnsetFails(h)
  <2>1. /\ req[h].at = "unset" /\ unseen' = unseen
        /\ Goes(h, [at |-> "set", user |-> req[h].user, keep |-> req[h].keep])
    BY <1>0, <1>5, AtOK DEF UnsetSession, UnsetFails
  <2>2. req[h].keep # <<>>
    BY <1>0, <2>1 DEF RequestOK
  <2>3. \A u : [at |-> "set", user |-> req[h].user, keep |-> req[h].keep] # LoginSet(u)
    BY <2>2 DEF LoginSet
  <2> QED BY <1>0, <1>1, <2>1, <2>3
<1>6. CASE InsertRecord(h) \/ InsertUser(h) \/ SetUser(h) \/ DropUsers(h)
  BY <1>0, <1>1, <1>2, <1>6 DEF InsertRecord, InsertUser, SetUser, DropUsers, Ends
<1>7. CASE RequestDies(h)
  <2>1. IsFiniteSet(unseen'[h])
    BY <1>0, <1>7, FS_EmptySet DEF RequestDies, LooksNoMore
  <2> QED BY <1>1, <1>2, <1>7, <2>1 DEF RequestDies, Ends
<1>8. ASSUME NEW t \in User, CheckTarget(h, t) PROVE Room(h)'
  <2>1. req[h] \in [at : {"check"}, left : SUBSET User, users : SUBSET User, actor : User, role : Role]
    BY <1>0, <1>8 DEF CheckTarget, RequestOK
  <2>2. [req[h] EXCEPT !.left = @ \ {t}].at = "check"
    BY <2>1
  <2>3. \A u : /\ [req[h] EXCEPT !.left = @ \ {t}] # LoginSet(u)
               /\ [at |-> "dropusers", users |-> req[h].users] # LoginSet(u)
    <3>1. [at |-> "dropusers", users |-> req[h].users].at = "dropusers"
      OBVIOUS
    <3> QED BY <2>2, <3>1, LoginSets
  <2>4. unseen' = unseen
    BY <1>8 DEF CheckTarget
  <2> QED BY <1>0, <1>1, <1>2, <1>8, <2>2, <2>3, <2>4 DEF CheckTarget, Ends
<1>9. CASE DeleteAllSessions(h)
  <2>1. IsFiniteSet(unseen'[h])
    BY <1>0, <1>9, FS_EmptySet DEF DeleteAllSessions, LooksNoMore
  <2>2. ASSUME NEW keys, Goes(h, [at |-> "revoke", user |-> req[h].user, keys |-> keys, then |-> Idle])
        PROVE  Room(h)'
    <3>1. req'[h] = [at |-> "revoke", user |-> req[h].user, keys |-> keys, then |-> Idle]
      BY <1>0, <2>2 DEF Goes, RequestsOK
    <3>2. \A u : ~Deleting(req'[h], u) /\ ~Ready(req'[h], u)
      BY <3>1, LoginSets DEF Deleting, Ready
    <3>3. req'[h].at # "scan"
      BY <3>1
    <3> QED BY <2>1, <3>2, <3>3, RoomVacant
  <2> QED BY <1>0, <1>1, <1>2, <1>9, <2>1, <2>2, OthersGo
<1> QED BY <1>3, <1>4, <1>5, <1>6, <1>7, <1>8, <1>9 DEF Continue

LEMMA RoomOfRequest ==
    ASSUME IInv, RoomInv, NEW h \in Handler, Request(h)
    PROVE  Room(h)'
<1>0. RequestsOK /\ IsFiniteSet(unseen[h]) /\ RequestOK(req[h]) /\ MaxSessions \in Nat
  BY AccountsAssumption DEF IInv, RoomInv, Room, RequestsOK
<1>1. unseen' = unseen /\ UNCHANGED <<live, owner>>
  BY DEF Request, Authenticate, PostLogin, Login, PostRefresh, RefreshToken, PostRegister, Register,
     PostLogout, Logout, RemoveSession, DeleteSession, RemoveOtherSessions, ScanOthers,
     PostUser, CreateUser, PutUser, UpdateUser, RemoveUser, RemoveUsers, RemoveProfile, Deletes, stores
<1>2. ASSUME NEW q, Goes(h, q), q.at \notin {"scan", "revoke", "close", "set"} PROVE Room(h)'
  <2>1. req'[h] = q
    BY <1>0, <1>2 DEF Goes, RequestsOK
  <2>2. \A u : ~Deleting(q, u) /\ ~Ready(q, u)
    BY <1>2, LoginSets DEF Deleting, Ready
  <2> QED BY <1>0, <1>1, <1>2, <2>1, <2>2, RoomVacant
<1>3. ASSUME NEW keys, Revokes(h, keys) PROVE Room(h)'
  <2>1. req'[h] = [at |-> "revoke", user |-> req[h].actor, keys |-> keys, then |-> Idle]
    BY <1>0, <1>3 DEF Revokes, Goes, RequestsOK
  <2>2. \A u : ~Deleting(req'[h], u) /\ ~Ready(req'[h], u)
    BY <2>1, LoginSets DEF Deleting, Ready
  <2>3. req'[h].at # "scan"
    BY <2>1
  <2> QED BY <1>0, <1>1, <2>2, <2>3, RoomVacant
<1>4. CASE PostLogin(h)
  <2>1. PICK u \in User : \/ Goes(h, LoginSet(u)) /\ MaxSessions <= 0
                          \/ Goes(h, [at |-> "scan", user |-> u, there |-> SessionsOf(u)])
    BY <1>4, LoginGoes
  <2>2. CASE Goes(h, LoginSet(u)) /\ MaxSessions <= 0
    <3>1. req'[h] = LoginSet(u)
      BY <1>0, <2>2 DEF Goes, RequestsOK
    <3>2. req'[h].at # "scan" /\ \A v : ~Deleting(req'[h], v)
      BY <3>1, LoginSets DEF Deleting
    <3> QED BY <1>0, <1>1, <2>2, <3>2 DEF Room
  <2>3. CASE Goes(h, [at |-> "scan", user |-> u, there |-> SessionsOf(u)])
    <3>1. req'[h] = [at |-> "scan", user |-> u, there |-> SessionsOf(u)]
      BY <1>0, <2>3 DEF Goes, RequestsOK
    <3>2. \A v : ~Deleting(req'[h], v) /\ ~Ready(req'[h], v)
      BY <3>1, LoginSets DEF Deleting, Ready
    <3>3. IsFiniteSet(req'[h].there)
      BY <3>1, HeldFinite
    <3> QED BY <1>0, <1>1, <3>2, <3>3 DEF Room
  <2> QED BY <2>1, <2>2, <2>3
<1>5. CASE (\E s \in Session : Authenticate(h, s)) \/ PostRefresh(h)
  BY <1>2, <1>5 DEF Authenticate, PostRefresh, RefreshToken
<1>6. CASE PostRegister(h) \/ PostUser(h)
  BY <1>2, <1>6 DEF PostRegister, Register, PostUser, CreateUser, Inserting
<1>7. CASE PostLogout(h) \/ RemoveSession(h) \/ RemoveOtherSessions(h)
  BY <1>2, <1>3, <1>7 DEF PostLogout, Logout, RemoveSession, DeleteSession, RemoveOtherSessions, ScanOthers
<1>8. CASE PutUser(h) \/ RemoveUser(h) \/ RemoveUsers(h) \/ RemoveProfile(h)
  BY <1>2, <1>8 DEF PutUser, UpdateUser, RemoveUser, RemoveUsers, RemoveProfile, Deletes
<1> QED BY <1>4, <1>5, <1>6, <1>7, <1>8 DEF Request

\* Another's step leaves a login what it holds, for what it sets the login takes down.
LEMMA RoomOfOther ==
    ASSUME IInv, RoomInv, [Next]_vars, NEW h \in Handler, Request(h) \/ Continue(h),
           NEW g \in Handler, g # h
    PROVE  Room(g)'
<1>0. RequestsOK /\ UnseenOK /\ IsFiniteSet(unseen[g]) /\ DOMAIN unseen = Handler
  BY DEF IInv, UnseenOK, RoomInv, Room
<1>1. req'[g] = req[g]
  BY <1>0, OthersStay
<1>2. ASSUME NEW s \in Session, SetSession(h, s) PROVE Room(g)'
  <2>1. unseen'[g] = IF Looks(g, req[h].user) THEN unseen[g] \cup {s} ELSE unseen[g]
    BY <1>2 DEF SetSession
  <2>2. IsFiniteSet(unseen'[g])
    <3>1. IsFiniteSet(unseen[g] \cup {s})
      BY <1>0, FS_AddElement
    <3> QED BY <1>0, <2>1, <3>1
  <2>3. ASSUME NEW u \in User, Looks(g, u) PROVE Held(u, g)' \subseteq Held(u, g)
    <3>1. CASE req[h].user = u
      <4>1. unseen'[g] = unseen[g] \cup {s}
        BY <2>1, <2>3, <3>1
      <4>2. SessionsOf(u)' \subseteq SessionsOf(u) \cup {s}
        BY <1>2, SetAddsOne
      <4> QED BY <4>1, <4>2 DEF Held
    <3>2. CASE req[h].user # u
      BY <1>2, <2>1, <3>2, SetAddsOne DEF Held
    <3> QED BY <3>1, <3>2
  <2> QED BY <1>1, <2>2, <2>3, RoomBeside
<1>3. CASE \A s \in Session : ~SetSession(h, s)
  <2>1. unseen'[g] = unseen[g]
    <3>1. CASE Request(h)
      BY <3>1 DEF Request, Authenticate, PostLogin, Login, PostRefresh, RefreshToken, PostRegister, Register,
         PostLogout, Logout, RemoveSession, DeleteSession, RemoveOtherSessions, ScanOthers,
         PostUser, CreateUser, PutUser, UpdateUser, RemoveUser, RemoveUsers, RemoveProfile, Deletes
    <3>2. CASE ScanFails(h) \/ RevokeFails(h) \/ DeleteAllSessions(h) \/ RequestDies(h)
      BY <1>0, <3>2 DEF ScanFails, RevokeFails, DeleteAllSessions, RequestDies, LooksNoMore
    <3>3. CASE Continue(h) /\ ~(ScanFails(h) \/ RevokeFails(h) \/ DeleteAllSessions(h) \/ RequestDies(h))
      BY <1>3, <3>3 DEF Continue, ScanSessions, RevokeSessions, CloseRecords, CloseFails, InsertRecord,
         UnsetSession, UnsetFails, InsertUser, SetUser, DropUsers, CheckTarget
    <3> QED BY <3>1, <3>2, <3>3
  <2>2. \A u : SessionsOf(u)' \subseteq SessionsOf(u)
    <3>1. ASSUME NEW keys, live' = Without(keys), owner' = owner, NEW u
          PROVE SessionsOf(u)' \subseteq SessionsOf(u)
      BY <3>1, WithoutOK DEF IInv, SessionsOf
    <3>2. CASE RevokeSessions(h) \/ UnsetSession(h)
      BY <3>1, <3>2 DEF RevokeSessions, UnsetSession
    <3>3. CASE ~RevokeSessions(h) /\ ~UnsetSession(h)
      <4>1. UNCHANGED <<live, owner>>
        <5>1. CASE Request(h)
          BY <5>1 DEF Request, Authenticate, PostLogin, Login, PostRefresh, RefreshToken, PostRegister, Register,
             PostLogout, Logout, RemoveSession, DeleteSession, RemoveOtherSessions, ScanOthers,
             PostUser, CreateUser, PutUser, UpdateUser, RemoveUser, RemoveUsers, RemoveProfile, Deletes, stores
        <5>2. CASE Continue(h)
          BY <1>3, <3>3, <5>2 DEF Continue, ScanSessions, ScanFails, DeleteAllSessions, RevokeFails,
             CloseRecords, CloseFails, InsertRecord, UnsetFails, InsertUser, SetUser, DropUsers, CheckTarget,
             RequestDies, stores
        <5> QED BY <5>1, <5>2
      <4> QED BY <4>1 DEF SessionsOf
    <3> QED BY <3>2, <3>3
  <2>3. \A u \in User : Held(u, g)' \subseteq Held(u, g)
    BY <2>1, <2>2 DEF Held
  <2> QED BY <1>0, <1>1, <2>1, <2>3, RoomBeside
<1> QED BY <1>2, <1>3

LEMMA LiveFinite ==
    ASSUME IInv, RoomInv, [Next]_vars
    PROVE  IsFiniteSet(DOMAIN live)'
<1>1. ASSUME NEW keys, live' = Without(keys) PROVE IsFiniteSet(DOMAIN live)'
  <2>1. DOMAIN live' \subseteq DOMAIN live
    BY <1>1, WithoutOK DEF IInv
  <2> QED BY <2>1, Smaller DEF RoomInv
<1>2. ASSUME NEW h \in Handler, NEW s \in Session, SetSession(h, s) PROVE IsFiniteSet(DOMAIN live)'
  <2>1. DOMAIN live' = DOMAIN live \cup {s} /\ IsFiniteSet(DOMAIN live \cup {s})
    BY <1>2, SetAddsOne, FS_AddElement DEF RoomInv
  <2> QED BY <2>1
<1>3. CASE (\E h \in Handler : RevokeSessions(h) \/ UnsetSession(h)) \/ \E s \in Session : SessionExpires(s)
  BY <1>1, <1>3 DEF RevokeSessions, UnsetSession, SessionExpires
<1>4. CASE UNCHANGED <<live, owner>>
  BY <1>4 DEF RoomInv
<1> QED BY <1>2, <1>3, <1>4, Writes

LEMMA NextRoom == IInv /\ RoomInv /\ [Next]_vars => RoomInv'
<1> SUFFICES ASSUME IInv, RoomInv, [Next]_vars PROVE RoomInv'
  OBVIOUS
<1>1. ASSUME NEW h \in Handler, Request(h) \/ Continue(h), NEW g \in Handler PROVE Room(g)'
  <2>1. CASE g # h
    BY <1>1, <2>1, RoomOfOther
  <2>2. CASE g = h /\ Request(h)
    BY <2>2, RoomOfRequest
  <2>3. CASE g = h /\ Continue(h)
    BY <2>3, ScanMakesRoom, ScanFailsMakesRoom, RevokeMakesRoom, RoomOfOwn
  <2> QED BY <1>1, <2>1, <2>2, <2>3
<1>2. ASSUME NEW s \in Session, SessionExpires(s), NEW g \in Handler PROVE Room(g)'
  <2>1. req' = req /\ unseen' = unseen /\ owner' = owner /\ live' = Without({s})
    BY <1>2 DEF SessionExpires
  <2>2. \A u : Held(u, g)' \subseteq Held(u, g)
    BY <2>1, WithoutOK DEF IInv, Held, SessionsOf
  <2>3. IsFiniteSet(unseen'[g])
    BY <2>1 DEF RoomInv, Room
  <2> QED BY <2>1, <2>2, <2>3, RoomBeside
<1>3. ASSUME UNCHANGED vars, NEW g \in Handler PROVE Room(g)'
  <2>1. req' = req /\ unseen' = unseen /\ owner' = owner /\ live' = live
    BY <1>3 DEF vars, stores
  <2>2. \A u : Held(u, g)' \subseteq Held(u, g)
    BY <2>1 DEF Held, SessionsOf
  <2>3. IsFiniteSet(unseen'[g])
    BY <2>1 DEF RoomInv, Room
  <2> QED BY <2>1, <2>2, <2>3, RoomBeside
<1>4. \A g \in Handler : Room(g)'
  BY <1>1, <1>2, <1>3 DEF Next
<1> QED BY <1>4, LiveFinite DEF RoomInv

LEMMA InitRoom == Init => RoomInv
<1> SUFFICES ASSUME Init PROVE RoomInv
  OBVIOUS
<1>1. IsFiniteSet(OpenAtStart)
  <2>1. PICK n \in Nat : DOMAIN SignedIn = 1 .. n
    <3>1. SignedIn \in Seq(Session \X User)
      BY AccountsAssumption
    <3>2. Len(SignedIn) \in Nat /\ DOMAIN SignedIn = 1 .. Len(SignedIn)
      BY <3>1
    <3> QED BY <3>2
  <2>2. IsFiniteSet(DOMAIN SignedIn)
    BY <2>1, FS_Interval
  <2>3. [i \in DOMAIN SignedIn |-> SignedIn[i][1]] \in Surjection(DOMAIN SignedIn, OpenAtStart)
    BY DEF Surjection, OpenAtStart
  <2> QED BY <2>2, <2>3, FS_Surjection
<1>2. DOMAIN live = OpenAtStart
  BY DEF Init
<1>3. ASSUME NEW h \in Handler PROVE Room(h)
  <2>1. req[h] = Idle /\ IsFiniteSet(unseen[h])
    BY FS_EmptySet DEF Init
  <2>2. req[h].at # "scan" /\ \A u : ~Deleting(req[h], u) /\ ~Ready(req[h], u)
    BY <2>1, LoginSets DEF Idle, Deleting, Ready
  <2> QED BY <2>1, <2>2 DEF Room
<1> QED BY <1>1, <1>2, <1>3 DEF RoomInv

\* A login that sets its session adds one to those it has an account of, and to those it has not.
LEMMA TakesOne ==
    ASSUME IInv, [Next]_vars, NEW h \in Handler, NEW u \in User, TakesSession(h, u)
    PROVE  \E s \in Session : SetSession(h, s)
<1>0. /\ RequestsOK /\ UnseenOK /\ req'[h].at = "record"
      /\ req[h].at = "set" /\ req'[h] # req[h]
  BY LoginSets DEF TakesSession, IInv
<1>1. CASE (\E s \in Session : SessionExpires(s)) \/ UNCHANGED vars
  BY <1>0, <1>1 DEF SessionExpires, vars
<1>2. PICK g \in Handler : Request(g) \/ Continue(g)
  BY <1>0, <1>1 DEF Next, SessionExpires, vars
<1>3. g = h
  BY <1>0, <1>2, OthersStay
<1>4. ~Request(h)
  BY <1>0, RequestBegins DEF Authed, Idle
<1>5. ~RequestDies(h)
  BY <1>0 DEF RequestDies, Ends, Goes, Idle, RequestsOK
<1> QED BY <1>0, <1>2, <1>3, <1>4, <1>5 DEF Continue, ScanSessions, ScanFails, DeleteAllSessions, RevokeSessions,
      RevokeFails, CloseRecords, CloseFails, InsertRecord, UnsetSession, UnsetFails, InsertUser, SetUser,
      DropUsers, CheckTarget

LEMMA LoginLimits ==
    ASSUME IInv, RoomInv, [Next]_vars, MaxSessions > 0,
           NEW h \in Handler, NEW u \in User, TakesSession(h, u)
    PROVE  Cardinality(SessionsOf(u)') <= MaxSessions + Cardinality(unseen[h])
<1>1. PICK s \in Session : SetSession(h, s)
  BY TakesOne
<1>2. SessionsOf(u)' \subseteq (Held(u, h) \cup {s}) \cup unseen[h]
  BY <1>1, SetAddsOne DEF Held
<1>3. IsFiniteSet(Held(u, h)) /\ IsFiniteSet(unseen[h]) /\ Cardinality(Held(u, h)) <= MaxSessions - 1
  BY HeldFinite DEF RoomInv, Room, Ready, TakesSession
<1>4. /\ IsFiniteSet(Held(u, h) \cup {s})
      /\ Cardinality(Held(u, h) \cup {s}) <= Cardinality(Held(u, h)) + 1
  <2> DEFINE B == Held(u, h)
  <2>1. IsFiniteSet(B) /\ Cardinality(B) \in Nat
    BY <1>3, FS_CardinalityType
  <2> HIDE DEF B
  <2>2. /\ IsFiniteSet(B \cup {s})
        /\ Cardinality(B \cup {s}) = Cardinality(B) \/ Cardinality(B \cup {s}) = Cardinality(B) + 1
    BY <2>1, FS_AddElement
  <2>3. Cardinality(B \cup {s}) <= Cardinality(B) + 1
    BY <2>1, <2>2
  <2> QED BY <2>2, <2>3 DEF B
<1>5. /\ IsFiniteSet((Held(u, h) \cup {s}) \cup unseen[h])
      /\ Cardinality((Held(u, h) \cup {s}) \cup unseen[h])
             <= Cardinality(Held(u, h) \cup {s}) + Cardinality(unseen[h])
  <2> DEFINE A == Held(u, h) \cup {s}
  <2>1. IsFiniteSet(A)
    BY <1>4
  <2> HIDE DEF A
  <2>2. /\ IsFiniteSet(A \cup unseen[h]) /\ IsFiniteSet(A \cap unseen[h])
        /\ Cardinality(A \cup unseen[h])
               = Cardinality(A) + Cardinality(unseen[h]) - Cardinality(A \cap unseen[h])
    BY <1>3, <2>1, FS_Union, FS_Intersection
  <2>3. /\ Cardinality(A) \in Nat /\ Cardinality(unseen[h]) \in Nat
        /\ Cardinality(A \cap unseen[h]) \in Nat
    BY <1>3, <2>1, <2>2, FS_CardinalityType
  <2>4. Cardinality(A \cup unseen[h]) <= Cardinality(A) + Cardinality(unseen[h])
    BY <2>2, <2>3
  <2> QED BY <2>2, <2>4 DEF A
<1>6. Cardinality(SessionsOf(u)') <= Cardinality((Held(u, h) \cup {s}) \cup unseen[h])
  BY <1>2, <1>5, Smaller
<1>7. /\ Cardinality(SessionsOf(u)') \in Nat /\ Cardinality((Held(u, h) \cup {s}) \cup unseen[h]) \in Nat
      /\ Cardinality(Held(u, h) \cup {s}) \in Nat /\ Cardinality(Held(u, h)) \in Nat
      /\ Cardinality(unseen[h]) \in Nat /\ MaxSessions \in Nat
  BY <1>2, <1>3, <1>4, <1>5, Smaller, FS_CardinalityType, AccountsAssumption
<1> QED BY <1>3, <1>4, <1>5, <1>6, <1>7

\* For any users, sessions and requests: a login leaves its user at most the limit of sessions, but
\* for those that other requests set since it began to look and those that a failure made it leave
\* (AuthService.Login, enforceMaxSessions, SessionCache.ScanByUser, and what sets and deletes sessions).
THEOREM SessionsAreLimited == Spec => SessionLimit
<1>1. IInv /\ RoomInv /\ [Next]_vars => [\A h \in Handler, u \in User :
           MaxSessions > 0 /\ TakesSession(h, u) =>
               Cardinality(SessionsOf(u)') <= MaxSessions + Cardinality(unseen[h])]_vars
  BY LoginLimits
<1> QED BY <1>1, InitRoom, NextRoom, Inductive, PTL DEF Spec, SessionLimit
=============================================================================
