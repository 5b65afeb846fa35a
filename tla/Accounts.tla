------------------------------- MODULE Accounts -------------------------------
(***************************************************************************)
(* User accounts and their sessions in the control plane: signing up and   *)
(* in, refreshing tokens, signing out, and the requests by which root and  *)
(* admins create, change and delete users.  Sessions are keys in Redis     *)
(* with a record each in MongoDB, users are documents.  A request checks   *)
(* what it has read, and other requests run before it writes.              *)
(***************************************************************************)
EXTENDS Integers, Sequences, FiniteSets

CONSTANTS
    User, Email, Session,
    Initial,       \* the user documents there are at the start, NoUser for none
    SignedIn,      \* the sessions there are at the start, the oldest first, and whose they are
    MaxSessions,   \* Configuration.Token.MaxSessions, 0 for no limit
    Handler,       \* requests handled at the same time
    None,          \* no email address
    MaxRequests,   \* bound of the model: requests in a behaviour
    MaxFaults      \* bound of the model: failures and restarts

Role == {"root", "admin", "user"}
UserDoc == [email : Email \cup {None}, role : Role, on : BOOLEAN]

OpenAtStart == {SignedIn[i][1] : i \in DOMAIN SignedIn}
Place(s) == CHOOSE i \in DOMAIN SignedIn : SignedIn[i][1] = s
OwnerAtStart(s) == IF s \in OpenAtStart THEN <<SignedIn[Place(s)][2]>> ELSE <<>>

\* At the start an address is one user's.
ASSUME AccountsAssumption ==
    /\ None \notin Email
    /\ Initial \in [User -> UserDoc]
    /\ \A u, v \in User : Initial[u].email = Initial[v].email /\ Initial[u].email # None => u = v
    /\ SignedIn \in Seq(Session \X User)
    /\ MaxSessions \in Nat
    /\ IsFiniteSet(Handler) /\ Handler # {}
    /\ MaxRequests \in Nat /\ MaxFaults \in Nat

VARIABLES
    user,      \* user documents: NoUser when there is none, Deleted afterwards
    live,      \* the session keys in Redis, and for each of them those that hold a later time
    owner,     \* the user a session was made for
    record,    \* the session's document: none, open, or closed with a time of logout
    req,       \* what each handler has read, and what it does next
    started, faults,
    blind,     \* the look-ups of an email address among the failures
    unseen,    \* of each login or request to end the others: the user's sessions that other requests
               \* have set since it began to look, and those that a failure made it leave
    revoked,   \* sessions that were revoked with no refresh of theirs under way
    raised     \* users whose role, if above a plain user's, is a root's doing

stores == <<user, live, owner, record>>
bounds == <<started, faults, blind>>
vars == <<stores, req, bounds, unseen, revoked, raised>>

NoUser == [email |-> None, role |-> "user", on |-> FALSE]
Deleted == [email |-> None, role |-> "user", on |-> TRUE]
Idle == [at |-> "idle"]

Known == {u \in User : user[u].email # None}
IsLive(s) == s \in DOMAIN live
FindByEmail(e) == {u \in Known : user[u].email = e}

SessionsOf(u) == {s \in DOMAIN live : owner[s] = <<u>>}
Without(keys) == [s \in DOMAIN live \ keys |-> live[s] \ keys]

Init ==
    /\ user = Initial
    /\ live = [s \in OpenAtStart |-> {t \in OpenAtStart : Place(s) < Place(t)}]
    /\ owner = [s \in Session |-> OwnerAtStart(s)]
    /\ record = [s \in Session |-> IF OwnerAtStart(s) # <<>> THEN "open" ELSE "none"]
    /\ req = [h \in Handler |-> Idle]
    /\ started = 0 /\ faults = 0 /\ blind = 0
    /\ unseen = [h \in Handler |-> {}]
    /\ revoked = {}
    /\ raised = {u \in User : Initial[u].role # "user"}

-----------------------------------------------------------------------------
(* Requests.                                                               *)

Goes(h, r) == req' = [req EXCEPT ![h] = r]
Ends(h) == Goes(h, Idle)
At(h, step) == [req[h] EXCEPT !.at = step]

Begins(h) ==
    /\ req[h] = Idle
    /\ started < MaxRequests
    /\ started' = started + 1
Fails == faults < MaxFaults /\ faults' = faults + 1

\* A look-up that fails is taken for "no such user".
EmailIsFree(e) ==
    \/ FindByEmail(e) = {} /\ UNCHANGED <<faults, blind>>
    \/ Fails /\ blind' = blind + 1

\* JWTMiddleware.Authenticate: the session is there, and so is its user, verified and enabled.
Authenticate(h, s) ==
    /\ Begins(h)
    /\ IsLive(s)
    /\ \E u \in Known :
           /\ owner[s] = <<u>> /\ user[u].on
           /\ Goes(h, [at |-> "authed", session |-> s, actor |-> u, role |-> user[u].role])
    /\ UNCHANGED <<stores, faults, blind, unseen, revoked, raised>>

-----------------------------------------------------------------------------
(* Sessions.                                                               *)

Refreshing(s) == \E h \in Handler : req[h].at \in {"unset", "set"} /\ req[h].keep = <<s>>

\* A login that has its room: generateTokens with a new id.
LoginSet(u) == [at |-> "set", user |-> u, keep |-> <<>>]

\* The requests that have begun to look for a user's sessions, a login's until its own is set.
Looks(h, u) ==
    \/ req[h].at \in {"scan", "others"} /\ req[h].user = u
    \/ req[h].at \in {"revoke", "close"} /\ req[h].then = LoginSet(u)
    \/ req[h] = LoginSet(u)
LooksNoMore(h) == unseen' = [unseen EXCEPT ![h] = {}]

\* AuthService.Login up to generateTokens: the user is there, verified and enabled.
Login(h, u) ==
    /\ Begins(h)
    /\ u \in Known /\ user[u].on
    /\ Goes(h, IF MaxSessions > 0 THEN [at |-> "scan", user |-> u, there |-> SessionsOf(u)] ELSE LoginSet(u))
    /\ UNCHANGED <<stores, faults, blind, unseen, revoked, raised>>

\* SessionCache.ScanByUser: the answers of a SCAN that began when the keys were those of "there", less
\* those that their TTL does not find.  A key that is there all the time is returned; one that was
\* deleted or set in the meantime may be missed, whether it is there at the end or not.
Scanned(h, keys) ==
    /\ keys \subseteq req[h].there \cup unseen[h]
    /\ SessionsOf(req[h].user) \ unseen[h] \subseteq keys

\* Each GET reads a time of its own: the order is known of keys that stay as they were.
Older(h, s, t) == {s, t} \subseteq DOMAIN live \ unseen[h] => t \in live[s]

\* Mutant of Excess: a login makes no room.
ExcessNone(h, keys, old) == old = {}

\* The sessions that make way for a new one: the oldest, so many that there is room for it.
Excess(h, keys, old) ==
    /\ old \subseteq keys
    /\ IF Cardinality(keys) < MaxSessions THEN old = {}
       ELSE /\ Cardinality(keys \ old) = MaxSessions - 1
            /\ \A s \in old, t \in keys \ old : Older(h, s, t)

\* enforceMaxSessions reads the user's sessions ...
ScanSessions(h) ==
    /\ req[h].at = "scan"
    /\ LET u == req[h].user IN
       \E keys, old \in SUBSET (req[h].there \cup unseen[h]) :
           /\ Scanned(h, keys) /\ Excess(h, keys, old)
           /\ Goes(h, IF old = {} THEN LoginSet(u)
                      ELSE [at |-> "revoke", user |-> u, keys |-> old, then |-> LoginSet(u)])
    /\ UNCHANGED <<stores, bounds, unseen, revoked, raised>>

\* ... or fails to, which is no reason to refuse the login.
ScanFails(h) ==
    /\ req[h].at = "scan"
    /\ Fails
    /\ Goes(h, LoginSet(req[h].user))
    /\ unseen' = [unseen EXCEPT ![h] = @ \cup SessionsOf(req[h].user)]
    /\ UNCHANGED <<stores, started, blind, revoked, raised>>

\* SessionCache.Delete, of a login's excess, a logout, or the sessions an account page ends.  A key
\* names its user besides: another user's is not deleted.
RevokeSessions(h) ==
    /\ req[h].at = "revoke"
    /\ LET keys == {s \in req[h].keys : owner[s] = <<req[h].user>>} IN
       /\ live' = Without(keys)
       /\ revoked' = revoked \cup {s \in keys : ~Refreshing(s)}
    /\ Goes(h, At(h, "close"))
    /\ UNCHANGED <<user, owner, record, bounds, unseen, raised>>

\* A login goes on all the same, and closes the records too.
RevokeFails(h) ==
    /\ req[h].at = "revoke" /\ req[h].then # Idle
    /\ Fails
    /\ Goes(h, At(h, "close"))
    /\ unseen' = [unseen EXCEPT ![h] = @ \cup req[h].keys]
    /\ UNCHANGED <<stores, started, blind, revoked, raised>>

\* UpdateLogout and BulkUpdateLogout, of the records that there are, whoever's they are.
CloseRecords(h) ==
    /\ req[h].at = "close"
    /\ record' = [s \in Session |-> IF s \in req[h].keys /\ record[s] # "none" THEN "closed" ELSE record[s]]
    /\ Goes(h, req[h].then)
    /\ UNCHANGED <<user, live, owner, bounds, unseen, revoked, raised>>

\* Their error is logged.
CloseFails(h) ==
    /\ req[h].at = "close"
    /\ Fails
    /\ Goes(h, req[h].then)
    /\ UNCHANGED <<stores, started, blind, unseen, revoked, raised>>

\* Mutant of Renewed: a key that is there keeps its time.
RenewedInPlace(s) ==
    [t \in DOMAIN live \cup {s} |-> (IF IsLive(t) THEN live[t] ELSE {}) \cup ({s} \ {t})]

\* SessionCache.Set: the key holds the latest time.
Renewed(s) == [t \in DOMAIN live \cup {s} |-> IF t = s THEN {} ELSE live[t] \cup {s}]

\* generateTokensWithSession: the key, with the time of now.  A login takes a new id, and then
\* inserts a record.
SetSession(h, s) ==
    /\ req[h].at = "set"
    /\ IF req[h].keep = <<>> THEN owner[s] = <<>> ELSE req[h].keep = <<s>>
    /\ live' = Renewed(s)
    /\ owner' = [owner EXCEPT ![s] = <<req[h].user>>]
    /\ Goes(h, IF req[h].keep = <<>> THEN [at |-> "record", session |-> s] ELSE Idle)
    /\ unseen' = [g \in Handler |-> IF g = h THEN {}
                                    ELSE IF Looks(g, req[h].user) THEN unseen[g] \cup {s} ELSE unseen[g]]
    /\ UNCHANGED <<user, record, bounds, revoked, raised>>

InsertRecord(h) ==
    /\ req[h].at = "record"
    /\ record' = [record EXCEPT ![req[h].session] = "open"]
    /\ Ends(h)
    /\ UNCHANGED <<user, live, owner, bounds, unseen, revoked, raised>>

\* Mutant of RefreshToken: nobody looks for the session.
RefreshUnchecked(h, s) ==
    /\ Begins(h)
    /\ \E u \in Known :
           /\ owner[s] = <<u>>
           /\ Goes(h, [at |-> "unset", user |-> u, keep |-> <<s>>])
    /\ UNCHANGED <<stores, faults, blind, unseen, revoked, raised>>

\* AuthService.RefreshToken, with any refresh token that was made for the session: the session is
\* there, and the user, in whatever state.
RefreshToken(h, s) ==
    /\ Begins(h)
    /\ IsLive(s)
    /\ \E u \in Known :
           /\ owner[s] = <<u>>
           /\ Goes(h, [at |-> "unset", user |-> u, keep |-> <<s>>])
    /\ UNCHANGED <<stores, faults, blind, unseen, revoked, raised>>

\* The old key goes before the new one comes.
UnsetSession(h) ==
    /\ req[h].at = "unset"
    /\ live' = Without({s \in Session : req[h].keep = <<s>>})
    /\ Goes(h, At(h, "set"))
    /\ UNCHANGED <<user, owner, record, bounds, unseen, revoked, raised>>

\* Its error is ignored.
UnsetFails(h) ==
    /\ req[h].at = "unset"
    /\ Fails
    /\ Goes(h, At(h, "set"))
    /\ UNCHANGED <<stores, started, blind, unseen, revoked, raised>>

Revokes(h, keys) ==
    Goes(h, [at |-> "revoke", user |-> req[h].actor, keys |-> keys, then |-> Idle])
Authed(h) == req[h].at = "authed"

\* AuthService.Logout: the session itself.
Logout(h) ==
    /\ Authed(h)
    /\ Revokes(h, {req[h].session})
    /\ UNCHANGED <<stores, bounds, unseen, revoked, raised>>

\* AccountService.DeleteSession, of any id the client names.
DeleteSession(h, s) ==
    /\ Authed(h)
    /\ Revokes(h, {s})
    /\ UNCHANGED <<stores, bounds, unseen, revoked, raised>>

\* The user's sessions but the one that asks: ScanByUser first ...
ScanOthers(h) ==
    /\ Authed(h)
    /\ Goes(h, [at |-> "others", user |-> req[h].actor, session |-> req[h].session,
                there |-> SessionsOf(req[h].actor)])
    /\ UNCHANGED <<stores, bounds, unseen, revoked, raised>>

\* ... and what it returned.
DeleteAllSessions(h) ==
    /\ req[h].at = "others"
    /\ \E keys \in SUBSET (req[h].there \cup unseen[h]) :
           /\ Scanned(h, keys)
           /\ LET others == keys \ {req[h].session} IN
              Goes(h, IF others = {} THEN Idle
                      ELSE [at |-> "revoke", user |-> req[h].user, keys |-> others, then |-> Idle])
    /\ LooksNoMore(h)
    /\ UNCHANGED <<stores, bounds, revoked, raised>>

\* The lifetime of a refresh token is over.
SessionExpires(s) ==
    /\ IsLive(s)
    /\ live' = Without({s})
    /\ UNCHANGED <<user, owner, record, req, bounds, unseen, revoked, raised>>

-----------------------------------------------------------------------------
(* Users.                                                                  *)

IsRootOrAdmin(role) == role \in {"root", "admin"}
AllowedRole(role) == role \in {"admin", "user"}
CanSetUserRole(actor, role) == actor = "root" \/ (actor = "admin" /\ role = "user")
CanDeleteUser(r, t) ==
    /\ r.actor # t
    /\ \/ r.role = "root" /\ user[t].role # "root"
       \/ r.role = "admin" /\ user[t].role = "user"
CanUpdateTarget(r, t) == r.role = "root" \/ (r.role = "admin" /\ (user[t].role = "user" \/ t = r.actor))

\* Mutant of CanSetNewRole: an admin's own row may get any role.
CanSetOwnRole(r, t, role) == r.role = "root" \/ (r.role = "admin" /\ (role = "user" \/ t = r.actor))

CanSetNewRole(r, t, role) ==
    \/ r.role = "root"
    \/ r.role = "admin" /\ (role = "user" \/ (t = r.actor /\ role = user[t].role))

NewUser(u) == user[u] = NoUser /\ \A h \in Handler : req[h].at = "insertuser" => req[h].user # u
Inserting(u, e, role, on, by) ==
    [at |-> "insertuser", user |-> u, by |-> by, doc |-> [email |-> e, role |-> role, on |-> on]]

\* Mutant of Register: nobody looks for the address.
RegisterUnchecked(h, u, e, verified) ==
    /\ Begins(h)
    /\ NewUser(u)
    /\ Goes(h, Inserting(u, e, "user", verified, "user"))
    /\ UNCHANGED <<stores, faults, blind, unseen, revoked, raised>>

\* UserService.Create
CreateUser(h, u, e, role) ==
    /\ AllowedRole(role)
    /\ NewUser(u)
    /\ EmailIsFree(e)
    /\ Goes(h, Inserting(u, e, role, TRUE, req[h].role))
    /\ UNCHANGED <<stores, started, unseen, revoked, raised>>

\* AuthService.Register: a plain user, verified at once or by an administrator later.
Register(h, u, e, verified) ==
    /\ Begins(h)
    /\ NewUser(u)
    /\ EmailIsFree(e)
    /\ Goes(h, Inserting(u, e, "user", verified, "user"))
    /\ UNCHANGED <<stores, unseen, revoked, raised>>

\* A root that writes a role answers for it; an account's own update that is under way when a root
\* demotes it is not the root's fault, nor an admin's.
OwnUpdate(u) == \E g \in Handler : req[g].at = "setuser" /\ req[g].actor = u /\ req[g].target = u
Raises(by, u, role) ==
    raised' = IF by # "root" THEN raised
              ELSE IF role # "user" \/ OwnUpdate(u) THEN raised \cup {u} ELSE raised \ {u}

InsertUser(h) ==
    /\ req[h].at = "insertuser"
    /\ user' = [user EXCEPT ![req[h].user] = req[h].doc]
    /\ Raises(req[h].by, req[h].user, req[h].doc.role)
    /\ Ends(h)
    /\ UNCHANGED <<live, owner, record, bounds, unseen, revoked>>

\* UserService.Update, of a target that was there when the handler checked it.  No role but an
\* allowed one is written, so that a root's row is only ever demoted.
UpdateUser(h, t, role, on) ==
    /\ AllowedRole(role)
    /\ Goes(h, [at |-> "setuser", target |-> t, role |-> role, on |-> on,
                actor |-> req[h].actor, by |-> req[h].role])
    /\ UNCHANGED <<stores, bounds, unseen, revoked, raised>>

\* The $set, which a document that was deleted does not get.
SetUser(h) ==
    /\ req[h].at = "setuser"
    /\ LET t == req[h].target IN
       IF t \in Known
       THEN /\ user' = [user EXCEPT ![t].role = req[h].role, ![t].on = req[h].on]
            /\ Raises(req[h].by, t, req[h].role)
       ELSE UNCHANGED <<user, raised>>
    /\ Ends(h)
    /\ UNCHANGED <<live, owner, record, bounds, unseen, revoked>>

Deletes(h, T) ==
    /\ Goes(h, [at |-> "dropusers", users |-> T])
    /\ UNCHANGED <<stores, bounds, unseen, revoked, raised>>

\* BulkDeleteUsers checks one target after another, by the same rule.
CheckTarget(h, t) ==
    /\ req[h].at = "check" /\ t \in req[h].left
    /\ IF t \notin Known \/ ~CanDeleteUser(req[h], t) THEN Ends(h)
       ELSE IF req[h].left = {t} THEN Goes(h, [at |-> "dropusers", users |-> req[h].users])
       ELSE Goes(h, [req[h] EXCEPT !.left = @ \ {t}])
    /\ UNCHANGED <<stores, bounds, unseen, revoked, raised>>

\* Soft or for ever.  The sessions stay until they expire.
DropUsers(h) ==
    /\ req[h].at = "dropusers"
    /\ user' = [u \in User |-> IF u \in req[h].users THEN Deleted ELSE user[u]]
    /\ Ends(h)
    /\ UNCHANGED <<live, owner, record, bounds, unseen, revoked, raised>>

\* The pod ends, or a call of the request fails.
RequestDies(h) ==
    /\ req[h] # Idle
    /\ Fails
    /\ Ends(h)
    /\ LooksNoMore(h)
    /\ UNCHANGED <<stores, started, blind, revoked, raised>>

-----------------------------------------------------------------------------
(* The requests.  What is refused, by a handler or a service, changes       *)
(* nothing.                                                                *)

PostLogin(h) == \E u \in User : Login(h, u)
PostRefresh(h) == \E s \in Session : RefreshToken(h, s)
PostRegister(h) ==
    \E u \in User, e \in Email, verified \in BOOLEAN : Register(h, u, e, verified)

PostLogout(h) == Logout(h)
RemoveSession(h) == \E s \in Session : DeleteSession(h, s)
RemoveOtherSessions(h) == ScanOthers(h)

PostUser(h) ==
    /\ Authed(h) /\ IsRootOrAdmin(req[h].role)
    /\ \E u \in User, e \in Email, role \in Role :
           CanSetUserRole(req[h].role, role) /\ CreateUser(h, u, e, role)

\* The target's row as it is read, its role when none is asked for.
PutUser(h) ==
    /\ Authed(h) /\ IsRootOrAdmin(req[h].role)
    /\ \E t \in Known, role \in Role, on \in BOOLEAN :
           CanUpdateTarget(req[h], t) /\ CanSetNewRole(req[h], t, role) /\ UpdateUser(h, t, role, on)

RemoveUser(h) ==
    Authed(h) /\ \E t \in Known : CanDeleteUser(req[h], t) /\ Deletes(h, {t})

RemoveUsers(h) ==
    /\ Authed(h) /\ IsRootOrAdmin(req[h].role)
    /\ \E T \in (SUBSET User) \ {{}} :
           Goes(h, [at |-> "check", left |-> T, users |-> T, actor |-> req[h].actor, role |-> req[h].role])
    /\ UNCHANGED <<stores, bounds, unseen, revoked, raised>>

\* A root keeps its account.
RemoveProfile(h) ==
    Authed(h) /\ req[h].role # "root" /\ Deletes(h, {req[h].actor})

Request(h) ==
    \/ \E s \in Session : Authenticate(h, s)
    \/ PostLogin(h) \/ PostRefresh(h) \/ PostRegister(h)
    \/ PostLogout(h) \/ RemoveSession(h) \/ RemoveOtherSessions(h)
    \/ PostUser(h) \/ PutUser(h) \/ RemoveUser(h) \/ RemoveUsers(h) \/ RemoveProfile(h)

Continue(h) ==
    \/ ScanSessions(h) \/ ScanFails(h) \/ DeleteAllSessions(h)
    \/ RevokeSessions(h) \/ RevokeFails(h) \/ CloseRecords(h) \/ CloseFails(h)
    \/ \E s \in Session : SetSession(h, s)
    \/ InsertRecord(h) \/ UnsetSession(h) \/ UnsetFails(h)
    \/ InsertUser(h) \/ SetUser(h) \/ DropUsers(h)
    \/ \E t \in User : CheckTarget(h, t)
    \/ RequestDies(h)

Next ==
    \/ \E h \in Handler : Request(h) \/ Continue(h)
    \/ \E s \in Session : SessionExpires(s)

Spec == Init /\ [][Next]_vars

-----------------------------------------------------------------------------
(* Properties.                                                             *)

TypeOK ==
    /\ user \in [User -> UserDoc]
    /\ DOMAIN live \subseteq Session /\ live \in [DOMAIN live -> SUBSET DOMAIN live]
    /\ \A s, t \in DOMAIN live : t \in live[s] <=> s # t /\ s \notin live[t]
    /\ \A s \in DOMAIN live : \A t \in live[s] : live[t] \subseteq live[s]
    /\ DOMAIN owner = Session
    /\ \A s \in Session : owner[s] = <<>> \/ \E u \in User : owner[s] = <<u>>
    /\ \A s \in Session : owner[s] = <<>> => ~IsLive(s) /\ record[s] = "none"
    /\ record \in [Session -> {"none", "open", "closed"}]
    /\ started \in 0 .. MaxRequests /\ faults \in 0 .. MaxFaults /\ blind \in 0 .. faults
    /\ unseen \in [Handler -> SUBSET Session]
    /\ revoked \subseteq Session /\ raised \subseteq User

Address == [u \in User |-> user[u].email]
Claim == [h \in Handler |-> IF req[h].at = "insertuser" THEN {<<req[h].user, req[h].doc.email>>} ELSE {}]
EmailCheck == INSTANCE UniqueCheck WITH
    Key <- Email, Doc <- User, Writer <- Handler, name <- Address, claim <- Claim
\* Sign-ups and administrators between them keep email addresses as unique as a check before the
\* write can.
UniqueEmails == EmailCheck!Spec

\* A login leaves its user at most the limit of sessions, whatever logins, refreshes, revocations and
\* expiries run beside it, but for those that other requests set since it began to look and those
\* that a failure made it leave: what others delete and set again, its SCAN may miss.
TakesSession(h, u) == req[h] = LoginSet(u) /\ req'[h].at = "record"
SessionLimit ==
    [][\A h \in Handler, u \in User :
           MaxSessions > 0 /\ TakesSession(h, u) =>
               Cardinality(SessionsOf(u)') <= MaxSessions + Cardinality(unseen[h])]_vars

\* A session that was signed out, ended from another device or pushed out by the limit stays so,
\* although refresh tokens for it are still about, unless a refresh of it was under way by then.
RevokedStays == \A s \in revoked : ~IsLive(s)

\* Who is admin has it from a root: no admin raises anybody, not even itself, by requests that check
\* a row and a role read earlier, unless its own update was under way when a root demoted it.  Nobody
\* becomes root, and a root is only ever demoted.
RolesAreRoots == \A u \in Known :
    /\ user[u].role # "user" => u \in raised
    /\ user[u].role = "root" => Initial[u].role = "root"
=============================================================================
