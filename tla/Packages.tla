------------------------------ MODULE Packages ------------------------------
(***************************************************************************)
(* Packages, the links that give them services, and their members, as the  *)
(* control plane's requests edit them over MongoDB without transactions,   *)
(* and what an internal poll serves of them to the gateways.  A request is *)
(* a sequence of database calls, and other requests and a startup job run  *)
(* between any two of them.                                                *)
(***************************************************************************)
EXTENDS PackagePaths, FiniteSetsExt

CONSTANTS
    Package, Service, User, Alias,
    Initial,      \* the package documents there are at the start, NoPackage for none
    Resource,     \* the resource paths of every service
    LinkPaths,    \* the paths that links are given
    Settings,     \* what packages are given: whether they are enabled, and their limit
    Handler,      \* requests handled at the same time
    None,         \* no alias, no package
    MaxRequests,  \* bound of the model: requests in a behaviour
    MaxFaults     \* bound of the model: failures, restarts and edits by other components

Document == [alias : Alias, enabled : BOOLEAN, limit : Limit]
NoPackage == [alias |-> None, enabled |-> FALSE, limit |-> Unset]
Deleted == [alias |-> None, enabled |-> FALSE, limit |-> Off]

ASSUME PackagesAssumption ==
    /\ None \notin Alias \cup Package /\ {Unset, Off} \subseteq Limit /\ Unset # Off
    /\ {Star, Param} \subseteq Segment /\ Resource \subseteq [path : Path, methods : SUBSET Method]
    /\ LinkPaths \subseteq Seq(LinkPath) \ {<<>>}
    /\ Settings \subseteq [enabled : BOOLEAN, limit : Limit]
    /\ Initial \in [Package -> Document \cup {NoPackage}]
    /\ \A p, q \in Package : Initial[p].alias = Initial[q].alias /\ Initial[p].alias # None => p = q
    /\ IsFiniteSet(Handler) /\ Handler # {} /\ IsFiniteSet(User)
    /\ MaxRequests \in Nat /\ MaxFaults \in Nat

Link == 0 .. MaxRequests

VARIABLES
    pkg,           \* package documents: NoPackage when there is none, Deleted afterwards
    service,       \* the service documents
    link,          \* package_services: NoLink, or the link that the n-th request inserted
    member,        \* the packageId of each user
    userCount, serviceCount,  \* the counters of each package document
    entry,         \* the package ids of each service's entry in Redis, as the control plane wrote it last
    req,           \* what each handler has read, and what it does next
    sync,          \* a startup job: what it has read and not yet written
    started, faults,
    blind,         \* the look-ups of an alias and of a link among the failures
    serial         \* no two requests have overlapped, nothing has failed and no user was edited

docs == <<pkg, service, link, member>>
counts == <<userCount, serviceCount>>
bounds == <<faults, blind>>
vars == <<docs, counts, entry, req, sync, started, bounds, serial>>

Role == {"admin", "user"}
NoLink == <<>>
Idle == [at |-> "idle"]
NoSync == [at |-> "none"]
\* What an entry names that was written without any package ids: nobody, whatever the links are.
Bare == {None}

Live == {p \in Package : pkg[p].alias # None}
LinksOf(p, s) == {n \in Link : link[n] # NoLink /\ link[n].package = p /\ link[n].service = s}
ServiceLinks(s) == {n \in Link : link[n] # NoLink /\ link[n].service = s}
PackageIDs(s) == {link[n].package : n \in ServiceLinks(s)}
Members(p) == {u \in User : member[u] = p}
LinkCount(p) == Cardinality(UNION {LinksOf(p, s) : s \in Service})

Init ==
    /\ pkg = Initial
    /\ service = Service
    /\ link = [n \in Link |-> NoLink]
    /\ member \in [User -> Live \cup {None}]
    /\ userCount = [p \in Package |-> Cardinality(Members(p))]
    /\ serviceCount = [p \in Package |-> 0]
    /\ entry = [s \in Service |-> {}]
    /\ req = [h \in Handler |-> Idle]
    /\ sync = NoSync
    /\ started = 0 /\ faults = 0
    /\ blind = [alias |-> 0, link |-> 0]
    /\ serial = TRUE

-----------------------------------------------------------------------------
(* Requests.  An update or a deletion whose look-up has no other use is    *)
(* one step with it: what happens in between is lost or not seen anyway.   *)

Goes(h, r) == req' = [req EXCEPT ![h] = r]
Ends(h) == Goes(h, Idle)

\* The request h begins, as the (started + 1)-th of the behaviour.
Begins(h) ==
    /\ req[h] = Idle
    /\ started < MaxRequests
    /\ started' = started + 1
    /\ serial' = (serial /\ sync = NoSync /\ \A g \in Handler \ {h} : req[g] = Idle)

Fails ==
    /\ faults < MaxFaults
    /\ faults' = faults + 1
    /\ serial' = FALSE

\* isRootOrAdmin: "admin" stands for both.
HasWriteAccess(role) == role = "admin"

\* The id of a document is new.
Unclaimed(p) == \A g \in Handler : req[g].at = "writepackage" => req[g].package # p
Writing(p, a, new) ==
    [at |-> "writepackage", insert |-> pkg[p] = NoPackage, package |-> p,
     doc |-> [alias |-> a, enabled |-> new.enabled, limit |-> new.limit]]
\* Mutant of Taken: only among the packages that are enabled.
TakenByEnabled(a) == \E p \in Live : pkg[p].enabled /\ pkg[p].alias = a
Taken(a) == \E p \in Live : pkg[p].alias = a

\* PackageService.Create looks for its alias, which it makes up when it is given none.
CreatePackage(h, p, a) ==
    /\ pkg[p] = NoPackage
    /\ Unclaimed(p)
    /\ Begins(h)
    /\ ~Taken(a)
    /\ \E new \in Settings : Goes(h, Writing(p, a, new))
    /\ UNCHANGED <<docs, counts, entry, sync, bounds>>

\* PackageService.Update looks for its alias only when the document it read has another.
UpdatePackage(h, p, a) ==
    /\ p \in Live
    /\ Begins(h)
    /\ pkg[p].alias = a \/ ~Taken(a)
    /\ \E new \in Settings : Goes(h, Writing(p, a, new))
    /\ UNCHANGED <<docs, counts, entry, sync, bounds>>

\* FindByAlias fails, which both take for "no such package".
AliasLookupFails(h, p, a) ==
    /\ req[h] = Idle /\ started < MaxRequests /\ started' = started + 1
    /\ p \in Live \/ (pkg[p] = NoPackage /\ Unclaimed(p))
    /\ Fails
    /\ blind' = [blind EXCEPT !.alias = @ + 1]
    /\ \E new \in Settings : Goes(h, Writing(p, a, new))
    /\ UNCHANGED <<docs, counts, entry, sync>>

\* Insert, or the $set of an update, which a document that was deleted does not get.
WritePackage(h) ==
    /\ req[h].at = "writepackage"
    /\ pkg' = IF req[h].insert \/ req[h].package \in Live
              THEN [pkg EXCEPT ![req[h].package] = req[h].doc] ELSE pkg
    /\ Ends(h)
    /\ UNCHANGED <<service, link, member, counts, entry, sync, started, bounds, serial>>

\* Soft or for ever.  Its links and its members stay as they are.
DeletePackage(h, p) ==
    /\ p \in Live
    /\ Begins(h)
    /\ pkg' = [pkg EXCEPT ![p] = Deleted]
    /\ UNCHANGED <<service, link, member, counts, entry, req, sync, bounds>>

\* Mutant of CreateLink: nobody looks for a link of the two.
CreateLinkUnchecked(h, p, s, paths) ==
    /\ pkg[p] # NoPackage
    /\ Begins(h)
    /\ s \in service
    /\ ValidatePaths(paths, Resource)
    /\ Goes(h, [at |-> "insertlink", n |-> started',
                doc |-> [package |-> p, service |-> s, paths |-> paths]])
    /\ UNCHANGED <<docs, counts, entry, sync, bounds>>

\* PackageSvcLinkService.Create: no link of the two yet, a service, and paths that match it.  Nobody
\* looks whether there is such a package.
CreateLink(h, p, s, paths) ==
    /\ pkg[p] # NoPackage
    /\ Begins(h)
    /\ LinksOf(p, s) = {}
    /\ s \in service
    /\ ValidatePaths(paths, Resource)
    /\ Goes(h, [at |-> "insertlink", n |-> started',
                doc |-> [package |-> p, service |-> s, paths |-> paths]])
    /\ UNCHANGED <<docs, counts, entry, sync, bounds>>

\* FindByPackageAndService fails, which is taken for "no link".
LinkLookupFails(h, p, s, paths) ==
    /\ pkg[p] # NoPackage
    /\ req[h] = Idle /\ started < MaxRequests /\ started' = started + 1
    /\ s \in service
    /\ ValidatePaths(paths, Resource)
    /\ Fails
    /\ blind' = [blind EXCEPT !.link = @ + 1]
    /\ Goes(h, [at |-> "insertlink", n |-> started',
                doc |-> [package |-> p, service |-> s, paths |-> paths]])
    /\ UNCHANGED <<docs, counts, entry, sync>>

InsertLink(h) ==
    /\ req[h].at = "insertlink"
    /\ link' = [link EXCEPT ![req[h].n] = req[h].doc]
    /\ Goes(h, [at |-> "countlink", package |-> req[h].doc.package, by |-> 1,
                service |-> req[h].doc.service, known |-> TRUE])
    /\ UNCHANGED <<pkg, service, member, counts, entry, sync, started, bounds, serial>>

\* PackageSvcLinkService.Update: one of the two's links.  Redis is not told.
UpdateLink(h, n, paths) ==
    /\ link[n] # NoLink
    /\ Begins(h)
    /\ link[n].service \in service
    /\ ValidatePaths(paths, Resource)
    /\ link' = [link EXCEPT ![n].paths = paths]
    /\ UNCHANGED <<pkg, service, member, counts, entry, req, sync, bounds>>

\* PackageSvcLinkService.Delete reads the link and the service ...
DeleteLink(h, p, s) ==
    /\ Begins(h)
    /\ LinksOf(p, s) # {}
    /\ Goes(h, [at |-> "deletelink", package |-> p, service |-> s, known |-> s \in service])
    /\ UNCHANGED <<docs, counts, entry, sync, bounds>>

\* ... and deletes one link of the two, if there is one left.
DeleteOneLink(h) ==
    /\ req[h].at = "deletelink"
    /\ LET found == LinksOf(req[h].package, req[h].service) IN
       \/ found = {} /\ UNCHANGED link
       \/ \E n \in found : link' = [link EXCEPT ![n] = NoLink]
    /\ Goes(h, [at |-> "countlink", package |-> req[h].package, by |-> -1,
                service |-> req[h].service, known |-> req[h].known])
    /\ UNCHANGED <<pkg, service, member, counts, entry, sync, started, bounds, serial>>

\* IncrServiceCount, on a document that has not been deleted.
CountLink(h) ==
    /\ req[h].at = "countlink"
    /\ serviceCount' = IF req[h].package \in Live
                       THEN [serviceCount EXCEPT ![req[h].package] = @ + req[h].by]
                       ELSE serviceCount
    /\ IF req[h].known THEN Goes(h, [at |-> "readids", service |-> req[h].service]) ELSE Ends(h)
    /\ UNCHANGED <<docs, userCount, entry, sync, started, bounds, serial>>

\* Its error is ignored.
CountLinkFails(h) ==
    /\ req[h].at = "countlink"
    /\ Fails
    /\ IF req[h].known THEN Goes(h, [at |-> "readids", service |-> req[h].service]) ELSE Ends(h)
    /\ UNCHANGED <<docs, counts, entry, sync, started, blind>>

\* syncServicePackages lists the packages of the service, then writes the entry in Redis.
ReadPackageIDs(h) ==
    /\ req[h].at = "readids"
    /\ Goes(h, [at |-> "writeentry", service |-> req[h].service, ids |-> PackageIDs(req[h].service)])
    /\ UNCHANGED <<docs, counts, entry, sync, started, bounds, serial>>

WriteEntry(h) ==
    /\ req[h].at = "writeentry"
    /\ entry' = [entry EXCEPT ![req[h].service] = req[h].ids]
    /\ Ends(h)
    /\ UNCHANGED <<docs, counts, sync, started, bounds, serial>>

-----------------------------------------------------------------------------
(* Members.                                                                *)

\* isSelfAssignOnly
IsSelfAssign(U) == Cardinality(U) = 1

\* assignAccessError: a plain user moves only itself, and only to a package that is enabled.
AssignAccess(role, p, U) == HasWriteAccess(role) \/ (IsSelfAssign(U) /\ pkg[p].enabled)

AssignUsers(h, p, U) ==
    /\ U # {} /\ p \in Live
    /\ Begins(h)
    /\ Goes(h, [at |-> "countold", package |-> p, users |-> U])
    /\ UNCHANGED <<docs, counts, entry, sync, bounds>>

\* Mutant of CountOld: the packages that users leave are not counted down.
CountNoOld(h) ==
    /\ req[h].at = "countold"
    /\ Goes(h, [at |-> "setpackage", package |-> req[h].package, users |-> req[h].users,
                left |-> [q \in Package |-> 0]])
    /\ UNCHANGED <<docs, counts, entry, sync, started, bounds, serial>>

\* CountByOldPackageIDs: how many of them each other package will lose.
CountOld(h) ==
    /\ req[h].at = "countold"
    /\ Goes(h, [at |-> "setpackage", package |-> req[h].package, users |-> req[h].users,
                left |-> [q \in Package |->
                    IF q = req[h].package THEN 0 ELSE Cardinality(Members(q) \cap req[h].users)]])
    /\ UNCHANGED <<docs, counts, entry, sync, started, bounds, serial>>

\* BulkSetPackageID counts those it moves.  With none, no counter changes.
SetPackage(h) ==
    /\ req[h].at = "setpackage"
    /\ LET p == req[h].package
           moved == {u \in req[h].users : member[u] # p}
       IN  /\ member' = [u \in User |-> IF u \in moved THEN p ELSE member[u]]
           /\ IF moved = {} THEN Ends(h)
              ELSE Goes(h, [at |-> "countusers", by |-> [q \in Package |->
                       IF q = p THEN Cardinality(moved) ELSE - req[h].left[q]]])
    /\ UNCHANGED <<pkg, service, link, counts, entry, sync, started, bounds, serial>>

\* RemoveUsers: BulkUnsetPackageID of those that are members.
RemoveUsers(h, p, U) ==
    /\ U # {} /\ p \in Live
    /\ Begins(h)
    /\ LET removed == U \cap Members(p) IN
       /\ member' = [u \in User |-> IF u \in removed THEN None ELSE member[u]]
       /\ IF removed = {} THEN UNCHANGED req
          ELSE Goes(h, [at |-> "countusers", by |-> [q \in Package |->
                   IF q = p THEN - Cardinality(removed) ELSE 0]])
    /\ UNCHANGED <<pkg, service, link, counts, entry, sync, bounds>>

Uncounted(h) == {q \in Package : req[h].by[q] # 0}
Counted(h, q) ==
    IF Uncounted(h) = {q} THEN Ends(h)
    ELSE Goes(h, [req[h] EXCEPT !.by = [@ EXCEPT ![q] = 0]])

\* IncrUserCount, one package after another.
CountUsers(h, q) ==
    /\ req[h].at = "countusers" /\ q \in Uncounted(h)
    /\ userCount' = IF q \in Live THEN [userCount EXCEPT ![q] = @ + req[h].by[q]] ELSE userCount
    /\ Counted(h, q)
    /\ UNCHANGED <<docs, serviceCount, entry, sync, started, bounds, serial>>

\* Its error is ignored.
CountUsersFails(h, q) ==
    /\ req[h].at = "countusers" /\ q \in Uncounted(h)
    /\ Fails
    /\ Counted(h, q)
    /\ UNCHANGED <<docs, counts, entry, sync, started, blind>>

\* The pod ends, or a call of the request fails: what it had left to do is not done.
RequestDies(h) ==
    /\ req[h] # Idle
    /\ Fails
    /\ Ends(h)
    /\ UNCHANGED <<docs, counts, entry, sync, started, blind>>

-----------------------------------------------------------------------------
(* Other components, and the jobs a pod starts with.                       *)

Other == faults < MaxFaults /\ faults' = faults + 1

\* UserService and AuthService write a user's package, or delete a user, and count nothing.
EditUser(u, p) ==
    /\ Other
    /\ member[u] # p /\ (p = None \/ p \in Live)
    /\ member' = [member EXCEPT ![u] = p]
    /\ serial' = FALSE
    /\ UNCHANGED <<pkg, service, link, counts, entry, req, sync, started, blind>>

\* GatewayServiceService.Delete: the document and the entry.  The links stay.
DeleteService(s) ==
    /\ Other
    /\ s \in service
    /\ service' = service \ {s}
    /\ entry' = [entry EXCEPT ![s] = {}]
    /\ UNCHANGED <<pkg, link, member, counts, req, sync, started, blind, serial>>

\* GatewayServiceService.Create and Update, and the first pass of syncGatewayServices: SyncService
\* writes the service's entry anew, with the service's own fields and no package ids.
EditService(s) ==
    /\ Other
    /\ s \in service
    /\ entry' = [entry EXCEPT ![s] = Bare]
    /\ UNCHANGED <<docs, counts, req, sync, started, blind, serial>>

\* No request is at hand when a startup job reads.
Undisturbed == serial /\ \A h \in Handler : req[h] = Idle

\* The second pass of syncGatewayServices lists the packages of a service, then writes its entry.
BootReads(s) ==
    /\ sync = NoSync
    /\ Other
    /\ s \in service
    /\ sync' = [at |-> "entry", service |-> s, ids |-> PackageIDs(s)]
    /\ serial' = Undisturbed
    /\ UNCHANGED <<docs, counts, entry, req, started, blind>>

BootWrites ==
    /\ sync.at = "entry"
    /\ entry' = [entry EXCEPT ![sync.service] = sync.ids]
    /\ sync' = NoSync
    /\ UNCHANGED <<docs, counts, req, started, bounds, serial>>

\* SyncUserCounts and SyncServiceCounts: a row for each package that has any.
SyncReads(kind) ==
    /\ sync = NoSync
    /\ Other
    /\ LET count(p) == IF kind = "users" THEN Cardinality(Members(p)) ELSE LinkCount(p) IN
       sync' = [at |-> kind, rows |-> [p \in {q \in Package : count(q) > 0} |-> count(p)]]
    /\ serial' = Undisturbed
    /\ UNCHANGED <<docs, counts, entry, req, started, blind>>

Counting == sync.at \in {"users", "services"}
SyncWrites(p) ==
    /\ Counting /\ p \in DOMAIN sync.rows
    /\ LET write(count) == [count EXCEPT ![p] = sync.rows[p]] IN
       IF sync.at = "users"
       THEN userCount' = write(userCount) /\ UNCHANGED serviceCount
       ELSE serviceCount' = write(serviceCount) /\ UNCHANGED userCount
    /\ sync' = [sync EXCEPT !.rows = [q \in DOMAIN @ \ {p} |-> @[q]]]
    /\ UNCHANGED <<docs, entry, req, started, bounds, serial>>

\* The last statement zeroes documents that have no counter, and Insert gives every one a counter.
SyncEnds ==
    /\ Counting /\ DOMAIN sync.rows = {}
    /\ sync' = NoSync
    /\ UNCHANGED <<docs, counts, entry, req, started, bounds, serial>>

-----------------------------------------------------------------------------
(* GET /internal/services: what a gateway that polls now is served.        *)

\* packageRateLimits: of the packages that are linked and not deleted.
PackageRateLimits == [p \in Package |-> IF p \in Live THEN pkg[p].limit ELSE Unset]

\* The limit map of a service's links, found in any order.
ServedMap(ids) == BuildRateLimitMap([i \in DOMAIN ids |-> link[ids[i]]], PackageRateLimits)

-----------------------------------------------------------------------------
(* The requests.  All but one are refused to a plain user; what is refused, *)
(* there or by a check, changes nothing.                                   *)

PostPackage(h, role) ==
    HasWriteAccess(role) /\ \E p \in Package, a \in Alias :
        CreatePackage(h, p, a) \/ (pkg[p] = NoPackage /\ AliasLookupFails(h, p, a))
PutPackage(h, role) ==
    HasWriteAccess(role) /\ \E p \in Package, a \in Alias :
        UpdatePackage(h, p, a) \/ (p \in Live /\ pkg[p].alias # a /\ AliasLookupFails(h, p, a))
RemovePackage(h, role) ==
    HasWriteAccess(role) /\ \E p \in Package : DeletePackage(h, p)

PostLink(h, role) ==
    HasWriteAccess(role) /\ \E p \in Package, s \in Service, paths \in LinkPaths :
        CreateLink(h, p, s, paths) \/ LinkLookupFails(h, p, s, paths)
PutLink(h, role) ==
    HasWriteAccess(role) /\ \E n \in Link, paths \in LinkPaths : UpdateLink(h, n, paths)
RemoveLink(h, role) ==
    HasWriteAccess(role) /\ \E p \in Package, s \in Service : DeleteLink(h, p, s)

PostMembers(h, role) ==
    \E p \in Package, U \in SUBSET User : AssignAccess(role, p, U) /\ AssignUsers(h, p, U)
RemoveMembers(h, role) ==
    HasWriteAccess(role) /\ \E p \in Package, U \in SUBSET User : RemoveUsers(h, p, U)

Request(h) ==
    \E role \in Role :
        \/ PostPackage(h, role) \/ PutPackage(h, role) \/ RemovePackage(h, role)
        \/ PostLink(h, role) \/ PutLink(h, role) \/ RemoveLink(h, role)
        \/ PostMembers(h, role) \/ RemoveMembers(h, role)

Continue(h) ==
    \/ WritePackage(h)
    \/ InsertLink(h) \/ DeleteOneLink(h) \/ CountLink(h) \/ CountLinkFails(h)
    \/ ReadPackageIDs(h) \/ WriteEntry(h)
    \/ CountOld(h) \/ SetPackage(h)
    \/ \E q \in Package : CountUsers(h, q) \/ CountUsersFails(h, q)
    \/ RequestDies(h)

Others ==
    \/ \E u \in User, p \in Package \cup {None} : EditUser(u, p)
    \/ \E s \in Service : DeleteService(s) \/ EditService(s) \/ BootReads(s)
    \/ BootWrites
    \/ \E kind \in {"users", "services"} : SyncReads(kind)
    \/ \E p \in Package : SyncWrites(p)
    \/ SyncEnds

Next == Others \/ \E h \in Handler : Request(h) \/ Continue(h)

Spec == Init /\ [][Next]_vars

-----------------------------------------------------------------------------
(* Properties.                                                             *)

TypeOK ==
    /\ pkg \in [Package -> Document \cup {NoPackage, Deleted}]
    /\ service \subseteq Service
    /\ \A n \in Link : link[n] = NoLink
           \/ /\ link[n] \in [package : Package, service : Service, paths : LinkPaths]
              /\ \A i \in DOMAIN link[n].paths : \E r \in Resource :
                     PathCovers(link[n].paths[i].path, r.path)
    /\ member \in [User -> Package \cup {None}]
    /\ userCount \in [Package -> Int] /\ serviceCount \in [Package -> Int]
    /\ entry \in [Service -> (SUBSET Package) \cup {Bare}]
    /\ \A h \in Handler : req[h].at \in {"idle", "writepackage", "insertlink", "countlink",
           "deletelink", "readids", "writeentry", "countold", "setpackage", "countusers"}
    /\ started \in 0 .. MaxRequests /\ faults \in 0 .. MaxFaults
    /\ serial \in BOOLEAN

\* The names that UniqueCheck is about, and what each request claims of them.
AliasOf == [p \in Package |-> pkg[p].alias]
AliasClaim(r) == IF r.at = "writepackage" THEN {<<r.package, r.doc.alias>>} ELSE {}
AliasClaims == [h \in Handler |-> AliasClaim(req[h])]
AliasCheck == INSTANCE UniqueCheck WITH
    Key <- Alias, Doc <- Package, Writer <- Handler,
    name <- AliasOf, claim <- AliasClaims, blind <- blind.alias

PairOf == [n \in Link |-> IF link[n] = NoLink THEN NoLink ELSE <<link[n].package, link[n].service>>]
LinkClaim(r) == IF r.at = "insertlink" THEN {<<r.n, <<r.doc.package, r.doc.service>>>>} ELSE {}
LinkClaims == [h \in Handler |-> LinkClaim(req[h])]
LinkCheck == INSTANCE UniqueCheck WITH
    Key <- Package \X Service, Doc <- Link, Writer <- Handler, None <- NoLink,
    name <- PairOf, claim <- LinkClaims, blind <- blind.link

\* Creating and renaming packages, and linking them, keep aliases and links as unique as a check before
\* the write can: requests that overlap, or a look-up that fails, give two packages one alias or a
\* package two links to one service, and nothing else does (UniqueCheck says how many).
UniqueNames == AliasCheck!Spec /\ LinkCheck!Spec

Quiet == sync = NoSync /\ \A h \in Handler : req[h] = Idle

\* As long as requests came one at a time and nothing failed, the counters that packages keep are
\* those of their members and links, whatever was created, deleted, linked and moved, deleted packages
\* and services included.  The entry in Redis names the packages of the service, unless the service
\* itself was written since: then it names none, and a gateway that starts from it refuses a private
\* service to everybody until its first sync (auth_handler.go:96-101).
SerialExact ==
    serial /\ Quiet =>
        /\ \A p \in Live : userCount[p] = Cardinality(Members(p)) /\ serviceCount[p] = LinkCount(p)
        /\ \A s \in service : entry[s] \in {PackageIDs(s), Bare}

\* Whatever order Go ranges over the map in, a resource path gets the entry of its own path if there
\* is one, and else of the longest wildcard above it, "/*" included; a "{name}" of it counts as a "*".
BestIsLongest(map, order, path) ==
    LET above == {q \in DOMAIN map : PathCovers(q, Normalize(path))}
        best == FindBestRateLimit(map, order, path)
    IN  IF path \in DOMAIN map THEN best = path
        ELSE IF above = {} THEN best = <<>>
        ELSE best \in above /\ \A q \in above : Len(q) <= Len(best)

\* The limit the gateway is served for a package on a path is read from the entry of that path or of
\* the longest wildcard above it, and is the limit of a path of one of the package's own links, or the
\* package's where that sets none: never another package's or path's, whatever order MongoDB returns
\* the links in.
LimitsAreOwn ==
    \A s \in Service : \A ids \in SetToSeqs(ServiceLinks(s)) : LET map == ServedMap(ids) IN
        \A order \in SetToSeqs(DOMAIN map), r \in Resource :
            /\ BestIsLongest(map, order, r.path)
            /\ \A p \in Package : LET tiers == ServedLimit(map, order, r.path, p) IN
                 tiers # Off => \E n \in Link :
                    /\ link[n] # NoLink
                    /\ link[n].package = p /\ link[n].service = s
                    /\ \E i \in DOMAIN link[n].paths : LET pp == link[n].paths[i] IN
                           /\ pp.path = r.path \/ PathCovers(pp.path, Normalize(r.path))
                           /\ EffectiveRateLimit(pp, PackageRateLimits[p]) = tiers
=============================================================================
