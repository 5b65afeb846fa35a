---------------------------- MODULE PackagesProofs ----------------------------
(***************************************************************************)
(* Of any number of packages, services, users and requests: aliases and    *)
(* links are as unique as a check before the write can keep them, and      *)
(* while requests come one at a time the counters and the entries in Redis *)
(* are those of the links and members there are.  What the request at hand *)
(* has yet to count, or to write, is part of the invariants.               *)
(***************************************************************************)
EXTENDS Packages, FiniteSetTheorems, WellFoundedInduction, TLAPS

-----------------------------------------------------------------------------
(* The inductive invariant: what requests hold at each of their steps.     *)

Accepted(paths) == \A i \in DOMAIN paths : \E r \in Resource : PathCovers(paths[i].path, r.path)
LinkDocument == {d \in [package : Package, service : Service, paths : LinkPaths] : Accepted(d.paths)}

RequestOK(q) ==
    /\ q.at \in {"idle", "writepackage", "insertlink", "countlink", "deletelink", "readids", "writeentry",
                 "countold", "setpackage", "countusers"}
    /\ q.at = "idle" => q = Idle
    /\ q.at = "writepackage" =>
           q \in [at : {"writepackage"}, insert : BOOLEAN, package : Package, doc : Document]
    /\ q.at = "insertlink" => q \in [at : {"insertlink"}, n : Link, doc : LinkDocument]
    /\ q.at = "countlink" =>
           q \in [at : {"countlink"}, package : Package, by : {1, -1}, service : Service, known : BOOLEAN]
    /\ q.at = "deletelink" =>
           q \in [at : {"deletelink"}, package : Package, service : Service, known : BOOLEAN]
    /\ q.at = "readids" => q \in [at : {"readids"}, service : Service]
    /\ q.at = "writeentry" => q \in [at : {"writeentry"}, service : Service, ids : SUBSET Package]
    /\ q.at = "countold" => q \in [at : {"countold"}, package : Package, users : SUBSET User]
    /\ q.at = "setpackage" =>
           q \in [at : {"setpackage"}, package : Package, users : SUBSET User, left : [Package -> Nat]]
    /\ q.at = "countusers" => q \in [at : {"countusers"}, by : [Package -> Int]]
RequestsOK == DOMAIN req = Handler /\ \A h \in Handler : RequestOK(req[h])

\* The parts of TypeOK.
PackagesOK == pkg \in [Package -> Document \cup {NoPackage, Deleted}]
LinksOK == link \in [Link -> LinkDocument \cup {NoLink}]
MembersOK == member \in [User -> Package \cup {None}]
CountsOK == userCount \in [Package -> Int] /\ serviceCount \in [Package -> Int]
EntryOK == entry \in [Service -> (SUBSET Package) \cup {Bare}] /\ service \subseteq Service
SyncOK ==
    \/ sync = NoSync
    \/ sync \in [at : {"users", "services"}, rows : UNION {[S -> Int] : S \in SUBSET Package}]
    \/ sync \in [at : {"entry"}, service : Service, ids : SUBSET Package]
CountersOK ==
    /\ started \in 0 .. MaxRequests /\ faults \in 0 .. MaxFaults
    /\ blind \in [alias : Nat, link : Nat]
    /\ serial \in BOOLEAN

Types == RequestsOK /\ PackagesOK /\ LinksOK /\ MembersOK /\ CountsOK /\ EntryOK /\ SyncOK /\ CountersOK

-----------------------------------------------------------------------------
(* What a step changes.                                                    *)

\* How requests begin.
LEMMA RequestBegins ==
    ASSUME NEW h \in Handler, Request(h)
    PROVE  \/ \E p \in Package, a \in Alias :
                  \/ CreatePackage(h, p, a) \/ UpdatePackage(h, p, a)
                  \/ AliasLookupFails(h, p, a)
           \/ \E p \in Package : DeletePackage(h, p)
           \/ \E p \in Package, s \in Service, paths \in LinkPaths :
                  CreateLink(h, p, s, paths) \/ LinkLookupFails(h, p, s, paths)
           \/ \E n \in Link, paths \in LinkPaths : UpdateLink(h, n, paths)
           \/ \E p \in Package, s \in Service : DeleteLink(h, p, s)
           \/ \E p \in Package, U \in SUBSET User : AssignUsers(h, p, U) \/ RemoveUsers(h, p, U)
BY DEF Request, PostPackage, PutPackage, RemovePackage, PostLink, PutLink, RemoveLink, PostMembers, RemoveMembers

LEMMA NoneAtStart ==
    /\ NoPackage.alias = None /\ Deleted.alias = None /\ NoPackage # Deleted
    /\ \A d \in Document : d.alias # None /\ d.alias \in Alias /\ d # NoPackage /\ d # Deleted
    /\ \A d \in LinkDocument : d # NoLink
<1>1. NoPackage.limit # Deleted.limit
  BY PackagesAssumption DEF NoPackage, Deleted
<1>2. \A d \in Document : d.alias # None /\ d.alias \in Alias
  BY PackagesAssumption DEF Document
<1>3. NoPackage.alias = None /\ Deleted.alias = None
  BY DEF NoPackage, Deleted
<1>4. ASSUME NEW d \in LinkDocument PROVE d # NoLink
  <2>1. d \in [package : Package, service : Service, paths : LinkPaths]
    BY DEF LinkDocument
  <2>2. DOMAIN d = {"package", "service", "paths"}
    BY <2>1
  <2>3. DOMAIN NoLink = {}
    BY DEF NoLink
  <2> QED BY <2>2, <2>3
<1> QED BY <1>1, <1>2, <1>3, <1>4

LEMMA MembersFinite ==
    \A S \in SUBSET User : IsFiniteSet(S) /\ Cardinality(S) \in Nat
BY PackagesAssumption, FS_Subset, FS_CardinalityType

LEMMA LinksFinite ==
    /\ Link \subseteq Nat
    /\ \A S \in SUBSET Link : IsFiniteSet(S) /\ Cardinality(S) \in Nat
<1>1. IsFiniteSet(Link)
  BY PackagesAssumption, FS_Interval DEF Link
<1>2. \A S \in SUBSET Link : IsFiniteSet(S) /\ Cardinality(S) \in Nat
  BY <1>1, FS_Subset, FS_CardinalityType
<1>3. Link \subseteq Nat
  BY PackagesAssumption DEF Link
<1> QED BY <1>2, <1>3

-----------------------------------------------------------------------------
(* Types.                                                                  *)

\* A handler that goes on with a request of one of the shapes.
LEMMA GoesOK ==
    ASSUME RequestsOK, NEW h \in Handler, NEW q, Goes(h, q), RequestOK(q)
    PROVE  RequestsOK'
BY DEF RequestsOK, Goes

LEMMA IdleOK == RequestOK(Idle)
BY DEF RequestOK, Idle

LEMMA BeginRequests ==
    ASSUME Types, NEW h \in Handler, Request(h)
    PROVE  RequestsOK'
<1> USE DEF Types
<1>1. ASSUME NEW p \in Package, NEW a \in Alias,
             CreatePackage(h, p, a) \/ UpdatePackage(h, p, a) \/ AliasLookupFails(h, p, a)
      PROVE  RequestsOK'
  <2>1. PICK new \in Settings : Goes(h, Writing(p, a, new))
    BY <1>1 DEF CreatePackage, UpdatePackage, AliasLookupFails
  <2>2. [alias |-> a, enabled |-> new.enabled, limit |-> new.limit] \in Document
    BY PackagesAssumption DEF Document
  <2>3. PICK insert \in BOOLEAN : insert = (pkg[p] = NoPackage)
    OBVIOUS
  <2> DEFINE doc == [alias |-> a, enabled |-> new.enabled, limit |-> new.limit]
  <2> HIDE DEF doc
  <2>4. RequestOK([at |-> "writepackage", insert |-> insert, package |-> p, doc |-> doc])
    BY <2>2 DEF RequestOK, doc
  <2>5. Writing(p, a, new) = [at |-> "writepackage", insert |-> insert, package |-> p, doc |-> doc]
    BY <2>3 DEF Writing, doc
  <2> QED BY <2>1, <2>4, <2>5, GoesOK
<1>2. ASSUME NEW p \in Package, NEW s \in Service, NEW paths \in LinkPaths,
             CreateLink(h, p, s, paths) \/ LinkLookupFails(h, p, s, paths)
      PROVE  RequestsOK'
  <2> DEFINE doc == [package |-> p, service |-> s, paths |-> paths]
             q == [at |-> "insertlink", n |-> started', doc |-> doc]
  <2>1. Goes(h, q) /\ ValidatePaths(paths, Resource)
    BY <1>2 DEF CreateLink, LinkLookupFails
  <2>2. started' \in Link
    <3>1. started < MaxRequests /\ started' = started + 1
      BY <1>2 DEF CreateLink, LinkLookupFails, Begins
    <3> QED BY <3>1, PackagesAssumption DEF CountersOK, Link
  <2>3. Accepted(paths)
    BY <2>1 DEF ValidatePaths, MatchesServicePaths, Accepted
  <2>4. doc \in LinkDocument
    BY <2>3 DEF LinkDocument
  <2>5. RequestOK(q)
    BY <2>2, <2>4 DEF RequestOK
  <2> QED BY <2>1, <2>5, GoesOK
<1>3. ASSUME NEW p \in Package, NEW s \in Service, DeleteLink(h, p, s) PROVE RequestsOK'
  <2> DEFINE q == [at |-> "deletelink", package |-> p, service |-> s, known |-> s \in service]
  <2>1. Goes(h, q)
    BY <1>3 DEF DeleteLink
  <2>2. (s \in service) \in BOOLEAN
    OBVIOUS
  <2>3. RequestOK(q)
    BY <2>2 DEF RequestOK
  <2> QED BY <2>1, <2>3, GoesOK
<1>4. ASSUME NEW p \in Package, NEW U \in SUBSET User, AssignUsers(h, p, U) PROVE RequestsOK'
  <2>1. RequestOK([at |-> "countold", package |-> p, users |-> U])
    BY DEF RequestOK
  <2> QED BY <1>4, <2>1, GoesOK DEF AssignUsers
<1>5. ASSUME NEW p \in Package, NEW U \in SUBSET User, RemoveUsers(h, p, U) PROVE RequestsOK'
  <2> DEFINE removed == U \cap Members(p)
             by == [q \in Package |-> IF q = p THEN - Cardinality(removed) ELSE 0]
  <2>1. CASE UNCHANGED req
    BY <2>1 DEF RequestsOK
  <2>2. CASE Goes(h, [at |-> "countusers", by |-> by])
    <3>1. removed \in SUBSET User
      BY DEF Members
    <3>2. by \in [Package -> Int]
      BY <3>1, MembersFinite
    <3> HIDE DEF by
    <3>3. RequestOK([at |-> "countusers", by |-> by])
      BY <3>2 DEF RequestOK
    <3> QED BY <2>2, <3>3, GoesOK
  <2> QED BY <1>5, <2>1, <2>2 DEF RemoveUsers
<1>6. ASSUME \/ \E p \in Package : DeletePackage(h, p)
             \/ \E n \in Link, paths \in LinkPaths : UpdateLink(h, n, paths)
      PROVE  RequestsOK'
  BY <1>6 DEF DeletePackage, UpdateLink, RequestsOK
<1> QED BY <1>1, <1>2, <1>3, <1>4, <1>5, <1>6, RequestBegins

\* A request in hand whose counts go on.
LEMMA CountedOK ==
    ASSUME Types, NEW h \in Handler, NEW q \in Package, req[h].at = "countusers", Counted(h, q)
    PROVE  RequestsOK'
<1>1. req[h] \in [at : {"countusers"}, by : [Package -> Int]]
  BY DEF Types, RequestsOK, RequestOK
<1>2. RequestOK([req[h] EXCEPT !.by = [@ EXCEPT ![q] = 0]])
  BY <1>1 DEF RequestOK
<1> QED BY <1>2, GoesOK, IdleOK DEF Counted, Ends, Types

LEMMA ContinueRequests ==
    ASSUME Types, NEW h \in Handler, Continue(h)
    PROVE  RequestsOK'
<1> USE DEF Types
<1> DEFINE r == req[h]
<1>0. RequestOK(r)
  BY DEF RequestsOK
<1>1. CASE Ends(h)
  BY <1>1, GoesOK, IdleOK DEF Ends
<1>2. CASE InsertLink(h)
  <2>1. RequestOK([at |-> "countlink", package |-> r.doc.package, by |-> 1, service |-> r.doc.service, known |-> TRUE])
    <3>1. r.doc.package \in Package /\ r.doc.service \in Service
      BY <1>0, <1>2 DEF InsertLink, RequestOK, LinkDocument
    <3> QED BY <3>1 DEF RequestOK
  <2> QED BY <1>2, <2>1, GoesOK DEF InsertLink
<1>3. CASE DeleteOneLink(h)
  <2>1. RequestOK([at |-> "countlink", package |-> r.package, by |-> -1, service |-> r.service, known |-> r.known])
    <3>1. r.package \in Package /\ r.service \in Service /\ r.known \in BOOLEAN
      BY <1>0, <1>3 DEF DeleteOneLink, RequestOK
    <3> QED BY <3>1 DEF RequestOK
  <2> QED BY <1>3, <2>1, GoesOK DEF DeleteOneLink
<1>4. CASE CountLink(h) \/ CountLinkFails(h)
  <2>1. r.service \in Service
    BY <1>0, <1>4 DEF CountLink, CountLinkFails, RequestOK
  <2>2. RequestOK([at |-> "readids", service |-> r.service])
    BY <2>1 DEF RequestOK
  <2> QED BY <1>1, <1>4, <2>2, GoesOK DEF CountLink, CountLinkFails
<1>5. CASE ReadPackageIDs(h)
  <2>1. r.service \in Service
    BY <1>0, <1>5 DEF ReadPackageIDs, RequestOK
  <2>2. PackageIDs(r.service) \subseteq Package
    BY NoneAtStart DEF PackageIDs, ServiceLinks, LinksOK, LinkDocument
  <2>3. RequestOK([at |-> "writeentry", service |-> r.service, ids |-> PackageIDs(r.service)])
    BY <2>1, <2>2 DEF RequestOK
  <2> QED BY <1>5, <2>3, GoesOK DEF ReadPackageIDs
<1>6. CASE CountOld(h)
  <2> DEFINE left == [q \in Package |-> IF q = r.package THEN 0 ELSE Cardinality(Members(q) \cap r.users)]
  <2>1. r.package \in Package /\ r.users \in SUBSET User
    BY <1>0, <1>6 DEF CountOld, RequestOK
  <2>2. \A q \in Package : Cardinality(Members(q) \cap r.users) \in Nat
    BY <2>1, MembersFinite DEF Members
  <2>3. left \in [Package -> Nat]
    BY <2>2
  <2>4. Goes(h, [at |-> "setpackage", package |-> r.package, users |-> r.users, left |-> left])
    BY <1>6 DEF CountOld
  <2> HIDE DEF left
  <2>5. RequestOK([at |-> "setpackage", package |-> r.package, users |-> r.users, left |-> left])
    BY <2>1, <2>3 DEF RequestOK
  <2> QED BY <2>4, <2>5, GoesOK
<1>7. CASE SetPackage(h)
  <2> DEFINE p == r.package
             moved == {u \in r.users : member[u] # p}
             by == [q \in Package |-> IF q = p THEN Cardinality(moved) ELSE - r.left[q]]
  <2>1. r.users \in SUBSET User /\ r.left \in [Package -> Nat]
    BY <1>0, <1>7 DEF SetPackage, RequestOK
  <2>2. moved \in SUBSET User
    BY <2>1
  <2>3. by \in [Package -> Int]
    BY <2>1, <2>2, MembersFinite
  <2>4. Ends(h) \/ Goes(h, [at |-> "countusers", by |-> by])
    BY <1>7 DEF SetPackage
  <2> HIDE DEF by
  <2>5. RequestOK([at |-> "countusers", by |-> by])
    BY <2>3 DEF RequestOK
  <2> QED BY <1>1, <2>4, <2>5, GoesOK
<1>8. CASE \E q \in Package : CountUsers(h, q) \/ CountUsersFails(h, q)
  BY <1>8, CountedOK DEF CountUsers, CountUsersFails
<1>9. CASE WritePackage(h) \/ WriteEntry(h) \/ RequestDies(h)
  BY <1>1, <1>9 DEF WritePackage, WriteEntry, RequestDies
<1> QED BY <1>2, <1>3, <1>4, <1>5, <1>6, <1>7, <1>8, <1>9 DEF Continue

LEMMA NextRequests ==
    ASSUME Types, [Next]_vars
    PROVE  RequestsOK'
<1>1. CASE Others \/ UNCHANGED vars
  BY <1>1 DEF Others, EditUser, DeleteService, EditService, BootReads, BootWrites, SyncReads, SyncWrites,
     SyncEnds, vars, Types, RequestsOK
<1> QED BY <1>1, BeginRequests, ContinueRequests DEF Next

\* Who writes what.
LEMMA Writes ==
    ASSUME [Next]_vars
    PROVE  /\ UNCHANGED pkg \/ (\E h \in Handler : WritePackage(h)) \/ \E h \in Handler, p \in Package : DeletePackage(h, p)
           /\ \/ UNCHANGED link
              \/ \E h \in Handler : InsertLink(h) \/ DeleteOneLink(h)
              \/ \E h \in Handler, n \in Link, paths \in LinkPaths : UpdateLink(h, n, paths)
           /\ \/ UNCHANGED member
              \/ \E h \in Handler : SetPackage(h)
              \/ \E h \in Handler, p \in Package, U \in SUBSET User : RemoveUsers(h, p, U)
              \/ \E u \in User, p \in Package \cup {None} : EditUser(u, p)
           /\ \/ UNCHANGED counts
              \/ \E h \in Handler : CountLink(h) \/ \E q \in Package : CountUsers(h, q)
              \/ \E p \in Package : SyncWrites(p)
           /\ \/ UNCHANGED <<entry, service>>
              \/ \E h \in Handler : WriteEntry(h)
              \/ \E s \in Service : DeleteService(s) \/ EditService(s)
              \/ BootWrites
<1> USE DEF docs, counts, vars
<1>1. ASSUME NEW h \in Handler, Request(h)
      PROVE  /\ UNCHANGED <<counts, entry, service>>
             /\ UNCHANGED pkg \/ \E p \in Package : DeletePackage(h, p)
             /\ UNCHANGED link \/ \E n \in Link, paths \in LinkPaths : UpdateLink(h, n, paths)
             /\ UNCHANGED member \/ \E p \in Package, U \in SUBSET User : RemoveUsers(h, p, U)
  <2>1. ASSUME NEW p \in Package, NEW a \in Alias,
               CreatePackage(h, p, a) \/ UpdatePackage(h, p, a) \/ AliasLookupFails(h, p, a)
        PROVE  UNCHANGED <<pkg, link, member, counts, entry, service>>
    BY <2>1 DEF CreatePackage, UpdatePackage, AliasLookupFails
  <2>2. ASSUME NEW p \in Package, DeletePackage(h, p)
        PROVE  UNCHANGED <<link, member, counts, entry, service>>
    BY <2>2 DEF DeletePackage
  <2>3. ASSUME NEW p \in Package, NEW s \in Service, NEW paths \in LinkPaths,
               CreateLink(h, p, s, paths) \/ LinkLookupFails(h, p, s, paths) \/ DeleteLink(h, p, s)
        PROVE  UNCHANGED <<pkg, link, member, counts, entry, service>>
    BY <2>3 DEF CreateLink, LinkLookupFails, DeleteLink
  <2>4. ASSUME NEW n \in Link, NEW paths \in LinkPaths, UpdateLink(h, n, paths)
        PROVE  UNCHANGED <<pkg, member, counts, entry, service>>
    BY <2>4 DEF UpdateLink
  <2>5. ASSUME NEW p \in Package, NEW U \in SUBSET User, AssignUsers(h, p, U) \/ RemoveUsers(h, p, U)
        PROVE  /\ UNCHANGED <<pkg, link, counts, entry, service>>
               /\ UNCHANGED member \/ RemoveUsers(h, p, U)
    BY <2>5 DEF AssignUsers, RemoveUsers
  <2>6. ASSUME NEW p \in Package, NEW s \in Service, DeleteLink(h, p, s)
        PROVE  UNCHANGED <<pkg, link, member, counts, entry, service>>
    BY <2>6 DEF DeleteLink
  <2> HIDE DEF docs, counts, vars
  <2> QED BY <1>1, <2>1, <2>2, <2>3, <2>4, <2>5, <2>6, RequestBegins
<1>2. ASSUME NEW h \in Handler, Continue(h)
      PROVE  /\ UNCHANGED pkg \/ WritePackage(h)
             /\ UNCHANGED link \/ InsertLink(h) \/ DeleteOneLink(h)
             /\ UNCHANGED member \/ SetPackage(h)
             /\ UNCHANGED counts \/ CountLink(h) \/ \E q \in Package : CountUsers(h, q)
             /\ UNCHANGED <<entry, service>> \/ WriteEntry(h)
  BY <1>2 DEF Continue, WritePackage, InsertLink, DeleteOneLink, CountLink, CountLinkFails, ReadPackageIDs,
     WriteEntry, CountOld, SetPackage, CountUsers, CountUsersFails, RequestDies
<1>3. ASSUME Others
      PROVE  /\ UNCHANGED <<pkg, link>>
             /\ UNCHANGED member \/ \E u \in User, p \in Package \cup {None} : EditUser(u, p)
             /\ UNCHANGED counts \/ \E p \in Package : SyncWrites(p)
             /\ \/ UNCHANGED <<entry, service>>
                \/ \E s \in Service : DeleteService(s) \/ EditService(s)
                \/ BootWrites
  BY <1>3 DEF Others, EditUser, DeleteService, EditService, BootReads, BootWrites, SyncReads, SyncWrites, SyncEnds
<1>4. CASE UNCHANGED vars
  BY <1>4
<1>5. CASE \E h \in Handler : Request(h)
  BY <1>1, <1>5
<1>6. CASE \E h \in Handler : Continue(h)
  BY <1>2, <1>6
<1>7. CASE Others
  BY <1>3, <1>7
<1> QED BY <1>4, <1>5, <1>6, <1>7 DEF Next

LEMMA NextPackages ==
    ASSUME Types, [Next]_vars
    PROVE  PackagesOK'
<1> USE DEF Types, PackagesOK
<1>1. ASSUME NEW h \in Handler, WritePackage(h) PROVE PackagesOK'
  <2>1. req[h].doc \in Document /\ req[h].package \in Package
    BY <1>1 DEF WritePackage, RequestsOK, RequestOK
  <2> QED BY <1>1, <2>1 DEF WritePackage
<1>2. ASSUME NEW h \in Handler, NEW p \in Package, DeletePackage(h, p) PROVE PackagesOK'
  BY <1>2 DEF DeletePackage
<1> QED BY <1>1, <1>2, Writes

LEMMA NextLinks ==
    ASSUME Types, [Next]_vars
    PROVE  LinksOK'
<1> USE DEF Types, LinksOK
<1>1. ASSUME NEW h \in Handler, InsertLink(h) PROVE LinksOK'
  <2>1. req[h].doc \in LinkDocument /\ req[h].n \in Link
    BY <1>1 DEF InsertLink, RequestsOK, RequestOK
  <2> QED BY <1>1, <2>1 DEF InsertLink
<1>2. ASSUME NEW h \in Handler, DeleteOneLink(h) PROVE LinksOK'
  BY <1>2 DEF DeleteOneLink, LinksOf
<1>3. ASSUME NEW h \in Handler, NEW n \in Link, NEW paths \in LinkPaths, UpdateLink(h, n, paths) PROVE LinksOK'
  <2>1. link[n] \in LinkDocument /\ link' = [link EXCEPT ![n].paths = paths]
    BY <1>3 DEF UpdateLink
  <2>2. Accepted(paths)
    BY <1>3 DEF UpdateLink, ValidatePaths, MatchesServicePaths, Accepted
  <2>3. PICK d : d = [link[n] EXCEPT !.paths = paths]
    OBVIOUS
  <2>4. d \in LinkDocument
    BY <2>1, <2>2, <2>3 DEF LinkDocument
  <2>5. link' = [link EXCEPT ![n] = d]
    BY <2>1, <2>3
  <2> QED BY <2>4, <2>5
<1> QED BY <1>1, <1>2, <1>3, Writes

LEMMA NextMembers ==
    ASSUME Types, [Next]_vars
    PROVE  MembersOK'
<1> USE DEF Types, MembersOK
<1>1. ASSUME NEW h \in Handler, SetPackage(h) PROVE MembersOK'
  <2>1. req[h].package \in Package
    BY <1>1 DEF SetPackage, RequestsOK, RequestOK
  <2> QED BY <1>1, <2>1 DEF SetPackage
<1>2. ASSUME NEW h \in Handler, NEW p \in Package, NEW U \in SUBSET User, RemoveUsers(h, p, U) PROVE MembersOK'
  BY <1>2 DEF RemoveUsers
<1>3. ASSUME NEW u \in User, NEW p \in Package \cup {None}, EditUser(u, p) PROVE MembersOK'
  BY <1>3 DEF EditUser
<1> QED BY <1>1, <1>2, <1>3, Writes

LEMMA NextCounts ==
    ASSUME Types, [Next]_vars
    PROVE  CountsOK'
<1> USE DEF Types, CountsOK, counts
<1>1. ASSUME NEW h \in Handler, CountLink(h) PROVE CountsOK'
  <2>1. req[h].package \in Package /\ req[h].by \in Int
    BY <1>1 DEF CountLink, RequestsOK, RequestOK
  <2> QED BY <1>1, <2>1 DEF CountLink
<1>2. ASSUME NEW h \in Handler, NEW q \in Package, CountUsers(h, q) PROVE CountsOK'
  <2>1. req[h].by \in [Package -> Int]
    BY <1>2 DEF CountUsers, RequestsOK, RequestOK
  <2> QED BY <1>2, <2>1 DEF CountUsers
<1>3. ASSUME NEW p \in Package, SyncWrites(p) PROVE CountsOK'
  <2>1. sync.rows[p] \in Int
    BY <1>3 DEF SyncWrites, Counting, NoSync, SyncOK
  <2>2. \/ userCount' = [userCount EXCEPT ![p] = sync.rows[p]] /\ UNCHANGED serviceCount
        \/ serviceCount' = [serviceCount EXCEPT ![p] = sync.rows[p]] /\ UNCHANGED userCount
    BY <1>3 DEF SyncWrites
  <2> QED BY <2>1, <2>2
<1> QED BY <1>1, <1>2, <1>3, Writes

LEMMA NextEntry ==
    ASSUME Types, [Next]_vars
    PROVE  EntryOK'
<1> USE DEF Types, EntryOK
<1>1. ASSUME NEW h \in Handler, WriteEntry(h) PROVE EntryOK'
  <2>1. req[h].service \in Service /\ req[h].ids \in SUBSET Package
    BY <1>1 DEF WriteEntry, RequestsOK, RequestOK
  <2> QED BY <1>1, <2>1 DEF WriteEntry, docs
<1>2. ASSUME NEW s \in Service, DeleteService(s) PROVE EntryOK'
  BY <1>2 DEF DeleteService
<1>3. ASSUME NEW s \in Service, EditService(s) PROVE EntryOK'
  BY <1>3 DEF EditService, docs
<1>4. CASE BootWrites
  <2>1. sync.service \in Service /\ sync.ids \in SUBSET Package
    BY <1>4 DEF BootWrites, SyncOK, NoSync
  <2> QED BY <1>4, <2>1 DEF BootWrites, docs
<1> QED BY <1>1, <1>2, <1>3, <1>4, Writes

LEMMA NextSync ==
    ASSUME Types, [Next]_vars
    PROVE  SyncOK'
<1> USE DEF Types, SyncOK
<1>1. CASE UNCHANGED sync
  BY <1>1
<1>2. ASSUME NEW kind \in {"users", "services"}, SyncReads(kind) PROVE SyncOK'
  <2> DEFINE count(p) == IF kind = "users" THEN Cardinality(Members(p)) ELSE LinkCount(p)
             D == {q \in Package : count(q) > 0}
             rows == [p \in D |-> count(p)]
  <2>1. \A p \in Package : Members(p) \in SUBSET User /\ UNION {LinksOf(p, s) : s \in Service} \in SUBSET Link
    BY DEF Members, LinksOf
  <2>2. \A p \in Package : count(p) \in Int
    BY <2>1, MembersFinite, LinksFinite DEF LinkCount
  <2>3. sync' = [at |-> kind, rows |-> rows]
    BY <1>2 DEF SyncReads
  <2> HIDE DEF count
  <2>4. rows \in [D -> Int] /\ D \in SUBSET Package
    BY <2>2
  <2> HIDE DEF D, rows
  <2>5. rows \in UNION {[S -> Int] : S \in SUBSET Package}
    BY <2>4
  <2> QED BY <2>3, <2>5
<1>3. ASSUME NEW p \in Package, SyncWrites(p) PROVE SyncOK'
  <2>1. sync \in [at : {"users", "services"}, rows : UNION {[S -> Int] : S \in SUBSET Package}]
    BY <1>3 DEF SyncWrites, Counting, NoSync
  <2>2. PICK S \in SUBSET Package : sync.rows \in [S -> Int]
    BY <2>1
  <2> DEFINE D == DOMAIN sync.rows \ {p}
             rows == [q \in D |-> sync.rows[q]]
  <2>3. D \in SUBSET Package /\ rows \in [D -> Int]
    BY <2>2
  <2>4. sync' = [sync EXCEPT !.rows = rows]
    BY <1>3 DEF SyncWrites
  <2> HIDE DEF D, rows
  <2>5. rows \in UNION {[T -> Int] : T \in SUBSET Package}
    BY <2>3
  <2> QED BY <2>1, <2>4, <2>5
<1>4. CASE SyncEnds
  BY <1>4 DEF SyncEnds
<1>5. ASSUME NEW h \in Handler, Request(h) PROVE UNCHANGED sync
  BY <1>5, RequestBegins DEF CreatePackage, UpdatePackage, AliasLookupFails, DeletePackage, CreateLink,
     LinkLookupFails, UpdateLink, DeleteLink, AssignUsers, RemoveUsers
<1>6. ASSUME NEW h \in Handler, Continue(h) PROVE UNCHANGED sync
  BY <1>6 DEF Continue, WritePackage, InsertLink, DeleteOneLink, CountLink, CountLinkFails, ReadPackageIDs,
     WriteEntry, CountOld, SetPackage, CountUsers, CountUsersFails, RequestDies
<1>7. ASSUME Others PROVE SyncOK'
  <2>1. ASSUME NEW s \in Service, BootReads(s) PROVE SyncOK'
    <3>1. PackageIDs(s) \in SUBSET Package
      BY DEF PackageIDs, ServiceLinks, LinksOK, LinkDocument
    <3> QED BY <2>1, <3>1 DEF BootReads
  <2>2. CASE BootWrites
    BY <2>2 DEF BootWrites
  <2> QED BY <1>1, <1>2, <1>3, <1>4, <1>7, <2>1, <2>2 DEF Others, EditUser, DeleteService, EditService
<1>8. CASE UNCHANGED vars
  BY <1>1, <1>8 DEF vars
<1> QED BY <1>1, <1>5, <1>6, <1>7, <1>8 DEF Next

\* The counters of the model, and the look-ups that fail.
LEMMA NextBounds ==
    ASSUME Types, [Next]_vars
    PROVE  /\ CountersOK'
           /\ \/ blind'.alias = blind.alias
              \/ blind'.alias = blind.alias + 1 /\ \E h \in Handler, p \in Package, a \in Alias : AliasLookupFails(h, p, a)
           /\ \/ blind'.link = blind.link
              \/ /\ blind'.link = blind.link + 1
                 /\ \E h \in Handler, p \in Package, s \in Service, paths \in LinkPaths : LinkLookupFails(h, p, s, paths)
<1> USE DEF CountersOK, bounds, vars, Fails, Other
<1>0. /\ started \in 0 .. MaxRequests /\ faults \in 0 .. MaxFaults /\ serial \in BOOLEAN
      /\ blind \in [alias : Nat, link : Nat] /\ MaxRequests \in Nat /\ MaxFaults \in Nat
  BY PackagesAssumption DEF Types
<1>1. ASSUME NEW h \in Handler, NEW p \in Package, NEW a \in Alias, AliasLookupFails(h, p, a)
      PROVE  CountersOK' /\ blind'.alias = blind.alias + 1 /\ blind'.link = blind.link
  <2>1. started' = started + 1 /\ started < MaxRequests
    BY <1>1 DEF AliasLookupFails
  <2>2. faults' = faults + 1 /\ faults < MaxFaults /\ serial' = FALSE /\ blind' = [blind EXCEPT !.alias = @ + 1]
    BY <1>1 DEF AliasLookupFails
  <2>3. started' \in 0 .. MaxRequests /\ faults' \in 0 .. MaxFaults
    BY <1>0, <2>1, <2>2
  <2>4. blind' \in [alias : Nat, link : Nat] /\ blind'.alias = blind.alias + 1 /\ blind'.link = blind.link
    BY <1>0, <2>2
  <2> QED BY <2>2, <2>3, <2>4
<1>2. ASSUME NEW h \in Handler, NEW p \in Package, NEW s \in Service, NEW paths \in LinkPaths,
             LinkLookupFails(h, p, s, paths)
      PROVE  CountersOK' /\ blind'.link = blind.link + 1 /\ blind'.alias = blind.alias
  <2>1. started' = started + 1 /\ started < MaxRequests
    BY <1>2 DEF LinkLookupFails
  <2>2. faults' = faults + 1 /\ faults < MaxFaults /\ serial' = FALSE /\ blind' = [blind EXCEPT !.link = @ + 1]
    BY <1>2 DEF LinkLookupFails
  <2>3. started' \in 0 .. MaxRequests /\ faults' \in 0 .. MaxFaults
    BY <1>0, <2>1, <2>2
  <2>4. blind' \in [alias : Nat, link : Nat] /\ blind'.link = blind.link + 1 /\ blind'.alias = blind.alias
    BY <1>0, <2>2
  <2> QED BY <2>2, <2>3, <2>4
<1>3. ASSUME NEW h \in Handler, Request(h),
             ~\E p \in Package, a \in Alias : AliasLookupFails(h, p, a),
             ~\E p \in Package, s \in Service, paths \in LinkPaths : LinkLookupFails(h, p, s, paths)
      PROVE  Begins(h) /\ UNCHANGED <<faults, blind>>
  BY <1>3, RequestBegins DEF CreatePackage, UpdatePackage, DeletePackage, CreateLink, UpdateLink, DeleteLink,
     AssignUsers, RemoveUsers
<1>4. ASSUME NEW h \in Handler, Begins(h), UNCHANGED <<faults, blind>> PROVE CountersOK' /\ UNCHANGED blind
  <2>1. serial' \in BOOLEAN
    BY <1>4 DEF Begins
  <2> QED BY <1>0, <1>4, <2>1 DEF Begins
<1>5. ASSUME NEW h \in Handler, Continue(h) PROVE UNCHANGED <<started, blind>> /\ (UNCHANGED <<faults, serial>> \/ Fails)
  BY <1>5 DEF Continue, WritePackage, InsertLink, DeleteOneLink, CountLink, CountLinkFails, ReadPackageIDs,
     WriteEntry, CountOld, SetPackage, CountUsers, CountUsersFails, RequestDies
<1>6. ASSUME Others
      PROVE  /\ UNCHANGED <<started, blind>> /\ (UNCHANGED faults \/ Other)
             /\ UNCHANGED serial \/ serial' = FALSE \/ serial' = Undisturbed
  BY <1>6 DEF Others, EditUser, DeleteService, EditService, BootReads, BootWrites, SyncWrites, SyncEnds, SyncReads
<1>7. ASSUME serial' = Undisturbed PROVE serial' \in BOOLEAN
  BY <1>7 DEF Undisturbed
<1>8. CASE Others
  <2>1. serial' \in BOOLEAN
    BY <1>0, <1>6, <1>7, <1>8
  <2>2. faults' \in 0 .. MaxFaults
    BY <1>0, <1>6, <1>8
  <2>3. UNCHANGED <<started, blind>>
    BY <1>6, <1>8
  <2> QED BY <1>0, <2>1, <2>2, <2>3
<1>9. CASE UNCHANGED vars
  BY <1>0, <1>9
<1>10. ASSUME NEW h \in Handler, Continue(h) PROVE CountersOK' /\ UNCHANGED blind
  <2>1. faults' \in 0 .. MaxFaults /\ serial' \in BOOLEAN
    <3>1. CASE UNCHANGED <<faults, serial>>
      BY <1>0, <3>1
    <3>2. CASE Fails
      <4>1. faults' = faults + 1 /\ faults < MaxFaults /\ serial' = FALSE
        BY <3>2
      <4>2. faults' \in 0 .. MaxFaults
        BY <1>0, <4>1
      <4> QED BY <4>1, <4>2
    <3> QED BY <1>5, <1>10, <3>1, <3>2
  <2>2. UNCHANGED <<started, blind>>
    BY <1>5, <1>10
  <2> QED BY <1>0, <2>1, <2>2
<1>11. CASE \E h \in Handler : Request(h)
  BY <1>1, <1>2, <1>3, <1>4, <1>11
<1> QED BY <1>8, <1>9, <1>10, <1>11 DEF Next

LEMMA InitTypes == Init => Types
<1> SUFFICES ASSUME Init PROVE Types
  OBVIOUS
<1>1. PackagesOK /\ LinksOK
  <2>1. pkg = Initial /\ link = [n \in Link |-> NoLink]
    BY DEF Init
  <2>2. Initial \in [Package -> Document \cup {NoPackage, Deleted}]
    BY PackagesAssumption
  <2> QED BY <2>1, <2>2 DEF PackagesOK, LinksOK
<1>2. MembersOK
  BY DEF Init, MembersOK, Live
<1>3. CountsOK
  <2>1. \A p \in Package : Cardinality(Members(p)) \in Int
    BY MembersFinite DEF Members
  <2>2. /\ userCount = [p \in Package |-> Cardinality(Members(p))]
        /\ serviceCount = [p \in Package |-> 0]
    BY DEF Init
  <2> QED BY <2>1, <2>2 DEF CountsOK
<1>4. EntryOK /\ SyncOK
  BY DEF Init, EntryOK, SyncOK
<1>5. CountersOK
  BY PackagesAssumption DEF Init, CountersOK
<1>6. RequestsOK
  BY IdleOK DEF Init, RequestsOK
<1> QED BY <1>1, <1>2, <1>3, <1>4, <1>5, <1>6 DEF Types

LEMMA NextTypes == Types /\ [Next]_vars => Types'
BY NextRequests, NextPackages, NextLinks, NextMembers, NextCounts, NextEntry, NextSync, NextBounds DEF Types

LEMMA TypesInvariant == Spec => []Types
BY InitTypes, NextTypes, PTL DEF Spec

\* Documents, links, members, counters and entries keep their types, and a link has no path that its
\* service's resources do not answer to (ValidatePaths), for any packages, services, users and requests.
THEOREM TypesHold == Spec => []TypeOK
<1>1. ASSUME Types PROVE TypeOK
  <2>1. \A n \in Link : link[n] = NoLink
           \/ /\ link[n] \in [package : Package, service : Service, paths : LinkPaths]
              /\ \A i \in DOMAIN link[n].paths : \E r \in Resource :
                     PathCovers(link[n].paths[i].path, r.path)
    BY <1>1 DEF Types, LinksOK, LinkDocument, Accepted
  <2>2. \A h \in Handler : req[h].at \in {"idle", "writepackage", "insertlink", "countlink",
           "deletelink", "readids", "writeentry", "countold", "setpackage", "countusers"}
    BY <1>1 DEF Types, RequestsOK, RequestOK
  <2>3. /\ pkg \in [Package -> Document \cup {NoPackage, Deleted}]
        /\ member \in [User -> Package \cup {None}]
        /\ userCount \in [Package -> Int] /\ serviceCount \in [Package -> Int]
        /\ entry \in [Service -> (SUBSET Package) \cup {Bare}] /\ service \subseteq Service
    BY <1>1 DEF Types, PackagesOK, MembersOK, CountsOK, EntryOK
  <2>4. started \in 0 .. MaxRequests /\ faults \in 0 .. MaxFaults /\ serial \in BOOLEAN
    BY <1>1 DEF Types, CountersOK
  <2> QED BY <2>1, <2>2, <2>3, <2>4 DEF TypeOK
<1> QED BY <1>1, TypesInvariant, PTL

-----------------------------------------------------------------------------
(* Aliases and links: the uniqueness checks that the module implements.  A *)
(* name is claimed from the look-up to the write.                          *)

\* One request's claims change at a time.
LEMMA ClaimsChange ==
    ASSUME RequestsOK, NEW h \in Handler, NEW q, Goes(h, q)
    PROVE  /\ AliasClaims' = [AliasClaims EXCEPT ![h] = AliasClaim(q)] /\ AliasClaims[h] = AliasClaim(req[h])
           /\ LinkClaims' = [LinkClaims EXCEPT ![h] = LinkClaim(q)] /\ LinkClaims[h] = LinkClaim(req[h])
<1>1. req' = [req EXCEPT ![h] = q] /\ DOMAIN req = Handler
  BY DEF Goes, RequestsOK
<1>2. \A g \in Handler : req'[g] = IF g = h THEN q ELSE req[g]
  BY <1>1
<1>3. AliasClaims' = [g \in Handler |-> IF g = h THEN AliasClaim(q) ELSE AliasClaim(req[g])]
  BY <1>2 DEF AliasClaims, AliasClaim
<1>4. LinkClaims' = [g \in Handler |-> IF g = h THEN LinkClaim(q) ELSE LinkClaim(req[g])]
  BY <1>2 DEF LinkClaims, LinkClaim
<1> QED BY <1>3, <1>4 DEF AliasClaims, LinkClaims

LEMMA ContinueGoes ==
    ASSUME RequestsOK, NEW h \in Handler, Continue(h)
    PROVE  \E q : Goes(h, q) /\ q.at \notin {"writepackage", "insertlink"}
<1>1. CASE Ends(h)
  BY <1>1 DEF Ends, Idle
<1>2. CASE \E q \in Package : CountUsers(h, q) \/ CountUsersFails(h, q)
  <2>1. PICK q \in Package : req[h].at = "countusers" /\ Counted(h, q)
    BY <1>2 DEF CountUsers, CountUsersFails
  <2>2. [req[h] EXCEPT !.by = [@ EXCEPT ![q] = 0]].at = "countusers"
    BY <2>1 DEF RequestsOK, RequestOK
  <2> QED BY <1>1, <2>1, <2>2 DEF Counted
<1>3. CASE InsertLink(h)
  BY <1>3 DEF InsertLink
<1>4. CASE DeleteOneLink(h)
  BY <1>4 DEF DeleteOneLink
<1>5. CASE CountLink(h) \/ CountLinkFails(h)
  <2>1. Ends(h) \/ Goes(h, [at |-> "readids", service |-> req[h].service])
    BY <1>5 DEF CountLink, CountLinkFails
  <2> QED BY <1>1, <2>1
<1>6. CASE ReadPackageIDs(h)
  BY <1>6 DEF ReadPackageIDs
<1>7. CASE CountOld(h)
  BY <1>7 DEF CountOld
<1>8. CASE SetPackage(h)
  <2>1. Ends(h) \/ \E by : Goes(h, [at |-> "countusers", by |-> by])
    BY <1>8 DEF SetPackage
  <2>2. ASSUME NEW by, Goes(h, [at |-> "countusers", by |-> by])
        PROVE  \E q : Goes(h, q) /\ q.at \notin {"writepackage", "insertlink"}
    BY <2>2
  <2> QED BY <1>1, <2>1, <2>2
<1>9. CASE WritePackage(h) \/ WriteEntry(h) \/ RequestDies(h)
  BY <1>1, <1>9 DEF WritePackage, WriteEntry, RequestDies
<1> QED BY <1>2, <1>3, <1>4, <1>5, <1>6, <1>7, <1>8, <1>9 DEF Continue

\* A request that goes on without a look-up keeps no claim.
LEMMA KeepsNone ==
    ASSUME RequestsOK, NEW h \in Handler, NEW q, Goes(h, q)
    PROVE  /\ q.at # "writepackage" => AliasCheck!KeepsSome(h)
           /\ q.at # "insertlink" => LinkCheck!KeepsSome(h)
<1>1. q.at # "writepackage" => AliasClaim(q) \in SUBSET AliasClaims[h]
  BY DEF AliasClaim
<1>2. q.at # "insertlink" => LinkClaim(q) \in SUBSET LinkClaims[h]
  BY DEF LinkClaim
<1> QED BY <1>1, <1>2, ClaimsChange DEF AliasCheck!KeepsSome, LinkCheck!KeepsSome

LEMMA OthersStay ==
    ASSUME Others \/ UNCHANGED vars
    PROVE  UNCHANGED <<pkg, link, req, blind>>
BY DEF Others, EditUser, DeleteService, EditService, BootReads, BootWrites, SyncReads, SyncWrites, SyncEnds,
   docs, counts, bounds, vars

LEMMA AliasRequest ==
    ASSUME Types, NEW h \in Handler, Request(h)
    PROVE  AliasCheck!Next \/ UNCHANGED <<AliasOf, AliasClaims, blind.alias>>
<1> USE DEF Types, bounds, docs
<1>0. req[h] = Idle /\ AliasClaims[h] = {}
  <2>1. req[h] = Idle
    BY RequestBegins DEF CreatePackage, UpdatePackage, AliasLookupFails, DeletePackage, CreateLink,
       LinkLookupFails, UpdateLink, DeleteLink, AssignUsers, RemoveUsers, Begins
  <2> QED BY <2>1 DEF AliasClaims, AliasClaim, Idle
<1>1. ASSUME NEW p \in Package, NEW a \in Alias, NEW new, Goes(h, Writing(p, a, new)), UNCHANGED pkg
      PROVE  /\ AliasCheck!ClaimsToo(h, p, {a}) /\ UNCHANGED AliasOf
             /\ \A d \in Package : AliasOf[d] = pkg[d].alias
  <2> DEFINE q == Writing(p, a, new)
  <2>1. AliasClaim(q) = {<<p, a>>}
    BY DEF AliasClaim, Writing
  <2>2. AliasClaims' = [AliasClaims EXCEPT ![h] = AliasClaim(q)]
    BY <1>1, ClaimsChange
  <2>3. {p} \X {a} = {<<p, a>>}
    OBVIOUS
  <2>4. AliasClaims' = [AliasClaims EXCEPT ![h] = @ \cup ({p} \X {a})]
    BY <1>0, <2>1, <2>2, <2>3
  <2>5. \A k \in {a} : AliasCheck!Claims(h, k) = {}
    BY <1>0 DEF AliasCheck!Claims
  <2> QED BY <1>1, <2>4, <2>5 DEF AliasCheck!ClaimsToo, AliasOf
<1>2. ASSUME NEW p \in Package, NEW a \in Alias, CreatePackage(h, p, a) \/ UpdatePackage(h, p, a)
      PROVE  AliasCheck!Next
  <2>1. PICK new : Goes(h, Writing(p, a, new))
    BY <1>2 DEF CreatePackage, UpdatePackage
  <2>2. UNCHANGED <<pkg, blind>> /\ (pkg[p].alias = a \/ ~Taken(a))
    BY <1>2 DEF CreatePackage, UpdatePackage
  <2>3. AliasCheck!ClaimsToo(h, p, {a}) /\ UNCHANGED AliasOf /\ \A d \in Package : AliasOf[d] = pkg[d].alias
    BY <1>1, <2>1, <2>2
  <2>4. ~Taken(a) => AliasCheck!Named(a) = {}
    BY <2>3, PackagesAssumption DEF Taken, Live, AliasCheck!Named
  <2>5. AliasCheck!Look(h, p, {a})
    BY <2>2, <2>3, <2>4 DEF AliasCheck!Look
  <2> QED BY <2>5 DEF AliasCheck!Next
<1>3. ASSUME NEW p \in Package, NEW a \in Alias, AliasLookupFails(h, p, a) PROVE AliasCheck!Next
  <2>1. PICK new : Goes(h, Writing(p, a, new))
    BY <1>3 DEF AliasLookupFails
  <2>2. UNCHANGED pkg /\ blind' = [blind EXCEPT !.alias = @ + 1] /\ blind \in [alias : Nat, link : Nat]
    BY <1>3 DEF AliasLookupFails, CountersOK
  <2>3. AliasCheck!ClaimsToo(h, p, {a}) /\ UNCHANGED AliasOf
    BY <1>1, <2>1, <2>2
  <2>4. blind.alias' = blind.alias + 1
    BY <2>2
  <2>5. AliasCheck!LookFails(h, p, {a})
    BY <2>3, <2>4 DEF AliasCheck!LookFails
  <2> QED BY <2>5 DEF AliasCheck!Next
<1>4. ASSUME NEW p \in Package, DeletePackage(h, p) PROVE AliasCheck!Next
  <2>1. pkg' = [pkg EXCEPT ![p] = Deleted] /\ UNCHANGED <<req, blind>>
    BY <1>4 DEF DeletePackage
  <2>2. AliasOf' = [d \in Package |-> IF d \in {p} THEN None ELSE AliasOf[d]]
    BY <2>1, NoneAtStart DEF AliasOf, PackagesOK
  <2>3. UNCHANGED AliasClaims
    BY <2>1 DEF AliasClaims, AliasClaim
  <2>4. AliasCheck!Free({p})
    BY <2>1, <2>2, <2>3 DEF AliasCheck!Free
  <2> QED BY <2>4 DEF AliasCheck!Next
<1>5. ASSUME NEW q, Goes(h, q), q.at # "writepackage", UNCHANGED <<pkg, blind.alias>> PROVE AliasCheck!Next
  <2>1. AliasCheck!GiveUp(h)
    BY <1>5, KeepsNone DEF AliasCheck!GiveUp, AliasOf
  <2> QED BY <2>1 DEF AliasCheck!Next
<1>6. ASSUME NEW p \in Package, NEW s \in Service, NEW paths \in LinkPaths,
             CreateLink(h, p, s, paths) \/ LinkLookupFails(h, p, s, paths)
      PROVE  AliasCheck!Next
  <2>1. UNCHANGED pkg /\ Goes(h, [at |-> "insertlink", n |-> started',
                                  doc |-> [package |-> p, service |-> s, paths |-> paths]])
    BY <1>6 DEF CreateLink, LinkLookupFails
  <2>2. UNCHANGED blind \/ blind' = [blind EXCEPT !.link = @ + 1]
    BY <1>6 DEF CreateLink, LinkLookupFails
  <2>3. blind.alias' = blind.alias
    BY <2>2 DEF CountersOK
  <2> QED BY <1>5, <2>1, <2>3
<1>7. ASSUME UNCHANGED <<pkg, blind, req>> PROVE UNCHANGED <<AliasOf, AliasClaims, blind.alias>>
  BY <1>7 DEF AliasOf, AliasClaims, AliasClaim
<1>8. ASSUME NEW n \in Link, NEW paths \in LinkPaths, UpdateLink(h, n, paths) PROVE UNCHANGED <<pkg, blind, req>>
  BY <1>8 DEF UpdateLink
<1>9. ASSUME NEW p \in Package, NEW s \in Service, DeleteLink(h, p, s) PROVE AliasCheck!Next
  BY <1>5, <1>9 DEF DeleteLink
<1>10. ASSUME NEW p \in Package, NEW U \in SUBSET User, AssignUsers(h, p, U) PROVE AliasCheck!Next
  BY <1>5, <1>10 DEF AssignUsers
<1>11. ASSUME NEW p \in Package, NEW U \in SUBSET User, RemoveUsers(h, p, U)
       PROVE  AliasCheck!Next \/ UNCHANGED <<pkg, blind, req>>
  <2>1. UNCHANGED <<pkg, blind>> /\ (UNCHANGED req \/ \E by : Goes(h, [at |-> "countusers", by |-> by]))
    BY <1>11 DEF RemoveUsers
  <2> QED BY <1>5, <2>1
<1> QED BY <1>2, <1>3, <1>4, <1>6, <1>7, <1>8, <1>9, <1>10, <1>11, RequestBegins

LEMMA ContinueKeepsBlind ==
    ASSUME NEW h \in Handler, Continue(h)
    PROVE  UNCHANGED blind /\ (UNCHANGED pkg \/ WritePackage(h)) /\ (UNCHANGED link \/ InsertLink(h) \/ DeleteOneLink(h))
BY DEF Continue, WritePackage, InsertLink, DeleteOneLink, CountLink, CountLinkFails, ReadPackageIDs, Fails, docs,
   WriteEntry, CountOld, SetPackage, CountUsers, CountUsersFails, RequestDies, bounds

LEMMA AliasContinue ==
    ASSUME Types, NEW h \in Handler, Continue(h)
    PROVE  AliasCheck!Next
<1> USE DEF Types
<1>1. AliasCheck!KeepsSome(h)
  BY ContinueGoes, KeepsNone
<1>2. UNCHANGED blind.alias
  BY ContinueKeepsBlind
<1>3. CASE UNCHANGED pkg
  <2>1. AliasCheck!GiveUp(h)
    BY <1>1, <1>2, <1>3 DEF AliasCheck!GiveUp, AliasOf
  <2> QED BY <2>1 DEF AliasCheck!Next
<1>4. CASE WritePackage(h) /\ ~UNCHANGED pkg
  <2> DEFINE r == req[h]
  <2>1. r.package \in Package /\ r.at = "writepackage" /\ pkg' = [pkg EXCEPT ![r.package] = r.doc]
    BY <1>4 DEF WritePackage, RequestsOK, RequestOK
  <2> DEFINE c == <<r.package, r.doc.alias>>
  <2>2. c \in AliasClaims[h]
    BY <2>1 DEF AliasClaims, AliasClaim
  <2>3. AliasOf' = [AliasOf EXCEPT ![c[1]] = c[2]]
    BY <2>1 DEF AliasOf, PackagesOK
  <2>4. AliasCheck!Write(h, c)
    BY <1>1, <1>2, <2>3 DEF AliasCheck!Write
  <2> QED BY <2>2, <2>4 DEF AliasCheck!Next
<1> QED BY <1>3, <1>4, ContinueKeepsBlind

LEMMA AliasImplements ==
    ASSUME Types, [Next]_vars
    PROVE  AliasCheck!Next \/ UNCHANGED <<AliasOf, AliasClaims, blind.alias>>
<1>1. ASSUME UNCHANGED <<pkg, link, req, blind>> PROVE UNCHANGED <<AliasOf, AliasClaims, blind.alias>>
  BY <1>1 DEF AliasOf, AliasClaims, AliasClaim
<1>2. CASE Others \/ UNCHANGED vars
  BY <1>1, <1>2, OthersStay
<1> QED BY <1>2, AliasRequest, AliasContinue DEF Next

LEMMA AliasInit == Init => AliasCheck!Init
<1> SUFFICES ASSUME Init PROVE AliasCheck!Init
  OBVIOUS
<1>1. AliasOf = [p \in Package |-> Initial[p].alias]
  BY DEF Init, AliasOf
<1>2. \A p \in Package : Initial[p].alias \in Alias \cup {None}
  BY PackagesAssumption, NoneAtStart
<1>3. AliasClaims = [h \in Handler |-> {}] /\ blind.alias = 0
  BY DEF Init, AliasClaims, AliasClaim, Idle
<1>4. AliasOf \in [Package -> Alias \cup {None}]
  BY <1>1, <1>2
<1>5. \A d, e \in Package : AliasOf[d] = AliasOf[e] /\ AliasOf[d] # None => d = e
  BY <1>1, PackagesAssumption
<1> QED BY <1>3, <1>4, <1>5 DEF AliasCheck!Init

\* What an update of a link leaves alone.
LEMMA UpdatedLink ==
    ASSUME Types, NEW h \in Handler, NEW n \in Link, NEW paths \in LinkPaths, UpdateLink(h, n, paths)
    PROVE  /\ \A m \in Link : link'[m] = NoLink <=> link[m] = NoLink
           /\ \A m \in Link : link[m] # NoLink =>
                  link'[m].package = link[m].package /\ link'[m].service = link[m].service
<1>1. link' = [link EXCEPT ![n].paths = paths] /\ link[n] \in LinkDocument
  BY DEF UpdateLink, Types, LinksOK
<1>2. /\ link'[n].package = link[n].package /\ link'[n].service = link[n].service
      /\ \A m \in Link \ {n} : link'[m] = link[m]
      /\ link'[n] \in [package : Package, service : Service, paths : LinkPaths]
  BY <1>1 DEF Types, LinksOK, LinkDocument
<1>3. link'[n] # NoLink /\ link[n] # NoLink
  <2>1. DOMAIN link'[n] = {"package", "service", "paths"}
    BY <1>2
  <2>2. DOMAIN NoLink = {}
    BY DEF NoLink
  <2> QED BY <1>1, <2>1, <2>2, NoneAtStart
<1> QED BY <1>2, <1>3

LEMMA LinkRequest ==
    ASSUME Types, NEW h \in Handler, Request(h)
    PROVE  LinkCheck!Next \/ UNCHANGED <<PairOf, LinkClaims, blind.link>>
<1> USE DEF Types, bounds, docs
<1>0. req[h] = Idle /\ LinkClaims[h] = {}
  <2>1. req[h] = Idle
    BY RequestBegins DEF CreatePackage, UpdatePackage, AliasLookupFails, DeletePackage, CreateLink,
       LinkLookupFails, UpdateLink, DeleteLink, AssignUsers, RemoveUsers, Begins
  <2> QED BY <2>1 DEF LinkClaims, LinkClaim, Idle
<1>1. ASSUME NEW p \in Package, NEW s \in Service, NEW paths \in LinkPaths,
             CreateLink(h, p, s, paths) \/ LinkLookupFails(h, p, s, paths)
      PROVE  LinkCheck!Next
  <2> DEFINE k == <<p, s>>
             n == started'
             q == [at |-> "insertlink", n |-> n, doc |-> [package |-> p, service |-> s, paths |-> paths]]
  <2>1. UNCHANGED link /\ Goes(h, q)
    BY <1>1 DEF CreateLink, LinkLookupFails
  <2>2. n \in Link
    <3>1. started < MaxRequests /\ started' = started + 1
      BY <1>1 DEF CreateLink, LinkLookupFails, Begins
    <3> QED BY <3>1, PackagesAssumption DEF CountersOK, Link
  <2>3. LinkClaim(q) = {<<n, k>>}
    BY DEF LinkClaim
  <2>4. LinkClaims' = [LinkClaims EXCEPT ![h] = @ \cup ({n} \X {k})]
    <3>1. LinkClaims' = [LinkClaims EXCEPT ![h] = LinkClaim(q)]
      BY <2>1, ClaimsChange
    <3>2. {n} \X {k} = {<<n, k>>}
      OBVIOUS
    <3> QED BY <1>0, <2>3, <3>1, <3>2
  <2>5. LinkCheck!ClaimsToo(h, n, {k}) /\ UNCHANGED PairOf
    <3>1. \A x \in {k} : LinkCheck!Claims(h, x) = {}
      BY <1>0 DEF LinkCheck!Claims
    <3> QED BY <2>1, <2>4, <3>1 DEF LinkCheck!ClaimsToo, PairOf
  <2>6. {k} \in SUBSET (Package \X Service)
    OBVIOUS
  <2>7. CASE CreateLink(h, p, s, paths)
    <3>1. UNCHANGED blind /\ LinksOf(p, s) = {}
      BY <2>7 DEF CreateLink
    <3>2. \A m \in Link : link[m] # NoLink => PairOf[m] = <<link[m].package, link[m].service>>
      BY DEF PairOf
    <3>3. \A m \in Link : link[m] = NoLink => PairOf[m] = NoLink
      BY DEF PairOf
    <3>4. k # NoLink
      BY DEF NoLink
    <3>5. LinkCheck!Named(k) = {}
      <4>1. ASSUME NEW m \in Link, PairOf[m] = k PROVE FALSE
        <5>1. link[m] # NoLink /\ <<link[m].package, link[m].service>> = k
          BY <3>2, <3>3, <3>4, <4>1
        <5>2. link[m].package = p /\ link[m].service = s
          BY <5>1
        <5> QED BY <3>1, <5>1, <5>2 DEF LinksOf
      <4> HIDE DEF k
      <4> QED BY <4>1 DEF LinkCheck!Named
    <3>6. LinkCheck!Look(h, n, {k})
      BY <2>5, <3>1, <3>5 DEF LinkCheck!Look
    <3> QED BY <2>2, <2>6, <3>6 DEF LinkCheck!Next
  <2>8. CASE LinkLookupFails(h, p, s, paths)
    <3>1. blind' = [blind EXCEPT !.link = @ + 1] /\ blind \in [alias : Nat, link : Nat]
      BY <2>8 DEF LinkLookupFails, CountersOK
    <3>2. blind.link' = blind.link + 1
      BY <3>1
    <3>3. LinkCheck!LookFails(h, n, {k})
      BY <2>5, <3>2 DEF LinkCheck!LookFails
    <3> QED BY <2>2, <2>6, <3>3 DEF LinkCheck!Next
  <2> QED BY <1>1, <2>7, <2>8
<1>2. ASSUME NEW q, Goes(h, q), q.at # "insertlink", UNCHANGED <<link, blind.link>> PROVE LinkCheck!Next
  <2>1. LinkCheck!GiveUp(h)
    BY <1>2, KeepsNone DEF LinkCheck!GiveUp, PairOf
  <2> QED BY <2>1 DEF LinkCheck!Next
<1>3. ASSUME NEW p \in Package, NEW a \in Alias,
             CreatePackage(h, p, a) \/ UpdatePackage(h, p, a) \/ AliasLookupFails(h, p, a)
      PROVE  LinkCheck!Next
  <2>1. PICK new : UNCHANGED link /\ Goes(h, Writing(p, a, new))
    BY <1>3 DEF CreatePackage, UpdatePackage, AliasLookupFails
  <2>2. Writing(p, a, new).at = "writepackage"
    BY DEF Writing
  <2>3. UNCHANGED blind \/ blind' = [blind EXCEPT !.alias = @ + 1]
    BY <1>3 DEF CreatePackage, UpdatePackage, AliasLookupFails
  <2>4. blind.link' = blind.link
    BY <2>3 DEF CountersOK
  <2> QED BY <1>2, <2>1, <2>2, <2>4
<1>4. ASSUME UNCHANGED <<PairOf, req, blind>> PROVE UNCHANGED <<PairOf, LinkClaims, blind.link>>
  BY <1>4 DEF LinkClaims, LinkClaim
<1>5. ASSUME NEW p \in Package, DeletePackage(h, p) PROVE UNCHANGED <<PairOf, req, blind>>
  BY <1>5 DEF DeletePackage, PairOf
<1>6. ASSUME NEW n \in Link, NEW paths \in LinkPaths, UpdateLink(h, n, paths) PROVE UNCHANGED <<PairOf, req, blind>>
  <2>1. UNCHANGED PairOf
    BY <1>6, UpdatedLink DEF PairOf
  <2> QED BY <1>6, <2>1 DEF UpdateLink
<1>7. ASSUME NEW p \in Package, NEW s \in Service, DeleteLink(h, p, s) PROVE LinkCheck!Next
  BY <1>2, <1>7 DEF DeleteLink
<1>8. ASSUME NEW p \in Package, NEW U \in SUBSET User, AssignUsers(h, p, U) PROVE LinkCheck!Next
  BY <1>2, <1>8 DEF AssignUsers
<1>9. ASSUME NEW p \in Package, NEW U \in SUBSET User, RemoveUsers(h, p, U)
      PROVE  LinkCheck!Next \/ UNCHANGED <<PairOf, req, blind>>
  <2>1. UNCHANGED <<link, blind>> /\ (UNCHANGED req \/ \E by : Goes(h, [at |-> "countusers", by |-> by]))
    BY <1>9 DEF RemoveUsers
  <2>2. UNCHANGED PairOf
    BY <2>1 DEF PairOf
  <2>3. ASSUME NEW by, Goes(h, [at |-> "countusers", by |-> by]) PROVE LinkCheck!Next
    BY <1>2, <2>1, <2>3
  <2> QED BY <2>1, <2>2, <2>3
<1> QED BY <1>1, <1>3, <1>4, <1>5, <1>6, <1>7, <1>8, <1>9, RequestBegins

LEMMA LinkContinue ==
    ASSUME Types, NEW h \in Handler, Continue(h)
    PROVE  LinkCheck!Next
<1> USE DEF Types
<1>1. LinkCheck!KeepsSome(h)
  BY ContinueGoes, KeepsNone
<1>2. UNCHANGED blind.link
  BY ContinueKeepsBlind
<1>3. CASE UNCHANGED link
  <2>1. LinkCheck!GiveUp(h)
    BY <1>1, <1>2, <1>3 DEF LinkCheck!GiveUp, PairOf
  <2> QED BY <2>1 DEF LinkCheck!Next
<1>4. CASE InsertLink(h)
  <2> DEFINE r == req[h]
  <2>1. r.n \in Link /\ r.at = "insertlink" /\ link' = [link EXCEPT ![r.n] = r.doc] /\ r.doc \in LinkDocument
    BY <1>4 DEF InsertLink, RequestsOK, RequestOK
  <2> DEFINE c == <<r.n, <<r.doc.package, r.doc.service>>>>
  <2>2. c \in LinkClaims[h]
    BY <2>1 DEF LinkClaims, LinkClaim
  <2>3. PairOf' = [PairOf EXCEPT ![c[1]] = c[2]]
    <3>1. r.doc # NoLink
      BY <2>1, NoneAtStart
    <3> QED BY <2>1, <3>1 DEF PairOf, LinksOK
  <2>4. LinkCheck!Write(h, c)
    BY <1>1, <1>2, <2>3 DEF LinkCheck!Write
  <2> QED BY <2>2, <2>4 DEF LinkCheck!Next
<1>5. CASE DeleteOneLink(h) /\ ~UNCHANGED link
  <2>1. PICK n \in Link : link' = [link EXCEPT ![n] = NoLink]
    BY <1>5 DEF DeleteOneLink, LinksOf
  <2>2. PairOf' = [m \in Link |-> IF m \in {n} THEN NoLink ELSE PairOf[m]]
    BY <2>1 DEF PairOf, LinksOK
  <2>3. UNCHANGED LinkClaims
    <3>1. PICK q : Goes(h, q) /\ q.at = "countlink" /\ req[h].at = "deletelink"
      BY <1>5 DEF DeleteOneLink
    <3>2. LinkClaims' = [LinkClaims EXCEPT ![h] = LinkClaim(q)] /\ LinkClaims[h] = LinkClaim(req[h])
      BY <3>1, ClaimsChange
    <3>3. LinkClaim(q) = {} /\ LinkClaim(req[h]) = {}
      BY <3>1 DEF LinkClaim
    <3> QED BY <3>2, <3>3 DEF LinkClaims
  <2>4. LinkCheck!Free({n})
    BY <1>2, <2>2, <2>3 DEF LinkCheck!Free
  <2> QED BY <2>4 DEF LinkCheck!Next
<1> QED BY <1>3, <1>4, <1>5, ContinueKeepsBlind

LEMMA LinkImplements ==
    ASSUME Types, [Next]_vars
    PROVE  LinkCheck!Next \/ UNCHANGED <<PairOf, LinkClaims, blind.link>>
<1>1. ASSUME UNCHANGED <<pkg, link, req, blind>> PROVE UNCHANGED <<PairOf, LinkClaims, blind.link>>
  BY <1>1 DEF PairOf, LinkClaims, LinkClaim
<1>2. CASE Others \/ UNCHANGED vars
  BY <1>1, <1>2, OthersStay
<1> QED BY <1>2, LinkRequest, LinkContinue DEF Next

LEMMA LinkInit == Init => LinkCheck!Init
<1> SUFFICES ASSUME Init PROVE LinkCheck!Init
  OBVIOUS
<1>1. PairOf = [n \in Link |-> NoLink]
  BY DEF Init, PairOf
<1>2. LinkClaims = [h \in Handler |-> {}] /\ blind.link = 0
  BY DEF Init, LinkClaims, LinkClaim, Idle
<1>3. PairOf \in [Link -> (Package \X Service) \cup {NoLink}]
  BY <1>1
<1>4. \A d, e \in Link : PairOf[d] = PairOf[e] /\ PairOf[d] # NoLink => d = e
  BY <1>1
<1> QED BY <1>2, <1>3, <1>4 DEF LinkCheck!Init

\* Creating, renaming and linking packages implements UniqueCheck, step by step: its look-ups, its writes
\* and its deletions are those of the requests, and nothing else changes an alias or a link.
THEOREM NamesAreChecked == Spec => UniqueNames
<1>1. Types /\ [Next]_vars => [AliasCheck!Next]_AliasCheck!vars
  BY AliasImplements DEF AliasCheck!vars
<1>2. Types /\ [Next]_vars => [LinkCheck!Next]_LinkCheck!vars
  BY LinkImplements DEF LinkCheck!vars
<1>3. Spec => AliasCheck!Spec
  BY <1>1, AliasInit, TypesInvariant, PTL DEF Spec, AliasCheck!Spec
<1>4. Spec => LinkCheck!Spec
  BY <1>2, LinkInit, TypesInvariant, PTL DEF Spec, LinkCheck!Spec
<1> QED BY <1>3, <1>4 DEF UniqueNames

AliasProofs == INSTANCE UniqueCheckProofs WITH
    Key <- Alias, Doc <- Package, Writer <- Handler,
    name <- AliasOf, claim <- AliasClaims, blind <- blind.alias
LinkProofs == INSTANCE UniqueCheckProofs WITH
    Key <- Package \X Service, Doc <- Link, Writer <- Handler, None <- NoLink,
    name <- PairOf, claim <- LinkClaims, blind <- blind.link

\* An alias has at most as many packages, and a package at most as many links to a service, there or
\* about to be, as requests run at a time, and one more for each look-up that failed.
THEOREM NamesAreBounded == Spec => [](AliasCheck!AtMostWriters /\ LinkCheck!AtMostWriters)
<1>1. AliasProofs!UniqueCheckAssumption
  BY PackagesAssumption DEF AliasProofs!UniqueCheckAssumption, AliasProofs!IsFiniteSet, IsFiniteSet
<1>2. AliasProofs!Spec => []AliasProofs!AtMostWriters
  BY <1>1, AliasProofs!AtMostWritersHold
<1>3. AliasCheck!Init => AliasProofs!Init
  BY DEF AliasCheck!Init, AliasProofs!Init
<1>4. [AliasCheck!Next]_AliasCheck!vars => [AliasProofs!Next]_AliasProofs!vars
  BY DEF AliasCheck!vars, AliasProofs!vars, AliasCheck!Next, AliasProofs!Next, AliasCheck!Look, AliasProofs!Look,
     AliasCheck!LookFails, AliasProofs!LookFails, AliasCheck!GiveUp, AliasProofs!GiveUp, AliasCheck!Write,
     AliasProofs!Write, AliasCheck!Free, AliasProofs!Free, AliasCheck!KeepsSome, AliasProofs!KeepsSome,
     AliasCheck!ClaimsToo, AliasProofs!ClaimsToo, AliasCheck!Claims, AliasProofs!Claims, AliasCheck!Named, AliasProofs!Named
<1>5. AliasProofs!AtMostWriters => AliasCheck!AtMostWriters
  BY DEF AliasProofs!AtMostWriters, AliasCheck!AtMostWriters, AliasProofs!Named, AliasCheck!Named,
     AliasProofs!Claimed, AliasCheck!Claimed, AliasProofs!Claims, AliasCheck!Claims,
     AliasProofs!Cardinality, AliasCheck!Cardinality
<1>6. Spec => []AliasCheck!AtMostWriters
  BY NamesAreChecked, <1>2, <1>3, <1>4, <1>5, PTL DEF UniqueNames, AliasCheck!Spec, AliasProofs!Spec
<1>7. LinkProofs!UniqueCheckAssumption
  <2>1. NoLink \notin Package \X Service
    BY DEF NoLink
  <2> QED BY <2>1, PackagesAssumption DEF LinkProofs!UniqueCheckAssumption, LinkProofs!IsFiniteSet, IsFiniteSet
<1>8. LinkProofs!Spec => []LinkProofs!AtMostWriters
  BY <1>7, LinkProofs!AtMostWritersHold
<1>9. LinkCheck!Init => LinkProofs!Init
  BY DEF LinkCheck!Init, LinkProofs!Init
<1>10. [LinkCheck!Next]_LinkCheck!vars => [LinkProofs!Next]_LinkProofs!vars
  BY DEF LinkCheck!vars, LinkProofs!vars, LinkCheck!Next, LinkProofs!Next, LinkCheck!Look, LinkProofs!Look,
     LinkCheck!LookFails, LinkProofs!LookFails, LinkCheck!GiveUp, LinkProofs!GiveUp, LinkCheck!Write,
     LinkProofs!Write, LinkCheck!Free, LinkProofs!Free, LinkCheck!KeepsSome, LinkProofs!KeepsSome,
     LinkCheck!ClaimsToo, LinkProofs!ClaimsToo, LinkCheck!Claims, LinkProofs!Claims, LinkCheck!Named, LinkProofs!Named
<1>11. LinkProofs!AtMostWriters => LinkCheck!AtMostWriters
  BY DEF LinkProofs!AtMostWriters, LinkCheck!AtMostWriters, LinkProofs!Named, LinkCheck!Named,
     LinkProofs!Claimed, LinkCheck!Claimed, LinkProofs!Claims, LinkCheck!Claims,
     LinkProofs!Cardinality, LinkCheck!Cardinality
<1>12. Spec => []LinkCheck!AtMostWriters
  BY NamesAreChecked, <1>8, <1>9, <1>10, <1>11, PTL DEF UniqueNames, LinkCheck!Spec, LinkProofs!Spec
<1> QED BY <1>6, <1>12, PTL

-----------------------------------------------------------------------------
(* Counters and entries: while requests come one at a time.  The request   *)
(* at hand knows what it has yet to count and to write, and everything     *)
(* else is exact.                                                          *)

\* The links of a package, whichever service they are to.
OwnLinks(p) == {n \in Link : link[n] # NoLink /\ link[n].package = p}

\* What the request q names was there once.
Was(q) ==
    /\ q.at \in {"deletelink", "countlink", "countold", "setpackage"} => pkg[q.package] # NoPackage
    /\ q.at = "insertlink" => pkg[q.doc.package] # NoPackage /\ q.n <= started

\* A package that was never there has no members and no links, and an id of a link is used once.
NeverThere ==
    /\ \A p \in Package : pkg[p] = NoPackage => Members(p) = {} /\ OwnLinks(p) = {}
    /\ \A h \in Handler : Was(req[h])
    /\ \A n \in Link : n > started => link[n] = NoLink

\* What the request q has read is still what there is.
RequestKept(q) ==
    /\ q.at = "writepackage" => pkg[q.package] # Deleted
    /\ q.at = "insertlink" => link[q.n] = NoLink
    /\ q.at = "deletelink" => LinksOf(q.package, q.service) # {}
    /\ q.at \in {"deletelink", "countlink"} => q.known \/ q.service \notin service
    /\ q.at = "writeentry" => q.ids = PackageIDs(q.service)
    /\ q.at = "setpackage" =>
           \A p \in Package : q.left[p] = IF p = q.package THEN 0 ELSE Cardinality(Members(p) \cap q.users)
    /\ q.at = "countusers" => \A p \in Package : pkg[p] = NoPackage => q.by[p] = 0

\* What it has yet to count, and the entry it has yet to write.
DueUsers(q, p) == IF q.at = "countusers" THEN q.by[p] ELSE 0
DueLinks(q, p) == IF q.at = "countlink" /\ q.package = p THEN q.by ELSE 0
Rewrites(q, s) == q.at \in {"countlink", "readids", "writeentry"} /\ q.service = s

\* Everything is exact but for that.
UsersExact(q) ==
    \A p \in Package : pkg[p] # Deleted => userCount[p] + DueUsers(q, p) = Cardinality(Members(p))
LinksExact(q) ==
    \A p \in Package : pkg[p] # Deleted => serviceCount[p] + DueLinks(q, p) = Cardinality(OwnLinks(p))
EntriesExact(q) == \A s \in service : Rewrites(q, s) \/ entry[s] \in {PackageIDs(s), Bare}
Exact(q) == RequestKept(q) /\ UsersExact(q) /\ LinksExact(q) /\ EntriesExact(q)

Alone(h) == \A g \in Handler \ {h} : req[g] = Idle
SyncKept ==
    sync # NoSync =>
        /\ \A h \in Handler : req[h] = Idle
        /\ sync.at = "entry" => sync.ids = PackageIDs(sync.service)
        /\ sync.at # "entry" => \A p \in DOMAIN sync.rows :
               sync.rows[p] = IF sync.at = "users" THEN Cardinality(Members(p)) ELSE Cardinality(OwnLinks(p))

OneAtATime ==
    serial =>
        /\ \A h \in Handler : req[h] # Idle => Alone(h)
        /\ \A h \in Handler : Alone(h) => Exact(req[h])
        /\ SyncKept

-----------------------------------------------------------------------------
(* What was never there.                                                   *)

LEMMA PackagesStay ==
    ASSUME Types, [Next]_vars, NEW p \in Package, pkg[p] # NoPackage
    PROVE  pkg'[p] # NoPackage
<1> USE DEF Types, PackagesOK
<1>1. ASSUME NEW h \in Handler, WritePackage(h) PROVE pkg'[p] # NoPackage
  <2>1. req[h].doc \in Document /\ req[h].package \in Package
    BY <1>1 DEF WritePackage, RequestsOK, RequestOK
  <2>2. req[h].doc # NoPackage
    BY <2>1, NoneAtStart
  <2> QED BY <1>1, <2>1, <2>2 DEF WritePackage
<1>2. ASSUME NEW h \in Handler, NEW x \in Package, DeletePackage(h, x) PROVE pkg'[p] # NoPackage
  BY <1>2, NoneAtStart DEF DeletePackage
<1> QED BY <1>1, <1>2, Writes

LEMMA NothingNew ==
    ASSUME Types, NeverThere, [Next]_vars, NEW p \in Package, pkg'[p] = NoPackage
    PROVE  Members(p)' = {} /\ OwnLinks(p)' = {}
<1>1. pkg[p] = NoPackage /\ Members(p) = {} /\ OwnLinks(p) = {}
  BY PackagesStay DEF NeverThere
<1>2. Members(p)' = {}
  <2>1. ASSUME NEW u \in User, member'[u] = p, member[u] # p PROVE FALSE
    <3>1. ASSUME NEW h \in Handler, SetPackage(h) PROVE FALSE
      <4>1. req[h].package = p
        BY <2>1, <3>1 DEF SetPackage
      <4> QED BY <1>1, <3>1, <4>1 DEF SetPackage, NeverThere, Was
    <3>2. ASSUME NEW h \in Handler, NEW x \in Package, NEW U \in SUBSET User, RemoveUsers(h, x, U) PROVE FALSE
      BY <2>1, <3>2, PackagesAssumption DEF RemoveUsers
    <3>3. ASSUME NEW v \in User, NEW x \in Package \cup {None}, EditUser(v, x) PROVE FALSE
      <4>1. x = p
        BY <2>1, <3>3 DEF EditUser, Types, MembersOK
      <4> QED BY <1>1, <3>3, <4>1, PackagesAssumption, NoneAtStart DEF EditUser, Live
    <3> QED BY <2>1, <3>1, <3>2, <3>3, Writes
  <2> QED BY <1>1, <2>1 DEF Members
<1>3. OwnLinks(p)' = {}
  <2>1. ASSUME NEW n \in Link, link'[n] # NoLink, link'[n].package = p, link[n] = NoLink \/ link[n].package # p
        PROVE  FALSE
    <3>1. ASSUME NEW h \in Handler, InsertLink(h) PROVE FALSE
      <4>1. req[h].doc.package = p
        BY <2>1, <3>1 DEF InsertLink, Types, LinksOK
      <4> QED BY <1>1, <3>1, <4>1 DEF InsertLink, NeverThere, Was
    <3>2. ASSUME NEW h \in Handler, DeleteOneLink(h) PROVE FALSE
      BY <2>1, <3>2 DEF DeleteOneLink, LinksOf, Types, LinksOK
    <3>3. ASSUME NEW h \in Handler, NEW m \in Link, NEW paths \in LinkPaths, UpdateLink(h, m, paths) PROVE FALSE
      BY <2>1, <3>3, UpdatedLink
    <3> QED BY <2>1, <3>1, <3>2, <3>3, Writes
  <2> QED BY <1>1, <2>1 DEF OwnLinks
<1> QED BY <1>2, <1>3

LEMMA StartedGrows == ASSUME Types, [Next]_vars PROVE started <= started' /\ started \in Nat /\ started' \in Nat
<1>1. started \in Nat /\ started' \in Nat
  BY NextTypes, PackagesAssumption DEF Types, CountersOK
<1>2. UNCHANGED started \/ started' = started + 1
  <2>1. ASSUME NEW h \in Handler, Request(h) PROVE started' = started + 1
    BY <2>1, RequestBegins DEF CreatePackage, UpdatePackage, AliasLookupFails, DeletePackage, CreateLink,
       LinkLookupFails, UpdateLink, DeleteLink, AssignUsers, RemoveUsers, Begins
  <2>2. ASSUME NEW h \in Handler, Continue(h) PROVE UNCHANGED started
    BY <2>2 DEF Continue, WritePackage, InsertLink, DeleteOneLink, CountLink, CountLinkFails, ReadPackageIDs,
       WriteEntry, CountOld, SetPackage, CountUsers, CountUsersFails, RequestDies
  <2>3. ASSUME Others \/ UNCHANGED vars PROVE UNCHANGED started
    BY <2>3 DEF Others, EditUser, DeleteService, EditService, BootReads, BootWrites, SyncReads, SyncWrites, SyncEnds, vars
  <2> QED BY <2>1, <2>2, <2>3 DEF Next
<1> QED BY <1>1, <1>2

LEMMA WasStays ==
    ASSUME Types, [Next]_vars, NEW q, RequestOK(q), Was(q)
    PROVE  Was(q)'
<1>1. q.at \in {"deletelink", "countlink", "countold", "setpackage"} => q.package \in Package
  BY DEF RequestOK
<1>2. q.at = "insertlink" => q.doc.package \in Package /\ q.n \in Nat
  BY LinksFinite DEF RequestOK, LinkDocument
<1> QED BY <1>1, <1>2, PackagesStay, StartedGrows DEF Was

\* A request that begins names what is there.
LEMMA BeginWas ==
    ASSUME Types, NeverThere, NEW h \in Handler, Request(h)
    PROVE  UNCHANGED req \/ \E q : Goes(h, q) /\ Was(q)'
<1>0. [Next]_vars
  BY DEF Next
<1> DEFINE Goal == \E q : Goes(h, q) /\ Was(q)'
<1>1. ASSUME NEW q, Goes(h, q), q.at \in {"writepackage", "countusers"} PROVE Goal
  BY <1>1 DEF Was
<1>2. ASSUME NEW p \in Package, NEW a \in Alias,
             CreatePackage(h, p, a) \/ UpdatePackage(h, p, a) \/ AliasLookupFails(h, p, a)
      PROVE  Goal
  <2>1. PICK new \in Settings : Goes(h, Writing(p, a, new))
    BY <1>2 DEF CreatePackage, UpdatePackage, AliasLookupFails
  <2>2. Writing(p, a, new).at = "writepackage"
    BY DEF Writing
  <2> QED BY <1>1, <2>1, <2>2
<1>3. ASSUME NEW p \in Package, NEW s \in Service, NEW paths \in LinkPaths,
             CreateLink(h, p, s, paths) \/ LinkLookupFails(h, p, s, paths)
      PROVE  Goal
  <2>1. PICK q : Goes(h, q) /\ q = [at |-> "insertlink", n |-> started',
                                    doc |-> [package |-> p, service |-> s, paths |-> paths]]
    BY <1>3 DEF CreateLink, LinkLookupFails
  <2>2. pkg[p] # NoPackage
    BY <1>3 DEF CreateLink, LinkLookupFails
  <2>3. pkg'[p] # NoPackage
    BY <1>0, <2>2, PackagesStay
  <2>4. q.n = started' /\ q.doc.package = p /\ q.at = "insertlink"
    BY <2>1
  <2>5. Was(q)'
    BY <1>0, <2>3, <2>4, StartedGrows DEF Was
  <2> QED BY <2>1, <2>5
<1>4. ASSUME NEW q, Goes(h, q), q.at \in {"deletelink", "countold"}, q.package \in Package, pkg[q.package] # NoPackage
      PROVE  Goal
  BY <1>0, <1>4, PackagesStay DEF Was
<1>5. ASSUME NEW p \in Package, NEW s \in Service, DeleteLink(h, p, s) PROVE Goal
  <2>1. PICK q : Goes(h, q) /\ q.at = "deletelink" /\ q.package = p
    BY <1>5 DEF DeleteLink
  <2>2. pkg[p] # NoPackage
    BY <1>5 DEF DeleteLink, LinksOf, NeverThere, OwnLinks
  <2> QED BY <1>4, <2>1, <2>2
<1>6. ASSUME NEW p \in Package, NEW U \in SUBSET User, AssignUsers(h, p, U) PROVE Goal
  <2>1. PICK q : Goes(h, q) /\ q.at = "countold" /\ q.package = p
    BY <1>6 DEF AssignUsers
  <2>2. pkg[p] # NoPackage
    BY <1>6, NoneAtStart DEF AssignUsers, Live
  <2> QED BY <1>4, <2>1, <2>2
<1>7. ASSUME NEW p \in Package, NEW U \in SUBSET User, RemoveUsers(h, p, U) PROVE UNCHANGED req \/ Goal
  <2>1. UNCHANGED req \/ \E by : Goes(h, [at |-> "countusers", by |-> by])
    BY <1>7 DEF RemoveUsers
  <2>2. ASSUME NEW by, Goes(h, [at |-> "countusers", by |-> by]) PROVE Goal
    BY <1>1, <2>2
  <2> QED BY <2>1, <2>2
<1>8. ASSUME \/ \E p \in Package : DeletePackage(h, p)
             \/ \E n \in Link, paths \in LinkPaths : UpdateLink(h, n, paths)
      PROVE  UNCHANGED req
  BY <1>8 DEF DeletePackage, UpdateLink
<1> QED BY <1>2, <1>3, <1>5, <1>6, <1>7, <1>8, RequestBegins

LEMMA ContinueWas ==
    ASSUME Types, NeverThere, NEW h \in Handler, Continue(h)
    PROVE  \E q : Goes(h, q) /\ Was(q)'
<1>0. [Next]_vars
  BY DEF Next
<1> DEFINE r == req[h]
           Goal == \E q : Goes(h, q) /\ Was(q)'
<1>1. ASSUME NEW q, Goes(h, q), q.at \in {"idle", "readids", "writeentry", "countusers"} PROVE Goal
  BY <1>1 DEF Was
<1>2. CASE Ends(h)
  BY <1>1, <1>2 DEF Ends, Idle
<1>3. ASSUME NEW q, Goes(h, q), q.at \in {"countlink", "setpackage"}, q.package \in Package,
             pkg[q.package] # NoPackage
      PROVE  Goal
  BY <1>0, <1>3, PackagesStay DEF Was
<1>4. CASE InsertLink(h)
  <2>1. r.doc.package \in Package /\ pkg[r.doc.package] # NoPackage
    BY <1>4 DEF InsertLink, Types, RequestsOK, RequestOK, LinkDocument, NeverThere, Was
  <2>2. PICK q : Goes(h, q) /\ q.at = "countlink" /\ q.package = r.doc.package
    BY <1>4 DEF InsertLink
  <2> QED BY <1>3, <2>1, <2>2
<1>5. CASE DeleteOneLink(h)
  <2>1. r.package \in Package /\ pkg[r.package] # NoPackage
    BY <1>5 DEF DeleteOneLink, Types, RequestsOK, RequestOK, NeverThere, Was
  <2>2. PICK q : Goes(h, q) /\ q.at = "countlink" /\ q.package = r.package
    BY <1>5 DEF DeleteOneLink
  <2> QED BY <1>3, <2>1, <2>2
<1>6. CASE CountLink(h) \/ CountLinkFails(h)
  <2>1. Ends(h) \/ Goes(h, [at |-> "readids", service |-> req[h].service])
    BY <1>6 DEF CountLink, CountLinkFails
  <2> QED BY <1>1, <1>2, <2>1
<1>7. CASE ReadPackageIDs(h)
  <2>1. PICK q : Goes(h, q) /\ q.at = "writeentry"
    BY <1>7 DEF ReadPackageIDs
  <2> QED BY <1>1, <2>1
<1>8. CASE CountOld(h)
  <2>1. r.package \in Package /\ pkg[r.package] # NoPackage
    BY <1>8 DEF CountOld, Types, RequestsOK, RequestOK, NeverThere, Was
  <2>2. PICK q : Goes(h, q) /\ q.at = "setpackage" /\ q.package = r.package
    BY <1>8 DEF CountOld
  <2> QED BY <1>3, <2>1, <2>2
<1>9. CASE SetPackage(h)
  <2>1. Ends(h) \/ \E by : Goes(h, [at |-> "countusers", by |-> by])
    BY <1>9 DEF SetPackage
  <2>2. ASSUME NEW by, Goes(h, [at |-> "countusers", by |-> by]) PROVE Goal
    BY <1>1, <2>2
  <2> QED BY <1>2, <2>1, <2>2
<1>10. CASE \E q \in Package : CountUsers(h, q) \/ CountUsersFails(h, q)
  <2>1. PICK q \in Package : req[h].at = "countusers" /\ Counted(h, q)
    BY <1>10 DEF CountUsers, CountUsersFails
  <2>2. [req[h] EXCEPT !.by = [@ EXCEPT ![q] = 0]].at = "countusers"
    BY <2>1 DEF Types, RequestsOK, RequestOK
  <2> QED BY <1>1, <1>2, <2>1, <2>2 DEF Counted
<1>11. CASE WritePackage(h) \/ WriteEntry(h) \/ RequestDies(h)
  BY <1>2, <1>11 DEF WritePackage, WriteEntry, RequestDies
<1> QED BY <1>4, <1>5, <1>6, <1>7, <1>8, <1>9, <1>10, <1>11 DEF Continue

LEMMA NextNeverThere == Types /\ NeverThere /\ [Next]_vars => NeverThere'
<1> SUFFICES ASSUME Types, NeverThere, [Next]_vars PROVE NeverThere'
  OBVIOUS
<1>1. \A p \in Package : pkg'[p] = NoPackage => Members(p)' = {} /\ OwnLinks(p)' = {}
  BY NothingNew
<1>2. \A g \in Handler : Was(req[g])'
  <2>1. \A g \in Handler : RequestOK(req[g]) /\ Was(req[g])
    BY DEF Types, RequestsOK, NeverThere
  <2>2. ASSUME NEW g \in Handler, req'[g] = req[g] PROVE Was(req[g])'
    <3>1. PICK q : q = req[g]
      OBVIOUS
    <3>2. Was(q)'
      BY <2>1, <3>1, WasStays
    <3> QED BY <2>2, <3>1, <3>2 DEF Was
  <2>3. ASSUME NEW h \in Handler, NEW q, Goes(h, q), Was(q)' PROVE \A g \in Handler : Was(req[g])'
    <3>1. req'[h] = q /\ \A g \in Handler \ {h} : req'[g] = req[g]
      BY <2>3 DEF Goes, Types, RequestsOK
    <3>2. Was(req[h])'
      BY <2>3, <3>1 DEF Was
    <3> QED BY <2>2, <3>1, <3>2
  <2>4. CASE UNCHANGED req
    BY <2>2, <2>4
  <2> QED BY <2>3, <2>4, OthersStay, BeginWas, ContinueWas DEF Next
<1>3. \A n \in Link : n > started' => link'[n] = NoLink
  <2> SUFFICES ASSUME NEW n \in Link, n > started' PROVE link'[n] = NoLink
    OBVIOUS
  <2>1. n \in Nat /\ n > started /\ link[n] = NoLink
    BY StartedGrows, LinksFinite DEF NeverThere
  <2>2. ASSUME NEW h \in Handler, InsertLink(h) PROVE link'[n] = NoLink
    <3>1. req[h].n <= started /\ req[h].n \in Nat
      BY <2>2, LinksFinite DEF InsertLink, NeverThere, Was, Types, RequestsOK, RequestOK
    <3>2. req[h].n # n
      BY <2>1, <3>1, StartedGrows
    <3> QED BY <2>1, <2>2, <3>2 DEF InsertLink, Types, LinksOK
  <2>3. ASSUME NEW h \in Handler, DeleteOneLink(h) PROVE link'[n] = NoLink
    BY <2>1, <2>3 DEF DeleteOneLink, LinksOf, Types, LinksOK
  <2>4. ASSUME NEW h \in Handler, NEW m \in Link, NEW paths \in LinkPaths, UpdateLink(h, m, paths) PROVE link'[n] = NoLink
    BY <2>1, <2>4, UpdatedLink
  <2> QED BY <2>1, <2>2, <2>3, <2>4, Writes
<1> QED BY <1>1, <1>2, <1>3 DEF NeverThere

-----------------------------------------------------------------------------
(* While requests come one at a time.                                      *)

\* Of a serial behaviour a request begins alone, and none of its look-ups fails.
LEMMA SerialRequest ==
    ASSUME Types, NEW h \in Handler, Request(h), serial'
    PROVE  /\ serial /\ sync = NoSync /\ UNCHANGED sync
           /\ \A g \in Handler : req[g] = Idle
           /\ \/ \E p \in Package, a \in Alias : CreatePackage(h, p, a) \/ UpdatePackage(h, p, a)
              \/ \E p \in Package : DeletePackage(h, p)
              \/ \E p \in Package, s \in Service, paths \in LinkPaths : CreateLink(h, p, s, paths)
              \/ \E n \in Link, paths \in LinkPaths : UpdateLink(h, n, paths)
              \/ \E p \in Package, s \in Service : DeleteLink(h, p, s)
              \/ \E p \in Package, U \in SUBSET User : AssignUsers(h, p, U) \/ RemoveUsers(h, p, U)
<1>1. Begins(h) /\ UNCHANGED sync =>
          /\ serial /\ sync = NoSync /\ UNCHANGED sync
          /\ \A g \in Handler : req[g] = Idle
  BY DEF Begins
<1>2. ASSUME NEW p \in Package, NEW a \in Alias, AliasLookupFails(h, p, a) PROVE FALSE
  BY <1>2 DEF AliasLookupFails, Fails
<1>3. ASSUME NEW p \in Package, NEW s \in Service, NEW paths \in LinkPaths, LinkLookupFails(h, p, s, paths) PROVE FALSE
  BY <1>3 DEF LinkLookupFails, Fails
<1>4. \/ \E p \in Package, a \in Alias : CreatePackage(h, p, a) \/ UpdatePackage(h, p, a)
      \/ \E p \in Package : DeletePackage(h, p)
      \/ \E p \in Package, s \in Service, paths \in LinkPaths : CreateLink(h, p, s, paths)
      \/ \E n \in Link, paths \in LinkPaths : UpdateLink(h, n, paths)
      \/ \E p \in Package, s \in Service : DeleteLink(h, p, s)
      \/ \E p \in Package, U \in SUBSET User : AssignUsers(h, p, U) \/ RemoveUsers(h, p, U)
  BY <1>2, <1>3, RequestBegins
<1>5. Begins(h) /\ UNCHANGED sync
  BY <1>4 DEF CreatePackage, UpdatePackage, DeletePackage, CreateLink, UpdateLink, DeleteLink, AssignUsers, RemoveUsers
<1> QED BY <1>1, <1>4, <1>5

LEMMA SerialContinue ==
    ASSUME Types, NEW h \in Handler, Continue(h), serial'
    PROVE  /\ serial /\ UNCHANGED sync /\ req[h] # Idle
           /\ \/ WritePackage(h)
              \/ InsertLink(h) \/ DeleteOneLink(h) \/ CountLink(h)
              \/ ReadPackageIDs(h) \/ WriteEntry(h)
              \/ CountOld(h) \/ SetPackage(h)
              \/ \E q \in Package : CountUsers(h, q)
<1>1. ~CountLinkFails(h) /\ ~RequestDies(h)
  BY DEF CountLinkFails, RequestDies, Fails
<1>2. \A q \in Package : ~CountUsersFails(h, q)
  BY DEF CountUsersFails, Fails
<1>3. \/ WritePackage(h)
      \/ InsertLink(h) \/ DeleteOneLink(h) \/ CountLink(h)
      \/ ReadPackageIDs(h) \/ WriteEntry(h)
      \/ CountOld(h) \/ SetPackage(h)
      \/ \E q \in Package : CountUsers(h, q)
  BY <1>1, <1>2 DEF Continue
<1>4. serial /\ UNCHANGED sync
  BY <1>3 DEF WritePackage, InsertLink, DeleteOneLink, CountLink, ReadPackageIDs, WriteEntry, CountOld, SetPackage,
     CountUsers
<1>5. req[h].at # "idle"
  BY <1>3 DEF WritePackage, InsertLink, DeleteOneLink, CountLink, ReadPackageIDs, WriteEntry, CountOld, SetPackage,
     CountUsers
<1> QED BY <1>3, <1>4, <1>5 DEF Idle

-----------------------------------------------------------------------------
(* What a step that leaves something alone keeps of it.                    *)

KeepsDeleted == \A p \in Package : pkg[p] = Deleted => pkg'[p] = Deleted

LEMMA SameUsers ==
    ASSUME KeepsDeleted, UNCHANGED <<userCount, member>>, NEW q, NEW r, UsersExact(q),
           \A p \in Package : DueUsers(r, p) = DueUsers(q, p)
    PROVE  UsersExact(r)'
<1>1. \A p \in Package : Members(p)' = Members(p)
  BY DEF Members
<1> QED BY <1>1 DEF UsersExact, DueUsers, KeepsDeleted

LEMMA SameLinks ==
    ASSUME KeepsDeleted, UNCHANGED serviceCount, NEW q, NEW r, LinksExact(q),
           \A p \in Package : OwnLinks(p)' = OwnLinks(p) /\ DueLinks(r, p) = DueLinks(q, p)
    PROVE  LinksExact(r)'
BY DEF LinksExact, DueLinks, KeepsDeleted

LEMMA SameEntries ==
    ASSUME UNCHANGED entry, service' \subseteq service, NEW q, NEW r, EntriesExact(q),
           \A s \in service : PackageIDs(s)' = PackageIDs(s) /\ (Rewrites(q, s) => Rewrites(r, s))
    PROVE  EntriesExact(r)'
BY DEF EntriesExact, Rewrites

LEMMA LinksUnchanged ==
    ASSUME UNCHANGED link
    PROVE  /\ \A p : OwnLinks(p)' = OwnLinks(p)
           /\ \A s : PackageIDs(s)' = PackageIDs(s)
           /\ \A p, s : LinksOf(p, s)' = LinksOf(p, s)
BY DEF OwnLinks, PackageIDs, ServiceLinks, LinksOf

\* The steps that only go on, from one request in hand to another.
LEMMA GoesOnExact ==
    ASSUME UNCHANGED <<docs, counts, entry>>, NEW q, NEW r, Exact(q),
           \A p \in Package : DueUsers(r, p) = DueUsers(q, p),
           \A p \in Package : DueLinks(r, p) = DueLinks(q, p),
           \A s \in service : Rewrites(q, s) => Rewrites(r, s),
           RequestKept(r)
    PROVE  Exact(r)'
<1>1. KeepsDeleted /\ UNCHANGED <<pkg, service, link, member, userCount, serviceCount, entry>>
  BY DEF docs, counts, KeepsDeleted
<1>2. UsersExact(r)'
  BY <1>1, SameUsers DEF Exact
<1>3. LinksExact(r)'
  BY <1>1, SameLinks, LinksUnchanged DEF Exact
<1>4. EntriesExact(r)'
  BY <1>1, SameEntries, LinksUnchanged DEF Exact
<1>5. RequestKept(r)'
  <2>1. \A p : Members(p)' = Members(p)
    BY <1>1 DEF Members
  <2>2. (r.at = "setpackage" =>
           \A p \in Package : r.left[p] = IF p = r.package THEN 0 ELSE Cardinality(Members(p) \cap r.users))'
    BY <2>1 DEF RequestKept
  <2> QED BY <1>1, <2>2, LinksUnchanged DEF RequestKept
<1> QED BY <1>2, <1>3, <1>4, <1>5 DEF Exact

-----------------------------------------------------------------------------
(* Counting.                                                               *)

LEMMA CardMinus ==
    ASSUME NEW S, IsFiniteSet(S), NEW T \in SUBSET S
    PROVE  Cardinality(S \ T) = Cardinality(S) - Cardinality(T)
<1>1. IsFiniteSet(T) /\ IsFiniteSet(S \ T)
  BY FS_Subset
<1>2. Cardinality((S \ T) \cup T) = Cardinality(S \ T) + Cardinality(T) - Cardinality((S \ T) \cap T)
  BY <1>1, FS_Union
<1>3. (S \ T) \cup T = S /\ (S \ T) \cap T = {}
  OBVIOUS
<1>4. Cardinality(S) \in Int /\ Cardinality(T) \in Int /\ Cardinality(S \ T) \in Int
  BY <1>1, FS_CardinalityType
<1>5. Cardinality((S \ T) \cup T) = Cardinality(S) /\ Cardinality((S \ T) \cap T) = 0
  BY <1>3, FS_EmptySet, Zenon
<1> QED BY <1>2, <1>4, <1>5

LEMMA CardPlus ==
    ASSUME NEW S, IsFiniteSet(S), NEW T, IsFiniteSet(T), S \cap T = {}
    PROVE  Cardinality(S \cup T) = Cardinality(S) + Cardinality(T)
<1>1. Cardinality(S \cup T) = Cardinality(S) + Cardinality(T) - Cardinality(S \cap T)
  BY FS_Union
<1>2. Cardinality(S) \in Int /\ Cardinality(T) \in Int
  BY FS_CardinalityType
<1>3. Cardinality(S \cap T) = 0
  BY FS_EmptySet, Zenon
<1> QED BY <1>1, <1>2, <1>3

LEMMA LinkCountIs ==
    ASSUME Types, NEW p \in Package
    PROVE  LinkCount(p) = Cardinality(OwnLinks(p))
<1>1. UNION {LinksOf(p, s) : s \in Service} = OwnLinks(p)
  <2>1. ASSUME NEW n \in OwnLinks(p) PROVE \E s \in Service : n \in LinksOf(p, s)
    <3>1. n \in Link /\ link[n] # NoLink /\ link[n].package = p
      BY <2>1 DEF OwnLinks
    <3>2. link[n].service \in Service
      BY <3>1 DEF Types, LinksOK, LinkDocument
    <3> QED BY <3>1, <3>2 DEF LinksOf
  <2>2. \A s : LinksOf(p, s) \subseteq OwnLinks(p)
    BY DEF LinksOf, OwnLinks
  <2> QED BY <2>1, <2>2
<1> QED BY <1>1 DEF LinkCount

LEMMA OwnFinite ==
    \A p : /\ Members(p) \in SUBSET User /\ OwnLinks(p) \in SUBSET Link
           /\ IsFiniteSet(Members(p)) /\ Cardinality(Members(p)) \in Int
           /\ IsFiniteSet(OwnLinks(p)) /\ Cardinality(OwnLinks(p)) \in Int
<1> SUFFICES ASSUME NEW p
             PROVE  /\ Members(p) \in SUBSET User /\ OwnLinks(p) \in SUBSET Link
                    /\ IsFiniteSet(Members(p)) /\ Cardinality(Members(p)) \in Int
                    /\ IsFiniteSet(OwnLinks(p)) /\ Cardinality(OwnLinks(p)) \in Int
  OBVIOUS
<1>1. Members(p) \in SUBSET User /\ OwnLinks(p) \in SUBSET Link
  BY DEF Members, OwnLinks
<1> QED BY <1>1, MembersFinite, LinksFinite

-----------------------------------------------------------------------------
(* Requests that begin: each has yet to do what its first step makes due.  *)

\* A request whose look-ups write nothing.
LEMMA LooksExact ==
    ASSUME UNCHANGED <<docs, counts, entry>>, NEW r, Exact(Idle), RequestKept(r),
           r.at \in {"writepackage", "insertlink", "deletelink", "countold"}
    PROVE  Exact(r)'
BY GoesOnExact DEF DueUsers, DueLinks, Rewrites, Idle

LEMMA BeginExact ==
    ASSUME Types, NeverThere, Exact(Idle), NEW h \in Handler, Request(h), serial'
    PROVE  (UNCHANGED req /\ Exact(Idle)') \/ \E q : Goes(h, q) /\ Exact(q)'
<1> DEFINE Goal == \E q : Goes(h, q) /\ Exact(q)'
<1>1. ASSUME NEW p \in Package, NEW a \in Alias, CreatePackage(h, p, a) \/ UpdatePackage(h, p, a) PROVE Goal
  <2>1. PICK new \in Settings : Goes(h, Writing(p, a, new))
    BY <1>1 DEF CreatePackage, UpdatePackage
  <2>2. pkg[p] # Deleted
    BY <1>1, NoneAtStart DEF CreatePackage, UpdatePackage, Live
  <2>3. PICK q : q = Writing(p, a, new)
    OBVIOUS
  <2>4. q.at = "writepackage" /\ q.package = p
    BY <2>3 DEF Writing
  <2>5. RequestKept(q)
    BY <2>2, <2>4 DEF RequestKept
  <2>6. UNCHANGED <<docs, counts, entry>>
    BY <1>1 DEF CreatePackage, UpdatePackage
  <2> QED BY <2>1, <2>3, <2>4, <2>5, <2>6, LooksExact
<1>2. ASSUME NEW p \in Package, NEW s \in Service, NEW paths \in LinkPaths, CreateLink(h, p, s, paths) PROVE Goal
  <2>1. PICK q : Goes(h, q) /\ q = [at |-> "insertlink", n |-> started',
                                    doc |-> [package |-> p, service |-> s, paths |-> paths]]
    BY <1>2 DEF CreateLink
  <2>2. q.n = started' /\ q.at = "insertlink"
    BY <2>1
  <2>3. started < MaxRequests /\ started' = started + 1
    BY <1>2 DEF CreateLink, Begins
  <2>4. started' \in Link /\ started' > started
    BY <2>3, PackagesAssumption DEF Types, CountersOK, Link
  <2>5. link[q.n] = NoLink
    BY <2>2, <2>4 DEF NeverThere
  <2>6. RequestKept(q)
    BY <2>2, <2>5 DEF RequestKept
  <2> QED BY <1>2, <2>1, <2>2, <2>6, LooksExact DEF CreateLink
<1>3. ASSUME NEW p \in Package, NEW s \in Service, DeleteLink(h, p, s) PROVE Goal
  <2>1. PICK q : Goes(h, q) /\ q = [at |-> "deletelink", package |-> p, service |-> s, known |-> s \in service]
    BY <1>3 DEF DeleteLink
  <2>2. q.at = "deletelink" /\ q.package = p /\ q.service = s /\ (q.known <=> s \in service)
    BY <2>1
  <2>3. LinksOf(p, s) # {}
    BY <1>3 DEF DeleteLink
  <2>4. RequestKept(q)
    BY <2>2, <2>3 DEF RequestKept
  <2> QED BY <1>3, <2>1, <2>2, <2>4, LooksExact DEF DeleteLink
<1>4. ASSUME NEW p \in Package, NEW U \in SUBSET User, AssignUsers(h, p, U) PROVE Goal
  <2>1. PICK q : Goes(h, q) /\ q.at = "countold"
    BY <1>4 DEF AssignUsers
  <2>2. RequestKept(q)
    BY <2>1 DEF RequestKept
  <2> QED BY <1>4, <2>1, <2>2, LooksExact DEF AssignUsers
<1>5. RequestKept(Idle)'
  BY DEF RequestKept, Idle
<1>6. ASSUME NEW p \in Package, DeletePackage(h, p) PROVE UNCHANGED req /\ Exact(Idle)'
  <2>1. KeepsDeleted
    BY <1>6 DEF DeletePackage, KeepsDeleted, Types, PackagesOK
  <2>2. UNCHANGED <<service, link, member, userCount, serviceCount, entry, req>>
    BY <1>6 DEF DeletePackage, counts
  <2>3. UsersExact(Idle)'
    BY <2>1, <2>2, SameUsers DEF Exact
  <2>4. LinksExact(Idle)'
    BY <2>1, <2>2, SameLinks, LinksUnchanged DEF Exact
  <2>5. EntriesExact(Idle)'
    BY <2>2, SameEntries, LinksUnchanged DEF Exact
  <2> QED BY <1>5, <2>2, <2>3, <2>4, <2>5 DEF Exact
<1>7. ASSUME NEW n \in Link, NEW paths \in LinkPaths, UpdateLink(h, n, paths) PROVE UNCHANGED req /\ Exact(Idle)'
  <2>1. UNCHANGED <<pkg, service, member, userCount, serviceCount, entry, req>> /\ KeepsDeleted
    BY <1>7 DEF UpdateLink, counts, KeepsDeleted
  <2>2. \A p : OwnLinks(p)' = OwnLinks(p)
    BY <1>7, UpdatedLink DEF OwnLinks
  <2>3. \A s : ServiceLinks(s)' = ServiceLinks(s)
    BY <1>7, UpdatedLink DEF ServiceLinks
  <2>4. \A s : PackageIDs(s)' = PackageIDs(s)
    BY <1>7, <2>3, UpdatedLink DEF PackageIDs, ServiceLinks
  <2>5. UsersExact(Idle)'
    BY <2>1, SameUsers DEF Exact
  <2>6. LinksExact(Idle)'
    BY <2>1, <2>2, SameLinks DEF Exact
  <2>7. EntriesExact(Idle)'
    BY <2>1, <2>4, SameEntries DEF Exact
  <2> QED BY <1>5, <2>1, <2>5, <2>6, <2>7 DEF Exact
<1>8. ASSUME NEW p \in Package, NEW U \in SUBSET User, RemoveUsers(h, p, U)
      PROVE  (UNCHANGED req /\ Exact(Idle)') \/ Goal
  <2> DEFINE removed == U \cap Members(p)
             by == [q \in Package |-> IF q = p THEN - Cardinality(removed) ELSE 0]
  <2>0. UNCHANGED <<pkg, service, link, userCount, serviceCount, entry>> /\ KeepsDeleted
    BY <1>8 DEF RemoveUsers, counts, KeepsDeleted
  <2>1. ASSUME NEW r, r.at \in {"idle", "countusers"} PROVE LinksExact(r)' /\ EntriesExact(r)'
    <3>1. LinksExact(r)'
      BY <2>0, <2>1, SameLinks, LinksUnchanged DEF Exact, DueLinks, Idle
    <3>2. EntriesExact(r)'
      BY <2>0, <2>1, SameEntries, LinksUnchanged DEF Exact, Rewrites, Idle
    <3> QED BY <3>1, <3>2
  <2>2. CASE removed = {}
    <3>1. UNCHANGED req
      BY <1>8, <2>2 DEF RemoveUsers
    <3>2. \A x : Members(x)' = Members(x)
      BY <1>8, <2>2 DEF RemoveUsers, Members, Types, MembersOK
    <3>3. UsersExact(Idle)'
      BY <2>0, <3>2 DEF UsersExact, Exact, DueUsers
    <3> QED BY <1>5, <2>1, <3>1, <3>3 DEF Exact, Idle
  <2>3. CASE removed # {}
    <3>1. PICK r : Goes(h, r) /\ r = [at |-> "countusers", by |-> by]
      BY <1>8, <2>3 DEF RemoveUsers
    <3>2. p \in Live
      BY <1>8 DEF RemoveUsers
    <3>3. r.at = "countusers" /\ r.by = by
      BY <3>1
    <3>4. Members(p)' = Members(p) \ removed /\ \A x \in Package \ {p} : Members(x)' = Members(x)
      BY <1>8, PackagesAssumption DEF RemoveUsers, Members, Types, MembersOK
    <3>5. removed \in SUBSET Members(p)
      OBVIOUS
    <3>6. Cardinality(Members(p)') = Cardinality(Members(p)) - Cardinality(removed)
      BY <3>4, <3>5, CardMinus, OwnFinite
    <3>7. Cardinality(removed) \in Int
      BY <3>5, OwnFinite, MembersFinite
    <3>8. UsersExact(r)'
      <4> SUFFICES ASSUME NEW x \in Package, pkg[x] # Deleted
                   PROVE  userCount[x] + by[x] = Cardinality(Members(x)')
        BY <2>0, <3>3 DEF UsersExact, DueUsers
      <4>1. userCount[x] = Cardinality(Members(x)) /\ userCount[x] \in Int
        BY DEF Exact, UsersExact, DueUsers, Idle, Types, CountsOK
      <4>2. CASE x = p
        BY <3>6, <3>7, <4>1, <4>2, OwnFinite
      <4>3. CASE x # p
        BY <3>4, <4>1, <4>3
      <4> QED BY <4>2, <4>3
    <3>9. RequestKept(r)'
      <4>1. \A x \in Package : pkg'[x] = NoPackage => by[x] = 0
        BY <2>0, <3>2, NoneAtStart DEF Live
      <4> HIDE DEF by
      <4> QED BY <3>3, <4>1 DEF RequestKept
    <3> QED BY <2>1, <3>1, <3>3, <3>8, <3>9 DEF Exact
  <2> QED BY <2>2, <2>3
<1> QED BY <1>1, <1>2, <1>3, <1>4, <1>6, <1>7, <1>8, SerialRequest

-----------------------------------------------------------------------------
(* Requests that go on: what a step does is what is due no longer.         *)

LEMMA InHand ==
    ASSUME Types, NeverThere, NEW h \in Handler
    PROVE  RequestOK(req[h]) /\ Was(req[h])
BY DEF Types, RequestsOK, NeverThere

\* A package that was there once and has not been deleted is there.
LEMMA LiveUnlessDeleted ==
    ASSUME Types, NEW p \in Package, pkg[p] # NoPackage, pkg[p] # Deleted
    PROVE  p \in Live
BY NoneAtStart DEF Types, PackagesOK, Live

LEMMA WritePackageExact ==
    ASSUME Types, NeverThere, NEW h \in Handler, Exact(req[h]), WritePackage(h)
    PROVE  Goes(h, Idle) /\ Exact(Idle)'
<1> DEFINE r == req[h]
<1>1. r.at = "writepackage" /\ r.package \in Package /\ pkg[r.package] # Deleted
  BY InHand DEF WritePackage, RequestOK, Exact, RequestKept
<1>2. KeepsDeleted
  BY <1>1 DEF WritePackage, KeepsDeleted, Types, PackagesOK
<1>3. UNCHANGED <<service, link, member, userCount, serviceCount, entry>>
  BY DEF WritePackage, counts
<1>4. UsersExact(Idle)'
  BY <1>1, <1>2, <1>3, SameUsers DEF Exact, DueUsers, Idle
<1>5. LinksExact(Idle)'
  BY <1>1, <1>2, <1>3, SameLinks, LinksUnchanged DEF Exact, DueLinks, Idle
<1>6. EntriesExact(Idle)'
  BY <1>1, <1>3, SameEntries, LinksUnchanged DEF Exact, Rewrites
<1>7. RequestKept(Idle)'
  BY DEF RequestKept, Idle
<1> QED BY <1>4, <1>5, <1>6, <1>7 DEF Exact, WritePackage, Ends

LEMMA InsertLinkExact ==
    ASSUME Types, NeverThere, NEW h \in Handler, Exact(req[h]), InsertLink(h)
    PROVE  \E q : Goes(h, q) /\ Exact(q)'
<1> DEFINE r == req[h]
<1>0. PICK p : p = r.doc.package
  OBVIOUS
<1>1. r.at = "insertlink" /\ r.n \in Link /\ r.doc \in LinkDocument /\ link[r.n] = NoLink
  BY InHand DEF InsertLink, RequestOK, Exact, RequestKept
<1>2. p \in Package /\ r.doc.service \in Service /\ r.doc # NoLink
  BY <1>0, <1>1, NoneAtStart DEF LinkDocument
<1>3. PICK q : Goes(h, q) /\ q = [at |-> "countlink", package |-> p, by |-> 1, service |-> r.doc.service, known |-> TRUE]
  BY <1>0 DEF InsertLink
<1>4. q.at = "countlink" /\ q.package = p /\ q.by = 1 /\ q.service = r.doc.service /\ q.known
  BY <1>3
<1>5. UNCHANGED <<pkg, service, member, userCount, serviceCount, entry>> /\ KeepsDeleted
  BY DEF InsertLink, counts, KeepsDeleted
<1>6. link'[r.n] = r.doc /\ \A n \in Link \ {r.n} : link'[n] = link[n]
  BY <1>1 DEF InsertLink, Types, LinksOK
<1>7. OwnLinks(p)' = OwnLinks(p) \cup {r.n} /\ r.n \notin OwnLinks(p)
  BY <1>0, <1>1, <1>2, <1>6 DEF OwnLinks
<1>8. \A x \in Package \ {p} : OwnLinks(x)' = OwnLinks(x)
  BY <1>0, <1>1, <1>6 DEF OwnLinks
<1>9. \A s \in Service \ {r.doc.service} : PackageIDs(s)' = PackageIDs(s)
  BY <1>1, <1>6 DEF PackageIDs, ServiceLinks
<1>10. UsersExact(q)'
  BY <1>1, <1>4, <1>5, SameUsers DEF Exact, DueUsers
<1>11. LinksExact(q)'
  <2> SUFFICES ASSUME NEW x \in Package, pkg[x] # Deleted
               PROVE  serviceCount[x] + DueLinks(q, x) = Cardinality(OwnLinks(x)')
    BY <1>5 DEF LinksExact, DueLinks
  <2>1. serviceCount[x] = Cardinality(OwnLinks(x)) /\ serviceCount[x] \in Int
    BY <1>1 DEF Exact, LinksExact, DueLinks, Types, CountsOK
  <2>2. CASE x = p
    <3>1. DueLinks(q, x) = 1
      BY <1>4, <2>2 DEF DueLinks
    <3>2. Cardinality(OwnLinks(p)') = Cardinality(OwnLinks(p)) + 1
      BY <1>7, FS_AddElement, OwnFinite
    <3> QED BY <2>1, <2>2, <3>1, <3>2
  <2>3. CASE x # p
    BY <1>4, <1>8, <2>1, <2>3 DEF DueLinks
  <2> QED BY <2>2, <2>3
<1>12. EntriesExact(q)'
  BY <1>1, <1>4, <1>5, <1>9 DEF EntriesExact, Exact, Rewrites, Types, EntryOK
<1>13. RequestKept(q)'
  BY <1>4 DEF RequestKept
<1> QED BY <1>3, <1>10, <1>11, <1>12, <1>13 DEF Exact

LEMMA DeleteOneLinkExact ==
    ASSUME Types, NeverThere, NEW h \in Handler, Exact(req[h]), DeleteOneLink(h)
    PROVE  \E q : Goes(h, q) /\ Exact(q)'
<1> DEFINE r == req[h]
<1>0. PICK p : p = r.package
  OBVIOUS
<1>1. /\ r.at = "deletelink" /\ p \in Package /\ r.service \in Service /\ r.known \in BOOLEAN
      /\ LinksOf(p, r.service) # {} /\ (r.known \/ r.service \notin service)
  BY <1>0, InHand DEF DeleteOneLink, RequestOK, Exact, RequestKept
<1>2. PICK n \in LinksOf(p, r.service) : link' = [link EXCEPT ![n] = NoLink]
  BY <1>0, <1>1 DEF DeleteOneLink
<1>3. PICK q : Goes(h, q) /\ q = [at |-> "countlink", package |-> p, by |-> -1, service |-> r.service, known |-> r.known]
  BY <1>0 DEF DeleteOneLink
<1>4. q.at = "countlink" /\ q.package = p /\ q.by = -1 /\ q.service = r.service /\ q.known = r.known
  BY <1>3
<1>5. UNCHANGED <<pkg, service, member, userCount, serviceCount, entry>> /\ KeepsDeleted
  BY DEF DeleteOneLink, counts, KeepsDeleted
<1>6. n \in Link /\ link[n] # NoLink /\ link[n].package = p /\ link[n].service = r.service
  BY <1>2 DEF LinksOf
<1>7. link'[n] = NoLink /\ \A m \in Link \ {n} : link'[m] = link[m]
  BY <1>2, <1>6 DEF Types, LinksOK
<1>8. OwnLinks(p)' = OwnLinks(p) \ {n} /\ n \in OwnLinks(p)
  BY <1>6, <1>7 DEF OwnLinks
<1>9. \A x \in Package \ {p} : OwnLinks(x)' = OwnLinks(x)
  BY <1>6, <1>7 DEF OwnLinks
<1>10. \A s \in Service \ {r.service} : PackageIDs(s)' = PackageIDs(s)
  BY <1>6, <1>7 DEF PackageIDs, ServiceLinks
<1>11. UsersExact(q)'
  BY <1>1, <1>4, <1>5, SameUsers DEF Exact, DueUsers
<1>12. LinksExact(q)'
  <2> SUFFICES ASSUME NEW x \in Package, pkg[x] # Deleted
               PROVE  serviceCount[x] + DueLinks(q, x) = Cardinality(OwnLinks(x)')
    BY <1>5 DEF LinksExact, DueLinks
  <2>1. serviceCount[x] = Cardinality(OwnLinks(x)) /\ serviceCount[x] \in Int
    BY <1>1 DEF Exact, LinksExact, DueLinks, Types, CountsOK
  <2>2. CASE x = p
    BY <1>4, <1>8, <2>1, <2>2, FS_RemoveElement, OwnFinite DEF DueLinks
  <2>3. CASE x # p
    BY <1>4, <1>9, <2>1, <2>3 DEF DueLinks
  <2> QED BY <2>2, <2>3
<1>13. EntriesExact(q)'
  BY <1>1, <1>4, <1>5, <1>10 DEF EntriesExact, Exact, Rewrites, Types, EntryOK
<1>14. RequestKept(q)'
  BY <1>1, <1>4, <1>5 DEF RequestKept
<1> QED BY <1>3, <1>11, <1>12, <1>13, <1>14 DEF Exact

LEMMA CountLinkExact ==
    ASSUME Types, NeverThere, NEW h \in Handler, Exact(req[h]), CountLink(h)
    PROVE  \E q : Goes(h, q) /\ Exact(q)'
<1> DEFINE r == req[h]
           p == r.package
<1>1. /\ r.at = "countlink" /\ p \in Package /\ r.by \in Int /\ r.service \in Service
      /\ pkg[p] # NoPackage /\ (r.known \/ r.service \notin service)
  BY InHand DEF CountLink, RequestOK, Exact, RequestKept, Was
<1>2. UNCHANGED <<pkg, service, link, member, userCount, entry>> /\ KeepsDeleted
  BY DEF CountLink, docs, KeepsDeleted
<1>3. PICK q : /\ Goes(h, q)
               /\ \/ r.known /\ q = [at |-> "readids", service |-> r.service]
                  \/ ~r.known /\ q = Idle
  BY DEF CountLink, Ends
<1>4. /\ q.at \in {"readids", "idle"}
      /\ r.service \in service => q.at = "readids" /\ q.service = r.service
  BY <1>1, <1>3 DEF Idle
<1>5. UsersExact(q)'
  BY <1>1, <1>2, <1>4, SameUsers DEF Exact, DueUsers
<1>6. LinksExact(q)'
  <2> SUFFICES ASSUME NEW x \in Package, pkg[x] # Deleted
               PROVE  serviceCount'[x] = Cardinality(OwnLinks(x))
    <3>1. \A x : DueLinks(q, x) = 0
      BY <1>4 DEF DueLinks
    <3>2. \A x \in Package : serviceCount'[x] \in Int
      BY <1>1 DEF CountLink, Types, CountsOK
    <3> QED BY <1>2, <3>1, <3>2, LinksUnchanged DEF LinksExact
  <2>1. serviceCount[x] + DueLinks(r, x) = Cardinality(OwnLinks(x)) /\ serviceCount[x] \in Int
    BY DEF Exact, LinksExact, Types, CountsOK
  <2>2. CASE x = p
    <3>1. p \in Live
      BY <1>1, <2>2, LiveUnlessDeleted
    <3>2. serviceCount'[x] = serviceCount[x] + r.by
      BY <1>1, <2>2, <3>1 DEF CountLink, Types, CountsOK
    <3> QED BY <1>1, <2>1, <2>2, <3>2 DEF DueLinks
  <2>3. CASE x # p
    <3>1. serviceCount'[x] = serviceCount[x]
      BY <1>1, <2>3 DEF CountLink, Types, CountsOK
    <3> QED BY <2>1, <2>3, <3>1 DEF DueLinks
  <2> QED BY <2>2, <2>3
<1>7. EntriesExact(q)'
  BY <1>1, <1>2, <1>4, SameEntries, LinksUnchanged DEF Exact, Rewrites
<1>8. RequestKept(q)'
  BY <1>4 DEF RequestKept
<1> QED BY <1>3, <1>5, <1>6, <1>7, <1>8 DEF Exact

LEMMA ReadPackageIDsExact ==
    ASSUME Types, NeverThere, NEW h \in Handler, Exact(req[h]), ReadPackageIDs(h)
    PROVE  \E q : Goes(h, q) /\ Exact(q)'
<1>1. PICK q : Goes(h, q) /\ q = [at |-> "writeentry", service |-> req[h].service, ids |-> PackageIDs(req[h].service)]
  BY DEF ReadPackageIDs
<1>2. PICK r : r = req[h]
  OBVIOUS
<1>3. r.at = "readids" /\ q.at = "writeentry" /\ q.service = r.service /\ q.ids = PackageIDs(r.service)
  BY <1>1, <1>2 DEF ReadPackageIDs
<1>4. RequestKept(q)
  BY <1>3 DEF RequestKept
<1>5. UNCHANGED <<docs, counts, entry>>
  BY DEF ReadPackageIDs
<1>6. Exact(q)'
  BY <1>2, <1>3, <1>4, <1>5, GoesOnExact DEF DueUsers, DueLinks, Rewrites
<1> QED BY <1>1, <1>6

LEMMA WriteEntryExact ==
    ASSUME Types, NeverThere, NEW h \in Handler, Exact(req[h]), WriteEntry(h)
    PROVE  Goes(h, Idle) /\ Exact(Idle)'
<1> DEFINE r == req[h]
<1>1. r.at = "writeentry" /\ r.service \in Service /\ r.ids = PackageIDs(r.service)
  BY InHand DEF WriteEntry, RequestOK, Exact, RequestKept
<1>2. UNCHANGED <<pkg, service, link, member, userCount, serviceCount>> /\ KeepsDeleted
  BY DEF WriteEntry, docs, counts, KeepsDeleted
<1>3. UsersExact(Idle)'
  BY <1>1, <1>2, SameUsers DEF Exact, DueUsers, Idle
<1>4. LinksExact(Idle)'
  BY <1>1, <1>2, SameLinks, LinksUnchanged DEF Exact, DueLinks, Idle
<1>5. EntriesExact(Idle)'
  <2> SUFFICES ASSUME NEW s \in service PROVE entry'[s] \in {PackageIDs(s)', Bare}
    BY <1>2 DEF EntriesExact
  <2>1. PackageIDs(s)' = PackageIDs(s)
    BY <1>2, LinksUnchanged
  <2>2. entry' = [entry EXCEPT ![r.service] = r.ids] /\ s \in Service
    BY DEF WriteEntry, Types, EntryOK
  <2>3. CASE s = r.service
    BY <1>1, <2>1, <2>2, <2>3 DEF Types, EntryOK
  <2>4. CASE s # r.service
    <3>1. entry[s] \in {PackageIDs(s), Bare}
      BY <2>4 DEF Exact, EntriesExact, Rewrites
    <3> QED BY <1>1, <2>1, <2>2, <2>4, <3>1 DEF Types, EntryOK
  <2> QED BY <2>3, <2>4
<1>6. RequestKept(Idle)'
  BY DEF RequestKept, Idle
<1> QED BY <1>3, <1>4, <1>5, <1>6 DEF Exact, WriteEntry, Ends

LEMMA CountOldExact ==
    ASSUME Types, NeverThere, NEW h \in Handler, Exact(req[h]), CountOld(h)
    PROVE  \E q : Goes(h, q) /\ Exact(q)'
<1> DEFINE left == [x \in Package |-> IF x = req[h].package THEN 0 ELSE Cardinality(Members(x) \cap req[h].users)]
<1>1. PICK q : Goes(h, q) /\ q = [at |-> "setpackage", package |-> req[h].package, users |-> req[h].users, left |-> left]
  BY DEF CountOld
<1>2. PICK r : r = req[h]
  OBVIOUS
<1>3. r.at = "countold" /\ q.at = "setpackage" /\ q.package = r.package /\ q.users = r.users /\ q.left = left
  BY <1>1, <1>2 DEF CountOld
<1>4. RequestKept(q)
  BY <1>2, <1>3 DEF RequestKept
<1>5. UNCHANGED <<docs, counts, entry>>
  BY DEF CountOld
<1> HIDE DEF left
<1>6. Exact(q)'
  BY <1>2, <1>3, <1>4, <1>5, GoesOnExact DEF DueUsers, DueLinks, Rewrites
<1> QED BY <1>1, <1>6

LEMMA SetPackageExact ==
    ASSUME Types, NeverThere, NEW h \in Handler, Exact(req[h]), SetPackage(h)
    PROVE  \E q : Goes(h, q) /\ Exact(q)'
<1>1. PICK r : r = req[h]
  OBVIOUS
<1>2. PICK p : p = r.package
  OBVIOUS
<1>3. PICK moved : moved = {u \in r.users : member[u] # p}
  OBVIOUS
<1>4. PICK by : by = [x \in Package |-> IF x = p THEN Cardinality(moved) ELSE - r.left[x]]
  OBVIOUS
<1>5. /\ r.at = "setpackage" /\ p \in Package /\ r.users \in SUBSET User /\ r.left \in [Package -> Nat]
      /\ pkg[p] # NoPackage
      /\ \A x \in Package : r.left[x] = IF x = p THEN 0 ELSE Cardinality(Members(x) \cap r.users)
  BY <1>1, <1>2, InHand DEF SetPackage, RequestOK, Exact, RequestKept, Was
<1>6. PICK q : Goes(h, q) /\ q = IF moved = {} THEN Idle ELSE [at |-> "countusers", by |-> by]
  BY <1>1, <1>2, <1>3, <1>4 DEF SetPackage, Ends
<1>7. member' = [u \in User |-> IF u \in moved THEN p ELSE member[u]]
  BY <1>1, <1>2, <1>3 DEF SetPackage
<1>8. UNCHANGED <<pkg, service, link, userCount, serviceCount, entry>> /\ KeepsDeleted
  BY DEF SetPackage, counts, KeepsDeleted
<1>9. /\ (q.at = "idle" /\ moved = {}) \/ (q.at = "countusers" /\ q.by = by)
      /\ \A x \in Package : DueUsers(q, x) = by[x]
  <2>1. CASE moved = {}
    <3>1. q.at = "idle"
      BY <1>6, <2>1 DEF Idle
    <3>2. \A x \in Package : Members(x) \cap r.users = {} \/ x = p
      BY <1>3, <2>1 DEF Members
    <3>3. Cardinality(moved) = 0 /\ Cardinality({}) = 0
      BY <2>1, FS_EmptySet, Zenon
    <3>4. \A x \in Package : x # p => r.left[x] = 0
      BY <1>5, <3>2, <3>3
    <3>5. \A x \in Package : by[x] = 0
      BY <1>4, <3>3, <3>4
    <3>6. \A x \in Package : DueUsers(q, x) = 0
      BY <3>1 DEF DueUsers
    <3> QED BY <2>1, <3>1, <3>5, <3>6
  <2>2. CASE moved # {}
    <3>1. q.at = "countusers" /\ q.by = by
      BY <1>6, <2>2
    <3> QED BY <3>1 DEF DueUsers
  <2> QED BY <2>1, <2>2
<1>10. Members(p)' = Members(p) \cup moved /\ Members(p) \cap moved = {}
  BY <1>3, <1>5, <1>7 DEF Members
<1>11. \A x \in Package \ {p} : Members(x)' = Members(x) \ (Members(x) \cap r.users)
  BY <1>3, <1>5, <1>7 DEF Members
<1>12. UsersExact(q)'
  <2> SUFFICES ASSUME NEW x \in Package, pkg[x] # Deleted
               PROVE  userCount[x] + by[x] = Cardinality(Members(x)')
    BY <1>8, <1>9 DEF UsersExact, DueUsers
  <2>1. userCount[x] = Cardinality(Members(x)) /\ userCount[x] \in Int
    BY <1>1, <1>5 DEF Exact, UsersExact, DueUsers, Types, CountsOK
  <2>2. CASE x = p
    <3>1. IsFiniteSet(moved)
      BY <1>3, <1>5, MembersFinite
    <3>2. Cardinality(Members(p)') = Cardinality(Members(p)) + Cardinality(moved)
      BY <1>10, <3>1, CardPlus, OwnFinite
    <3>3. by[p] = Cardinality(moved)
      BY <1>4, <1>5
    <3> QED BY <2>1, <2>2, <3>2, <3>3
  <2>3. CASE x # p
    <3>1. Members(x) \cap r.users \in SUBSET Members(x) /\ IsFiniteSet(Members(x))
      BY OwnFinite
    <3>2. Cardinality(Members(x)') = Cardinality(Members(x)) - Cardinality(Members(x) \cap r.users)
      BY <1>11, <2>3, <3>1, CardMinus
    <3>3. by[x] = - Cardinality(Members(x) \cap r.users)
      BY <1>4, <1>5, <2>3
    <3>4. Cardinality(Members(x) \cap r.users) \in Int
      BY <1>5, MembersFinite
    <3> QED BY <2>1, <3>2, <3>3, <3>4
  <2> QED BY <2>2, <2>3
<1>13. LinksExact(q)'
  BY <1>1, <1>5, <1>8, <1>9, SameLinks, LinksUnchanged DEF Exact, DueLinks
<1>14. EntriesExact(q)'
  BY <1>1, <1>5, <1>8, <1>9, SameEntries, LinksUnchanged DEF Exact, Rewrites
<1>15. RequestKept(q)'
  <2>1. ASSUME NEW x \in Package, pkg[x] = NoPackage PROVE by[x] = 0
    <3>1. x # p /\ Members(x) \cap r.users = {}
      BY <1>5, <2>1 DEF NeverThere
    <3>2. r.left[x] = 0
      BY <1>5, <3>1, FS_EmptySet
    <3> QED BY <1>4, <3>1, <3>2
  <2> QED BY <1>8, <1>9, <2>1 DEF RequestKept
<1> QED BY <1>6, <1>12, <1>13, <1>14, <1>15 DEF Exact

LEMMA CountUsersExact ==
    ASSUME Types, NeverThere, NEW h \in Handler, Exact(req[h]), NEW x \in Package, CountUsers(h, x)
    PROVE  \E q : Goes(h, q) /\ Exact(q)'
<1>1. PICK r : r = req[h]
  OBVIOUS
<1>2. r \in [at : {"countusers"}, by : [Package -> Int]] /\ r.at = "countusers" /\ r.by[x] # 0 /\ pkg[x] # NoPackage
  BY <1>1, InHand DEF CountUsers, Uncounted, RequestOK, Exact, RequestKept
<1>3. UNCHANGED <<pkg, service, link, member, serviceCount, entry>> /\ KeepsDeleted
  BY DEF CountUsers, docs, KeepsDeleted
<1>4. PICK q : /\ Goes(h, q)
               /\ \/ Uncounted(h) = {x} /\ q = Idle
                  \/ q = [r EXCEPT !.by = [@ EXCEPT ![x] = 0]]
  BY <1>1 DEF CountUsers, Counted, Ends
<1>5. /\ q.at = "idle" \/ (q.at = "countusers" /\ q.by = [r.by EXCEPT ![x] = 0])
      /\ DueUsers(q, x) = 0
      /\ \A y \in Package \ {x} : DueUsers(q, y) = r.by[y]
  <2>1. CASE Uncounted(h) = {x} /\ q = Idle
    <3>1. \A y \in Package \ {x} : r.by[y] = 0
      BY <1>1, <2>1 DEF Uncounted
    <3>2. q.at = "idle"
      BY <2>1 DEF Idle
    <3>3. \A y \in Package : DueUsers(q, y) = 0
      BY <3>2 DEF DueUsers
    <3> QED BY <3>1, <3>2, <3>3
  <2>2. CASE q = [r EXCEPT !.by = [@ EXCEPT ![x] = 0]]
    <3>1. q.at = "countusers" /\ q.by = [r.by EXCEPT ![x] = 0]
      BY <1>2, <2>2
    <3> QED BY <1>2, <3>1 DEF DueUsers
  <2> QED BY <1>4, <2>1, <2>2
<1>6. UsersExact(q)'
  <2> SUFFICES ASSUME NEW y \in Package, pkg[y] # Deleted
               PROVE  userCount'[y] + DueUsers(q, y) = Cardinality(Members(y))
    <3>1. \A y : Members(y)' = Members(y)
      BY <1>3 DEF Members
    <3> QED BY <1>3, <3>1 DEF UsersExact, DueUsers
  <2>1. userCount[y] + r.by[y] = Cardinality(Members(y)) /\ userCount[y] \in Int /\ r.by[y] \in Int
    BY <1>1, <1>2 DEF Exact, UsersExact, DueUsers, Types, CountsOK
  <2>2. CASE y = x
    <3>1. x \in Live
      BY <1>2, <2>2, LiveUnlessDeleted
    <3>2. userCount'[x] = userCount[x] + r.by[x]
      BY <1>1, <3>1 DEF CountUsers, Types, CountsOK
    <3> QED BY <1>5, <2>1, <2>2, <3>2
  <2>3. CASE y # x
    <3>1. userCount'[y] = userCount[y]
      BY <2>3 DEF CountUsers, Types, CountsOK
    <3> QED BY <1>5, <2>1, <2>3, <3>1
  <2> QED BY <2>2, <2>3
<1>7. LinksExact(q)'
  BY <1>1, <1>2, <1>3, <1>5, SameLinks, LinksUnchanged DEF Exact, DueLinks
<1>8. EntriesExact(q)'
  BY <1>1, <1>2, <1>3, <1>5, SameEntries, LinksUnchanged DEF Exact, Rewrites
<1>9. RequestKept(q)'
  <2>1. \A y \in Package : pkg[y] = NoPackage => r.by[y] = 0
    BY <1>1, <1>2 DEF Exact, RequestKept
  <2> QED BY <1>2, <1>3, <1>5, <2>1 DEF RequestKept
<1> QED BY <1>4, <1>6, <1>7, <1>8, <1>9 DEF Exact

LEMMA ContinueExact ==
    ASSUME Types, NeverThere, NEW h \in Handler, Exact(req[h]), Continue(h), serial'
    PROVE  \E q : Goes(h, q) /\ Exact(q)'
BY SerialContinue, WritePackageExact, InsertLinkExact, DeleteOneLinkExact, CountLinkExact, ReadPackageIDsExact,
   WriteEntryExact, CountOldExact, SetPackageExact, CountUsersExact

-----------------------------------------------------------------------------
(* One at a time.                                                          *)

LEMMA ExactOfEqual ==
    ASSUME NEW h, NEW q, req'[h] = q, Exact(q)'
    PROVE  Exact(req[h])'
<1>1. RequestKept(req[h])'
  BY DEF Exact, RequestKept
<1>2. UsersExact(req[h])' /\ LinksExact(req[h])' /\ EntriesExact(req[h])'
  BY DEF Exact, UsersExact, DueUsers, LinksExact, DueLinks, EntriesExact, Rewrites
<1> QED BY <1>1, <1>2 DEF Exact

\* After a step of the only request at hand.
LEMMA HandlerKeeps ==
    ASSUME Types, sync = NoSync, UNCHANGED sync, NEW h \in Handler, Alone(h),
           NEW q, (UNCHANGED req /\ req[h] = q) \/ Goes(h, q), Exact(q)'
    PROVE  OneAtATime'
<1>1. req'[h] = q /\ \A g \in Handler \ {h} : req'[g] = Idle
  BY DEF Goes, Alone, Types, RequestsOK
<1>2. Alone(h)' /\ Exact(req[h])'
  BY <1>1, ExactOfEqual DEF Alone
<1>3. ASSUME NEW g \in Handler, (req[g] # Idle)' PROVE Alone(g)'
  BY <1>1, <1>3 DEF Alone
<1>4. ASSUME NEW g \in Handler, Alone(g)' PROVE Exact(req[g])'
  <2>1. CASE g = h
    BY <1>2, <2>1
  <2>2. CASE g # h
    <3>1. q = Idle /\ req'[g] = q
      BY <1>1, <1>4, <2>2 DEF Alone
    <3> QED BY <3>1, ExactOfEqual
  <2> QED BY <2>1, <2>2
<1>5. SyncKept'
  BY DEF SyncKept
<1> QED BY <1>3, <1>4, <1>5 DEF OneAtATime

LEMMA RequestKeeps ==
    ASSUME Types, NeverThere, OneAtATime, NEW h \in Handler, Request(h), serial'
    PROVE  OneAtATime'
<1>1. serial /\ sync = NoSync /\ UNCHANGED sync /\ \A g \in Handler : req[g] = Idle
  BY SerialRequest
<1>2. Alone(h) /\ Exact(req[h])
  BY <1>1 DEF OneAtATime, Alone
<1>3. Exact(Idle)
  <2>1. PICK r : r = req[h]
    OBVIOUS
  <2> QED BY <1>1, <1>2, <2>1
<1>4. \E q : ((UNCHANGED req /\ req[h] = q) \/ Goes(h, q)) /\ Exact(q)'
  BY <1>1, <1>3, BeginExact
<1> QED BY <1>1, <1>2, <1>4, HandlerKeeps

LEMMA ContinueKeeps ==
    ASSUME Types, NeverThere, OneAtATime, NEW h \in Handler, Continue(h), serial'
    PROVE  OneAtATime'
<1>1. serial /\ UNCHANGED sync /\ req[h] # Idle
  BY SerialContinue
<1>2. Alone(h) /\ sync = NoSync /\ Exact(req[h])
  BY <1>1 DEF OneAtATime, SyncKept
<1> QED BY <1>1, <1>2, ContinueExact, HandlerKeeps

\* After a step of somebody else.
LEMMA OthersKeep ==
    ASSUME OneAtATime, serial, UNCHANGED req, SyncKept',
           ASSUME NEW h \in Handler, Alone(h), NEW r, r = req[h], Exact(r) PROVE Exact(r)'
    PROVE  OneAtATime'
<1>1. ASSUME NEW g \in Handler, (req[g] # Idle)' PROVE Alone(g)'
  BY <1>1 DEF OneAtATime, Alone
<1>2. ASSUME NEW g \in Handler, Alone(g)' PROVE Exact(req[g])'
  <2>1. PICK r : r = req[g]
    OBVIOUS
  <2>2. Alone(g) /\ Exact(r)
    BY <1>2, <2>1 DEF Alone, OneAtATime
  <2>3. Exact(r)'
    BY <2>1, <2>2
  <2> QED BY <2>1, <2>3, ExactOfEqual
<1> QED BY <1>1, <1>2 DEF OneAtATime

LEMMA DeleteServiceKeeps ==
    ASSUME Types, OneAtATime, NEW s \in Service, DeleteService(s), serial'
    PROVE  OneAtATime'
<1>1. /\ serial /\ UNCHANGED <<req, sync, pkg, link, member, userCount, serviceCount>> /\ KeepsDeleted
      /\ service' = service \ {s}
  BY DEF DeleteService, counts, KeepsDeleted
<1>2. \A x \in service' : x \in Service /\ entry'[x] = entry[x]
  BY DEF DeleteService, Types, EntryOK
<1>3. \A p : Members(p)' = Members(p)
  BY <1>1 DEF Members
<1>4. ASSUME NEW r, Exact(r) PROVE Exact(r)'
  <2>1. UsersExact(r)'
    BY <1>1, <1>4, SameUsers DEF Exact
  <2>2. LinksExact(r)'
    BY <1>1, <1>4, SameLinks, LinksUnchanged DEF Exact
  <2>3. EntriesExact(r)'
    BY <1>1, <1>2, <1>4, LinksUnchanged DEF Exact, EntriesExact, Rewrites
  <2>4. (r.at = "setpackage" =>
           \A p \in Package : r.left[p] = IF p = r.package THEN 0 ELSE Cardinality(Members(p) \cap r.users))'
    BY <1>3, <1>4 DEF Exact, RequestKept
  <2>5. RequestKept(r)'
    BY <1>1, <1>4, <2>4, LinksUnchanged DEF Exact, RequestKept
  <2> QED BY <2>1, <2>2, <2>3, <2>5 DEF Exact
<1>5. SyncKept'
  <2>1. \A p : OwnLinks(p)' = OwnLinks(p)
    BY <1>1, LinksUnchanged
  <2>2. \A x : PackageIDs(x)' = PackageIDs(x)
    BY <1>1, LinksUnchanged
  <2> QED BY <1>1, <1>3, <2>1, <2>2 DEF SyncKept, OneAtATime
<1> QED BY <1>1, <1>4, <1>5, OthersKeep

\* An entry that one of these writes is exact, or bare, whatever the request at hand has yet to do.
LEMMA EntryKeeps ==
    ASSUME Types, OneAtATime, serial, UNCHANGED <<docs, counts, req>>, UNCHANGED sync \/ sync' = NoSync,
           NEW s \in Service, NEW ids \in {PackageIDs(s), Bare}, entry' = [entry EXCEPT ![s] = ids]
    PROVE  OneAtATime'
<1>1. /\ UNCHANGED <<req, pkg, service, link, member, userCount, serviceCount>> /\ KeepsDeleted
  BY DEF counts, docs, KeepsDeleted
<1>2. \A x \in service : x \in Service /\ entry'[x] \in {entry[x], PackageIDs(x), Bare}
  BY DEF Types, EntryOK
<1>3. \A p : Members(p)' = Members(p)
  BY <1>1 DEF Members
<1>4. ASSUME NEW r, Exact(r) PROVE Exact(r)'
  <2>1. UsersExact(r)'
    BY <1>1, <1>4, SameUsers DEF Exact
  <2>2. LinksExact(r)'
    BY <1>1, <1>4, SameLinks, LinksUnchanged DEF Exact
  <2>3. EntriesExact(r)'
    BY <1>1, <1>2, <1>4, LinksUnchanged DEF Exact, EntriesExact, Rewrites
  <2>4. (r.at = "setpackage" =>
           \A p \in Package : r.left[p] = IF p = r.package THEN 0 ELSE Cardinality(Members(p) \cap r.users))'
    BY <1>3, <1>4 DEF Exact, RequestKept
  <2>5. RequestKept(r)'
    BY <1>1, <1>4, <2>4, LinksUnchanged DEF Exact, RequestKept
  <2> QED BY <2>1, <2>2, <2>3, <2>5 DEF Exact
<1>5. SyncKept'
  <2>1. \A p : OwnLinks(p)' = OwnLinks(p)
    BY <1>1, LinksUnchanged
  <2>2. \A x : PackageIDs(x)' = PackageIDs(x)
    BY <1>1, LinksUnchanged
  <2>3. CASE sync' = NoSync
    BY <2>3 DEF SyncKept
  <2>4. CASE UNCHANGED sync
    BY <1>1, <1>3, <2>1, <2>2, <2>4 DEF SyncKept, OneAtATime
  <2> QED BY <2>3, <2>4
<1> QED BY <1>1, <1>4, <1>5, OthersKeep

LEMMA EditServiceKeeps ==
    ASSUME Types, OneAtATime, NEW s \in Service, EditService(s), serial'
    PROVE  OneAtATime'
BY EntryKeeps DEF EditService

LEMMA BootReadsKeeps ==
    ASSUME Types, OneAtATime, NEW s \in Service, BootReads(s), serial'
    PROVE  OneAtATime'
<1>1. serial /\ UNCHANGED <<docs, counts, entry, req>> /\ \A h \in Handler : req[h] = Idle
  BY DEF BootReads, Undisturbed
<1>2. PICK job : sync' = job /\ job = [at |-> "entry", service |-> s, ids |-> PackageIDs(s)]
  BY DEF BootReads
<1>3. ASSUME NEW r, Exact(r) PROVE Exact(r)'
  BY <1>1, <1>3, GoesOnExact DEF Exact
<1>4. SyncKept'
  <2>1. job.at = "entry" /\ job.service = s /\ job.ids = PackageIDs(s)
    BY <1>2
  <2>2. PackageIDs(s)' = PackageIDs(s)
    BY <1>1, LinksUnchanged DEF docs
  <2> QED BY <1>1, <1>2, <2>1, <2>2 DEF SyncKept
<1> QED BY <1>1, <1>3, <1>4, OthersKeep

LEMMA BootWritesKeeps ==
    ASSUME Types, OneAtATime, BootWrites, serial'
    PROVE  OneAtATime'
<1>1. serial /\ UNCHANGED <<docs, counts, req>> /\ sync' = NoSync /\ sync.at = "entry"
      /\ entry' = [entry EXCEPT ![sync.service] = sync.ids]
  BY DEF BootWrites
<1>2. sync.service \in Service
  BY <1>1 DEF Types, SyncOK, NoSync
<1>3. sync.ids = PackageIDs(sync.service)
  BY <1>1 DEF OneAtATime, SyncKept, NoSync
<1> QED BY <1>1, <1>2, <1>3, EntryKeeps

LEMMA SyncReadsKeeps ==
    ASSUME Types, OneAtATime, NEW kind \in {"users", "services"}, SyncReads(kind), serial'
    PROVE  OneAtATime'
<1> DEFINE count(p) == IF kind = "users" THEN Cardinality(Members(p)) ELSE LinkCount(p)
           rows == [p \in {x \in Package : count(x) > 0} |-> count(p)]
<1>1. serial /\ UNCHANGED <<docs, counts, entry, req>> /\ \A h \in Handler : req[h] = Idle
  BY DEF SyncReads, Undisturbed
<1>2. PICK job : sync' = job /\ job = [at |-> kind, rows |-> rows]
  BY DEF SyncReads
<1>3. ASSUME NEW r, Exact(r) PROVE Exact(r)'
  BY <1>1, <1>3, GoesOnExact DEF Exact
<1>4. SyncKept'
  <2>1. job.at = kind /\ job.rows = rows
    BY <1>2
  <2>2. \A p \in DOMAIN rows : p \in Package /\ rows[p] = count(p)
    OBVIOUS
  <2>3. \A p \in Package : count(p) = IF kind = "users" THEN Cardinality(Members(p)) ELSE Cardinality(OwnLinks(p))
    BY LinkCountIs
  <2>4. \A p : Members(p)' = Members(p) /\ OwnLinks(p)' = OwnLinks(p)
    BY <1>1 DEF docs, Members, OwnLinks
  <2> HIDE DEF rows, count
  <2> QED BY <1>1, <1>2, <2>1, <2>2, <2>3, <2>4 DEF SyncKept
<1> QED BY <1>1, <1>3, <1>4, OthersKeep

LEMMA SyncWritesKeeps ==
    ASSUME Types, OneAtATime, NEW p \in Package, SyncWrites(p), serial'
    PROVE  OneAtATime'
<1>1. /\ serial /\ sync # NoSync /\ sync.at \in {"users", "services"}
      /\ UNCHANGED <<pkg, service, link, member, entry, req>> /\ KeepsDeleted
      /\ p \in DOMAIN sync.rows
      /\ sync' = [sync EXCEPT !.rows = [x \in DOMAIN @ \ {p} |-> @[x]]]
  BY DEF SyncWrites, Counting, NoSync, docs, KeepsDeleted
<1>2. /\ \A h \in Handler : req[h] = Idle
      /\ \A x \in DOMAIN sync.rows :
             sync.rows[x] = IF sync.at = "users" THEN Cardinality(Members(x)) ELSE Cardinality(OwnLinks(x))
  BY <1>1 DEF OneAtATime, SyncKept
<1>3. \A x : Members(x)' = Members(x) /\ OwnLinks(x)' = OwnLinks(x)
  BY <1>1 DEF Members, OwnLinks
<1>4. ASSUME NEW r, r = Idle, Exact(r) PROVE Exact(r)'
  <2>1. UsersExact(r)'
    <3>1. CASE UNCHANGED userCount
      BY <1>1, <1>4, <3>1, SameUsers DEF Exact
    <3>2. CASE userCount' = [userCount EXCEPT ![p] = Cardinality(Members(p))]
      <4>1. \A x \in Package : DueUsers(r, x) = 0
        BY <1>4 DEF DueUsers, Idle
      <4>2. \A x \in Package : pkg[x] # Deleted => userCount[x] + 0 = Cardinality(Members(x))
        BY <1>4, <4>1 DEF Exact, UsersExact
      <4>3. \A x \in Package : pkg[x] # Deleted => userCount'[x] + 0 = Cardinality(Members(x))
        BY <3>2, <4>2, OwnFinite DEF Types, CountsOK
      <4> QED BY <1>1, <1>3, <4>1, <4>3 DEF UsersExact, DueUsers
    <3> QED BY <1>1, <1>2, <3>1, <3>2 DEF SyncWrites
  <2>2. LinksExact(r)'
    <3>1. CASE UNCHANGED serviceCount
      BY <1>1, <1>3, <1>4, <3>1, SameLinks DEF Exact
    <3>2. CASE serviceCount' = [serviceCount EXCEPT ![p] = Cardinality(OwnLinks(p))]
      <4>1. \A x \in Package : DueLinks(r, x) = 0
        BY <1>4 DEF DueLinks, Idle
      <4>2. \A x \in Package : pkg[x] # Deleted => serviceCount[x] + 0 = Cardinality(OwnLinks(x))
        BY <1>4, <4>1 DEF Exact, LinksExact
      <4>3. \A x \in Package : pkg[x] # Deleted => serviceCount'[x] + 0 = Cardinality(OwnLinks(x))
        BY <3>2, <4>2, OwnFinite DEF Types, CountsOK
      <4> QED BY <1>1, <1>3, <4>1, <4>3 DEF LinksExact, DueLinks
    <3> QED BY <1>1, <1>2, <3>1, <3>2 DEF SyncWrites
  <2>3. EntriesExact(r)'
    BY <1>1, <1>4, SameEntries, LinksUnchanged DEF Exact
  <2>4. RequestKept(r)'
    BY <1>4 DEF RequestKept, Idle
  <2> QED BY <2>1, <2>2, <2>3, <2>4 DEF Exact
<1>5. SyncKept'
  <2>1. sync \in [at : {"users", "services"}, rows : UNION {[S -> Int] : S \in SUBSET Package}]
    BY <1>1 DEF Types, SyncOK
  <2>2. PICK job : job = sync'
    OBVIOUS
  <2>3. /\ job.at = sync.at /\ DOMAIN job.rows = DOMAIN sync.rows \ {p}
        /\ \A x \in DOMAIN job.rows : job.rows[x] = sync.rows[x]
    BY <1>1, <2>1, <2>2
  <2> QED BY <1>1, <1>2, <1>3, <2>2, <2>3 DEF SyncKept
<1> QED BY <1>1, <1>2, <1>4, <1>5, OthersKeep

LEMMA NextOneAtATime == Types /\ NeverThere /\ OneAtATime /\ [Next]_vars => OneAtATime'
<1> SUFFICES ASSUME Types, NeverThere, OneAtATime, [Next]_vars, serial' PROVE OneAtATime'
  BY DEF OneAtATime
<1>1. CASE SyncEnds \/ UNCHANGED vars
  <2>1. serial /\ UNCHANGED <<docs, counts, entry, req>> /\ (UNCHANGED sync \/ sync' = NoSync)
    BY <1>1 DEF SyncEnds, vars
  <2>2. \A p : Members(p)' = Members(p) /\ OwnLinks(p)' = OwnLinks(p)
    BY <2>1 DEF docs, Members, OwnLinks
  <2>3. SyncKept'
    <3>1. \A x : PackageIDs(x)' = PackageIDs(x)
      BY <2>1, LinksUnchanged DEF docs
    <3> QED BY <2>1, <2>2, <3>1 DEF SyncKept, OneAtATime
  <2>4. ASSUME NEW r, Exact(r) PROVE Exact(r)'
    BY <2>1, <2>4, GoesOnExact DEF Exact
  <2> QED BY <2>1, <2>3, <2>4, OthersKeep
<1>2. CASE Others
  <2>1. ASSUME NEW u \in User, NEW p \in Package \cup {None}, EditUser(u, p) PROVE FALSE
    BY <2>1 DEF EditUser
  <2> QED BY <1>1, <1>2, <2>1, DeleteServiceKeeps, EditServiceKeeps, BootReadsKeeps, BootWritesKeeps,
             SyncReadsKeeps, SyncWritesKeeps DEF Others
<1> QED BY <1>1, <1>2, RequestKeeps, ContinueKeeps DEF Next

LEMMA InitExact == Init => NeverThere /\ OneAtATime
<1> SUFFICES ASSUME Init PROVE NeverThere /\ OneAtATime
  OBVIOUS
<1>1. /\ \A h \in Handler : req[h] = Idle
      /\ \A n \in Link : link[n] = NoLink
      /\ sync = NoSync
  BY DEF Init
<1>2. \A p : OwnLinks(p) = {}
  BY <1>1 DEF OwnLinks
<1>3. \A s : PackageIDs(s) = {}
  BY <1>1 DEF PackageIDs, ServiceLinks
<1>4. NeverThere
  <2>1. ASSUME NEW p \in Package, pkg[p] = NoPackage PROVE Members(p) = {}
    <3>1. p \notin Live /\ p # None
      BY <2>1, NoneAtStart, PackagesAssumption DEF Live
    <3> QED BY <3>1 DEF Init, Members
  <2>2. \A h \in Handler : Was(req[h])
    BY <1>1 DEF Was, Idle
  <2> QED BY <1>1, <1>2, <2>1, <2>2 DEF NeverThere
<1>5. Exact(Idle)
  <2>1. RequestKept(Idle)
    BY DEF RequestKept, Idle
  <2>2. \A p \in Package : DueUsers(Idle, p) = 0 /\ DueLinks(Idle, p) = 0
    BY DEF DueUsers, DueLinks, Idle
  <2>3. UsersExact(Idle)
    BY <2>2, OwnFinite DEF Init, UsersExact
  <2>4. \A p : Cardinality(OwnLinks(p)) = 0
    BY <1>2, FS_EmptySet
  <2>5. LinksExact(Idle)
    BY <2>2, <2>4 DEF Init, LinksExact
  <2>6. EntriesExact(Idle)
    BY <1>3 DEF Init, EntriesExact
  <2> QED BY <2>1, <2>3, <2>5, <2>6 DEF Exact
<1>6. OneAtATime
  <2>1. ASSUME NEW h \in Handler PROVE Exact(req[h])
    <3>1. PICK r : r = req[h] /\ r = Idle
      BY <1>1
    <3> QED BY <1>5, <3>1
  <2> QED BY <1>1, <2>1 DEF OneAtATime, SyncKept
<1> QED BY <1>4, <1>6

\* As long as requests come one at a time, nothing fails and nobody else edits a user, the counters of
\* a package are those of its members and links, and the entry of a service in Redis names the packages
\* it is linked to or, if SyncService wrote it last, none, whenever no request is at hand: PackageService
\* and PackageSvcLinkService count what they moved, linked and unlinked, and nothing else.
THEOREM CountsAreExact == Spec => []SerialExact
<1> DEFINE IInv == Types /\ NeverThere /\ OneAtATime
<1>1. Init => IInv
  BY InitTypes, InitExact
<1>2. IInv /\ [Next]_vars => IInv'
  BY NextTypes, NextNeverThere, NextOneAtATime
<1>3. IInv => SerialExact
  <2> SUFFICES ASSUME Types, OneAtATime, serial, Quiet
               PROVE  /\ \A p \in Live : /\ userCount[p] = Cardinality(Members(p))
                                         /\ serviceCount[p] = LinkCount(p)
                      /\ \A s \in service : entry[s] \in {PackageIDs(s), Bare}
    BY DEF SerialExact
  <2>1. PICK h \in Handler : TRUE
    BY PackagesAssumption
  <2>2. PICK r : r = req[h] /\ r = Idle
    BY <2>1 DEF Quiet
  <2>3. Exact(r)
    BY <2>1, <2>2 DEF OneAtATime, Alone, Quiet
  <2>4. ASSUME NEW p \in Live
        PROVE  userCount[p] = Cardinality(Members(p)) /\ serviceCount[p] = LinkCount(p)
    <3>1. p \in Package /\ pkg[p] # Deleted
      BY NoneAtStart DEF Live
    <3>2. DueUsers(r, p) = 0 /\ DueLinks(r, p) = 0
      BY <2>2 DEF DueUsers, DueLinks, Idle
    <3>3. userCount[p] + 0 = Cardinality(Members(p)) /\ serviceCount[p] + 0 = Cardinality(OwnLinks(p))
      BY <2>3, <3>1, <3>2 DEF Exact, UsersExact, LinksExact
    <3> QED BY <3>1, <3>3, LinkCountIs DEF Types, CountsOK
  <2>5. \A s \in service : entry[s] \in {PackageIDs(s), Bare}
    BY <2>2, <2>3 DEF Exact, EntriesExact, Rewrites, Idle
  <2> QED BY <2>4, <2>5
<1> QED BY <1>1, <1>2, <1>3, PTL DEF Spec

-----------------------------------------------------------------------------
(* The loops that build and search a limit map.  Induction over their      *)
(* passes comes from the least element of a set of naturals.               *)

\* A set of naturals has a least element.
LEMMA Least ==
    ASSUME NEW S, S \subseteq Nat, S # {}
    PROVE  \E m \in S : \A n \in S : m <= n
<1>1. PICK m \in S : \A n \in S : ~(<<n, m>> \in OpToRel(<, Nat))
  BY WFMin, NatLessThanWellFounded, Zenon
<1>2. \A n \in S : ~(n < m)
  BY <1>1 DEF OpToRel
<1> QED BY <1>2

\* Induction over the passes of a loop.
Advances(N, T) == 0 \in T /\ \A n \in 1 .. N : n - 1 \in T => n \in T
LEMMA Steps ==
    ASSUME NEW N \in Nat, NEW T, Advances(N, T)
    PROVE  N \in T
<1> USE DEF Advances
<1> DEFINE Bad == {n \in 0 .. N : n \notin T}
<1> SUFFICES ASSUME Bad # {} PROVE FALSE
  OBVIOUS
<1>1. Bad \subseteq Nat
  OBVIOUS
<1>2. PICK m \in Bad : \A n \in Bad : m <= n
  BY <1>1, Least
<1>3. m # 0 /\ m \in 0 .. N /\ m \notin T
  OBVIOUS
<1>4. m - 1 \in 0 .. N /\ m - 1 \notin Bad
  BY <1>2, <1>3
<1> QED BY <1>3, <1>4

\* A loop of N passes, each of which makes a value of S of the one before, has a value of S after each.
Closed(N, S, step) == \A n \in 1 .. N, x \in S : step[<<n, x>>] \in S
Run(N, S, base, step, f) ==
    f \in [0 .. N -> S] /\ f[0] = base /\ \A n \in 1 .. N : f[n] = step[<<n, f[n - 1]>>]
LEMMA Loops ==
    ASSUME NEW N \in Nat, NEW S, NEW base \in S, NEW step, Closed(N, S, step)
    PROVE  \E f : Run(N, S, base, step, f)
<1> DEFINE T == {k \in 0 .. N : \E f : Run(k, S, base, step, f)}
<1>1. 0 \in T
  <2> DEFINE f == [n \in 0 .. 0 |-> base]
  <2>1. Run(0, S, base, step, f)
    BY DEF Run
  <2> HIDE DEF f
  <2> QED BY <2>1
<1>2. ASSUME NEW k \in 1 .. N, k - 1 \in T PROVE k \in T
  <2>1. PICK f : Run(k - 1, S, base, step, f)
    BY <1>2
  <2> DEFINE g == [n \in 0 .. k |-> IF n = k THEN step[<<k, f[k - 1]>>] ELSE f[n]]
  <2>2. step[<<k, f[k - 1]>>] \in S
    BY <2>1 DEF Run, Closed
  <2>3. g \in [0 .. k -> S] /\ g[0] = base
    BY <2>1, <2>2 DEF Run
  <2>4. ASSUME NEW n \in 1 .. k PROVE g[n] = step[<<n, g[n - 1]>>]
    <3>1. n \in 0 .. k /\ n - 1 \in 0 .. k /\ n - 1 # k
      OBVIOUS
    <3>2. g[n - 1] = f[n - 1]
      BY <3>1
    <3>3. CASE n = k
      BY <3>1, <3>2, <3>3
    <3>4. CASE n # k
      <4>1. n \in 1 .. k - 1
        BY <3>4
      <4>2. f[n] = step[<<n, f[n - 1]>>]
        BY <2>1, <4>1 DEF Run
      <4>3. g[n] = f[n]
        BY <3>1, <3>4
      <4> QED BY <3>2, <4>2, <4>3
    <3> QED BY <3>3, <3>4
  <2>5. Run(k, S, base, step, g)
    BY <2>3, <2>4 DEF Run
  <2> HIDE DEF g
  <2> QED BY <2>5
<1>3. N \in T
  <2> HIDE DEF T
  <2>1. Advances(N, T)
    BY <1>1, <1>2 DEF Advances
  <2> QED BY <2>1, Steps
<1> QED BY <1>3

\* What every pass of the loops over a link's paths and over the links keeps, the loops keep.
LEMMA AddLinkKeeps ==
    ASSUME NEW S, NEW map \in S, NEW l, NEW limit, Len(l.paths) \in Nat,
           \A m \in S, n \in 1 .. Len(l.paths) : BuildPathRateLimit(m, l.paths[n], l.package, limit) \in S
    PROVE  AddLink(map, l, limit) \in S
<1> DEFINE Pass(n, m) == BuildPathRateLimit(m, l.paths[n], l.package, limit)
           Passes(N, a) == [n \in 0 .. N |-> IF n = 0 THEN map ELSE Pass(n, a[n - 1])]
<1>1. PICK N \in Nat : N = Len(l.paths)
  OBVIOUS
<1>2. \A m \in S, n \in 1 .. N : Pass(n, m) \in S
  BY <1>1
<1>3. PICK a : a = (CHOOSE x : x = Passes(N, x)) /\ AddLink(map, l, limit) = a[N]
  BY <1>1 DEF AddLink
<1> HIDE DEF Pass
<1>4. PICK step : step = [x \in (1 .. N) \X S |-> Pass(x[1], x[2])]
  OBVIOUS
<1>5. PICK f : Run(N, S, map, step, f)
  <2>1. Closed(N, S, step)
    BY <1>2, <1>4 DEF Closed
  <2> QED BY <2>1, Loops
<1>6. f = Passes(N, f)
  <2>1. ASSUME NEW n \in 1 .. N PROVE f[n] = Pass(n, f[n - 1])
    <3>1. f[n - 1] \in S
      BY <1>5 DEF Run
    <3>2. step[<<n, f[n - 1]>>] = Pass(n, f[n - 1])
      BY <1>4, <3>1
    <3> QED BY <1>5, <3>2 DEF Run
  <2> QED BY <1>5, <2>1 DEF Run
<1>7. a = Passes(N, a)
  <2> HIDE DEF Passes
  <2> QED BY <1>3, <1>6
<1> DEFINE T == {n \in 0 .. N : a[n] \in S}
<1>8. 0 \in T
  BY <1>7
<1>9. ASSUME NEW n \in 1 .. N, n - 1 \in T PROVE n \in T
  <2>1. a[n] = Pass(n, a[n - 1])
    BY <1>7
  <2> QED BY <1>2, <1>9, <2>1
<1>10. N \in T
  <2> HIDE DEF T
  <2>1. Advances(N, T)
    BY <1>8, <1>9 DEF Advances
  <2> QED BY <2>1, Steps
<1> QED BY <1>3, <1>10

LEMMA BuildKeeps ==
    ASSUME NEW S, NoLimits \in S, NEW links, NEW limits, Len(links) \in Nat,
           \A m \in S, n \in 1 .. Len(links) : AddLink(m, links[n], limits[links[n].package]) \in S
    PROVE  BuildRateLimitMap(links, limits) \in S
<1> DEFINE Pass(n, m) == AddLink(m, links[n], limits[links[n].package])
           Passes(N, a) == [n \in 0 .. N |-> IF n = 0 THEN NoLimits ELSE Pass(n, a[n - 1])]
<1>1. PICK N \in Nat : N = Len(links)
  OBVIOUS
<1>2. \A m \in S, n \in 1 .. N : Pass(n, m) \in S
  BY <1>1
<1>3. PICK a : a = (CHOOSE x : x = Passes(N, x)) /\ BuildRateLimitMap(links, limits) = a[N]
  BY <1>1 DEF BuildRateLimitMap
<1> HIDE DEF Pass
<1>4. PICK step : step = [x \in (1 .. N) \X S |-> Pass(x[1], x[2])]
  OBVIOUS
<1>5. PICK f : Run(N, S, NoLimits, step, f)
  <2>1. Closed(N, S, step)
    BY <1>2, <1>4 DEF Closed
  <2> QED BY <2>1, Loops
<1>6. f = Passes(N, f)
  <2>1. ASSUME NEW n \in 1 .. N PROVE f[n] = Pass(n, f[n - 1])
    <3>1. f[n - 1] \in S
      BY <1>5 DEF Run
    <3>2. step[<<n, f[n - 1]>>] = Pass(n, f[n - 1])
      BY <1>4, <3>1
    <3> QED BY <1>5, <3>2 DEF Run
  <2> QED BY <1>5, <2>1 DEF Run
<1>7. a = Passes(N, a)
  <2> HIDE DEF Passes
  <2> QED BY <1>3, <1>6
<1> DEFINE T == {n \in 0 .. N : a[n] \in S}
<1>8. 0 \in T
  BY <1>7
<1>9. ASSUME NEW n \in 1 .. N, n - 1 \in T PROVE n \in T
  <2>1. a[n] = Pass(n, a[n - 1])
    BY <1>7
  <2> QED BY <1>2, <1>9, <2>1
<1>10. N \in T
  <2> HIDE DEF T
  <2>1. Advances(N, T)
    BY <1>8, <1>9 DEF Advances
  <2> QED BY <2>1, Steps
<1> QED BY <1>3, <1>10

-----------------------------------------------------------------------------
(* The entry of the map that a path is served.                             *)

\* An order of a finite set goes through all of it.
LEMMA OrderedAll ==
    ASSUME NEW S, IsFiniteSet(S), NEW order \in SetToSeqs(S)
    PROVE  /\ Len(order) \in Nat /\ DOMAIN order = 1 .. Len(order)
           /\ \A n \in 1 .. Len(order) : order[n] \in S
           /\ \A x \in S : \E n \in 1 .. Len(order) : order[n] = x
<1>1. PICK N \in Nat : N = Cardinality(S)
  BY FS_CardinalityType
<1>2. order \in [1 .. N -> S] /\ \A i, j \in 1 .. N : i # j => order[i] # order[j]
  BY <1>1 DEF SetToSeqs
<1>3. order \in Injection(1 .. N, S)
  BY <1>2 DEF Injection, IsInjective
<1>4. Cardinality(1 .. N) = N
  BY FS_Interval
<1>5. order \in Surjection(1 .. N, S)
  BY <1>1, <1>3, <1>4, FS_Injection
<1>6. Len(order) = N
  BY <1>2
<1> QED BY <1>2, <1>5, <1>6 DEF Surjection

LEMMA Normalized == \A path \in Path : Normalize(path) \in Path
<1> SUFFICES ASSUME NEW path \in Path PROVE Normalize(path) \in Path
  OBVIOUS
<1>1. path \in Seq(Segment) /\ path # <<>> /\ Star \in Segment
  BY PackagesAssumption DEF Path
<1>2. PICK N \in Nat : N = Len(path) /\ DOMAIN path = 1 .. N
  BY <1>1
<1>3. N # 0
  BY <1>1, <1>2
<1>4. PICK norm : norm = Normalize(path)
  OBVIOUS
<1>5. norm = [i \in 1 .. N |-> IF path[i] = Param THEN Star ELSE path[i]]
  BY <1>2, <1>4 DEF Normalize
<1>6. norm \in [1 .. N -> Segment]
  BY <1>1, <1>2, <1>5
<1>7. norm \in Seq(Segment) /\ Len(norm) = N
  BY <1>6
<1>8. norm # <<>>
  BY <1>3, <1>7
<1> QED BY <1>4, <1>7, <1>8 DEF Path

LEMMA Fronts ==
    ASSUME NEW q \in Path
    PROVE  q # <<>> /\ Len(q) \in Nat \ {0} /\ Len(Front(q)) = Len(q) - 1 /\ Below(Front(q), q)
<1>1. q \in Seq(Segment) /\ q # <<>> /\ Len(q) \in Nat
  BY DEF Path
<1>2. Len(q) # 0
  BY <1>1
<1>3. PICK k \in Nat : k = Len(q) - 1
  BY <1>1, <1>2
<1>4. Front(q) = SubSeq(q, 1, k)
  BY <1>3 DEF Front
<1>5. \A i \in 1 .. k : q[i] \in Segment
  BY <1>1, <1>3
<1>6. PICK u : u = SubSeq(q, 1, k)
  OBVIOUS
<1>7. u \in Seq(Segment) /\ Len(u) = k /\ \A i \in 1 .. k : u[i] = q[i]
  BY <1>1, <1>3, <1>5, <1>6
<1>8. SubSeq(u, 1, Len(u)) = SubSeq(q, 1, Len(u))
  BY <1>6, <1>7
<1>9. Below(u, q)
  BY <1>3, <1>7, <1>8 DEF Below, IsPrefix
<1> QED BY <1>1, <1>2, <1>3, <1>4, <1>6, <1>7, <1>9

\* The wildcards of an order that are above a path.
AboveIn(order, n, path) == {m \in 1 .. n : IsWild(order[m]) /\ Below(Front(order[m]), path)}

\* The loop over the map's patterns ends with one above the path, and with the longest.
LEMMA BestWildcardIs ==
    ASSUME NEW order, Len(order) \in Nat, \A n \in 1 .. Len(order) : order[n] \in Path, NEW path
    PROVE  LET best == BestWildcard(order, path) IN
           /\ best = <<>> \/ \E n \in AboveIn(order, Len(order), path) : best = order[n]
           /\ \A n \in AboveIn(order, Len(order), path) : best # <<>> /\ Len(order[n]) <= Len(best)
<1> DEFINE Pass(n, b) == BetterOf(b, order[n], path)
           Passes(N, a) == [n \in 0 .. N |-> IF n = 0 THEN <<>> ELSE Pass(n, a[n - 1])]
<1>1. PICK N \in Nat : N = Len(order)
  OBVIOUS
<1>2. PICK S : S = Path \cup {<<>>}
  OBVIOUS
<1>3. PICK a : a = (CHOOSE x : x = Passes(N, x)) /\ BestWildcard(order, path) = a[N]
  BY <1>1 DEF BestWildcard
<1>4. \A b \in S, n \in 1 .. N : Pass(n, b) \in S
  BY <1>1, <1>2 DEF BetterOf
<1> HIDE DEF Pass
<1>5. PICK step : step = [x \in (1 .. N) \X S |-> Pass(x[1], x[2])]
  OBVIOUS
<1>6. PICK f : Run(N, S, <<>>, step, f)
  <2>1. Closed(N, S, step) /\ <<>> \in S
    BY <1>2, <1>4, <1>5 DEF Closed
  <2> QED BY <2>1, Loops
<1>7. f = Passes(N, f)
  <2>1. ASSUME NEW n \in 1 .. N PROVE f[n] = Pass(n, f[n - 1])
    <3>1. f[n - 1] \in S
      BY <1>6 DEF Run
    <3>2. step[<<n, f[n - 1]>>] = Pass(n, f[n - 1])
      BY <1>5, <3>1
    <3> QED BY <1>6, <3>2 DEF Run
  <2> QED BY <1>6, <2>1 DEF Run
<1>8. a = Passes(N, a)
  <2> HIDE DEF Passes
  <2> QED BY <1>3, <1>7
<1>9. a[0] = <<>> /\ \A n \in 1 .. N : a[n] = BetterOf(a[n - 1], order[n], path)
  BY <1>8 DEF Pass
<1> DEFINE Above(q) == IsWild(q) /\ Below(Front(q), path)
           T == {n \in 0 .. N :
                /\ a[n] = <<>> \/ \E m \in 1 .. n : Above(order[m]) /\ a[n] = order[m]
                /\ \A m \in 1 .. n : Above(order[m]) => a[n] # <<>> /\ Len(order[m]) <= Len(a[n])}
<1>10. 0 \in T
  BY <1>9
<1>11. \A q \in Path : q # <<>> /\ Len(q) \in Nat \ {0} /\ Len(Front(q)) = Len(q) - 1
  BY Fronts
<1> HIDE DEF Above
<1>12. ASSUME NEW n \in 1 .. N, n - 1 \in T PROVE n \in T
  <2>1. CASE Improves(a[n - 1], order[n], path)
    <3>1. a[n] = order[n] /\ Above(order[n]) /\ order[n] \in Path
      BY <1>1, <1>9, <2>1 DEF BetterOf, Improves, Above
    <3>2. ASSUME NEW m \in 1 .. n, Above(order[m]) PROVE Len(order[m]) <= Len(order[n])
      <4>1. CASE m = n
        BY <1>11, <3>1, <4>1
      <4>2. CASE m # n
        <5>1. m \in 1 .. n - 1
          BY <4>2
        <5>2. a[n - 1] # <<>> /\ Len(order[m]) <= Len(a[n - 1])
          BY <1>12, <3>2, <5>1
        <5>3. PICK j \in 1 .. n - 1 : a[n - 1] = order[j]
          BY <1>12, <5>2
        <5>4. Len(Front(order[n])) > Len(Front(order[j]))
          BY <2>1, <5>2, <5>3 DEF Improves
        <5>5. order[m] \in Path /\ order[j] \in Path
          BY <1>1, <5>1, <5>3
        <5>6. Len(Front(order[n])) = Len(order[n]) - 1 /\ Len(Front(order[j])) = Len(order[j]) - 1
          BY <1>11, <3>1, <5>5
        <5>7. Len(order[m]) \in Nat /\ Len(order[j]) \in Nat /\ Len(order[n]) \in Nat
          BY <1>11, <3>1, <5>5
        <5>8. Len(order[m]) <= Len(order[j])
          BY <5>2, <5>3
        <5> QED BY <5>4, <5>6, <5>7, <5>8
      <4> QED BY <4>1, <4>2
    <3> QED BY <1>11, <3>1, <3>2
  <2>2. CASE ~Improves(a[n - 1], order[n], path)
    <3>1. a[n] = a[n - 1]
      BY <1>9, <2>2 DEF BetterOf
    <3>2. ASSUME Above(order[n]) PROVE a[n - 1] # <<>> /\ Len(order[n]) <= Len(a[n - 1])
      <4>1. a[n - 1] # <<>> /\ ~(Len(Front(order[n])) > Len(Front(a[n - 1])))
        BY <2>2, <3>2 DEF Improves, Above
      <4>2. PICK j \in 1 .. n - 1 : a[n - 1] = order[j]
        BY <1>12, <4>1
      <4>3. order[n] \in Path /\ order[j] \in Path
        BY <1>1, <4>2
      <4> QED BY <1>11, <4>1, <4>2, <4>3
    <3>3. \A m \in 1 .. n : m = n \/ m \in 1 .. n - 1
      OBVIOUS
    <3>4. \A m \in 1 .. n - 1 : m \in 1 .. n
      OBVIOUS
    <3> QED BY <1>12, <3>1, <3>2, <3>3, <3>4
  <2> QED BY <2>1, <2>2
<1>13. N \in T
  <2> HIDE DEF T
  <2>1. Advances(N, T)
    BY <1>10, <1>12 DEF Advances
  <2> QED BY <2>1, Steps
<1> QED BY <1>1, <1>3, <1>13 DEF Above, AboveIn

\* findBestRateLimit: the path's own entry, or the longest wildcard above it, in every order of the map.
LEMMA BestFound ==
    ASSUME NEW map, IsFiniteSet(DOMAIN map), DOMAIN map \subseteq Path,
           NEW order \in SetToSeqs(DOMAIN map), NEW path \in Path
    PROVE  BestIsLongest(map, order, path)
<1>1. PICK norm \in Path : norm = Normalize(path)
  BY Normalized
<1>2. PICK above : above = {q \in DOMAIN map : PathCovers(q, norm)}
  OBVIOUS
<1>3. PICK best : best = FindBestRateLimit(map, order, path)
  OBVIOUS
<1>4. PICK N \in Nat : N = Len(order)
  BY OrderedAll
<1>5. /\ \A n \in 1 .. N : order[n] \in DOMAIN map
      /\ \A q \in DOMAIN map : \E n \in 1 .. N : order[n] = q
  BY <1>4, OrderedAll
<1>6. ASSUME path \notin DOMAIN map
      PROVE  IF above = {} THEN best = <<>> ELSE best \in above /\ \A q \in above : Len(q) <= Len(best)
  <2>1. CASE norm \in DOMAIN map
    <3>1. best = norm
      BY <1>1, <1>3, <1>6, <2>1 DEF FindBestRateLimit
    <3>2. norm \in above
      BY <1>2, <2>1, Fronts DEF PathCovers
    <3>3. ASSUME NEW q \in above PROVE Len(q) <= Len(norm)
      <4>1. q \in Path /\ PathCovers(q, norm)
        BY <1>2, <3>3
      <4>2. CASE IsWild(q)
        <5>1. Len(norm) > Len(Front(q))
          BY <4>1, <4>2 DEF PathCovers, Below
        <5>2. Len(Front(q)) = Len(q) - 1 /\ Len(q) \in Nat /\ Len(norm) \in Nat
          BY <4>1, Fronts
        <5> QED BY <5>1, <5>2
      <4>3. CASE ~IsWild(q)
        <5>1. q = norm
          BY <4>1, <4>3 DEF PathCovers
        <5>2. Len(norm) \in Nat
          BY Fronts
        <5> QED BY <5>1, <5>2
      <4> QED BY <4>2, <4>3
    <3> QED BY <3>1, <3>2, <3>3
  <2>2. CASE norm \notin DOMAIN map
    <3>1. best = BestWildcard(order, norm)
      BY <1>1, <1>3, <1>6, <2>2 DEF FindBestRateLimit
    <3>2. /\ best = <<>> \/ \E n \in AboveIn(order, N, norm) : best = order[n]
          /\ \A n \in AboveIn(order, N, norm) : best # <<>> /\ Len(order[n]) <= Len(best)
      <4>1. \A n \in 1 .. Len(order) : order[n] \in Path
        BY <1>4, <1>5
      <4> QED BY <1>4, <3>1, <4>1, BestWildcardIs
    <3>3. \A n \in AboveIn(order, N, norm) : order[n] \in above
      BY <1>2, <1>5 DEF AboveIn, PathCovers
    <3>4. ASSUME NEW q \in above PROVE \E n \in AboveIn(order, N, norm) : order[n] = q
      <4>1. PICK n \in 1 .. N : order[n] = q
        BY <1>2, <1>5, <3>4
      <4>2. IsWild(q) /\ Below(Front(q), norm)
        BY <1>2, <2>2, <3>4 DEF PathCovers
      <4> QED BY <4>1, <4>2 DEF AboveIn
    <3>5. CASE above = {}
      BY <3>2, <3>3, <3>5
    <3>6. CASE above # {}
      <4>1. PICK n \in AboveIn(order, N, norm) : TRUE
        BY <3>4, <3>6
      <4>2. best \in above
        BY <3>2, <3>3, <4>1
      <4> QED BY <3>2, <3>4, <4>2, <3>6
    <3> QED BY <3>5, <3>6
  <2> QED BY <2>1, <2>2
<1>7. path \in DOMAIN map => best = path
  BY <1>3 DEF FindBestRateLimit
<1> QED BY <1>1, <1>2, <1>3, <1>6, <1>7 DEF BestIsLongest

-----------------------------------------------------------------------------
(* Whose limits the map of a service holds.                                *)

\* Tiers that a link of package p sets for the path q.
Own(links, limits, q, p, tiers) ==
    \E n \in 1 .. Len(links) :
        /\ links[n].package = p
        /\ \E i \in 1 .. Len(links[n].paths) :
               /\ links[n].paths[i].path = q
               /\ EffectiveRateLimit(links[n].paths[i], limits[p]) = tiers

Tiers == UNION {[E -> Limit] : E \in SUBSET Package}
LimitMaps == UNION {[D -> Tiers] : D \in SUBSET Path}
OwnMaps(links, limits) ==
    {m \in LimitMaps :
        IsFiniteSet(DOMAIN m) /\ \A q \in DOMAIN m : \A p \in DOMAIN m[q] : Own(links, limits, q, p, m[q][p])}

LEMMA PutOwn ==
    ASSUME NEW links, NEW limits, NEW map \in OwnMaps(links, limits),
           NEW q \in Path, NEW p \in Package, NEW tiers \in Limit, Own(links, limits, q, p, tiers)
    PROVE  PutTiers(map, q, p, tiers) \in OwnMaps(links, limits)
<1>1. map \in LimitMaps /\ IsFiniteSet(DOMAIN map)
      /\ \A y \in DOMAIN map : \A x \in DOMAIN map[y] : Own(links, limits, y, x, map[y][x])
  BY DEF OwnMaps
<1>2. PICK D \in SUBSET Path : map \in [D -> Tiers]
  BY <1>1 DEF LimitMaps
<1>3. PICK old : old = IF q \in DOMAIN map THEN map[q] ELSE [x \in {} |-> Off]
  OBVIOUS
<1>4. PICK E \in SUBSET Package : old \in [E -> Limit]
  <2>1. CASE q \in DOMAIN map
    BY <1>2, <1>3, <2>1 DEF Tiers
  <2>2. CASE q \notin DOMAIN map
    <3>1. old \in [{} -> Limit]
      BY <1>3, <2>2
    <3> QED BY <3>1
  <2> QED BY <2>1, <2>2
<1>5. \A x \in E : Own(links, limits, q, x, old[x])
  BY <1>1, <1>3, <1>4
<1>6. PICK new : new = [x \in E \cup {p} |-> IF x = p THEN tiers ELSE old[x]]
  OBVIOUS
<1>7. new \in [E \cup {p} -> Limit] /\ \A x \in E \cup {p} : Own(links, limits, q, x, new[x])
  BY <1>4, <1>5, <1>6
<1>8. new \in Tiers
  BY <1>7 DEF Tiers
<1>9. PICK m : m = [y \in D \cup {q} |-> IF y # q THEN map[y] ELSE new]
  OBVIOUS
<1>10. m = PutTiers(map, q, p, tiers)
  <2>1. DOMAIN old = E /\ DOMAIN map = D
    BY <1>2, <1>4
  <2> QED BY <1>3, <1>6, <1>9, <2>1 DEF PutTiers
<1>11. m \in [D \cup {q} -> Tiers]
  BY <1>2, <1>8, <1>9
<1>12. m \in LimitMaps
  BY <1>11 DEF LimitMaps
<1>13. IsFiniteSet(DOMAIN m)
  BY <1>1, <1>2, <1>11, FS_AddElement
<1>14. \A y \in DOMAIN m : \A x \in DOMAIN m[y] : Own(links, limits, y, x, m[y][x])
  <2> SUFFICES ASSUME NEW y \in DOMAIN m, NEW x \in DOMAIN m[y] PROVE Own(links, limits, y, x, m[y][x])
    OBVIOUS
  <2>1. CASE y = q
    BY <1>7, <1>9, <2>1
  <2>2. CASE y # q
    BY <1>1, <1>2, <1>9, <2>2
  <2> QED BY <2>1, <2>2
<1> QED BY <1>10, <1>12, <1>13, <1>14 DEF OwnMaps

LinksRight(links) ==
    /\ Len(links) \in Nat
    /\ \A n \in 1 .. Len(links) : links[n].package \in Package /\ links[n].paths \in Seq(LinkPath)

\* buildRateLimitMap: whatever the order of the links, each limit is one that a link of its package sets.
LEMMA BuildOwn ==
    ASSUME NEW links, LinksRight(links), NEW limits \in [Package -> Limit]
    PROVE  BuildRateLimitMap(links, limits) \in OwnMaps(links, limits)
<1>1. PICK S : S = OwnMaps(links, limits)
  OBVIOUS
<1>2. NoLimits \in S
  <2>1. NoLimits \in [{} -> Tiers] /\ DOMAIN NoLimits = {}
    BY DEF NoLimits
  <2>2. NoLimits \in LimitMaps
    BY <2>1 DEF LimitMaps
  <2> QED BY <1>1, <2>1, <2>2, FS_EmptySet DEF OwnMaps
<1>3. ASSUME NEW n \in 1 .. Len(links), NEW m \in S PROVE AddLink(m, links[n], limits[links[n].package]) \in S
  <2>1. PICK l : l = links[n]
    OBVIOUS
  <2>2. PICK p \in Package : p = l.package
    BY <2>1 DEF LinksRight
  <2>3. l.paths \in Seq(LinkPath) /\ Len(l.paths) \in Nat
    BY <2>1 DEF LinksRight
  <2>4. PICK limit \in Limit : limit = limits[p]
    OBVIOUS
  <2>5. ASSUME NEW x \in S, NEW i \in 1 .. Len(l.paths)
        PROVE  BuildPathRateLimit(x, l.paths[i], l.package, limit) \in S
    <3>1. PICK pp \in LinkPath : pp = l.paths[i]
      BY <2>3
    <3>2. pp.path \in Path /\ pp.limit \in Limit
      BY DEF LinkPath
    <3>3. PICK rl : rl = EffectiveRateLimit(pp, limit)
      OBVIOUS
    <3>4. rl \in Limit
      BY <3>2, <3>3 DEF EffectiveRateLimit
    <3>5. Own(links, limits, pp.path, p, rl)
      BY <2>1, <2>2, <2>4, <3>1, <3>3 DEF Own
    <3>6. PutTiers(x, pp.path, p, rl) \in S
      BY <1>1, <3>2, <3>4, <3>5, PutOwn
    <3> QED BY <2>2, <3>1, <3>3, <3>6 DEF BuildPathRateLimit
  <2>6. AddLink(m, l, limit) \in S
    BY <2>3, <2>5, AddLinkKeeps
  <2> QED BY <2>1, <2>2, <2>4, <2>6
<1>4. BuildRateLimitMap(links, limits) \in S
  BY <1>2, <1>3, BuildKeeps DEF LinksRight
<1> QED BY <1>1, <1>4

\* What a poll reads of the links and packages has the types that the map is built of.
LEMMA LimitsOK ==
    ASSUME Types, NEW s \in Service, NEW ids \in SetToSeqs(ServiceLinks(s))
    PROVE  /\ LinksRight([i \in DOMAIN ids |-> link[ids[i]]])
           /\ PackageRateLimits \in [Package -> Limit]
           /\ \A i \in DOMAIN ids : ids[i] \in ServiceLinks(s) 
           /\ DOMAIN ids = 1 .. Len([i \in DOMAIN ids |-> link[ids[i]]])
<1>1. IsFiniteSet(ServiceLinks(s))
  <2>1. ServiceLinks(s) \subseteq 0 .. MaxRequests /\ IsFiniteSet(0 .. MaxRequests)
    BY PackagesAssumption, FS_Interval DEF ServiceLinks, Link
  <2> QED BY <2>1, FS_Subset
<1>2. PICK N \in Nat : DOMAIN ids = 1 .. N /\ \A i \in 1 .. N : ids[i] \in ServiceLinks(s)
  BY <1>1, OrderedAll
<1>3. \A n \in ServiceLinks(s) : link[n] \in LinkDocument
  BY DEF Types, LinksOK, ServiceLinks
<1>4. \A n \in ServiceLinks(s) : link[n].package \in Package /\ link[n].paths \in Seq(LinkPath)
  BY <1>3, PackagesAssumption DEF LinkDocument
<1>5. PICK links : links = [i \in 1 .. N |-> link[ids[i]]]
  OBVIOUS
<1>6. Len(links) = N
  BY <1>5
<1>7. LinksRight(links)
  BY <1>2, <1>4, <1>5, <1>6 DEF LinksRight
<1>8. PackageRateLimits \in [Package -> Limit]
  <2>1. \A p \in Package : pkg[p] \in Document \cup {NoPackage, Deleted}
    BY DEF Types, PackagesOK
  <2>2. \A p \in Package : pkg[p].limit \in Limit
    BY <2>1, PackagesAssumption DEF Document, NoPackage, Deleted
  <2> QED BY <2>2, PackagesAssumption DEF PackageRateLimits
<1> QED BY <1>2, <1>5, <1>6, <1>7, <1>8

LEMMA OwnLimits == Types => LimitsAreOwn
<1> SUFFICES ASSUME Types, NEW s \in Service, NEW ids \in SetToSeqs(ServiceLinks(s)),
                    NEW map, map = ServedMap(ids),
                    NEW order \in SetToSeqs(DOMAIN map), NEW r \in Resource
             PROVE  /\ BestIsLongest(map, order, r.path)
                    /\ \A p \in Package : ServedLimit(map, order, r.path, p) # Off => \E n \in Link :
                        /\ link[n] # NoLink
                        /\ link[n].package = p /\ link[n].service = s
                        /\ \E i \in DOMAIN link[n].paths :
                            /\ link[n].paths[i].path = r.path
                               \/ PathCovers(link[n].paths[i].path, Normalize(r.path))
                            /\ EffectiveRateLimit(link[n].paths[i], PackageRateLimits[p])
                                   = ServedLimit(map, order, r.path, p)
  BY DEF LimitsAreOwn
<1>1. PICK links : links = [i \in DOMAIN ids |-> link[ids[i]]]
  OBVIOUS
<1>2. PICK limits \in [Package -> Limit] : limits = PackageRateLimits
  BY LimitsOK
<1>3. /\ LinksRight(links)
      /\ \A i \in DOMAIN ids : ids[i] \in ServiceLinks(s)
      /\ DOMAIN ids = 1 .. Len(links)
  BY <1>1, LimitsOK
<1>4. map \in OwnMaps(links, limits)
  <2>1. map = BuildRateLimitMap(links, limits)
    BY <1>1, <1>2 DEF ServedMap
  <2> QED BY <1>3, <2>1, BuildOwn
<1>5. IsFiniteSet(DOMAIN map) /\ DOMAIN map \subseteq Path
      /\ \A q \in DOMAIN map : \A p \in DOMAIN map[q] : Own(links, limits, q, p, map[q][p])
  BY <1>4 DEF OwnMaps, LimitMaps
<1>6. PICK path \in Path : path = r.path
  BY PackagesAssumption
<1>7. BestIsLongest(map, order, path)
  BY <1>5, BestFound
<1>8. ASSUME NEW p \in Package, ServedLimit(map, order, path, p) # Off
      PROVE  \E n \in Link :
                /\ link[n] # NoLink
                /\ link[n].package = p /\ link[n].service = s
                /\ \E i \in DOMAIN link[n].paths :
                    /\ link[n].paths[i].path = path \/ PathCovers(link[n].paths[i].path, Normalize(path))
                    /\ EffectiveRateLimit(link[n].paths[i], PackageRateLimits[p])
                           = ServedLimit(map, order, path, p)
  <2>1. PICK best : best = FindBestRateLimit(map, order, path)
    OBVIOUS
  <2>2. best # <<>> /\ p \in DOMAIN map[best] /\ ServedLimit(map, order, path, p) = map[best][p]
    BY <1>8, <2>1 DEF ServedLimit
  <2>3. best \in DOMAIN map /\ (best = path \/ PathCovers(best, Normalize(path)))
    BY <1>7, <2>1, <2>2 DEF BestIsLongest
  <2>4. Own(links, limits, best, p, map[best][p])
    BY <1>5, <2>2, <2>3
  <2>5. PICK j \in 1 .. Len(links) :
          /\ links[j].package = p
          /\ \E i \in 1 .. Len(links[j].paths) :
                 /\ links[j].paths[i].path = best
                 /\ EffectiveRateLimit(links[j].paths[i], limits[p]) = map[best][p]
    BY <2>4 DEF Own
  <2>6. PICK n \in ServiceLinks(s) : n = ids[j]
    BY <1>3
  <2>7. links[j] = link[n]
    BY <1>1, <1>3, <2>6
  <2>8. n \in Link /\ link[n] # NoLink /\ link[n].service = s /\ link[n].package = p
    BY <2>5, <2>7 DEF ServiceLinks
  <2>9. PICK i \in 1 .. Len(link[n].paths) :
          /\ link[n].paths[i].path = best
          /\ EffectiveRateLimit(link[n].paths[i], limits[p]) = map[best][p]
    BY <2>5, <2>7
  <2>10. i \in DOMAIN link[n].paths
    <3>1. link[n].paths \in Seq(LinkPath)
      BY <1>3, <2>7 DEF LinksRight
    <3> QED BY <3>1
  <2> QED BY <1>2, <2>2, <2>3, <2>8, <2>9, <2>10
<1> QED BY <1>6, <1>7, <1>8

\* In every state, for any resources, packages and links and whatever order MongoDB returns the links in
\* and Go ranges over the map in, buildRateLimitMap and findBestRateLimit serve a resource path the entry
\* of its own path or of the longest wildcard above it, and a package's limit there is one that a link
\* of the package to the service sets, or the package's own.
THEOREM LimitsAlwaysOwn == Spec => []LimitsAreOwn
BY TypesInvariant, OwnLimits, PTL
=============================================================================
