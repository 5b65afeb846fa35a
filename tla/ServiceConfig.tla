---------------------------- MODULE ServiceConfig ----------------------------
(***************************************************************************)
(* Gateway services and the sources their resource paths refer to, as the  *)
(* requests of root and admins edit them: a service is written with its    *)
(* inline sources, one document after another, without a transaction, and  *)
(* a source that no service refers to any more is deleted with it.  After  *)
(* the documents, the request writes their entries in Redis; how those and *)
(* the reloads reach the gateways is RouteSync's matter.                   *)
(***************************************************************************)
EXTENDS Integers, Sequences, FiniteSets

CONSTANTS
    Service, Source,  \* ids of documents
    BasePath, Alias,
    Star, Param,      \* the segment "*", and those like "{id}"
    AnyParam,         \* the segment "{*}"
    NoAlias,          \* a resource path without a source
    Initial,          \* the body of the service there is at the start
    Body,             \* resource paths that requests carry: sequences of path, alias and inline
    Handler,          \* requests handled at the same time
    None,             \* no base path, alias or entry
    MaxRequests,      \* bound of the model: requests in a behaviour
    MaxFaults         \* bound of the model: failures and restarts

-----------------------------------------------------------------------------
(* Resource paths.                                                         *)

\* A path with a "*" has to end with one; what is before that is not looked at.
ValidateWildcardPaths(body) ==
    \A i \in DOMAIN body : \A j \in DOMAIN body[i].path :
        body[i].path[j] = Star => body[i].path[Len(body[i].path)] = Star

NormalizePath(path) == [j \in DOMAIN path |-> IF path[j] \in Param THEN AnyParam ELSE path[j]]

\* Two resource paths of one body that the gateway could not tell apart.
CheckInternalPathConflicts(body) ==
    \E i, j \in DOMAIN body :
        i # j /\ NormalizePath(body[i].path) = NormalizePath(body[j].path)

AliasesOf(body) == {body[i].alias : i \in DOMAIN body} \ {NoAlias}

-----------------------------------------------------------------------------
\* The service there is at the start was accepted, and each of its sources inserted.
ASSUME ServiceConfigAssumption ==
    /\ None \notin BasePath \cup Alias /\ NoAlias \notin Alias
    /\ IsFiniteSet(Handler) /\ Handler # {}
    /\ MaxRequests \in Nat /\ MaxFaults \in Nat
    /\ None \notin 0 .. MaxRequests
    /\ None \notin [base : BasePath, body : Body \cup {Initial}, ogc : 0 .. MaxRequests]
    /\ \A body \in Body \cup {Initial} :
           /\ body \in Seq({body[i] : i \in DOMAIN body})
           /\ \A i \in DOMAIN body :
                  body[i].alias \in Alias \/ (body[i].alias = NoAlias /\ ~body[i].inline)
    /\ ValidateWildcardPaths(Initial) /\ ~CheckInternalPathConflicts(Initial)
    /\ \E f \in [AliasesOf(Initial) -> Source] : \A a, b \in AliasesOf(Initial) : f[a] = f[b] => a = b

VARIABLES
    svc,       \* service documents: NoService when there is none, Deleted afterwards.  The ogc
               \* settings stand for what a request writes besides: the request itself
    source,    \* source documents: alias, and the request that wrote the content
    paths,     \* gateway_service:paths in Redis: each service's base path and resource paths
    registry,  \* source:registry in Redis: each alias's content
    req,       \* what each handler has read, and what it does next
    started, faults,
    blind,     \* the look-ups of a base path and of a source among the failures
    serial,    \* no two requests have overlapped, and nothing has failed that is not rolled back
    renamed    \* a source got another alias

docs == <<svc, source>>
redis == <<paths, registry>>
bounds == <<started, faults, blind, serial, renamed>>
vars == <<docs, redis, req, bounds>>

Role == {"admin", "user"}
NoService == [base |-> None, body |-> <<>>, ogc |-> 0]
Deleted == [base |-> None, body |-> <<>>, ogc |-> -1]
NoSource == [alias |-> None, content |-> 0]
Idle == [at |-> "idle"]

Live == {s \in Service : svc[s].base # None}
FindByBasePath(base) == {s \in Live : svc[s].base = base}
FindByAlias(a) == {d \in Source : source[d].alias = a}
CountBySourceAlias(a) == Cardinality({s \in Live : a \in AliasesOf(svc[s].body)})

First == CHOOSE s \in Service : TRUE
SourceOf == CHOOSE f \in [AliasesOf(Initial) -> Source] : \A a, b \in AliasesOf(Initial) : f[a] = f[b] => a = b
FirstSource(d) ==
    IF \E a \in AliasesOf(Initial) : SourceOf[a] = d
    THEN [alias |-> CHOOSE a \in AliasesOf(Initial) : SourceOf[a] = d, content |-> 0] ELSE NoSource

\* One service, with its sources, as an earlier request has left them.
Init ==
    /\ \E base \in BasePath : svc = [s \in Service |->
           IF s = First THEN [base |-> base, body |-> Initial, ogc |-> 0] ELSE NoService]
    /\ source = [d \in Source |-> FirstSource(d)]
    /\ paths = [s \in Service |-> IF s \in Live THEN svc[s] ELSE None]
    /\ registry = [a \in Alias |-> IF a \in AliasesOf(Initial) THEN 0 ELSE None]
    /\ req = [h \in Handler |-> Idle]
    /\ started = 0 /\ faults = 0
    /\ blind = [base |-> 0, source |-> 0]
    /\ serial = TRUE /\ renamed = FALSE

-----------------------------------------------------------------------------
(* Requests.                                                               *)

Goes(h, r) == req' = [req EXCEPT ![h] = r]
Ends(h) == Goes(h, Idle)

Begins(h) ==
    /\ req[h] = Idle
    /\ started < MaxRequests
    /\ started' = started + 1
    /\ serial' = (serial /\ \A g \in Handler \ {h} : req[g] = Idle)
    /\ UNCHANGED <<faults, blind, renamed>>

Fault == faults < MaxFaults /\ faults' = faults + 1

\* A write to Redis, whose error nobody looks at.
Lost == Fault /\ serial' = FALSE /\ UNCHANGED <<started, blind, renamed>>
TellSource(a, content) ==
    \/ registry' = [registry EXCEPT ![a] = content] /\ UNCHANGED bounds
    \/ UNCHANGED registry /\ Lost
TellService(s, doc) ==
    \/ paths' = [paths EXCEPT ![s] = doc] /\ UNCHANGED bounds
    \/ UNCHANGED paths /\ Lost

\* isRootOrAdmin: "admin" stands for both.
HasWriteAccess(role) == role = "admin"

\* The ids of documents are new.
Claimed(h) == IF req[h].at \in {"prepare", "write", "sources", "insertsource"} THEN req[h].insert ELSE {}
Unclaimed(d) == source[d] = NoSource /\ \A g \in Handler : \A c \in Claimed(g) : c.doc # d
NewService(s) ==
    /\ svc[s] = NoService
    /\ \A g \in Handler : req[g].at \in {"prepare", "write"} => req[g].service # s

\* What a request prepares: the document it writes, the resource paths it has not resolved, the
\* sources it will insert and those it has updated, and whether it found an alias that is not there.
Preparing(s, base, body) ==
    [at |-> "prepare", service |-> s, new |-> svc[s] = NoService, before |-> svc[s],
     after |-> [base |-> base, body |-> body, ogc |-> started'], left |-> body,
     insert |-> {}, updated |-> {}, done |-> {}, invalid |-> FALSE, n |-> started']

\* GatewayServiceService.Create: the base path first.
CreateService(h, s, base, body) ==
    /\ NewService(s)
    /\ Begins(h)
    /\ FindByBasePath(base) = {}
    /\ ValidateWildcardPaths(body)
    /\ Goes(h, Preparing(s, base, body))
    /\ UNCHANGED <<docs, redis>>

\* Mutant of UpdateService: a base path that changes is not looked for.
UpdateUnchecked(h, s, base, body) ==
    /\ s \in Live
    /\ Begins(h)
    /\ ValidateWildcardPaths(body)
    /\ Goes(h, Preparing(s, base, body))
    /\ UNCHANGED <<docs, redis>>

\* GatewayServiceService.Update: its base path is looked for only when it changes.
UpdateService(h, s, base, body) ==
    /\ s \in Live
    /\ Begins(h)
    /\ svc[s].base = base \/ FindByBasePath(base) = {}
    /\ ValidateWildcardPaths(body)
    /\ Goes(h, Preparing(s, base, body))
    /\ UNCHANGED <<docs, redis>>

\* FindByBasePath fails, which both take for "no such service".
BasePathLookupFails(h, s, base, body) ==
    /\ req[h] = Idle /\ started < MaxRequests /\ started' = started + 1
    /\ ValidateWildcardPaths(body)
    /\ Fault /\ serial' = FALSE
    /\ blind' = [blind EXCEPT !.base = @ + 1]
    /\ Goes(h, Preparing(s, base, body))
    /\ UNCHANGED <<docs, redis, renamed>>

\* prepareResourcePathSources, a resource path at a time.
Preparation(h) == req[h].at = "prepare" /\ req[h].left # <<>>
Rest(r) == [r EXCEPT !.left = Tail(@)]

\* A second inline source of one alias is dropped.
PrepareAgain(h) ==
    /\ Preparation(h)
    /\ Head(req[h].left).inline /\ Head(req[h].left).alias \in req[h].done
    /\ Goes(h, Rest(req[h]))
    /\ UNCHANGED <<docs, redis, bounds>>

\* resolveInlineSource: a source of that alias is updated there and then, whatever comes of the request.
UpdateInline(h) ==
    /\ Preparation(h)
    /\ LET r == req[h]
           a == Head(r.left).alias
       IN  /\ Head(r.left).inline /\ a \notin r.done
           /\ \E d \in FindByAlias(a) :
                  /\ source' = [source EXCEPT ![d].content = r.n]
                  /\ Goes(h, [Rest(r) EXCEPT !.updated = @ \cup {a}, !.done = @ \cup {a}])
    /\ UNCHANGED <<svc, redis, bounds>>

\* ... and one that is not there, or whose look-up fails, is made up to be inserted later.
MakeInline(h, d) ==
    /\ Preparation(h)
    /\ LET r == req[h]
           a == Head(r.left).alias
       IN  /\ Head(r.left).inline /\ a \notin r.done
           /\ Unclaimed(d)
           /\ Goes(h, [Rest(r) EXCEPT !.insert = @ \cup {[doc |-> d, alias |-> a]}, !.done = @ \cup {a}])
    /\ UNCHANGED <<docs, redis>>
PrepareInline(h, d) ==
    /\ MakeInline(h, d)
    /\ FindByAlias(Head(req[h].left).alias) = {}
    /\ UNCHANGED bounds
SourceLookupFails(h, d) ==
    /\ MakeInline(h, d)
    /\ Fault /\ serial' = FALSE
    /\ blind' = [blind EXCEPT !.source = @ + 1]
    /\ UNCHANGED <<started, renamed>>

\* validateAliasExists
ValidateAlias(h) ==
    /\ Preparation(h)
    /\ LET rp == Head(req[h].left) IN
       /\ ~rp.inline
       /\ Goes(h, [Rest(req[h]) EXCEPT !.invalid = @ \/ (rp.alias # NoAlias /\ FindByAlias(rp.alias) = {})])
    /\ UNCHANGED <<docs, redis, bounds>>

\* Mutant of Prepared: paths that conflict are not refused.
PreparedUnchecked(h) ==
    /\ req[h].at = "prepare" /\ req[h].left = <<>>
    /\ IF req[h].invalid THEN Ends(h) ELSE Goes(h, [req[h] EXCEPT !.at = "write"])
    /\ UNCHANGED <<docs, redis, bounds>>

\* The request is refused, its updates of sources notwithstanding, or goes on to write.
Prepared(h) ==
    /\ req[h].at = "prepare" /\ req[h].left = <<>>
    /\ IF req[h].invalid \/ CheckInternalPathConflicts(req[h].after.body) THEN Ends(h)
       ELSE Goes(h, [req[h] EXCEPT !.at = "write"])
    /\ UNCHANGED <<docs, redis, bounds>>

\* Insert, or the $set of an update, which a document that was deleted does not get.
WriteService(h) ==
    /\ req[h].at = "write"
    /\ svc' = IF req[h].new \/ req[h].service \in Live
              THEN [svc EXCEPT ![req[h].service] = req[h].after] ELSE svc
    /\ Goes(h, [req[h] EXCEPT !.at = "sources"])
    /\ UNCHANGED <<source, redis, bounds>>

\* One inline source, and its entry in Redis.
InsertSource(h, c) ==
    /\ req[h].at = "sources" /\ c \in req[h].insert
    /\ source' = [source EXCEPT ![c.doc] = [alias |-> c.alias, content |-> req[h].n]]
    /\ TellSource(c.alias, req[h].n)
    /\ Goes(h, [req[h] EXCEPT !.insert = @ \ {c}])
    /\ UNCHANGED <<svc, paths>>

\* Mutant of RolledBack: an update keeps what it wrote.
KeptWritten(r) ==
    IF r.new THEN [svc EXCEPT ![r.service] = Deleted] ELSE svc

\* The rollback: the new service is deleted for ever, the updated one gets back its base
\* path and resource paths, and not its ogc settings.  The sources that were inserted or updated stay.
RolledBack(r) ==
    IF r.new THEN [svc EXCEPT ![r.service] = Deleted]
    ELSE IF r.service \in Live THEN [svc EXCEPT ![r.service] = [r.before EXCEPT !.ogc = svc[r.service].ogc]]
    ELSE svc

InsertSourceFails(h) ==
    /\ req[h].at = "sources" /\ req[h].insert # {}
    /\ Fault
    /\ svc' = RolledBack(req[h])
    /\ Ends(h)
    /\ UNCHANGED <<source, redis, started, blind, serial, renamed>>

\* An update tells Redis of the sources it has updated, as it read them and then changed them; a
\* creation does not.  Then it goes through the aliases that it removed.
SourcesDone(h) ==
    /\ req[h].at = "sources" /\ req[h].insert = {}
    /\ LET r == req[h] IN
       IF r.new THEN Goes(h, [at |-> "sync", service |-> r.service, doc |-> <<r.after>>])
                     /\ UNCHANGED registry
       ELSE /\ registry' = [a \in Alias |-> IF a \in r.updated THEN r.n ELSE registry[a]]
            /\ Goes(h, [at |-> "orphans", service |-> r.service, others |-> 0, then |-> "sync",
                        left |-> AliasesOf(r.before.body) \ AliasesOf(r.after.body)])
    /\ UNCHANGED <<docs, paths, bounds>>

\* deleteOrphanedSources and cleanupOrphanedSources: a source goes when, of the services that refer
\* to it, there are none or only the one that is about to be deleted.
Orphan(h, a) == CountBySourceAlias(a) <= req[h].others

CheckOrphan(h, a) ==
    /\ req[h].at = "orphans" /\ a \in req[h].left
    /\ LET rest == [req[h] EXCEPT !.left = @ \ {a}] IN
       \/ FindByAlias(a) = {} /\ Goes(h, rest)
       \/ \E d \in FindByAlias(a) :
              Goes(h, IF Orphan(h, a) THEN [at |-> "drop", doc |-> d, alias |-> a, rest |-> rest]
                      ELSE rest)
    /\ UNCHANGED <<docs, redis, bounds>>

DropOrphan(h) ==
    /\ req[h].at = "drop"
    /\ source' = [source EXCEPT ![req[h].doc] = [alias |-> None, content |-> -1]]
    /\ TellSource(req[h].alias, None)
    /\ Goes(h, req[h].rest)
    /\ UNCHANGED <<svc, paths>>

OrphansDone(h) ==
    /\ req[h].at = "orphans" /\ req[h].left = {}
    /\ Goes(h, IF req[h].then = "sync" THEN [at |-> "sync", service |-> req[h].service, doc |-> <<>>]
               ELSE [at |-> "delete", service |-> req[h].service])
    /\ UNCHANGED <<docs, redis, bounds>>

\* Mutant of SyncService: an update does not look at its service again.
SyncCreated(h) ==
    /\ req[h].at = "sync"
    /\ paths' = IF req[h].doc # <<>> THEN [paths EXCEPT ![req[h].service] = req[h].doc[1]] ELSE paths
    /\ Ends(h)
    /\ UNCHANGED <<docs, registry, bounds>>

\* SyncService: what a creation wrote, or what an update finds, if it does.
SyncService(h) ==
    /\ req[h].at = "sync"
    /\ LET s == req[h].service IN
       paths' = IF req[h].doc # <<>> THEN [paths EXCEPT ![s] = req[h].doc[1]]
                ELSE IF s \in Live THEN [paths EXCEPT ![s] = svc[s]] ELSE paths
    /\ Ends(h)
    /\ UNCHANGED <<docs, registry, bounds>>

\* GatewayServiceService.Delete looks after the sources first, while the service still counts.
DeleteService(h, s) ==
    /\ s \in Live
    /\ Begins(h)
    /\ Goes(h, [at |-> "orphans", service |-> s, others |-> 1, then |-> "delete",
                left |-> AliasesOf(svc[s].body)])
    /\ UNCHANGED <<docs, redis>>

DeleteDocument(h) ==
    /\ req[h].at = "delete"
    /\ svc' = [svc EXCEPT ![req[h].service] = Deleted]
    /\ TellService(req[h].service, None)
    /\ Ends(h)
    /\ UNCHANGED <<source, registry>>

-----------------------------------------------------------------------------
(* Sources by themselves.                                                  *)

\* FindByAlias finds nothing, or fails, which is taken for that.
AliasIsFree(h, a) ==
    \/ Begins(h) /\ FindByAlias(a) = {}
    \/ /\ req[h] = Idle /\ started < MaxRequests /\ started' = started + 1
       /\ Fault /\ serial' = FALSE
       /\ blind' = [blind EXCEPT !.source = @ + 1]
       /\ UNCHANGED renamed

\* GatewaySourceService.Create
CreateSource(h, d, a) ==
    /\ Unclaimed(d)
    /\ AliasIsFree(h, a)
    /\ Goes(h, [at |-> "insertsource", insert |-> {[doc |-> d, alias |-> a]}, n |-> started'])
    /\ UNCHANGED <<docs, redis>>

InsertOneSource(h) ==
    /\ req[h].at = "insertsource"
    /\ \E c \in req[h].insert :
           /\ source' = [source EXCEPT ![c.doc] = [alias |-> c.alias, content |-> req[h].n]]
           /\ TellSource(c.alias, req[h].n)
    /\ Ends(h)
    /\ UNCHANGED <<svc, paths>>

\* GatewaySourceService.Update: another alias is looked for; whether a service refers to the old one
\* is not.
UpdateSource(h, d, a) ==
    /\ source[d].alias # None
    /\ IF source[d].alias = a THEN Begins(h) ELSE AliasIsFree(h, a)
    /\ Goes(h, [at |-> "setsource", doc |-> d, alias |-> a, n |-> started'])
    /\ UNCHANGED <<docs, redis>>

SetSource(h) ==
    /\ req[h].at = "setsource"
    /\ LET d == req[h].doc IN
       IF source[d].alias = None THEN Ends(h) /\ UNCHANGED <<source, renamed>>
       ELSE /\ source' = [source EXCEPT ![d] = [alias |-> req[h].alias, content |-> req[h].n]]
            /\ renamed' = (renamed \/ req[h].alias # source[d].alias)
            /\ Goes(h, [at |-> "syncsource", doc |-> d])
    /\ UNCHANGED <<svc, redis, started, faults, blind, serial>>

\* FindByID, then the entry of the alias it has by now; that of the old alias stays.
SyncSource(h) ==
    /\ req[h].at = "syncsource"
    /\ LET d == req[h].doc IN
       registry' = IF source[d].alias = None THEN registry
                   ELSE [registry EXCEPT ![source[d].alias] = source[d].content]
    /\ Ends(h)
    /\ UNCHANGED <<docs, paths, bounds>>

\* GatewaySourceService.Delete refuses one that a service refers to.
DeleteSource(h, d) ==
    /\ source[d].alias # None
    /\ Begins(h)
    /\ CountBySourceAlias(source[d].alias) = 0
    /\ Goes(h, [at |-> "drop", doc |-> d, alias |-> source[d].alias, rest |-> Idle])
    /\ UNCHANGED <<docs, redis>>

\* The pod ends, or a call of the request fails where nothing is rolled back: the last writes to
\* Redis are calls that may.
RequestDies(h) ==
    /\ req[h] # Idle
    /\ Fault /\ serial' = FALSE
    /\ Ends(h)
    /\ UNCHANGED <<docs, redis, started, blind, renamed>>

-----------------------------------------------------------------------------
(* The requests.  They are refused to a plain user; what is refused, there *)
(* or by a check, changes nothing but the sources it has updated already.  *)

PostService(h, role) ==
    HasWriteAccess(role) /\ \E s \in Service, base \in BasePath, body \in Body :
        CreateService(h, s, base, body) \/ (NewService(s) /\ BasePathLookupFails(h, s, base, body))
PutService(h, role) ==
    HasWriteAccess(role) /\ \E s \in Live, base \in BasePath, body \in Body :
        UpdateService(h, s, base, body) \/ (svc[s].base # base /\ BasePathLookupFails(h, s, base, body))
RemoveService(h, role) ==
    HasWriteAccess(role) /\ \E s \in Service : DeleteService(h, s)

PostSource(h, role) ==
    HasWriteAccess(role) /\ \E d \in Source, a \in Alias : CreateSource(h, d, a)
PutSource(h, role) ==
    HasWriteAccess(role) /\ \E d \in Source, a \in Alias : UpdateSource(h, d, a)
RemoveSource(h, role) ==
    HasWriteAccess(role) /\ \E d \in Source : DeleteSource(h, d)

Request(h) ==
    \E role \in Role :
        \/ PostService(h, role) \/ PutService(h, role) \/ RemoveService(h, role)
        \/ PostSource(h, role) \/ PutSource(h, role) \/ RemoveSource(h, role)

Continue(h) ==
    \/ PrepareAgain(h) \/ UpdateInline(h) \/ ValidateAlias(h) \/ Prepared(h)
    \/ \E d \in Source : PrepareInline(h, d) \/ SourceLookupFails(h, d)
    \/ WriteService(h) \/ InsertSourceFails(h) \/ SourcesDone(h) \/ SyncService(h)
    \/ req[h].at = "sources" /\ \E c \in req[h].insert : InsertSource(h, c)
    \/ \E a \in Alias : CheckOrphan(h, a)
    \/ DropOrphan(h) \/ OrphansDone(h) \/ DeleteDocument(h)
    \/ InsertOneSource(h) \/ SetSource(h) \/ SyncSource(h)
    \/ RequestDies(h)

Next == \E h \in Handler : Request(h) \/ Continue(h)

Spec == Init /\ [][Next]_vars

-----------------------------------------------------------------------------
(* Properties.                                                             *)

Quiet == \A h \in Handler : req[h] = Idle
Contents == 0 .. MaxRequests
Documents == [base : BasePath, body : Body \cup {Initial}, ogc : Contents]

TypeOK ==
    /\ svc \in [Service -> Documents \cup {NoService, Deleted}]
    /\ \A s \in Live : ValidateWildcardPaths(svc[s].body) /\ ~CheckInternalPathConflicts(svc[s].body)
    /\ source \in [Source -> [alias : Alias, content : Contents] \cup {NoSource, [alias |-> None, content |-> -1]}]
    /\ \A s \in Service : paths[s] \in Documents \/ paths[s] = None
    /\ \A a \in Alias : registry[a] \in Contents \/ registry[a] = None
    /\ \A h \in Handler : req[h].at \in {"idle", "prepare", "write", "sources", "orphans", "drop",
           "sync", "delete", "insertsource", "setsource", "syncsource"}
    /\ started \in Contents /\ faults \in 0 .. MaxFaults
    /\ serial \in BOOLEAN /\ renamed \in BOOLEAN

\* What a request will write: its base path, and the one it goes back to when it fails.
BaseClaim(r) ==
    CASE r.at \in {"prepare", "write"} ->
             {<<r.service, r.after.base>>} \cup IF r.new THEN {} ELSE {<<r.service, r.before.base>>}
      [] r.at = "sources" /\ ~r.new /\ r.insert # {} -> {<<r.service, r.before.base>>}
      [] OTHER -> {}
SourceClaim(r) ==
    CASE r.at \in {"prepare", "write", "sources", "insertsource"} -> {<<c.doc, c.alias>> : c \in r.insert}
      [] r.at = "setsource" -> {<<r.doc, r.alias>>}
      [] OTHER -> {}

BaseOf == [s \in Service |-> svc[s].base]
AliasOf == [d \in Source |-> source[d].alias]
BaseClaims == [h \in Handler |-> BaseClaim(req[h])]
SourceClaims == [h \in Handler |-> SourceClaim(req[h])]

BaseCheck == INSTANCE UniqueCheck WITH
    Key <- BasePath, Doc <- Service, Writer <- Handler,
    name <- BaseOf, claim <- BaseClaims, blind <- blind.base

SourceCheck == INSTANCE UniqueCheck WITH
    Key <- Alias, Doc <- Source, Writer <- Handler,
    name <- AliasOf, claim <- SourceClaims, blind <- blind.source

\* Base paths and source aliases are as unique as a check before the write can keep them, although an
\* update may write twice, its own and then what it rolls back to, and although a body inserts many
\* sources that were looked for long before.
UniqueNames == BaseCheck!Spec /\ SourceCheck!Spec

\* As long as requests came one at a time, no source got another alias and nothing failed but what is
\* rolled back, every alias that a service refers to has its source: a source that is cleaned up with a
\* service, or with a resource path, is not one that another service still needs.
SerialRefs ==
    serial /\ ~renamed /\ Quiet =>
        \A s \in Live : \A a \in AliasesOf(svc[s].body) : FindByAlias(a) # {}

\* ... and the snapshot in Redis has the services, their paths and the aliases that there are, and no
\* others, failed inserts and the rollback included, which tells Redis nothing.
SerialSnapshot ==
    serial /\ Quiet =>
        /\ \A s \in Service :
               IF s \in Live THEN paths[s] # None /\ paths[s].base = svc[s].base /\ paths[s].body = svc[s].body
               ELSE paths[s] = None
        /\ \A a \in Alias : FindByAlias(a) # {} => registry[a] # None
        /\ renamed \/ \A a \in Alias : registry[a] # None => FindByAlias(a) # {}
=============================================================================
