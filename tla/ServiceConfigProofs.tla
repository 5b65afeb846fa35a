------------------------- MODULE ServiceConfigProofs -------------------------
(***************************************************************************)
(* Of any number of services, sources, resource paths and requests: base   *)
(* paths and aliases are as unique as a check before the write can keep    *)
(* them, and while requests come one at a time no resource path loses its  *)
(* source.  What a request has prepared, and what it may still go back to, *)
(* is part of the invariants.                                              *)
(***************************************************************************)
EXTENDS ServiceConfig, FiniteSetTheorems, TLAPS

-----------------------------------------------------------------------------
(* The inductive invariant: what requests hold at each of their steps.     *)

ResourcePaths == UNION {{body[i] : i \in DOMAIN body} : body \in Body}
Claims == [doc : Source, alias : Alias]
Accepted(body) == ValidateWildcardPaths(body) /\ ~CheckInternalPathConflicts(body)

Writings ==
    [at : {"prepare", "write", "sources"}, service : Service, new : BOOLEAN,
     before : Documents \cup {NoService, Deleted}, after : Documents, left : Seq(ResourcePaths),
     insert : SUBSET Claims, updated : SUBSET Alias, done : SUBSET Alias, invalid : BOOLEAN, n : Contents]
Cleanups == [at : {"orphans"}, service : Service, others : {0, 1}, then : {"sync", "delete"}, left : SUBSET Alias]

RequestOK(q) ==
    /\ q.at \in {"idle", "prepare", "write", "sources", "orphans", "drop", "sync", "delete",
                 "insertsource", "setsource", "syncsource"}
    /\ q.at = "idle" => q = Idle
    /\ q.at \in {"prepare", "write", "sources"} =>
           /\ q \in Writings
           /\ ~q.new => q.before \in Documents /\ Accepted(q.before.body)
           /\ ValidateWildcardPaths(q.after.body)
           /\ q.at = "prepare" \/ ~CheckInternalPathConflicts(q.after.body)
    /\ q.at = "orphans" => q \in Cleanups
    /\ q.at = "drop" =>
           q \in [at : {"drop"}, doc : Source, alias : Alias, rest : {Idle} \cup Cleanups]
    /\ q.at = "sync" => q \in [at : {"sync"}, service : Service, doc : {<<>>} \cup {<<d>> : d \in Documents}]
    /\ q.at = "delete" => q \in [at : {"delete"}, service : Service]
    /\ q.at = "insertsource" => q \in [at : {"insertsource"}, insert : SUBSET Claims, n : Contents]
    /\ q.at = "setsource" => q \in [at : {"setsource"}, doc : Source, alias : Alias, n : Contents]
    /\ q.at = "syncsource" => q \in [at : {"syncsource"}, doc : Source]
RequestsOK == DOMAIN req = Handler /\ \A h \in Handler : RequestOK(req[h])

\* The parts of TypeOK.
ServicesOK ==
    /\ svc \in [Service -> Documents \cup {NoService, Deleted}]
    /\ \A s \in Live : Accepted(svc[s].body)
SourcesOK == source \in [Source -> [alias : Alias, content : Contents] \cup {NoSource, [alias |-> None, content |-> -1]}]
PathsOK == DOMAIN paths = Service /\ \A s \in Service : paths[s] \in Documents \/ paths[s] = None
RegistryOK == DOMAIN registry = Alias /\ \A a \in Alias : registry[a] \in Contents \/ registry[a] = None
CountersOK ==
    /\ started \in Contents /\ faults \in 0 .. MaxFaults
    /\ blind \in [base : Nat, source : Nat]
    /\ serial \in BOOLEAN /\ renamed \in BOOLEAN

\* The aliases that a body brings along are prepared once each.
ClaimsDone == \A h \in Handler : req[h].at = "prepare" => \A c \in req[h].insert : c.alias \in req[h].done

Types == RequestsOK /\ ServicesOK /\ SourcesOK /\ PathsOK /\ RegistryOK /\ CountersOK

-----------------------------------------------------------------------------
(* What a step changes.                                                    *)

\* How requests begin.
LEMMA RequestBegins ==
    ASSUME NEW h \in Handler, Request(h)
    PROVE  \/ \E s \in Service, base \in BasePath, body \in Body :
                  \/ CreateService(h, s, base, body)
                  \/ UpdateService(h, s, base, body)
                  \/ (NewService(s) \/ s \in Live) /\ BasePathLookupFails(h, s, base, body)
           \/ \E s \in Service : DeleteService(h, s)
           \/ \E d \in Source, a \in Alias : CreateSource(h, d, a) \/ UpdateSource(h, d, a)
           \/ \E d \in Source : DeleteSource(h, d)
BY DEF Request, PostService, PutService, RemoveService, PostSource, PutSource, RemoveSource, Live

LEMMA Writes ==
    ASSUME [Next]_vars
    PROVE  /\ UNCHANGED svc \/ \E h \in Handler : WriteService(h) \/ InsertSourceFails(h) \/ DeleteDocument(h)
           /\ \/ UNCHANGED source
              \/ \E h \in Handler : UpdateInline(h) \/ DropOrphan(h) \/ InsertOneSource(h) \/ SetSource(h)
              \/ \E h \in Handler : req[h].at = "sources" /\ \E c \in req[h].insert : InsertSource(h, c)
           /\ UNCHANGED paths \/ \E h \in Handler : SyncService(h) \/ DeleteDocument(h)
           /\ \/ UNCHANGED registry
              \/ \E h \in Handler : SourcesDone(h) \/ DropOrphan(h) \/ InsertOneSource(h) \/ SyncSource(h)
              \/ \E h \in Handler : req[h].at = "sources" /\ \E c \in req[h].insert : InsertSource(h, c)
<1> USE DEF docs, redis, vars
<1>1. ASSUME NEW h \in Handler, Request(h) PROVE UNCHANGED <<svc, source, paths, registry>>
  BY <1>1, RequestBegins DEF CreateService, UpdateService, BasePathLookupFails, DeleteService, CreateSource,
     UpdateSource, DeleteSource
<1>2. ASSUME NEW h \in Handler, Continue(h) PROVE
           /\ UNCHANGED svc \/ WriteService(h) \/ InsertSourceFails(h) \/ DeleteDocument(h)
           /\ \/ UNCHANGED source
              \/ UpdateInline(h) \/ DropOrphan(h) \/ InsertOneSource(h) \/ SetSource(h)
              \/ req[h].at = "sources" /\ \E c \in req[h].insert : InsertSource(h, c)
           /\ UNCHANGED paths \/ SyncService(h) \/ DeleteDocument(h)
           /\ \/ UNCHANGED registry
              \/ SourcesDone(h) \/ DropOrphan(h) \/ InsertOneSource(h) \/ SyncSource(h)
              \/ req[h].at = "sources" /\ \E c \in req[h].insert : InsertSource(h, c)
  BY <1>2 DEF Continue, PrepareAgain, UpdateInline, ValidateAlias, Prepared, PrepareInline, SourceLookupFails,
     MakeInline, WriteService, InsertSourceFails, SourcesDone, SyncService, InsertSource, CheckOrphan,
     DropOrphan, OrphansDone, DeleteDocument, InsertOneSource, SetSource, SyncSource, RequestDies
<1> QED BY <1>1, <1>2 DEF Next

\* A handler that goes on with a request of one of the shapes.
LEMMA GoesOK ==
    ASSUME RequestsOK, NEW h \in Handler, NEW q, Goes(h, q), RequestOK(q)
    PROVE  RequestsOK'
BY DEF RequestsOK, Goes

LEMMA IdleOK == RequestOK(Idle)
BY DEF RequestOK, Idle

\* The aliases of the resource paths that requests and documents carry.
LEMMA BodyFacts ==
    ASSUME NEW body \in Body \cup {Initial}
    PROVE  /\ AliasesOf(body) \subseteq Alias
           /\ body \in Body => body \in Seq(ResourcePaths)
           /\ \A p \in ResourcePaths : p.alias \in Alias \/ (p.alias = NoAlias /\ ~p.inline)
<1>1. AliasesOf(body) \subseteq Alias
  <2>1. \A i \in DOMAIN body : body[i].alias \in Alias \/ body[i].alias = NoAlias
    BY ServiceConfigAssumption
  <2> QED BY <2>1 DEF AliasesOf
<1>2. ASSUME body \in Body PROVE body \in Seq(ResourcePaths)
  <2>1. body \in Seq({body[i] : i \in DOMAIN body})
    BY ServiceConfigAssumption
  <2>2. {body[i] : i \in DOMAIN body} \subseteq ResourcePaths
    BY <1>2 DEF ResourcePaths
  <2> QED BY <2>1, <2>2
<1>3. \A p \in ResourcePaths : p.alias \in Alias \/ (p.alias = NoAlias /\ ~p.inline)
  <2>1. \A b \in Body : \A i \in DOMAIN b : b[i].alias \in Alias \/ (b[i].alias = NoAlias /\ ~b[i].inline)
    BY ServiceConfigAssumption
  <2> QED BY <2>1 DEF ResourcePaths
<1> QED BY <1>1, <1>2, <1>3

\* What is left of a body after its first resource path.
LEMMA TailFacts ==
    ASSUME NEW S, NEW left \in Seq(S), left # <<>>
    PROVE  /\ Head(left) \in S /\ Tail(left) \in Seq(S)
           /\ AliasesOf(left) \subseteq AliasesOf(Tail(left)) \cup {Head(left).alias}
<1>1. Head(left) \in S /\ Tail(left) \in Seq(S)
  OBVIOUS
<1>2. ASSUME NEW i \in DOMAIN left, i # 1 PROVE i - 1 \in DOMAIN Tail(left) /\ Tail(left)[i - 1] = left[i]
  BY <1>2
<1>3. Head(left) = left[1]
  OBVIOUS
<1>4. ASSUME NEW a \in AliasesOf(left) PROVE a \in AliasesOf(Tail(left)) \cup {Head(left).alias}
  <2>1. PICK i \in DOMAIN left : a = left[i].alias
    BY <1>4 DEF AliasesOf
  <2>2. CASE i = 1
    BY <1>3, <2>1, <2>2
  <2>3. CASE i # 1
    <3>1. a # NoAlias
      BY <1>4 DEF AliasesOf
    <3> QED BY <1>2, <2>1, <2>3, <3>1 DEF AliasesOf
  <2> QED BY <2>2, <2>3
<1> QED BY <1>1, <1>4

-----------------------------------------------------------------------------
(* Types.                                                                  *)

\* A request begins, or begins on a lookup that failed.
LEMMA RequestCounts ==
    ASSUME NEW h \in Handler, Request(h)
    PROVE  \/ Begins(h)
           \/ /\ req[h] = Idle /\ started < MaxRequests /\ started' = started + 1
              /\ Fault /\ serial' = FALSE /\ UNCHANGED renamed
              /\ blind' = [blind EXCEPT !.base = @ + 1] \/ blind' = [blind EXCEPT !.source = @ + 1]
<1> DEFINE Fails == /\ req[h] = Idle /\ started < MaxRequests /\ started' = started + 1
                    /\ Fault /\ serial' = FALSE /\ UNCHANGED renamed
                    /\ blind' = [blind EXCEPT !.base = @ + 1] \/ blind' = [blind EXCEPT !.source = @ + 1]
<1>1. ASSUME NEW a \in Alias, AliasIsFree(h, a) PROVE Begins(h) \/ Fails
  BY <1>1 DEF AliasIsFree
<1>2. ASSUME NEW s \in Service, NEW base \in BasePath, NEW body \in Body, BasePathLookupFails(h, s, base, body)
      PROVE  Fails
  BY <1>2 DEF BasePathLookupFails
<1> HIDE DEF Fails
<1>3. ASSUME NEW s \in Service, NEW base \in BasePath, NEW body \in Body,
             CreateService(h, s, base, body) \/ UpdateService(h, s, base, body)
      PROVE  Begins(h)
  BY <1>3 DEF CreateService, UpdateService
<1>4. ASSUME NEW d \in Source, NEW a \in Alias, CreateSource(h, d, a) \/ UpdateSource(h, d, a)
      PROVE  Begins(h) \/ Fails
  BY <1>1, <1>4 DEF CreateSource, UpdateSource
<1>5. ASSUME (\E s \in Service : DeleteService(h, s)) \/ (\E d \in Source : DeleteSource(h, d))
      PROVE  Begins(h)
  BY <1>5 DEF DeleteService, DeleteSource
<1>6. Begins(h) \/ Fails
  BY <1>2, <1>3, <1>4, <1>5, RequestBegins
<1> QED BY <1>6 DEF Fails

LEMMA BoundsOK ==
    ASSUME CountersOK, [Next]_vars
    PROVE  CountersOK'
<1> USE DEF bounds, vars, Fault
<1>1. ASSUME NEW h \in Handler, Request(h) PROVE
           /\ started < MaxRequests /\ started' = started + 1
           /\ UNCHANGED faults \/ (faults < MaxFaults /\ faults' = faults + 1)
           /\ \/ UNCHANGED blind
              \/ blind' = [blind EXCEPT !.base = @ + 1] \/ blind' = [blind EXCEPT !.source = @ + 1]
           /\ serial' \in BOOLEAN /\ UNCHANGED renamed
  BY <1>1, RequestCounts DEF Begins
<1>2. ASSUME NEW h \in Handler, Continue(h) PROVE
           /\ UNCHANGED started
           /\ UNCHANGED faults \/ (faults < MaxFaults /\ faults' = faults + 1)
           /\ UNCHANGED blind \/ blind' = [blind EXCEPT !.source = @ + 1]
           /\ UNCHANGED serial \/ serial' = FALSE
           /\ UNCHANGED renamed \/ \E b \in BOOLEAN : renamed' = b
  BY <1>2 DEF Continue, PrepareAgain, UpdateInline, ValidateAlias, Prepared, PrepareInline, SourceLookupFails,
     MakeInline, WriteService, InsertSourceFails, SourcesDone, SyncService, InsertSource, CheckOrphan,
     DropOrphan, OrphansDone, DeleteDocument, InsertOneSource, SetSource, SyncSource, RequestDies,
     TellSource, TellService, Lost
<1>3. started' \in Contents /\ faults' \in 0 .. MaxFaults
  <2>1. started' = started \/ (started < MaxRequests /\ started' = started + 1)
    BY <1>1, <1>2 DEF Next
  <2>2. faults' = faults \/ (faults < MaxFaults /\ faults' = faults + 1)
    BY <1>1, <1>2 DEF Next
  <2>3. MaxRequests \in Nat /\ MaxFaults \in Nat
    BY ServiceConfigAssumption
  <2> QED BY <2>1, <2>2, <2>3 DEF CountersOK, Contents
<1>4. blind' \in [base : Nat, source : Nat]
  <2>1. \/ UNCHANGED blind
        \/ blind' = [blind EXCEPT !.base = @ + 1] \/ blind' = [blind EXCEPT !.source = @ + 1]
    BY <1>1, <1>2 DEF Next
  <2> QED BY <2>1 DEF CountersOK
<1>5. serial' \in BOOLEAN /\ renamed' \in BOOLEAN
  BY <1>1, <1>2 DEF Next, CountersOK
<1> QED BY <1>3, <1>4, <1>5 DEF CountersOK

\* A request that writes, at one of the shapes it takes.
LEMMA WritingOK ==
    ASSUME NEW q, q \in Writings, ~q.new => q.before \in Documents /\ Accepted(q.before.body),
           ValidateWildcardPaths(q.after.body), q.at = "prepare" \/ ~CheckInternalPathConflicts(q.after.body)
    PROVE  RequestOK(q)
BY DEF RequestOK, Writings

\* A request that creates or updates a service.
LEMMA PreparingOK ==
    ASSUME ServicesOK, started' \in Contents, NEW s \in Service, NEW base \in BasePath, NEW body \in Body,
           ValidateWildcardPaths(body), NewService(s) \/ s \in Live
    PROVE  RequestOK(Preparing(s, base, body))
<1> DEFINE q == Preparing(s, base, body)
<1>1. [base |-> base, body |-> body, ogc |-> started'] \in Documents
  BY DEF Documents
<1>2. q.at = "prepare" /\ q \in Writings
  BY <1>1, BodyFacts DEF Preparing, Writings, ServicesOK
<1>3. ~q.new => q.before \in Documents /\ Accepted(q.before.body)
  <2>1. q.new = (svc[s] = NoService) /\ q.before = svc[s]
    BY DEF Preparing
  <2>2. NewService(s) => q.new
    BY <2>1 DEF NewService
  <2>3. ASSUME s \in Live PROVE svc[s] \in Documents /\ Accepted(svc[s].body)
    BY <2>3 DEF Live, ServicesOK, NoService, Deleted
  <2> QED BY <2>1, <2>2, <2>3
<1>4. ValidateWildcardPaths(q.after.body)
  BY DEF Preparing
<1>5. q.at = "prepare"
  BY DEF Preparing
<1> HIDE DEF q
<1>6. RequestOK(q)
  BY <1>2, <1>3, <1>4, <1>5, WritingOK
<1> QED BY <1>6 DEF q

\* What is known of one.
LEMMA WritingFacts ==
    ASSUME RequestsOK, NEW h \in Handler, req[h].at \in {"prepare", "write", "sources"}
    PROVE  /\ req[h] \in Writings
           /\ ~req[h].new => req[h].before \in Documents /\ Accepted(req[h].before.body)
           /\ ValidateWildcardPaths(req[h].after.body)
           /\ req[h].at = "prepare" \/ ~CheckInternalPathConflicts(req[h].after.body)
<1>1. RequestOK(req[h])
  BY DEF RequestsOK
<1> QED BY <1>1 DEF RequestOK

LEMMA PrepareRequests ==
    ASSUME RequestsOK, NEW h \in Handler,
           \/ PrepareAgain(h) \/ UpdateInline(h) \/ ValidateAlias(h)
           \/ \E d \in Source : MakeInline(h, d)
    PROVE  RequestsOK'
<1> DEFINE r == req[h]
<1>1. r \in Writings /\ r.at = "prepare" /\ r.left # <<>>
  BY WritingFacts DEF PrepareAgain, UpdateInline, ValidateAlias, MakeInline, Preparation
<1>2. r.left \in Seq(ResourcePaths)
  BY <1>1 DEF Writings
<1>3. Head(r.left) \in ResourcePaths /\ Tail(r.left) \in Seq(ResourcePaths)
  BY <1>1, <1>2, TailFacts
<1>4. Head(r.left).inline => Head(r.left).alias \in Alias
  BY <1>3, BodyFacts, ServiceConfigAssumption
<1>5. Rest(r) \in Writings /\ Rest(r).at = "prepare"
  BY <1>1, <1>3 DEF Writings, Rest
<1>6. /\ Rest(r).new = r.new /\ Rest(r).before = r.before /\ Rest(r).after = r.after
      /\ Rest(r).updated = r.updated /\ Rest(r).insert = r.insert /\ Rest(r).done = r.done
  BY <1>1 DEF Writings, Rest
<1>7. PICK q : /\ Goes(h, q) /\ q \in Writings /\ q.at = "prepare"
               /\ q.new = r.new /\ q.before = r.before /\ q.after = r.after
  <2> DEFINE R == Rest(r)
  <2>1. CASE PrepareAgain(h)
    <3>1. Goes(h, R)
      BY <2>1 DEF PrepareAgain
    <3> QED BY <1>5, <1>6, <3>1
  <2>2. CASE UpdateInline(h)
    <3> DEFINE a == Head(r.left).alias
               q == [R EXCEPT !.updated = @ \cup {a}, !.done = @ \cup {a}]
    <3>1. Goes(h, q) /\ a \in Alias
      BY <1>4, <2>2 DEF UpdateInline
    <3>2. q \in Writings /\ q.at = R.at /\ q.new = R.new /\ q.before = R.before /\ q.after = R.after
      <4> HIDE DEF R, a
      <4> QED BY <1>5, <3>1 DEF Writings, R
    <3> QED BY <1>5, <1>6, <3>1, <3>2
  <2>3. CASE ValidateAlias(h)
    <3> DEFINE q == [R EXCEPT !.invalid = @ \/ (Head(r.left).alias # NoAlias /\ FindByAlias(Head(r.left).alias) = {})]
    <3>1. Goes(h, q)
      BY <2>3 DEF ValidateAlias
    <3>2. q \in Writings /\ q.at = R.at /\ q.new = R.new /\ q.before = R.before /\ q.after = R.after
      <4>1. R \in Writings
        BY <1>5
      <4> HIDE DEF R
      <4> QED BY <4>1 DEF Writings
    <3> QED BY <1>5, <1>6, <3>1, <3>2
  <2>4. CASE \E d \in Source : MakeInline(h, d)
    <3>1. PICK d \in Source : MakeInline(h, d)
      BY <2>4
    <3> DEFINE a == Head(r.left).alias
               c == [doc |-> d, alias |-> a]
               q == [R EXCEPT !.insert = @ \cup {c}, !.done = @ \cup {a}]
    <3>2. Goes(h, q) /\ a \in Alias /\ c \in Claims
      BY <1>4, <3>1 DEF MakeInline, Claims
    <3>3. q \in Writings /\ q.at = R.at /\ q.new = R.new /\ q.before = R.before /\ q.after = R.after
      <4> HIDE DEF R, a, c
      <4> QED BY <1>5, <3>2 DEF Writings, R
    <3> QED BY <1>5, <1>6, <3>2, <3>3
  <2> QED BY <2>1, <2>2, <2>3, <2>4
<1>8. RequestOK(q)
  BY <1>1, <1>7, WritingFacts, WritingOK
<1> QED BY <1>7, <1>8, GoesOK

LEMMA WriteRequests ==
    ASSUME RequestsOK, NEW h \in Handler,
           \/ Prepared(h) \/ WriteService(h) \/ InsertSourceFails(h) \/ SourcesDone(h)
           \/ req[h].at = "sources" /\ \E c \in req[h].insert : InsertSource(h, c)
    PROVE  RequestsOK'
<1> DEFINE r == req[h]
<1>1. r.at \in {"prepare", "write", "sources"}
  BY DEF Prepared, WriteService, InsertSourceFails, SourcesDone
<1>2. /\ r \in Writings
      /\ ~r.new => r.before \in Documents /\ Accepted(r.before.body)
      /\ ValidateWildcardPaths(r.after.body)
      /\ r.at = "prepare" \/ ~CheckInternalPathConflicts(r.after.body)
  BY <1>1, WritingFacts
<1>3. ASSUME NEW q, Goes(h, q), q \in Writings, q.new = r.new, q.before = r.before, q.after = r.after,
             ~CheckInternalPathConflicts(r.after.body)
      PROVE  RequestsOK'
  <2>1. RequestOK(q)
    BY <1>2, <1>3, WritingOK
  <2> QED BY <1>3, <2>1, GoesOK
<1>4. ASSUME Ends(h) PROVE RequestsOK'
  BY <1>4, IdleOK, GoesOK DEF Ends
<1>5. CASE Prepared(h)
  <2>1. CASE Ends(h)
    BY <1>4, <2>1
  <2>2. CASE ~(r.invalid \/ CheckInternalPathConflicts(r.after.body))
    <3> DEFINE q == [r EXCEPT !.at = "write"]
    <3>1. Goes(h, q)
      BY <1>5, <2>2 DEF Prepared
    <3>2. q \in Writings /\ q.new = r.new /\ q.before = r.before /\ q.after = r.after
      BY <1>2 DEF Writings
    <3> QED BY <1>3, <2>2, <3>1, <3>2
  <2> QED BY <1>5, <2>1, <2>2 DEF Prepared
<1>6. CASE WriteService(h)
  <2> DEFINE q == [r EXCEPT !.at = "sources"]
  <2>1. Goes(h, q) /\ r.at = "write"
    BY <1>6 DEF WriteService
  <2>2. q \in Writings /\ q.new = r.new /\ q.before = r.before /\ q.after = r.after
    BY <1>2 DEF Writings
  <2> QED BY <1>2, <1>3, <2>1, <2>2
<1>7. CASE InsertSourceFails(h)
  BY <1>4, <1>7 DEF InsertSourceFails
<1>8. CASE SourcesDone(h)
  <2>1. CASE r.new
    <3> DEFINE q == [at |-> "sync", service |-> r.service, doc |-> <<r.after>>]
    <3>1. Goes(h, q)
      BY <1>8, <2>1 DEF SourcesDone
    <3>2. r.service \in Service /\ r.after \in Documents
      BY <1>2 DEF Writings
    <3>3. RequestOK(q)
      BY <3>2 DEF RequestOK
    <3> QED BY <3>1, <3>3, GoesOK
  <2>2. CASE ~r.new
    <3> DEFINE q == [at |-> "orphans", service |-> r.service, others |-> 0, then |-> "sync",
                     left |-> AliasesOf(r.before.body) \ AliasesOf(r.after.body)]
    <3>1. Goes(h, q)
      BY <1>8, <2>2 DEF SourcesDone
    <3>2. r.service \in Service /\ r.before.body \in Body \cup {Initial}
      BY <1>2, <2>2 DEF Writings, Documents
    <3>3. AliasesOf(r.before.body) \subseteq Alias
      BY <3>2, BodyFacts
    <3>4. q \in Cleanups
      BY <3>2, <3>3 DEF Cleanups
    <3>5. RequestOK(q)
      BY <3>4 DEF RequestOK
    <3> QED BY <3>1, <3>5, GoesOK
  <2>3. r.new \in BOOLEAN
    BY <1>2 DEF Writings
  <2> QED BY <2>1, <2>2, <2>3
<1>9. CASE r.at = "sources" /\ \E c \in r.insert : InsertSource(h, c)
  <2>1. PICK c \in r.insert : InsertSource(h, c)
    BY <1>9
  <2> DEFINE q == [r EXCEPT !.insert = @ \ {c}]
  <2>2. Goes(h, q)
    BY <2>1 DEF InsertSource
  <2>3. q \in Writings /\ q.new = r.new /\ q.before = r.before /\ q.after = r.after
    BY <1>2 DEF Writings
  <2> QED BY <1>2, <1>3, <1>9, <2>2, <2>3
<1> QED BY <1>5, <1>6, <1>7, <1>8, <1>9

LEMMA CleanupRequests ==
    ASSUME RequestsOK, NEW h \in Handler,
           \/ \E a \in Alias : CheckOrphan(h, a)
           \/ DropOrphan(h) \/ OrphansDone(h) \/ SyncService(h) \/ DeleteDocument(h)
           \/ InsertOneSource(h) \/ SetSource(h) \/ SyncSource(h) \/ RequestDies(h)
    PROVE  RequestsOK'
<1> DEFINE r == req[h]
<1>1. RequestOK(r)
  BY DEF RequestsOK
<1>2. ASSUME Ends(h) PROVE RequestsOK'
  BY <1>2, IdleOK, GoesOK DEF Ends
<1>3. ASSUME NEW q \in Cleanups, Goes(h, q) PROVE RequestsOK'
  <2>1. RequestOK(q)
    BY <1>3 DEF RequestOK, Cleanups
  <2> QED BY <1>3, <2>1, GoesOK
<1>4. CASE \E a \in Alias : CheckOrphan(h, a)
  <2>1. PICK a \in Alias : CheckOrphan(h, a)
    BY <1>4
  <2>2. r \in Cleanups
    BY <1>1, <2>1 DEF CheckOrphan, RequestOK
  <2> DEFINE rest == [r EXCEPT !.left = @ \ {a}]
  <2>3. rest \in Cleanups
    BY <2>2 DEF Cleanups
  <2>4. Goes(h, rest) \/ \E d \in Source : Goes(h, [at |-> "drop", doc |-> d, alias |-> a, rest |-> rest])
    BY <2>1 DEF CheckOrphan, FindByAlias
  <2>5. ASSUME NEW d \in Source, Goes(h, [at |-> "drop", doc |-> d, alias |-> a, rest |-> rest]) PROVE RequestsOK'
    <3>1. RequestOK([at |-> "drop", doc |-> d, alias |-> a, rest |-> rest])
      BY <2>3 DEF RequestOK
    <3> QED BY <2>5, <3>1, GoesOK
  <2> QED BY <1>3, <2>3, <2>4, <2>5
<1>5. CASE DropOrphan(h)
  <2>1. r.rest \in {Idle} \cup Cleanups /\ Goes(h, r.rest)
    BY <1>1, <1>5 DEF DropOrphan, RequestOK
  <2> QED BY <1>2, <1>3, <2>1 DEF Ends
<1>6. CASE OrphansDone(h)
  <2>1. r \in Cleanups
    BY <1>1, <1>6 DEF OrphansDone, RequestOK
  <2>2. r.service \in Service
    BY <2>1 DEF Cleanups
  <2>3. \/ Goes(h, [at |-> "sync", service |-> r.service, doc |-> <<>>])
        \/ Goes(h, [at |-> "delete", service |-> r.service])
    BY <1>6 DEF OrphansDone
  <2>4. RequestOK([at |-> "sync", service |-> r.service, doc |-> <<>>])
    BY <2>2 DEF RequestOK
  <2>5. RequestOK([at |-> "delete", service |-> r.service])
    BY <2>2 DEF RequestOK
  <2> QED BY <2>3, <2>4, <2>5, GoesOK
<1>7. CASE SetSource(h)
  <2>1. r.doc \in Source
    BY <1>1, <1>7 DEF SetSource, RequestOK
  <2>2. Ends(h) \/ Goes(h, [at |-> "syncsource", doc |-> r.doc])
    BY <1>7 DEF SetSource
  <2>3. RequestOK([at |-> "syncsource", doc |-> r.doc])
    BY <2>1 DEF RequestOK
  <2> QED BY <1>2, <2>2, <2>3, GoesOK
<1>8. CASE SyncService(h) \/ DeleteDocument(h) \/ InsertOneSource(h) \/ SyncSource(h) \/ RequestDies(h)
  BY <1>2, <1>8 DEF SyncService, DeleteDocument, InsertOneSource, SyncSource, RequestDies
<1> QED BY <1>4, <1>5, <1>6, <1>7, <1>8

LEMMA BeginRequests ==
    ASSUME RequestsOK, ServicesOK, SourcesOK, started' \in Contents, NEW h \in Handler, Request(h)
    PROVE  RequestsOK'
<1>1. ASSUME NEW s \in Service, NEW base \in BasePath, NEW body \in Body,
             \/ CreateService(h, s, base, body)
             \/ UpdateService(h, s, base, body)
             \/ (NewService(s) \/ s \in Live) /\ BasePathLookupFails(h, s, base, body)
      PROVE  RequestsOK'
  <2>1. Goes(h, Preparing(s, base, body)) /\ ValidateWildcardPaths(body) /\ (NewService(s) \/ s \in Live)
    BY <1>1 DEF CreateService, UpdateService, BasePathLookupFails
  <2>2. RequestOK(Preparing(s, base, body))
    BY <2>1, PreparingOK
  <2> QED BY <2>1, <2>2, GoesOK
<1>2. ASSUME NEW s \in Service, DeleteService(h, s) PROVE RequestsOK'
  <2> DEFINE q == [at |-> "orphans", service |-> s, others |-> 1, then |-> "delete", left |-> AliasesOf(svc[s].body)]
  <2>1. Goes(h, q) /\ s \in Live
    BY <1>2 DEF DeleteService
  <2>2. svc[s].body \in Body \cup {Initial}
    BY <2>1 DEF Live, ServicesOK, Documents, NoService, Deleted
  <2>3. AliasesOf(svc[s].body) \subseteq Alias
    BY <2>2, BodyFacts
  <2>4. RequestOK(q)
    BY <2>3 DEF RequestOK, Cleanups
  <2> QED BY <2>1, <2>4, GoesOK
<1>3. ASSUME NEW d \in Source, NEW a \in Alias, CreateSource(h, d, a) PROVE RequestsOK'
  <2> DEFINE q == [at |-> "insertsource", insert |-> {[doc |-> d, alias |-> a]}, n |-> started']
  <2>1. Goes(h, q)
    BY <1>3 DEF CreateSource
  <2>2. RequestOK(q)
    BY DEF RequestOK, Claims
  <2> QED BY <2>1, <2>2, GoesOK
<1>4. ASSUME NEW d \in Source, NEW a \in Alias, UpdateSource(h, d, a) PROVE RequestsOK'
  <2> DEFINE q == [at |-> "setsource", doc |-> d, alias |-> a, n |-> started']
  <2>1. Goes(h, q)
    BY <1>4 DEF UpdateSource
  <2>2. RequestOK(q)
    BY DEF RequestOK
  <2> QED BY <2>1, <2>2, GoesOK
<1>5. ASSUME NEW d \in Source, DeleteSource(h, d) PROVE RequestsOK'
  <2> DEFINE q == [at |-> "drop", doc |-> d, alias |-> source[d].alias, rest |-> Idle]
  <2>1. Goes(h, q) /\ source[d].alias # None
    BY <1>5 DEF DeleteSource
  <2>2. source[d].alias \in Alias
    BY <2>1 DEF SourcesOK, NoSource
  <2>3. RequestOK(q)
    BY <2>2 DEF RequestOK
  <2> QED BY <2>1, <2>3, GoesOK
<1> QED BY <1>1, <1>2, <1>3, <1>4, <1>5, RequestBegins

\* A step goes on with one request, or with none.
LEMMA NextRequests ==
    ASSUME Types, [Next]_vars
    PROVE  RequestsOK'
<1>1. started' \in Contents
  BY BoundsOK DEF Types, CountersOK
<1>2. ASSUME NEW h \in Handler, Request(h) PROVE RequestsOK'
  BY <1>1, <1>2, BeginRequests DEF Types
<1>3. ASSUME NEW h \in Handler, Continue(h) PROVE RequestsOK'
  <2>1. \/ PrepareAgain(h) \/ UpdateInline(h) \/ ValidateAlias(h) \/ \E d \in Source : MakeInline(h, d)
        \/ Prepared(h) \/ WriteService(h) \/ InsertSourceFails(h) \/ SourcesDone(h)
        \/ req[h].at = "sources" /\ \E c \in req[h].insert : InsertSource(h, c)
        \/ \E a \in Alias : CheckOrphan(h, a)
        \/ DropOrphan(h) \/ OrphansDone(h) \/ SyncService(h) \/ DeleteDocument(h)
        \/ InsertOneSource(h) \/ SetSource(h) \/ SyncSource(h) \/ RequestDies(h)
    BY <1>3 DEF Continue, PrepareInline, SourceLookupFails
  <2>2. RequestsOK
    BY DEF Types
  <2> QED BY <2>1, <2>2, PrepareRequests, WriteRequests, CleanupRequests
<1>4. CASE UNCHANGED vars
  BY <1>4 DEF vars, Types, RequestsOK, RequestOK
<1> QED BY <1>2, <1>3, <1>4 DEF Next

\* What each step does to a service's document.
LEMMA ServiceWritten ==
    ASSUME Types, [Next]_vars, ~UNCHANGED svc
    PROVE  \E h \in Handler, s \in Service : \E doc \in Documents \cup {Deleted} :
               /\ svc' = [svc EXCEPT ![s] = doc] /\ s = req[h].service
               /\ doc # Deleted => Accepted(doc.body)
<1>1. PICK h \in Handler : WriteService(h) \/ InsertSourceFails(h) \/ DeleteDocument(h)
  BY Writes
<1> DEFINE r == req[h]
<1>2. RequestsOK /\ ServicesOK
  BY DEF Types
<1>3. CASE WriteService(h)
  <2>1. r.at = "write" /\ svc' = [svc EXCEPT ![r.service] = r.after]
    BY <1>3 DEF WriteService
  <2>2. r \in Writings /\ Accepted(r.after.body)
    BY <1>2, <2>1, WritingFacts DEF Accepted
  <2>3. r.service \in Service /\ r.after \in Documents
    BY <2>2 DEF Writings
  <2> QED BY <2>1, <2>2, <2>3
<1>4. CASE InsertSourceFails(h)
  <2>1. r.at = "sources" /\ svc' = RolledBack(r)
    BY <1>4 DEF InsertSourceFails
  <2>2. r \in Writings /\ (~r.new => r.before \in Documents /\ Accepted(r.before.body))
    BY <1>2, <2>1, WritingFacts
  <2>3. r.service \in Service
    BY <2>2 DEF Writings
  <2>4. CASE r.new
    BY <2>1, <2>3, <2>4 DEF RolledBack
  <2>5. CASE ~r.new
    <3> DEFINE doc == [r.before EXCEPT !.ogc = svc[r.service].ogc]
    <3>1. r.service \in Live /\ svc' = [svc EXCEPT ![r.service] = doc]
      BY <2>1, <2>5 DEF RolledBack
    <3>2. svc[r.service] \in Documents
      BY <1>2, <2>3, <3>1 DEF ServicesOK, Live, NoService, Deleted
    <3>3. r.before \in Documents /\ Accepted(r.before.body)
      BY <2>2, <2>5
    <3>4. doc \in Documents /\ doc.body = r.before.body
      BY <3>2, <3>3 DEF Documents
    <3> HIDE DEF doc
    <3> QED BY <2>3, <3>1, <3>3, <3>4
  <2>6. r.new \in BOOLEAN
    BY <2>2 DEF Writings
  <2> QED BY <2>4, <2>5, <2>6
<1>5. CASE DeleteDocument(h)
  <2>1. r.at = "delete" /\ svc' = [svc EXCEPT ![r.service] = Deleted]
    BY <1>5 DEF DeleteDocument
  <2>2. r.service \in Service
    BY <1>2, <2>1 DEF RequestsOK, RequestOK
  <2> QED BY <2>1, <2>2
<1> QED BY <1>1, <1>3, <1>4, <1>5

LEMMA NextServices ==
    ASSUME Types, [Next]_vars
    PROVE  ServicesOK'
<1>1. CASE UNCHANGED svc
  BY <1>1 DEF Types, ServicesOK, Live
<1>2. CASE ~UNCHANGED svc
  <2>1. PICK s \in Service, doc \in Documents \cup {Deleted} :
             svc' = [svc EXCEPT ![s] = doc] /\ (doc # Deleted => Accepted(doc.body))
    BY <1>2, ServiceWritten
  <2>2. svc' \in [Service -> Documents \cup {NoService, Deleted}]
    BY <2>1 DEF Types, ServicesOK
  <2>3. ASSUME NEW t \in Service, svc'[t].base # None PROVE Accepted(svc'[t].body)
    BY <2>1, <2>3 DEF Types, ServicesOK, Live, Deleted
  <2> QED BY <2>2, <2>3 DEF ServicesOK, Live
<1> QED BY <1>1, <1>2

\* ... and to a source's.
LEMMA SourceWritten ==
    ASSUME Types, [Next]_vars
    PROVE  \/ UNCHANGED source
           \/ \E d \in Source, n \in Contents : source' = [source EXCEPT ![d].content = n] /\ source[d].alias # None
           \/ \E d \in Source, a \in Alias, n \in Contents :
                  source' = [source EXCEPT ![d] = [alias |-> a, content |-> n]]
           \/ \E d \in Source : source' = [source EXCEPT ![d] = [alias |-> None, content |-> -1]]
<1>1. ASSUME NEW h \in Handler, UpdateInline(h) PROVE
           \E d \in Source, n \in Contents : source' = [source EXCEPT ![d].content = n] /\ source[d].alias # None
  <2>1. req[h] \in Writings /\ req[h].at = "prepare" /\ req[h].left # <<>>
    BY <1>1, WritingFacts DEF Types, UpdateInline, Preparation
  <2>2. req[h].n \in Contents /\ req[h].left \in Seq(ResourcePaths)
    BY <2>1 DEF Writings
  <2>3. PICK d \in FindByAlias(Head(req[h].left).alias) : source' = [source EXCEPT ![d].content = req[h].n]
    BY <1>1 DEF UpdateInline
  <2>4. Head(req[h].left) \in ResourcePaths /\ Head(req[h].left).inline
    BY <1>1, <2>1, <2>2, TailFacts DEF UpdateInline
  <2>5. Head(req[h].left).alias \in Alias
    BY <2>4, BodyFacts, ServiceConfigAssumption
  <2>6. d \in Source /\ source[d].alias # None
    BY <2>3, <2>5, ServiceConfigAssumption DEF FindByAlias
  <2> QED BY <2>2, <2>3, <2>6
<1>2. ASSUME NEW h \in Handler, DropOrphan(h) PROVE
           \E d \in Source : source' = [source EXCEPT ![d] = [alias |-> None, content |-> -1]]
  <2>1. req[h].doc \in Source
    BY <1>2 DEF DropOrphan, Types, RequestsOK, RequestOK
  <2> QED BY <1>2, <2>1 DEF DropOrphan
<1>3. ASSUME NEW h \in Handler,
             \/ InsertOneSource(h) \/ SetSource(h)
             \/ req[h].at = "sources" /\ \E c \in req[h].insert : InsertSource(h, c)
      PROVE  \/ UNCHANGED source
             \/ \E d \in Source, a \in Alias, n \in Contents :
                    source' = [source EXCEPT ![d] = [alias |-> a, content |-> n]]
  <2>1. CASE InsertOneSource(h)
    <3>1. req[h].insert \in SUBSET Claims /\ req[h].n \in Contents
      BY <2>1 DEF InsertOneSource, Types, RequestsOK, RequestOK
    <3>2. PICK c \in req[h].insert : source' = [source EXCEPT ![c.doc] = [alias |-> c.alias, content |-> req[h].n]]
      BY <2>1 DEF InsertOneSource
    <3>3. c.doc \in Source /\ c.alias \in Alias
      BY <3>1, <3>2 DEF Claims
    <3> QED BY <3>1, <3>2, <3>3
  <2>2. CASE SetSource(h)
    <3>1. req[h].doc \in Source /\ req[h].alias \in Alias /\ req[h].n \in Contents
      BY <2>2 DEF SetSource, Types, RequestsOK, RequestOK
    <3> QED BY <2>2, <3>1 DEF SetSource
  <2>3. CASE req[h].at = "sources" /\ \E c \in req[h].insert : InsertSource(h, c)
    <3>1. req[h] \in Writings
      BY <2>3, WritingFacts DEF Types
    <3>2. req[h].insert \in SUBSET Claims /\ req[h].n \in Contents
      BY <3>1 DEF Writings
    <3>3. PICK c \in req[h].insert : source' = [source EXCEPT ![c.doc] = [alias |-> c.alias, content |-> req[h].n]]
      BY <2>3 DEF InsertSource
    <3>4. c.doc \in Source /\ c.alias \in Alias
      BY <3>2, <3>3 DEF Claims
    <3> QED BY <3>2, <3>3, <3>4
  <2> QED BY <1>3, <2>1, <2>2, <2>3
<1> QED BY <1>1, <1>2, <1>3, Writes

LEMMA NextSources ==
    ASSUME Types, [Next]_vars
    PROVE  SourcesOK'
<1> DEFINE S == [alias : Alias, content : Contents] \cup {NoSource, [alias |-> None, content |-> -1]}
<1>1. source \in [Source -> S]
  BY DEF Types, SourcesOK
<1>2. ASSUME NEW d \in Source, NEW n \in Contents, source[d].alias # None PROVE [source[d] EXCEPT !.content = n] \in S
  <2>1. source[d] \in [alias : Alias, content : Contents]
    BY <1>1, <1>2 DEF NoSource
  <2> QED BY <2>1
<1>3. source' \in [Source -> S]
  <2>1. CASE \E d \in Source, n \in Contents : source' = [source EXCEPT ![d].content = n] /\ source[d].alias # None
    <3>1. PICK d \in Source, n \in Contents : source' = [source EXCEPT ![d].content = n] /\ source[d].alias # None
      BY <2>1
    <3> DEFINE v == [source[d] EXCEPT !.content = n]
    <3>2. v \in S /\ source' = [source EXCEPT ![d] = v]
      BY <1>2, <3>1
    <3> HIDE DEF v, S
    <3> QED BY <1>1, <3>2
  <2>2. CASE \E d \in Source, a \in Alias, n \in Contents : source' = [source EXCEPT ![d] = [alias |-> a, content |-> n]]
    BY <1>1, <2>2
  <2>3. CASE \E d \in Source : source' = [source EXCEPT ![d] = [alias |-> None, content |-> -1]]
    BY <1>1, <2>3
  <2>4. CASE UNCHANGED source
    BY <1>1, <2>4
  <2> QED BY <2>1, <2>2, <2>3, <2>4, SourceWritten
<1> QED BY <1>3 DEF SourcesOK

LEMMA NextPaths ==
    ASSUME Types, [Next]_vars
    PROVE  PathsOK'
<1>1. CASE UNCHANGED paths
  BY <1>1 DEF Types, PathsOK
<1>2. ASSUME NEW s \in Service, NEW v, paths' = [paths EXCEPT ![s] = v], v \in Documents \/ v = None
      PROVE  PathsOK'
  BY <1>2 DEF Types, PathsOK
<1>3. ASSUME NEW h \in Handler, SyncService(h) PROVE PathsOK'
  <2>1. req[h] \in [at : {"sync"}, service : Service, doc : {<<>>} \cup {<<d>> : d \in Documents}]
    BY <1>3 DEF SyncService, Types, RequestsOK, RequestOK
  <2>2. req[h].service \in Service /\ (req[h].doc = <<>> \/ \E d \in Documents : req[h].doc = <<d>>)
    BY <2>1
  <2>3. CASE req[h].doc = <<>>
    <3>1. req[h].service \in Live => svc[req[h].service] \in Documents
      BY <2>2 DEF Types, ServicesOK, Live, NoService, Deleted
    <3> QED BY <1>1, <1>2, <1>3, <2>2, <2>3, <3>1 DEF SyncService
  <2>4. CASE \E d \in Documents : req[h].doc = <<d>>
    <3>1. PICK d \in Documents : req[h].doc = <<d>>
      BY <2>4
    <3>2. paths' = [paths EXCEPT ![req[h].service] = d]
      BY <1>3, <3>1 DEF SyncService
    <3> QED BY <1>2, <2>2, <3>2
  <2> QED BY <2>2, <2>3, <2>4
<1>4. ASSUME NEW h \in Handler, DeleteDocument(h) PROVE PathsOK'
  <2>1. req[h].service \in Service
    BY <1>4 DEF DeleteDocument, Types, RequestsOK, RequestOK
  <2> QED BY <1>1, <1>2, <1>4, <2>1 DEF DeleteDocument, TellService
<1> QED BY <1>1, <1>3, <1>4, Writes

LEMMA NextRegistry ==
    ASSUME Types, [Next]_vars
    PROVE  RegistryOK'
<1>1. CASE UNCHANGED registry
  BY <1>1 DEF Types, RegistryOK
<1>2. ASSUME NEW a \in Alias, NEW v, registry' = [registry EXCEPT ![a] = v], v \in Contents \/ v = None
      PROVE  RegistryOK'
  BY <1>2 DEF Types, RegistryOK
<1>3. ASSUME NEW a \in Alias, NEW v, TellSource(a, v), v \in Contents \/ v = None PROVE RegistryOK'
  BY <1>1, <1>2, <1>3 DEF TellSource
<1>4. ASSUME NEW h \in Handler, SourcesDone(h) PROVE RegistryOK'
  <2>1. req[h] \in Writings
    BY <1>4, WritingFacts DEF SourcesDone, Types
  <2>2. req[h].n \in Contents
    BY <2>1 DEF Writings
  <2>3. CASE registry' = [a \in Alias |-> IF a \in req[h].updated THEN req[h].n ELSE registry[a]]
    BY <2>2, <2>3 DEF Types, RegistryOK
  <2> QED BY <1>1, <1>4, <2>3 DEF SourcesDone
<1>5. ASSUME NEW h \in Handler, DropOrphan(h) PROVE RegistryOK'
  <2>1. req[h].alias \in Alias
    BY <1>5 DEF DropOrphan, Types, RequestsOK, RequestOK
  <2> QED BY <1>3, <1>5, <2>1 DEF DropOrphan
<1>6. ASSUME NEW h \in Handler, InsertOneSource(h) PROVE RegistryOK'
  <2>1. req[h].insert \in SUBSET Claims /\ req[h].n \in Contents
    BY <1>6 DEF InsertOneSource, Types, RequestsOK, RequestOK
  <2>2. PICK c \in req[h].insert : TellSource(c.alias, req[h].n)
    BY <1>6 DEF InsertOneSource
  <2>3. c.alias \in Alias
    BY <2>1, <2>2 DEF Claims
  <2> QED BY <1>3, <2>1, <2>2, <2>3
<1>7. ASSUME NEW h \in Handler, req[h].at = "sources", NEW c \in req[h].insert, InsertSource(h, c) PROVE RegistryOK'
  <2>1. req[h] \in Writings
    BY <1>7, WritingFacts DEF Types
  <2>2. req[h].insert \in SUBSET Claims /\ req[h].n \in Contents
    BY <2>1 DEF Writings
  <2>3. c.alias \in Alias
    BY <2>2 DEF Claims
  <2> QED BY <1>3, <1>7, <2>2, <2>3 DEF InsertSource
<1>8. ASSUME NEW h \in Handler, SyncSource(h) PROVE RegistryOK'
  <2>1. req[h].doc \in Source
    BY <1>8 DEF SyncSource, Types, RequestsOK, RequestOK
  <2> DEFINE d == source[req[h].doc]
  <2>2. d.alias # None => d.alias \in Alias /\ d.content \in Contents
    BY <2>1 DEF Types, SourcesOK, NoSource
  <2> QED BY <1>1, <1>2, <1>8, <2>2 DEF SyncSource
<1> QED BY <1>1, <1>4, <1>5, <1>6, <1>7, <1>8, Writes

\* The state there is at the start: one service, and a source of each of its aliases.
LEMMA FirstSources ==
    /\ SourceOf \in [AliasesOf(Initial) -> Source]
    /\ \A a, b \in AliasesOf(Initial) : SourceOf[a] = SourceOf[b] => a = b
    /\ \A a \in AliasesOf(Initial) : FirstSource(SourceOf[a]) = [alias |-> a, content |-> 0]
    /\ \A d \in Source : FirstSource(d) = NoSource
           \/ \E a \in AliasesOf(Initial) : SourceOf[a] = d /\ FirstSource(d) = [alias |-> a, content |-> 0]
<1>1. \E f \in [AliasesOf(Initial) -> Source] : \A a, b \in AliasesOf(Initial) : f[a] = f[b] => a = b
  BY ServiceConfigAssumption
<1>2. /\ SourceOf \in [AliasesOf(Initial) -> Source]
      /\ \A a, b \in AliasesOf(Initial) : SourceOf[a] = SourceOf[b] => a = b
  BY <1>1 DEF SourceOf
<1>3. ASSUME NEW d \in Source, \E a \in AliasesOf(Initial) : SourceOf[a] = d
      PROVE  \E a \in AliasesOf(Initial) : SourceOf[a] = d /\ FirstSource(d) = [alias |-> a, content |-> 0]
  <2> DEFINE b == CHOOSE a \in AliasesOf(Initial) : SourceOf[a] = d
  <2>1. b \in AliasesOf(Initial) /\ SourceOf[b] = d
    BY <1>3
  <2>2. FirstSource(d) = [alias |-> b, content |-> 0]
    BY <1>3 DEF FirstSource
  <2> QED BY <2>1, <2>2
<1>4. ASSUME NEW d \in Source, ~\E a \in AliasesOf(Initial) : SourceOf[a] = d PROVE FirstSource(d) = NoSource
  BY <1>4 DEF FirstSource
<1>5. ASSUME NEW a \in AliasesOf(Initial) PROVE FirstSource(SourceOf[a]) = [alias |-> a, content |-> 0]
  <2>1. SourceOf[a] \in Source
    BY <1>2
  <2>2. PICK b \in AliasesOf(Initial) :
             SourceOf[b] = SourceOf[a] /\ FirstSource(SourceOf[a]) = [alias |-> b, content |-> 0]
    BY <1>3, <2>1
  <2>3. b = a
    BY <1>2, <2>2
  <2> QED BY <2>2, <2>3
<1> QED BY <1>2, <1>3, <1>4, <1>5

LEMMA InitTypes == Init => Types
<1> SUFFICES ASSUME Init PROVE Types
  OBVIOUS
<1>1. PICK base \in BasePath : svc = [s \in Service |->
           IF s = First THEN [base |-> base, body |-> Initial, ogc |-> 0] ELSE NoService]
  BY DEF Init
<1>2. 0 \in Contents /\ 0 \in 0 .. MaxFaults
  BY ServiceConfigAssumption DEF Contents
<1>3. [base |-> base, body |-> Initial, ogc |-> 0] \in Documents
  BY <1>2 DEF Documents
<1>4. ServicesOK
  <2>1. Accepted(Initial)
    BY ServiceConfigAssumption DEF Accepted
  <2>2. svc \in [Service -> Documents \cup {NoService, Deleted}]
    BY <1>1, <1>3
  <2>3. ASSUME NEW s \in Service, svc[s].base # None PROVE svc[s].body = Initial
    BY <1>1, <2>3 DEF NoService
  <2> QED BY <2>1, <2>2, <2>3 DEF ServicesOK, Live
<1>5. SourcesOK
  <2>1. AliasesOf(Initial) \subseteq Alias
    BY BodyFacts
  <2>2. ASSUME NEW d \in Source PROVE FirstSource(d) \in [alias : Alias, content : Contents] \cup {NoSource}
    BY <1>2, <2>1, FirstSources
  <2>3. source = [d \in Source |-> FirstSource(d)]
    BY DEF Init
  <2> QED BY <2>2, <2>3 DEF SourcesOK
<1>6. PathsOK
  <2>1. paths = [s \in Service |-> IF s \in Live THEN svc[s] ELSE None]
    BY DEF Init
  <2>2. \A s \in Live : svc[s] \in Documents
    BY <1>4 DEF ServicesOK, Live, NoService, Deleted
  <2> QED BY <2>1, <2>2 DEF PathsOK
<1>7. RegistryOK
  BY <1>2 DEF Init, RegistryOK
<1>8. RequestsOK
  BY IdleOK DEF Init, RequestsOK
<1>9. CountersOK
  BY <1>2 DEF Init, CountersOK
<1> QED BY <1>4, <1>5, <1>6, <1>7, <1>8, <1>9 DEF Types

LEMMA NextTypes ==
    ASSUME Types, [Next]_vars
    PROVE  Types'
<1>1. RequestsOK' /\ ServicesOK' /\ SourcesOK'
  BY NextRequests, NextServices, NextSources
<1>2. PathsOK' /\ RegistryOK'
  BY NextPaths, NextRegistry
<1>3. CountersOK'
  BY BoundsOK DEF Types
<1> QED BY <1>1, <1>2, <1>3 DEF Types

LEMMA TypesInvariant == Spec => []Types
<1> QED BY InitTypes, NextTypes, PTL DEF Spec

\* A service that is there always has resource paths that were accepted: those of the rollback were too.
THEOREM TypesHold == Spec => []TypeOK
<1>1. ASSUME Types PROVE TypeOK
  <2>1. \A s \in Live : ValidateWildcardPaths(svc[s].body) /\ ~CheckInternalPathConflicts(svc[s].body)
    BY <1>1 DEF Types, ServicesOK, Accepted
  <2>2. svc \in [Service -> Documents \cup {NoService, Deleted}]
    BY <1>1 DEF Types, ServicesOK
  <2>3. \A h \in Handler : req[h].at \in {"idle", "prepare", "write", "sources", "orphans", "drop",
           "sync", "delete", "insertsource", "setsource", "syncsource"}
    BY <1>1 DEF Types, RequestsOK, RequestOK
  <2> QED BY <1>1, <2>1, <2>2, <2>3 DEF TypeOK, Types, SourcesOK, PathsOK, RegistryOK, CountersOK
<1> QED BY <1>1, TypesInvariant, PTL

-----------------------------------------------------------------------------
(* Base paths and aliases: the uniqueness checks that the module           *)
(* implements.  A name is claimed from the look-up to the last write.      *)

LEMMA ClaimsMade ==
    ASSUME NEW r
    PROVE  /\ r.at \in {"prepare", "write"} =>
                  BaseClaim(r) = {<<r.service, r.after.base>>} \cup IF r.new THEN {} ELSE {<<r.service, r.before.base>>}
           /\ r.at = "sources" /\ ~r.new /\ r.insert # {} => BaseClaim(r) = {<<r.service, r.before.base>>}
           /\ r.at = "sources" /\ (r.new \/ r.insert = {}) => BaseClaim(r) = {}
           /\ r.at \notin {"prepare", "write", "sources"} => BaseClaim(r) = {}
           /\ r.at \in {"prepare", "write", "sources", "insertsource"} =>
                  SourceClaim(r) = {<<c.doc, c.alias>> : c \in r.insert}
           /\ r.at = "setsource" => SourceClaim(r) = {<<r.doc, r.alias>>}
           /\ r.at \notin {"prepare", "write", "sources", "insertsource", "setsource"} => SourceClaim(r) = {}
BY DEF BaseClaim, SourceClaim

\* One request's claims change at a time.
LEMMA ClaimsChange ==
    ASSUME RequestsOK, NEW h \in Handler, NEW q, Goes(h, q)
    PROVE  /\ BaseClaims' = [BaseClaims EXCEPT ![h] = BaseClaim(q)] /\ BaseClaims[h] = BaseClaim(req[h])
           /\ SourceClaims' = [SourceClaims EXCEPT ![h] = SourceClaim(q)] /\ SourceClaims[h] = SourceClaim(req[h])
<1>1. req' = [req EXCEPT ![h] = q] /\ DOMAIN req = Handler
  BY DEF Goes, RequestsOK
<1>2. \A g \in Handler : req'[g] = IF g = h THEN q ELSE req[g]
  BY <1>1
<1>3. BaseClaims' = [g \in Handler |-> IF g = h THEN BaseClaim(q) ELSE BaseClaim(req[g])]
  BY <1>2 DEF BaseClaims, BaseClaim
<1>4. SourceClaims' = [g \in Handler |-> IF g = h THEN SourceClaim(q) ELSE SourceClaim(req[g])]
  BY <1>2 DEF SourceClaims, SourceClaim
<1> QED BY <1>3, <1>4 DEF BaseClaims, SourceClaims

\* A request that goes on claims nothing more, or has one source more to insert.
Progress(r, q) ==
    \/ q.at \notin {"prepare", "write", "sources", "insertsource", "setsource"}
    \/ /\ r \in Writings /\ q \in Writings
       /\ q.service = r.service /\ q.new = r.new /\ q.before = r.before /\ q.after = r.after
       /\ <<r.at, q.at>> \in {<<"prepare", "prepare">>, <<"prepare", "write">>,
                              <<"write", "sources">>, <<"sources", "sources">>}

MakesInline(h) == \E d \in Source : PrepareInline(h, d) \/ SourceLookupFails(h, d)

LEMMA ContinueGoes ==
    ASSUME RequestsOK, RequestsOK', NEW h \in Handler, Continue(h)
    PROVE  \E q : /\ Goes(h, q) /\ Progress(req[h], q)
                  /\ \/ q.at \in {"prepare", "write", "sources"} => q.insert \subseteq req[h].insert
                     \/ MakesInline(h)
<1> DEFINE r == req[h]
<1>1. /\ r.at \in {"prepare", "write", "sources"} => r \in Writings
      /\ \A q : Goes(h, q) /\ q.at \in {"prepare", "write", "sources"} => q \in Writings
  <2>1. ASSUME NEW q, Goes(h, q), q.at \in {"prepare", "write", "sources"} PROVE q \in Writings
    BY <2>1 DEF Goes, RequestsOK, RequestOK
  <2> QED BY <2>1, WritingFacts
\* It is enough to say what request it is by then.
<1>2. ASSUME NEW q, Goes(h, q), r.at \in {"prepare", "write", "sources"},
             q.service = r.service, q.new = r.new, q.before = r.before, q.after = r.after,
             <<r.at, q.at>> \in {<<"prepare", "prepare">>, <<"prepare", "write">>,
                                 <<"write", "sources">>, <<"sources", "sources">>}
      PROVE  Progress(r, q)
  BY <1>1, <1>2 DEF Progress
<1>3. ASSUME NEW q, Goes(h, q), q.at \notin {"prepare", "write", "sources", "insertsource", "setsource"}
      PROVE  \E p : /\ Goes(h, p) /\ Progress(r, p)
                    /\ p.at \in {"prepare", "write", "sources"} => p.insert \subseteq r.insert
  BY <1>3 DEF Progress
<1>4. CASE Ends(h)
  BY <1>3, <1>4 DEF Ends, Idle
<1>5. CASE PrepareAgain(h) \/ UpdateInline(h) \/ ValidateAlias(h) \/ MakesInline(h)
  <2> DEFINE R == Rest(r)
             a == Head(r.left).alias
  <2>1. r.at = "prepare" /\ r \in Writings
    BY <1>1, <1>5 DEF PrepareAgain, UpdateInline, ValidateAlias, MakesInline, PrepareInline, SourceLookupFails,
       MakeInline, Preparation
  <2>2. /\ R.at = r.at /\ R.service = r.service /\ R.new = r.new /\ R.before = r.before /\ R.after = r.after
        /\ R.insert = r.insert /\ DOMAIN R = DOMAIN r
    BY <2>1 DEF Rest, Writings
  <2>3. PICK q : /\ Goes(h, q) /\ q.at = R.at /\ q.service = R.service /\ q.new = R.new
                 /\ q.before = R.before /\ q.after = R.after
                 /\ q.insert = R.insert \/ MakesInline(h)
    <3>1. CASE PrepareAgain(h)
      BY <3>1 DEF PrepareAgain
    <3>2. CASE UpdateInline(h)
      <4> DEFINE q == [R EXCEPT !.updated = @ \cup {a}, !.done = @ \cup {a}]
      <4>1. Goes(h, q)
        BY <3>2 DEF UpdateInline
      <4>2. /\ q.at = R.at /\ q.service = R.service /\ q.new = R.new
            /\ q.before = R.before /\ q.after = R.after /\ q.insert = R.insert
        OBVIOUS
      <4> QED BY <4>1, <4>2
    <3>3. CASE ValidateAlias(h)
      <4> DEFINE q == [R EXCEPT !.invalid = @ \/ (a # NoAlias /\ FindByAlias(a) = {})]
      <4>1. Goes(h, q)
        BY <3>3 DEF ValidateAlias
      <4>2. /\ q.at = R.at /\ q.service = R.service /\ q.new = R.new
            /\ q.before = R.before /\ q.after = R.after /\ q.insert = R.insert
        OBVIOUS
      <4> QED BY <4>1, <4>2
    <3>4. CASE MakesInline(h)
      <4>1. PICK d \in Source : MakeInline(h, d)
        BY <3>4 DEF MakesInline, PrepareInline, SourceLookupFails
      <4> DEFINE q == [R EXCEPT !.insert = @ \cup {[doc |-> d, alias |-> a]}, !.done = @ \cup {a}]
      <4>2. Goes(h, q)
        BY <4>1 DEF MakeInline
      <4>3. /\ q.at = R.at /\ q.service = R.service /\ q.new = R.new
            /\ q.before = R.before /\ q.after = R.after
        OBVIOUS
      <4> QED BY <3>4, <4>2, <4>3
    <3> QED BY <1>5, <3>1, <3>2, <3>3, <3>4
  <2>4. Progress(r, q)
    BY <1>2, <2>1, <2>2, <2>3
  <2> QED BY <2>2, <2>3, <2>4
<1>6. CASE Prepared(h) /\ ~Ends(h)
  <2> DEFINE q == [r EXCEPT !.at = "write"]
  <2>1. Goes(h, q) /\ r.at = "prepare"
    BY <1>6 DEF Prepared
  <2>2. q.at = "write" /\ q.service = r.service /\ q.new = r.new /\ q.before = r.before /\ q.after = r.after
        /\ q.insert = r.insert
    BY <1>1, <2>1 DEF Writings
  <2>3. Progress(r, q)
    BY <1>2, <2>1, <2>2
  <2> QED BY <2>1, <2>2, <2>3
<1>7. CASE WriteService(h)
  <2> DEFINE q == [r EXCEPT !.at = "sources"]
  <2>1. Goes(h, q) /\ r.at = "write"
    BY <1>7 DEF WriteService
  <2>2. q.at = "sources" /\ q.service = r.service /\ q.new = r.new /\ q.before = r.before /\ q.after = r.after
        /\ q.insert = r.insert
    BY <1>1, <2>1 DEF Writings
  <2>3. Progress(r, q)
    BY <1>2, <2>1, <2>2
  <2> QED BY <2>1, <2>2, <2>3
<1>8. CASE r.at = "sources" /\ \E c \in r.insert : InsertSource(h, c)
  <2>1. PICK c \in r.insert : InsertSource(h, c)
    BY <1>8
  <2> DEFINE q == [r EXCEPT !.insert = @ \ {c}]
  <2>2. Goes(h, q)
    BY <2>1 DEF InsertSource
  <2>3. q.at = "sources" /\ q.service = r.service /\ q.new = r.new /\ q.before = r.before /\ q.after = r.after
        /\ q.insert \subseteq r.insert
    BY <1>1, <1>8 DEF Writings
  <2>4. Progress(r, q)
    BY <1>2, <1>8, <2>2, <2>3
  <2> QED BY <2>2, <2>3, <2>4
<1>9. CASE SourcesDone(h)
  BY <1>3, <1>9 DEF SourcesDone
<1>10. CASE OrphansDone(h) \/ SetSource(h)
  BY <1>3, <1>4, <1>10 DEF OrphansDone, SetSource
<1>11. CASE DropOrphan(h)
  <2>1. r.rest.at \in {"idle", "orphans"} /\ Goes(h, r.rest)
    BY <1>11 DEF DropOrphan, RequestsOK, RequestOK, Idle, Cleanups
  <2> QED BY <1>3, <2>1
<1>12. CASE \E a \in Alias : CheckOrphan(h, a)
  <2>1. PICK a \in Alias : CheckOrphan(h, a)
    BY <1>12
  <2> DEFINE rest == [r EXCEPT !.left = @ \ {a}]
  <2>2. rest.at = "orphans"
    BY <2>1 DEF CheckOrphan, RequestsOK, RequestOK, Cleanups
  <2>3. Goes(h, rest) \/ \E d \in Source : Goes(h, [at |-> "drop", doc |-> d, alias |-> a, rest |-> rest])
    BY <2>1 DEF CheckOrphan, FindByAlias
  <2> HIDE DEF rest
  <2> QED BY <1>3, <2>2, <2>3
<1>13. CASE InsertSourceFails(h) \/ SyncService(h) \/ DeleteDocument(h) \/ InsertOneSource(h) \/ SyncSource(h)
            \/ RequestDies(h)
  BY <1>4, <1>13 DEF InsertSourceFails, SyncService, DeleteDocument, InsertOneSource, SyncSource, RequestDies
<1>14. \/ PrepareAgain(h) \/ UpdateInline(h) \/ ValidateAlias(h) \/ MakesInline(h)
       \/ Prepared(h) \/ WriteService(h) \/ SourcesDone(h)
       \/ r.at = "sources" /\ \E c \in r.insert : InsertSource(h, c)
       \/ \E a \in Alias : CheckOrphan(h, a)
       \/ DropOrphan(h) \/ OrphansDone(h) \/ SetSource(h)
       \/ InsertSourceFails(h) \/ SyncService(h) \/ DeleteDocument(h) \/ InsertOneSource(h) \/ SyncSource(h)
       \/ RequestDies(h)
  BY DEF Continue, MakesInline
<1> QED BY <1>4, <1>5, <1>6, <1>7, <1>8, <1>9, <1>10, <1>11, <1>12, <1>13, <1>14

LEMMA BaseKeeps ==
    ASSUME RequestsOK, RequestsOK', NEW h \in Handler, Continue(h)
    PROVE  BaseCheck!KeepsSome(h)
<1> DEFINE r == req[h]
<1>1. PICK q : /\ Goes(h, q) /\ Progress(r, q)
               /\ \/ q.at \in {"prepare", "write", "sources"} => q.insert \subseteq r.insert
                  \/ MakesInline(h)
  BY ContinueGoes
<1>2. BaseClaim(q) \subseteq BaseClaim(r)
  <2>1. CASE q.at \notin {"prepare", "write", "sources"}
    BY <2>1, ClaimsMade
  <2>2. CASE q.at \in {"prepare", "write", "sources"}
    <3>1. /\ r \in Writings /\ q \in Writings
          /\ q.service = r.service /\ q.new = r.new /\ q.before = r.before /\ q.after = r.after
          /\ <<r.at, q.at>> \in {<<"prepare", "prepare">>, <<"prepare", "write">>,
                                 <<"write", "sources">>, <<"sources", "sources">>}
      BY <1>1, <2>2 DEF Progress
    <3>2. CASE q.at \in {"prepare", "write"}
      <4>1. r.at \in {"prepare", "write"}
        BY <3>1, <3>2
      <4> QED BY <3>1, <3>2, <4>1, ClaimsMade
    <3>3. CASE r.at = "write" /\ q.at = "sources"
      <4>1. r.new \in BOOLEAN
        BY <3>1 DEF Writings
      <4>2. BaseClaim(r) = {<<r.service, r.after.base>>} \cup IF r.new THEN {} ELSE {<<r.service, r.before.base>>}
        BY <3>3, ClaimsMade
      <4>3. BaseClaim(q) = {} \/ (~q.new /\ BaseClaim(q) = {<<q.service, q.before.base>>})
        BY <3>3, ClaimsMade
      <4> QED BY <3>1, <4>1, <4>2, <4>3
    <3>4. CASE r.at = "sources" /\ q.at = "sources"
      <4>1. q.insert \subseteq r.insert
        BY <1>1, <3>4 DEF MakesInline, PrepareInline, SourceLookupFails, MakeInline, Preparation
      <4>2. BaseClaim(q) = {} \/ (~q.new /\ q.insert # {} /\ BaseClaim(q) = {<<q.service, q.before.base>>})
        BY <3>4, ClaimsMade
      <4>3. ~r.new /\ r.insert # {} => BaseClaim(r) = {<<r.service, r.before.base>>}
        BY <3>4, ClaimsMade
      <4> QED BY <3>1, <4>1, <4>2, <4>3
    <3> QED BY <3>1, <3>2, <3>3, <3>4
  <2> QED BY <2>1, <2>2
<1>3. BaseClaims' = [BaseClaims EXCEPT ![h] = BaseClaim(q)] /\ BaseClaim(q) \in SUBSET BaseClaims[h]
  BY <1>1, <1>2, ClaimsChange
<1> QED BY <1>3 DEF BaseCheck!KeepsSome

\* What claims a source, or has it in hand.
LEMMA SourceKeeps ==
    ASSUME RequestsOK, RequestsOK', NEW h \in Handler, Continue(h), ~MakesInline(h)
    PROVE  SourceCheck!KeepsSome(h)
<1> DEFINE r == req[h]
<1>1. PICK q : /\ Goes(h, q) /\ Progress(r, q)
               /\ q.at \in {"prepare", "write", "sources"} => q.insert \subseteq r.insert
  BY ContinueGoes
<1>2. SourceClaim(q) \subseteq SourceClaim(r)
  <2>1. CASE q.at \notin {"prepare", "write", "sources"}
    BY <1>1, <2>1, ClaimsMade DEF Progress, Writings
  <2>2. CASE q.at \in {"prepare", "write", "sources"}
    <3>1. r.at \in {"prepare", "write", "sources"} /\ q.insert \subseteq r.insert
      BY <1>1, <2>2 DEF Progress, Writings
    <3>2. SourceClaim(r) = {<<c.doc, c.alias>> : c \in r.insert}
      BY <3>1, ClaimsMade
    <3>3. SourceClaim(q) = {<<c.doc, c.alias>> : c \in q.insert}
      BY <2>2, ClaimsMade
    <3> QED BY <3>1, <3>2, <3>3
  <2> QED BY <2>1, <2>2
<1>3. SourceClaims' = [SourceClaims EXCEPT ![h] = SourceClaim(q)] /\ SourceClaim(q) \in SUBSET SourceClaims[h]
  BY <1>1, <1>2, ClaimsChange
<1> QED BY <1>3 DEF SourceCheck!KeepsSome

LEMMA BlindKept ==
    ASSUME CountersOK, [Next]_vars
    PROVE  /\ \/ blind'.base = blind.base
              \/ blind'.base = blind.base + 1 /\ \E h \in Handler, s \in Service, base \in BasePath, body \in Body :
                     (NewService(s) \/ s \in Live) /\ BasePathLookupFails(h, s, base, body)
           /\ \/ blind'.source = blind.source
              \/ blind'.source = blind.source + 1 /\
                     \/ \E h \in Handler, d \in Source : SourceLookupFails(h, d)
                     \/ \E h \in Handler, d \in Source, a \in Alias : CreateSource(h, d, a) \/ UpdateSource(h, d, a)
<1> USE DEF bounds, vars, Fault
<1>1. blind \in [base : Nat, source : Nat]
  BY DEF CountersOK
<1>2. CASE UNCHANGED blind
  BY <1>2
<1>3. ASSUME NEW h \in Handler, NEW s \in Service, NEW base \in BasePath, NEW body \in Body,
             BasePathLookupFails(h, s, base, body)
      PROVE  blind'.base = blind.base + 1 /\ blind'.source = blind.source
  BY <1>1, <1>3 DEF BasePathLookupFails
<1>4. ASSUME NEW h \in Handler, NEW d \in Source, SourceLookupFails(h, d)
      PROVE  blind'.source = blind.source + 1 /\ blind'.base = blind.base
  BY <1>1, <1>4 DEF SourceLookupFails
<1>5. ASSUME NEW h \in Handler, NEW d \in Source, NEW a \in Alias, CreateSource(h, d, a) \/ UpdateSource(h, d, a)
      PROVE  UNCHANGED blind \/ (blind'.source = blind.source + 1 /\ blind'.base = blind.base)
  BY <1>1, <1>5 DEF CreateSource, UpdateSource, AliasIsFree, Begins
<1>6. ASSUME NEW h \in Handler, Continue(h), ~\E d \in Source : SourceLookupFails(h, d) PROVE UNCHANGED blind
  BY <1>6 DEF Continue, PrepareAgain, UpdateInline, ValidateAlias, Prepared, PrepareInline,
     WriteService, InsertSourceFails, SourcesDone, SyncService, InsertSource, CheckOrphan,
     DropOrphan, OrphansDone, DeleteDocument, InsertOneSource, SetSource, SyncSource, RequestDies,
     TellSource, TellService, Lost
<1>7. ASSUME NEW h \in Handler, Request(h),
             ~\E s \in Service, base \in BasePath, body \in Body :
                  (NewService(s) \/ s \in Live) /\ BasePathLookupFails(h, s, base, body),
             ~\E d \in Source, a \in Alias : CreateSource(h, d, a) \/ UpdateSource(h, d, a)
      PROVE  UNCHANGED blind
  <2>1. \/ \E s \in Service, base \in BasePath, body \in Body :
               CreateService(h, s, base, body) \/ UpdateService(h, s, base, body)
        \/ \E s \in Service : DeleteService(h, s)
        \/ \E d \in Source : DeleteSource(h, d)
    BY <1>7, RequestBegins
  <2> QED BY <2>1 DEF CreateService, UpdateService, DeleteService, DeleteSource, Begins
<1>8. CASE \E h \in Handler : Request(h)
  BY <1>2, <1>3, <1>5, <1>7, <1>8
<1>9. CASE \E h \in Handler : Continue(h)
  BY <1>2, <1>4, <1>6, <1>9
<1> QED BY <1>2, <1>8, <1>9 DEF Next

\* A request to create or update a service looks for its base path, or fails to, and claims it, and an
\* update the one it would go back to.
LEMMA BaseLooked ==
    ASSUME RequestsOK, ServicesOK, CountersOK, NEW h \in Handler, NEW s \in Service, NEW base \in BasePath, NEW body,
           \/ CreateService(h, s, base, body)
           \/ UpdateService(h, s, base, body)
           \/ (NewService(s) \/ s \in Live) /\ BasePathLookupFails(h, s, base, body)
    PROVE  BaseCheck!Next
<1> DEFINE q == Preparing(s, base, body)
           K == IF svc[s] = NoService THEN {base} ELSE {base, svc[s].base}
<1>1. req[h] = Idle /\ Goes(h, q) /\ (NewService(s) \/ s \in Live) /\ UNCHANGED svc
  BY DEF CreateService, UpdateService, BasePathLookupFails, Begins, docs
<1>2. NewService(s) => svc[s] = NoService
  BY DEF NewService
<1>3. s \in Live => svc[s] # NoService /\ svc[s].base \in BasePath
  BY DEF Live, ServicesOK, Documents, NoService, Deleted
<1>4. K \in SUBSET BasePath
  BY <1>1, <1>2, <1>3
<1>5. BaseClaim(q) = {s} \X K
  <2>1. /\ q.at = "prepare" /\ q.service = s /\ q.after.base = base /\ q.new = (svc[s] = NoService)
        /\ q.before.base = svc[s].base
    BY DEF Preparing
  <2> HIDE DEF q
  <2>2. BaseClaim(q) = {<<s, base>>} \cup IF svc[s] = NoService THEN {} ELSE {<<s, svc[s].base>>}
    BY <2>1, ClaimsMade
  <2>3. {s} \X {base} = {<<s, base>>} /\ {s} \X {base, svc[s].base} = {<<s, base>>, <<s, svc[s].base>>}
    OBVIOUS
  <2> QED BY <2>2, <2>3
<1>6. BaseClaims[h] = {} /\ BaseClaims' = [BaseClaims EXCEPT ![h] = BaseClaim(q)]
  <2> HIDE DEF q
  <2>1. BaseClaim(Idle) = {}
    BY ClaimsMade DEF Idle
  <2> QED BY <1>1, <2>1, ClaimsChange
<1>7. BaseCheck!ClaimsToo(h, s, K)
  <2>1. BaseClaims' = [BaseClaims EXCEPT ![h] = BaseClaims[h] \cup ({s} \X K)]
    BY <1>5, <1>6
  <2> HIDE DEF K
  <2> QED BY <1>6, <2>1 DEF BaseCheck!ClaimsToo, BaseCheck!Claims
<1>8. UNCHANGED BaseOf
  BY <1>1 DEF BaseOf
<1>9. CASE CreateService(h, s, base, body) \/ UpdateService(h, s, base, body)
  <2>1. blind' = blind
    BY <1>9 DEF CreateService, UpdateService, Begins
  <2>2. ASSUME NEW k \in K PROVE BaseCheck!Named(k) = {} \/ BaseOf[s] = k
    <3>1. CASE FindByBasePath(base) = {} /\ k = base
      <4>1. \A t \in Service : BaseOf[t] = base => t \in FindByBasePath(base)
        BY ServiceConfigAssumption DEF BaseOf, FindByBasePath, Live
      <4> QED BY <3>1, <4>1 DEF BaseCheck!Named
    <3>2. CASE k = svc[s].base
      BY <3>2 DEF BaseOf
    <3>3. svc[s] = NoService => CreateService(h, s, base, body)
      BY <1>3, <1>9 DEF UpdateService
    <3> QED BY <1>9, <3>1, <3>2, <3>3 DEF CreateService, UpdateService
  <2>3. BaseCheck!Look(h, s, K)
    <3> HIDE DEF K
    <3> QED BY <1>7, <1>8, <2>1, <2>2 DEF BaseCheck!Look
  <2> QED BY <1>4, <2>3 DEF BaseCheck!Next
<1>10. CASE (NewService(s) \/ s \in Live) /\ BasePathLookupFails(h, s, base, body)
  <2>1. blind'.base = blind.base + 1
    BY <1>10 DEF BasePathLookupFails, CountersOK
  <2>2. BaseCheck!LookFails(h, s, K)
    <3> HIDE DEF K
    <3> QED BY <1>7, <1>8, <2>1 DEF BaseCheck!LookFails
  <2> QED BY <1>4, <2>2 DEF BaseCheck!Next
<1> QED BY <1>9, <1>10

LEMMA BaseRequest ==
    ASSUME Types, [Next]_vars, NEW h \in Handler, Request(h)
    PROVE  BaseCheck!Next
<1> USE DEF Types
<1>1. CASE \E s \in Service, base \in BasePath, body \in Body :
               \/ CreateService(h, s, base, body)
               \/ UpdateService(h, s, base, body)
               \/ (NewService(s) \/ s \in Live) /\ BasePathLookupFails(h, s, base, body)
  BY <1>1, BaseLooked
<1>2. CASE ~\E s \in Service, base \in BasePath, body \in Body :
                \/ CreateService(h, s, base, body)
                \/ UpdateService(h, s, base, body)
                \/ (NewService(s) \/ s \in Live) /\ BasePathLookupFails(h, s, base, body)
  <2>1. \/ \E s \in Service : DeleteService(h, s)
        \/ \E d \in Source, a \in Alias : CreateSource(h, d, a) \/ UpdateSource(h, d, a)
        \/ \E d \in Source : DeleteSource(h, d)
    BY <1>2, RequestBegins
  <2>2. PICK q : Goes(h, q) /\ q.at \in {"orphans", "insertsource", "setsource", "drop"}
    <3>1. ASSUME NEW s \in Service, DeleteService(h, s)
          PROVE  \E q : Goes(h, q) /\ q.at \in {"orphans", "insertsource", "setsource", "drop"}
      BY <3>1 DEF DeleteService
    <3>2. ASSUME NEW d \in Source, NEW a \in Alias, CreateSource(h, d, a)
          PROVE  \E q : Goes(h, q) /\ q.at \in {"orphans", "insertsource", "setsource", "drop"}
      BY <3>2 DEF CreateSource
    <3>3. ASSUME NEW d \in Source, NEW a \in Alias, UpdateSource(h, d, a)
          PROVE  \E q : Goes(h, q) /\ q.at \in {"orphans", "insertsource", "setsource", "drop"}
      BY <3>3 DEF UpdateSource
    <3>4. ASSUME NEW d \in Source, DeleteSource(h, d)
          PROVE  \E q : Goes(h, q) /\ q.at \in {"orphans", "insertsource", "setsource", "drop"}
      BY <3>4 DEF DeleteSource
    <3> QED BY <2>1, <3>1, <3>2, <3>3, <3>4
  <2>3. UNCHANGED <<svc, blind.base>>
    <3>1. UNCHANGED svc
      BY <2>1 DEF DeleteService, CreateSource, UpdateSource, DeleteSource, docs
    <3>2. UNCHANGED blind \/ blind' = [blind EXCEPT !.source = @ + 1]
      BY <2>1 DEF DeleteService, CreateSource, UpdateSource, DeleteSource, AliasIsFree, Begins
    <3> QED BY <3>1, <3>2 DEF CountersOK
  <2>4. BaseClaim(q) = {}
    BY <2>2, ClaimsMade
  <2>5. BaseClaims' = [BaseClaims EXCEPT ![h] = {}]
    BY <2>2, <2>4, ClaimsChange
  <2>6. BaseCheck!GiveUp(h)
    BY <2>3, <2>5 DEF BaseCheck!GiveUp, BaseCheck!KeepsSome, BaseOf
  <2> QED BY <2>6 DEF BaseCheck!Next
<1> QED BY <1>1, <1>2

\* A request that goes on gives up a base path, or writes one that it has claimed, or frees one.
LEMMA BaseContinue ==
    ASSUME Types, Types', [Next]_vars, NEW h \in Handler, Continue(h)
    PROVE  BaseCheck!Next
<1> USE DEF Types
<1> DEFINE r == req[h]
<1>1. BaseCheck!KeepsSome(h)
  BY BaseKeeps
<1>2. UNCHANGED blind.base
  <2>1. started' = started
    BY DEF Continue, PrepareAgain, UpdateInline, ValidateAlias, Prepared, PrepareInline, SourceLookupFails,
       MakeInline, WriteService, InsertSourceFails, SourcesDone, SyncService, InsertSource, CheckOrphan,
       DropOrphan, OrphansDone, DeleteDocument, InsertOneSource, SetSource, SyncSource, RequestDies,
       TellSource, TellService, Lost, bounds
  <2>2. ~\E g \in Handler, s \in Service, base \in BasePath, body \in Body :
            (NewService(s) \/ s \in Live) /\ BasePathLookupFails(g, s, base, body)
    BY <2>1 DEF BasePathLookupFails, CountersOK, Contents
  <2> QED BY <2>2, BlindKept
<1>3. CASE UNCHANGED svc
  <2>1. BaseCheck!GiveUp(h)
    BY <1>1, <1>2, <1>3 DEF BaseCheck!GiveUp, BaseOf
  <2> QED BY <2>1 DEF BaseCheck!Next
\* A document is written with a claimed base path.
<1>4. ASSUME NEW s \in Service, NEW doc, svc' = [svc EXCEPT ![s] = doc], <<s, doc.base>> \in BaseClaim(r)
      PROVE  BaseCheck!Next
  <2>1. PICK c : c = <<s, doc.base>>
    OBVIOUS
  <2>2. BaseOf' = [BaseOf EXCEPT ![c[1]] = c[2]]
    BY <1>4, <2>1 DEF BaseOf, ServicesOK
  <2>3. BaseCheck!Write(h, c)
    BY <1>1, <1>2, <2>2 DEF BaseCheck!Write
  <2>4. c \in BaseClaims[h]
    BY <1>4, <2>1 DEF BaseClaims
  <2> QED BY <2>3, <2>4 DEF BaseCheck!Next
<1>5. ASSUME NEW s \in Service, svc' = [svc EXCEPT ![s] = Deleted], BaseClaim(r) = {}
      PROVE  BaseCheck!Next
  <2>1. BaseOf' = [t \in Service |-> IF t \in {s} THEN None ELSE BaseOf[t]]
    BY <1>5 DEF BaseOf, Deleted, ServicesOK
  <2>2. UNCHANGED BaseClaims
    <3>1. PICK C \in SUBSET BaseClaims[h] : BaseClaims' = [BaseClaims EXCEPT ![h] = C]
      BY <1>1 DEF BaseCheck!KeepsSome
    <3>2. BaseClaims[h] = {}
      BY <1>5 DEF BaseClaims
    <3> QED BY <3>1, <3>2 DEF BaseClaims
  <2>3. BaseCheck!Free({s})
    BY <1>2, <2>1, <2>2 DEF BaseCheck!Free
  <2> QED BY <2>3 DEF BaseCheck!Next
<1>6. CASE WriteService(h) /\ ~UNCHANGED svc
  <2>1. r.at = "write" /\ svc' = [svc EXCEPT ![r.service] = r.after]
    BY <1>6 DEF WriteService
  <2>2. r.service \in Service
    BY <2>1, WritingFacts DEF Writings
  <2>3. <<r.service, r.after.base>> \in BaseClaim(r)
    BY <2>1, ClaimsMade
  <2> QED BY <1>4, <2>1, <2>2, <2>3
<1>7. CASE InsertSourceFails(h) /\ ~UNCHANGED svc
  <2>1. r.at = "sources" /\ r.insert # {} /\ svc' = RolledBack(r)
    BY <1>7 DEF InsertSourceFails
  <2>2. r \in Writings /\ (~r.new => r.before \in Documents)
    BY <2>1, WritingFacts
  <2>3. r.service \in Service /\ r.new \in BOOLEAN
    BY <2>2 DEF Writings
  <2>4. CASE r.new
    <3>1. svc' = [svc EXCEPT ![r.service] = Deleted] /\ BaseClaim(r) = {}
      BY <2>1, <2>4, ClaimsMade DEF RolledBack
    <3> QED BY <1>5, <2>3, <3>1
  <2>5. CASE ~r.new
    <3> DEFINE doc == [r.before EXCEPT !.ogc = svc[r.service].ogc]
    <3>1. svc' = [svc EXCEPT ![r.service] = doc]
      BY <1>7, <2>1, <2>5 DEF RolledBack
    <3>2. doc.base = r.before.base
      BY <2>2, <2>5 DEF Documents
    <3>3. <<r.service, r.before.base>> \in BaseClaim(r)
      BY <2>1, <2>5, ClaimsMade
    <3> HIDE DEF doc
    <3> QED BY <1>4, <2>3, <3>1, <3>2, <3>3
  <2> QED BY <2>3, <2>4, <2>5
<1>8. CASE DeleteDocument(h)
  <2>1. r.at = "delete" /\ svc' = [svc EXCEPT ![r.service] = Deleted]
    BY <1>8 DEF DeleteDocument
  <2>2. r.service \in Service
    BY <2>1 DEF RequestsOK, RequestOK
  <2>3. BaseClaim(r) = {}
    BY <2>1, ClaimsMade
  <2> QED BY <1>5, <2>1, <2>2, <2>3
<1>9. UNCHANGED svc \/ WriteService(h) \/ InsertSourceFails(h) \/ DeleteDocument(h)
  BY DEF Continue, PrepareAgain, UpdateInline, ValidateAlias, Prepared, PrepareInline, SourceLookupFails,
     MakeInline, WriteService, InsertSourceFails, SourcesDone, SyncService, InsertSource, CheckOrphan,
     DropOrphan, OrphansDone, DeleteDocument, InsertOneSource, SetSource, SyncSource, RequestDies, docs
<1> QED BY <1>3, <1>6, <1>7, <1>8, <1>9

LEMMA BaseImplements ==
    ASSUME Types, Types', [Next]_vars
    PROVE  [BaseCheck!Next]_<<BaseOf, BaseClaims, blind.base>>
<1>1. CASE UNCHANGED vars
  <2>1. UNCHANGED <<svc, req, blind>>
    BY <1>1 DEF vars, docs, bounds
  <2>2. UNCHANGED BaseClaims
    BY <2>1 DEF BaseClaims, BaseClaim
  <2> QED BY <2>1, <2>2 DEF BaseOf
<1>2. CASE \E h \in Handler : Request(h)
  BY <1>2, BaseRequest
<1>3. CASE \E h \in Handler : Continue(h)
  BY <1>3, BaseContinue
<1> QED BY <1>1, <1>2, <1>3 DEF Next

LEMMA BaseInit == Init => BaseCheck!Init
<1> SUFFICES ASSUME Init PROVE BaseCheck!Init
  OBVIOUS
<1>1. PICK base \in BasePath : svc = [s \in Service |->
           IF s = First THEN [base |-> base, body |-> Initial, ogc |-> 0] ELSE NoService]
  BY DEF Init
<1>2. BaseOf = [s \in Service |-> IF s = First THEN base ELSE None]
  BY <1>1 DEF BaseOf, NoService
<1>3. BaseClaims = [h \in Handler |-> {}]
  <2>1. BaseClaim(Idle) = {}
    BY ClaimsMade DEF Idle
  <2> QED BY <2>1 DEF Init, BaseClaims
<1>4. blind.base = 0
  BY DEF Init
<1> QED BY <1>2, <1>3, <1>4 DEF BaseCheck!Init

\* The aliases that a body brings along are prepared once each, and claimed by then.
LEMMA NextClaimsDone ==
    ASSUME Types, Types', ClaimsDone, [Next]_vars
    PROVE  ClaimsDone'
<1> USE DEF Types
<1>1. ASSUME NEW h \in Handler, NEW q, Goes(h, q), q.at = "prepare" => \A c \in q.insert : c.alias \in q.done
      PROVE  ClaimsDone'
  <2>1. \A g \in Handler : req'[g] = IF g = h THEN q ELSE req[g]
    BY <1>1 DEF Goes, RequestsOK
  <2> QED BY <1>1, <2>1 DEF ClaimsDone
<1>2. ASSUME NEW h \in Handler, Request(h) PROVE ClaimsDone'
  <2>1. ASSUME NEW s \in Service, NEW base \in BasePath, NEW body \in Body, Goes(h, Preparing(s, base, body))
        PROVE  ClaimsDone'
    <3>1. Preparing(s, base, body).insert = {}
      BY DEF Preparing
    <3> QED BY <1>1, <2>1, <3>1
  <2>2. ASSUME NEW s \in Service, DeleteService(h, s) PROVE ClaimsDone'
    BY <1>1, <2>2 DEF DeleteService
  <2>3. ASSUME NEW d \in Source, NEW a \in Alias, CreateSource(h, d, a) PROVE ClaimsDone'
    BY <1>1, <2>3 DEF CreateSource
  <2>4. ASSUME NEW d \in Source, NEW a \in Alias, UpdateSource(h, d, a) PROVE ClaimsDone'
    BY <1>1, <2>4 DEF UpdateSource
  <2>5. ASSUME NEW d \in Source, DeleteSource(h, d) PROVE ClaimsDone'
    BY <1>1, <2>5 DEF DeleteSource
  <2>6. ASSUME NEW s \in Service, NEW base \in BasePath, NEW body \in Body,
               \/ CreateService(h, s, base, body) \/ UpdateService(h, s, base, body)
               \/ BasePathLookupFails(h, s, base, body)
        PROVE  ClaimsDone'
    BY <2>1, <2>6 DEF CreateService, UpdateService, BasePathLookupFails
  <2> QED BY <1>2, <2>2, <2>3, <2>4, <2>5, <2>6, RequestBegins
<1>3. ASSUME NEW h \in Handler, Continue(h) PROVE ClaimsDone'
  <2> DEFINE r == req[h]
             R == Rest(r)
             a == Head(r.left).alias
  <2>1. CASE \E d \in Source : MakeInline(h, d)
    <3>1. PICK d \in Source : MakeInline(h, d)
      BY <2>1
    <3>2. r.at = "prepare" /\ r \in Writings
      BY <3>1, WritingFacts DEF MakeInline, Preparation
    <3>3. R.insert = r.insert /\ R.done = r.done /\ DOMAIN R = DOMAIN r
      BY <3>2 DEF Rest, Writings
    <3> DEFINE q == [R EXCEPT !.insert = @ \cup {[doc |-> d, alias |-> a]}, !.done = @ \cup {a}]
    <3>4. Goes(h, q)
      BY <3>1 DEF MakeInline
    <3>5. q.insert = R.insert \cup {[doc |-> d, alias |-> a]} /\ q.done = R.done \cup {a}
      <4>1. DOMAIN r = DOMAIN R /\ "insert" \in DOMAIN r /\ "done" \in DOMAIN r
        BY <3>2, <3>3 DEF Writings
      <4> HIDE DEF R, a
      <4> QED BY <4>1
    <3>6. \A c \in r.insert : c.alias \in r.done
      BY <3>2 DEF ClaimsDone
    <3>7. \A c \in q.insert : c.alias \in q.done
      <4> HIDE DEF R, q, a
      <4> QED BY <3>3, <3>5, <3>6
    <3> QED BY <1>1, <3>4, <3>7
  <2>2. CASE PrepareAgain(h) \/ UpdateInline(h) \/ ValidateAlias(h)
    <3>1. r.at = "prepare" /\ r \in Writings
      BY <2>2, WritingFacts DEF PrepareAgain, UpdateInline, ValidateAlias, Preparation
    <3>2. R.insert = r.insert /\ R.done = r.done /\ DOMAIN R = DOMAIN r
      BY <3>1 DEF Rest, Writings
    <3>3. PICK q : Goes(h, q) /\ q.insert = r.insert /\ r.done \subseteq q.done
      <4>1. "insert" \in DOMAIN R /\ "done" \in DOMAIN R
        BY <3>1, <3>2 DEF Writings
      <4>2. CASE PrepareAgain(h)
        BY <3>2, <4>2 DEF PrepareAgain
      <4>3. CASE UpdateInline(h)
        <5> DEFINE q == [R EXCEPT !.updated = @ \cup {a}, !.done = @ \cup {a}]
        <5>1. Goes(h, q)
          BY <4>3 DEF UpdateInline
        <5>2. q.insert = R.insert /\ q.done = R.done \cup {a}
          <6> HIDE DEF R, a
          <6> QED BY <4>1
        <5> HIDE DEF q, R
        <5> QED BY <3>2, <5>1, <5>2
      <4>4. CASE ValidateAlias(h)
        <5> DEFINE q == [R EXCEPT !.invalid = @ \/ (a # NoAlias /\ FindByAlias(a) = {})]
        <5>1. Goes(h, q)
          BY <4>4 DEF ValidateAlias
        <5>2. q.insert = R.insert /\ q.done = R.done
          <6> HIDE DEF R, a
          <6> QED BY <4>1
        <5> HIDE DEF q, R
        <5> QED BY <3>2, <5>1, <5>2
      <4> QED BY <2>2, <4>2, <4>3, <4>4
    <3>4. \A c \in q.insert : c.alias \in q.done
      BY <3>1, <3>3 DEF ClaimsDone
    <3> QED BY <1>1, <3>3, <3>4
  <2>3. CASE ~(PrepareAgain(h) \/ UpdateInline(h) \/ ValidateAlias(h) \/ \E d \in Source : MakeInline(h, d))
    <3>1. PICK q : Goes(h, q) /\ Progress(r, q)
      BY <1>3, ContinueGoes
    <3>2. q.at # "prepare"
      <4>1. ASSUME q.at = "prepare" PROVE r.at = "prepare" /\ Goes(h, q)
        BY <3>1, <4>1 DEF Progress
      <4>2. Prepared(h) => q.at \in {"idle", "write"}
        BY <3>1, WritingFacts DEF Prepared, Goes, Ends, Idle, RequestsOK, Writings
      <4>3. RequestDies(h) => q.at = "idle"
        BY <3>1 DEF RequestDies, Goes, Ends, Idle, RequestsOK
      <4>4. ASSUME ~Prepared(h), ~RequestDies(h) PROVE r.at # "prepare"
        BY <1>3, <2>3, <4>4 DEF Continue, PrepareInline, SourceLookupFails, WriteService, InsertSourceFails,
           SourcesDone, SyncService, CheckOrphan, DropOrphan, OrphansDone, DeleteDocument,
           InsertOneSource, SetSource, SyncSource
      <4> QED BY <4>1, <4>2, <4>3, <4>4
    <3> QED BY <1>1, <3>1, <3>2
  <2> QED BY <2>1, <2>2, <2>3
<1>4. CASE UNCHANGED vars
  BY <1>4 DEF vars, ClaimsDone
<1> QED BY <1>2, <1>3, <1>4 DEF Next

\* A source is claimed by who looks for its alias.
LEMMA SourceLooked ==
    ASSUME RequestsOK, SourcesOK, CountersOK, NEW h \in Handler, NEW d \in Source, NEW a \in Alias,
           SourceClaims' = [SourceClaims EXCEPT ![h] = @ \cup {<<d, a>>}],
           \A c \in SourceClaims[h] : c[2] # a, UNCHANGED source,
           \/ FindByAlias(a) = {} /\ blind' = blind
           \/ source[d].alias = a /\ blind' = blind
           \/ blind' = [blind EXCEPT !.source = @ + 1]
    PROVE  SourceCheck!Next
<1>1. SourceCheck!ClaimsToo(h, d, {a})
  <2>1. {<<d, a>>} = {d} \X {a}
    OBVIOUS
  <2> QED BY <2>1 DEF SourceCheck!ClaimsToo, SourceCheck!Claims
<1>2. UNCHANGED AliasOf /\ {a} \in SUBSET Alias
  BY DEF AliasOf
<1>3. CASE (FindByAlias(a) = {} \/ source[d].alias = a) /\ blind' = blind
  <2>1. SourceCheck!Named(a) = {} \/ AliasOf[d] = a
    BY <1>3 DEF SourceCheck!Named, AliasOf, FindByAlias
  <2>2. SourceCheck!Look(h, d, {a})
    BY <1>1, <1>2, <1>3, <2>1 DEF SourceCheck!Look
  <2> QED BY <1>2, <2>2 DEF SourceCheck!Next
<1>4. CASE blind' = [blind EXCEPT !.source = @ + 1]
  <2>1. blind'.source = blind.source + 1
    BY <1>4 DEF CountersOK
  <2>2. SourceCheck!LookFails(h, d, {a})
    BY <1>1, <1>2, <2>1 DEF SourceCheck!LookFails
  <2> QED BY <1>2, <2>2 DEF SourceCheck!Next
<1> QED BY <1>3, <1>4

LEMMA SourceRequest ==
    ASSUME Types, NEW h \in Handler, Request(h)
    PROVE  SourceCheck!Next
<1> USE DEF Types
<1>1. ASSUME NEW q, Goes(h, q), req[h] = Idle, SourceClaim(q) = {}, UNCHANGED <<source, blind.source>>
      PROVE  SourceCheck!Next
  <2>1. SourceClaims' = [SourceClaims EXCEPT ![h] = {}]
    BY <1>1, ClaimsChange
  <2>2. SourceCheck!GiveUp(h)
    BY <1>1, <2>1 DEF SourceCheck!GiveUp, SourceCheck!KeepsSome, AliasOf
  <2> QED BY <2>2 DEF SourceCheck!Next
<1>2. ASSUME NEW s \in Service, NEW base \in BasePath, NEW body \in Body,
             \/ CreateService(h, s, base, body) \/ UpdateService(h, s, base, body)
             \/ BasePathLookupFails(h, s, base, body)
      PROVE  SourceCheck!Next
  <2>1. Goes(h, Preparing(s, base, body)) /\ req[h] = Idle /\ UNCHANGED source
    BY <1>2 DEF CreateService, UpdateService, BasePathLookupFails, Begins, docs
  <2>2. Preparing(s, base, body).insert = {} /\ Preparing(s, base, body).at = "prepare"
    BY DEF Preparing
  <2>3. SourceClaim(Preparing(s, base, body)) = {}
    BY <2>2, ClaimsMade
  <2>4. blind' = blind \/ blind' = [blind EXCEPT !.base = @ + 1]
    BY <1>2 DEF CreateService, UpdateService, BasePathLookupFails, Begins
  <2>5. UNCHANGED blind.source
    BY <2>4 DEF CountersOK
  <2> QED BY <1>1, <2>1, <2>3, <2>5
<1>3. ASSUME NEW s \in Service, DeleteService(h, s) PROVE SourceCheck!Next
  <2> DEFINE q == [at |-> "orphans", service |-> s, others |-> 1, then |-> "delete", left |-> AliasesOf(svc[s].body)]
  <2>1. Goes(h, q) /\ req[h] = Idle /\ UNCHANGED <<source, blind>> /\ q.at = "orphans"
    BY <1>3 DEF DeleteService, Begins, docs
  <2> HIDE DEF q
  <2>2. SourceClaim(q) = {}
    BY <2>1, ClaimsMade
  <2> QED BY <1>1, <2>1, <2>2
<1>4. ASSUME NEW d \in Source, DeleteSource(h, d) PROVE SourceCheck!Next
  <2> DEFINE q == [at |-> "drop", doc |-> d, alias |-> source[d].alias, rest |-> Idle]
  <2>1. Goes(h, q) /\ req[h] = Idle /\ UNCHANGED <<source, blind>> /\ q.at = "drop"
    BY <1>4 DEF DeleteSource, Begins, docs
  <2> HIDE DEF q
  <2>2. SourceClaim(q) = {}
    BY <2>1, ClaimsMade
  <2> QED BY <1>1, <2>1, <2>2
\* The requests that look for an alias.
<1>5. ASSUME NEW d \in Source, NEW a \in Alias, NEW q, Goes(h, q), req[h] = Idle, SourceClaim(q) = {<<d, a>>}
      PROVE  SourceClaims' = [SourceClaims EXCEPT ![h] = @ \cup {<<d, a>>}] /\ SourceClaims[h] = {}
  <2>1. SourceClaim(Idle) = {}
    BY ClaimsMade DEF Idle
  <2> QED BY <1>5, <2>1, ClaimsChange
<1>6. ASSUME NEW d \in Source, NEW a \in Alias, CreateSource(h, d, a) PROVE SourceCheck!Next
  <2> DEFINE q == [at |-> "insertsource", insert |-> {[doc |-> d, alias |-> a]}, n |-> started']
  <2>1. Goes(h, q) /\ req[h] = Idle /\ UNCHANGED source
    BY <1>6 DEF CreateSource, AliasIsFree, Begins, docs
  <2>2. q.at = "insertsource" /\ q.insert = {[doc |-> d, alias |-> a]}
    OBVIOUS
  <2>3. \/ FindByAlias(a) = {} /\ blind' = blind
        \/ blind' = [blind EXCEPT !.source = @ + 1]
    BY <1>6 DEF CreateSource, AliasIsFree, Begins
  <2> HIDE DEF q
  <2>4. SourceClaim(q) = {<<c.doc, c.alias>> : c \in {[doc |-> d, alias |-> a]}}
    BY <2>2, ClaimsMade
  <2>5. SourceClaim(q) = {<<d, a>>}
    BY <2>4
  <2>6. SourceClaims' = [SourceClaims EXCEPT ![h] = @ \cup {<<d, a>>}] /\ SourceClaims[h] = {}
    BY <1>5, <2>1, <2>5
  <2> QED BY <2>1, <2>3, <2>6, SourceLooked
<1>7. ASSUME NEW d \in Source, NEW a \in Alias, UpdateSource(h, d, a) PROVE SourceCheck!Next
  <2> DEFINE q == [at |-> "setsource", doc |-> d, alias |-> a, n |-> started']
  <2>1. Goes(h, q) /\ req[h] = Idle /\ UNCHANGED source
    BY <1>7 DEF UpdateSource, AliasIsFree, Begins, docs
  <2>2. q.at = "setsource" /\ q.doc = d /\ q.alias = a
    OBVIOUS
  <2>3. \/ (FindByAlias(a) = {} \/ source[d].alias = a) /\ blind' = blind
        \/ blind' = [blind EXCEPT !.source = @ + 1]
    BY <1>7 DEF UpdateSource, AliasIsFree, Begins
  <2> HIDE DEF q
  <2>4. SourceClaim(q) = {<<d, a>>}
    BY <2>2, ClaimsMade
  <2>5. SourceClaims' = [SourceClaims EXCEPT ![h] = @ \cup {<<d, a>>}] /\ SourceClaims[h] = {}
    BY <1>5, <2>1, <2>4
  <2> QED BY <2>1, <2>3, <2>5, SourceLooked
<1> QED BY <1>2, <1>3, <1>4, <1>6, <1>7, RequestBegins

LEMMA SourceInline ==
    ASSUME Types, ClaimsDone, NEW h \in Handler, NEW d \in Source, PrepareInline(h, d) \/ SourceLookupFails(h, d)
    PROVE  SourceCheck!Next
<1> USE DEF Types
<1> DEFINE r == req[h]
           R == Rest(r)
           a == Head(r.left).alias
           q == [R EXCEPT !.insert = @ \cup {[doc |-> d, alias |-> a]}, !.done = @ \cup {a}]
<1>1. r.at = "prepare" /\ r \in Writings /\ r.left # <<>> /\ a \notin r.done /\ Head(r.left).inline
  BY WritingFacts DEF PrepareInline, SourceLookupFails, MakeInline, Preparation
<1>2. a \in Alias
  <2>1. r.left \in Seq(ResourcePaths)
    BY <1>1 DEF Writings
  <2>2. Head(r.left) \in ResourcePaths
    BY <1>1, <2>1, TailFacts
  <2> QED BY <1>1, <2>2, BodyFacts, ServiceConfigAssumption
<1>3. Goes(h, q) /\ UNCHANGED source
  BY DEF PrepareInline, SourceLookupFails, MakeInline, docs
<1>4. q.at = "prepare" /\ q.insert = r.insert \cup {[doc |-> d, alias |-> a]}
  <2>1. R.at = "prepare" /\ R.insert = r.insert /\ "insert" \in DOMAIN R
    BY <1>1 DEF Rest, Writings
  <2> HIDE DEF R, a
  <2> QED BY <2>1
<1>5. SourceClaim(q) = SourceClaim(r) \cup {<<d, a>>}
  <2> HIDE DEF q, a
  <2>1. SourceClaim(r) = {<<c.doc, c.alias>> : c \in r.insert}
    BY <1>1, ClaimsMade
  <2>2. SourceClaim(q) = {<<c.doc, c.alias>> : c \in q.insert}
    BY <1>4, ClaimsMade
  <2>3. \A c : c = [doc |-> d, alias |-> a] => c.doc = d /\ c.alias = a
    OBVIOUS
  <2> QED BY <1>4, <2>1, <2>2, <2>3
<1>6. SourceClaims' = [SourceClaims EXCEPT ![h] = @ \cup {<<d, a>>}] /\ SourceClaims[h] = SourceClaim(r)
  <2> HIDE DEF q, a
  <2> QED BY <1>3, <1>5, ClaimsChange
<1>7. \A c \in SourceClaims[h] : c[2] # a
  <2>1. \A c \in r.insert : c.alias # a
    BY <1>1 DEF ClaimsDone
  <2>2. SourceClaims[h] = {<<c.doc, c.alias>> : c \in r.insert}
    BY <1>1, <1>6, ClaimsMade
  <2> HIDE DEF a
  <2> QED BY <2>1, <2>2
<1>8. \/ FindByAlias(a) = {} /\ blind' = blind
      \/ blind' = [blind EXCEPT !.source = @ + 1]
  BY DEF PrepareInline, SourceLookupFails, bounds
<1> HIDE DEF q, a
<1> QED BY <1>2, <1>3, <1>6, <1>7, <1>8, SourceLooked

LEMMA SourceContinue ==
    ASSUME Types, Types', ClaimsDone, NEW h \in Handler, Continue(h)
    PROVE  SourceCheck!Next
<1> USE DEF Types
<1> DEFINE r == req[h]
<1>1. CASE \E d \in Source : PrepareInline(h, d) \/ SourceLookupFails(h, d)
  BY <1>1, SourceInline
<1>2. ASSUME UNCHANGED AliasOf, UNCHANGED blind, SourceCheck!KeepsSome(h) PROVE SourceCheck!Next
  <2>1. SourceCheck!GiveUp(h)
    BY <1>2 DEF SourceCheck!GiveUp
  <2> QED BY <2>1 DEF SourceCheck!Next
\* A source is written with a claimed alias.
<1>3. ASSUME NEW d \in Source, NEW a, NEW n, source' = [source EXCEPT ![d] = [alias |-> a, content |-> n]],
             <<d, a>> \in SourceClaim(r), UNCHANGED blind, SourceCheck!KeepsSome(h)
      PROVE  SourceCheck!Next
  <2>1. PICK c : c = <<d, a>>
    OBVIOUS
  <2>2. AliasOf' = [AliasOf EXCEPT ![c[1]] = c[2]]
    BY <1>3, <2>1 DEF AliasOf, SourcesOK
  <2>3. SourceCheck!Write(h, c)
    BY <1>3, <2>2 DEF SourceCheck!Write
  <2>4. c \in SourceClaims[h]
    BY <1>3, <2>1 DEF SourceClaims
  <2> QED BY <2>3, <2>4 DEF SourceCheck!Next
<1>4. CASE ~MakesInline(h)
  <2>1. UNCHANGED blind
    BY <1>4 DEF MakesInline, Continue, PrepareAgain, UpdateInline, ValidateAlias, Prepared, WriteService,
       InsertSourceFails, SourcesDone, SyncService, InsertSource, CheckOrphan, DropOrphan, OrphansDone,
       DeleteDocument, InsertOneSource, SetSource, SyncSource, RequestDies, TellSource, TellService, Lost, bounds
  <2>2. SourceCheck!KeepsSome(h)
    BY <1>4, SourceKeeps
  <2>3. CASE UNCHANGED source
    BY <1>2, <2>1, <2>2, <2>3 DEF AliasOf
  <2>4. CASE UpdateInline(h)
    <3>1. PICK d \in Source : source' = [source EXCEPT ![d].content = r.n]
      BY <2>4 DEF UpdateInline, FindByAlias
    <3>2. \A e \in Source : "alias" \in DOMAIN source[e]
      BY DEF SourcesOK, NoSource
    <3>3. \A e \in Source : source'[e].alias = source[e].alias
      BY <3>1, <3>2 DEF SourcesOK
    <3>4. UNCHANGED AliasOf
      BY <3>3 DEF AliasOf
    <3> QED BY <1>2, <2>1, <2>2, <3>4
  <2>5. CASE InsertOneSource(h)
    <3>1. r.at = "insertsource" /\ r.insert \in SUBSET Claims
      BY <2>5 DEF InsertOneSource, RequestsOK, RequestOK
    <3>2. PICK c \in r.insert : source' = [source EXCEPT ![c.doc] = [alias |-> c.alias, content |-> r.n]]
      BY <2>5 DEF InsertOneSource
    <3>3. c.doc \in Source /\ SourceClaim(r) = {<<e.doc, e.alias>> : e \in r.insert}
      BY <3>1, <3>2, ClaimsMade DEF Claims
    <3>4. <<c.doc, c.alias>> \in SourceClaim(r)
      BY <3>2, <3>3
    <3> QED BY <1>3, <2>1, <2>2, <3>2, <3>3, <3>4
  <2>6. CASE r.at = "sources" /\ \E c \in r.insert : InsertSource(h, c)
    <3>1. r \in Writings
      BY <2>6, WritingFacts
    <3>2. PICK c \in r.insert : source' = [source EXCEPT ![c.doc] = [alias |-> c.alias, content |-> r.n]]
      BY <2>6 DEF InsertSource
    <3>3. c.doc \in Source /\ SourceClaim(r) = {<<e.doc, e.alias>> : e \in r.insert}
      BY <2>6, <3>1, <3>2, ClaimsMade DEF Claims, Writings
    <3>4. <<c.doc, c.alias>> \in SourceClaim(r)
      BY <3>2, <3>3
    <3> QED BY <1>3, <2>1, <2>2, <3>2, <3>3, <3>4
  <2>7. CASE SetSource(h) /\ ~UNCHANGED source
    <3>1. r.at = "setsource" /\ source' = [source EXCEPT ![r.doc] = [alias |-> r.alias, content |-> r.n]]
      BY <2>7 DEF SetSource
    <3>2. r.doc \in Source /\ SourceClaim(r) = {<<r.doc, r.alias>>}
      BY <3>1, ClaimsMade DEF RequestsOK, RequestOK
    <3> QED BY <1>3, <2>1, <2>2, <3>1, <3>2
  <2>8. CASE DropOrphan(h)
    <3>1. r.at = "drop" /\ source' = [source EXCEPT ![r.doc] = [alias |-> None, content |-> -1]]
      BY <2>8 DEF DropOrphan
    <3>2. r.doc \in Source /\ SourceClaims[h] = {}
      BY <3>1, ClaimsMade DEF RequestsOK, RequestOK, SourceClaims
    <3>3. AliasOf' = [d \in Source |-> IF d \in {r.doc} THEN None ELSE AliasOf[d]]
      BY <3>1 DEF AliasOf, SourcesOK
    <3>4. UNCHANGED SourceClaims
      <4>1. PICK C \in SUBSET SourceClaims[h] : SourceClaims' = [SourceClaims EXCEPT ![h] = C]
        BY <2>2 DEF SourceCheck!KeepsSome
      <4> QED BY <3>2, <4>1 DEF SourceClaims
    <3>5. SourceCheck!Free({r.doc})
      BY <2>1, <3>3, <3>4 DEF SourceCheck!Free
    <3> QED BY <3>2, <3>5 DEF SourceCheck!Next
  <2>9. \/ UNCHANGED source \/ UpdateInline(h) \/ DropOrphan(h) \/ InsertOneSource(h) \/ SetSource(h)
        \/ r.at = "sources" /\ \E c \in r.insert : InsertSource(h, c)
    BY <1>4 DEF MakesInline, Continue, PrepareAgain, UpdateInline, ValidateAlias, Prepared, WriteService,
       InsertSourceFails, SourcesDone, SyncService, InsertSource, CheckOrphan, OrphansDone,
       DeleteDocument, SyncSource, RequestDies, docs
  <2> QED BY <2>3, <2>4, <2>5, <2>6, <2>7, <2>8, <2>9
<1> QED BY <1>1, <1>4 DEF MakesInline

LEMMA SourceImplements ==
    ASSUME Types, Types', ClaimsDone, [Next]_vars
    PROVE  [SourceCheck!Next]_<<AliasOf, SourceClaims, blind.source>>
<1>1. CASE UNCHANGED vars
  <2>1. UNCHANGED <<source, req, blind>>
    BY <1>1 DEF vars, docs, bounds
  <2>2. UNCHANGED SourceClaims
    BY <2>1 DEF SourceClaims, SourceClaim
  <2> QED BY <2>1, <2>2 DEF AliasOf
<1>2. CASE \E h \in Handler : Request(h)
  BY <1>2, SourceRequest
<1>3. CASE \E h \in Handler : Continue(h)
  BY <1>3, SourceContinue
<1> QED BY <1>1, <1>2, <1>3 DEF Next

LEMMA SourceInit == Init => SourceCheck!Init
<1> SUFFICES ASSUME Init PROVE SourceCheck!Init
  OBVIOUS
<1>1. AliasOf = [d \in Source |-> FirstSource(d).alias]
  BY DEF Init, AliasOf
<1>2. \A d \in Source : FirstSource(d) = NoSource
          \/ \E a \in AliasesOf(Initial) : SourceOf[a] = d /\ FirstSource(d) = [alias |-> a, content |-> 0]
  BY FirstSources
<1>3. ASSUME NEW d \in Source
      PROVE  AliasOf[d] = None \/ (AliasOf[d] \in AliasesOf(Initial) /\ SourceOf[AliasOf[d]] = d)
  BY <1>1, <1>2 DEF NoSource
<1>4. AliasesOf(Initial) \subseteq Alias
  BY BodyFacts
<1>5. AliasOf \in [Source -> Alias \cup {None}]
  BY <1>1, <1>3, <1>4
<1>6. \A d, e \in Source : AliasOf[d] = AliasOf[e] /\ AliasOf[d] # None => d = e
  BY <1>3
<1>7. SourceClaims = [h \in Handler |-> {}]
  <2>1. SourceClaim(Idle) = {}
    BY ClaimsMade DEF Idle
  <2> QED BY <2>1 DEF Init, SourceClaims
<1>8. blind.source = 0
  BY DEF Init
<1> QED BY <1>5, <1>6, <1>7, <1>8 DEF SourceCheck!Init

LEMMA ClaimsDoneInvariant == Spec => []ClaimsDone
<1>1. Init => ClaimsDone
  BY DEF Init, ClaimsDone, Idle
<1>2. Types /\ Types' /\ ClaimsDone /\ [Next]_vars => ClaimsDone'
  BY NextClaimsDone
<1> QED BY <1>1, <1>2, TypesInvariant, PTL DEF Spec

\* For any services, sources, bodies and requests: what is created, updated, inserted with a service or
\* written back by a rollback implements the look-up before the write, of base paths and of aliases
\* (GatewayServiceService.Create and Update, GatewaySourceService.Create and Update).
THEOREM NamesAreChecked == Spec => UniqueNames
<1>1. Types /\ Types' /\ [Next]_vars => [BaseCheck!Next]_BaseCheck!vars
  BY BaseImplements DEF BaseCheck!vars
<1>2. Types /\ Types' /\ ClaimsDone /\ [Next]_vars => [SourceCheck!Next]_SourceCheck!vars
  BY SourceImplements DEF SourceCheck!vars
<1>3. Spec => BaseCheck!Spec
  BY <1>1, BaseInit, TypesInvariant, PTL DEF Spec, BaseCheck!Spec
<1>4. Spec => SourceCheck!Spec
  BY <1>2, ClaimsDoneInvariant, SourceInit, TypesInvariant, PTL DEF Spec, SourceCheck!Spec
<1> QED BY <1>3, <1>4 DEF UniqueNames

BaseProofs == INSTANCE UniqueCheckProofs WITH
    Key <- BasePath, Doc <- Service, Writer <- Handler,
    name <- BaseOf, claim <- BaseClaims, blind <- blind.base
SourceProofs == INSTANCE UniqueCheckProofs WITH
    Key <- Alias, Doc <- Source, Writer <- Handler,
    name <- AliasOf, claim <- SourceClaims, blind <- blind.source

\* A base path or an alias has at most as many documents, there or about to be, as requests run at a
\* time, and one more for each look-up of it that failed.
THEOREM NamesAreBounded == Spec => [](BaseCheck!AtMostWriters /\ SourceCheck!AtMostWriters)
<1>1. BaseProofs!UniqueCheckAssumption
  BY ServiceConfigAssumption DEF BaseProofs!UniqueCheckAssumption, BaseProofs!IsFiniteSet, IsFiniteSet
<1>2. BaseProofs!Spec => []BaseProofs!AtMostWriters
  BY <1>1, BaseProofs!AtMostWritersHold
<1>3. BaseCheck!Init => BaseProofs!Init
  BY DEF BaseCheck!Init, BaseProofs!Init
<1>4. [BaseCheck!Next]_BaseCheck!vars => [BaseProofs!Next]_BaseProofs!vars
  BY DEF BaseCheck!vars, BaseProofs!vars, BaseCheck!Next, BaseProofs!Next, BaseCheck!Look, BaseProofs!Look,
     BaseCheck!LookFails, BaseProofs!LookFails, BaseCheck!GiveUp, BaseProofs!GiveUp, BaseCheck!Write,
     BaseProofs!Write, BaseCheck!Free, BaseProofs!Free, BaseCheck!KeepsSome, BaseProofs!KeepsSome,
     BaseCheck!ClaimsToo, BaseProofs!ClaimsToo, BaseCheck!Claims, BaseProofs!Claims, BaseCheck!Named, BaseProofs!Named
<1>5. BaseProofs!AtMostWriters => BaseCheck!AtMostWriters
  BY DEF BaseProofs!AtMostWriters, BaseCheck!AtMostWriters, BaseProofs!Named, BaseCheck!Named,
     BaseProofs!Claimed, BaseCheck!Claimed, BaseProofs!Claims, BaseCheck!Claims,
     BaseProofs!Cardinality, BaseCheck!Cardinality
<1>6. Spec => []BaseCheck!AtMostWriters
  BY NamesAreChecked, <1>2, <1>3, <1>4, <1>5, PTL DEF UniqueNames, BaseCheck!Spec, BaseProofs!Spec
<1>7. SourceProofs!UniqueCheckAssumption
  BY ServiceConfigAssumption DEF SourceProofs!UniqueCheckAssumption, SourceProofs!IsFiniteSet, IsFiniteSet
<1>8. SourceProofs!Spec => []SourceProofs!AtMostWriters
  BY <1>7, SourceProofs!AtMostWritersHold
<1>9. SourceCheck!Init => SourceProofs!Init
  BY DEF SourceCheck!Init, SourceProofs!Init
<1>10. [SourceCheck!Next]_SourceCheck!vars => [SourceProofs!Next]_SourceProofs!vars
  BY DEF SourceCheck!vars, SourceProofs!vars, SourceCheck!Next, SourceProofs!Next, SourceCheck!Look, SourceProofs!Look,
     SourceCheck!LookFails, SourceProofs!LookFails, SourceCheck!GiveUp, SourceProofs!GiveUp, SourceCheck!Write,
     SourceProofs!Write, SourceCheck!Free, SourceProofs!Free, SourceCheck!KeepsSome, SourceProofs!KeepsSome,
     SourceCheck!ClaimsToo, SourceProofs!ClaimsToo, SourceCheck!Claims, SourceProofs!Claims, SourceCheck!Named, SourceProofs!Named
<1>11. SourceProofs!AtMostWriters => SourceCheck!AtMostWriters
  BY DEF SourceProofs!AtMostWriters, SourceCheck!AtMostWriters, SourceProofs!Named, SourceCheck!Named,
     SourceProofs!Claimed, SourceCheck!Claimed, SourceProofs!Claims, SourceCheck!Claims,
     SourceProofs!Cardinality, SourceCheck!Cardinality
<1>12. Spec => []SourceCheck!AtMostWriters
  BY NamesAreChecked, <1>8, <1>9, <1>10, <1>11, PTL DEF UniqueNames, SourceCheck!Spec, SourceProofs!Spec
<1> QED BY <1>6, <1>12, PTL

-----------------------------------------------------------------------------
(* Sources of services: while requests come one at a time.  A service may  *)
(* be without a source only between its document and the insertion of the  *)
(* sources that come with it, or once it is being deleted.                 *)

Found(a) == FindByAlias(a) # {}
Inserts(q) == {c.alias : c \in q.insert}

\* What a body refers to is there, still to be resolved, or to be inserted; what an update would go
\* back to is there.
WritingKept(q) ==
    /\ ~q.new => \A a \in AliasesOf(q.before.body) : Found(a)
    /\ ~q.invalid => \A a \in AliasesOf(q.after.body) : a \in AliasesOf(q.left) \/ Found(a) \/ a \in Inserts(q)
    /\ q.at = "prepare" => \A a \in q.done : Found(a) \/ a \in Inserts(q)
    /\ q.at # "prepare" => ~q.invalid /\ q.left = <<>>
\* What will be inserted takes no other source's place.
InsertsKept(q) == \A c \in q.insert : source[c.doc] = NoSource /\ \A e \in q.insert : e.doc = c.doc => e = c
\* One service counts that does not need the source only when it is there and refers to it.
CleanupKept(q) ==
    /\ q.then = "sync" => q.others = 0
    /\ q.then = "delete" => q.service \in Live /\ q.left \subseteq AliasesOf(svc[q.service].body)
\* The source that will go is needed by no service but the one that will be deleted.
DropKept(q) ==
    /\ q.rest = Idle \/ CleanupKept(q.rest)
    /\ \A t \in Live : source[q.doc].alias \in AliasesOf(svc[t].body) =>
           q.rest # Idle /\ q.rest.then = "delete" /\ q.rest.service = t

RequestKept(q) ==
    /\ q.at \in {"prepare", "write", "sources"} => WritingKept(q)
    /\ q.at \in {"prepare", "write", "sources", "insertsource"} => InsertsKept(q)
    /\ q.at = "orphans" => CleanupKept(q)
    /\ q.at = "drop" => DropKept(q)

\* Why a service may be without a source.
Owes(q, s, a) ==
    \/ q.at = "sources" /\ q.service = s /\ a \in Inserts(q)
    \/ q.at = "orphans" /\ q.then = "delete" /\ q.service = s
    \/ q.at = "drop" /\ q.rest # Idle /\ q.rest.then = "delete" /\ q.rest.service = s
    \/ q.at = "delete" /\ q.service = s
RefsBut(q) == \A s \in Live : \A a \in AliasesOf(svc[s].body) : Found(a) \/ Owes(q, s, a)

\* At most one request is being handled, and it has what it needs.
Kept == serial /\ ~renamed =>
    \E h \in Handler : \E q \in {req[h]} :
        (\A g \in Handler \ {h} : req[g] = Idle) /\ RequestKept(q) /\ RefsBut(q)

LEMMA RequestRuns ==
    ASSUME NEW h \in Handler, Continue(h)
    PROVE  req[h] # Idle
<1> SUFFICES ASSUME req[h] = Idle PROVE FALSE
  OBVIOUS
<1>1. req[h].at = "idle"
  BY DEF Idle
<1>2. \/ RequestDies(h) \/ req[h].at # "idle"
  BY DEF Continue, PrepareAgain, UpdateInline, ValidateAlias, Prepared, PrepareInline, SourceLookupFails,
     MakeInline, Preparation, WriteService, InsertSourceFails, SourcesDone, SyncService,
     CheckOrphan, DropOrphan, OrphansDone, DeleteDocument, InsertOneSource, SetSource, SyncSource
<1> QED BY <1>1, <1>2 DEF RequestDies

LEMMA SerialBefore ==
    ASSUME CountersOK, [Next]_vars, serial'
    PROVE  /\ serial /\ (~renamed' => ~renamed)
           /\ \A h \in Handler : Request(h) => \A g \in Handler : req[g] = Idle
<1> USE DEF bounds, vars, Fault
<1>1. ASSUME NEW h \in Handler, Request(h) PROVE serial /\ UNCHANGED renamed /\ \A g \in Handler : req[g] = Idle
  BY <1>1, RequestCounts DEF Begins
<1>2. ASSUME NEW h \in Handler, Continue(h) PROVE
           /\ UNCHANGED serial \/ serial' = FALSE
           /\ UNCHANGED renamed \/ SetSource(h)
  BY <1>2 DEF Continue, PrepareAgain, UpdateInline, ValidateAlias, Prepared, PrepareInline, SourceLookupFails,
     MakeInline, WriteService, InsertSourceFails, SourcesDone, SyncService, InsertSource, CheckOrphan,
     DropOrphan, OrphansDone, DeleteDocument, InsertOneSource, SetSource, SyncSource, RequestDies,
     TellSource, TellService, Lost
<1>3. ASSUME NEW h \in Handler, SetSource(h), ~renamed' PROVE ~renamed
  <2>1. UNCHANGED renamed \/ renamed' = (renamed \/ req[h].alias # source[req[h].doc].alias)
    BY <1>3 DEF SetSource
  <2> QED BY <1>3, <2>1 DEF CountersOK
<1>4. ASSUME NEW h \in Handler, Continue(h) PROVE serial /\ (~renamed' => ~renamed) /\ req[h] # Idle
  <2>1. serial
    <3>1. UNCHANGED serial \/ serial' = FALSE
      BY <1>2, <1>4
    <3> QED BY <3>1
  <2>2. ASSUME ~renamed' PROVE ~renamed
    <3>1. UNCHANGED renamed \/ SetSource(h)
      BY <1>2, <1>4
    <3>2. SetSource(h) => ~renamed
      BY <1>3, <2>2
    <3> QED BY <2>2, <3>1, <3>2
  <2>3. req[h] # Idle
    BY <1>4, RequestRuns
  <2> QED BY <2>1, <2>2, <2>3
<1>5. CASE UNCHANGED vars
  BY <1>1, <1>5
<1>6. CASE \E h \in Handler : Request(h)
  BY <1>1, <1>6
<1>7. CASE \E h \in Handler : Continue(h)
  BY <1>1, <1>4, <1>7
<1> QED BY <1>5, <1>6, <1>7 DEF Next

\* There are only so many services, however many there could be.
LEMMA LiveGrows ==
    ASSUME Types, [Next]_vars, IsFiniteSet(Live)
    PROVE  IsFiniteSet(Live')
<1>1. CASE UNCHANGED svc
  BY <1>1 DEF Live
<1>2. CASE ~UNCHANGED svc
  <2>1. PICK s \in Service : \E doc : svc' = [svc EXCEPT ![s] = doc]
    BY <1>2, ServiceWritten
  <2>2. Live' \subseteq Live \cup {s}
    BY <2>1 DEF Live, Types, ServicesOK
  <2> QED BY <2>2, FS_AddElement, FS_Subset
<1> QED BY <1>1, <1>2

LEMMA CountFacts ==
    ASSUME IsFiniteSet(Live), NEW a
    PROVE  /\ CountBySourceAlias(a) \in Nat
           /\ CountBySourceAlias(a) = 0 => \A t \in Live : a \notin AliasesOf(svc[t].body)
           /\ CountBySourceAlias(a) <= 1 => \A t, u \in Live :
                  a \in AliasesOf(svc[t].body) /\ a \in AliasesOf(svc[u].body) => t = u
<1> DEFINE S == {s \in Live : a \in AliasesOf(svc[s].body)}
<1>1. IsFiniteSet(S)
  BY FS_Subset
<1>2. CountBySourceAlias(a) = Cardinality(S)
  BY DEF CountBySourceAlias
<1> HIDE DEF S
<1>3. Cardinality(S) \in Nat /\ (Cardinality(S) = 0 <=> S = {})
  BY <1>1, FS_CardinalityType, FS_EmptySet
<1>4. ASSUME Cardinality(S) <= 1, NEW t \in S, NEW u \in S PROVE t = u
  <2>1. Cardinality(S) = 1
    BY <1>3, <1>4
  <2> QED BY <1>1, <1>4, <2>1, FS_Singleton
<1> USE DEF S
<1> QED BY <1>2, <1>3, <1>4

\* Requests that write no document.
LEMMA DocsKept ==
    ASSUME UNCHANGED <<svc, source>>, NEW q
    PROVE  (RequestKept(q) => RequestKept(q)') /\ (RefsBut(q) => RefsBut(q)')
BY DEF RequestKept, WritingKept, InsertsKept, CleanupKept, DropKept, RefsBut, Found, FindByAlias, Live, Owes, Inserts

LEMMA IdleKept == RequestKept(Idle) /\ \A s, a : ~Owes(Idle, s, a)
BY DEF RequestKept, Owes, Idle

\* A request finds what earlier ones have left: a source for every alias.
LEMMA BeginKept ==
    ASSUME Types, IsFiniteSet(Live), RefsBut(Idle), serial', NEW h \in Handler, Request(h)
    PROVE  \E q : Goes(h, q) /\ RequestKept(q)' /\ RefsBut(q)'
<1> USE DEF Types
<1>1. \A s \in Live : \A a \in AliasesOf(svc[s].body) : Found(a)
  BY IdleKept DEF RefsBut
\* No request writes a document at once.
<1>2. ASSUME NEW q, Goes(h, q), RequestKept(q), UNCHANGED <<svc, source>>
      PROVE  \E p : Goes(h, p) /\ RequestKept(p)' /\ RefsBut(p)'
  <2>1. RefsBut(q)
    BY <1>1 DEF RefsBut
  <2> QED BY <1>2, <2>1, DocsKept
<1>3. ASSUME NEW s \in Service, NEW base \in BasePath, NEW body \in Body,
             CreateService(h, s, base, body) \/ UpdateService(h, s, base, body)
      PROVE  \E q : Goes(h, q) /\ RequestKept(q)' /\ RefsBut(q)'
  <2>1. PICK q : q = Preparing(s, base, body)
    OBVIOUS
  <2>2. Goes(h, q) /\ UNCHANGED <<svc, source>> /\ (NewService(s) \/ s \in Live)
    BY <1>3, <2>1 DEF CreateService, UpdateService, docs
  <2>3. /\ q.at = "prepare" /\ q.new = (svc[s] = NoService) /\ q.before = svc[s] /\ q.after.body = body
        /\ q.left = body /\ q.insert = {} /\ q.done = {}
    BY <2>1 DEF Preparing
  <2>4. ~q.new => s \in Live
    BY <2>2, <2>3 DEF NewService
  <2>5. WritingKept(q)
    BY <1>1, <2>3, <2>4 DEF WritingKept
  <2>6. RequestKept(q)
    BY <2>3, <2>5 DEF RequestKept, InsertsKept
  <2> QED BY <1>2, <2>2, <2>6
<1>4. ASSUME NEW s \in Service, NEW base \in BasePath, NEW body \in Body, BasePathLookupFails(h, s, base, body)
      PROVE  FALSE
  BY <1>4 DEF BasePathLookupFails
<1>5. ASSUME NEW s \in Service, DeleteService(h, s)
      PROVE  \E q : Goes(h, q) /\ RequestKept(q)' /\ RefsBut(q)'
  <2>1. PICK q : q = [at |-> "orphans", service |-> s, others |-> 1, then |-> "delete", left |-> AliasesOf(svc[s].body)]
    OBVIOUS
  <2>2. Goes(h, q) /\ UNCHANGED <<svc, source>> /\ s \in Live
    BY <1>5, <2>1 DEF DeleteService, docs
  <2>3. RequestKept(q)
    BY <2>1, <2>2 DEF RequestKept, CleanupKept
  <2> QED BY <1>2, <2>2, <2>3
<1>6. ASSUME NEW d \in Source, NEW a \in Alias, CreateSource(h, d, a)
      PROVE  \E q : Goes(h, q) /\ RequestKept(q)' /\ RefsBut(q)'
  <2>1. PICK q : q = [at |-> "insertsource", insert |-> {[doc |-> d, alias |-> a]}, n |-> started']
    OBVIOUS
  <2>2. Goes(h, q) /\ UNCHANGED <<svc, source>> /\ source[d] = NoSource
    BY <1>6, <2>1 DEF CreateSource, Unclaimed, docs
  <2>3. RequestKept(q)
    BY <2>1, <2>2 DEF RequestKept, InsertsKept
  <2> QED BY <1>2, <2>2, <2>3
<1>7. ASSUME NEW d \in Source, NEW a \in Alias, UpdateSource(h, d, a)
      PROVE  \E q : Goes(h, q) /\ RequestKept(q)' /\ RefsBut(q)'
  <2>1. PICK q : q = [at |-> "setsource", doc |-> d, alias |-> a, n |-> started']
    OBVIOUS
  <2>2. Goes(h, q) /\ UNCHANGED <<svc, source>>
    BY <1>7, <2>1 DEF UpdateSource, docs
  <2>3. RequestKept(q)
    BY <2>1 DEF RequestKept
  <2> QED BY <1>2, <2>2, <2>3
<1>8. ASSUME NEW d \in Source, DeleteSource(h, d)
      PROVE  \E q : Goes(h, q) /\ RequestKept(q)' /\ RefsBut(q)'
  <2>1. PICK q : q = [at |-> "drop", doc |-> d, alias |-> source[d].alias, rest |-> Idle]
    OBVIOUS
  <2>2. Goes(h, q) /\ UNCHANGED <<svc, source>> /\ CountBySourceAlias(source[d].alias) = 0
    BY <1>8, <2>1 DEF DeleteSource, docs
  <2>3. \A t \in Live : source[d].alias \notin AliasesOf(svc[t].body)
    BY <2>2, CountFacts
  <2>4. RequestKept(q)
    BY <2>1, <2>3 DEF RequestKept, DropKept
  <2> QED BY <1>2, <2>2, <2>4
<1> QED BY <1>3, <1>4, <1>5, <1>6, <1>7, <1>8, RequestBegins

\* The facts about a request that goes on.
LEMMA WritingNeeds ==
    ASSUME NEW r, RequestKept(r), r.at \in {"prepare", "write", "sources"}
    PROVE  WritingKept(r) /\ InsertsKept(r)
BY DEF RequestKept

\* The aliases of the services that are there, and of what a request writes.
LEMMA ServiceAliases ==
    ASSUME ServicesOK
    PROVE  \A s \in Live : AliasesOf(svc[s].body) \subseteq Alias
<1>1. \A s \in Live : svc[s].body \in Body \cup {Initial}
  BY DEF ServicesOK, Live, Documents, NoService, Deleted
<1> QED BY <1>1, BodyFacts

LEMMA WritingAliases ==
    ASSUME NEW r \in Writings
    PROVE  /\ AliasesOf(r.after.body) \subseteq Alias
           /\ r.before \in Documents => AliasesOf(r.before.body) \subseteq Alias
           /\ Inserts(r) \subseteq Alias
<1>1. r.after.body \in Body \cup {Initial}
  BY DEF Writings, Documents
<1>2. r.before \in Documents => r.before.body \in Body \cup {Initial}
  BY DEF Documents
<1>3. Inserts(r) \subseteq Alias
  BY DEF Inserts, Writings, Claims
<1> QED BY <1>1, <1>2, <1>3, BodyFacts

\* Nobody is without a source that has not been without it already.
LEMMA RefsStay ==
    ASSUME ServicesOK, NEW r, RefsBut(r), NEW q, UNCHANGED svc, \A a \in Alias : Found(a) => Found(a)',
           \A s \in Live, a \in Alias : Owes(r, s, a) => Owes(q, s, a) \/ Found(a)'
    PROVE  RefsBut(q)'
BY ServiceAliases DEF RefsBut, Live, Owes, Inserts

\* What a request prepares.
LEMMA PrepareKept ==
    ASSUME Types, NEW h \in Handler, NEW r, r = req[h], RequestKept(r), RefsBut(r),
           PrepareAgain(h) \/ UpdateInline(h) \/ ValidateAlias(h) \/ \E d \in Source : PrepareInline(h, d)
    PROVE  \E q : Goes(h, q) /\ RequestKept(q)' /\ RefsBut(q)'
<1> USE DEF Types
<1> DEFINE R == Rest(r)
           a == Head(r.left).alias
<1>1. r.at = "prepare" /\ r \in Writings /\ r.left # <<>>
  BY WritingFacts DEF PrepareAgain, UpdateInline, ValidateAlias, PrepareInline, MakeInline, Preparation
<1>2. AliasesOf(r.left) \subseteq AliasesOf(R.left) \cup {a}
  <2>1. r.left \in Seq(ResourcePaths) /\ R.left = Tail(r.left)
    BY <1>1 DEF Writings, Rest
  <2> QED BY <1>1, <2>1, TailFacts
<1>3. /\ R.at = r.at /\ R.new = r.new /\ R.before = r.before /\ R.after = r.after /\ R.insert = r.insert
      /\ R.done = r.done /\ R.invalid = r.invalid /\ R.invalid \in BOOLEAN
      /\ {"invalid", "insert", "done", "updated"} \subseteq DOMAIN R
  BY <1>1 DEF Rest, Writings
<1>4. WritingKept(r) /\ InsertsKept(r)
  BY <1>1, WritingNeeds
<1>5. \A s, b : ~Owes(r, s, b)
  BY <1>1 DEF Owes
\* Once the alias is there, or will be inserted, or is refused.
<1>6. ASSUME NEW q, Goes(h, q), UNCHANGED svc, \A b : Found(b) => Found(b)',
             q.at = r.at, q.new = r.new, q.before = r.before, q.after = r.after, q.left = R.left,
             InsertsKept(q)', Inserts(r) \subseteq Inserts(q),
             ~q.invalid => ~r.invalid /\ (a = NoAlias \/ Found(a)' \/ a \in Inserts(q)),
             \A b \in q.done : b \in r.done \/ Found(b)' \/ b \in Inserts(q)
      PROVE  \E p : Goes(h, p) /\ RequestKept(p)' /\ RefsBut(p)'
  <2>1. RefsBut(q)'
    BY <1>5, <1>6, RefsStay
  <2>2. WritingKept(q)'
    <3>1. ~q.new => \A b \in AliasesOf(q.before.body) : Found(b)'
      BY <1>4, <1>6 DEF WritingKept
    <3>2. ASSUME ~q.invalid, NEW b \in AliasesOf(q.after.body)
          PROVE  b \in AliasesOf(q.left) \/ Found(b)' \/ b \in Inserts(q)
      <4>1. b \in AliasesOf(r.left) \/ Found(b) \/ b \in Inserts(r)
        BY <1>4, <1>6, <3>2 DEF WritingKept
      <4>2. b # NoAlias
        BY DEF AliasesOf
      <4> QED BY <1>2, <1>6, <3>2, <4>1, <4>2
    <3>3. \A b \in q.done : Found(b)' \/ b \in Inserts(q)
      BY <1>1, <1>4, <1>6 DEF WritingKept
    <3>4. q.at = "prepare"
      BY <1>1, <1>6
    <3> QED BY <3>1, <3>2, <3>3, <3>4 DEF WritingKept, Inserts
  <2>3. RequestKept(q)'
    BY <1>1, <1>6, <2>2 DEF RequestKept
  <2> QED BY <1>6, <2>1, <2>3
<1>7. Head(r.left).inline => a \in Alias
  <2>1. r.left \in Seq(ResourcePaths)
    BY <1>1 DEF Writings
  <2>2. Head(r.left) \in ResourcePaths
    BY <1>1, <2>1, TailFacts
  <2> QED BY <2>2, BodyFacts, ServiceConfigAssumption
<1>8. UNCHANGED source => \A b : Found(b) => Found(b)'
  BY DEF Found, FindByAlias
<1>9. CASE PrepareAgain(h)
  <2>1. Goes(h, R) /\ UNCHANGED <<svc, source>> /\ a \in r.done
    BY <1>9 DEF PrepareAgain, docs
  <2>2. Found(a)' \/ a \in Inserts(R)
    BY <1>1, <1>3, <1>4, <1>8, <2>1 DEF WritingKept, Inserts
  <2>3. InsertsKept(R)' /\ Inserts(R) = Inserts(r)
    BY <1>3, <1>4, <2>1 DEF InsertsKept, Inserts
  <2>4. PICK q : q = R
    OBVIOUS
  <2> HIDE DEF R, a
  <2> QED BY <1>3, <1>6, <1>8, <2>1, <2>2, <2>3, <2>4
<1>10. CASE UpdateInline(h)
  <2>1. PICK q : q = [R EXCEPT !.updated = @ \cup {a}, !.done = @ \cup {a}]
    OBVIOUS
  <2>2. Goes(h, q) /\ UNCHANGED svc
    BY <1>10, <2>1 DEF UpdateInline
  <2>3. PICK d \in FindByAlias(a) : source' = [source EXCEPT ![d].content = r.n]
    BY <1>10 DEF UpdateInline
  <2>4. d \in Source /\ source[d].alias = a /\ a # None
    BY <1>7, <1>10, <2>3, ServiceConfigAssumption DEF FindByAlias, UpdateInline
  <2>5. \A e \in Source : source'[e].alias = source[e].alias
    <3>1. \A e \in Source : "alias" \in DOMAIN source[e]
      BY DEF SourcesOK, NoSource
    <3> QED BY <2>3, <3>1 DEF SourcesOK
  <2>6. \A b : Found(b) => Found(b)'
    BY <2>5 DEF Found, FindByAlias
  <2>7. Found(a)'
    BY <2>3, <2>6 DEF Found
  <2>8. /\ q.at = R.at /\ q.new = R.new /\ q.before = R.before /\ q.after = R.after /\ q.left = R.left
        /\ q.insert = R.insert /\ q.invalid = R.invalid /\ q.done = R.done \cup {a}
    <3> HIDE DEF R, a
    <3> QED BY <1>3, <2>1
  <2>9. InsertsKept(q)'
    <3>1. \A c \in r.insert : c.doc # d
      BY <1>4, <2>4 DEF InsertsKept, NoSource
    <3>2. \A e \in Source : e # d => source'[e] = source[e]
      BY <2>3 DEF SourcesOK
    <3>3. r.insert \in SUBSET Claims
      BY <1>1 DEF Writings
    <3>4. \A c \in r.insert : source'[c.doc] = NoSource
      BY <1>4, <3>1, <3>2, <3>3 DEF InsertsKept, Claims
    <3> QED BY <1>3, <1>4, <2>8, <3>4 DEF InsertsKept
  <2>10. Inserts(q) = Inserts(r)
    BY <1>3, <2>8 DEF Inserts
  <2> HIDE DEF R, a
  <2> QED BY <1>3, <1>6, <2>2, <2>6, <2>7, <2>8, <2>9, <2>10
<1>11. CASE ValidateAlias(h)
  <2>1. PICK q : q = [R EXCEPT !.invalid = @ \/ (a # NoAlias /\ FindByAlias(a) = {})]
    OBVIOUS
  <2>2. Goes(h, q) /\ UNCHANGED <<svc, source>>
    BY <1>11, <2>1 DEF ValidateAlias, docs
  <2>3. /\ q.at = R.at /\ q.new = R.new /\ q.before = R.before /\ q.after = R.after /\ q.left = R.left
        /\ q.insert = R.insert /\ q.done = R.done
        /\ q.invalid = (R.invalid \/ (a # NoAlias /\ FindByAlias(a) = {}))
    <3> HIDE DEF R, a
    <3> QED BY <1>3, <2>1
  <2>4. ~q.invalid => ~r.invalid /\ (a = NoAlias \/ Found(a))
    <3> HIDE DEF R, a
    <3> QED BY <1>3, <2>3 DEF Found
  <2>5. InsertsKept(q)' /\ Inserts(q) = Inserts(r)
    BY <1>3, <1>4, <2>2, <2>3 DEF InsertsKept, Inserts
  <2> HIDE DEF R, a
  <2> QED BY <1>3, <1>6, <1>8, <2>2, <2>3, <2>4, <2>5
<1>12. ASSUME NEW d \in Source, PrepareInline(h, d) PROVE \E q : Goes(h, q) /\ RequestKept(q)' /\ RefsBut(q)'
  <2> DEFINE c == [doc |-> d, alias |-> a]
  <2>1. PICK q : q = [R EXCEPT !.insert = @ \cup {c}, !.done = @ \cup {a}]
    OBVIOUS
  <2>2. Goes(h, q) /\ UNCHANGED <<svc, source>> /\ Unclaimed(d)
    BY <1>12, <2>1 DEF PrepareInline, MakeInline, docs
  <2>3. /\ q.at = R.at /\ q.new = R.new /\ q.before = R.before /\ q.after = R.after /\ q.left = R.left
        /\ q.insert = R.insert \cup {c} /\ q.invalid = R.invalid /\ q.done = R.done \cup {a}
    <3> HIDE DEF R, a, c
    <3> QED BY <1>3, <2>1
  <2>4. source[d] = NoSource /\ \A e \in r.insert : e.doc # d
    <3>1. Claimed(h) = r.insert
      BY <1>1 DEF Claimed
    <3> QED BY <2>2, <3>1 DEF Unclaimed
  <2>5. c.doc = d /\ c.alias = a
    OBVIOUS
  <2>6. InsertsKept(q)'
    <3> HIDE DEF c
    <3> QED BY <1>3, <1>4, <2>2, <2>3, <2>4, <2>5 DEF InsertsKept
  <2>7. Inserts(r) \subseteq Inserts(q) /\ a \in Inserts(q)
    <3> HIDE DEF c, a
    <3> QED BY <1>3, <2>3, <2>5 DEF Inserts
  <2> HIDE DEF R, a
  <2> QED BY <1>3, <1>6, <1>8, <2>2, <2>3, <2>6, <2>7
<1> QED BY <1>9, <1>10, <1>11, <1>12

\* What a request writes.
LEMMA WriteKept ==
    ASSUME Types, NEW h \in Handler, NEW r, r = req[h], RequestKept(r), RefsBut(r),
           \/ Prepared(h) \/ WriteService(h) \/ InsertSourceFails(h) \/ SourcesDone(h)
           \/ r.at = "sources" /\ \E c \in r.insert : InsertSource(h, c)
    PROVE  \E q : Goes(h, q) /\ RequestKept(q)' /\ RefsBut(q)'
<1> USE DEF Types
<1>1. r.at \in {"prepare", "write", "sources"}
  BY DEF Prepared, WriteService, InsertSourceFails, SourcesDone
<1>2. /\ r \in Writings /\ r.service \in Service /\ r.new \in BOOLEAN
      /\ ~r.new => r.before \in Documents
      /\ WritingKept(r) /\ InsertsKept(r)
  BY <1>1, WritingFacts, WritingNeeds DEF Writings
<1>3. UNCHANGED source => \A b : Found(b) => Found(b)'
  BY DEF Found, FindByAlias
<1>4. RequestKept(Idle)' /\ \A s, a : ~Owes(Idle, s, a)
  BY IdleKept DEF RequestKept, Idle
<1>5. CASE Prepared(h)
  <2>1. UNCHANGED <<svc, source>> /\ \A s, a : ~Owes(r, s, a)
    BY <1>5 DEF Prepared, Owes, docs
  <2>2. CASE Ends(h)
    <3>1. RefsBut(Idle)'
      BY <1>3, <2>1, RefsStay
    <3> QED BY <1>4, <2>2, <3>1 DEF Ends
  <2>3. CASE ~Ends(h)
    <3>1. PICK q : q = [r EXCEPT !.at = "write"]
      OBVIOUS
    <3>2. Goes(h, q) /\ ~r.invalid /\ r.at = "prepare" /\ r.left = <<>>
      BY <1>5, <2>3, <3>1 DEF Prepared
    <3>3. /\ q.at = "write" /\ q.new = r.new /\ q.before = r.before /\ q.after = r.after
          /\ q.left = r.left /\ q.insert = r.insert /\ q.invalid = r.invalid
      BY <1>2, <3>1 DEF Writings
    <3>4. RequestKept(q)
      BY <1>2, <3>2, <3>3 DEF RequestKept, WritingKept, InsertsKept, Inserts
    <3>5. RefsBut(q)'
      BY <1>3, <2>1, RefsStay
    <3> QED BY <2>1, <3>2, <3>4, <3>5, DocsKept
  <2> QED BY <2>2, <2>3
<1>6. CASE WriteService(h)
  <2>1. PICK q : q = [r EXCEPT !.at = "sources"]
    OBVIOUS
  <2>2. Goes(h, q) /\ UNCHANGED source /\ r.at = "write"
    BY <1>6, <2>1 DEF WriteService
  <2>3. /\ q.at = "sources" /\ q.new = r.new /\ q.before = r.before /\ q.after = r.after
        /\ q.left = r.left /\ q.insert = r.insert /\ q.invalid = r.invalid /\ q.service = r.service
    BY <1>2, <2>1 DEF Writings
  <2>4. ~r.invalid /\ r.left = <<>> /\ \A s, a : ~Owes(r, s, a)
    BY <1>2, <2>2 DEF WritingKept, Owes
  <2>5. RequestKept(q)'
    <3>1. RequestKept(q)
      BY <1>2, <2>3, <2>4 DEF RequestKept, WritingKept, InsertsKept, Inserts
    <3> QED BY <2>2, <2>3, <3>1 DEF RequestKept, WritingKept, InsertsKept, Inserts, Found, FindByAlias
  <2>6. \A a \in AliasesOf(r.after.body) : Found(a)' \/ Owes(q, r.service, a)
    <3>1. AliasesOf(<<>>) = {}
      BY DEF AliasesOf
    <3>2. \A a \in AliasesOf(r.after.body) : Found(a) \/ a \in Inserts(r)
      BY <1>2, <2>4, <3>1 DEF WritingKept
    <3> QED BY <1>3, <2>2, <2>3, <3>2 DEF Owes, Inserts
  <2>7. ASSUME NEW s \in Service, svc'[s].base # None, NEW a \in AliasesOf(svc'[s].body)
        PROVE  Found(a)' \/ Owes(q, s, a)
    <3>1. CASE svc' = [svc EXCEPT ![r.service] = r.after] /\ s = r.service
      BY <1>2, <2>6, <2>7, <3>1 DEF ServicesOK
    <3>2. CASE svc'[s] = svc[s]
      <4>1. s \in Live /\ a \in AliasesOf(svc[s].body)
        BY <2>7, <3>2 DEF Live
      <4> QED BY <1>3, <2>2, <2>4, <4>1 DEF RefsBut
    <3> QED BY <1>6, <3>1, <3>2 DEF WriteService, ServicesOK
  <2>8. RefsBut(q)'
    BY <2>7 DEF RefsBut, Live, Owes, Inserts
  <2> QED BY <2>2, <2>5, <2>8
<1>7. CASE InsertSourceFails(h)
  <2>1. r.at = "sources" /\ Ends(h) /\ UNCHANGED source /\ svc' = RolledBack(r)
    BY <1>7 DEF InsertSourceFails
  <2>2. ASSUME NEW s \in Service, svc'[s].base # None, NEW a \in AliasesOf(svc'[s].body)
        PROVE  Found(a)'
    <3>1. CASE s = r.service /\ r.new
      BY <1>2, <2>1, <2>2, <3>1 DEF RolledBack, Deleted, ServicesOK
    <3>2. CASE s = r.service /\ ~r.new /\ s \in Live
      <4> DEFINE doc == [r.before EXCEPT !.ogc = svc[s].ogc]
      <4>1. svc'[s] = doc
        BY <2>1, <3>2 DEF RolledBack, ServicesOK
      <4>2. doc.body = r.before.body
        BY <1>2, <3>2 DEF Documents
      <4>3. a \in AliasesOf(r.before.body)
        BY <2>2, <4>1, <4>2
      <4> QED BY <1>2, <1>3, <2>1, <3>2, <4>3 DEF WritingKept
    <3>3. CASE s # r.service
      <4>1. svc'[s] = svc[s]
        BY <1>2, <2>1, <3>3 DEF RolledBack, ServicesOK
      <4>2. s \in Live /\ a \in AliasesOf(svc[s].body) /\ ~Owes(r, s, a)
        BY <2>1, <2>2, <3>3, <4>1 DEF Live, Owes
      <4> QED BY <1>3, <2>1, <4>2 DEF RefsBut
    <3>4. CASE s = r.service /\ ~r.new /\ s \notin Live
      BY <2>1, <2>2, <3>4 DEF RolledBack, Live
    <3> QED BY <1>2, <3>1, <3>2, <3>3, <3>4
  <2>3. RefsBut(Idle)'
    BY <2>2 DEF RefsBut, Live
  <2> QED BY <1>4, <2>1, <2>3 DEF Ends
<1>8. CASE SourcesDone(h)
  <2>1. UNCHANGED <<svc, source>> /\ r.at = "sources" /\ r.insert = {}
    BY <1>8 DEF SourcesDone, docs
  <2>2. \A s, a : ~Owes(r, s, a)
    BY <2>1 DEF Owes, Inserts
  <2>3. PICK q : /\ Goes(h, q)
                 /\ \/ q.at = "sync"
                    \/ q.at = "orphans" /\ q.then = "sync" /\ q.others = 0
    <3>1. CASE r.new
      BY <1>8, <3>1 DEF SourcesDone
    <3>2. CASE ~r.new
      BY <1>8, <3>2 DEF SourcesDone
    <3> QED BY <1>2, <3>1, <3>2
  <2>4. RequestKept(q)'
    BY <2>3 DEF RequestKept, CleanupKept
  <2>5. RefsBut(q)'
    BY <1>3, <2>1, <2>2, RefsStay
  <2> QED BY <2>3, <2>4, <2>5
<1>9. ASSUME r.at = "sources", NEW c \in r.insert, InsertSource(h, c)
      PROVE  \E q : Goes(h, q) /\ RequestKept(q)' /\ RefsBut(q)'
  <2>1. PICK q : q = [r EXCEPT !.insert = @ \ {c}]
    OBVIOUS
  <2>2. /\ Goes(h, q) /\ UNCHANGED svc
        /\ source' = [source EXCEPT ![c.doc] = [alias |-> c.alias, content |-> r.n]]
    BY <1>9, <2>1 DEF InsertSource
  <2>3. /\ q.at = "sources" /\ q.new = r.new /\ q.before = r.before /\ q.after = r.after
        /\ q.left = r.left /\ q.insert = r.insert \ {c} /\ q.invalid = r.invalid /\ q.service = r.service
    BY <1>2, <1>9, <2>1 DEF Writings
  <2>4. c.doc \in Source /\ c.alias \in Alias /\ source[c.doc] = NoSource /\ r.insert \in SUBSET Claims
    BY <1>2, <1>9 DEF Writings, Claims, InsertsKept
  <2>5. \A d \in Source : source'[d] = IF d = c.doc THEN [alias |-> c.alias, content |-> r.n] ELSE source[d]
    BY <2>2, <2>4 DEF SourcesOK
  <2>6. Found(c.alias)'
    BY <2>4, <2>5 DEF Found, FindByAlias
  <2>7. ASSUME NEW b \in Alias, Found(b) PROVE Found(b)'
    <3>1. PICK d \in Source : source[d].alias = b
      BY <2>7 DEF Found, FindByAlias
    <3>2. d # c.doc
      BY <2>4, <3>1, ServiceConfigAssumption DEF NoSource
    <3> QED BY <2>5, <3>1, <3>2 DEF Found, FindByAlias
  <2>8. Inserts(r) \subseteq Inserts(q) \cup {c.alias}
    BY <2>3 DEF Inserts
  <2>9. RefsBut(q)'
    <3>1. \A s \in Live, a \in Alias : Owes(r, s, a) => Owes(q, s, a) \/ Found(a)'
      BY <1>9, <2>3, <2>6, <2>8 DEF Owes
    <3> QED BY <2>2, <2>7, <3>1, RefsStay
  <2>10. InsertsKept(q)'
    <3>1. \A e \in q.insert : e.doc \in Source /\ e.doc # c.doc /\ source[e.doc] = NoSource
      BY <1>2, <1>9, <2>3, <2>4 DEF InsertsKept, Claims
    <3>2. \A e \in q.insert : source'[e.doc] = NoSource
      BY <2>5, <3>1
    <3> QED BY <1>2, <2>3, <3>2 DEF InsertsKept
  <2>11. WritingKept(q)'
    <3>1. ~q.new => \A a \in AliasesOf(q.before.body) : Found(a)'
      BY <1>2, <2>3, <2>7, WritingAliases DEF WritingKept
    <3>2. ~q.invalid => \A a \in AliasesOf(q.after.body) : a \in AliasesOf(q.left) \/ Found(a)' \/ a \in Inserts(q)
      BY <1>2, <2>3, <2>6, <2>7, <2>8, WritingAliases DEF WritingKept
    <3>3. ~q.invalid /\ q.left = <<>>
      BY <1>2, <1>9, <2>3 DEF WritingKept
    <3> QED BY <2>3, <3>1, <3>2, <3>3 DEF WritingKept, Inserts
  <2>12. RequestKept(q)'
    BY <2>3, <2>10, <2>11 DEF RequestKept
  <2> QED BY <2>2, <2>9, <2>12
<1> QED BY <1>5, <1>6, <1>7, <1>8, <1>9

\* What a request cleans up.
LEMMA OrphansKept ==
    ASSUME Types, IsFiniteSet(Live), NEW h \in Handler, NEW r, r = req[h], RequestKept(r), RefsBut(r),
           (\E a \in Alias : CheckOrphan(h, a)) \/ DropOrphan(h) \/ OrphansDone(h) \/ DeleteDocument(h)
    PROVE  \E q : Goes(h, q) /\ RequestKept(q)' /\ RefsBut(q)'
<1> USE DEF Types
<1>1. RequestKept(Idle)' /\ \A s, a : ~Owes(Idle, s, a)
  BY IdleKept DEF RequestKept, Idle
<1>2. UNCHANGED source => \A b : Found(b) => Found(b)'
  BY DEF Found, FindByAlias
<1>3. ASSUME NEW a \in Alias, CheckOrphan(h, a) PROVE \E q : Goes(h, q) /\ RequestKept(q)' /\ RefsBut(q)'
  <2>1. r.at = "orphans" /\ a \in r.left /\ UNCHANGED <<svc, source>>
    BY <1>3 DEF CheckOrphan, docs
  <2>2. r \in Cleanups /\ CleanupKept(r)
    BY <2>1 DEF RequestsOK, RequestOK, RequestKept
  <2>3. PICK rest : rest = [r EXCEPT !.left = @ \ {a}]
    OBVIOUS
  <2>4. /\ rest.at = "orphans" /\ rest.service = r.service /\ rest.others = r.others /\ rest.then = r.then
        /\ rest.left = r.left \ {a}
    BY <2>1, <2>2, <2>3 DEF Cleanups
  <2>5. CleanupKept(rest)
    BY <2>2, <2>4 DEF CleanupKept
  <2>6. CASE Goes(h, rest)
    <3>1. RequestKept(rest)
      BY <2>4, <2>5 DEF RequestKept
    <3>2. RefsBut(rest)
      BY <2>1, <2>4 DEF RefsBut, Owes
    <3> QED BY <2>1, <2>6, <3>1, <3>2, DocsKept
  <2>7. CASE \E d \in FindByAlias(a) : Orphan(h, a) /\ Goes(h, [at |-> "drop", doc |-> d, alias |-> a, rest |-> rest])
    <3>1. PICK d \in FindByAlias(a) : Orphan(h, a) /\ Goes(h, [at |-> "drop", doc |-> d, alias |-> a, rest |-> rest])
      BY <2>7
    <3>2. PICK q : q = [at |-> "drop", doc |-> d, alias |-> a, rest |-> rest]
      OBVIOUS
    <3>3. source[d].alias = a /\ CountBySourceAlias(a) <= r.others
      BY <3>1 DEF FindByAlias, Orphan
    <3>4. rest # Idle
      BY <2>4 DEF Idle
    <3>5. ASSUME NEW t \in Live, a \in AliasesOf(svc[t].body) PROVE rest.then = "delete" /\ rest.service = t
      <4>1. CountBySourceAlias(a) \in Nat /\ r.others \in {0, 1} /\ r.then \in {"sync", "delete"}
        BY <2>2, CountFacts DEF Cleanups
      <4>2. CASE r.then = "sync"
        <5>1. r.others = 0
          BY <2>2, <4>2 DEF CleanupKept
        <5>2. CountBySourceAlias(a) = 0
          BY <3>3, <4>1, <5>1
        <5> QED BY <3>5, <5>2, CountFacts
      <4>3. CASE r.then = "delete"
        <5>1. r.service \in Live /\ a \in AliasesOf(svc[r.service].body)
          BY <2>1, <2>2, <4>3 DEF CleanupKept
        <5>2. CountBySourceAlias(a) <= 1
          BY <3>3, <4>1
        <5>3. r.service = t
          BY <3>5, <5>1, <5>2, CountFacts
        <5> QED BY <2>4, <4>3, <5>3
      <4> QED BY <4>1, <4>2, <4>3
    <3>6. DropKept(q)
      BY <2>5, <3>2, <3>3, <3>4, <3>5 DEF DropKept
    <3>7. RequestKept(q)
      BY <3>2, <3>6 DEF RequestKept
    <3>8. RefsBut(q)
      BY <2>1, <2>4, <3>2, <3>4 DEF RefsBut, Owes
    <3> QED BY <2>1, <3>1, <3>2, <3>7, <3>8, DocsKept
  <2> QED BY <1>3, <2>3, <2>6, <2>7 DEF CheckOrphan
<1>4. CASE DropOrphan(h)
  <2>1. /\ r.at = "drop" /\ Goes(h, r.rest) /\ UNCHANGED svc
        /\ source' = [source EXCEPT ![r.doc] = [alias |-> None, content |-> -1]]
    BY <1>4 DEF DropOrphan
  <2>2. r.doc \in Source /\ r.rest \in {Idle} \cup Cleanups /\ DropKept(r)
    BY <2>1 DEF RequestsOK, RequestOK, RequestKept
  <2>3. PICK q : q = r.rest
    OBVIOUS
  <2>4. q = Idle \/ q.at = "orphans"
    BY <2>2, <2>3 DEF Cleanups
  <2>5. RequestKept(q)'
    <3>1. q = Idle \/ CleanupKept(q)
      BY <2>2, <2>3 DEF DropKept
    <3>2. q = Idle \/ CleanupKept(q)'
      BY <2>1, <3>1 DEF CleanupKept, Live
    <3> QED BY <1>1, <2>4, <3>2 DEF RequestKept
  <2>6. ASSUME NEW s \in Live, NEW a \in AliasesOf(svc[s].body) PROVE Found(a)' \/ Owes(q, s, a)
    <3>1. CASE Owes(r, s, a)
      BY <2>1, <2>3, <2>4, <3>1 DEF Owes
    <3>2. CASE a = source[r.doc].alias
      BY <2>2, <2>3, <2>4, <3>2 DEF DropKept, Owes
    <3>3. CASE Found(a) /\ a # source[r.doc].alias
      <4>1. PICK d \in Source : source[d].alias = a
        BY <3>3 DEF Found, FindByAlias
      <4>2. source'[d] = source[d]
        BY <2>1, <2>2, <3>3, <4>1 DEF SourcesOK
      <4> QED BY <4>1, <4>2 DEF Found, FindByAlias
    <3> QED BY <3>1, <3>2, <3>3 DEF RefsBut
  <2>7. RefsBut(q)'
    BY <2>1, <2>6 DEF RefsBut, Live, Owes, Inserts
  <2> QED BY <2>1, <2>3, <2>5, <2>7
<1>5. CASE OrphansDone(h)
  <2>1. r.at = "orphans" /\ UNCHANGED <<svc, source>>
    BY <1>5 DEF OrphansDone, docs
  <2>2. PICK q : /\ Goes(h, q)
                 /\ \/ r.then = "sync" /\ q.at = "sync"
                    \/ q.at = "delete" /\ q.service = r.service
    <3>1. CASE r.then = "sync"
      BY <1>5, <3>1 DEF OrphansDone
    <3>2. CASE r.then # "sync"
      BY <1>5, <3>2 DEF OrphansDone
    <3> QED BY <3>1, <3>2
  <2>3. RequestKept(q)'
    BY <2>2 DEF RequestKept
  <2>4. \A s, a : Owes(r, s, a) => Owes(q, s, a)
    BY <2>1, <2>2 DEF Owes
  <2>5. RefsBut(q)'
    BY <1>2, <2>1, <2>4, RefsStay
  <2> QED BY <2>2, <2>3, <2>5
<1>6. CASE DeleteDocument(h)
  <2>1. r.at = "delete" /\ Ends(h) /\ UNCHANGED source /\ svc' = [svc EXCEPT ![r.service] = Deleted]
    BY <1>6 DEF DeleteDocument
  <2>2. r.service \in Service
    BY <2>1 DEF RequestsOK, RequestOK
  <2>3. ASSUME NEW s \in Service, svc'[s].base # None, NEW a \in AliasesOf(svc'[s].body) PROVE Found(a)'
    <3>1. s # r.service /\ svc'[s] = svc[s]
      BY <2>1, <2>2, <2>3 DEF ServicesOK, Deleted
    <3>2. s \in Live /\ ~Owes(r, s, a)
      BY <2>1, <2>3, <3>1 DEF Live, Owes
    <3> QED BY <1>2, <2>1, <2>3, <3>1, <3>2 DEF RefsBut
  <2>4. RefsBut(Idle)'
    BY <2>3 DEF RefsBut, Live
  <2> QED BY <1>1, <2>1, <2>4 DEF Ends
<1> QED BY <1>3, <1>4, <1>5, <1>6

\* A request about one source, or what remains to be written to Redis.
LEMMA SourceKept ==
    ASSUME Types, NEW h \in Handler, NEW r, r = req[h], RequestKept(r), RefsBut(r), ~renamed',
           SyncService(h) \/ InsertOneSource(h) \/ SetSource(h) \/ SyncSource(h)
    PROVE  \E q : Goes(h, q) /\ RequestKept(q)' /\ RefsBut(q)'
<1> USE DEF Types
<1>1. RequestKept(Idle)' /\ \A s, a : ~Owes(r, s, a)
  <2>1. RequestKept(Idle)'
    BY DEF RequestKept, Idle
  <2>2. r.at \in {"sync", "insertsource", "setsource", "syncsource"}
    BY DEF SyncService, InsertOneSource, SetSource, SyncSource
  <2> QED BY <2>1, <2>2 DEF Owes
<1>2. UNCHANGED source => \A b : Found(b) => Found(b)'
  BY DEF Found, FindByAlias
<1>3. ASSUME NEW q, Goes(h, q), UNCHANGED svc, \A a \in Alias : Found(a) => Found(a)', q.at \in {"idle", "syncsource"}
      PROVE  \E p : Goes(h, p) /\ RequestKept(p)' /\ RefsBut(p)'
  <2>1. RefsBut(q)'
    BY <1>1, <1>3, RefsStay
  <2>2. RequestKept(q)'
    BY <1>3 DEF RequestKept
  <2> QED BY <1>3, <2>1, <2>2
<1>4. Idle.at = "idle"
  BY DEF Idle
<1>5. CASE SyncService(h) \/ SyncSource(h)
  <2>1. Goes(h, Idle) /\ UNCHANGED <<svc, source>>
    BY <1>5 DEF SyncService, SyncSource, Ends, docs
  <2> QED BY <1>2, <1>3, <1>4, <2>1
<1>6. CASE InsertOneSource(h)
  <2>1. r.at = "insertsource" /\ r.insert \in SUBSET Claims /\ InsertsKept(r)
    BY <1>6 DEF InsertOneSource, RequestsOK, RequestOK, RequestKept
  <2>2. PICK c \in r.insert : source' = [source EXCEPT ![c.doc] = [alias |-> c.alias, content |-> r.n]]
    BY <1>6 DEF InsertOneSource
  <2>3. c.doc \in Source /\ source[c.doc] = NoSource
    BY <2>1, <2>2 DEF Claims, InsertsKept
  <2>4. ASSUME NEW b \in Alias, Found(b) PROVE Found(b)'
    <3>1. PICK d \in Source : source[d].alias = b
      BY <2>4 DEF Found, FindByAlias
    <3>2. d # c.doc
      BY <2>3, <3>1, ServiceConfigAssumption DEF NoSource
    <3>3. source'[d] = source[d]
      BY <2>2, <3>1, <3>2 DEF SourcesOK
    <3> QED BY <3>1, <3>3 DEF Found, FindByAlias
  <2>5. Goes(h, Idle) /\ UNCHANGED svc
    BY <1>6 DEF InsertOneSource, Ends
  <2> QED BY <1>3, <1>4, <2>4, <2>5
<1>7. CASE SetSource(h)
  <2>1. UNCHANGED svc /\ r.at = "setsource"
    BY <1>7 DEF SetSource
  <2>2. r.doc \in Source
    BY <2>1 DEF RequestsOK, RequestOK
  <2>3. CASE source[r.doc].alias = None
    <3>1. Goes(h, Idle) /\ UNCHANGED source
      BY <1>7, <2>3 DEF SetSource, Ends
    <3> QED BY <1>2, <1>3, <1>4, <2>1, <3>1
  <2>4. CASE source[r.doc].alias # None
    <3>1. PICK q : Goes(h, q) /\ q.at = "syncsource"
      BY <1>7, <2>4 DEF SetSource
    <3>2. source' = [source EXCEPT ![r.doc] = [alias |-> r.alias, content |-> r.n]] /\ r.alias = source[r.doc].alias
      <4>1. /\ source' = [source EXCEPT ![r.doc] = [alias |-> r.alias, content |-> r.n]]
            /\ renamed' = (renamed \/ r.alias # source[r.doc].alias)
        BY <1>7, <2>4 DEF SetSource
      <4> QED BY <4>1
    <3>3. \A d \in Source : source'[d].alias = source[d].alias
      BY <2>2, <3>2 DEF SourcesOK
    <3>4. \A b : Found(b) => Found(b)'
      BY <3>3 DEF Found, FindByAlias
    <3> QED BY <1>3, <2>1, <3>1, <3>4
  <2> QED BY <2>3, <2>4
<1> QED BY <1>5, <1>6, <1>7

LEMMA InitKept == Init => Kept /\ IsFiniteSet(Live)
<1> SUFFICES ASSUME Init PROVE Kept /\ IsFiniteSet(Live)
  OBVIOUS
<1>1. PICK base \in BasePath : svc = [s \in Service |->
           IF s = First THEN [base |-> base, body |-> Initial, ogc |-> 0] ELSE NoService]
  BY DEF Init
<1>2. Live \subseteq {First} /\ \A s \in Live : svc[s].body = Initial
  BY <1>1 DEF Live, NoService
<1>3. \A a \in AliasesOf(Initial) : Found(a)
  <2>1. ASSUME NEW a \in AliasesOf(Initial) PROVE SourceOf[a] \in Source /\ source[SourceOf[a]].alias = a
    <3>1. SourceOf[a] \in Source /\ FirstSource(SourceOf[a]) = [alias |-> a, content |-> 0]
      BY FirstSources
    <3>2. source = [d \in Source |-> FirstSource(d)]
      BY DEF Init
    <3> QED BY <3>1, <3>2
  <2> QED BY <2>1 DEF Found, FindByAlias
<1>4. RefsBut(Idle)
  BY <1>2, <1>3 DEF RefsBut
<1>5. Kept
  BY <1>4, IdleKept, ServiceConfigAssumption DEF Kept, Init
<1>6. IsFiniteSet(Live)
  BY <1>2, FS_Singleton, FS_Subset
<1> QED BY <1>5, <1>6

LEMMA NextKept ==
    ASSUME Types, Kept, IsFiniteSet(Live), [Next]_vars
    PROVE  Kept'
<1> USE DEF Types
<1> SUFFICES ASSUME serial', ~renamed'
             PROVE  (\E h \in Handler : \E q \in {req[h]} :
                         (\A g \in Handler \ {h} : req[g] = Idle) /\ RequestKept(q) /\ RefsBut(q))'
  BY DEF Kept
<1>0. PICK h \in Handler : \E r : r = req[h] /\ (\A g \in Handler \ {h} : req[g] = Idle) /\ RequestKept(r) /\ RefsBut(r)
  <2>1. serial /\ ~renamed
    BY SerialBefore
  <2> QED BY <2>1 DEF Kept
<1>1. PICK r : r = req[h] /\ (\A g \in Handler \ {h} : req[g] = Idle) /\ RequestKept(r) /\ RefsBut(r)
  BY <1>0
<1>2. ASSUME NEW k \in Handler, NEW q, Goes(k, q), \A g \in Handler \ {k} : req[g] = Idle,
             RequestKept(q)', RefsBut(q)'
      PROVE  (\E g \in Handler : \E p \in {req[g]} :
                  (\A f \in Handler \ {g} : req[f] = Idle) /\ RequestKept(p) /\ RefsBut(p))'
  <2>1. req'[k] = q /\ \A g \in Handler \ {k} : req'[g] = Idle
    BY <1>2 DEF Goes, RequestsOK
  <2> QED BY <1>2, <2>1
<1>3. ASSUME NEW k \in Handler, Request(k)
      PROVE  (\E g \in Handler : \E q \in {req[g]} :
                  (\A f \in Handler \ {g} : req[f] = Idle) /\ RequestKept(q) /\ RefsBut(q))'
  <2>1. \A g \in Handler : req[g] = Idle
    BY <1>3, SerialBefore
  <2>2. RefsBut(Idle)
    BY <1>1, <2>1
  <2>3. PICK q : Goes(k, q) /\ RequestKept(q)' /\ RefsBut(q)'
    BY <1>3, <2>2, BeginKept
  <2> QED BY <1>2, <2>1, <2>3
<1>4. ASSUME NEW k \in Handler, Continue(k)
      PROVE  (\E g \in Handler : \E q \in {req[g]} :
                  (\A f \in Handler \ {g} : req[f] = Idle) /\ RequestKept(q) /\ RefsBut(q))'
  <2>1. k = h
    BY <1>1, <1>4, RequestRuns
  <2>2. ~RequestDies(h) /\ ~\E d \in Source : SourceLookupFails(h, d)
    BY DEF RequestDies, SourceLookupFails
  <2>3. \/ PrepareAgain(h) \/ UpdateInline(h) \/ ValidateAlias(h) \/ \E d \in Source : PrepareInline(h, d)
        \/ Prepared(h) \/ WriteService(h) \/ InsertSourceFails(h) \/ SourcesDone(h)
        \/ r.at = "sources" /\ \E c \in r.insert : InsertSource(h, c)
        \/ \E a \in Alias : CheckOrphan(h, a)
        \/ DropOrphan(h) \/ OrphansDone(h) \/ DeleteDocument(h)
        \/ SyncService(h) \/ InsertOneSource(h) \/ SetSource(h) \/ SyncSource(h)
    BY <1>1, <1>4, <2>1, <2>2 DEF Continue
  <2>4. \E q : Goes(h, q) /\ RequestKept(q)' /\ RefsBut(q)'
    BY <1>1, <2>3, PrepareKept, WriteKept, OrphansKept, SourceKept
  <2> QED BY <1>1, <1>2, <2>4
<1>5. CASE UNCHANGED vars
  <2>1. UNCHANGED <<svc, source, req>>
    BY <1>5 DEF vars, docs
  <2>2. RequestKept(r)' /\ RefsBut(r)'
    BY <1>1, <2>1, DocsKept
  <2> QED BY <1>1, <2>1, <2>2
<1> QED BY <1>3, <1>4, <1>5 DEF Next

\* For any services, sources, bodies and requests: as long as they come one at a time, no source gets
\* another alias and only inserts of sources fail, every alias that a service refers to has its source
\* whenever nothing is under way (GatewayServiceService.Create, Update and Delete, their rollback, and the
\* cleanups of orphaned sources).
THEOREM SourcesAreThere == Spec => []SerialRefs
<1>1. ASSUME Kept PROVE SerialRefs
  <2> SUFFICES ASSUME serial, ~renamed, Quiet, NEW s \in Live, NEW a \in AliasesOf(svc[s].body) PROVE Found(a)
    BY DEF SerialRefs, Found
  <2>1. RefsBut(Idle)
    BY <1>1 DEF Kept, Quiet
  <2> QED BY <2>1, IdleKept DEF RefsBut
<1>2. Init => Kept /\ IsFiniteSet(Live)
  BY InitKept
<1>3. Types /\ Kept /\ IsFiniteSet(Live) /\ [Next]_vars => Kept' /\ IsFiniteSet(Live)'
  BY NextKept, LiveGrows DEF IsFiniteSet
<1>4. Spec => []Kept
  BY <1>2, <1>3, TypesInvariant, PTL DEF Spec
<1> QED BY <1>1, <1>4, PTL

-----------------------------------------------------------------------------
(* The snapshot in Redis, while requests come one at a time: it has what   *)
(* MongoDB has, but for what the request at hand has yet to tell.          *)

Unique == \A d, e \in Source : source[d].alias = source[e].alias /\ source[d].alias # None => d = e
Shown(s, doc) == paths[s] # None /\ paths[s].base = doc.base /\ paths[s].body = doc.body

\* Nothing is there in the place of what will be inserted, and nothing by its alias.
InsertsNew(q) ==
    /\ \A c \in q.insert : source[c.doc] = NoSource /\ ~Found(c.alias)
    /\ \A c, e \in q.insert : c.alias = e.alias \/ c.doc = e.doc => c = e
\* A rollback goes back to what Redis was told last.
WritingTold(q) ==
    /\ IF q.new THEN paths[q.service] = None ELSE q.service \in Live /\ Shown(q.service, q.before)
    /\ q.at = "sources" => svc[q.service] = q.after
    /\ \A a \in q.updated : Found(a)
Told(q) ==
    /\ q.at \in {"prepare", "write", "sources"} => WritingTold(q)
    /\ q.at \in {"prepare", "write", "sources", "insertsource"} => InsertsNew(q)
    /\ q.at = "orphans" => q.service \in Live
    /\ q.at = "drop" => source[q.doc].alias = q.alias /\ (q.rest = Idle \/ q.rest.service \in Live)
    /\ q.at = "sync" => q.service \in Live /\ (q.doc # <<>> => q.doc = <<svc[q.service]>>)
    /\ q.at = "setsource" => source[q.doc].alias = q.alias \/ ~Found(q.alias)
    /\ q.at = "syncsource" => source[q.doc].alias # None

\* The entries that a request has still to write.
OwesPath(q, s) ==
    \/ q.at \in {"sources", "sync"} /\ q.service = s
    \/ q.at = "orphans" /\ q.then = "sync" /\ q.service = s
    \/ q.at = "drop" /\ q.rest # Idle /\ q.rest.then = "sync" /\ q.rest.service = s
PathsBut(q) == \A s \in Service : OwesPath(q, s) \/ IF s \in Live THEN Shown(s, svc[s]) ELSE paths[s] = None
RegistryBut(q) == \A a \in Alias :
    /\ Found(a) => registry[a] # None \/ (q.at = "syncsource" /\ source[q.doc].alias = a)
    /\ registry[a] # None => Found(a) \/ renamed
SnapshotBut(q) == Unique /\ Told(q) /\ PathsBut(q) /\ RegistryBut(q)

Follows == serial =>
    \E h \in Handler : \E q \in {req[h]} : (\A g \in Handler \ {h} : req[g] = Idle) /\ SnapshotBut(q)

LEMMA IdleTold == Told(Idle) /\ \A s : ~OwesPath(Idle, s)
BY DEF Told, OwesPath, Idle

\* A step that tells Redis nothing and changes no alias.
LEMMA CarriesOver ==
    ASSUME NEW r, NEW q, Unique, PathsBut(r), RegistryBut(r), r.at # "syncsource",
           UNCHANGED <<svc, paths, registry, renamed>>, \A d \in Source : source'[d].alias = source[d].alias,
           \A s \in Service : OwesPath(r, s) => OwesPath(q, s)
    PROVE  Unique' /\ PathsBut(q)' /\ RegistryBut(q)' /\ \A a : Found(a)' <=> Found(a)
<1>1. \A a : Found(a)' <=> Found(a)
  BY DEF Found, FindByAlias
<1>2. Unique'
  BY DEF Unique
<1>3. PathsBut(q)'
  BY DEF PathsBut, OwesPath, Live, Shown
<1>4. RegistryBut(q)'
  BY <1>1 DEF RegistryBut
<1> QED BY <1>1, <1>2, <1>3, <1>4

LEMMA ToldStays ==
    ASSUME NEW q, Told(q), UNCHANGED <<svc, source, paths>>
    PROVE  Told(q)'
BY DEF Told, WritingTold, InsertsNew, Shown, Live, Found, FindByAlias

LEMMA StaysSnapshot ==
    ASSUME NEW r, NEW q, Unique, PathsBut(r), RegistryBut(r), r.at # "syncsource", Told(q),
           UNCHANGED <<svc, source, paths, registry, renamed>>,
           \A s \in Service : OwesPath(r, s) => OwesPath(q, s)
    PROVE  SnapshotBut(q)'
BY CarriesOver, ToldStays DEF SnapshotBut

\* A write to Redis that did not fail.
LEMMA TellFacts ==
    ASSUME serial', NEW a, NEW n
    PROVE  /\ TellSource(a, n) => registry' = [registry EXCEPT ![a] = n] /\ UNCHANGED bounds
           /\ TellService(a, n) => paths' = [paths EXCEPT ![a] = n] /\ UNCHANGED bounds
BY DEF TellSource, TellService, Lost

LEMMA BeginTold ==
    ASSUME Types, SnapshotBut(Idle), serial', NEW h \in Handler, Request(h)
    PROVE  \E q : Goes(h, q) /\ SnapshotBut(q)'
<1> USE DEF Types
<1>1. ASSUME NEW q, Goes(h, q), Told(q), UNCHANGED <<svc, source, paths, registry, renamed>>
      PROVE  \E p : Goes(h, p) /\ SnapshotBut(p)'
  <2>1. Idle.at # "syncsource"
    BY DEF Idle
  <2> QED BY <1>1, <2>1, IdleTold, StaysSnapshot DEF SnapshotBut
<1>2. ASSUME NEW s \in Service, NEW base \in BasePath, NEW body \in Body,
             CreateService(h, s, base, body) \/ UpdateService(h, s, base, body)
      PROVE  \E q : Goes(h, q) /\ SnapshotBut(q)'
  <2>1. PICK q : q = Preparing(s, base, body)
    OBVIOUS
  <2>2. Goes(h, q) /\ UNCHANGED <<svc, source, paths, registry, renamed>> /\ (NewService(s) \/ s \in Live)
    BY <1>2, <2>1 DEF CreateService, UpdateService, Begins, docs, redis
  <2>3. /\ q.at = "prepare" /\ q.new = (svc[s] = NoService) /\ q.before = svc[s] /\ q.service = s
        /\ q.insert = {} /\ q.updated = {}
    BY <2>1 DEF Preparing
  <2>4. IF s \in Live THEN Shown(s, svc[s]) ELSE paths[s] = None
    BY IdleTold DEF SnapshotBut, PathsBut
  <2>5. IF q.new THEN s \notin Live ELSE s \in Live
    <3>1. svc[s] = NoService => s \notin Live
      BY DEF Live, NoService
    <3>2. svc[s] # NoService => s \in Live
      BY <2>2 DEF NewService
    <3> QED BY <2>3, <3>1, <3>2
  <2>6. WritingTold(q)
    BY <2>3, <2>4, <2>5 DEF WritingTold
  <2>7. Told(q)
    BY <2>3, <2>6 DEF Told, InsertsNew
  <2> QED BY <1>1, <2>2, <2>7
<1>3. ASSUME NEW s \in Service, NEW base \in BasePath, NEW body \in Body, BasePathLookupFails(h, s, base, body)
      PROVE  FALSE
  BY <1>3 DEF BasePathLookupFails
<1>4. ASSUME NEW s \in Service, DeleteService(h, s) PROVE \E q : Goes(h, q) /\ SnapshotBut(q)'
  <2>1. PICK q : q = [at |-> "orphans", service |-> s, others |-> 1, then |-> "delete", left |-> AliasesOf(svc[s].body)]
    OBVIOUS
  <2>2. Goes(h, q) /\ UNCHANGED <<svc, source, paths, registry, renamed>> /\ s \in Live
    BY <1>4, <2>1 DEF DeleteService, Begins, docs, redis
  <2>3. Told(q)
    BY <2>1, <2>2 DEF Told
  <2> QED BY <1>1, <2>2, <2>3
<1>5. ASSUME NEW d \in Source, NEW a \in Alias, CreateSource(h, d, a) PROVE \E q : Goes(h, q) /\ SnapshotBut(q)'
  <2>1. PICK q : q = [at |-> "insertsource", insert |-> {[doc |-> d, alias |-> a]}, n |-> started']
    OBVIOUS
  <2>2. /\ Goes(h, q) /\ UNCHANGED <<svc, source, paths, registry, renamed>>
        /\ source[d] = NoSource /\ FindByAlias(a) = {}
    BY <1>5, <2>1 DEF CreateSource, AliasIsFree, Begins, Unclaimed, docs, redis
  <2>3. Told(q)
    BY <2>1, <2>2 DEF Told, InsertsNew, Found
  <2> QED BY <1>1, <2>2, <2>3
<1>6. ASSUME NEW d \in Source, NEW a \in Alias, UpdateSource(h, d, a) PROVE \E q : Goes(h, q) /\ SnapshotBut(q)'
  <2>1. PICK q : q = [at |-> "setsource", doc |-> d, alias |-> a, n |-> started']
    OBVIOUS
  <2>2. /\ Goes(h, q) /\ UNCHANGED <<svc, source, paths, registry, renamed>>
        /\ source[d].alias = a \/ FindByAlias(a) = {}
    BY <1>6, <2>1 DEF UpdateSource, AliasIsFree, Begins, docs, redis
  <2>3. Told(q)
    BY <2>1, <2>2 DEF Told, Found
  <2> QED BY <1>1, <2>2, <2>3
<1>7. ASSUME NEW d \in Source, DeleteSource(h, d) PROVE \E q : Goes(h, q) /\ SnapshotBut(q)'
  <2>1. PICK q : q = [at |-> "drop", doc |-> d, alias |-> source[d].alias, rest |-> Idle]
    OBVIOUS
  <2>2. Goes(h, q) /\ UNCHANGED <<svc, source, paths, registry, renamed>>
    BY <1>7, <2>1 DEF DeleteSource, Begins, docs, redis
  <2>3. Told(q)
    BY <2>1 DEF Told
  <2> QED BY <1>1, <2>2, <2>3
<1> QED BY <1>2, <1>3, <1>4, <1>5, <1>6, <1>7, RequestBegins

\* What a request finds or makes up while it prepares.
LEMMA PrepareTold ==
    ASSUME Types, ClaimsDone, NEW h \in Handler, NEW r, r = req[h], SnapshotBut(r),
           PrepareAgain(h) \/ UpdateInline(h) \/ ValidateAlias(h) \/ \E d \in Source : PrepareInline(h, d)
    PROVE  \E q : Goes(h, q) /\ SnapshotBut(q)'
<1> USE DEF Types
<1> DEFINE R == Rest(r)
           a == Head(r.left).alias
<1>1. r.at = "prepare" /\ r \in Writings /\ r.left # <<>>
  BY WritingFacts DEF PrepareAgain, UpdateInline, ValidateAlias, PrepareInline, MakeInline, Preparation
<1>2. /\ R.at = r.at /\ R.new = r.new /\ R.before = r.before /\ R.service = r.service /\ R.insert = r.insert
      /\ R.updated = r.updated /\ R.done = r.done
      /\ {"invalid", "insert", "done", "updated"} \subseteq DOMAIN R
  BY <1>1 DEF Rest, Writings
<1>3. WritingTold(r) /\ InsertsNew(r) /\ Unique /\ PathsBut(r) /\ RegistryBut(r)
  BY <1>1 DEF SnapshotBut, Told
<1>4. r.insert \in SUBSET Claims /\ \A c \in r.insert : c.alias \in r.done
  BY <1>1 DEF Writings, ClaimsDone
<1>5. ASSUME NEW q, Goes(h, q), UNCHANGED <<svc, paths, registry, renamed>>,
             \A d \in Source : source'[d].alias = source[d].alias,
             q.at = r.at, q.new = r.new, q.before = r.before, q.service = r.service,
             InsertsNew(q)', \A b \in q.updated : b \in r.updated \/ Found(b)
      PROVE  \E p : Goes(h, p) /\ SnapshotBut(p)'
  <2>1. Unique' /\ PathsBut(q)' /\ RegistryBut(q)' /\ \A b : Found(b)' <=> Found(b)
    <3>1. \A s \in Service : OwesPath(r, s) => OwesPath(q, s)
      BY <1>1 DEF OwesPath
    <3>2. r.at # "syncsource"
      BY <1>1
    <3> QED BY <1>3, <1>5, <3>1, <3>2, CarriesOver
  <2>2. WritingTold(q)'
    BY <1>1, <1>3, <1>5, <2>1 DEF WritingTold, Shown, Live
  <2>3. Told(q)'
    BY <1>1, <1>5, <2>2 DEF Told
  <2> QED BY <1>5, <2>1, <2>3 DEF SnapshotBut
<1>6. CASE PrepareAgain(h)
  <2>1. Goes(h, R) /\ UNCHANGED <<svc, source, paths, registry, renamed>>
    BY <1>6 DEF PrepareAgain, docs, redis, bounds
  <2>2. InsertsNew(R)'
    BY <1>2, <1>3, <2>1 DEF InsertsNew, Found, FindByAlias
  <2>3. PICK q : q = R
    OBVIOUS
  <2> HIDE DEF R, a
  <2> QED BY <1>2, <1>5, <2>1, <2>2, <2>3
<1>7. CASE UpdateInline(h)
  <2>1. PICK q : q = [R EXCEPT !.updated = @ \cup {a}, !.done = @ \cup {a}]
    OBVIOUS
  <2>2. Goes(h, q) /\ UNCHANGED <<svc, paths, registry, renamed>>
    BY <1>7, <2>1 DEF UpdateInline, redis, bounds
  <2>3. PICK d \in FindByAlias(a) : source' = [source EXCEPT ![d].content = r.n]
    BY <1>7 DEF UpdateInline
  <2>4. Found(a) /\ d \in Source /\ source[d].alias = a
    BY <2>3 DEF FindByAlias, Found
  <2>5. a # None
    <3>1. Head(r.left) \in ResourcePaths
      BY <1>1, TailFacts DEF Writings
    <3>2. Head(r.left).inline
      BY <1>7 DEF UpdateInline
    <3> QED BY <3>1, <3>2, BodyFacts, ServiceConfigAssumption
  <2>6. \A e \in Source : source'[e].alias = source[e].alias
    <3>1. \A e \in Source : "alias" \in DOMAIN source[e]
      BY DEF SourcesOK, NoSource
    <3> QED BY <2>3, <3>1 DEF SourcesOK
  <2>7. /\ q.at = R.at /\ q.new = R.new /\ q.before = R.before /\ q.service = R.service
        /\ q.insert = R.insert /\ q.updated = R.updated \cup {a}
    <3> HIDE DEF R, a
    <3> QED BY <1>2, <2>1
  <2>8. InsertsNew(q)'
    <3>1. \A c \in r.insert : c.doc \in Source /\ c.doc # d
      BY <1>3, <1>4, <2>4, <2>5 DEF InsertsNew, NoSource, Claims
    <3>2. \A c \in r.insert : source'[c.doc] = NoSource /\ ~Found(c.alias)'
      <4>1. \A e \in Source : e # d => source'[e] = source[e]
        BY <2>3 DEF SourcesOK
      <4>2. \A b : Found(b)' <=> Found(b)
        BY <2>6 DEF Found, FindByAlias
      <4> QED BY <1>3, <3>1, <4>1, <4>2 DEF InsertsNew
    <3> QED BY <1>2, <1>3, <2>7, <3>2 DEF InsertsNew
  <2> HIDE DEF R, a
  <2> QED BY <1>2, <1>5, <2>2, <2>4, <2>6, <2>7, <2>8
<1>8. CASE ValidateAlias(h)
  <2>1. PICK q : q = [R EXCEPT !.invalid = @ \/ (a # NoAlias /\ FindByAlias(a) = {})]
    OBVIOUS
  <2>2. Goes(h, q) /\ UNCHANGED <<svc, source, paths, registry, renamed>>
    BY <1>8, <2>1 DEF ValidateAlias, docs, redis, bounds
  <2>3. /\ q.at = R.at /\ q.new = R.new /\ q.before = R.before /\ q.service = R.service
        /\ q.insert = R.insert /\ q.updated = R.updated
    <3> HIDE DEF R, a
    <3> QED BY <1>2, <2>1
  <2>4. InsertsNew(q)'
    BY <1>2, <1>3, <2>2, <2>3 DEF InsertsNew, Found, FindByAlias
  <2> HIDE DEF R, a
  <2> QED BY <1>2, <1>5, <2>2, <2>3, <2>4
<1>9. ASSUME NEW d \in Source, PrepareInline(h, d) PROVE \E q : Goes(h, q) /\ SnapshotBut(q)'
  <2> DEFINE c == [doc |-> d, alias |-> a]
  <2>1. PICK q : q = [R EXCEPT !.insert = @ \cup {c}, !.done = @ \cup {a}]
    OBVIOUS
  <2>2. /\ Goes(h, q) /\ UNCHANGED <<svc, source, paths, registry, renamed>>
        /\ Unclaimed(d) /\ a \notin r.done /\ ~Found(a)
    BY <1>9, <2>1 DEF PrepareInline, MakeInline, docs, redis, bounds, Found
  <2>3. /\ q.at = R.at /\ q.new = R.new /\ q.before = R.before /\ q.service = R.service
        /\ q.insert = R.insert \cup {c} /\ q.updated = R.updated
    <3> HIDE DEF R, a, c
    <3> QED BY <1>2, <2>1
  <2>4. source[d] = NoSource /\ \A e \in r.insert : e.doc # d
    <3>1. Claimed(h) = r.insert
      BY <1>1 DEF Claimed
    <3> QED BY <2>2, <3>1 DEF Unclaimed
  <2>5. c.doc = d /\ c.alias = a
    OBVIOUS
  <2>6. InsertsNew(q)
    <3>1. \A e \in r.insert : e.alias # a
      BY <1>4, <2>2
    <3> HIDE DEF c, a, R
    <3> QED BY <1>2, <1>3, <2>2, <2>3, <2>4, <2>5, <3>1 DEF InsertsNew
  <2>7. InsertsNew(q)'
    BY <2>2, <2>6 DEF InsertsNew, Found, FindByAlias
  <2> HIDE DEF R, a
  <2> QED BY <1>2, <1>5, <2>2, <2>3, <2>7
<1> QED BY <1>6, <1>7, <1>8, <1>9

\* A source is inserted, and Redis told of it.
LEMMA SourceInserted ==
    ASSUME Types, serial', NEW c \in Claims, NEW n \in Contents, source[c.doc] = NoSource, ~Found(c.alias),
           source' = [source EXCEPT ![c.doc] = [alias |-> c.alias, content |-> n]], TellSource(c.alias, n),
           NEW r, r.at # "syncsource", Unique, RegistryBut(r), NEW q
    PROVE  /\ Unique' /\ RegistryBut(q)' /\ UNCHANGED bounds
           /\ \A b \in Alias : Found(b)' <=> Found(b) \/ b = c.alias
           /\ \A e \in Source : e # c.doc => source'[e] = source[e]
<1> USE DEF Types
<1>1. registry' = [registry EXCEPT ![c.alias] = n] /\ UNCHANGED bounds
  BY TellFacts
<1>2. c.doc \in Source /\ c.alias \in Alias /\ c.alias # None /\ n # None
  BY ServiceConfigAssumption DEF Claims, Contents
<1>3. \A e \in Source : source'[e] = IF e = c.doc THEN [alias |-> c.alias, content |-> n] ELSE source[e]
  BY <1>2 DEF SourcesOK
<1>4. \A e \in Source : source'[e].alias = IF e = c.doc THEN c.alias ELSE source[e].alias
  BY <1>3
<1>5. \A e \in Source : source[e].alias # c.alias
  BY DEF Found, FindByAlias
<1>6. \A b \in Alias : Found(b)' <=> Found(b) \/ b = c.alias
  <2>1. source[c.doc].alias = None /\ None \notin Alias
    BY ServiceConfigAssumption DEF NoSource
  <2> QED BY <1>2, <1>4, <2>1 DEF Found, FindByAlias
<1>7. Unique'
  <2>1. \A d, e \in Source : source'[d].alias = source'[e].alias /\ source'[d].alias # None => d = e
    BY <1>4, <1>5 DEF Unique
  <2> QED BY <2>1 DEF Unique
<1>8. RegistryBut(q)'
  <2>1. \A b \in Alias : registry'[b] = IF b = c.alias THEN n ELSE registry[b]
    BY <1>1 DEF RegistryOK
  <2>2. UNCHANGED renamed
    BY <1>1 DEF bounds
  <2>3. \A b \in Alias : (Found(b)' => registry'[b] # None) /\ (registry'[b] # None => Found(b)' \/ renamed')
    BY <1>2, <1>6, <2>1, <2>2 DEF RegistryBut
  <2> QED BY <2>3 DEF RegistryBut, Found, FindByAlias
<1> QED BY <1>1, <1>3, <1>6, <1>7, <1>8

\* What a request writes.
LEMMA WriteTold ==
    ASSUME Types, serial', NEW h \in Handler, NEW r, r = req[h], SnapshotBut(r),
           \/ Prepared(h) \/ WriteService(h) \/ InsertSourceFails(h) \/ SourcesDone(h)
           \/ r.at = "sources" /\ \E c \in r.insert : InsertSource(h, c)
    PROVE  \E q : Goes(h, q) /\ SnapshotBut(q)'
<1> USE DEF Types
<1>1. r.at \in {"prepare", "write", "sources"}
  BY DEF Prepared, WriteService, InsertSourceFails, SourcesDone
<1>2. /\ r \in Writings /\ r.service \in Service /\ r.new \in BOOLEAN /\ r.after \in Documents
      /\ ~r.new => r.before \in Documents
      /\ r.insert \in SUBSET Claims /\ r.updated \in SUBSET Alias /\ r.n \in Contents
  BY <1>1, WritingFacts DEF Writings
<1>3. WritingTold(r) /\ InsertsNew(r) /\ Unique /\ PathsBut(r) /\ RegistryBut(r) /\ r.at # "syncsource"
  BY <1>1 DEF SnapshotBut, Told
<1>4. \A d \in Documents : d # None /\ d.base # None
  BY ServiceConfigAssumption DEF Documents, Contents
<1>5. CASE Prepared(h)
  <2>1. r.at = "prepare" /\ UNCHANGED <<svc, source, paths, registry, renamed>> /\ \A s : ~OwesPath(r, s)
    BY <1>5 DEF Prepared, OwesPath, docs, redis, bounds
  <2>2. CASE Ends(h)
    <3>1. SnapshotBut(Idle)'
      BY <1>3, <2>1, IdleTold, StaysSnapshot
    <3> QED BY <2>2, <3>1 DEF Ends
  <2>3. CASE ~Ends(h)
    <3>1. PICK q : q = [r EXCEPT !.at = "write"]
      OBVIOUS
    <3>2. Goes(h, q)
      BY <1>5, <2>3, <3>1 DEF Prepared
    <3>3. /\ q.at = "write" /\ q.new = r.new /\ q.before = r.before /\ q.service = r.service
          /\ q.insert = r.insert /\ q.updated = r.updated
      BY <1>2, <3>1 DEF Writings
    <3>4. WritingTold(q) /\ InsertsNew(q)
      BY <1>3, <2>1, <3>3 DEF WritingTold, InsertsNew
    <3>5. Told(q)
      BY <3>3, <3>4 DEF Told
    <3>6. SnapshotBut(q)'
      BY <1>3, <2>1, <3>5, StaysSnapshot
    <3> QED BY <3>2, <3>6
  <2> QED BY <2>2, <2>3
<1>6. CASE WriteService(h)
  <2>1. PICK q : q = [r EXCEPT !.at = "sources"]
    OBVIOUS
  <2>2. Goes(h, q) /\ UNCHANGED <<source, paths, registry, renamed>> /\ r.at = "write"
    BY <1>6, <2>1 DEF WriteService, redis, bounds
  <2>3. /\ q.at = "sources" /\ q.new = r.new /\ q.before = r.before /\ q.after = r.after
        /\ q.insert = r.insert /\ q.updated = r.updated /\ q.service = r.service
    BY <1>2, <2>1 DEF Writings
  <2>4. svc' = [svc EXCEPT ![r.service] = r.after]
    BY <1>2, <1>3, <1>6 DEF WriteService, WritingTold
  <2>5. \A b : Found(b)' <=> Found(b)
    BY <2>2 DEF Found, FindByAlias
  <2>6. svc'[r.service] = r.after /\ \A s \in Service : s # r.service => svc'[s] = svc[s]
    BY <1>2, <2>4 DEF ServicesOK
  <2>7. WritingTold(q)'
    <3>1. ~q.new => svc'[q.service].base # None
      BY <1>2, <1>4, <2>3, <2>6
    <3> QED BY <1>2, <1>3, <2>2, <2>3, <2>5, <2>6, <3>1 DEF WritingTold, Live, Shown
  <2>8. InsertsNew(q)'
    BY <1>3, <2>2, <2>3, <2>5 DEF InsertsNew
  <2>9. Told(q)'
    BY <2>3, <2>7, <2>8 DEF Told
  <2>10. PathsBut(q)'
    <3>1. \A s \in Service : ~OwesPath(r, s)
      BY <2>2 DEF OwesPath
    <3> QED BY <1>3, <2>2, <2>3, <2>6, <3>1 DEF PathsBut, OwesPath, Live, Shown
  <2>11. Unique' /\ RegistryBut(q)'
    BY <1>3, <2>2, <2>5 DEF Unique, RegistryBut
  <2> QED BY <2>2, <2>9, <2>10, <2>11 DEF SnapshotBut
<1>7. CASE InsertSourceFails(h)
  <2>1. r.at = "sources" /\ Ends(h) /\ UNCHANGED <<source, paths, registry, renamed>> /\ svc' = RolledBack(r)
    BY <1>7 DEF InsertSourceFails, redis
  <2>2. ASSUME NEW s \in Service
        PROVE  IF svc'[s].base # None THEN Shown(s, svc'[s]) ELSE paths[s] = None
    <3>1. CASE s # r.service
      <4>1. svc'[s] = svc[s]
        BY <1>2, <2>1, <3>1 DEF RolledBack, ServicesOK
      <4>2. ~OwesPath(r, s)
        BY <2>1, <3>1 DEF OwesPath
      <4> QED BY <1>3, <4>1, <4>2 DEF PathsBut, Live
    <3>2. CASE s = r.service /\ r.new
      <4>1. svc'[s] = Deleted /\ paths[s] = None
        BY <1>2, <1>3, <2>1, <3>2 DEF RolledBack, ServicesOK, WritingTold
      <4> QED BY <4>1 DEF Deleted
    <3>3. CASE s = r.service /\ ~r.new
      <4> DEFINE doc == [r.before EXCEPT !.ogc = svc[s].ogc]
      <4>1. s \in Live /\ Shown(s, r.before)
        BY <1>3, <3>3 DEF WritingTold
      <4>2. svc'[s] = doc
        BY <2>1, <3>3, <4>1 DEF RolledBack, ServicesOK
      <4>3. doc.base = r.before.base /\ doc.body = r.before.body /\ r.before.base # None
        BY <1>2, <1>4, <3>3 DEF Documents
      <4> QED BY <4>1, <4>2, <4>3 DEF Shown
    <3> QED BY <1>2, <3>1, <3>2, <3>3
  <2>3. PathsBut(Idle)'
    BY <2>1, <2>2 DEF PathsBut, Live, Shown
  <2>4. Unique' /\ RegistryBut(Idle)'
    BY <1>3, <2>1 DEF Unique, RegistryBut, Found, FindByAlias
  <2>5. Told(Idle)'
    BY DEF Told, Idle
  <2> QED BY <2>1, <2>3, <2>4, <2>5 DEF SnapshotBut, Ends
<1>8. CASE SourcesDone(h)
  <2>1. UNCHANGED <<svc, source, paths, renamed>> /\ r.at = "sources"
    BY <1>8 DEF SourcesDone, docs, bounds
  <2>2. svc[r.service] = r.after /\ r.service \in Live
    <3>1. svc[r.service] = r.after
      BY <1>3, <2>1 DEF WritingTold
    <3> QED BY <1>2, <1>4, <3>1 DEF Live
  <2>3. PICK q : /\ Goes(h, q) /\ q.service = r.service
                 /\ \/ q.at = "sync" /\ q.doc = <<r.after>> /\ UNCHANGED registry
                    \/ /\ q.at = "orphans" /\ q.then = "sync"
                       /\ registry' = [a \in Alias |-> IF a \in r.updated THEN r.n ELSE registry[a]]
    <3>1. CASE r.new
      BY <1>8, <3>1 DEF SourcesDone
    <3>2. CASE ~r.new
      BY <1>8, <3>2 DEF SourcesDone
    <3> QED BY <1>2, <3>1, <3>2
  <2>4. Told(q)
    BY <2>2, <2>3 DEF Told
  <2>5. Told(q)'
    BY <2>1, <2>4, ToldStays
  <2>6. PathsBut(q)'
    BY <1>3, <2>1, <2>3 DEF PathsBut, OwesPath, Live, Shown
  <2>7. RegistryBut(q)'
    <3>1. r.n # None /\ \A b \in r.updated : Found(b)
      BY <1>2, <1>3, ServiceConfigAssumption DEF WritingTold, Contents
    <3>2. \A b \in Alias : registry'[b] = registry[b] \/ (b \in r.updated /\ registry'[b] = r.n)
      BY <2>3
    <3>3. \A b \in Alias : (Found(b) => registry'[b] # None) /\ (registry'[b] # None => Found(b) \/ renamed)
      BY <1>3, <3>1, <3>2 DEF RegistryBut
    <3> QED BY <2>1, <3>3 DEF RegistryBut, Found, FindByAlias
  <2>8. Unique'
    BY <1>3, <2>1 DEF Unique
  <2> QED BY <2>3, <2>5, <2>6, <2>7, <2>8 DEF SnapshotBut
<1>9. ASSUME r.at = "sources", NEW c \in r.insert, InsertSource(h, c) PROVE \E q : Goes(h, q) /\ SnapshotBut(q)'
  <2>1. PICK q : q = [r EXCEPT !.insert = @ \ {c}]
    OBVIOUS
  <2>2. /\ Goes(h, q) /\ UNCHANGED <<svc, paths>> /\ TellSource(c.alias, r.n)
        /\ source' = [source EXCEPT ![c.doc] = [alias |-> c.alias, content |-> r.n]]
    BY <1>9, <2>1 DEF InsertSource
  <2>3. /\ q.at = "sources" /\ q.new = r.new /\ q.before = r.before /\ q.after = r.after
        /\ q.insert = r.insert \ {c} /\ q.updated = r.updated /\ q.service = r.service
    BY <1>2, <1>9, <2>1 DEF Writings
  <2>4. c \in Claims /\ source[c.doc] = NoSource /\ ~Found(c.alias)
    BY <1>2, <1>3, <1>9 DEF InsertsNew
  <2>5. /\ Unique' /\ RegistryBut(q)' /\ UNCHANGED bounds
        /\ \A b \in Alias : Found(b)' <=> Found(b) \/ b = c.alias
        /\ \A e \in Source : e # c.doc => source'[e] = source[e]
    BY <1>2, <1>3, <2>2, <2>4, SourceInserted
  <2>6. InsertsNew(q)'
    <3>1. \A e \in q.insert : e.doc \in Source /\ e.alias \in Alias /\ e.doc # c.doc /\ e.alias # c.alias
      BY <1>2, <1>3, <2>3 DEF InsertsNew, Claims
    <3>2. \A e \in q.insert : source'[e.doc] = NoSource /\ ~Found(e.alias)'
      BY <1>3, <2>3, <2>5, <3>1 DEF InsertsNew
    <3> QED BY <1>3, <2>3, <3>2 DEF InsertsNew
  <2>7. WritingTold(q)'
    BY <1>2, <1>3, <1>9, <2>2, <2>3, <2>5 DEF WritingTold, Live, Shown
  <2>8. Told(q)'
    BY <2>3, <2>6, <2>7 DEF Told
  <2>9. PathsBut(q)'
    BY <1>3, <1>9, <2>2, <2>3 DEF PathsBut, OwesPath, Live, Shown
  <2> QED BY <2>2, <2>5, <2>8, <2>9 DEF SnapshotBut
<1> QED BY <1>5, <1>6, <1>7, <1>8, <1>9

\* What a request cleans up.
LEMMA OrphansTold ==
    ASSUME Types, serial', NEW h \in Handler, NEW r, r = req[h], SnapshotBut(r),
           (\E a \in Alias : CheckOrphan(h, a)) \/ DropOrphan(h) \/ OrphansDone(h) \/ DeleteDocument(h)
    PROVE  \E q : Goes(h, q) /\ SnapshotBut(q)'
<1> USE DEF Types
<1>1. Unique /\ Told(r) /\ PathsBut(r) /\ RegistryBut(r) /\ r.at # "syncsource"
  BY DEF SnapshotBut, CheckOrphan, DropOrphan, OrphansDone, DeleteDocument
<1>2. ASSUME NEW a \in Alias, CheckOrphan(h, a) PROVE \E q : Goes(h, q) /\ SnapshotBut(q)'
  <2>1. r.at = "orphans" /\ UNCHANGED <<svc, source, paths, registry, renamed>>
    BY <1>2 DEF CheckOrphan, docs, redis, bounds
  <2>2. r \in Cleanups /\ r.service \in Live
    BY <1>1, <2>1 DEF RequestsOK, RequestOK, Told
  <2>3. PICK rest : rest = [r EXCEPT !.left = @ \ {a}]
    OBVIOUS
  <2>4. rest.at = "orphans" /\ rest.service = r.service /\ rest.then = r.then
    BY <2>1, <2>2, <2>3 DEF Cleanups
  <2>5. CASE Goes(h, rest)
    <3>1. Told(rest)
      BY <2>2, <2>4 DEF Told
    <3>2. \A s \in Service : OwesPath(r, s) => OwesPath(rest, s)
      BY <2>1, <2>4 DEF OwesPath
    <3>3. SnapshotBut(rest)'
      BY <1>1, <2>1, <3>1, <3>2, StaysSnapshot
    <3> QED BY <2>5, <3>3
  <2>6. CASE \E d \in FindByAlias(a) : Goes(h, [at |-> "drop", doc |-> d, alias |-> a, rest |-> rest])
    <3>1. PICK d \in FindByAlias(a) : Goes(h, [at |-> "drop", doc |-> d, alias |-> a, rest |-> rest])
      BY <2>6
    <3>2. PICK q : q = [at |-> "drop", doc |-> d, alias |-> a, rest |-> rest]
      OBVIOUS
    <3>3. rest # Idle
      BY <2>4 DEF Idle
    <3>4. Told(q)
      BY <2>2, <2>4, <3>1, <3>2 DEF Told, FindByAlias
    <3>5. \A s \in Service : OwesPath(r, s) => OwesPath(q, s)
      BY <2>1, <2>4, <3>2, <3>3 DEF OwesPath
    <3>6. SnapshotBut(q)'
      BY <1>1, <2>1, <3>4, <3>5, StaysSnapshot
    <3> QED BY <3>1, <3>2, <3>6
  <2> QED BY <1>2, <2>3, <2>5, <2>6 DEF CheckOrphan
<1>3. CASE DropOrphan(h)
  <2>1. /\ r.at = "drop" /\ Goes(h, r.rest) /\ UNCHANGED <<svc, paths>>
        /\ source' = [source EXCEPT ![r.doc] = [alias |-> None, content |-> -1]]
    BY <1>3 DEF DropOrphan
  <2>2. registry' = [registry EXCEPT ![r.alias] = None] /\ UNCHANGED renamed
    BY <1>3, TellFacts DEF DropOrphan, bounds
  <2>3. /\ r.doc \in Source /\ r.alias \in Alias /\ r.alias # None /\ source[r.doc].alias = r.alias
        /\ r.rest = Idle \/ (r.rest.at = "orphans" /\ r.rest.service \in Live)
    BY <1>1, <2>1, ServiceConfigAssumption DEF RequestsOK, RequestOK, Told, Cleanups
  <2>4. PICK q : q = r.rest
    OBVIOUS
  <2>5. Told(q)'
    <3>1. Live' = Live
      BY <2>1 DEF Live
    <3> QED BY <2>3, <2>4, <3>1 DEF Told, Idle
  <2>6. PathsBut(q)'
    <3>1. \A s : OwesPath(r, s) => OwesPath(q, s)
      BY <2>1, <2>3, <2>4 DEF OwesPath
    <3> QED BY <1>1, <2>1, <3>1 DEF PathsBut, OwesPath, Live, Shown
  <2>7. \A e \in Source : source'[e].alias = IF e = r.doc THEN None ELSE source[e].alias
    BY <2>1, <2>3 DEF SourcesOK
  <2>8. Unique'
    <3>1. \A d, e \in Source : source'[d].alias = source'[e].alias /\ source'[d].alias # None => d = e
      BY <1>1, <2>7 DEF Unique
    <3> QED BY <3>1 DEF Unique
  <2>9. RegistryBut(q)'
    <3>1. \A b \in Alias : Found(b)' <=> Found(b) /\ b # r.alias
      BY <1>1, <2>3, <2>7, ServiceConfigAssumption DEF Unique, Found, FindByAlias
    <3>2. \A b \in Alias : registry'[b] = IF b = r.alias THEN None ELSE registry[b]
      BY <2>2 DEF RegistryOK
    <3>3. \A b \in Alias : (Found(b)' => registry'[b] # None) /\ (registry'[b] # None => Found(b)' \/ renamed')
      BY <1>1, <2>2, <3>1, <3>2 DEF RegistryBut
    <3> QED BY <3>3 DEF RegistryBut, Found, FindByAlias
  <2> QED BY <2>1, <2>4, <2>5, <2>6, <2>8, <2>9 DEF SnapshotBut
<1>4. CASE OrphansDone(h)
  <2>1. r.at = "orphans" /\ r.service \in Live /\ UNCHANGED <<svc, source, paths, registry, renamed>>
    BY <1>1, <1>4 DEF OrphansDone, Told, docs, redis, bounds
  <2>2. PICK q : /\ Goes(h, q) /\ q.service = r.service
                 /\ \/ r.then = "sync" /\ q.at = "sync" /\ q.doc = <<>>
                    \/ r.then # "sync" /\ q.at = "delete"
    <3>1. CASE r.then = "sync"
      BY <1>4, <3>1 DEF OrphansDone
    <3>2. CASE r.then # "sync"
      BY <1>4, <3>2 DEF OrphansDone
    <3> QED BY <3>1, <3>2
  <2>3. Told(q)
    BY <2>1, <2>2 DEF Told
  <2>4. \A s \in Service : OwesPath(r, s) => OwesPath(q, s)
    BY <2>1, <2>2 DEF OwesPath
  <2>5. SnapshotBut(q)'
    BY <1>1, <2>1, <2>3, <2>4, StaysSnapshot
  <2> QED BY <2>2, <2>5
<1>5. CASE DeleteDocument(h)
  <2>1. r.at = "delete" /\ Ends(h) /\ UNCHANGED <<source, registry>> /\ svc' = [svc EXCEPT ![r.service] = Deleted]
    BY <1>5 DEF DeleteDocument
  <2>2. paths' = [paths EXCEPT ![r.service] = None] /\ UNCHANGED renamed
    BY <1>5, TellFacts DEF DeleteDocument, bounds
  <2>3. r.service \in Service /\ \A s : ~OwesPath(r, s)
    BY <2>1 DEF RequestsOK, RequestOK, OwesPath
  <2>4. ASSUME NEW s \in Service
        PROVE  IF svc'[s].base # None
               THEN paths'[s] # None /\ paths'[s].base = svc'[s].base /\ paths'[s].body = svc'[s].body
               ELSE paths'[s] = None
    <3>1. CASE s = r.service
      BY <2>1, <2>2, <2>3, <3>1 DEF ServicesOK, PathsOK, Deleted
    <3>2. CASE s # r.service
      <4>1. svc'[s] = svc[s] /\ paths'[s] = paths[s]
        BY <2>1, <2>2, <3>2 DEF ServicesOK, PathsOK
      <4> QED BY <1>1, <2>3, <4>1 DEF PathsBut, Live, Shown
    <3> QED BY <3>1, <3>2
  <2>5. PathsBut(Idle)'
    BY <2>4 DEF PathsBut, Live, Shown
  <2>6. Unique' /\ RegistryBut(Idle)'
    BY <1>1, <2>1, <2>2 DEF Unique, RegistryBut, Found, FindByAlias
  <2>7. Told(Idle)'
    BY DEF Told, Idle
  <2> QED BY <2>1, <2>5, <2>6, <2>7 DEF SnapshotBut, Ends
<1> QED BY <1>2, <1>3, <1>4, <1>5

\* A request about one source, or what remains to be written to Redis.
LEMMA SourceTold ==
    ASSUME Types, serial', NEW h \in Handler, NEW r, r = req[h], SnapshotBut(r),
           SyncService(h) \/ InsertOneSource(h) \/ SetSource(h) \/ SyncSource(h)
    PROVE  \E q : Goes(h, q) /\ SnapshotBut(q)'
<1> USE DEF Types
<1>1. Unique /\ Told(r) /\ PathsBut(r) /\ RegistryBut(r)
  BY DEF SnapshotBut
<1>2. Told(Idle)' /\ \A s : ~OwesPath(Idle, s)
  BY IdleTold DEF Told, Idle
<1>3. CASE SyncService(h)
  <2>1. r.at = "sync" /\ Ends(h) /\ UNCHANGED <<svc, source, registry, renamed>>
    BY <1>3 DEF SyncService, docs, bounds
  <2>2. r.service \in Live /\ (r.doc # <<>> => r.doc = <<svc[r.service]>>)
    BY <1>1, <2>1 DEF Told
  <2>3. paths' = [paths EXCEPT ![r.service] = svc[r.service]]
    <3>1. CASE r.doc = <<>>
      BY <1>3, <2>2, <3>1 DEF SyncService
    <3>2. CASE r.doc # <<>>
      <4>1. r.doc[1] = svc[r.service]
        BY <2>2, <3>2
      <4> QED BY <1>3, <3>2, <4>1 DEF SyncService
    <3> QED BY <3>1, <3>2
  <2>4. svc[r.service] # None
    BY <2>2, ServiceConfigAssumption DEF ServicesOK, Live, NoService, Deleted, Documents, Contents
  <2>5. PathsBut(Idle)'
    <3>1. \A s \in Service : paths'[s] = IF s = r.service THEN svc[s] ELSE paths[s]
      BY <2>3 DEF PathsOK
    <3>2. \A s \in Service : s # r.service => ~OwesPath(r, s)
      BY <2>1 DEF OwesPath
    <3> QED BY <1>1, <2>1, <2>2, <2>4, <3>1, <3>2 DEF PathsBut, Live, Shown
  <2>6. Unique' /\ RegistryBut(Idle)'
    BY <1>1, <2>1 DEF Unique, RegistryBut, Found, FindByAlias
  <2> QED BY <1>2, <2>1, <2>5, <2>6 DEF SnapshotBut, Ends
<1>4. CASE InsertOneSource(h)
  <2>1. r.at = "insertsource" /\ r.insert \in SUBSET Claims /\ r.n \in Contents /\ InsertsNew(r)
    BY <1>1, <1>4 DEF InsertOneSource, RequestsOK, RequestOK, Told
  <2>2. PICK c \in r.insert : /\ source' = [source EXCEPT ![c.doc] = [alias |-> c.alias, content |-> r.n]]
                              /\ TellSource(c.alias, r.n)
    BY <1>4 DEF InsertOneSource
  <2>3. Ends(h) /\ UNCHANGED <<svc, paths>>
    BY <1>4 DEF InsertOneSource
  <2>4. c \in Claims /\ source[c.doc] = NoSource /\ ~Found(c.alias) /\ r.at # "syncsource"
    BY <2>1, <2>2 DEF InsertsNew
  <2>5. Unique' /\ RegistryBut(Idle)'
    BY <1>1, <2>1, <2>2, <2>4, SourceInserted
  <2>6. PathsBut(Idle)'
    <3>1. \A s : ~OwesPath(r, s)
      BY <2>1 DEF OwesPath
    <3> QED BY <1>1, <2>3, <3>1 DEF PathsBut, Live, Shown
  <2> QED BY <1>2, <2>3, <2>5, <2>6 DEF SnapshotBut, Ends
<1>5. CASE SetSource(h)
  <2>1. r.at = "setsource" /\ UNCHANGED <<svc, paths, registry>> /\ \A s : ~OwesPath(r, s)
    BY <1>5 DEF SetSource, redis, OwesPath
  <2>2. r.doc \in Source /\ r.alias \in Alias /\ (source[r.doc].alias = r.alias \/ ~Found(r.alias))
    BY <1>1, <2>1 DEF RequestsOK, RequestOK, Told
  <2>3. CASE source[r.doc].alias = None
    <3>1. Ends(h) /\ UNCHANGED <<source, renamed>>
      BY <1>5, <2>3 DEF SetSource
    <3>2. SnapshotBut(Idle)'
      BY <1>1, <2>1, <3>1, IdleTold, StaysSnapshot
    <3> QED BY <3>1, <3>2 DEF Ends
  <2>4. CASE source[r.doc].alias # None
    <3>1. PICK q : Goes(h, q) /\ q = [at |-> "syncsource", doc |-> r.doc]
      BY <1>5, <2>4 DEF SetSource
    <3>2. /\ source' = [source EXCEPT ![r.doc] = [alias |-> r.alias, content |-> r.n]]
          /\ renamed' = (renamed \/ r.alias # source[r.doc].alias)
      BY <1>5, <2>4 DEF SetSource
    <3>3. q.at = "syncsource" /\ q.doc = r.doc
      BY <3>1
    <3>4. \A e \in Source : source'[e].alias = IF e = r.doc THEN r.alias ELSE source[e].alias
      BY <2>2, <3>2 DEF SourcesOK
    <3>5. r.alias # None
      BY <2>2, ServiceConfigAssumption
    <3>6. Told(q)'
      BY <2>2, <3>3, <3>4, <3>5 DEF Told
    <3>7. PathsBut(q)'
      BY <1>1, <2>1, <3>3 DEF PathsBut, Live, Shown, OwesPath
    <3>8. \A e \in Source : source[e].alias = r.alias => e = r.doc
      BY <1>1, <2>2, <3>5 DEF Unique, Found, FindByAlias
    <3>9. Unique'
      <4>1. \A d, e \in Source : source'[d].alias = source'[e].alias /\ source'[d].alias # None => d = e
        BY <1>1, <3>4, <3>8 DEF Unique
      <4> QED BY <4>1 DEF Unique
    <3>10. RegistryBut(q)'
      <4>1. ASSUME NEW b \in Alias, Found(b)' PROVE registry[b] # None \/ source'[r.doc].alias = b
        <5>1. PICK e \in Source : source'[e].alias = b
          BY <4>1 DEF Found, FindByAlias
        <5>2. e # r.doc => Found(b)
          BY <3>4, <5>1 DEF Found, FindByAlias
        <5> QED BY <1>1, <2>1, <5>1, <5>2 DEF RegistryBut
      <4>2. ASSUME NEW b \in Alias, registry[b] # None PROVE Found(b)' \/ renamed'
        <5>1. CASE renamed
          BY <3>2, <5>1
        <5>2. CASE ~renamed
          <6>1. PICK e \in Source : source[e].alias = b
            BY <1>1, <4>2, <5>2 DEF RegistryBut, Found, FindByAlias
          <6>2. r.alias # source[r.doc].alias => renamed'
            BY <3>2
          <6>3. r.alias = source[r.doc].alias => source'[e].alias = b
            BY <3>4, <6>1
          <6> QED BY <6>2, <6>3 DEF Found, FindByAlias
        <5> QED BY <5>1, <5>2
      <4> QED BY <2>1, <3>3, <4>1, <4>2 DEF RegistryBut, Found, FindByAlias
    <3> QED BY <3>1, <3>6, <3>7, <3>9, <3>10 DEF SnapshotBut
  <2> QED BY <2>3, <2>4
<1>6. CASE SyncSource(h)
  <2>1. /\ r.at = "syncsource" /\ Ends(h) /\ UNCHANGED <<svc, source, paths, renamed>>
        /\ source[r.doc].alias # None /\ \A s : ~OwesPath(r, s)
    BY <1>1, <1>6 DEF SyncSource, Told, OwesPath, docs, bounds
  <2>2. r.doc \in Source
    BY <2>1 DEF RequestsOK, RequestOK
  <2>3. registry' = [registry EXCEPT ![source[r.doc].alias] = source[r.doc].content]
    BY <1>6, <2>1 DEF SyncSource
  <2>4. source[r.doc].alias \in Alias /\ source[r.doc].content # None
    BY <2>1, <2>2, ServiceConfigAssumption DEF SourcesOK, NoSource, Contents
  <2>5. \A b \in Alias : registry'[b] = IF b = source[r.doc].alias THEN source[r.doc].content ELSE registry[b]
    BY <2>3 DEF RegistryOK
  <2>6. Found(source[r.doc].alias)
    BY <2>2 DEF Found, FindByAlias
  <2>7. \A b \in Alias : (Found(b) => registry'[b] # None) /\ (registry'[b] # None => Found(b) \/ renamed)
    BY <1>1, <2>4, <2>5, <2>6 DEF RegistryBut
  <2>8. RegistryBut(Idle)' /\ Unique'
    BY <1>1, <2>1, <2>7 DEF RegistryBut, Found, FindByAlias, Unique
  <2>9. PathsBut(Idle)'
    BY <1>1, <2>1 DEF PathsBut, Live, Shown
  <2> QED BY <1>2, <2>1, <2>8, <2>9 DEF SnapshotBut, Ends
<1> QED BY <1>3, <1>4, <1>5, <1>6

LEMMA InitTold == Init => Follows
<1> SUFFICES ASSUME Init PROVE Follows
  OBVIOUS
<1>1. \A d \in Documents : d # None
  BY ServiceConfigAssumption DEF Documents, Contents
<1>2. PathsBut(Idle)
  <2>1. \A s \in Live : svc[s] \in Documents
    BY InitTypes DEF Types, ServicesOK, Live, NoService, Deleted
  <2>2. paths = [s \in Service |-> IF s \in Live THEN svc[s] ELSE None]
    BY DEF Init
  <2> QED BY <1>1, <2>1, <2>2 DEF PathsBut, Shown, Live
<1>3. \A d \in Source : source[d] = FirstSource(d)
  BY DEF Init
<1>4. ASSUME NEW d \in Source, source[d].alias # None
      PROVE  source[d].alias \in AliasesOf(Initial) /\ SourceOf[source[d].alias] = d
  <2>1. FirstSource(d) # NoSource
    BY <1>3, <1>4 DEF NoSource
  <2>2. PICK a \in AliasesOf(Initial) : SourceOf[a] = d /\ FirstSource(d) = [alias |-> a, content |-> 0]
    BY <2>1, FirstSources
  <2> QED BY <1>3, <2>2
<1>5. Unique
  BY <1>4 DEF Unique
<1>6. RegistryBut(Idle)
  <2>1. ASSUME NEW a \in AliasesOf(Initial) PROVE Found(a)
    <3>1. SourceOf[a] \in Source /\ source[SourceOf[a]].alias = a
      BY <1>3, FirstSources
    <3> QED BY <3>1 DEF Found, FindByAlias
  <2>2. ASSUME NEW a \in Alias, Found(a) PROVE a \in AliasesOf(Initial)
    BY <1>4, <2>2, ServiceConfigAssumption DEF Found, FindByAlias
  <2>3. registry = [a \in Alias |-> IF a \in AliasesOf(Initial) THEN 0 ELSE None] /\ 0 # None
    BY ServiceConfigAssumption DEF Init
  <2> QED BY <2>1, <2>2, <2>3 DEF RegistryBut
<1>7. SnapshotBut(Idle)
  BY <1>2, <1>5, <1>6, IdleTold DEF SnapshotBut
<1> QED BY <1>7, ServiceConfigAssumption DEF Follows, Init

LEMMA NextTold ==
    ASSUME Types, ClaimsDone, Follows, [Next]_vars
    PROVE  Follows'
<1> USE DEF Types
<1> SUFFICES ASSUME serial'
             PROVE  (\E h \in Handler : \E q \in {req[h]} :
                         (\A g \in Handler \ {h} : req[g] = Idle) /\ SnapshotBut(q))'
  BY DEF Follows
<1>0. PICK h \in Handler : \E r : r = req[h] /\ (\A g \in Handler \ {h} : req[g] = Idle) /\ SnapshotBut(r)
  <2>1. serial
    BY SerialBefore
  <2> QED BY <2>1 DEF Follows
<1>1. PICK r : r = req[h] /\ (\A g \in Handler \ {h} : req[g] = Idle) /\ SnapshotBut(r)
  BY <1>0
<1>2. ASSUME NEW k \in Handler, NEW q, Goes(k, q), \A g \in Handler \ {k} : req[g] = Idle, SnapshotBut(q)'
      PROVE  (\E g \in Handler : \E p \in {req[g]} :
                  (\A f \in Handler \ {g} : req[f] = Idle) /\ SnapshotBut(p))'
  <2>1. req'[k] = q /\ \A g \in Handler \ {k} : req'[g] = Idle
    BY <1>2 DEF Goes, RequestsOK
  <2> QED BY <1>2, <2>1
<1>3. ASSUME NEW k \in Handler, Request(k)
      PROVE  (\E g \in Handler : \E q \in {req[g]} :
                  (\A f \in Handler \ {g} : req[f] = Idle) /\ SnapshotBut(q))'
  <2>1. \A g \in Handler : req[g] = Idle
    BY <1>3, SerialBefore
  <2>2. SnapshotBut(Idle)
    BY <1>1, <2>1
  <2>3. PICK q : Goes(k, q) /\ SnapshotBut(q)'
    BY <1>3, <2>2, BeginTold
  <2> QED BY <1>2, <2>1, <2>3
<1>4. ASSUME NEW k \in Handler, Continue(k)
      PROVE  (\E g \in Handler : \E q \in {req[g]} :
                  (\A f \in Handler \ {g} : req[f] = Idle) /\ SnapshotBut(q))'
  <2>1. k = h
    BY <1>1, <1>4, RequestRuns
  <2>2. ~RequestDies(h) /\ ~\E d \in Source : SourceLookupFails(h, d)
    BY DEF RequestDies, SourceLookupFails
  <2>3. \/ PrepareAgain(h) \/ UpdateInline(h) \/ ValidateAlias(h) \/ \E d \in Source : PrepareInline(h, d)
        \/ Prepared(h) \/ WriteService(h) \/ InsertSourceFails(h) \/ SourcesDone(h)
        \/ r.at = "sources" /\ \E c \in r.insert : InsertSource(h, c)
        \/ \E a \in Alias : CheckOrphan(h, a)
        \/ DropOrphan(h) \/ OrphansDone(h) \/ DeleteDocument(h)
        \/ SyncService(h) \/ InsertOneSource(h) \/ SetSource(h) \/ SyncSource(h)
    BY <1>1, <1>4, <2>1, <2>2 DEF Continue
  <2>4. \E q : Goes(h, q) /\ SnapshotBut(q)'
    BY <1>1, <2>3, PrepareTold, WriteTold, OrphansTold, SourceTold
  <2> QED BY <1>1, <1>2, <2>4
<1>5. CASE UNCHANGED vars
  <2>1. UNCHANGED <<svc, source, paths, registry, renamed, req>>
    BY <1>5 DEF vars, docs, redis, bounds
  <2>2. Unique' /\ PathsBut(r)' /\ RegistryBut(r)' /\ Told(r)'
    BY <1>1, <2>1, ToldStays DEF SnapshotBut, Unique, PathsBut, RegistryBut, OwesPath, Live, Shown, Found, FindByAlias
  <2> QED BY <1>1, <2>1, <2>2 DEF SnapshotBut
<1> QED BY <1>3, <1>4, <1>5 DEF Next

\* For any services, sources, bodies and requests: as long as they come one at a time and only inserts of
\* sources fail, the entries in Redis are those of the services and aliases that MongoDB has whenever
\* nothing is under way, although a rollback writes none (ServiceSyncer, SourceSyncer and the services that
\* call them); an alias that a source had before may stay, once one was renamed.
THEOREM SnapshotFollows == Spec => []SerialSnapshot
<1>1. ASSUME Follows PROVE SerialSnapshot
  <2> SUFFICES ASSUME serial, Quiet PROVE SerialSnapshot
    BY DEF SerialSnapshot
  <2>1. PathsBut(Idle) /\ RegistryBut(Idle)
    BY <1>1 DEF Follows, Quiet, SnapshotBut
  <2>2. \A s \in Service : IF s \in Live THEN Shown(s, svc[s]) ELSE paths[s] = None
    BY <2>1, IdleTold DEF PathsBut
  <2>3. \A a \in Alias : (Found(a) => registry[a] # None) /\ (registry[a] # None => Found(a) \/ renamed)
    BY <2>1 DEF RegistryBut, Idle
  <2> QED BY <2>2, <2>3 DEF SerialSnapshot, Shown, Found
<1>2. Init => Follows
  BY InitTold
<1>3. Types /\ ClaimsDone /\ Follows /\ [Next]_vars => Follows'
  BY NextTold
<1>4. Spec => []Follows
  BY <1>2, <1>3, TypesInvariant, ClaimsDoneInvariant, PTL DEF Spec
<1> QED BY <1>1, <1>4, PTL

=============================================================================
