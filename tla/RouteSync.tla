------------------------------ MODULE RouteSync ------------------------------
(***************************************************************************)
(* How a gateway's routing table follows the control plane's services,     *)
(* sources and response transforms.  The control plane writes MongoDB,     *)
(* then the entry in a snapshot in Redis, then publishes a reload; and it  *)
(* answers polls with the whole list or, by ETag, with "not modified".  A  *)
(* gateway starts from the snapshot, then syncs on a timer and on reloads. *)
(* Syncs of one gateway share one flight, fetch the three lists in turn,   *)
(* and write what they got over the snapshot, which all gateways share.    *)
(***************************************************************************)
EXTENDS Integers, Sequences

CONSTANTS
    Item,       \* ids of services, aliases of sources, ids of transforms
    Configured, \* those there are at the start
    Handler,    \* requests the control plane handles at the same time
    Gateway,    \* gateway pods
    MaxWrites,  \* bound of the model: edits of the lists
    MaxQuiet,   \* bound of the model: those edits that are announced to nobody
    MaxFaults   \* bound of the model: failures and restarts

ASSUME RouteSyncAssumption ==
    /\ MaxWrites \in Nat /\ MaxQuiet \in Nat /\ MaxFaults \in Nat

Kind == {"sources", "services", "transforms"}
\* The lists that are kept in Redis.
Saved == {"sources", "services"}
\* DoSync's order. "Sources first, because services refer to a sourceAlias."
NextKind == [k \in Saved |-> IF k = "sources" THEN "services" ELSE "transforms"]
\* The goroutines that call DoSync: Run and then the poll loop, and the event consume loop.
Caller == {"poll", "event"}

VARIABLES
    list,      \* each list in MongoDB: its items' revisions, 0 for none, and how often it was edited
    owed,      \* what each handler has written to MongoDB and not yet told Redis
    boot,      \* what a control-plane pod that started has listed and not yet written to Redis
    quiet,     \* edits announced to nobody
    snapshot,  \* gateway_service:paths and source:registry: a revision for each item, 0 for none,
               \* and the negative of one for an entry that has only part of that revision
    inbox,     \* the gateways whose event channel holds a reload
    phase,     \* what a gateway's Run is at: "sources", "services", "first" sync, "running"
    table,     \* each gateway's trie, source map and transform map, as lists
    etag,      \* the items whose ETag each gateway has kept for each list: <<>> or <<items>>
    flight,    \* the sync each caller leads: the list it is at, and what it was answered
    joined,    \* the callers that wait for another's sync
    cut,       \* <<g, k>>: g was last sent list k in a response that was cut off
    faults

configVars == <<list, owed, boot, quiet>>
syncVars == <<table, etag, flight, joined, cut>>
vars == <<configVars, snapshot, inbox, phase, syncVars, faults>>

Unread == -1
NoItems == [i \in Item |-> 0]
NoList == [edits |-> 0, items |-> NoItems]
FirstList == [edits |-> 1, items |-> [i \in Item |-> IF i \in Configured THEN 1 ELSE 0]]
NoFlight == [at |-> "none", kind |-> "sources", got |-> NoList]
Fetching(k) == [at |-> "fetch", kind |-> k, got |-> NoList]

\* An installation, new or not, that is at rest: every gateway has polled the lists.
Init ==
    /\ list = [k \in Kind |-> FirstList]
    /\ snapshot = [k \in Saved |-> FirstList.items]
    /\ table = [g \in Gateway |-> [k \in Kind |-> FirstList]]
    /\ etag = [g \in Gateway |-> [k \in Kind |-> <<FirstList.items>>]]
    /\ owed = [h \in Handler |-> {}]
    /\ boot = {} /\ quiet = 0
    /\ inbox = {}
    /\ phase = [g \in Gateway |-> "running"]
    /\ flight = [g \in Gateway |-> [c \in Caller |-> NoFlight]]
    /\ joined = [g \in Gateway |-> {}]
    /\ cut = {}
    /\ faults = 0

Fault == faults < MaxFaults /\ faults' = faults + 1

-----------------------------------------------------------------------------
(* The control plane.  A request writes one document after another, and    *)
(* later their entries in Redis.  An edited document is read again first.  *)

Writes == list["sources"].edits + list["services"].edits + list["transforms"].edits - 3

\* An insert or an edit of a document, or its deletion.
Edited(k, i, deleted) ==
    [edits |-> list[k].edits + 1,
     items |-> [list[k].items EXCEPT ![i] = IF deleted THEN 0 ELSE list[k].edits + 1]]

\* What is left to tell: a document as it was inserted or deleted; an edited one is read first.
ToTell(k, i, deleted) ==
    [kind |-> k, item |-> i,
     revision |-> IF k \in Saved /\ ~deleted /\ list[k].items[i] # 0
                  THEN Unread ELSE Edited(k, i, deleted).items[i]]

Write(h, k, i, deleted) ==
    /\ Writes < MaxWrites
    /\ deleted => list[k].items[i] # 0
    /\ \A o \in owed[h] : o.kind # k \/ o.item # i
    /\ list' = [list EXCEPT ![k] = Edited(k, i, deleted)]
    /\ owed' = [owed EXCEPT ![h] = @ \cup {ToTell(k, i, deleted)}]
    /\ UNCHANGED <<boot, quiet, snapshot, inbox, phase, syncVars, faults>>

\* FindByID after an update: a document that is gone by now fails the request.
Reread(h, o) ==
    /\ o \in owed[h] /\ o.revision = Unread
    /\ LET now == list[o.kind].items[o.item] IN
       owed' = [owed EXCEPT ![h] = (@ \ {o}) \cup
                   IF now = 0 THEN {} ELSE {[o EXCEPT !.revision = now]}]
    /\ UNCHANGED <<list, boot, quiet, snapshot, inbox, phase, syncVars, faults>>

\* A package's limit or the paths of its link to a service: part of the list of services, but
\* nothing is written to Redis and nothing published.
WriteQuietly(h, i) ==
    /\ Writes < MaxWrites /\ quiet < MaxQuiet
    /\ owed[h] = {}
    /\ list["services"].items[i] # 0
    /\ list' = [list EXCEPT !["services"] = Edited("services", i, FALSE)]
    /\ quiet' = quiet + 1
    /\ UNCHANGED <<owed, boot, snapshot, inbox, phase, syncVars, faults>>

\* What the control plane writes of a revision: of a service, its own fields, without the limits of its
\* packages, and without the packages where the service itself was edited (buildServicePayload).
Told(k, revision) == IF k = "services" THEN -revision ELSE revision

\* HSET or HDEL of one entry; transforms have none.
SnapshotWith(o) ==
    IF o.kind \in Saved
    THEN [snapshot EXCEPT ![o.kind][o.item] = Told(o.kind, o.revision)] ELSE snapshot

\* Mutant of Tell: an edited document is not read again.
TellUnread(h, o) ==
    /\ o \in owed[h]
    /\ snapshot' = SnapshotWith(o)
    /\ inbox' = inbox \cup {g \in Gateway : phase[g] = "running"}
    /\ owed' = [owed EXCEPT ![h] = @ \ {o}]
    /\ UNCHANGED <<list, boot, quiet, phase, syncVars, faults>>

\* The entry, then the reload, which reaches the gateways that listen.
Tell(h, o) ==
    /\ o \in owed[h] /\ o.revision # Unread
    /\ snapshot' = SnapshotWith(o)
    /\ inbox' = inbox \cup {g \in Gateway : phase[g] = "running"}
    /\ owed' = [owed EXCEPT ![h] = @ \ {o}]
    /\ UNCHANGED <<list, boot, quiet, phase, syncVars, faults>>

\* Redis refuses the entry: nothing is published either, and the request succeeds all the same.
TellFails(h, o) ==
    /\ o \in owed[h] /\ o.revision # Unread
    /\ Fault
    /\ owed' = [owed EXCEPT ![h] = @ \ {o}]
    /\ UNCHANGED <<list, boot, quiet, snapshot, inbox, phase, syncVars>>

\* The pod of a request ends before the request has.
HandlerDies(h) ==
    /\ owed[h] # {}
    /\ Fault
    /\ owed' = [owed EXCEPT ![h] = {}]
    /\ UNCHANGED <<list, boot, quiet, snapshot, inbox, phase, syncVars>>

\* syncGatewayServices, syncGatewaySources: a pod that starts lists one kind, writes its entries
\* one by one, and goes on to the other. Its GatewayRedisSync has no publisher.
PodBoots(k) ==
    /\ boot = {} /\ list[k].items # NoItems
    /\ Fault
    /\ boot' = {[kind |-> k, item |-> i, revision |-> list[k].items[i]] :
                    i \in {j \in Item : list[k].items[j] # 0}}
    /\ UNCHANGED <<list, owed, quiet, snapshot, inbox, phase, syncVars>>

BootWrite(o) ==
    /\ o \in boot
    /\ snapshot' = SnapshotWith(o)
    /\ boot' = boot \ {o}
    /\ UNCHANGED <<list, owed, quiet, inbox, phase, syncVars, faults>>

\* A hash expires a day after the last write to it, when nobody is writing.
SnapshotExpires(k) ==
    /\ snapshot[k] # NoItems
    /\ boot = {} /\ \A h \in Handler : owed[h] = {}
    /\ \A g \in Gateway, c \in Caller : flight[g][c].at = "none"
    /\ snapshot' = [snapshot EXCEPT ![k] = NoItems]
    /\ UNCHANGED <<configVars, inbox, phase, syncVars, faults>>

-----------------------------------------------------------------------------
(* A gateway's syncs.                                                      *)

Syncing(g) == \E c \in Caller : flight[g][c].at # "none"
Free(g, c) == flight[g][c].at = "none" /\ c \notin joined[g]

\* Mutant of DoSync: no singleflight.
DoSyncAlone(g, c) ==
    /\ flight' = [flight EXCEPT ![g][c] = Fetching("sources")]
    /\ UNCHANGED joined

\* singleflight: who comes while a sync is under way waits for that one.
DoSync(g, c) ==
    \/ /\ Syncing(g)
       /\ joined' = [joined EXCEPT ![g] = @ \cup {c}]
       /\ UNCHANGED flight
    \/ /\ ~Syncing(g)
       /\ flight' = [flight EXCEPT ![g][c] = Fetching("sources")]
       /\ UNCHANGED joined

Poll(g) ==
    /\ phase[g] = "running" /\ Free(g, "poll")
    /\ DoSync(g, "poll")
    /\ UNCHANGED <<configVars, snapshot, inbox, phase, table, etag, cut, faults>>

ApplyReload(g) ==
    /\ phase[g] = "running" /\ g \in inbox /\ Free(g, "event")
    /\ DoSync(g, "event")
    /\ inbox' = inbox \ {g}
    /\ UNCHANGED <<configVars, snapshot, phase, table, etag, cut, faults>>

\* Pub/sub is at most once, and a full channel drops the event.
ReloadLost(g) ==
    /\ g \in inbox
    /\ Fault
    /\ inbox' = inbox \ {g}
    /\ UNCHANGED <<configVars, snapshot, phase, syncVars>>

\* The sync goes on to the next list, or returns to all who wait for it. The first one is Run's,
\* which then starts the poll loop and the listener.
Advance(g, c) ==
    \/ /\ flight[g][c].kind \in Saved
       /\ flight' = [flight EXCEPT ![g][c] = Fetching(NextKind[flight[g][c].kind])]
       /\ UNCHANGED <<joined, phase>>
    \/ /\ flight[g][c].kind = "transforms"
       /\ flight' = [flight EXCEPT ![g][c] = NoFlight]
       /\ joined' = [joined EXCEPT ![g] = {}]
       /\ phase' = [phase EXCEPT ![g] = "running"]

NotModified(g, c) ==
    LET k == flight[g][c].kind IN
    /\ flight[g][c].at = "fetch"
    /\ etag[g][k] = <<list[k].items>>
    /\ Advance(g, c)
    /\ UNCHANGED <<configVars, snapshot, inbox, table, etag, cut, faults>>

\* Mutant of Preserved: no check of the length.
PreservedNever(k, items) == k \notin Kind

\* An empty list of services or sources is not believed; its ETag is kept all the same.
Preserved(k, items) == k \in Saved /\ items = NoItems

Modified(g, c) ==
    LET k == flight[g][c].kind IN
    /\ flight[g][c].at = "fetch"
    /\ etag[g][k] # <<list[k].items>>
    /\ etag' = [etag EXCEPT ![g][k] = <<list[k].items>>]
    /\ IF Preserved(k, list[k].items)
       THEN Advance(g, c)
       ELSE /\ flight' = [flight EXCEPT ![g][c] =
                  [at |-> IF k \in Saved THEN "clear" ELSE "swap", kind |-> k, got |-> list[k]]]
            /\ UNCHANGED <<joined, phase>>
    /\ UNCHANGED <<configVars, snapshot, inbox, table, cut, faults>>

\* The response is cut off after the ETag was kept: the retry is answered 304.
ResponseCut(g, c) ==
    LET k == flight[g][c].kind IN
    /\ flight[g][c].at = "fetch"
    /\ etag[g][k] # <<list[k].items>>
    /\ Fault
    /\ etag' = [etag EXCEPT ![g][k] = <<list[k].items>>]
    /\ cut' = cut \cup {<<g, k>>}
    /\ Advance(g, c)
    /\ UNCHANGED <<configVars, snapshot, inbox, table>>

\* No answer in three attempts, or the breaker is open.
FetchFails(g, c) ==
    /\ flight[g][c].at = "fetch"
    /\ Fault
    /\ Advance(g, c)
    /\ UNCHANGED <<configVars, snapshot, inbox, table, etag, cut>>

\* Mutant of ClearSnapshot: the pipeline has no DEL.
ClearNothing(g, c) ==
    /\ flight[g][c].at = "clear"
    /\ flight' = [flight EXCEPT ![g][c].at = "fill"]
    /\ UNCHANGED <<configVars, snapshot, inbox, phase, table, etag, joined, cut, faults>>

\* SaveSources, SaveServices: a pipeline is not a transaction. DEL, then HSETs.
ClearSnapshot(g, c) ==
    /\ flight[g][c].at = "clear"
    /\ snapshot' = [snapshot EXCEPT ![flight[g][c].kind] = NoItems]
    /\ flight' = [flight EXCEPT ![g][c].at = "fill"]
    /\ UNCHANGED <<configVars, inbox, phase, table, etag, joined, cut, faults>>

FillSnapshot(g, c) ==
    LET f == flight[g][c] IN
    /\ f.at = "fill"
    /\ snapshot' = [snapshot EXCEPT ![f.kind] =
                       [i \in Item |-> IF f.got.items[i] # 0 THEN f.got.items[i] ELSE @[i]]]
    /\ flight' = [flight EXCEPT ![g][c].at = "swap"]
    /\ UNCHANGED <<configVars, inbox, phase, table, etag, joined, cut, faults>>

\* Mutant of SaveFails: the error ends the sync of the list.
SaveFailsReturns(g, c) ==
    /\ flight[g][c].at \in {"clear", "fill"}
    /\ Fault
    /\ Advance(g, c)
    /\ UNCHANGED <<configVars, snapshot, inbox, table, etag, cut>>

\* Redis stops answering before or amid the pipeline: the error is dropped.
SaveFails(g, c) ==
    /\ flight[g][c].at \in {"clear", "fill"}
    /\ Fault
    /\ flight' = [flight EXCEPT ![g][c].at = "swap"]
    /\ UNCHANGED <<configVars, snapshot, inbox, phase, table, etag, joined, cut>>

\* LoadBulk, or the new source or transform map.
Swap(g, c) ==
    LET f == flight[g][c] IN
    /\ f.at = "swap"
    /\ table' = [table EXCEPT ![g][f.kind] = f.got]
    /\ cut' = cut \ {<<g, f.kind>>}
    /\ Advance(g, c)
    /\ UNCHANGED <<configVars, snapshot, inbox, etag, faults>>

-----------------------------------------------------------------------------
(* A gateway's start.                                                      *)

\* A pod ends, by a crash or a deployment, and another takes its place.
Restarts(g) ==
    /\ Fault
    /\ phase' = [phase EXCEPT ![g] = "sources"]
    /\ table' = [table EXCEPT ![g] = [k \in Kind |-> NoList]]
    /\ etag' = [etag EXCEPT ![g] = [k \in Kind |-> <<>>]]
    /\ flight' = [flight EXCEPT ![g] = [c \in Caller |-> NoFlight]]
    /\ joined' = [joined EXCEPT ![g] = {}]
    /\ inbox' = inbox \ {g}
    /\ cut' = cut \ ({g} \X Kind)
    /\ UNCHANGED <<configVars, snapshot>>

Loaded(k) == [edits |-> 0, items |-> snapshot[k]]

LoadSources(g) ==
    /\ phase[g] = "sources"
    /\ table' = [table EXCEPT ![g]["sources"] = Loaded("sources")]
    /\ phase' = [phase EXCEPT ![g] = "services"]
    /\ UNCHANGED <<configVars, snapshot, inbox, etag, flight, joined, cut, faults>>

\* An empty hash leaves the trie as it is, which is empty. Then Run calls DoSync.
LoadServices(g) ==
    /\ phase[g] = "services"
    /\ table' = [table EXCEPT ![g]["services"] = Loaded("services")]
    /\ phase' = [phase EXCEPT ![g] = "first"]
    /\ DoSync(g, "poll")
    /\ UNCHANGED <<configVars, snapshot, inbox, etag, cut, faults>>

\* Redis does not answer: Load goes on without. Part of the failure that the restart counts as.
LoadFails(g) ==
    /\ \/ /\ phase[g] = "sources"
          /\ phase' = [phase EXCEPT ![g] = "services"]
          /\ UNCHANGED <<flight, joined>>
       \/ /\ phase[g] = "services"
          /\ phase' = [phase EXCEPT ![g] = "first"]
          /\ DoSync(g, "poll")
    /\ UNCHANGED <<configVars, snapshot, inbox, table, etag, cut, faults>>

-----------------------------------------------------------------------------
HandlerNext(h) ==
    \/ \E k \in Kind, i \in Item, deleted \in BOOLEAN : Write(h, k, i, deleted)
    \/ \E i \in Item : WriteQuietly(h, i)
    \/ \E o \in owed[h] : Reread(h, o) \/ Tell(h, o) \/ TellFails(h, o)
    \/ HandlerDies(h)

SyncNext(g, c) ==
    \/ NotModified(g, c) \/ Modified(g, c) \/ ResponseCut(g, c) \/ FetchFails(g, c)
    \/ ClearSnapshot(g, c) \/ FillSnapshot(g, c) \/ SaveFails(g, c) \/ Swap(g, c)

GatewayNext(g) ==
    \/ Poll(g) \/ ApplyReload(g) \/ ReloadLost(g)
    \/ \E c \in Caller : SyncNext(g, c)
    \/ Restarts(g) \/ LoadSources(g) \/ LoadServices(g) \/ LoadFails(g)

Next ==
    \/ \E h \in Handler : HandlerNext(h)
    \/ \E k \in Saved : PodBoots(k) \/ SnapshotExpires(k)
    \/ \E o \in boot : BootWrite(o)
    \/ \E g \in Gateway : GatewayNext(g)

Spec == Init /\ [][Next]_vars

\* Gateways start, poll, take reloads and finish their syncs.
Fairness ==
    \A g \in Gateway :
        /\ WF_vars(Poll(g)) /\ WF_vars(ApplyReload(g))
        /\ WF_vars(LoadSources(g)) /\ WF_vars(LoadServices(g))
        /\ \A c \in Caller :
              /\ WF_vars(NotModified(g, c)) /\ WF_vars(Modified(g, c))
              /\ WF_vars(ClearSnapshot(g, c)) /\ WF_vars(FillSnapshot(g, c)) /\ WF_vars(Swap(g, c))

FairSpec == Spec /\ Fairness

-----------------------------------------------------------------------------
Entry == [kind : Kind, item : Item, revision : Nat \cup {Unread}]
Items == [Item -> Nat]
SavedItems == [Item -> Int]
\* A service's entry as the control plane writes it is a negative number (Told), a source's is not.
Snapshots == {s \in [Saved -> SavedItems] : s["sources"] \in Items}
Table == [edits : Nat, items : SavedItems]
List == [edits : Nat, items : Items]
Flight == [at : {"none", "fetch", "clear", "fill", "swap"}, kind : Kind, got : List]

\* Types.
TypeOK ==
    /\ list \in [Kind -> List]
    /\ owed \in [Handler -> SUBSET Entry]
    /\ boot \in SUBSET [kind : Saved, item : Item, revision : Nat]
    /\ quiet \in Nat
    /\ snapshot \in Snapshots
    /\ inbox \in SUBSET Gateway
    /\ phase \in [Gateway -> {"sources", "services", "first", "running"}]
    /\ table \in [Gateway -> [Kind -> Table]]
    /\ etag \in [Gateway -> [Kind -> Seq(Items)]]
    /\ flight \in [Gateway -> [Caller -> Flight]]
    /\ joined \in [Gateway -> SUBSET Caller]
    /\ cut \in SUBSET (Gateway \X Kind)
    /\ faults \in Nat

\* A running gateway never replaces a list by one the control plane answered with earlier,
\* however polls and reloads interleave.
NoRegression ==
    [][\A g \in Gateway, k \in Kind :
          phase'[g] = "sources" \/ table'[g][k].edits >= table[g][k].edits]_vars

\* "If the control plane or MongoDB goes offline, the gateway keeps proxying traffic from its
\* cached routing tables" (docs/sync-contract.md:19): no answer takes a running gateway's routes
\* or sources away.
RoutesSurvive ==
    [][\A g \in Gateway, k \in Saved :
          /\ table[g][k].items # NoItems
          /\ phase[g] = "running" /\ phase'[g] = "running"
          => table'[g][k].items # NoItems]_vars

\* Nothing is under way, and every gateway has polled the latest lists.
NothingUnderWay ==
    /\ boot = {} /\ inbox = {} /\ \A h \in Handler : owed[h] = {}
    /\ \A g \in Gateway :
          /\ phase[g] = "running" /\ ~Syncing(g)
          /\ \A k \in Kind : etag[g][k] = <<list[k].items>>

\* The control plane and the gateways write the same snapshot, without transactions. When the
\* dust has settled after requests that did not overlap and in which nothing failed, its entries are
\* those of the list, or it has expired: a gateway that then starts without the control plane does not
\* bring back what was deleted or replaced.  An entry that the control plane wrote last has the latest
\* fields of its service, but not the limits of its packages, and never outdated ones
\* (SyncService, SaveServices).
SnapshotIsCurrent ==
    faults = 0 /\ NothingUnderWay =>
        \A k \in Saved : list[k].items # NoItems /\ snapshot[k] # NoItems =>
            \A i \in Item : LET now == list[k].items[i] IN snapshot[k][i] \in {now, Told(k, now)}

Follows(g, k) ==
    table[g][k].items = list[k].items \/ Preserved(k, list[k].items)

\* When edits end, every gateway has the lists in the end, unless they are empty or the last
\* response was cut off.
ListsConverge ==
    \A g \in Gateway, k \in Kind : <>[](Follows(g, k) \/ <<g, k>> \in cut)
=============================================================================
