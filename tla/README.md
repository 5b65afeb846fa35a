# A TLA+ model of Oryca

Oryca is an API gateway. A **gateway** process proxies requests; a **control plane** keeps users,
packages, services and API keys in MongoDB and serves the portal. They share one Redis and talk in
three ways (docs/sync-contract.md): the gateway polls the control plane's `/internal` routes, the
control plane publishes events on a Redis pub/sub channel, and the gateway appends its access logs
to a Redis stream that the control plane's pods consume. Several pods of either may run.

Almost everything that is hard to test is in between: caches that several writers fill from
snapshots of different ages, events that are delivered at most once, batches that are stored and
acknowledged in two steps, counters that several pods update by their own clocks, and requests of the
control plane that check, write and clean up in MongoDB by separate calls, with no transaction and no
unique index. That is what the modules here are about.

## Inventory

| Part | State it keeps | Operations | Talks to | What makes it correct |
| --- | --- | --- | --- | --- |
| Access-log publishing, `gateway/handler/proxy_handler.go` | bounded queue, worker pool | enqueue, publish with three attempts, drain | Redis stream | a log leaves the gateway or is given up knowingly; a request never waits |
| Log consumer, `control-plane/consumer` | read and claimed batches, the group's pending list in Redis | read, flush (store, then acknowledge), reclaim, stop | Redis stream, MongoDB | nothing acknowledged is missing; copies only after failures; nothing pending for ever |
| User freshness cache, `gateway/cache/user_cache.go` | entry per user with a TTL, calls in flight, slots | get, refresh, set, invalidate | lookups over HTTP behind a circuit breaker | ends with the current fields; a deleted user does not stay |
| Sync events, `gateway/service/sync_event_service.go`, `gateway/sync` | version guard, event channel | apply user, invalidate, apikey, reload events | pub/sub | an event never does lasting harm, lost, late or twice |
| Event publisher, `control-plane/service/gateway_event_publisher.go` | bounded queue | publish, loop, close | pub/sub | never blocks a handler |
| Users and membership, `control-plane/service/user_service.go`, `package_user_service.go` | MongoDB documents | update, delete, bulk delete, assign, remove | event publisher | each change of an authorization field is announced |
| API keys, `control-plane/service/api_key_service.go`, `control-plane/cache` | MongoDB documents, Redis entries | create, update, regenerate, delete, lookup, boot job | Redis, event publisher | a revoked secret stops working, an active one works |
| API-key cache and poll of the gateway | Redis entries with a TTL, ETag | poll, apply, lookup | `/internal/api-keys`, Redis | the same |
| Rate limiter, `gateway/cache/rate_limit_cache.go` | sorted set per window in Redis | script, walk over tiers | Redis | limits hold over pods and retries; Retry-After is true |
| Routing table, `gateway/trie` | trie, source map, ETags, copy in Redis | load, sync, poll, reload, find | `/internal/services`, Redis | ends with the latest lists, never goes back to earlier ones; an outage keeps the old table; a request gets the best resource and its own parameters |
| Services and sources, `control-plane/service/gateway_*` | MongoDB documents, Redis copies | create, update with rollback, delete, orphan cleanup | Redis, event publisher | every alias has its source; names are as unique as a check can keep them; Redis follows |
| Response transforms, `transform_config_*` and `gateway/trie/hybrid.go` | MongoDB documents, the gateway's ordered table | create, update, delete, apply a preset; sync, find | `/internal/response-transforms` | the most specific enabled one applies |
| Packages and links, `package_*`, `rate_limit_payload.go` | documents, counters, the packages of a service in Redis | create, update, delete, link, unlink, assign, count job | MongoDB, Redis, `/internal/services` | counters agree with links and members; a package is served its own limits |
| Sessions, login and roles, `auth_service.go`, `account_service.go`, `user_handler.go` | sessions in Redis, their records in MongoDB, users | register, login, refresh, logout, revoke, change role or address | Redis, MongoDB | the limit holds; an ended session stays ended; only a root makes admins |
| Authentication of the gateway, `gateway/service/auth_service.go` | none of its own | judge a bearer token or a key | the caches above | what it judges by is current in the end |
| Response cache and upstream calls, `gateway/cache/upstream_cache.go`, `proxy_handler.go` | memory and Redis tiers, shared calls, breaker per domain | get, set, fetch, stream, evict | upstreams, Redis | nothing stale is served; a stream has one reader; byte budget |
| Notifications | documents, locks, tickets | cron under a lock, create, stream tickets | Redis, MongoDB | each notice once; a ticket once |

`PROJECT.json` lists the same components with their status, and the hazards of each at their lines.

## Modules

| Module | Models | Its actions |
| --- | --- | --- |
| `LogPipeline` | log publishing, stream, consumer group, consumer pods | `Finish`, `Take`, `Publish`, `PublishFails`, `Drained`... of the gateway; `Read`, `Claim`, `Flush`, `Insert`, `Ack`, `Stop`... of the pods, each with its failure |
| `LogDelivery` | the contract of the stream and its consumers | `Publish`, `Save`, `Settle`, `WriteOff` |
| `UserFreshness` | how an edit of a user reaches a gateway's cache | handlers with the write, the read-back and the event as steps; events; lookups; the poll; restarts |
| `ApiKeySync` | how a key's changes reach the entry a gateway reads | handlers by access to MongoDB and Redis; events; the conditional poll; TTLs |
| `RateLimit` | one caller on one path against the tiers of a package | `ReadClock`, `Pass`, `Deny`, `Lost`, `Expire`, `Tick` |
| `RouteSync` | how a gateway's routing table follows services, sources and transforms | `Write`, `Reread`, `Tell`, `WriteQuietly`, `PodBoots`... of the control plane; `Poll`, `ApplyReload`, one action per stage of a sync, `Restarts`, `LoadSources`, `LoadServices` of a gateway, each with its failure |
| `UniqueCheck` | the contract of every "look whether the name is taken, then write" | `Look`, `LookFails`, `Write`, `GiveUp`, `Free` |
| `PackagePaths`, `Packages` | the paths and limits of a link; packages, links, members and their counters | handlers call by call: `CreatePackage`... to `CountUsers`, the poll's answer, the count job, each with its failure |
| `ServiceConfig` | services and their sources over MongoDB and the snapshot | `CreateService`, `UpdateService`, `RolledBack`, `DeleteService`... call by call |
| `Accounts` | sign-up, sessions, roles and addresses | `Register`, `Login`, `RefreshToken`, the revocations, `UpdateUser`... call by call, `SessionExpires` |
| `ProxyCache` | the response cache and shared upstream calls | one action per stage of a request, from `Arrive` to `Mirror`, `StoreElsewhere`, `Tick` |
| `PathTrie` | the trie: loading, search, parameters, source URLs | `AddService`, `AddPath`, `RemovePath`, `Load` |
| `TransformConfigs` | response transforms from the editor to the request | `Create`, `ApplyPreset`, `Update`, `Delete`, `Write`, `Sync`, `Tick` |
| `LogPipelineProofs`, `RateLimitProofs`, `RouteSyncProofs`, `UniqueCheckProofs`, `AccountsProofs`, `ServiceConfigProofs`, `PackagesProofs`, `ProxyCacheProofs` | theorems | |

**LogPipeline.** An entry's id is its position in `entries`; `trimmed` and `delivered` are what Redis
keeps of a stream and its group, `pel` the pending entries list, `idle` those pending for
`reclaimIdle`. A pod's two loops have a program counter and the batch they hold, so that a pod can
be killed between storing and acknowledging. `XADD`'s approximate trimming is the choice of how far
`trimmed` moves. `MaxFaults` bounds lost replies, failed calls, kills and restarts together, and
`stored` counts documents per entry, which is how duplicates are seen.

**UserFreshness.** A user's fields are the number of edits they have seen, so "newer" has a meaning.
`Update` writes, `ReadBack` reads and `Publish` stamps: three steps, because the code does three
things other handlers interleave with. A lookup is waiting for its slot, sent, or answered and not
stored yet; `Store` puts the answer over whatever came meanwhile. The circuit breaker (a library,
modelled from how it is configured and used) counts what its generation let through.

`Judged` is what the gateway judges a caller by: the cache's answer laid over what the token or key
says, or the latter alone when the cache has none (`overlayFreshness`).

**ApiKeySync.** Entries are per secret, because a key's entry is found by the hash of its secret and
regenerating leaves the old one behind. Handlers are sequences of single accesses to MongoDB and
Redis. An ETag is the list it was computed from; an edit of a key's owner changes the response and
so voids it. The HTTP handlers' permission checks guard each request (`CanManageForUser`, `IsOwner`,
`CanModifyKey`), and what a key must satisfy at the gateway is `ValidateApiKey`.

**RateLimit.** `Evicted`, `Count`, `ScriptAdds` and `ScriptDenies` are the Lua script, which runs in
one step. What is not atomic is around it: the clock reading each tier's script carries, the walk
over the tiers, the client library's repetition of a script whose reply was lost. `Skew` bounds how
far a pod's clock is from Redis's and `MaxLag` how long a reading is on its way. The member of the
sorted set is the request's `id`, the `X-Request-Id` that the client sends, or a UUID if it sends none
(proxy_handler.go:293-303). Nothing keeps a client from sending one id again and again: the script
then gives the member that is there another score, the count does not grow, and any number of requests
pass. "memberHint should be the requestID (a UUID), so each request is a unique member" says the comment
above `Allow` (rate_limit_cache.go:79-80), and nothing makes it so. `LimitHolds` therefore
counts ids, which is to count requests where each has its own; and since a request may put the score of
its id's member back to an earlier reading, the window in which a repeated id is sure to count is shorter
by the disorder of the clocks once more (`Back`).

**RouteSync.** A list is the revision of each of its documents; an ETag is the list it was computed
from. A control-plane request writes MongoDB, reads an edited document back (`Reread`), and then
writes its entry in Redis and publishes the reload (`Tell`): three steps, with a kill in between. A
link between a package and a service that is made or dropped is an edit of the service; a link's
paths and a package's limit change the list without telling anyone (`WriteQuietly`). What a request
or a control-plane pod at its start writes of a service is not what a gateway saves of it: `SyncService`
builds the entry of the document alone, without package ids and limits (gateway_redis_sync.go:128-134), and
a change of links puts in the ids but not the limits (package_svc_link_service.go:123-132). Such an
entry of a revision is its negative (`Told`). A gateway that starts without the control plane loads these
too, and until its first sync serves the service without limits, or, if it is private and the entry names
no package, serves it to nobody;
`SnapshotIsCurrent` says that the revision is the latest all the same. A gateway's
sync is led by the goroutine of the poll loop or of the event loop, one list after the other; the
other goroutine waits for it (`joined`), as singleflight has it. `ClearSnapshot` and `FillSnapshot`
are the `DEL` and the `HSET`s of a pipeline that is no transaction: what other writers do to the same
hash comes before, between or after them. The `HSET`s of one pipeline are one step. `ResponseCut` is
a body that ends early, together with the retry that is answered 304.

**UniqueCheck, Packages, ServiceConfig, Accounts.** The control plane's requests are sequences of
database calls. `req` holds what each handler has read and which call comes next; between any two
calls another handler, a failure or a kill may come, and a failed look-up is often taken for "not
found", as the code has it. `UniqueCheck` is the abstract specification of their checks: a claim is
made when nobody has the name, and written later. `AliasCheck`, `LinkCheck` and their like in the
three modules are refinement mappings: names are the documents' fields, claims what handlers are
about to write. `serial` records that no two requests have overlapped and nothing has failed; the
`Serial...` invariants say what then must be exact, and they are hard even so: an update that is
rolled back, a source shared by two services, a package deleted with members.
`PackagePaths` holds the pure part of links, `FindBestRateLimit` with the order in which Go ranges
over a map as a choice. In `Accounts`, Redis's keys (`live`, with those that hold a later time, which is the
order of `ScanByUser`) and MongoDB's records (`record`) are kept apart, and `revoked` and `raised` are
the history that `RevokedStays` and `RolesAreRoots` need. `ScanByUser` is a loop of `SCAN`s and then a
pipeline of `TTL`s and `GET`s (session_cache.go:72-119), so a login or a revocation begins to look (`Login`,
`ScanOthers`) and later has its answer (`ScanSessions`, `DeleteAllSessions`). In between, Redis promises
the keys that were there all the time; one that was deleted, or set, meanwhile may be returned or missed,
and the order is known only of those that stayed as they were (`Scanned`, `Older`). `unseen` records which
keys others set since a request began to look, and which a failure made it leave. `SessionLimit` is the
bound that follows: a login leaves no more than the limit and those. (A key that a rehash of
Redis makes `SCAN` return twice counts once in the model; the code would end a session too many.)

`Packages` has the entry that a service has in Redis as the set of packages it names. `SyncServicePackageIDs`
writes it for a change of links and in the second pass of the job at a pod's start; `SyncService`, for a
created or updated service and in that job's first pass, writes it with no packages at all (`EditService`,
`Bare`). So the entry is what was written last, and `SerialExact` says that it names the service's packages,
or none because the service itself was written since.

**ProxyCache.** Time is the age of an entry and what it has left, so that states stay finite. A look-up
in Redis asks for the entry and then for its time left, in one pipeline but no transaction
(upstream_cache.go:235-262): between `GetRedis` and `ReadTTL` any request or pod may store, and the key may
expire. The time is told to the nearest second (`Rounded`), and where there is none the entry is taken for
new. The copy in memory lives for what was told. So memory may outlive Redis, by up to half a second, or by up
to the time to live if the time was another entry's (`torn`). The comment at memory_cache.go:10-11 says (in
Thai) that entries always expire by the same TTL as in the lower tier and are never staler than there: that
is so but for these two. A request
that misses joins the call of its key or leads it; a result is a body or the name of an open stream,
which the first of the sharers may claim. `MemoryFits` is the memory tier's accounts, `TypeOK` says that
whatever is stored has a time to live: a `SET` of Redis without one keeps its entry for ever. That
rests on `DefaultTTL > 0`, an assumption about the configuration: nothing checks it (config.go:117). An
upstream may fail at any time, which stands for the breakers in every state.

**PathTrie.** A node is named by the edges that lead to it, so the trie is a function from sequences
of edges. `Answers` is what the depth-first search may return at a node, given what it may return at those
one edge below: the first of literal, pattern, parameter and wildcard that leads anywhere (`FirstFound`),
so that it backtracks as the code does. `Search` applies it from the nodes where the request ends up to
the root. What follows the first "*" of a path makes no node and no difference (`Body`): the control plane
says that "*" may be the last segment only, but checks the suffix alone and accepts "/a/*/b/*"
(gateway_service_service.go:110-118). The reference, `Covers` and `Better`, is written from the paths in
the list alone. The specification is `TrieSpec`, so that the proofs can have it beside that of `RouteSync`.
A segment of a request or of a source's URL is a text with an extension or none, and a placeholder is
the text of its name in braces (`Braces`, `Spelt`). `ResolveSourcePath` replaces one parameter after
another, in any order, as Go ranges over the map, and then makes the regular expression's pass over what is
left (proxy_service.go:93-105). A value that is itself a placeholder is replaced like one: under "/{x}/{y}" a
request for "/%7By%7D/7" goes upstream as "/7/7". `Plain` keeps such requests, of a placeholder of the
resource's own parameters, out of the two properties. No request has a segment "{name}.ext" (`WellFormed`): the
trie would follow a pattern's edge of that very text as if it were a literal, and bind nothing (trie.go:177-182).

**TransformConfigs.** A path is a sequence of segments, a segment one of letters, because a pattern
may end with "*" within a segment. `Update` and `Delete` find their document and write it in two
steps; a write misses a document deleted in between. `FindAllActive` leaves open in which order
MongoDB returns documents of one millisecond, `Place` is a step of the insertion sort. Each service has one
resource, whose declared path answers requests of one path or of many (`Covers`, in paths below the
service's base path), and `Chosen` is what the proxy handler asks for: it passes the declared path.

## Runs

| Run | Asks | Answer |
| --- | --- | --- |
| `log_pipeline` | Is what is acknowledged stored, are copies always due to a failure, does everything in the stream settle, and is that the contract of `LogDelivery`? | yes |
| `user_freshness` | Does the cache end with the current fields after the last edit, an open breaker in between or not, and does a deleted user's data leave it for good? | yes |
| `api_keys` | Does a revoked secret stop working for good, whoever wrote last? | yes, by the TTL at the latest |
| `rate_limit` | Does no tier admit requests of more ids than its limit, and is Retry-After long enough? | yes, up to the disorder of the clocks; requests that repeat an id count as one |
| `route_sync` | Does a gateway end with the latest lists, never go back to earlier ones, never lose its routes to an answer, and does the snapshot end with the lists' revisions? | yes, a response cut off excepted, and for a service perhaps without packages and limits |
| `packages` | Are counters, the entry in Redis and the limits served right while requests come one at a time, and names as unique as `UniqueCheck` says when they overlap? | yes, but the entry of a service that was written since names no package |
| `service_config` | Does every alias keep its source, and the snapshot its services, through rollbacks and cleanups, and are names as unique as `UniqueCheck` says? | yes |
| `accounts` | By how much can the limit on sessions be exceeded, does an ended session stay ended, who can make an admin? | by the sessions that others set while a login looks, and those a failure leaves; yes, but for a refresh under way; a root only |
| `proxy_cache` | Is every hit fresh, do the memory tier's accounts hold, has a stream one reader? | yes, to half a second, but for an entry that is stored again or expires during a look-up |
| `path_trie` | Does the search find the best resource, and is a mirrored source called with the request's own segments? | yes, unless one of them is a placeholder of that resource |
| `transforms` | "`match.path` is the request path pattern. `/*` matches all paths, `/collections/*` matches sub-paths" (docs/response-transforms.md:35) | no: it is compared with the declared path, and below a resource "/*" a transform for "/a/*" never applies |
| `path_placeholders` | "`{param}` placeholders ... substitutes whatever the caller asked for" (docs/getting-started.md:55-57) | no: a path that names a shared segment differently keeps its placeholder |

Each property is stated at the end of its module, after a comment that says what it means for the
code. Every property of a passing run comes with a mutant, an operator just above the definition it
mutates: the bug that the property is there to find.

**Bounds.** `log_pipeline` has two logs, one undecodable, one worker with a queue of one, two pods,
batches of two, retention of one and two failures: the queue fills, the stream trims what is
pending, a batch fails in part, a pod dies with a batch and the other takes it over, and that one
may fail as well. A third failure adds repetitions of those; a third pod has no loop that a second
has not. `user_freshness` has one user, two edits, queues of one and two failures: two edits are what
it takes for an old snapshot to overtake a new one, two failures in a row open the breaker (three in the
code), and users share only the slots and the breaker.
`MaxPending` bounds the refreshes that wait; more of them join the same call. `api_keys` has one key,
two handlers and two changes (one secret and its successor). `rate_limit` has three requests, with
ids of their own or shared ones, against limits of two and one, so both tiers fill, deny, and evict within
three ticks; the theorems drop the bounds. `route_sync` has two items in each of the three lists, one of them there at the start, so
that lists get empty, grow and shrink; two edits, one of which may be announced to nobody; and one
failure or restart. It has one gateway and one handler: gateways share only the snapshot, and
`SnapshotIsCurrent` is about requests that do not overlap (two handlers that tell in the other order
than they wrote leave an older entry until the next sync that finds its list changed). The theorems
are for any gateways and handlers. `WriteQuietly` waits until its handler has nothing left to tell.
`packages`, `service_config` and `accounts` have two handlers, three requests and one failure or
restart: two requests that overlap and a third that meets what they left, which is how a counter that
is off by one, an orphan or a session written back shows. `packages` has a package there at the start,
another that may be created, two aliases and a service with a path below a wildcard;
`service_config` two services, two sources and bodies with an inline source, a shared one, both and a
conflicting pair of paths; `accounts` a root, an admin and a user yet unknown, a limit of one
session and five of them; `packages` also has one job or request of another component, which may be
the update of its service. `proxy_cache` has two requests at a time out of three, three keys of which one is
transformed, a memory tier that holds two of them, and bodies below, at and above what is cached and
buffered; a second is two ticks, so that a time left is rounded both up and down. `path_trie` has one
service below the other and thirteen paths of every kind of segment, so
that literals, patterns, parameters and wildcards meet in one node, a search must backtrack over
two levels, and two parameters are filled in, in either order; one segment asked for is a placeholder.
`transforms` has two writes and a service with the resource "/*"; `path_placeholders` needs two paths and
no failure.

**Fairness.** Weak fairness of what a running goroutine does next, of Redis, MongoDB and the control
plane answering (their failing is an action without fairness, and failures are bounded), of time
passing for TTLs and timeouts, and of the orchestrator restarting what ended. `Acquire` of a lookup
slot has strong fairness: Go serves those who wait on a channel in order. In `UserFreshness` users
keep sending requests: without one the cache has no reason to be right. In
`RouteSync` gateways start, poll, take reloads and finish their syncs (`StartPolling` is a loop
without an exit but the process's end); nothing is assumed of the control plane's requests, which
may be killed before they tell Redis. In `TransformConfigs` the gateway's poll succeeds in the end.
`Packages`, `ServiceConfig`, `Accounts`, `ProxyCache` and `PathTrie` state safety and assume no
fairness. Nothing is assumed of edits,
arriving requests, signals or failures. `GrowsIdle` needs that a loop holds a batch for less than the
minute of `reclaimIdle`: it flushes after a second, blocks for two and gives a flush ten. A pod
paused for longer than that is outside the model.

## Proofs

TLC says that the properties hold of a few logs or requests; the theorems say it for any.

`LogPipelineProofs` proves the five invariants of `LogPipeline`. `AckedIsStored` is not inductive: an
acknowledgement takes ids out of `pel`, and only what the loop did before tells that they were
stored. The inductive invariant `IInv` adds that a loop whose program counter is "ack" holds only
entries that are stored, undecodable or trimmed (`AckHoldsStored`), that no held entry is idle
(`IdleUnheld`, with `NoDoubleWork`, which needs it to survive `Claim`), and who paid for each copy
(`CopiesArePaid`): an entry has at most as many documents as there were failures, and one more only
once it is acknowledged or held by a loop about to acknowledge it.

It also proves `Spec => ImplementsDelivery`. With `owed` as the pending and undelivered
entries, `PublishLog`, `Insert` and its failure, `Ack` and a `Claim` that finds trimmed entries are
the abstract steps and all others stutter; `IInv` gives what `Settle` asks for, and `TrimBound` that
what is written off is older than the retention.

`RateLimitProofs` proves `TypeOK`, `LimitHolds` and, for tiers whose windows differ,
`RetryAfterIsHonest`. The limit rests on what a sorted set remembers (`SetsRemember`): the id of a
request that a tier added is in its set, with that score or a later one, or one that another request of
the same id put back by no more than the clocks' disorder (`Back`), until its window has passed it by on every
clock. `SetsAreTouched` lets that survive the key's TTL and `ReadingsAreRecent` the eviction by
another pod's clock. Then the ids that the tier admitted in the shortened window before a reading are
still in the set the script counts. `RetryAfterIsHonest` rests on `RoomComes`: a set has no more
members than the limit, so when the oldest leaves there is room. Tiers that share a window share a
set (`RateLimitKey`), which may hold more members than the smaller limit, so room need not come when
the oldest leaves: hence the hypothesis `WindowsDiffer`.

`RouteSyncProofs` proves `TypeOK`, `NoRegression`, `RoutesSurvive` and `SnapshotIsCurrent`. Neither
action property
follows from one action's guard: what `Swap` puts into the table was fetched several steps before.
The inductive invariant says what became of the world in between: one caller of a gateway leads a
sync at a time (`OneFlight`), a gateway that still loads the snapshot does not sync (`LoadsFirst`),
no table is newer than MongoDB (`TableWasRead`), and an answer under way is no older than the table
it will replace, no newer than MongoDB, and not empty where an empty one is refused
(`AnswerIsNewer`). `OneFlight` is what the last needs: without singleflight the other caller's swap
would make the table newer than the answer. That is the mutant `DoSyncAlone`. `TableStep` then lists
the three ways a table can change.

`SnapshotIsCurrent` is about what is left when requests and syncs have all ended: entries of the latest
revisions, each as a gateway or as the control plane writes it (`InStep`). Its invariant
(`Settles`) says of each document why the snapshot may not have it yet: a gateway has not seen the list
or is about to save it (`Behind`), a request has yet to tell (`StillOwed`), or a pipeline is between its
`DEL` and its `HSET`s (`Filling`). It holds because a gateway saves the very list whose ETag it keeps
(`SavesKnown`): what it puts back over a newer entry is an older list, so its next poll is answered 200
and it saves again. An expiry of the hash is the other case (`Expired`), since a later `HSET` of one entry
does not bring the others back. A deletion is the reason for the case distinction between the two: a
deleted document has no revision a gateway could be behind of. `SnapshotSettles` has any number of
handlers and one hypothesis of them, `ToldAsWritten`, that no other request edits a document (or a limit
of a service) between a request's reading it and telling Redis; without it the later write to Redis may be
the older one. `OneWriterSettles` shows the hypothesis to hold of requests that come one at a time. Both
need a gateway: without one nobody repairs what requests leave of each other.

The module goes on with the trie that a gateway builds from the list it took over: `MatchIsBest` and
`MirrorsRequest` of `PathTrie`, for any services, paths and requests. The invariant of the specification is
short, the trie is `LoadBulk` of the list (`ListLoaded`); the work is in what such a trie is and what the
search makes of it. A trie holds what was inserted (`Holds`): a node is there for each prefix of a path's
edges, and its resource is one of those that end at it, whatever the order. That is shown of
one insertion (`InsertHolds`) and carried through both loops of `LoadBulk` (`ServiceHolds`, `BulkHolds`).
The search is right at a node (`RightAt`) if it returns something exactly when a resource below the node
covers the request, and only what no other one below is better than. It is so at the nodes where the
request ends (`Leaf`), and at any other if it is at those one edge below (`Inner`): candidates below edges
of different kinds differ in rank at the node's depth, so the first kind with an answer decides, and within
one kind the comparison is that of the children (`OneRank`). `SearchRight` takes this up to the root.
For `MirrorsRequest`, if the names on a way are the path's own, each parameter has the value of the segment
it stood for (`OwnNames`). What one replacement after another makes of a source's path is an induction over
the order of the parameters: each segment is as it was written or already the caller's (`HalfFilled`,
`ReplacedIs`), since no value is a placeholder (`Plain`), and what the last pass meets is filled then
(`RefilledIs`). With what remains behind a "*" that is the request (`Whole`). The inductions use lemmas on loops (`Steps`, `Loops`), described below at `PackagesProofs`.

`UniqueCheckProofs` proves `AtMostWriters`: a name has at most as many holders as there are requests
at a time, and one more for each look-up that failed. The invariant counts a name's documents together
with the documents that are claimed for it. A look-up that finds nobody adds the first document or
one more claim of a request that had none; a write turns a claim into a name. `AccountsProofs`,
`ServiceConfigProofs` and `PackagesProofs` prove that email addresses, base paths, source aliases, package
aliases and links implement `UniqueCheck` and carry the bound over.

`AccountsProofs` rests on what requests may hold (`RequestOK`, a case for each step) and on who owns what
is in hand (`SessionsOwned`). For `RevokedStays` the invariant adds that no refresh of a revoked session
is under way (`RevokedGone`), for `RolesAreRoots` what an update in hand may still write: a plain user's
role, or its actor's own, which a root gave (`RolesGranted`). `SessionLimit` is a property of the step that
takes a session, and its invariant (`RoomInv`) says what a login has made sure of by then: of the sessions it
has an account of, those not in `unseen`, less those it is about to delete, there are so few that there is
room for its own. The `SCAN` makes it so, because it returns every key that was there all the time (`Scanned`);
others' deletions only make room, and what others set goes to `unseen` in the same step; a deletion
that fails puts what it was to delete there.

`ServiceConfigProofs` proves the types, `UniqueNames` with its bound, `SerialRefs` and `SerialSnapshot`. A
request's claim lasts from its look-up to its last write: that may be the rollback's, which writes the
base path the update began with, so an update claims both. The two serial properties are invariants about
the one request at hand. For `SerialRefs` (`Kept`, `RefsBut`) a service may be without a source only when
that request is about to insert it, or to delete the service; a cleanup has counted each other
service that refers to its alias, which needs that the count at hand is of the services as they are. For
`SerialSnapshot` (`Follows`, `SnapshotBut`) Redis has what MongoDB has but for what that request has yet to
write, and what a rollback goes back to is what Redis was told last (`Told`): that is why the rollback may
tell Redis nothing.

`PackagesProofs` proves the types, `UniqueNames` with its bound, `SerialExact` and `LimitsAreOwn`.
`SerialExact` is about the times between requests; its invariant (`OneAtATime`) says what holds within
them: everything is exact but for what the request at hand has yet to count (`DueUsers`, `DueLinks`) and
the entry it has yet to write (`Rewrites`), or that has come to name no package (`Bare`) since a service's own
update replaced it, and what it has read is still so (`RequestKept`): the
numbers `CountByOldPackageIDs` gave it are those of the users it is about to move. The counters it
changes by steps are then those of finite sets that have gained or lost a known number of members. A
deleted package's counters are of no interest, and `$inc` does not touch them; that they are missing
nowhere else needs that a package that was never there has no members and no links, and that a link's id
is used once (`NeverThere`).

`LimitsAreOwn` is about what the loops of `buildRateLimitMap` and `findBestRateLimit` compute from any
links. Each loop is a recursive function of its passes. What holds after all of them is shown by
induction, which is stated of sets (`Steps`: a set that has 0 and, with each pass, the next one has the
last) and rests on the least element of a set of naturals; the library's induction theorem takes an
operator and cannot be used. That a loop is what its equation says is proved as well (`Loops`), for
passes that stay in a set. For the limit map the set is that of the maps whose every limit a link of
its package sets (`OwnMaps`, `BuildOwn`); the search ends with the longest pattern above the path
(`BestWildcardIs`). `BestFound` needs in addition that an order of the map goes through all of it
(`OrderedAll`).

`ProxyCacheProofs` proves the types, `HitsAreFresh`, `OneReader` and `MemoryFits`. An entry carries its
age with it, and what is invariant is not its age but the sum of that and the time it has left
(`InTime`): in Redis no more than its time to live; elsewhere half a second more, which is what the rounding
adds (`Half`), or twice the time to live for one that got another entry's time, in memory as in a request's hand. For streams (`StreamsRead`) a claimed one has a
reader, and an open one a request that is still to claim it; a result takes a name no other request has,
which is free because each request holds one at most (`FreshIsFree`, by counting the other requests).
The memory tier's bytes (`Bytes`) are those of a set, in which each byte is told by its entry's key: no
key being in memory twice, entries are disjoint, and the count of a list is the sum of those of its
parts (`Cut`, `InFront`, `TakenOut`). That is how the running count of `set` and `removeLocked` is shown
to be what the entries take, and eviction to stop within the budget.

The assumptions are those of the `ASSUME`s: as many names of streams as requests, positive capacities,
finitely many requests and users, at least one tier (`Allow` returns early otherwise), a start in which
addresses, base paths and aliases are unique and resource paths accepted, links with a path at least, and
values for "none", "unset" and "off" that are not values of the data and differ. Checked but not proved:
liveness (fairness is out of the prover's reach); the properties of `UserFreshness` and `ApiKeySync`, which
are liveness but for their types; and what the two runs refute.

## What is not modelled

- Redis losing what it acknowledged, MongoDB's replication, and pauses beyond the timeouts above.
- The clocks of control-plane pods are one clock in `UserFreshness` and `ApiKeySync`: skew between
  them makes the version guard weaker than the runs show. `RateLimit` has the skew.
- `sync-contract.md` promises at-least-once delivery "of all access logs". `LogPipeline` shows where
  the promise begins and ends: a log that a full queue, exhausted attempts or a kill stops before the
  stream (`abandoned`) and an entry that falls off `MAXLEN` (`trimmed`) are lost. The properties
  name both rather than exclude them.
- In `RouteSync` a document is a revision: references between the three lists and the polling
  breaker's states (a failed fetch stands for an open one) are not in it. Services are fetched after
  sources (hybrid.go:85), so a service and its inline source created in between give a route whose
  source is missing until the next sync. Which packages and limits an entry has is a sign there (`Told`);
  which packages it names is in `Packages`.
- Behaviour that the modules show and the properties are stated around, because no document promises
  otherwise or only its wording does: an event may put older fields over what a poll wrote
  (sync_event_service.go:126); a package change may wait for the TTL when its refresh joins an earlier
  lookup (user_cache.go:119); key entries expire while polls are answered 304 (app.go:241); a deleted
  key can come back through a late event until its TTL is over (api_key_service.go:394); a request that
  a later tier denies keeps its place in the earlier ones (rate_limit_cache.go:93); a list cut off in
  transit is not fetched again until it changes (http_provider.go:111); a reload may join a sync that
  read its list before (hybrid.go:84); a link to "/a/{x}/*" may be created for the path "/a/{x}/c", but its limit
  never reaches that path, because the search replaces "{x}" by "*" first (rate_limit_payload.go:127).
- `LimitsAreOwn` says that what a package is served is its own, not that it is served all it sets. A path gets
  one entry of the limit map (`FindBestRateLimit`, rate_limit_payload.go:123), whichever packages are in it:
  with package p1 linked to "/*" with a limit and p2 to "/a" with another, the resource /a carries p2's limit
  alone, and the gateway, which finds no tiers for p1 (proxy_handler.go:314), serves p1's callers /a unlimited.
  The comment at rate_limit_payload_test.go:31-33 says of "/*" that "every resource has to carry the package's
  limit"; the tests have one package, or look at one.
- Nothing says which of two patterns that differ in their names only answers: they are tried in the order
  of a Go map (trie.go:189), `Search` is the set of what it may return, and the properties hold of each.
- `TransformConfigs` has the order in which patterns are tried (`Place`), but its one property says nothing of
  it: which of several that match is right, and that "/a*" has the score of "/*", so that the newer one wins
  (hybrid.go:216-232), is neither checked nor refuted.
- Contents of logs, headers, messages and bodies; listings and other reads that change nothing;
  profile fields and password rules; the signatures of tokens.
- Per-domain breakers by themselves (a call may fail at any time), notifications (nothing modelled
  depends on them), the rewriting of bodies (a pure function over text), seeding, API documents,
  dashboard queries and the portal.

## Plan

Modelled and checked: all modules above. Proved: every invariant and action property that a run checks,
but for the types of two modules. What is left:

1. `TransformConfigs`: that a poll leaves the table right for the documents it read and the declared paths, the
   most specific first, by the lemmas on loops for the insertion sort (`Place`).
2. `ApiKeySync` and `UserFreshness`: `TypeOK`, with what handlers, events and lookups may hold.

`RouteSync`, `ApiKeySync` and `TransformConfigs` compose through the sync service's event loop,
`ProxyCache`, `PathTrie` and `RateLimit` through `Proxy`; their properties do not cross.
