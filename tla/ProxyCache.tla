------------------------------ MODULE ProxyCache ------------------------------
(***************************************************************************)
(* The gateway's response cache and the upstream call behind it.  An entry *)
(* is looked up in the pod's memory, then in Redis, and copied up; requests *)
(* that miss share one upstream call per cache key.  What the call returns *)
(* is a body that every one of them may use, or a stream with one reader.  *)
(* Time is kept as the age of an entry and the time it has left, in ticks, *)
(* a few to the second: Redis tells the time left in whole seconds.        *)
(***************************************************************************)
EXTENDS Integers, Sequences, FiniteSets, SequencesExt

CONSTANTS
    Conn,         \* requests in the proxy handler at the same time, one after the other each
    Key,          \* cache keys: a method and an upstream URL
    Directive,    \* the requests there are: [bypass, noStore, noCache, maxAge]
    Response,     \* the upstream's answers: [size, sMaxAge, maxAge, cacheable]
    Transformed,  \* keys whose resource has transform rules
    Stream,       \* names of response bodies left open
    NoStream,     \* none of them
    Second,       \* ticks in a second
    DefaultTTL,   \* UpstreamCache.defaultTTL, in seconds as the answers' times to live
    MaxBytes,     \* memoryCache.maxBytes
    Overhead,     \* what an entry takes beside its body
    MaxCacheable, \* MaxCacheableBodyBytes
    MaxBuffer,    \* maxBufferedUpstreamBytes
    MaxRequests,  \* bound of the model: requests in a behaviour
    MaxElsewhere  \* bound of the model: answers that other pods store

\* A request holds one body at a time, so as many names as there are requests are enough.  A default
\* of no seconds would let entries stay in Redis for good: nothing but its setting rules that out.
ASSUME ProxyCacheAssumption ==
    /\ NoStream \notin Stream
    /\ IsFiniteSet(Conn) /\ IsFiniteSet(Stream) /\ Cardinality(Stream) >= Cardinality(Conn)
    /\ {Second, DefaultTTL} \subseteq Nat \ {0}
    /\ {MaxBytes, Overhead, MaxCacheable, MaxBuffer, MaxRequests, MaxElsewhere} \subseteq Nat
    /\ Directive \subseteq [bypass : BOOLEAN, noStore : BOOLEAN, noCache : BOOLEAN, maxAge : Int]
    /\ Response \subseteq [size : Nat, sMaxAge : Int, maxAge : Int, cacheable : BOOLEAN]

VARIABLES
    redis,   \* the entry of each key in Redis, NoEntry for none
    items,   \* memoryCache.ll: the entries in memory, the last used first
    bytes,   \* memoryCache.curBytes
    open,    \* of each stream: none, open, or claimed by its reader
    req,     \* what each request has in hand, and what it does next
    started, elsewhere

memory == <<items, bytes>>
bounds == <<started, elsewhere>>
vars == <<redis, items, bytes, open, req, bounds>>

Idle == [at |-> "idle"]
NoEntry == [ttl |-> 0]

Init ==
    /\ redis = [k \in Key |-> NoEntry]
    /\ items = <<>> /\ bytes = 0
    /\ open = [s \in Stream |-> "none"]
    /\ req = [c \in Conn |-> Idle]
    /\ started = 0 /\ elsewhere = 0

At(c, stage) == req[c].at = stage
GoTo(c, stage) == req' = [req EXCEPT ![c].at = stage]
Finish(c) == req' = [req EXCEPT ![c] = Idle]

-----------------------------------------------------------------------------
(* The memory tier.                                                        *)

\* What entries take in all: every byte of each.
Bytes(list) == Cardinality(UNION {{list[i].key} \X (1 .. list[i].size) : i \in DOMAIN list})
PlacesOf(k) == {i \in DOMAIN items : items[i].key = k}

\* removeLocked, of the entry of k if there is one.
Remaining(k) == IF PlacesOf(k) = {} THEN items ELSE RemoveAt(items, CHOOSE i \in PlacesOf(k) : TRUE)
BytesWithout(k) == bytes - Bytes([i \in PlacesOf(k) |-> items[i]])
Drop(k) == items' = Remaining(k) /\ bytes' = BytesWithout(k)

\* Mutant of Added: the entry that is replaced is still counted.
AddedCounting(k, item) == [list |-> <<item>> \o Remaining(k), total |-> bytes + item.size]

Added(k, item) == [list |-> <<item>> \o Remaining(k), total |-> BytesWithout(k) + item.size]

\* memoryCache.set, of an entry with time left; one that is too large is not kept. Entries are dropped
\* from the back until the rest fits.
SetMemory(k, e) ==
    LET item == [key |-> k, age |-> e.age, left |-> e.left, ttl |-> e.ttl, torn |-> e.torn,
                 size |-> e.size + Overhead]
        all == Added(k, item)
        Left(n) == all.total - Bytes(SubSeq(all.list, n + 1, Len(all.list)))
    IN \/ /\ e.left <= 0 \/ item.size > MaxBytes \div 2
          /\ UNCHANGED memory
       \/ /\ e.left > 0 /\ item.size <= MaxBytes \div 2
          /\ \E n \in 0 .. Len(all.list) :
                 /\ n = 0 \/ Left(n) <= MaxBytes
                 /\ \A m \in n + 1 .. Len(all.list) : Left(m) > MaxBytes
                 /\ items' = SubSeq(all.list, 1, n) /\ bytes' = Left(n)

\* An entry taken from memory, which counts as used.
Use(i) == items' = <<items[i]>> \o RemoveAt(items, i) /\ UNCHANGED bytes
Taken(i) == [age |-> items[i].age, left |-> items[i].left,
             ttl |-> items[i].ttl, torn |-> items[i].torn, size |-> items[i].size - Overhead]

-----------------------------------------------------------------------------
(* The look-up.                                                            *)

\* A request that passed routing, authentication and its rate limit, to a source that
\* is proxied: whether it may use the cache, and whether it looks there first.
Arrive(c) ==
    /\ At(c, "idle") /\ started < MaxRequests
    /\ \E k \in Key, cd \in Directive :
         req' = [req EXCEPT ![c] =
                   [key |-> k, cd |-> cd,
                    at |-> IF cd.bypass \/ cd.noStore \/ cd.noCache THEN "call" ELSE "memory"]]
    /\ started' = started + 1
    /\ UNCHANGED <<redis, memory, open, elsewhere>>

\* The age a look-up reports, in whole seconds, and whether the client takes an entry of that age.
Age(e) == LET whole == e.left \div Second IN IF e.ttl > whole * Second THEN e.ttl \div Second - whole ELSE 0
Accepts(cd, e) == cd.maxAge < 0 \/ Age(e) <= cd.maxAge
Serve(c, e) ==
    req' = [req EXCEPT ![c] = IF Accepts(req[c].cd, e)
                              THEN [at |-> "hit", entry |-> e] ELSE [@ EXCEPT !.at = "call"]]

\* memoryCache.get: an entry past its time is dropped, at its last instant it still counts.
Expired(e) == e.left < 0
GetMemory(c) ==
    /\ At(c, "memory")
    /\ LET places == PlacesOf(req[c].key) IN
       \/ places = {} /\ GoTo(c, "redis") /\ UNCHANGED memory
       \/ \E i \in places : Expired(items[i]) /\ GoTo(c, "redis") /\ Drop(req[c].key)
       \/ \E i \in places : ~Expired(items[i]) /\ Serve(c, Taken(i)) /\ Use(i)
    /\ UNCHANGED <<redis, open, bounds>>

\* UpstreamCache.Get asks Redis for the entry and then for its time left.  No transaction
\* holds the two together: another request, or another pod, may store in between.
GetRedis(c) ==
    /\ At(c, "redis")
    /\ \/ GoTo(c, "call")                       \* no entry, or Redis fails
       \/ /\ redis[req[c].key] # NoEntry
          /\ req' = [req EXCEPT ![c] = [at |-> "ttl", key |-> @.key, cd |-> @.cd, entry |-> redis[@.key]]]
    /\ UNCHANGED <<redis, memory, open, bounds>>

\* Redis tells the time left to the nearest second.
Rounded(left) == ((left + Second \div 2) \div Second) * Second
Shorter(s, t) == IF s < t THEN s ELSE t

\* Mutant of TimesLeft: the time an entry has left is not asked for.
TimesLeftIgnored(e, now) == {e.ttl}

\* The times left that e is given by what TTL says of the entry there is now.  Where TTL finds no
\* key, or would the next moment, the age is taken for none.
TimesLeft(e, now) ==
    (IF now = NoEntry THEN {} ELSE {Shorter(Rounded(now.left), e.ttl)})
    \cup (IF now = NoEntry \/ now.left = 0 THEN {e.ttl} ELSE {})

\* The entry is torn when it got a time that is not its own.
ReadTTL(c) ==
    /\ At(c, "ttl")
    /\ LET now == redis[req[c].key] e == req[c].entry IN
       \E left \in TimesLeft(e, now) :
         req' = [req EXCEPT ![c].at = "copy", ![c].entry.left = left,
                            ![c].entry.torn = now # e \/ (e.left = 0 /\ left > 0)]
    /\ UNCHANGED <<redis, memory, open, bounds>>

\* UpstreamCache.saveL0, and the answer to the look-up.
SaveMemory(c) ==
    /\ At(c, "copy")
    /\ SetMemory(req[c].key, req[c].entry)
    /\ req' = [req EXCEPT ![c] =
                 IF Accepts(@.cd, @.entry) THEN [at |-> "hit", entry |-> @.entry]
                 ELSE [at |-> "call", key |-> @.key, cd |-> @.cd]]
    /\ UNCHANGED <<redis, open, bounds>>

\* The entry goes out, or 304 to a client that holds it.
AnswerHit(c) == At(c, "hit") /\ Finish(c) /\ UNCHANGED <<redis, memory, open, bounds>>

-----------------------------------------------------------------------------
(* The call.                                                               *)

Calling(k) == \E c \in Conn : At(c, "fetch") /\ req[c].key = k

\* singleflight.Do: the first request calls, the others wait for what it gets.
JoinCall(c) ==
    /\ At(c, "call")
    /\ GoTo(c, IF req[c].cd.bypass THEN "alone" ELSE IF Calling(req[c].key) THEN "wait" ELSE "fetch")
    /\ UNCHANGED <<redis, memory, open, bounds>>

\* A name no request still holds.
Fresh == CHOOSE s \in Stream :
            open[s] = "none" /\ \A c \in Conn : At(c, "result") => req[c].stream # s

\* ProxyService.Do: an answer of any status, or an error or an open breaker.
Failed == [size |-> 0, sMaxAge |-> -1, maxAge |-> -1, cacheable |-> FALSE, failed |-> TRUE]
Do == {Failed} \cup {[size |-> a.size, sMaxAge |-> a.sMaxAge, maxAge |-> a.maxAge,
                     cacheable |-> a.cacheable, failed |-> FALSE] : a \in Response}

\* fetchFromUpstream: a body that was not buffered, or did not fit, is left open.
Streams(a, buffered) == ~a.failed /\ (~buffered \/ a.size > MaxBuffer)

\* Every request of the call has the same result.
Sharing(c) == {c} \cup {d \in Conn : At(c, "fetch") /\ At(d, "wait") /\ req[d].key = req[c].key}

Fetch(c) ==
    /\ At(c, "fetch") \/ At(c, "alone")
    /\ \E a \in Do :
         LET streams == Streams(a, At(c, "fetch") \/ req[c].key \in Transformed)
             s == IF streams THEN Fresh ELSE NoStream
         IN /\ req' = [d \in Conn |->
                         IF d \in Sharing(c)
                         THEN [at |-> "result", key |-> req[d].key, cd |-> req[d].cd,
                               answer |-> a, stream |-> s]
                         ELSE req[d]]
            /\ open' = IF streams THEN [open EXCEPT ![s] = "open"] ELSE open
    /\ UNCHANGED <<redis, memory, bounds>>

\* Mutant of Claims: every request that shares a stream takes it.
ClaimsAlways(s) == TRUE

\* claimStream
Claims(s) == open[s] = "open"

\* IsCacheableResponse and IsCacheableSize, and no Vary that blocks the cache.
Storable(a) == a.cacheable /\ a.size <= MaxCacheable

TakeResult(c) ==
    /\ At(c, "result")
    /\ LET s == req[c].stream a == req[c].answer IN
       \/ /\ s # NoStream /\ Claims(s)
          /\ open' = [open EXCEPT ![s] = "claimed"]
          /\ GoTo(c, "write")
       \/ /\ s # NoStream /\ ~Claims(s)
          /\ GoTo(c, "refetch") /\ UNCHANGED open
       \/ /\ s = NoStream /\ ~a.failed /\ Storable(a)
          /\ ~req[c].cd.bypass /\ ~req[c].cd.noStore
          /\ GoTo(c, "store") /\ UNCHANGED open
       \/ /\ s = NoStream
          /\ a.failed \/ ~Storable(a) \/ req[c].cd.bypass \/ req[c].cd.noStore
          /\ Finish(c) /\ UNCHANGED open
    /\ UNCHANGED <<redis, memory, bounds>>

\* A request that came too late for the stream calls for itself, and claims what it gets.
Refetch(c) ==
    /\ At(c, "refetch")
    /\ \E a \in Do :
         IF Streams(a, FALSE)
         THEN /\ open' = [open EXCEPT ![Fresh] = "claimed"]
              /\ req' = [req EXCEPT ![c].at = "write", ![c].stream = Fresh, ![c].answer = a]
         ELSE Finish(c) /\ UNCHANGED open
    /\ UNCHANGED <<redis, memory, bounds>>

\* writeStreamedBody: to the end, or to the first error; the stream is closed.
WriteStream(c) ==
    /\ At(c, "write")
    /\ open' = [open EXCEPT ![req[c].stream] = "none"]
    /\ Finish(c)
    /\ UNCHANGED <<redis, memory, bounds>>

-----------------------------------------------------------------------------
(* Storing.                                                                *)

ExtractTTL(a) == IF a.sMaxAge >= 0 THEN a.sMaxAge
                 ELSE IF a.maxAge >= 0 THEN a.maxAge ELSE DefaultTTL

\* Mutant of TTL: what was asked for is not replaced by the default.
TTLAsked(a) == ExtractTTL(a)

TTL(a) == IF ExtractTTL(a) <= 0 THEN DefaultTTL ELSE ExtractTTL(a)
Entry(a) == [age |-> 0, left |-> TTL(a) * Second, ttl |-> TTL(a) * Second, torn |-> FALSE, size |-> a.size]

\* UpstreamCache.Set: Redis first; when that fails, or its reply is lost, memory is not written.
Store(c) ==
    /\ At(c, "store")
    /\ \/ /\ redis' = [redis EXCEPT ![req[c].key] = Entry(req[c].answer)]
          /\ GoTo(c, "mirror") \/ Finish(c)
       \/ UNCHANGED redis /\ Finish(c)
    /\ UNCHANGED <<memory, open, bounds>>

Mirror(c) ==
    /\ At(c, "mirror")
    /\ SetMemory(req[c].key, Entry(req[c].answer))
    /\ Finish(c)
    /\ UNCHANGED <<redis, open, bounds>>

\* Another pod stores what it fetched.
StoreElsewhere ==
    /\ elsewhere < MaxElsewhere /\ elsewhere' = elsewhere + 1
    /\ \E k \in Key, a \in Response : Storable(a) /\ redis' = [redis EXCEPT ![k] = Entry(a)]
    /\ UNCHANGED <<memory, open, req, started>>

\* A tick passes.  What lies between the first question to Redis and the entry's copy in memory
\* is far shorter.  An expired entry stays in memory until it is looked up or evicted; its
\* age no longer matters.
Older(e) == IF Expired(e) THEN e
            ELSE [e EXCEPT !.left = @ - 1, !.age = IF e.left = 0 THEN 0 ELSE @ + 1]
Tick ==
    /\ \A c \in Conn : req[c].at \notin {"ttl", "copy", "mirror"}
    /\ redis' = [k \in Key |-> IF redis[k] = NoEntry \/ redis[k].left = 0 THEN NoEntry
                               ELSE Older(redis[k])]
    /\ items' = [i \in DOMAIN items |-> Older(items[i])]
    /\ UNCHANGED <<bytes, open, req, bounds>>

Next ==
    \/ \E c \in Conn :
         \/ Arrive(c) \/ GetMemory(c) \/ GetRedis(c) \/ ReadTTL(c) \/ SaveMemory(c) 
         \/ AnswerHit(c) \/ JoinCall(c) \/ Fetch(c) \/ TakeResult(c) \/ Refetch(c) \/ WriteStream(c)
         \/ Store(c) \/ Mirror(c)
    \/ StoreElsewhere
    \/ Tick

Spec == Init /\ [][Next]_vars

-----------------------------------------------------------------------------
(* Properties.                                                             *)

Stage == {"idle", "memory", "redis", "ttl", "copy", "hit", "call", "fetch", "alone", "wait",
          "result", "refetch", "write", "store", "mirror"}

\* Types. What is stored has a time to live: without one, it would never expire in Redis.
TypeOK ==
    /\ \A k \in Key : redis[k] = NoEntry \/ (redis[k].ttl > 0 /\ redis[k].left \in 0 .. redis[k].ttl)
    /\ \A i \in DOMAIN items :
         items[i].key \in Key /\ items[i].ttl > 0 /\ items[i].left \in -1 .. items[i].ttl
    /\ open \in [Stream -> {"none", "open", "claimed"}]
    /\ \A c \in Conn : req[c].at \in Stage

\* The memory tier's own accounts: no key twice, the byte count is what the entries take, replaced,
\* expired and evicted ones included, and never more than the budget (memoryCache.set, get and
\* removeLocked).
MemoryFits ==
    /\ \A i, j \in DOMAIN items : items[i].key = items[j].key => i = j
    /\ bytes = Bytes(items)
    /\ bytes <= MaxBytes

\* No cached answer goes out after its time to live, counted from the moment a pod stored it,
\* through whichever tier, by more than half a second: a copy in memory lives on for the time Redis
\* told.  The exception, and it is bounded, is an entry whose copy got a time that is not its own,
\* because the key was stored again or expired between the look-up's two questions: that one may
\* live its time once more (UpstreamCache.Get, saveL0; memoryCache.get).
HitsAreFresh ==
    \A c \in Conn : At(c, "hit") =>
        LET e == req[c].entry IN e.age <= e.ttl + (IF e.torn THEN e.ttl ELSE Second \div 2)

\* A body left open is read by exactly one request, and closed by it: as long as nobody has
\* claimed it, one of those that share it is still to try (claimStream, writeStreamedBody).
OneReader ==
    \A s \in Stream :
        LET readers == {c \in Conn : At(c, "write") /\ req[c].stream = s}
        IN /\ Cardinality(readers) = IF open[s] = "claimed" THEN 1 ELSE 0
           /\ open[s] = "open" => \E c \in Conn : At(c, "result") /\ req[c].stream = s
=============================================================================
