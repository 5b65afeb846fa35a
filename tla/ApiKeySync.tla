----------------------------- MODULE ApiKeySync -----------------------------
(***************************************************************************)
(* Where a gateway finds an API key: the Redis entry "apikey:<hash>", which*)
(* both services write.  The control plane's handlers change MongoDB, drop *)
(* and rewrite the entry and publish an event; a lookup of its own and its *)
(* boot job write entries too.  Each gateway writes what an event carries  *)
(* and what the conditional poll of all active keys returns.  Every writer *)
(* works on a snapshot it read earlier, and only a TTL removes what nobody *)
(* deletes.                                                                *)
(***************************************************************************)
EXTENDS Integers, Sequences, FiniteSets

CONSTANTS
    Key,        \* api key ids
    User,       \* who sends requests
    Role,       \* each user's role: "root", "admin" or "user"
    Owner,      \* the user each key is created for, who owns it from then on
    Handler,    \* requests and jobs the control plane runs at the same time
    Gateway,    \* gateway pods
    InboxSize,  \* events on their way to a gateway pod that are not dropped
    MaxWrites,  \* bound of the model: changes of the collection
    MaxFaults   \* bound of the model: failures and restarts

ASSUME ApiKeySyncAssumption ==
    /\ Role \in [User -> {"root", "admin", "user"}] /\ Owner \in [Key -> User]
    /\ InboxSize \in Nat \ {0}
    /\ MaxWrites \in Nat /\ MaxFaults \in Nat

\* A key's secret is its id and how often it was regenerated; entries are per secret.
Secret == Key \X (0 .. MaxWrites)
None == [step |-> "none"]

VARIABLES
    doc,      \* api_keys: "new", "live" or "deleted", the secret's generation, enabled
    handler,  \* where each handler is, and what it read
    redis,    \* the entry of each secret: "absent", "enabled" or "disabled"
    clock,    \* time.Now().UnixMilli()
    inbox,    \* events on their way to each gateway
    seen,     \* eventVersionGuard.seen of each gateway
    etag,     \* the list whose ETag each gateway sends with its polls: <<>> or <<list>>
    poll,     \* the response each gateway is applying: <<>> or <<list>>
    writes, faults

gatewayVars == <<inbox, seen, etag, poll>>
vars == <<doc, handler, redis, clock, gatewayVars, writes, faults>>

SecretOf(k) == <<k, doc[k].gen>>
Snapshot(k) == [key |-> k, secret |-> SecretOf(k), enabled |-> doc[k].enabled]
Live(k) == doc[k].state = "live"
\* FindAllActive: the secrets a poll and the boot job carry.
ActiveSecrets == {SecretOf(k) : k \in {j \in Key : Live(j) /\ doc[j].enabled}}
Entry(enabled) == IF enabled THEN "enabled" ELSE "disabled"
\* The gateway takes a secret if its entry is there and not disabled.
ValidateApiKey(s) == redis[s] = "enabled"

CanManageForUser(u, role) == Role[u] = "root" \/ (Role[u] = "admin" /\ role = "user")
IsOwner(u, k) == Owner[k] = u
CanModifyKey(u, k) == Role[u] \in {"root", "admin"} \/ IsOwner(u, k)

Init ==
    /\ doc = [k \in Key |-> [state |-> "new", gen |-> 0, enabled |-> TRUE]]
    /\ handler = [h \in Handler |-> None]
    /\ redis = [s \in Secret |-> "absent"]
    /\ clock = 1
    /\ inbox = [g \in Gateway |-> <<>>]
    /\ seen = [g \in Gateway |-> [k \in Key |-> 0]]
    /\ etag = [g \in Gateway |-> <<>>]
    /\ poll = [g \in Gateway |-> <<>>]
    /\ writes = 0 /\ faults = 0

Fault == faults < MaxFaults /\ faults' = faults + 1
Write == writes < MaxWrites /\ writes' = writes + 1
Goto(h, state) == handler' = [handler EXCEPT ![h] = state]
SetEntries(S, e) == redis' = [s \in Secret |-> IF s \in S THEN e ELSE redis[s]]

-----------------------------------------------------------------------------
(* The control plane's handlers, one step per access to MongoDB or Redis.  *)

\* Create: Insert; the entry and the event are made from the inserted document.
Create(h, k, enabled) ==
    /\ handler[h] = None
    /\ doc[k].state = "new"
    /\ Write
    /\ doc' = [doc EXCEPT ![k] = [state |-> "live", gen |-> 0, enabled |-> enabled]]
    /\ Goto(h, [step |-> "set", then |-> "publish",
                key |-> [key |-> k, secret |-> <<k, 0>>, enabled |-> enabled]])
    /\ UNCHANGED <<redis, clock, gatewayVars, faults>>

\* Update and Regenerate begin with FindByID; the secret they will drop is the one read here.
Find(h, k, op) ==
    /\ handler[h] = None
    /\ Live(k)
    /\ writes < MaxWrites
    /\ Goto(h, [step |-> "found", op |-> op, key |-> Snapshot(k)])
    /\ UNCHANGED <<doc, redis, clock, gatewayVars, writes, faults>>

\* The write matches nothing, without an error, if the key was deleted since.
Store(h) ==
    LET k == handler[h].key.key
    IN  /\ handler[h].step = "found"
        /\ Write
        /\ doc' = IF ~Live(k) THEN doc
                  ELSE CASE handler[h].op = "enable" -> [doc EXCEPT ![k].enabled = TRUE]
                         [] handler[h].op = "suspend" -> [doc EXCEPT ![k].enabled = FALSE]
                         [] handler[h].op = "regenerate" -> [doc EXCEPT ![k].gen = writes + 1]
        /\ Goto(h, [step |-> "drop", then |-> "reread", keys |-> {handler[h].key}])
        /\ UNCHANGED <<redis, clock, gatewayVars, faults>>

\* Delete and BulkDelete: FindByID of each key; the entries go before the documents do.
FindForDelete(h, K) ==
    /\ handler[h] = None
    /\ K # {} /\ \A k \in K : Live(k)
    /\ writes < MaxWrites
    /\ Goto(h, [step |-> "drop", then |-> "delete", keys |-> {Snapshot(k) : k \in K}])
    /\ UNCHANGED <<doc, redis, clock, gatewayVars, writes, faults>>

\* The API: who may do which.
PostKey(h, u, k, e) == (IsOwner(u, k) \/ CanManageForUser(u, Role[Owner[k]])) /\ Create(h, k, e)
PutKey(h, u, k, op) == CanModifyKey(u, k) /\ op \in {"enable", "suspend"} /\ Find(h, k, op)
RegenerateKey(h, u, k) == CanModifyKey(u, k) /\ Find(h, k, "regenerate")
RemoveKey(h, u, k) == CanModifyKey(u, k) /\ FindForDelete(h, {k})
\* One key the user may not modify, and none is deleted. Ids of no key are skipped.
RemoveKeys(h, u, K) == (\A k \in K : CanModifyKey(u, k)) /\ FindForDelete(h, K)

\* cache.Delete
Drop(h) ==
    /\ handler[h].step = "drop"
    /\ SetEntries({x.secret : x \in handler[h].keys}, "absent")
    /\ Goto(h, [step |-> handler[h].then, keys |-> {x.key : x \in handler[h].keys}])
    /\ UNCHANGED <<doc, clock, gatewayVars, writes, faults>>

\* An error of cache.Delete is ignored.
DropFails(h) ==
    /\ handler[h].step = "drop"
    /\ Fault
    /\ Goto(h, [step |-> handler[h].then, keys |-> {x.key : x \in handler[h].keys}])
    /\ UNCHANGED <<doc, redis, clock, gatewayVars, writes>>

\* SoftDelete, HardDelete: no event follows.
DeleteDocs(h) ==
    /\ handler[h].step = "delete"
    /\ Write
    /\ doc' = [k \in Key |-> IF k \in handler[h].keys THEN [doc[k] EXCEPT !.state = "deleted"]
                             ELSE doc[k]]
    /\ Goto(h, None)
    /\ UNCHANGED <<redis, clock, gatewayVars, faults>>

\* FindByID after the write; the update reports an error if the key is gone.
Reread(h) ==
    /\ handler[h].step = "reread"
    /\ \E k \in handler[h].keys :
          Goto(h, IF Live(k) THEN [step |-> "set", then |-> "publish", key |-> Snapshot(k)] ELSE None)
    /\ UNCHANGED <<doc, redis, clock, gatewayVars, writes, faults>>

\* GetByKey, for a request to the control plane itself: the entry is missing and is filled.
Lookup(h, k) ==
    /\ handler[h] = None
    /\ Live(k)
    /\ redis[SecretOf(k)] = "absent"
    /\ Goto(h, [step |-> "set", then |-> "none", key |-> Snapshot(k)])
    /\ UNCHANGED <<doc, redis, clock, gatewayVars, writes, faults>>

\* cache.Set
Set(h) ==
    /\ handler[h].step = "set"
    /\ SetEntries({handler[h].key.secret}, Entry(handler[h].key.enabled))
    /\ Goto(h, IF handler[h].then = "none" THEN None ELSE [step |-> "publish", key |-> handler[h].key])
    /\ UNCHANGED <<doc, clock, gatewayVars, writes, faults>>

\* An error of cache.Set is ignored.
SetFails(h) ==
    /\ handler[h].step = "set"
    /\ Fault
    /\ Goto(h, IF handler[h].then = "none" THEN None ELSE [step |-> "publish", key |-> handler[h].key])
    /\ UNCHANGED <<doc, redis, clock, gatewayVars, writes>>

\* Mutant of Publish: a channel without a capacity.
PublishUnbounded(h) ==
    /\ handler[h].step = "publish"
    /\ clock' \in clock .. clock + 1
    /\ inbox' = [g \in Gateway |->
           Append(inbox[g], [snapshot |-> handler[h].key, version |-> clock'])]
    /\ Goto(h, None)
    /\ UNCHANGED <<doc, redis, seen, etag, poll, writes, faults>>

\* publishApiKeyEvent: stamped now; a gateway whose channel is full misses it.
Publish(h) ==
    /\ handler[h].step = "publish"
    /\ clock' \in clock .. clock + 1
    /\ inbox' = [g \in Gateway |->
           IF Len(inbox[g]) < InboxSize
           THEN Append(inbox[g], [snapshot |-> handler[h].key, version |-> clock']) ELSE inbox[g]]
    /\ Goto(h, None)
    /\ UNCHANGED <<doc, redis, seen, etag, poll, writes, faults>>

\* syncApiKeysToRedis: read all active keys, then write them in batches.
BootRead(h) ==
    /\ handler[h] = None
    /\ ActiveSecrets # {}
    /\ Goto(h, [step |-> "boot", list |-> ActiveSecrets])
    /\ UNCHANGED <<doc, redis, clock, gatewayVars, writes, faults>>

BootWrite(h) ==
    /\ handler[h].step = "boot"
    /\ SetEntries(handler[h].list, "enabled")
    /\ Goto(h, None)
    /\ UNCHANGED <<doc, clock, gatewayVars, writes, faults>>

\* A key's owner is edited: the list embeds owners, so no gateway's ETag matches it any more.
EditOwner ==
    /\ ActiveSecrets # {}
    /\ Write
    /\ etag' = [g \in Gateway |-> <<>>]
    /\ UNCHANGED <<doc, handler, redis, clock, inbox, seen, poll, faults>>

\* The pod ends in the middle of a handler.
HandlerDies(h) ==
    /\ handler[h] # None
    /\ Fault
    /\ Goto(h, None)
    /\ UNCHANGED <<doc, redis, clock, gatewayVars, writes>>

-----------------------------------------------------------------------------
(* The gateways.                                                           *)

\* applyApiKey
ApplyEvent(g) ==
    /\ inbox[g] # <<>>
    /\ inbox' = [inbox EXCEPT ![g] = Tail(@)]
    /\ LET ev == Head(inbox[g])
       IN  IF ev.version > seen[g][ev.snapshot.key]
           THEN /\ seen' = [seen EXCEPT ![g][ev.snapshot.key] = ev.version]
                /\ SetEntries({ev.snapshot.secret}, Entry(ev.snapshot.enabled))
           ELSE UNCHANGED <<seen, redis>>
    /\ UNCHANGED <<doc, handler, clock, etag, poll, writes, faults>>

\* The event is lost on the way, or its write to Redis fails after the guard let it pass.
EventLost(g) ==
    /\ inbox[g] # <<>>
    /\ Fault
    /\ inbox' = [inbox EXCEPT ![g] = Tail(@)]
    /\ LET ev == Head(inbox[g])
       IN  \/ UNCHANGED seen
          \/ /\ ev.version > seen[g][ev.snapshot.key]
             /\ seen' = [seen EXCEPT ![g][ev.snapshot.key] = ev.version]
    /\ UNCHANGED <<doc, handler, redis, clock, etag, poll, writes>>

\* GET /internal/api-keys: 304 when nothing changed since the last ETag, else the whole list.
PollRead(g) ==
    /\ poll[g] = <<>>
    /\ etag[g] # <<ActiveSecrets>>
    /\ etag' = [etag EXCEPT ![g] = <<ActiveSecrets>>]
    /\ poll' = [poll EXCEPT ![g] = <<ActiveSecrets>>]
    /\ UNCHANGED <<doc, handler, redis, clock, inbox, seen, writes, faults>>

\* The body is cut off after the ETag was stored: the retry gets a 304.
PollCut(g) ==
    /\ poll[g] = <<>>
    /\ etag[g] # <<ActiveSecrets>>
    /\ Fault
    /\ etag' = [etag EXCEPT ![g] = <<ActiveSecrets>>]
    /\ UNCHANGED <<doc, handler, redis, clock, inbox, seen, poll, writes>>

\* syncApiKeys, SetApiKeysBatch: an empty list changes nothing, and no list removes an entry.
PollApply(g) ==
    /\ poll[g] # <<>>
    /\ SetEntries(poll[g][1], "enabled")
    /\ poll' = [poll EXCEPT ![g] = <<>>]
    /\ UNCHANGED <<doc, handler, clock, inbox, seen, etag, writes, faults>>

\* Redis refuses part of the batch; nothing retries it.
PollApplyFails(g) ==
    /\ poll[g] # <<>>
    /\ Fault
    /\ \E S \in SUBSET poll[g][1] : SetEntries(S, "enabled")
    /\ poll' = [poll EXCEPT ![g] = <<>>]
    /\ UNCHANGED <<doc, handler, clock, inbox, seen, etag, writes>>

GatewayRestarts(g) ==
    /\ Fault
    /\ inbox' = [inbox EXCEPT ![g] = <<>>]
    /\ seen' = [seen EXCEPT ![g] = [k \in Key |-> 0]]
    /\ etag' = [etag EXCEPT ![g] = <<>>]
    /\ poll' = [poll EXCEPT ![g] = <<>>]
    /\ UNCHANGED <<doc, handler, redis, clock, writes>>

\* Mutant of Expire: entries live until they are deleted.
ExpireNever(s) == redis[s] # redis[s] /\ UNCHANGED vars

\* The TTL of an entry is over: 2 hours from a gateway's write, 5 minutes from the control plane's.
Expire(s) ==
    /\ redis[s] # "absent"
    /\ SetEntries({s}, "absent")
    /\ UNCHANGED <<doc, handler, clock, gatewayVars, writes, faults>>

-----------------------------------------------------------------------------
\* Nothing is left to do, or only changes beyond MaxWrites.
Quiet ==
    /\ \A h \in Handler : handler[h] # None =>
                             writes = MaxWrites /\ handler[h].step \in {"found", "delete"}
    /\ \A g \in Gateway : inbox[g] = <<>> /\ poll[g] = <<>>
    /\ \A s \in Secret : redis[s] = "absent"
    /\ UNCHANGED vars

HandlerNext(h) ==
    \/ \E u \in User, k \in Key :
          \/ \E e \in BOOLEAN : PostKey(h, u, k, e)
          \/ \E op \in {"enable", "suspend"} : PutKey(h, u, k, op)
          \/ RegenerateKey(h, u, k) \/ RemoveKey(h, u, k)
    \/ \E u \in User, K \in SUBSET Key : RemoveKeys(h, u, K)
    \/ \E k \in Key : Lookup(h, k)
    \/ Store(h) \/ Drop(h) \/ DropFails(h) \/ DeleteDocs(h) \/ Reread(h)
    \/ Set(h) \/ SetFails(h) \/ Publish(h) \/ BootRead(h) \/ BootWrite(h) \/ HandlerDies(h)

GatewayNext(g) ==
    \/ ApplyEvent(g) \/ EventLost(g) \/ PollRead(g) \/ PollCut(g)
    \/ PollApply(g) \/ PollApplyFails(g) \/ GatewayRestarts(g)

Next ==
    \/ \E h \in Handler : HandlerNext(h)
    \/ EditOwner \/ Quiet
    \/ \E g \in Gateway : GatewayNext(g)
    \/ \E s \in Secret : Expire(s)

\* Handlers that started finish, events and polls are handled, and time passes.
Fairness ==
    /\ \A h \in Handler : /\ WF_vars(Store(h)) /\ WF_vars(Drop(h)) /\ WF_vars(DeleteDocs(h))
                          /\ WF_vars(Reread(h)) /\ WF_vars(Set(h)) /\ WF_vars(Publish(h))
                          /\ WF_vars(BootWrite(h))
    /\ \A g \in Gateway : WF_vars(ApplyEvent(g)) /\ WF_vars(PollRead(g)) /\ WF_vars(PollApply(g))
    /\ \A s \in Secret : WF_vars(Expire(s))

Spec == Init /\ [][Next]_vars
FairSpec == Spec /\ Fairness

-----------------------------------------------------------------------------
KeySnapshot == [key : Key, secret : Secret, enabled : BOOLEAN]
HandlerState ==
    {None}
    \cup [step : {"found"}, op : {"enable", "suspend", "regenerate"}, key : KeySnapshot]
    \cup [step : {"drop"}, then : {"reread", "delete"}, keys : SUBSET KeySnapshot]
    \cup [step : {"reread", "delete"}, keys : SUBSET Key]
    \cup [step : {"set"}, then : {"publish", "none"}, key : KeySnapshot]
    \cup [step : {"publish"}, key : KeySnapshot]
    \cup [step : {"boot"}, list : SUBSET Secret]

\* Types, and the capacity of the channel between pub/sub and a gateway's event loop.
TypeOK ==
    /\ doc \in [Key -> [state : {"new", "live", "deleted"}, gen : 0 .. MaxWrites, enabled : BOOLEAN]]
    /\ handler \in [Handler -> HandlerState]
    /\ redis \in [Secret -> {"absent", "enabled", "disabled"}]
    /\ clock \in Nat
    /\ inbox \in [Gateway -> Seq([snapshot : KeySnapshot, version : Nat])]
    /\ \A g \in Gateway : Len(inbox[g]) <= InboxSize
    /\ seen \in [Gateway -> [Key -> 0 .. clock]]
    /\ \A g \in Gateway : /\ etag[g] = <<>> \/ \E S \in SUBSET Secret : etag[g] = <<S>>
                          /\ poll[g] = <<>> \/ \E S \in SUBSET Secret : poll[g] = <<S>>
    /\ writes \in 0 .. MaxWrites /\ faults \in 0 .. MaxFaults

\* A secret that is suspended, replaced or deleted is refused for good in the end, whichever
\* stale snapshot a lookup, a boot job, an event or a poll wrote over the entry last.
RevocationConverges ==
    \A s \in Secret : <>[](s \notin ActiveSecrets) => <>[]~ValidateApiKey(s)
=============================================================================
