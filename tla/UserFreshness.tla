--------------------------- MODULE UserFreshness ---------------------------
(***************************************************************************)
(* How an edit of a user's authorization fields in the control plane       *)
(* reaches one gateway pod's UserFreshnessCache.  Control-plane pods write *)
(* the document, read it back and publish an event; Redis pub/sub carries  *)
(* events at most once; the gateway applies them behind a version guard.   *)
(* The cache also fills itself: a miss or an expired entry schedules a     *)
(* background lookup (singleflight, a bounded number at a time, behind a   *)
(* circuit breaker), and the api-key poll writes every owner it carries.   *)
(* None of these writers knows what the others wrote.                      *)
(***************************************************************************)
EXTENDS Integers, Sequences, FiniteSets

CONSTANTS
    User,         \* users of the gateway
    KeyOwner,     \* those an active api key embeds (GetApiKeys)
    Pod,          \* control-plane pods, each with one handler and its event publisher
    OutboxSize,   \* gatewayEventPublishChSize
    InboxSize,    \* eventChBufferSize
    Concurrency,  \* UserCacheRefreshConcurrency
    Trip,         \* userBreaker: failures in a row that open it, successes that close it
    MaxPending,   \* bound of the model: refresh goroutines of a user not started yet
    MaxWrites,    \* bound of the model: edits in a behaviour
    MaxFaults     \* bound of the model: failures and restarts in a behaviour

ASSUME UserFreshnessAssumption ==
    /\ KeyOwner \subseteq User
    /\ {OutboxSize, InboxSize, Concurrency, Trip, MaxPending} \subseteq Nat \ {0}
    /\ MaxWrites \in Nat /\ MaxFaults \in Nat
    /\ IsFiniteSet(User)

\* A user's fields are the number of edits they have seen.  A deleted user has none, a delete event
\* says "enabled: false", and a failed lookup leaves an error in the cache.
Revision == 0 .. MaxWrites
Gone == -1
Disabled == -2
Failed == -3
Snapshot == Revision \cup {Disabled}

NoEntry == [value |-> Failed, state |-> "none"]
Fresh(v) == [value |-> v, state |-> "fresh"]

VARIABLES
    doc,      \* the users collection
    handler,  \* what each pod's handler is doing: its event, or what it still has to read
    clock,    \* time.Now().UnixMilli()
    outbox,   \* publishCh of each pod
    inbox,    \* the gateway's event channel
    seen,     \* eventVersionGuard.seen, 0 for a user it never saw
    entry,    \* UserFreshnessCache.entries
    pending,  \* scheduleRefresh's goroutines that have not run yet
    flight,   \* the singleflight call of each user
    breaker,  \* userBreaker
    poll,     \* the owners in the api-key response the gateway is applying
    writes, faults

cpVars == <<doc, handler, clock, outbox, writes>>
cacheVars == <<seen, entry, pending, poll>>
lookupVars == <<flight, breaker>>
vars == <<cpVars, inbox, cacheVars, lookupVars, faults>>

Idle == [step |-> "idle"]
NoFlight == [step |-> "none"]
NoPoll == [u \in {} |-> 0]
Closed == [state |-> "closed", n |-> 0, counted |-> {}]

Init ==
    /\ doc = [u \in User |-> 0]
    /\ handler = [p \in Pod |-> Idle]
    /\ clock = 1
    /\ outbox = [p \in Pod |-> <<>>]
    /\ inbox = <<>>
    /\ seen = [u \in User |-> 0]
    /\ entry = [u \in User |-> NoEntry]
    /\ pending = [u \in User |-> 0]
    /\ flight = [u \in User |-> NoFlight]
    /\ breaker = Closed
    /\ poll = NoPoll
    /\ writes = 0 /\ faults = 0

\* A failure or a restart; the model allows MaxFaults of them.
Fault == faults < MaxFaults /\ faults' = faults + 1
Edit == writes < MaxWrites /\ writes' = writes + 1

-----------------------------------------------------------------------------
(* The control plane.                                                      *)

\* UserService.Update: the write; the document is read back in a step of its own.
Update(p, u) ==
    /\ handler[p] = Idle
    /\ doc[u] # Gone
    /\ Edit
    /\ doc' = [doc EXCEPT ![u] = @ + 1]
    /\ handler' = [handler EXCEPT ![p] = [step |-> "readback", user |-> u]]
    /\ UNCHANGED <<clock, outbox, inbox, cacheVars, lookupVars, faults>>

\* FindByID after the write; if the user is gone by then, Update returns without an event.
ReadBack(p) ==
    /\ handler[p].step = "readback"
    /\ LET u == handler[p].user
       IN  handler' = [handler EXCEPT ![p] =
               IF doc[u] = Gone THEN Idle
               ELSE [step |-> "publish", type |-> "user", user |-> u, value |-> doc[u]]]
    /\ UNCHANGED <<doc, clock, outbox, writes, inbox, cacheVars, lookupVars, faults>>

\* UserService.Delete: the event is made up, not read back.
Delete(p, u) ==
    /\ handler[p] = Idle
    /\ doc[u] # Gone
    /\ Edit
    /\ doc' = [doc EXCEPT ![u] = Gone]
    /\ handler' = [handler EXCEPT ![p] =
           [step |-> "publish", type |-> "user", user |-> u, value |-> Disabled]]
    /\ UNCHANGED <<clock, outbox, inbox, cacheVars, lookupVars, faults>>

\* BulkDelete deletes all of U; AssignUsers and RemoveUsers change the package of those that exist.
Bulk(p, U, edited) ==
    /\ handler[p] = Idle
    /\ \E u \in U : doc[u] # Gone
    /\ Edit
    /\ doc' = [u \in User |-> IF u \notin U \/ doc[u] = Gone THEN doc[u] ELSE edited[u]]
    /\ handler' = [handler EXCEPT ![p] = [step |-> "publish", type |-> "invalidate", users |-> U]]
    /\ UNCHANGED <<clock, outbox, inbox, cacheVars, lookupVars, faults>>
BulkDelete(p, U) == Bulk(p, U, [u \in User |-> Gone])
ChangePackage(p, U) == Bulk(p, U, [u \in User |-> doc[u] + 1])

\* Mutant of Publish: a queue without a capacity.
PublishUnbounded(p) ==
    /\ handler[p].step = "publish"
    /\ clock' \in clock .. clock + 1
    /\ outbox' = [outbox EXCEPT ![p] = Append(@, [event |-> handler[p], version |-> clock'])]
    /\ handler' = [handler EXCEPT ![p] = Idle]
    /\ UNCHANGED <<doc, writes, inbox, cacheVars, lookupVars, faults>>

\* GatewayEventPublisher.Publish stamps the event with the time it is queued, not that of the
\* write; two events may share a millisecond.  A full queue drops it.
Publish(p) ==
    /\ handler[p].step = "publish"
    /\ clock' \in clock .. clock + 1
    /\ outbox' = IF Len(outbox[p]) < OutboxSize
                 THEN [outbox EXCEPT ![p] = Append(@, [event |-> handler[p], version |-> clock'])]
                 ELSE outbox
    /\ handler' = [handler EXCEPT ![p] = Idle]
    /\ UNCHANGED <<doc, writes, inbox, cacheVars, lookupVars, faults>>

\* publishLoop: PUBLISH reaches a subscribed gateway whose event channel has room.
Deliver(p) ==
    /\ outbox[p] # <<>>
    /\ outbox' = [outbox EXCEPT ![p] = Tail(@)]
    /\ inbox' = IF Len(inbox) < InboxSize THEN Append(inbox, Head(outbox[p])) ELSE inbox
    /\ UNCHANGED <<doc, handler, clock, writes, cacheVars, lookupVars, faults>>

\* Redis is unreachable, or the gateway is resubscribing: nobody receives the event.
DeliverLost(p) ==
    /\ outbox[p] # <<>>
    /\ Fault
    /\ outbox' = [outbox EXCEPT ![p] = Tail(@)]
    /\ UNCHANGED <<doc, handler, clock, writes, inbox, cacheVars, lookupVars>>

\* The pod ends, between a write and its event or with events queued: shutdown closes the Redis
\* client before gwPublisher.Close drains the queue, so even a clean stop loses them.
PodEnds(p) ==
    /\ handler[p] # Idle \/ outbox[p] # <<>>
    /\ Fault
    /\ handler' = [handler EXCEPT ![p] = Idle]
    /\ outbox' = [outbox EXCEPT ![p] = <<>>]
    /\ UNCHANGED <<doc, clock, writes, inbox, cacheVars, lookupVars>>

-----------------------------------------------------------------------------
(* The gateway: events.                                                    *)

\* eventVersionGuard.allow
Allow(u, version) == version > seen[u]

\* applyUser: the snapshot is written without looking at what the cache holds.
ApplyUser(ev) ==
    LET u == ev.event.user
    IN  /\ IF Allow(u, ev.version)
           THEN /\ seen' = [seen EXCEPT ![u] = ev.version]
                /\ entry' = [entry EXCEPT ![u] = Fresh(ev.event.value)]
           ELSE UNCHANGED <<seen, entry>>
        /\ UNCHANGED pending

\* applyUserInvalidate: no guard; the entries go, and each user gets a refresh.
ApplyInvalidate(U) ==
    /\ \A u \in U : pending[u] < MaxPending
    /\ entry' = [u \in User |-> IF u \in U THEN NoEntry ELSE entry[u]]
    /\ pending' = [u \in User |-> IF u \in U THEN pending[u] + 1 ELSE pending[u]]
    /\ UNCHANGED seen

Apply ==
    /\ inbox # <<>>
    /\ inbox' = Tail(inbox)
    /\ LET ev == Head(inbox)
       IN  \/ ev.event.type = "user" /\ ApplyUser(ev)
           \/ ev.event.type = "invalidate" /\ ApplyInvalidate(ev.event.users)
    /\ UNCHANGED <<cpVars, poll, lookupVars, faults>>

-----------------------------------------------------------------------------
(* The gateway: lookups.                                                   *)

\* ttl is over.
Expire(u) ==
    /\ entry[u].state = "fresh"
    /\ entry' = [entry EXCEPT ![u].state = "stale"]
    /\ UNCHANGED <<cpVars, inbox, seen, pending, poll, lookupVars, faults>>

\* Mutant of Request: an expired entry is served as if it were fresh.
RequestMissOnly(u) ==
    /\ entry[u].state = "none"
    /\ pending[u] < MaxPending
    /\ pending' = [pending EXCEPT ![u] = @ + 1]
    /\ UNCHANGED <<cpVars, inbox, seen, entry, poll, lookupVars, faults>>

\* Get, for a request of u: a stale entry is served and a missing one is not, both are refreshed.
Request(u) ==
    /\ entry[u].state # "fresh"
    /\ pending[u] < MaxPending
    /\ pending' = [pending EXCEPT ![u] = @ + 1]
    /\ UNCHANGED <<cpVars, inbox, seen, entry, poll, lookupVars, faults>>

\* overlayFreshness: the fields a request is judged by. Without an entry, or with one that holds a
\* failure, a 404 among them, they are those its token or key carries: the gateway fails open.
OwnFields == -4
Judged(u) == IF entry[u].state = "none" \/ entry[u].value = Failed THEN OwnFields ELSE entry[u].value

\* sf.Do: the goroutine leads a new call, or joins the one in flight.
Refresh(u) ==
    /\ pending[u] > 0
    /\ pending' = [pending EXCEPT ![u] = @ - 1]
    /\ flight' = IF flight[u] = NoFlight THEN [flight EXCEPT ![u] = [step |-> "waiting"]] ELSE flight
    /\ UNCHANGED <<cpVars, inbox, seen, entry, poll, breaker, faults>>

Running == {u \in User : flight[u].step \in {"sent", "answered"}}

\* userBreaker.Execute, beforeRequest.
Admits == \/ breaker.state = "closed"
          \/ breaker.state = "half-open" /\ breaker.n + Cardinality(breaker.counted) < Trip

\* The call gets its slot of refreshSem, and the breaker lets the lookup out or fails it at once.
Acquire(u) ==
    /\ flight[u].step = "waiting"
    /\ Cardinality(Running) < Concurrency
    /\ IF Admits
       THEN /\ flight' = [flight EXCEPT ![u] = [step |-> "sent"]]
            /\ breaker' = [breaker EXCEPT !.counted = @ \cup {u}]
       ELSE /\ flight' = [flight EXCEPT ![u] = [step |-> "answered", value |-> Failed]]
            /\ UNCHANGED breaker
    /\ UNCHANGED <<cpVars, inbox, cacheVars, faults>>

Answered(v) == [step |-> "answered", value |-> v]

\* InternalHandler.GetUser: 404, an error for the gateway, when the user is gone.
Answer(u) ==
    /\ flight[u].step = "sent"
    /\ flight' = [flight EXCEPT ![u] = Answered(IF doc[u] = Gone THEN Failed ELSE doc[u])]
    /\ UNCHANGED <<cpVars, inbox, cacheVars, breaker, faults>>

\* A timeout, a refused connection, or a database error, which GetUser answers with 404 too.
AnswerLost(u) ==
    /\ flight[u].step = "sent"
    /\ Fault
    /\ flight' = [flight EXCEPT ![u] = Answered(Failed)]
    /\ UNCHANGED <<cpVars, inbox, cacheVars, breaker>>

Opened == [state |-> "open", n |-> 0, counted |-> {}]

\* afterRequest: an outcome of an earlier generation is not counted, and a change of state starts
\* a new one.  Failures in a row open the breaker; half-open, successes in a row close it.
Counted(u, ok) ==
    IF u \notin breaker.counted THEN breaker
    ELSE LET b == [breaker EXCEPT !.counted = @ \ {u}]
         IN  CASE ok /\ b.state = "closed" -> [b EXCEPT !.n = 0]
               [] ok /\ b.state # "closed" -> IF b.n + 1 < Trip THEN [b EXCEPT !.n = @ + 1] ELSE Closed
               [] ~ok /\ b.state = "closed" -> IF b.n + 1 < Trip THEN [b EXCEPT !.n = @ + 1] ELSE Opened
               [] ~ok /\ b.state # "closed" -> Opened

\* Mutant of Store: an error leaves the entry alone.
StoreAnswer(u) ==
    /\ flight[u].step = "answered"
    /\ breaker' = Counted(u, flight[u].value # Failed)
    /\ entry' = IF flight[u].value = Failed THEN entry
                ELSE [entry EXCEPT ![u] = Fresh(flight[u].value)]
    /\ flight' = [flight EXCEPT ![u] = NoFlight]
    /\ UNCHANGED <<cpVars, inbox, seen, pending, poll, faults>>

\* The answer is written, an error too, over whatever was put there since the lookup was sent.
Store(u) ==
    /\ flight[u].step = "answered"
    /\ breaker' = Counted(u, flight[u].value # Failed)
    /\ entry' = [entry EXCEPT ![u] = Fresh(flight[u].value)]
    /\ flight' = [flight EXCEPT ![u] = NoFlight]
    /\ UNCHANGED <<cpVars, inbox, seen, pending, poll, faults>>

\* Timeout has passed since the breaker opened.
BreakerHalfOpens ==
    /\ breaker.state = "open"
    /\ breaker' = [Closed EXCEPT !.state = "half-open"]
    /\ UNCHANGED <<cpVars, inbox, cacheVars, flight, faults>>

\* Interval has passed: a closed breaker forgets what it counted.
BreakerClears ==
    /\ breaker.state = "closed"
    /\ breaker.n > 0 \/ breaker.counted # {}
    /\ breaker' = Closed
    /\ UNCHANGED <<cpVars, inbox, cacheVars, flight, faults>>

-----------------------------------------------------------------------------
(* The gateway: the api-key poll, and restarts.                            *)

\* GetApiKeys embeds the owners that exist.
PollRead ==
    /\ poll = NoPoll
    /\ poll' = [u \in {v \in KeyOwner : doc[v] # Gone} |-> doc[u]]
    /\ UNCHANGED <<cpVars, inbox, seen, entry, pending, lookupVars, faults>>

\* syncApiKeys: every owner is written, without a guard.
PollApply ==
    /\ poll # NoPoll
    /\ entry' = [u \in User |-> IF u \in DOMAIN poll THEN Fresh(poll[u]) ELSE entry[u]]
    /\ poll' = NoPoll
    /\ UNCHANGED <<cpVars, inbox, seen, pending, lookupVars, faults>>

GatewayRestarts ==
    /\ Fault
    /\ inbox' = <<>>
    /\ seen' = [u \in User |-> 0]
    /\ entry' = [u \in User |-> NoEntry]
    /\ pending' = [u \in User |-> 0]
    /\ flight' = [u \in User |-> NoFlight]
    /\ breaker' = Closed
    /\ poll' = NoPoll
    /\ UNCHANGED cpVars

-----------------------------------------------------------------------------
PodNext(p) ==
    \/ \E u \in User : Update(p, u) \/ Delete(p, u)
    \/ \E U \in SUBSET User : BulkDelete(p, U) \/ ChangePackage(p, U)
    \/ ReadBack(p) \/ Publish(p) \/ Deliver(p) \/ DeliverLost(p) \/ PodEnds(p)

LookupNext(u) ==
    \/ Expire(u) \/ Request(u) \/ Refresh(u) \/ Acquire(u) \/ Answer(u) \/ AnswerLost(u) \/ Store(u)

Next ==
    \/ \E p \in Pod : PodNext(p)
    \/ \E u \in User : LookupNext(u)
    \/ Apply \/ BreakerHalfOpens \/ BreakerClears \/ PollRead \/ PollApply \/ GatewayRestarts

\* Goroutines run, channels wake their waiters in order (hence SF), the control plane answers in
\* the end, time passes, and the users the properties are about keep sending requests.
Fairness ==
    /\ \A p \in Pod : WF_vars(ReadBack(p)) /\ WF_vars(Publish(p)) /\ WF_vars(Deliver(p))
    /\ \A u \in User :
        /\ WF_vars(Expire(u)) /\ WF_vars(Request(u)) /\ WF_vars(Refresh(u))
        /\ SF_vars(Acquire(u)) /\ WF_vars(Answer(u)) /\ WF_vars(Store(u))
    /\ WF_vars(Apply) /\ WF_vars(BreakerHalfOpens) /\ WF_vars(PollApply)

Spec == Init /\ [][Next]_vars
FairSpec == Spec /\ Fairness

-----------------------------------------------------------------------------
Event == [step : {"publish"}, type : {"user"}, user : User, value : Snapshot]
             \cup [step : {"publish"}, type : {"invalidate"}, users : SUBSET User]
Message == [event : Event, version : Nat]

TypeOK ==
    /\ doc \in [User -> Revision \cup {Gone}]
    /\ handler \in [Pod -> {Idle} \cup Event \cup [step : {"readback"}, user : User]]
    /\ clock \in Nat
    /\ outbox \in [Pod -> Seq(Message)] /\ \A p \in Pod : Len(outbox[p]) <= OutboxSize
    /\ inbox \in Seq(Message) /\ Len(inbox) <= InboxSize
    /\ seen \in [User -> Nat]
    /\ entry \in [User -> [value : Snapshot \cup {Failed}, state : {"fresh", "stale", "none"}]]
    /\ pending \in [User -> 0 .. MaxPending]
    /\ flight \in [User -> {NoFlight} \cup [step : {"waiting", "sent"}]
                             \cup [step : {"answered"}, value : Revision \cup {Failed}]]
    /\ breaker \in [state : {"closed", "open", "half-open"}, n : 0 .. Trip - 1, counted : SUBSET User]
    /\ DOMAIN poll \subseteq KeyOwner /\ \A u \in DOMAIN poll : poll[u] \in Revision
    /\ writes \in 0 .. MaxWrites /\ faults \in 0 .. MaxFaults

\* Lost events, stale answers and overtaken polls heal: once edits end, every user a request asks
\* for is served its current fields for good.  Without deleted users, whose 404s trip the breaker.
FieldsConverge ==
    [](\A u \in User : doc[u] # Gone)
        => \A u \in User : <>[](Judged(u) = doc[u])

\* A deleted user's requests are not judged by old fields of the cache for good, whoever wrote
\* them last.
RevocationArrives ==
    \A u \in User : <>(doc[u] = Gone) => <>[](Judged(u) \notin Revision)
=============================================================================
