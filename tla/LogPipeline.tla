---------------------------- MODULE LogPipeline ----------------------------
(***************************************************************************)
(* The access-log path, end to end: a gateway request enqueues its log     *)
(* without blocking, a worker of a fixed pool adds it to the Redis stream  *)
(* with a bounded number of attempts, and the control plane's pods read    *)
(* the stream as one consumer group, insert batches into MongoDB and only  *)
(* then acknowledge them.  A second loop of each pod takes over entries    *)
(* that stayed pending.  Redis, MongoDB and the processes fail in between. *)
(***************************************************************************)
EXTENDS Integers, Sequences, FiniteSets

CONSTANTS
    Log,          \* the access logs requests produce
    Garbage,      \* those whose body decodeMessage rejects
    Worker,       \* the gateway's publish workers (asyncPublishWorkers)
    Consumer,     \* control-plane pods
    NoLog,        \* an idle worker's job
    QueueSize,    \* asyncPublishQueueSize
    MaxAttempts,  \* the length of publishWithRetry's delays
    MaxLen,       \* XADD's MAXLEN ~
    FlushSize,    \* flushSize
    ReadCount,    \* readCount
    MaxFaults     \* bound of the model: failures and restarts in a behaviour

ASSUME LogPipelineAssumption ==
    /\ Garbage \subseteq Log
    /\ NoLog \notin Log
    /\ QueueSize \in Nat \ {0} /\ MaxAttempts \in Nat \ {0} /\ MaxLen \in Nat \ {0}
    /\ FlushSize \in Nat \ {0} /\ ReadCount \in Nat \ {0}
    /\ MaxFaults \in Nat

VARIABLES
    gateway,    \* "up", "draining" (after SIGTERM) or "down"
    unsent,     \* logs no request has produced yet
    queue,      \* asyncPublishCh
    job,        \* the log each worker is publishing
    tries,      \* failed attempts at that log
    abandoned,  \* logs a gateway stopped trying to publish
    entries,    \* every entry ever added to the stream; the id is the position
    trimmed,    \* entries up to this id are gone from the stream
    delivered,  \* the group's last-delivered id
    pel,        \* ids delivered and not acknowledged (pending entries list)
    idle,       \* those of pel that have been pending for reclaimIdle
    pod,        \* "up", "stopping", "down", or "off": running without consumer
    pc,         \* where each loop of each pod is: "ready", "insert", "ack", "exited"
    held,       \* the ids each loop is holding (ids in readLoop and reclaimLoop)
    stored,     \* for each entry, how many documents made from it the collection holds
    faults      \* failures and restarts so far

gatewayVars == <<gateway, unsent, queue, job, tries, abandoned>>
streamVars == <<entries, trimmed, delivered, stored>>
groupVars == <<pel, idle>>
podVars == <<pod, pc, held>>
vars == <<gatewayVars, streamVars, groupVars, podVars, faults>>

Loop == Consumer \X {"read", "reclaim"}
Reader(c) == <<c, "read">>
Reclaimer(c) == <<c, "reclaim">>
Alive(c) == pod[c] \in {"up", "stopping"}

Larger(a, b) == IF a > b THEN a ELSE b
Smaller(a, b) == IF a < b THEN a ELSE b
\* The n lowest ids of S: Redis scans the pending list in id order.
Lowest(S, n) == {i \in S : Cardinality({j \in S : j <= i}) <= n}

Init ==
    /\ gateway = "up"
    /\ unsent = Log
    /\ queue = <<>>
    /\ job = [w \in Worker |-> NoLog]
    /\ tries = [w \in Worker |-> 0]
    /\ abandoned = {}
    /\ entries = <<>> /\ trimmed = 0 /\ delivered = 0 /\ stored = <<>>
    /\ pel = {} /\ idle = {}
    /\ pod = [c \in Consumer |-> "down"]
    /\ pc = [t \in Loop |-> "ready"]
    /\ held = [t \in Loop |-> {}]
    /\ faults = 0

\* A failure or a restart; the model allows MaxFaults of them.
Fault == faults < MaxFaults /\ faults' = faults + 1

-----------------------------------------------------------------------------
(* The gateway.                                                            *)

\* Mutant of Finish: a queue without a capacity.
FinishUnbounded(l) ==
    /\ gateway # "down"
    /\ l \in unsent
    /\ unsent' = unsent \ {l}
    /\ queue' = Append(queue, l)
    /\ UNCHANGED <<gateway, job, tries, abandoned, streamVars, groupVars, podVars, faults>>

\* The deferred block of Proxy, also of a request still running at SIGTERM: the log is built and
\* queued; a full queue drops it.
Finish(l) ==
    /\ gateway # "down"
    /\ l \in unsent
    /\ unsent' = unsent \ {l}
    /\ IF Len(queue) < QueueSize
       THEN queue' = Append(queue, l) /\ UNCHANGED abandoned
       ELSE abandoned' = abandoned \cup {l} /\ UNCHANGED queue
    /\ UNCHANGED <<gateway, job, tries, streamVars, groupVars, podVars, faults>>

\* Mutant of Take: a worker takes the next job before it finished the last.
TakeBusy(w) ==
    /\ gateway # "down"
    /\ queue # <<>>
    /\ job' = [job EXCEPT ![w] = Head(queue)]
    /\ queue' = Tail(queue)
    /\ UNCHANGED <<gateway, unsent, tries, abandoned, streamVars, groupVars, podVars, faults>>

Take(w) ==
    /\ gateway # "down"
    /\ job[w] = NoLog
    /\ queue # <<>>
    /\ job' = [job EXCEPT ![w] = Head(queue)]
    /\ queue' = Tail(queue)
    /\ UNCHANGED <<gateway, unsent, tries, abandoned, streamVars, groupVars, podVars, faults>>

\* Mutant of PublishLog: trims one entry too many.
PublishLogTight(l) ==
    /\ entries' = Append(entries, l)
    /\ stored' = [i \in 1 .. Len(entries) + 1 |-> IF i <= Len(entries) THEN stored[i] ELSE 0]
    /\ trimmed' \in trimmed .. Larger(trimmed, Len(entries) + 2 - MaxLen)
    /\ UNCHANGED delivered

\* XADD with an approximate MAXLEN: Redis trims whole nodes, so it keeps MaxLen entries or more.
PublishLog(l) ==
    /\ entries' = Append(entries, l)
    /\ stored' = [i \in 1 .. Len(entries) + 1 |-> IF i <= Len(entries) THEN stored[i] ELSE 0]
    /\ trimmed' \in trimmed .. Larger(trimmed, Len(entries) + 1 - MaxLen)
    /\ UNCHANGED delivered

Publish(w) ==
    /\ gateway # "down"
    /\ job[w] # NoLog
    /\ PublishLog(job[w])
    /\ job' = [job EXCEPT ![w] = NoLog]
    /\ tries' = [tries EXCEPT ![w] = 0]
    /\ UNCHANGED <<gateway, unsent, queue, abandoned, groupVars, podVars, faults>>

\* An attempt that returns an error: the entry was not added, or it was and the reply came too late.
PublishFails(w) ==
    /\ gateway # "down"
    /\ job[w] # NoLog
    /\ Fault
    /\ PublishLog(job[w]) \/ UNCHANGED streamVars
    /\ IF tries[w] + 1 < MaxAttempts
       THEN tries' = [tries EXCEPT ![w] = @ + 1] /\ UNCHANGED <<job, abandoned>>
       ELSE /\ job' = [job EXCEPT ![w] = NoLog]
            /\ tries' = [tries EXCEPT ![w] = 0]
            /\ abandoned' = abandoned \cup {job[w]}
    /\ UNCHANGED <<gateway, unsent, queue, groupVars, podVars>>

Unpublished == {queue[i] : i \in DOMAIN queue} \cup ({job[w] : w \in Worker} \ {NoLog})

\* The process ends: what it had not published is gone.
GatewayEnds ==
    /\ gateway' = "down"
    /\ abandoned' = abandoned \cup Unpublished
    /\ queue' = <<>>
    /\ job' = [w \in Worker |-> NoLog]
    /\ tries' = [w \in Worker |-> 0]
    /\ UNCHANGED <<unsent, streamVars, groupVars, podVars>>

\* SIGTERM: echo stops accepting requests, and DrainAsyncPublish waits for the queue.
GatewayStops ==
    /\ gateway = "up"
    /\ Fault
    /\ gateway' = "draining"
    /\ UNCHANGED <<unsent, queue, job, tries, abandoned, streamVars, groupVars, podVars>>

\* DrainAsyncPublish returns because every job is done.
Drained == gateway = "draining" /\ Unpublished = {} /\ GatewayEnds /\ UNCHANGED faults

\* Its 10 seconds are over first, or the process is killed.
GatewayDies == gateway # "down" /\ Fault /\ GatewayEnds

GatewayStarts ==
    /\ gateway = "down"
    /\ gateway' = "up"
    /\ UNCHANGED <<unsent, queue, job, tries, abandoned, streamVars, groupVars, podVars, faults>>

-----------------------------------------------------------------------------
(* The control plane's consumer.                                           *)

\* Start: creates the group if it is missing and runs both loops.
Start(c) ==
    /\ pod[c] = "down"
    /\ pod' = [pod EXCEPT ![c] = "up"]
    /\ UNCHANGED <<gatewayVars, streamVars, groupVars, pc, held, faults>>

\* The group could not be created: the pod serves without a consumer until it is restarted.
StartFails(c) ==
    /\ pod[c] = "down"
    /\ Fault
    /\ pod' = [pod EXCEPT ![c] = "off"]
    /\ UNCHANGED <<gatewayVars, streamVars, groupVars, pc, held>>

\* What the group has not been given yet, and the batch XREADGROUP returns of it.
NextId == Larger(delivered, trimmed) + 1
Undelivered == NextId .. Len(entries)
BatchEnd == Smaller(Len(entries), NextId + ReadCount - 1)

\* XREADGROUP ">": the next entries still in the stream become pending.
Read(c) ==
    LET t == Reader(c)
    IN  /\ Alive(c)
        /\ pc[t] = "ready"
        /\ Undelivered # {}
        /\ delivered' = BatchEnd
        /\ pel' = pel \cup (NextId .. BatchEnd)
        /\ held' = [held EXCEPT ![t] = @ \cup (NextId .. BatchEnd)]
        /\ pc' = IF Cardinality(held'[t]) >= FlushSize \/ pod[c] = "stopping"
                 THEN [pc EXCEPT ![t] = "insert"] ELSE pc
        /\ UNCHANGED <<gatewayVars, entries, trimmed, idle, pod, stored, faults>>

\* The entries were delivered, but the reply was lost: pending, and in nobody's hands.
ReadLost(c) ==
    LET t == Reader(c)
    IN  /\ Alive(c)
        /\ pc[t] = "ready"
        /\ Undelivered # {}
        /\ Fault
        /\ delivered' = BatchEnd
        /\ pel' = pel \cup (NextId .. BatchEnd)
        /\ pc' = IF held[t] # {} THEN [pc EXCEPT ![t] = "insert"] ELSE pc
        /\ UNCHANGED <<gatewayVars, entries, trimmed, stored, idle, pod, held>>

\* The ticker, an empty read or a read error flushes what the loop holds; a stopping loop with
\* nothing to flush returns.
Flush(c) ==
    LET t == Reader(c)
    IN  /\ Alive(c)
        /\ pc[t] = "ready"
        /\ \/ held[t] # {} /\ pc' = [pc EXCEPT ![t] = "insert"]
           \/ held[t] = {} /\ pod[c] = "stopping" /\ pc' = [pc EXCEPT ![t] = "exited"]
        /\ UNCHANGED <<gatewayVars, streamVars, groupVars, pod, held, faults>>

\* Mutant of GrowsIdle: reclaimIdle is shorter than a flush may take.
GrowsIdleWhileHeld(i) ==
    /\ i \in pel \ idle
    /\ idle' = idle \cup {i}
    /\ UNCHANGED <<gatewayVars, streamVars, pel, podVars, faults>>

\* An entry has been pending for a minute.  A loop never holds one that long: it flushes within a
\* second of reading, blocks for two, and its insert and ack share a 10 second deadline.
GrowsIdle(i) ==
    /\ i \in pel \ idle
    /\ \A t \in Loop : i \notin held[t]
    /\ idle' = idle \cup {i}
    /\ UNCHANGED <<gatewayVars, streamVars, pel, podVars, faults>>

\* Mutant of Claim: what is claimed is not flushed.
ClaimWithoutFlush(c) ==
    /\ Alive(c)
    /\ pc[Reclaimer(c)] = "ready"
    /\ idle # {}
    /\ idle' = idle \ Lowest(idle, ReadCount)
    /\ held' = [held EXCEPT ![Reclaimer(c)] = Lowest(idle, ReadCount)]
    /\ UNCHANGED <<gatewayVars, streamVars, pel, pc, pod, faults>>

\* XAUTOCLAIM: resets the idle time of the entries it scans and drops from the pending list those
\* the stream no longer holds.
Claim(c) ==
    LET t == Reclaimer(c)
        scanned == Lowest(idle, ReadCount)
        claimed == {i \in scanned : i > trimmed}
    IN  /\ Alive(c)
        /\ pc[t] = "ready"
        /\ scanned # {}
        /\ pel' = pel \ (scanned \ claimed)
        /\ idle' = idle \ scanned
        /\ held' = [held EXCEPT ![t] = claimed]
        /\ pc' = IF claimed # {} THEN [pc EXCEPT ![t] = "insert"] ELSE pc
        /\ UNCHANGED <<gatewayVars, streamVars, pod, faults>>

\* decodeMessage: the entries of I a document can be made from.
Decodable(I) == {i \in I : entries[i] \notin Garbage}

\* InsertMany: one new document for each decodable entry of I.
InsertMany(I) ==
    stored' = [i \in DOMAIN entries |-> IF i \in Decodable(I) THEN stored[i] + 1 ELSE stored[i]]

\* Mutant of Clear: the batch is kept.
ClearNothing(t) == pc' = [pc EXCEPT ![t] = "ready"] /\ UNCHANGED held

\* flush clears the batch on every path.  A reader that was told to stop may read once more after
\* a flush by the ticker, so it returns in Flush and not here.
Clear(t) ==
    /\ held' = [held EXCEPT ![t] = {}]
    /\ pc' = [pc EXCEPT ![t] = "ready"]

Insert(t) ==
    /\ Alive(t[1])
    /\ pc[t] = "insert"
    /\ InsertMany(held[t])
    /\ pc' = [pc EXCEPT ![t] = "ack"]
    /\ UNCHANGED <<gatewayVars, entries, trimmed, delivered, groupVars, pod, held, faults>>

\* Mutant of InsertFails: the batch is acknowledged although the insert failed.
InsertFailsThenAck(t) ==
    /\ Alive(t[1])
    /\ pc[t] = "insert"
    /\ Decodable(held[t]) # {}
    /\ Fault
    /\ \E I \in SUBSET held[t] : InsertMany(I)
    /\ pc' = [pc EXCEPT ![t] = "ack"]
    /\ UNCHANGED <<gatewayVars, entries, trimmed, delivered, groupVars, pod, held>>

\* InsertMany is unordered: on an error any part of the batch may be stored.  Nothing is acked.
InsertFails(t) ==
    /\ Alive(t[1])
    /\ pc[t] = "insert"
    /\ Decodable(held[t]) # {}
    /\ Fault
    /\ \E I \in SUBSET held[t] : InsertMany(I)
    /\ Clear(t)
    /\ UNCHANGED <<gatewayVars, entries, trimmed, delivered, groupVars, pod>>

Ack(t) ==
    /\ Alive(t[1])
    /\ pc[t] = "ack"
    /\ pel' = pel \ held[t]
    /\ idle' = idle \ held[t]
    /\ Clear(t)
    /\ UNCHANGED <<gatewayVars, streamVars, pod, faults>>

\* XACK returned an error: the entries stay pending, although their documents are stored.
AckFails(t) ==
    /\ Alive(t[1])
    /\ pc[t] = "ack"
    /\ Fault
    /\ Clear(t)
    /\ UNCHANGED <<gatewayVars, streamVars, groupVars, pod>>

Stop(c) ==
    /\ pod[c] = "up"
    /\ Fault
    /\ pod' = [pod EXCEPT ![c] = "stopping"]
    /\ UNCHANGED <<gatewayVars, streamVars, groupVars, pc, held>>

PodEnds(c) ==
    /\ pod' = [pod EXCEPT ![c] = "down"]
    /\ held' = [t \in Loop |-> IF t[1] = c THEN {} ELSE held[t]]
    /\ pc' = [t \in Loop |-> IF t[1] = c THEN "ready" ELSE pc[t]]
    /\ UNCHANGED <<gatewayVars, streamVars, groupVars>>

\* Stop returns because both loops did.
Stopped(c) ==
    /\ pod[c] = "stopping"
    /\ pc[Reader(c)] = "exited" /\ pc[Reclaimer(c)] = "ready"
    /\ PodEnds(c)
    /\ UNCHANGED faults

\* Stop's 15 seconds are over first, or the pod is killed.
PodDies(c) == pod[c] # "down" /\ Fault /\ PodEnds(c)

-----------------------------------------------------------------------------
\* Nothing is left to do, or no consumer is left to do it.
Quiet ==
    /\ gateway = "up" /\ unsent = {} /\ Unpublished = {}
    /\ \/ pel = {} /\ Undelivered = {} /\ \A c \in Consumer : pod[c] \in {"up", "off"}
       \/ \A c \in Consumer : pod[c] = "off"
    /\ UNCHANGED vars

GatewayNext ==
    \/ \E l \in Log : Finish(l)
    \/ \E w \in Worker : Take(w) \/ Publish(w) \/ PublishFails(w)
    \/ GatewayStops \/ Drained \/ GatewayDies \/ GatewayStarts

LoopNext(t) == Insert(t) \/ InsertFails(t) \/ Ack(t) \/ AckFails(t)

PodNext(c) ==
    \/ Start(c) \/ StartFails(c) \/ Read(c) \/ ReadLost(c) \/ Flush(c) \/ Claim(c)
    \/ Stop(c) \/ Stopped(c) \/ PodDies(c)

Next ==
    \/ GatewayNext
    \/ \E c \in Consumer : PodNext(c)
    \/ \E t \in Loop : LoopNext(t)
    \/ \E i \in pel : GrowsIdle(i)
    \/ Quiet

\* Goroutines are scheduled, Redis and MongoDB answer in the end, and the orchestrator restarts
\* what ended.  Nothing says that requests arrive, or that anything fails.
Fairness ==
    /\ \A w \in Worker : WF_vars(Take(w)) /\ WF_vars(Publish(w))
    /\ WF_vars(Drained) /\ WF_vars(GatewayStarts)
    /\ \A c \in Consumer : /\ WF_vars(Start(c)) /\ WF_vars(Read(c)) /\ WF_vars(Flush(c))
                           /\ WF_vars(Claim(c)) /\ WF_vars(Stopped(c))
    /\ \A t \in Loop : WF_vars(Insert(t)) /\ WF_vars(Ack(t))
    /\ WF_vars(\E i \in pel : GrowsIdle(i))

Spec == Init /\ [][Next]_vars
FairSpec == Spec /\ Fairness

-----------------------------------------------------------------------------
TypeOK ==
    /\ gateway \in {"up", "draining", "down"}
    /\ unsent \subseteq Log /\ abandoned \subseteq Log
    /\ queue \in Seq(Log) /\ Len(queue) <= QueueSize
    /\ job \in [Worker -> Log \cup {NoLog}]
    /\ tries \in [Worker -> 0 .. MaxAttempts - 1]
    /\ entries \in Seq(Log)
    /\ stored \in [1 .. Len(entries) -> Nat]
    /\ trimmed \in 0 .. Len(entries) /\ delivered \in 0 .. Len(entries)
    /\ pel \subseteq 1 .. delivered /\ idle \subseteq pel
    /\ pod \in [Consumer -> {"up", "stopping", "down", "off"}]
    /\ pc \in [Loop -> {"ready", "insert", "ack", "exited"}]
    /\ held \in [Loop -> SUBSET (1 .. delivered)]
    /\ faults \in 0 .. MaxFaults

\* flush acks only what it stored (log_consumer.go:222): an entry that was delivered and is no
\* longer pending has its document in the collection, or never had one, or fell off the stream.
AckedIsStored ==
    \A i \in 1 .. delivered : \/ i \in pel \/ i <= trimmed
                             \/ stored[i] > 0 \/ entries[i] \in Garbage

\* A log whose request ended is queued, being published, in the stream, or one of those the
\* gateway gave up (proxy_handler.go:127, :143, :863): no path loses it without saying so.
NothingUnaccounted ==
    Log \ unsent \subseteq Unpublished \cup {entries[i] : i \in DOMAIN entries} \cup abandoned

\* reclaimLoop only takes what nobody is working on: no two loops, of one pod or of two, hold the
\* same entry, and what a loop holds is still pending.
NoDoubleWork ==
    /\ \A t, u \in Loop : t # u => held[t] \cap held[u] = {}
    /\ \A t \in Loop : held[t] \subseteq pel

\* "Reclaim may pick it up again and the log may be duplicated" (log_consumer.go:238) is the only
\* way to a duplicate: every document of an entry beyond its first is paid for by a failure.
DuplicatesNeedFault == \A i \in DOMAIN entries : stored[i] <= 1 + faults

\* What reached the stream is stored and acknowledged in the end, whatever pod read it first,
\* unless retention removes it or no pod is left with a consumer.
ConsumerRuns == \E c \in Consumer : pod[c] # "off"
EventuallySettled ==
    \A i \in 1 .. Cardinality(Log) + MaxFaults :
        (i <= Len(entries) /\ ConsumerRuns) ~>
            \/ i <= trimmed \/ ~ConsumerRuns
            \/ /\ i <= delivered /\ i \notin pel
               /\ stored[i] > 0 \/ entries[i] \in Garbage

\* The stream and the consumer keep the promise of LogDelivery: what is owed is what is pending
\* and what was not delivered yet.
Owed == pel \cup Undelivered
Saved == {entries[i] : i \in {j \in DOMAIN entries : stored[j] > 0}}
Delivery == INSTANCE LogDelivery WITH
    Retention <- MaxLen, published <- entries, owed <- Owed, saved <- Saved
ImplementsDelivery == Delivery!Spec
=============================================================================
