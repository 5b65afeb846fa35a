------------------------- MODULE LogPipelineProofs -------------------------
(***************************************************************************)
(* LogPipeline is safe for any number of logs, workers and pods and any    *)
(* capacities.  The inductive invariant adds to the checked invariants     *)
(* what each loop knows at its program counter: a loop about to            *)
(* acknowledge holds stored entries only, and no held entry is idle.  It   *)
(* gives LogDelivery's guards when the pipeline is shown to implement it.  *)
(***************************************************************************)
EXTENDS LogPipeline, TLAPS

USE LogPipelineAssumption DEF LogPipelineAssumption

\* What an added entry changes of the stream.
LEMMA PublishLogType ==
  ASSUME TypeOK, NEW l \in Log, PublishLog(l)
  PROVE  /\ entries' \in Seq(Log) /\ Len(entries') = Len(entries) + 1
         /\ \A i \in 1 .. Len(entries) : entries'[i] = entries[i] /\ stored'[i] = stored[i]
         /\ entries'[Len(entries) + 1] = l /\ stored'[Len(entries) + 1] = 0
         /\ stored' \in [1 .. Len(entries') -> Nat]
         /\ trimmed' \in Nat /\ trimmed <= trimmed' /\ trimmed' <= Len(entries)
         /\ trimmed' <= trimmed \/ trimmed' <= Len(entries') - MaxLen
         /\ delivered' = delivered
<1>1. /\ entries' \in Seq(Log) /\ Len(entries') = Len(entries) + 1
      /\ \A i \in 1 .. Len(entries) : entries'[i] = entries[i]
      /\ entries'[Len(entries) + 1] = l /\ Len(entries) \in Nat
  BY DEF TypeOK, PublishLog
<1>2. stored' = [i \in 1 .. Len(entries) + 1 |-> IF i <= Len(entries) THEN stored[i] ELSE 0]
  BY DEF PublishLog
<1>3. stored' \in [1 .. Len(entries') -> Nat]
  BY <1>1, <1>2 DEF TypeOK
<1>4. /\ \A i \in 1 .. Len(entries) : stored'[i] = stored[i]
      /\ stored'[Len(entries) + 1] = 0
  BY <1>1, <1>2
<1>5. /\ trimmed' \in Nat /\ trimmed <= trimmed' /\ trimmed' <= Len(entries)
      /\ trimmed' <= trimmed \/ trimmed' <= Len(entries') - MaxLen
      /\ delivered' = delivered
  BY <1>1 DEF TypeOK, PublishLog, Larger
<1>6. QED
  BY <1>1, <1>3, <1>4, <1>5

\* The initial state has the types.
LEMMA TypeInit == Init => TypeOK
  BY DEF Init, TypeOK

\* What a read delivers is a non-empty range of ids the stream holds.
LEMMA BatchRange ==
  ASSUME TypeOK
  PROVE  /\ NextId \in Nat /\ delivered \in Nat /\ trimmed \in Nat /\ Len(entries) \in Nat
         /\ delivered < NextId /\ trimmed < NextId
         /\ NextId = delivered + 1 \/ NextId = trimmed + 1
         /\ Undelivered # {} => /\ NextId \in 1 .. Len(entries)
                               /\ BatchEnd \in NextId .. Len(entries)
  BY DEF TypeOK, NextId, Undelivered, BatchEnd, Larger, Smaller

\* Both outcomes of a read deliver the batch; only one hands it to the loop.
LEMMA ReadTypes ==
  ASSUME TypeOK, NEW c \in Consumer, Undelivered # {},
         delivered' = BatchEnd, pel' = pel \cup (NextId .. BatchEnd),
         \/ held' = held
         \/ held' = [held EXCEPT ![Reader(c)] = @ \cup (NextId .. BatchEnd)]
  PROVE  /\ delivered' \in 0 .. Len(entries)
         /\ pel' \subseteq 1 .. delivered'
         /\ held' \in [Loop -> SUBSET (1 .. delivered')]
<1>1. /\ BatchEnd \in NextId .. Len(entries) /\ NextId \in 1 .. Len(entries)
      /\ delivered \in Nat /\ delivered < NextId /\ Len(entries) \in Nat
  BY BatchRange
<1> DEFINE T == 1 .. BatchEnd
<1>2. 1 .. delivered \subseteq T /\ NextId .. BatchEnd \subseteq T
  BY <1>1
<1>3. pel \subseteq T /\ held \in [Loop -> SUBSET T]
  BY <1>2 DEF TypeOK
<1>4. Reader(c) \in Loop
  BY DEF Reader, Loop
<1>5. pel' \subseteq T /\ held' \in [Loop -> SUBSET T]
  <2> HIDE DEF T
  <2>1. QED
    BY <1>2, <1>3, <1>4
<1>6. QED
  BY <1>1, <1>5

\* A claim scans only idle entries.
LEMMA LowestIsSubset ==
  ASSUME NEW S, NEW n
  PROVE  Lowest(S, n) \subseteq S
  BY DEF Lowest

\* An insert counts up for entries of the batch and for no other.
LEMMA InsertManyType ==
  ASSUME TypeOK, NEW I, InsertMany(I)
  PROVE  /\ stored' \in [1 .. Len(entries) -> Nat]
         /\ \A i \in 1 .. Len(entries) :
              /\ stored[i] \in Nat
              /\ stored'[i] = stored[i] \/ (i \in I /\ stored'[i] = stored[i] + 1)
              /\ i \in I /\ entries[i] \notin Garbage => stored'[i] = stored[i] + 1
<1>1. DOMAIN entries = 1 .. Len(entries) /\ stored \in [1 .. Len(entries) -> Nat]
  BY DEF TypeOK
<1>2. \A i \in 1 .. Len(entries) :
        i \in Decodable(I) <=> (i \in I /\ entries[i] \notin Garbage)
  BY DEF Decodable
<1>3. stored' = [i \in 1 .. Len(entries) |->
                   IF i \in Decodable(I) THEN stored[i] + 1 ELSE stored[i]]
  BY <1>1 DEF InsertMany
<1>4. QED
  BY <1>1, <1>2, <1>3

\* After a flush the loop holds nothing and has nothing to acknowledge.
LEMMA ClearType ==
  ASSUME TypeOK, NEW t \in Loop, Clear(t)
  PROVE  /\ held' \in [Loop -> SUBSET (1 .. delivered)]
         /\ pc' \in [Loop -> {"ready", "insert", "ack", "exited"}]
         /\ \A u \in Loop : held'[u] = IF u = t THEN {} ELSE held[u]
         /\ \A u \in Loop : u # t => pc'[u] = pc[u]
         /\ pc'[t] # "ack"
  BY DEF TypeOK, Clear

\* Every variable keeps its type.
LEMMA TypeStep == TypeOK /\ [Next]_vars => TypeOK'
<1> SUFFICES ASSUME TypeOK, [Next]_vars PROVE TypeOK'
  OBVIOUS
<1> USE DEF gatewayVars, streamVars, groupVars, podVars, Reader, Reclaimer
<1>0. Fault => faults' \in 0 .. MaxFaults
  BY DEF TypeOK, Fault
<1>1. ASSUME NEW l \in Log, Finish(l) PROVE TypeOK'
  <2>1. queue \in Seq(Log) /\ Len(queue) <= QueueSize /\ abandoned \subseteq Log
    BY DEF TypeOK
  <2>2. /\ queue' \in Seq(Log) /\ Len(queue') <= QueueSize
        /\ abandoned' \subseteq Log /\ unsent' \subseteq unsent
    BY <1>1, <2>1 DEF Finish
  <2>3. QED
    BY <1>1, <2>2 DEF TypeOK, Finish
<1>2. ASSUME NEW w \in Worker, Take(w) PROVE TypeOK'
  BY <1>2 DEF TypeOK, Take
<1>3. ASSUME NEW w \in Worker, Publish(w) PROVE TypeOK'
  <2>1. job[w] \in Log /\ PublishLog(job[w])
    BY <1>3 DEF Publish, TypeOK
  <2>2. /\ entries' \in Seq(Log) /\ stored' \in [1 .. Len(entries') -> Nat]
        /\ trimmed' \in 0 .. Len(entries') /\ delivered' \in 0 .. Len(entries') /\ delivered' = delivered
    <3>1. /\ entries' \in Seq(Log) /\ Len(entries') = Len(entries) + 1
          /\ stored' \in [1 .. Len(entries') -> Nat]
          /\ trimmed' \in Nat /\ trimmed' <= Len(entries) /\ delivered' = delivered
      BY <2>1, PublishLogType
    <3>2. delivered \in 0 .. Len(entries) /\ Len(entries) \in Nat
      BY DEF TypeOK
    <3> QED BY <3>1, <3>2
  <2>3. job' \in [Worker -> Log \cup {NoLog}] /\ tries' \in [Worker -> 0 .. MaxAttempts - 1]
    BY <1>3 DEF TypeOK, Publish
  <2>4. UNCHANGED <<gateway, unsent, queue, abandoned, groupVars, podVars, faults>>
    BY <1>3 DEF Publish
  <2>5. UNCHANGED <<gateway, unsent, queue, abandoned, pel, idle, pod, pc, held, faults>>
    BY <2>4
  <2>6. QED
    BY <2>2, <2>3, <2>5 DEF TypeOK
<1>4. ASSUME NEW w \in Worker, PublishFails(w) PROVE TypeOK'
  <2>1. job[w] \in Log
    BY <1>4 DEF PublishFails, TypeOK
  <2>2. /\ tries' \in [Worker -> 0 .. MaxAttempts - 1]
        /\ job' \in [Worker -> Log \cup {NoLog}] /\ abandoned' \subseteq Log
    <3>1. /\ tries \in [Worker -> 0 .. MaxAttempts - 1] /\ tries[w] \in 0 .. MaxAttempts - 1
          /\ job \in [Worker -> Log \cup {NoLog}] /\ abandoned \subseteq Log
      BY DEF TypeOK
    <3>2. CASE tries[w] + 1 < MaxAttempts
      BY <1>4, <3>1, <3>2 DEF PublishFails
    <3>3. CASE ~(tries[w] + 1 < MaxAttempts)
      BY <1>4, <2>1, <3>1, <3>3 DEF PublishFails
    <3>4. QED
      BY <3>2, <3>3
  <2>3. /\ faults' \in 0 .. MaxFaults
        /\ UNCHANGED <<gateway, unsent, queue, pel, idle, pod, pc, held>>
    BY <1>0, <1>4 DEF PublishFails
  <2>4. CASE PublishLog(job[w])
    <3>1. /\ entries' \in Seq(Log) /\ stored' \in [1 .. Len(entries') -> Nat]
          /\ trimmed' \in 0 .. Len(entries') /\ delivered' \in 0 .. Len(entries')
          /\ delivered' = delivered
      BY <2>1, <2>4, PublishLogType DEF TypeOK
    <3>2. QED
      BY <2>2, <2>3, <3>1 DEF TypeOK
  <2>5. CASE UNCHANGED streamVars
    BY <2>2, <2>3, <2>5 DEF TypeOK
  <2>6. QED
    BY <1>4, <2>4, <2>5 DEF PublishFails
<1>5. ASSUME GatewayStops PROVE TypeOK'
  BY <1>0, <1>5 DEF TypeOK, GatewayStops
<1>6. ASSUME GatewayEnds, faults' \in 0 .. MaxFaults PROVE TypeOK'
  <2>1. Unpublished \subseteq Log
    BY DEF TypeOK, Unpublished
  <2>2. QED
    BY <1>6, <2>1 DEF TypeOK, GatewayEnds
<1>7. ASSUME Drained \/ GatewayDies PROVE TypeOK'
  BY <1>0, <1>6, <1>7 DEF TypeOK, Drained, GatewayDies
<1>8. ASSUME GatewayStarts PROVE TypeOK'
  BY <1>8 DEF TypeOK, GatewayStarts
<1>9. ASSUME NEW c \in Consumer, Start(c) \/ StartFails(c) \/ Stop(c) PROVE TypeOK'
  BY <1>0, <1>9 DEF TypeOK, Start, StartFails, Stop
<1>10. ASSUME NEW c \in Consumer, Read(c) PROVE TypeOK'
  <2>1. /\ delivered' \in 0 .. Len(entries) /\ pel' \subseteq 1 .. delivered'
        /\ held' \in [Loop -> SUBSET (1 .. delivered')] /\ pel \subseteq pel'
    BY <1>10, ReadTypes DEF Read
  <2>2. pc' \in [Loop -> {"ready", "insert", "ack", "exited"}]
    BY <1>10 DEF TypeOK, Read
  <2>3. QED
    BY <1>10, <2>1, <2>2 DEF TypeOK, Read
<1>11. ASSUME NEW c \in Consumer, ReadLost(c) PROVE TypeOK'
  <2>1. /\ delivered' \in 0 .. Len(entries) /\ pel' \subseteq 1 .. delivered'
        /\ held' \in [Loop -> SUBSET (1 .. delivered')] /\ pel \subseteq pel'
    BY <1>11, ReadTypes DEF ReadLost
  <2>2. pc' \in [Loop -> {"ready", "insert", "ack", "exited"}]
    BY <1>11 DEF TypeOK, ReadLost
  <2>3. QED
    BY <1>0, <1>11, <2>1, <2>2 DEF TypeOK, ReadLost
<1>12. ASSUME NEW c \in Consumer, Flush(c) PROVE TypeOK'
  BY <1>12 DEF TypeOK, Flush
<1>13. ASSUME NEW c \in Consumer, Claim(c) PROVE TypeOK'
  <2> DEFINE scanned == Lowest(idle, ReadCount)
             claimed == {i \in scanned : i > trimmed}
  <2>1. scanned \subseteq idle
    BY LowestIsSubset
  <2>2. /\ pel' = pel \ (scanned \ claimed) /\ idle' = idle \ scanned
        /\ held' = [held EXCEPT ![Reclaimer(c)] = claimed]
        /\ UNCHANGED <<gatewayVars, streamVars, pod, faults>>
        /\ pc' = IF claimed # {} THEN [pc EXCEPT ![Reclaimer(c)] = "insert"] ELSE pc
    BY <1>13 DEF Claim
  <2> HIDE DEF scanned
  <2>3. QED
    BY <2>1, <2>2 DEF TypeOK
<1>14. ASSUME NEW c \in Consumer, Stopped(c) \/ PodDies(c) PROVE TypeOK'
  <2>1. PodEnds(c) /\ faults' \in 0 .. MaxFaults
    BY <1>0, <1>14 DEF Stopped, PodDies, TypeOK
  <2>2. QED
    BY <2>1 DEF TypeOK, PodEnds
<1>15. ASSUME NEW t \in Loop, Insert(t) PROVE TypeOK'
  <2>1. stored' \in [1 .. Len(entries) -> Nat]
    BY <1>15, InsertManyType DEF Insert
  <2>2. QED
    BY <1>15, <2>1 DEF TypeOK, Insert
<1>16. ASSUME NEW t \in Loop, InsertFails(t) PROVE TypeOK'
  <2>1. stored' \in [1 .. Len(entries) -> Nat]
    BY <1>16, InsertManyType DEF InsertFails
  <2>2. QED
    BY <1>0, <1>16, <2>1, ClearType DEF TypeOK, InsertFails
<1>17. ASSUME NEW t \in Loop, Ack(t) \/ AckFails(t) PROVE TypeOK'
  <2>1. Clear(t)
    BY <1>17 DEF Ack, AckFails
  <2>2. QED
    BY <1>0, <1>17, <2>1, ClearType DEF TypeOK, Ack, AckFails
<1>18. ASSUME NEW i \in pel, GrowsIdle(i) PROVE TypeOK'
  BY <1>18 DEF TypeOK, GrowsIdle
<1>19. CASE UNCHANGED vars
  BY <1>19 DEF TypeOK, vars
<1>20. CASE Quiet
  BY <1>19, <1>20 DEF Quiet
<1>21. QED
  BY <1>1, <1>2, <1>3, <1>4, <1>5, <1>7, <1>8, <1>9, <1>10, <1>11, <1>12, <1>13, <1>14,
     <1>15, <1>16, <1>17, <1>18, <1>19, <1>20
     DEF Next, GatewayNext, PodNext, LoopNext

\* Every variable of the pipeline keeps its type.
THEOREM TypeCorrect == Spec => []TypeOK
<1>1. QED
  BY TypeInit, TypeStep, PTL DEF Spec

-----------------------------------------------------------------------------
(* The pending list, the batches and the collection.                       *)

\* The strengthening: no held entry is idle, a loop about to acknowledge holds stored entries, and
\* only such a loop, or an acknowledgement, uses up the copy an entry is entitled to.
IdleUnheld == \A t \in Loop : held[t] \cap idle = {}
AckHoldsStored ==
    \A t \in Loop : pc[t] = "ack" =>
        \A i \in held[t] : stored[i] > 0 \/ entries[i] \in Garbage
InAckingLoop(i) == \E t \in Loop : pc[t] = "ack" /\ i \in held[t]
Acknowledged(i) == i <= delivered /\ i \notin pel
CopiesArePaid ==
    \A i \in 1 .. Len(entries) :
        \/ stored[i] <= faults
        \/ stored[i] = faults + 1 /\ (Acknowledged(i) \/ InAckingLoop(i))

HandsInv == NoDoubleWork /\ IdleUnheld
IInv == TypeOK /\ HandsInv /\ AckHoldsStored /\ AckedIsStored /\ CopiesArePaid

\* The ways a step touches the stream, the pending list and the loops.
LEMMA NextCases ==
  ASSUME TypeOK, [Next]_vars
  PROVE  \/ UNCHANGED <<entries, trimmed, delivered, stored, pel, idle, pc, held>>
         \/ /\ \E l \in Log : PublishLog(l)
            /\ UNCHANGED <<pel, idle, pc, held>>
         \/ \E c \in Consumer : Read(c) \/ ReadLost(c) \/ Flush(c) \/ Claim(c)
         \/ \E c \in Consumer : /\ PodEnds(c)
                              /\ \/ faults' = faults + 1
                                 \/ pc[Reader(c)] # "ack" /\ pc[Reclaimer(c)] # "ack"
         \/ \E t \in Loop : Insert(t) \/ InsertFails(t) \/ Ack(t) \/ AckFails(t)
         \/ \E i \in pel : GrowsIdle(i)
<1> USE DEF streamVars, groupVars, podVars
<1>1. ASSUME NEW w \in Worker, Publish(w) \/ PublishFails(w)
      PROVE  \/ UNCHANGED <<entries, trimmed, delivered, stored, pel, idle, pc, held>>
             \/ (\E l \in Log : PublishLog(l)) /\ UNCHANGED <<pel, idle, pc, held>>
  <2>1. job[w] \in Log
    BY <1>1 DEF TypeOK, Publish, PublishFails
  <2>2. QED
    BY <1>1, <2>1 DEF Publish, PublishFails
<1>2. ASSUME \/ \E l \in Log : Finish(l)
             \/ \E w \in Worker : Take(w)
             \/ GatewayStops \/ Drained \/ GatewayDies \/ GatewayStarts \/ Quiet
             \/ UNCHANGED vars
             \/ \E c \in Consumer : Start(c) \/ StartFails(c) \/ Stop(c)
      PROVE  UNCHANGED <<entries, trimmed, delivered, stored, pel, idle, pc, held>>
  BY <1>2 DEF Finish, Take, GatewayStops, Drained, GatewayDies, GatewayEnds, GatewayStarts, Quiet,
              vars, Start, StartFails, Stop
<1>3. ASSUME NEW c \in Consumer, Stopped(c) \/ PodDies(c)
      PROVE  /\ PodEnds(c)
             /\ \/ faults' = faults + 1
                \/ pc[Reader(c)] # "ack" /\ pc[Reclaimer(c)] # "ack"
  BY <1>3 DEF Stopped, PodDies, Fault
<1>4. QED
  BY <1>1, <1>2, <1>3 DEF Next, GatewayNext, PodNext, LoopNext

\* No step takes a failure back.
LEMMA FaultsGrow == TypeOK /\ [Next]_vars => faults' >= faults
  BY DEF TypeOK, Next, GatewayNext, PodNext, LoopNext, vars, Finish, Take, Publish, PublishFails,
         GatewayStops, Drained, GatewayDies, GatewayStarts, Start, StartFails, Read, ReadLost,
         Flush, Claim, Stop, Stopped, PodDies, Insert, InsertFails, Ack, AckFails, GrowsIdle,
         Quiet, Fault

\* What a claim takes was idle, so nobody holds it.
LEMMA HandsStep == TypeOK /\ HandsInv /\ [Next]_vars => HandsInv'
<1> SUFFICES ASSUME TypeOK, HandsInv, [Next]_vars PROVE HandsInv'
  OBVIOUS
<1> USE DEF HandsInv, NoDoubleWork, IdleUnheld, streamVars, groupVars, podVars
<1>1. CASE UNCHANGED <<entries, trimmed, delivered, stored, pel, idle, pc, held>>
  BY <1>1
<1>2. CASE (\E l \in Log : PublishLog(l)) /\ UNCHANGED <<pel, idle, pc, held>>
  BY <1>2
<1>3. ASSUME NEW c \in Consumer, Read(c) PROVE HandsInv'
  <2> DEFINE B == NextId .. BatchEnd
  <2>1. /\ held' = [held EXCEPT ![Reader(c)] = @ \cup B] /\ Reader(c) \in Loop
        /\ pel' = pel \cup B /\ idle' = idle
    BY <1>3 DEF Read, Reader, Loop
  <2>2. B \cap (1 .. delivered) = {}
    BY <1>3, BatchRange DEF Read
  <2>3. \A t \in Loop : held[t] \subseteq 1 .. delivered
    BY DEF TypeOK
  <2>4. idle \subseteq 1 .. delivered
    BY DEF TypeOK
  <2>5. held \in [Loop -> SUBSET (1 .. delivered)]
    BY DEF TypeOK
  <2> HIDE DEF B
  <2>6. \A t \in Loop : held'[t] = IF t = Reader(c) THEN held[t] \cup B ELSE held[t]
    BY <2>1, <2>5
  <2>7. \A t \in Loop : held[t] \cap B = {} /\ idle \cap B = {}
    BY <2>2, <2>3, <2>4
  <2>8. ASSUME NEW t \in Loop, NEW u \in Loop, t # u PROVE held'[t] \cap held'[u] = {}
    BY <2>6, <2>7, <2>8
  <2>9. ASSUME NEW t \in Loop PROVE held'[t] \subseteq pel' /\ held'[t] \cap idle' = {}
    BY <2>1, <2>6, <2>7
  <2>10. QED
    BY <2>8, <2>9
<1>4. ASSUME NEW c \in Consumer, ReadLost(c) PROVE HandsInv'
  BY <1>4 DEF ReadLost
<1>5. ASSUME NEW c \in Consumer, Flush(c) PROVE HandsInv'
  BY <1>5 DEF Flush
<1>6. ASSUME NEW c \in Consumer, Claim(c) PROVE HandsInv'
  <2> DEFINE scanned == Lowest(idle, ReadCount)
             claimed == {i \in scanned : i > trimmed}
  <2>1. scanned \subseteq idle /\ claimed \subseteq scanned
    BY LowestIsSubset
  <2>2. /\ pel' = pel \ (scanned \ claimed) /\ idle' = idle \ scanned
        /\ held' = [held EXCEPT ![Reclaimer(c)] = claimed] /\ Reclaimer(c) \in Loop
    BY <1>6 DEF Claim, Reclaimer, Loop
  <2> HIDE DEF scanned, claimed
  <2>3. \A t \in Loop : held'[t] = IF t = Reclaimer(c) THEN claimed ELSE held[t]
    BY <2>2 DEF TypeOK
  <2>4. idle \subseteq pel
    BY DEF TypeOK
  <2>5. QED
    BY <2>1, <2>2, <2>3, <2>4
<1>7. ASSUME NEW c \in Consumer, PodEnds(c) PROVE HandsInv'
  BY <1>7 DEF PodEnds
<1>8. ASSUME NEW t \in Loop, Insert(t) PROVE HandsInv'
  BY <1>8 DEF Insert
<1>9. ASSUME NEW t \in Loop, InsertFails(t) \/ Ack(t) \/ AckFails(t) PROVE HandsInv'
  <2>1. \A u \in Loop : held'[u] = IF u = t THEN {} ELSE held[u]
    BY <1>9, ClearType DEF InsertFails, Ack, AckFails
  <2>2. \/ pel' = pel /\ idle' = idle
        \/ pel' = pel \ held[t] /\ idle' = idle \ held[t]
    BY <1>9 DEF InsertFails, Ack, AckFails
  <2>3. QED
    BY <2>1, <2>2
<1>10. ASSUME NEW i \in pel, GrowsIdle(i) PROVE HandsInv'
  BY <1>10 DEF GrowsIdle
<1>11. QED
  BY <1>1, <1>2, <1>3, <1>4, <1>5, <1>6, <1>7, <1>8, <1>9, <1>10, NextCases

\* What an entry's document count and its position in the protocol may become in one step.
LEMMA AckHoldsStoredStep ==
  TypeOK /\ HandsInv /\ AckHoldsStored /\ [Next]_vars => AckHoldsStored'
<1> SUFFICES ASSUME TypeOK, HandsInv, AckHoldsStored, [Next]_vars PROVE AckHoldsStored'
  OBVIOUS
<1> USE DEF AckHoldsStored, streamVars, groupVars, podVars
<1>0. \A t \in Loop : held[t] \subseteq 1 .. Len(entries)
  BY DEF TypeOK
<1>1. CASE UNCHANGED <<entries, trimmed, delivered, stored, pel, idle, pc, held>>
  BY <1>1
<1>2. ASSUME NEW l \in Log, PublishLog(l), UNCHANGED <<pel, idle, pc, held>>
      PROVE  AckHoldsStored'
  BY <1>0, <1>2, PublishLogType
<1>3. ASSUME NEW c \in Consumer, Read(c) PROVE AckHoldsStored'
  <2>1. /\ pc[Reader(c)] = "ready" /\ Reader(c) \in Loop /\ UNCHANGED <<entries, stored>>
        /\ held' = [held EXCEPT ![Reader(c)] = @ \cup (NextId .. BatchEnd)]
        /\ pc' = pc \/ pc' = [pc EXCEPT ![Reader(c)] = "insert"]
    BY <1>3 DEF Read, Reader, Loop
  <2>2. \A t \in Loop : pc'[t] = "ack" => pc[t] = "ack" /\ held'[t] = held[t]
    BY <2>1 DEF TypeOK
  <2>3. QED
    BY <2>1, <2>2
<1>4. ASSUME NEW c \in Consumer, ReadLost(c) \/ Flush(c) PROVE AckHoldsStored'
  <2>1. /\ Reader(c) \in Loop /\ UNCHANGED <<entries, stored, held>>
        /\ pc' = pc \/ pc' = [pc EXCEPT ![Reader(c)] = "insert"]
                   \/ pc' = [pc EXCEPT ![Reader(c)] = "exited"]
    BY <1>4 DEF ReadLost, Flush, Reader, Loop
  <2>2. QED
    BY <2>1 DEF TypeOK
<1>5. ASSUME NEW c \in Consumer, Claim(c) PROVE AckHoldsStored'
  <2> DEFINE claimed == {i \in Lowest(idle, ReadCount) : i > trimmed}
  <2>1. /\ pc[Reclaimer(c)] = "ready" /\ Reclaimer(c) \in Loop /\ UNCHANGED <<entries, stored>>
        /\ held' = [held EXCEPT ![Reclaimer(c)] = claimed]
        /\ pc' = pc \/ pc' = [pc EXCEPT ![Reclaimer(c)] = "insert"]
    BY <1>5 DEF Claim, Reclaimer, Loop
  <2> HIDE DEF claimed
  <2>2. \A t \in Loop : pc'[t] = "ack" => pc[t] = "ack" /\ held'[t] = held[t]
    BY <2>1 DEF TypeOK
  <2>3. QED
    BY <2>1, <2>2
<1>6. ASSUME NEW c \in Consumer, PodEnds(c) PROVE AckHoldsStored'
  BY <1>6 DEF PodEnds
<1>7. ASSUME NEW t \in Loop, Insert(t) PROVE AckHoldsStored'
  <2>1. /\ pc' = [pc EXCEPT ![t] = "ack"] /\ UNCHANGED <<entries, held>>
        /\ InsertMany(held[t])
    BY <1>7 DEF Insert
  <2>2. \A i \in 1 .. Len(entries) :
          /\ stored'[i] >= stored[i] /\ stored[i] \in Nat /\ stored'[i] \in Nat
          /\ i \in held[t] /\ entries[i] \notin Garbage => stored'[i] > 0
    BY <2>1, InsertManyType
  <2>3. \A u \in Loop : pc'[u] = "ack" => u = t \/ pc[u] = "ack"
    BY <2>1 DEF TypeOK
  <2>4. SUFFICES ASSUME NEW u \in Loop, pc'[u] = "ack", NEW i \in held[u]
                 PROVE  stored'[i] > 0 \/ entries[i] \in Garbage
    BY <2>1
  <2>5. i \in 1 .. Len(entries)
    BY <1>0
  <2>6. CASE u = t
    BY <2>2, <2>5, <2>6
  <2>7. CASE pc[u] = "ack"
    BY <2>2, <2>5, <2>7
  <2>8. QED
    BY <2>3, <2>4, <2>6, <2>7
<1>8. ASSUME NEW t \in Loop, InsertFails(t) PROVE AckHoldsStored'
  <2>1. PICK I \in SUBSET held[t] : InsertMany(I)
    BY <1>8 DEF InsertFails
  <2>2. \A i \in 1 .. Len(entries) :
          stored'[i] >= stored[i] /\ stored[i] \in Nat /\ stored'[i] \in Nat
    BY <2>1, InsertManyType
  <2>3. Clear(t) /\ entries' = entries
    BY <1>8 DEF InsertFails
  <2>4. \A u \in Loop : pc'[u] = "ack" => u # t /\ pc[u] = "ack" /\ held'[u] = held[u]
    BY <2>3, ClearType
  <2>5. SUFFICES ASSUME NEW u \in Loop, pc'[u] = "ack", NEW i \in held[u]
                 PROVE  stored'[i] > 0 \/ entries[i] \in Garbage
    BY <2>3, <2>4
  <2>6. i \in 1 .. Len(entries) /\ (stored[i] > 0 \/ entries[i] \in Garbage)
    BY <1>0, <2>4, <2>5
  <2>7. QED
    BY <2>2, <2>6
<1>9. ASSUME NEW t \in Loop, Ack(t) \/ AckFails(t) PROVE AckHoldsStored'
  <2>1. Clear(t) /\ UNCHANGED <<entries, stored>>
    BY <1>9 DEF Ack, AckFails
  <2>2. QED
    BY <2>1, ClearType
<1>10. ASSUME NEW i \in pel, GrowsIdle(i) PROVE AckHoldsStored'
  BY <1>10 DEF GrowsIdle
<1>11. QED
  BY <1>1, <1>2, <1>3, <1>4, <1>5, <1>6, <1>7, <1>8, <1>9, <1>10, NextCases

\* Only an acknowledgement and a claim take an entry off the pending list: the one holds stored
\* entries, the other drops what the stream no longer has.
LEMMA AckedIsStoredStep ==
  TypeOK /\ AckHoldsStored /\ AckedIsStored /\ [Next]_vars => AckedIsStored'
<1> SUFFICES ASSUME TypeOK, AckHoldsStored, AckedIsStored, [Next]_vars PROVE AckedIsStored'
  OBVIOUS
<1> USE DEF AckedIsStored, streamVars, groupVars, podVars
<1>0. 1 .. delivered \subseteq 1 .. Len(entries) /\ delivered \in Nat /\ trimmed \in Nat
  BY DEF TypeOK
<1>1. CASE UNCHANGED <<entries, trimmed, delivered, stored, pel, idle, pc, held>>
  BY <1>1
<1>2. ASSUME NEW l \in Log, PublishLog(l), UNCHANGED <<pel, idle, pc, held>>
      PROVE  AckedIsStored'
  <2>1. /\ delivered' = delivered /\ trimmed' \in Nat /\ trimmed <= trimmed' /\ pel' = pel
        /\ \A i \in 1 .. delivered : entries'[i] = entries[i] /\ stored'[i] = stored[i]
    BY <1>0, <1>2, PublishLogType
  <2>2. SUFFICES ASSUME NEW i \in 1 .. delivered, i \notin pel, ~(i <= trimmed')
                 PROVE  stored'[i] > 0 \/ entries'[i] \in Garbage
    BY <2>1
  <2>3. ~(i <= trimmed)
    BY <1>0, <2>1, <2>2
  <2>4. QED
    BY <2>1, <2>2, <2>3
<1>3. ASSUME NEW c \in Consumer, Read(c) \/ ReadLost(c) PROVE AckedIsStored'
  <2>1. /\ delivered' = BatchEnd /\ pel' = pel \cup (NextId .. BatchEnd) /\ Undelivered # {}
        /\ UNCHANGED <<entries, stored, trimmed>>
    BY <1>3 DEF Read, ReadLost
  <2>2. SUFFICES ASSUME NEW i \in 1 .. BatchEnd, i \notin NextId .. BatchEnd, i > trimmed,
                        i \notin pel
                 PROVE  stored[i] > 0 \/ entries[i] \in Garbage
    BY <2>1, BatchRange
  <2>3. i \in 1 .. delivered
    BY <2>1, <2>2, BatchRange
  <2>4. QED
    BY <1>0, <2>2, <2>3
<1>4. ASSUME NEW c \in Consumer, Flush(c) PROVE AckedIsStored'
  BY <1>4 DEF Flush
<1>5. ASSUME NEW c \in Consumer, Claim(c) PROVE AckedIsStored'
  <2> DEFINE scanned == Lowest(idle, ReadCount)
             claimed == {i \in scanned : i > trimmed}
  <2>1. pel' = pel \ (scanned \ claimed) /\ UNCHANGED <<entries, stored, trimmed, delivered>>
    BY <1>5 DEF Claim
  <2>2. \A i \in 1 .. delivered : i \in pel \ pel' => i <= trimmed
    BY <1>0, <2>1
  <2> HIDE DEF scanned, claimed
  <2>3. QED
    BY <2>1, <2>2
<1>6. ASSUME NEW c \in Consumer, PodEnds(c) PROVE AckedIsStored'
  BY <1>6 DEF PodEnds
<1>7. ASSUME NEW I, InsertMany(I), UNCHANGED <<entries, trimmed, delivered, pel>>
      PROVE  AckedIsStored'
  <2>1. \A i \in 1 .. delivered : stored[i] > 0 => stored'[i] > 0
    BY <1>0, <1>7, InsertManyType
  <2>2. QED
    BY <1>7, <2>1
<1>8. ASSUME NEW t \in Loop, Insert(t) \/ InsertFails(t) PROVE AckedIsStored'
  BY <1>7, <1>8 DEF Insert, InsertFails
<1>9. ASSUME NEW t \in Loop, Ack(t) \/ AckFails(t) PROVE AckedIsStored'
  <2>1. UNCHANGED <<entries, stored, trimmed, delivered>>
    BY <1>9 DEF Ack, AckFails
  <2>2. \A i \in pel \ pel' : pc[t] = "ack" /\ i \in held[t]
    BY <1>9 DEF Ack, AckFails
  <2>3. \A i \in pel \ pel' : stored[i] > 0 \/ entries[i] \in Garbage
    BY <2>2 DEF AckHoldsStored
  <2>4. QED
    BY <2>1, <2>3
<1>10. ASSUME NEW i \in pel, GrowsIdle(i) PROVE AckedIsStored'
  BY <1>10 DEF GrowsIdle
<1>11. QED
  BY <1>1, <1>2, <1>3, <1>4, <1>5, <1>6, <1>8, <1>9, <1>10, NextCases

\* The arithmetic of a counter that stays or goes up by one.
LEMMA OneMore ==
  \A m \in Nat, n \in Nat : m <= n => m + 1 <= n \/ m + 1 = n + 1
  OBVIOUS

\* The counters of documents and failures are natural numbers, before and after a step.
LEMMA CountTypes ==
  ASSUME TypeOK, [Next]_vars
  PROVE  /\ faults \in Nat /\ faults' \in Nat /\ faults' >= faults
         /\ delivered \in Nat /\ delivered <= Len(entries) /\ Len(entries) \in Nat
         /\ \A i \in 1 .. Len(entries) : stored[i] \in Nat
<1>1. TypeOK' /\ faults' >= faults
  BY FaultsGrow, TypeStep
<1>2. faults' \in Nat
  BY <1>1 DEF TypeOK
<1>3. /\ faults \in Nat
      /\ delivered \in Nat /\ delivered <= Len(entries) /\ Len(entries) \in Nat
      /\ \A i \in 1 .. Len(entries) : stored[i] \in Nat
  BY DEF TypeOK
<1>4. QED
  BY <1>1, <1>2, <1>3

\* The copy an insert adds is used up by the acknowledgement, or a fault pays for it.
LEMMA CopiesStep ==
  TypeOK /\ HandsInv /\ CopiesArePaid /\ [Next]_vars => CopiesArePaid'
<1> SUFFICES ASSUME TypeOK, HandsInv, CopiesArePaid, [Next]_vars PROVE CopiesArePaid'
  OBVIOUS
<1> USE DEF CopiesArePaid, Acknowledged, streamVars, groupVars, podVars
<1>0. /\ faults \in Nat /\ faults' \in Nat /\ faults' >= faults
      /\ delivered \in Nat /\ delivered <= Len(entries) /\ Len(entries) \in Nat
      /\ \A i \in 1 .. Len(entries) : stored[i] \in Nat
  BY CountTypes
\* A step that inserts nothing keeps it if each used copy stays used, or a fault pays.
<1>1. ASSUME UNCHANGED <<entries, stored>>,
             \/ faults' = faults + 1
             \/ \A i \in 1 .. Len(entries) :
                  Acknowledged(i) \/ InAckingLoop(i) => Acknowledged(i)' \/ InAckingLoop(i)'
      PROVE  CopiesArePaid'
  <2> SUFFICES ASSUME NEW i \in 1 .. Len(entries)
               PROVE  \/ stored[i] <= faults'
                      \/ stored[i] = faults' + 1 /\ (Acknowledged(i)' \/ InAckingLoop(i)')
    BY <1>1
  <2>1. stored[i] \in Nat
    BY <1>0
  <2>2. CASE faults' = faults + 1
    BY <1>0, <2>1, <2>2
  <2>3. CASE faults' # faults + 1
    <3>1. CASE stored[i] <= faults
      BY <1>0, <2>1, <3>1
    <3>2. CASE stored[i] = faults + 1 /\ (Acknowledged(i) \/ InAckingLoop(i))
      <4>1. Acknowledged(i)' \/ InAckingLoop(i)'
        BY <1>1, <2>3, <3>2
      <4>2. stored[i] = faults + 1
        BY <3>2
      <4>3. stored[i] <= faults' \/ stored[i] = faults' + 1
        <5>1. PICK m \in Nat, n \in Nat : m = faults /\ n = faults'
          BY <1>0
        <5>2. m <= n
          BY <1>0, <5>1
        <5> QED BY <4>2, <5>1, <5>2, OneMore
      <4>4. QED
        BY <4>1, <4>3
    <3>3. QED
      BY <3>1, <3>2
  <2>4. QED
    BY <2>2, <2>3
<1>2. CASE UNCHANGED <<entries, trimmed, delivered, stored, pel, idle, pc, held>>
  BY <1>1, <1>2 DEF InAckingLoop
<1>3. ASSUME NEW l \in Log, PublishLog(l), UNCHANGED <<pel, idle, pc, held>>
      PROVE  CopiesArePaid'
  <2> SUFFICES ASSUME NEW i \in 1 .. Len(entries')
               PROVE  \/ stored'[i] <= faults'
                      \/ stored'[i] = faults' + 1 /\ (Acknowledged(i)' \/ InAckingLoop(i)')
    OBVIOUS
  <2>1. delivered' = delivered /\ Len(entries') = Len(entries) + 1
    BY <1>3, PublishLogType
  <2>2. CASE i = Len(entries) + 1
    <3>1. stored'[i] = 0
      BY <1>3, <2>2, PublishLogType
    <3>2. stored'[i] <= faults'
      BY <1>0, <3>1
    <3>3. QED
      BY <3>2
  <2>3. CASE i \in 1 .. Len(entries)
    <3>1. stored'[i] = stored[i]
      BY <1>3, <2>3, PublishLogType
    <3>2. Acknowledged(i) \/ InAckingLoop(i) => Acknowledged(i)' \/ InAckingLoop(i)'
      BY <1>3, <2>1 DEF InAckingLoop
    <3>3. \/ stored[i] <= faults /\ faults <= faults'
          \/ faults' = faults /\ stored[i] = faults' + 1 /\ (Acknowledged(i) \/ InAckingLoop(i))
          \/ stored[i] = faults + 1 /\ faults' > faults
      BY <1>0, <2>3
    <3>4. stored[i] <= faults' \/ (stored[i] = faults' + 1 /\ (Acknowledged(i) \/ InAckingLoop(i)))
      BY <1>0, <2>3, <3>3
    <3>5. QED
      BY <3>1, <3>2, <3>4
  <2>4. QED
    BY <1>0, <2>1, <2>2, <2>3
<1>4. ASSUME NEW c \in Consumer, Read(c) \/ ReadLost(c) PROVE CopiesArePaid'
  <2>1. /\ delivered' = BatchEnd /\ pel' = pel \cup (NextId .. BatchEnd) /\ Undelivered # {}
        /\ UNCHANGED <<entries, stored>>
    BY <1>4 DEF Read, ReadLost
  <2>2. Reader(c) \in Loop /\ pc[Reader(c)] = "ready"
    BY <1>4 DEF Read, ReadLost, Reader, Loop
  <2>3. \A u \in Loop : pc[u] = "ack" => pc'[u] = "ack" /\ held[u] \subseteq held'[u]
    BY <1>4, <2>2 DEF Read, ReadLost, TypeOK
  <2>4. \A i \in 1 .. Len(entries) : Acknowledged(i) => Acknowledged(i)'
    BY <1>0, <2>1, BatchRange
  <2>5. \A i \in 1 .. Len(entries) : InAckingLoop(i) => InAckingLoop(i)'
    BY <2>3 DEF InAckingLoop
  <2>6. QED
    BY <1>1, <2>1, <2>4, <2>5
<1>5. ASSUME NEW c \in Consumer, Flush(c) \/ Claim(c) PROVE CopiesArePaid'
  <2>1. UNCHANGED <<entries, stored, delivered>> /\ pel' \subseteq pel
    BY <1>5 DEF Flush, Claim
  <2>2. \A u \in Loop : pc[u] = "ack" => pc'[u] = "ack" /\ held'[u] = held[u]
    BY <1>5 DEF Flush, Claim, TypeOK
  <2>3. \A i \in 1 .. Len(entries) : InAckingLoop(i) => InAckingLoop(i)'
    BY <2>2 DEF InAckingLoop
  <2>4. QED
    BY <1>1, <2>1, <2>3
<1>6. ASSUME NEW c \in Consumer, PodEnds(c),
             faults' = faults + 1 \/ (pc[Reader(c)] # "ack" /\ pc[Reclaimer(c)] # "ack")
      PROVE  CopiesArePaid'
  <2>1. UNCHANGED <<entries, stored, delivered, pel>>
    BY <1>6 DEF PodEnds
  <2>2. CASE faults' = faults + 1
    BY <1>1, <2>1, <2>2
  <2>3. CASE pc[Reader(c)] # "ack" /\ pc[Reclaimer(c)] # "ack"
    <3>1. \A u \in Loop : pc[u] = "ack" => u[1] # c
      BY <2>3 DEF Loop, Reader, Reclaimer
    <3>2. \A u \in Loop : pc[u] = "ack" => pc'[u] = "ack" /\ held'[u] = held[u]
      BY <1>6, <3>1 DEF PodEnds
    <3>3. QED
      BY <1>1, <2>1, <3>2 DEF InAckingLoop
  <2>4. QED
    BY <1>6, <2>2, <2>3
<1>7. ASSUME NEW t \in Loop, Insert(t) PROVE CopiesArePaid'
  <2>1. /\ pc' = [pc EXCEPT ![t] = "ack"] /\ UNCHANGED <<entries, held, delivered, pel, faults>>
        /\ InsertMany(held[t]) /\ pc[t] = "insert"
    BY <1>7 DEF Insert
  <2>2. \A u \in Loop : pc'[u] = IF u = t THEN "ack" ELSE pc[u]
    BY <2>1 DEF TypeOK
  <2> SUFFICES ASSUME NEW i \in 1 .. Len(entries)
               PROVE  \/ stored'[i] <= faults
                      \/ stored'[i] = faults + 1 /\ (Acknowledged(i)' \/ InAckingLoop(i)')
    BY <2>1
  <2>3. CASE i \in held[t]
    <3>1. ~Acknowledged(i) /\ ~InAckingLoop(i)
      BY <2>1, <2>3 DEF HandsInv, NoDoubleWork, InAckingLoop
    <3>2. stored[i] \in Nat /\ stored[i] <= faults
      BY <1>0, <3>1
    <3>3. InAckingLoop(i)'
      BY <2>1, <2>2, <2>3 DEF InAckingLoop
    <3>4. stored'[i] \in {stored[i], stored[i] + 1}
      BY <2>1, InsertManyType
    <3>5. QED
      BY <1>0, <3>2, <3>3, <3>4
  <2>4. CASE i \notin held[t]
    <3>1. stored'[i] = stored[i]
      BY <2>1, <2>4, InsertManyType
    <3>2. Acknowledged(i) \/ InAckingLoop(i) => Acknowledged(i)' \/ InAckingLoop(i)'
      BY <2>1, <2>2 DEF InAckingLoop
    <3>3. QED
      BY <3>1, <3>2
  <2>5. QED
    BY <2>3, <2>4
<1>8. ASSUME NEW t \in Loop, InsertFails(t) PROVE CopiesArePaid'
  <2>1. PICK I \in SUBSET held[t] : InsertMany(I)
    BY <1>8 DEF InsertFails
  <2>2. /\ Clear(t) /\ UNCHANGED <<entries, delivered, pel>> /\ pc[t] = "insert"
        /\ faults' = faults + 1
    BY <1>8 DEF InsertFails, Fault
  <2> SUFFICES ASSUME NEW i \in 1 .. Len(entries)
               PROVE  stored'[i] <= faults + 1
    BY <1>0, <2>2
  <2>3. stored[i] \in Nat /\ (stored'[i] = stored[i] \/ (i \in I /\ stored'[i] = stored[i] + 1))
    BY <2>1, InsertManyType
  <2>4. CASE i \in held[t]
    <3>1. ~Acknowledged(i) /\ ~InAckingLoop(i)
      BY <2>2, <2>4 DEF HandsInv, NoDoubleWork, InAckingLoop
    <3>2. stored[i] <= faults
      BY <1>0, <3>1
    <3>3. QED
      BY <1>0, <2>3, <3>2
  <2>5. CASE i \notin held[t]
    BY <1>0, <2>1, <2>3, <2>5
  <2>6. QED
    BY <2>4, <2>5
<1>9. ASSUME NEW t \in Loop, AckFails(t) PROVE CopiesArePaid'
  <2>1. UNCHANGED <<entries, stored>> /\ faults' = faults + 1
    BY <1>9 DEF AckFails, Fault
  <2>2. QED
    BY <1>1, <2>1
<1>10. ASSUME NEW t \in Loop, Ack(t) PROVE CopiesArePaid'
  <2>1. /\ Clear(t) /\ UNCHANGED <<entries, stored, delivered>> /\ pel' = pel \ held[t]
    BY <1>10 DEF Ack
  <2>2. \A u \in Loop : u # t => pc'[u] = pc[u] /\ held'[u] = held[u]
    BY <2>1, ClearType
  <2>3. \A i \in 1 .. Len(entries) : i \in held[t] => Acknowledged(i)'
    BY <2>1 DEF TypeOK
  <2>4. \A i \in 1 .. Len(entries) : Acknowledged(i) => Acknowledged(i)'
    BY <2>1
  <2>5. \A i \in 1 .. Len(entries) : InAckingLoop(i) => Acknowledged(i)' \/ InAckingLoop(i)'
    BY <2>2, <2>3 DEF InAckingLoop
  <2>6. QED
    BY <1>1, <2>1, <2>4, <2>5
<1>11. ASSUME NEW i \in pel, GrowsIdle(i) PROVE CopiesArePaid'
  BY <1>1, <1>11 DEF GrowsIdle, InAckingLoop
<1>12. QED
  BY <1>2, <1>3, <1>4, <1>5, <1>6, <1>7, <1>8, <1>9, <1>10, <1>11, NextCases

\* Initially nothing is delivered, held or stored.
LEMMA IInvInit == Init => IInv
<1> SUFFICES ASSUME Init PROVE IInv
  OBVIOUS
<1>1. TypeOK
  BY TypeInit
<1>2. /\ \A t \in Loop : held[t] = {} /\ pc[t] = "ready"
      /\ Len(entries) = 0 /\ delivered = 0 /\ idle = {}
  BY DEF Init
<1>3. HandsInv /\ AckHoldsStored
  BY <1>2 DEF HandsInv, NoDoubleWork, IdleUnheld, AckHoldsStored
<1>4. AckedIsStored /\ CopiesArePaid
  BY <1>2 DEF AckedIsStored, CopiesArePaid
<1>5. QED
  BY <1>1, <1>3, <1>4 DEF IInv

\* Every step preserves the inductive invariant: the five step lemmas together.
LEMMA IInvStep == IInv /\ [Next]_vars => IInv'
  BY TypeStep, HandsStep, AckHoldsStoredStep, AckedIsStoredStep, CopiesStep DEF IInv

\* The inductive invariant holds of every reachable state.
THEOREM Inductive == Spec => []IInv
<1>1. QED
  BY IInvInit, IInvStep, PTL DEF Spec

\* An entry leaves the pending list only once it is stored, was undecodable or fell off the stream.
THEOREM AckOnlyStored == Spec => []AckedIsStored
<1>1. IInv => AckedIsStored
  BY DEF IInv
<1>2. QED
  BY <1>1, Inductive, PTL

\* No two loops of any pods work on the same entry.
THEOREM OneLoopPerEntry == Spec => []NoDoubleWork
<1>1. IInv => NoDoubleWork
  BY DEF IInv, HandsInv
<1>2. QED
  BY <1>1, Inductive, PTL

\* Without a failure an entry is stored at most once; each failure allows one more copy.
THEOREM CopiesBounded == Spec => []DuplicatesNeedFault
<1>1. IInv => DuplicatesNeedFault
  <2> SUFFICES ASSUME IInv, NEW i \in DOMAIN entries PROVE stored[i] <= 1 + faults
    BY DEF DuplicatesNeedFault
  <2>1. stored[i] \in Nat /\ faults \in Nat /\ i \in 1 .. Len(entries)
    BY DEF IInv, TypeOK
  <2>2. stored[i] <= faults \/ stored[i] = faults + 1
    BY <2>1 DEF IInv, CopiesArePaid
  <2>3. QED
    BY <2>1, <2>2
<1>2. QED
  BY <1>1, Inductive, PTL

-----------------------------------------------------------------------------
(* The gateway's side: no path of a finished request's log loses it        *)
(* without giving it up.                                                   *)

\* A step that takes a log off the queue or from a worker puts it in the stream or gives it up.
LEMMA UnaccountedStep == TypeOK /\ NothingUnaccounted /\ [Next]_vars => NothingUnaccounted'
<1> SUFFICES ASSUME TypeOK, NothingUnaccounted, [Next]_vars PROVE NothingUnaccounted'
  OBVIOUS
<1> DEFINE InQueue == {queue[i] : i \in DOMAIN queue}
           InHand == {job[w] : w \in Worker} \ {NoLog}
           InStream == {entries[i] : i \in DOMAIN entries}
<1>0. Log \ unsent \subseteq InQueue \cup InHand \cup InStream \cup abandoned
  BY DEF NothingUnaccounted, Unpublished
<1>A. SUFFICES Log \ unsent' \subseteq InQueue' \cup InHand' \cup InStream' \cup abandoned'
  BY DEF NothingUnaccounted, Unpublished
<1> USE DEF gatewayVars, streamVars
<1>1. CASE UNCHANGED <<unsent, queue, job, entries, abandoned>>
  BY <1>0, <1>1
<1>2. ASSUME NEW l \in Log, Finish(l) PROVE Log \ unsent' \subseteq InQueue' \cup InHand' \cup InStream' \cup abandoned'
  <2>1. UNCHANGED <<job, entries>> /\ unsent' = unsent \ {l}
    BY <1>2 DEF Finish
  <2>2. InQueue \subseteq InQueue' /\ abandoned \subseteq abandoned' /\ (l \in InQueue' \/ l \in abandoned')
    <3>1. queue \in Seq(Log)
      BY DEF TypeOK
    <3>2. CASE queue' = Append(queue, l) /\ abandoned' = abandoned
      <4>1. /\ DOMAIN queue' = 1 .. Len(queue) + 1 /\ DOMAIN queue = 1 .. Len(queue)
            /\ Len(queue) \in Nat /\ queue'[Len(queue) + 1] = l
            /\ \A i \in 1 .. Len(queue) : queue'[i] = queue[i]
        BY <3>1, <3>2
      <4>2. QED
        BY <3>2, <4>1
    <3>3. CASE abandoned' = abandoned \cup {l} /\ queue' = queue
      BY <3>3
    <3>4. QED
      BY <1>2, <3>2, <3>3 DEF Finish
  <2>3. InHand' = InHand /\ InStream' = InStream
    BY <2>1
  <2> HIDE DEF InQueue, InHand, InStream
  <2>4. QED
    BY <1>0, <2>1, <2>2, <2>3
<1>3. ASSUME NEW w \in Worker, Take(w) PROVE Log \ unsent' \subseteq InQueue' \cup InHand' \cup InStream' \cup abandoned'
  <2>1. /\ UNCHANGED <<unsent, entries, abandoned>> /\ job[w] = NoLog /\ queue # <<>>
        /\ job' = [job EXCEPT ![w] = Head(queue)] /\ queue' = Tail(queue)
    BY <1>3 DEF Take
  <2>2. queue \in Seq(Log) /\ job \in [Worker -> Log \cup {NoLog}]
    BY DEF TypeOK
  <2>3. InQueue \subseteq InQueue' \cup {Head(queue)}
    <3>1. SUFFICES ASSUME NEW i \in 1 .. Len(queue) PROVE queue[i] \in InQueue' \cup {Head(queue)}
      BY <2>2
    <3>2. CASE i = 1
      BY <2>1, <2>2, <3>2
    <3>3. CASE i # 1
      <4>1. i - 1 \in DOMAIN queue' /\ queue'[i - 1] = queue[i]
        BY <2>1, <2>2, <3>3
      <4>2. QED
        BY <4>1
    <3>4. QED
      BY <3>2, <3>3
  <2>4. InHand \cup {Head(queue)} \subseteq InHand'
    <3>1. Head(queue) \in Log /\ Head(queue) # NoLog
      BY <2>1, <2>2
    <3>2. job'[w] = Head(queue) /\ \A v \in Worker : v # w => job'[v] = job[v]
      BY <2>1, <2>2
    <3>3. QED
      BY <2>1, <3>1, <3>2
  <2>5. InStream' = InStream
    BY <2>1
  <2> HIDE DEF InQueue, InHand, InStream
  <2>6. QED
    BY <1>0, <2>1, <2>3, <2>4, <2>5
\* An added entry stays in the stream, and a worker lets go of a log it added or gives up.
<1>4. ASSUME NEW l \in Log, PublishLog(l) PROVE InStream \cup {l} \subseteq InStream'
  <2>1. /\ Len(entries) \in Nat /\ DOMAIN entries = 1 .. Len(entries)
        /\ DOMAIN entries' = 1 .. Len(entries) + 1
        /\ \A i \in 1 .. Len(entries) : entries'[i] = entries[i]
        /\ entries'[Len(entries) + 1] = l
    BY <1>4, PublishLogType DEF TypeOK
  <2>2. QED
    BY <2>1
<1>5. ASSUME NEW w \in Worker, job' = job \/ job' = [job EXCEPT ![w] = NoLog]
      PROVE  InHand \subseteq InHand' \cup {job[w]}
  BY <1>5 DEF TypeOK
<1>6. ASSUME NEW w \in Worker, Publish(w) \/ PublishFails(w)
      PROVE  Log \ unsent' \subseteq InQueue' \cup InHand' \cup InStream' \cup abandoned'
  <2>1. job[w] \in Log /\ UNCHANGED <<unsent, queue>> /\ abandoned \subseteq abandoned'
    BY <1>6 DEF Publish, PublishFails, TypeOK
  <2>2. job' = job \/ job' = [job EXCEPT ![w] = NoLog]
    BY <1>6 DEF Publish, PublishFails
  <2>3. InStream \subseteq InStream' /\ (job' = job \/ job[w] \in InStream' \cup abandoned')
    BY <1>4, <1>6, <2>1 DEF Publish, PublishFails
  <2>4. InQueue' = InQueue /\ (job' = job => InHand' = InHand)
    BY <2>1
  <2>5. InHand \subseteq InHand' \cup {job[w]}
    BY <1>5, <2>2
  <2> HIDE DEF InQueue, InHand, InStream
  <2>6. QED
    BY <1>0, <2>1, <2>3, <2>4, <2>5
<1>7. ASSUME GatewayEnds PROVE Log \ unsent' \subseteq InQueue' \cup InHand' \cup InStream' \cup abandoned'
  <2>1. abandoned' = abandoned \cup InQueue \cup InHand /\ UNCHANGED <<unsent, entries>>
    BY <1>7 DEF GatewayEnds, Unpublished
  <2>2. InStream' = InStream
    BY <2>1
  <2> HIDE DEF InQueue, InHand, InStream
  <2>3. QED
    BY <1>0, <2>1, <2>2
<1>8. CASE Drained \/ GatewayDies
  BY <1>7, <1>8 DEF Drained, GatewayDies
<1>9. CASE GatewayStops \/ GatewayStarts \/ Quiet \/ UNCHANGED vars
  BY <1>1, <1>9 DEF GatewayStops, GatewayStarts, Quiet, vars
<1>10. ASSUME NEW c \in Consumer, PodNext(c) PROVE UNCHANGED <<unsent, queue, job, entries, abandoned>>
  BY <1>10 DEF PodNext, Start, StartFails, Read, ReadLost, Flush, Claim, Stop, Stopped, PodDies, PodEnds
<1>11. ASSUME NEW t \in Loop, LoopNext(t) PROVE UNCHANGED <<unsent, queue, job, entries, abandoned>>
  BY <1>11 DEF LoopNext, Insert, InsertFails, Ack, AckFails
<1>12. ASSUME NEW i \in pel, GrowsIdle(i) PROVE UNCHANGED <<unsent, queue, job, entries, abandoned>>
  BY <1>12 DEF GrowsIdle
<1>13. QED
  BY <1>1, <1>2, <1>3, <1>6, <1>8, <1>9, <1>10, <1>11, <1>12 DEF Next, GatewayNext

\* The log of a finished request is in the gateway's hands, in the stream, or was given up.
THEOREM EveryLogAccounted == Spec => []NothingUnaccounted
<1>1. Init => NothingUnaccounted
  BY DEF Init, NothingUnaccounted
<1>2. QED
  BY <1>1, UnaccountedStep, TypeCorrect, PTL DEF Spec

-----------------------------------------------------------------------------
(* LogPipeline implements LogDelivery: only publishing, storing,           *)
(* acknowledging and a claim that finds a trimmed entry are steps of the   *)
(* abstract specification, and every other step is a stutter.              *)

\* Trimming leaves the MaxLen newest entries alone.
TrimBound == trimmed <= 0 \/ trimmed <= Len(entries) - MaxLen

\* Only PublishLog trims, and it keeps MaxLen entries.
LEMMA TrimStep == TypeOK /\ TrimBound /\ [Next]_vars => TrimBound'
<1> SUFFICES ASSUME TypeOK, TrimBound, [Next]_vars PROVE TrimBound'
  OBVIOUS
<1>0. Len(entries) \in Nat /\ trimmed \in Nat
  BY DEF TypeOK
<1>1. ASSUME UNCHANGED <<entries, trimmed>> PROVE TrimBound'
  BY <1>1 DEF TrimBound
<1>2. ASSUME NEW l \in Log, PublishLog(l) PROVE TrimBound'
  <2>1. /\ Len(entries') = Len(entries) + 1 /\ trimmed' \in Nat /\ trimmed <= trimmed'
        /\ trimmed' <= trimmed \/ trimmed' <= Len(entries') - MaxLen
    BY <1>2, PublishLogType
  <2>2. CASE trimmed' <= Len(entries') - MaxLen
    BY <2>2 DEF TrimBound
  <2>3. CASE trimmed' <= trimmed
    <3>1. trimmed' = trimmed
      BY <1>0, <2>1, <2>3
    <3>2. QED
      BY <1>0, <2>1, <3>1 DEF TrimBound
  <2>4. QED
    BY <2>1, <2>2, <2>3
<1>3. ASSUME NEW c \in Consumer, Read(c) \/ ReadLost(c) \/ Flush(c) \/ Claim(c) \/ PodEnds(c)
      PROVE  UNCHANGED <<entries, trimmed>>
  BY <1>3 DEF Read, ReadLost, Flush, Claim, PodEnds, streamVars
<1>4. ASSUME NEW t \in Loop, Insert(t) \/ InsertFails(t) \/ Ack(t) \/ AckFails(t)
      PROVE  UNCHANGED <<entries, trimmed>>
  BY <1>4 DEF Insert, InsertFails, Ack, AckFails, streamVars
<1>5. ASSUME NEW i \in pel, GrowsIdle(i) PROVE UNCHANGED <<entries, trimmed>>
  BY <1>5 DEF GrowsIdle, streamVars
<1>6. QED
  BY <1>1, <1>2, <1>3, <1>4, <1>5, NextCases

\* The initial state maps to the initial state of LogDelivery.
LEMMA DeliveryInit == Init => Delivery!Init /\ TrimBound
<1> SUFFICES ASSUME Init PROVE Delivery!Init /\ TrimBound
  OBVIOUS
<1>1. entries = <<>> /\ Len(entries) = 0 /\ trimmed = 0 /\ delivered = 0 /\ pel = {}
  BY DEF Init
<1>2. Owed = {}
  BY <1>1 DEF Owed, Undelivered, NextId, Larger
<1>3. Saved = {}
  BY <1>1 DEF Saved
<1>4. QED
  BY <1>1, <1>2, <1>3 DEF Delivery!Init, TrimBound

\* What is owed, by id: pending, or neither delivered nor trimmed.
LEMMA OwedById ==
  ASSUME TypeOK
  PROVE  /\ Undelivered = {i \in 1 .. Len(entries) : delivered < i /\ trimmed < i}
         /\ pel \subseteq 1 .. delivered /\ pel \cap Undelivered = {}
         /\ delivered \in 0 .. Len(entries) /\ trimmed \in 0 .. Len(entries)
         /\ Len(entries) \in Nat
<1>1. /\ pel \subseteq 1 .. delivered /\ Len(entries) \in Nat
      /\ delivered \in 0 .. Len(entries) /\ trimmed \in 0 .. Len(entries)
  BY DEF TypeOK
<1>2. Undelivered = {i \in 1 .. Len(entries) : delivered < i /\ trimmed < i}
  BY <1>1 DEF Undelivered, NextId, Larger
<1>3. QED
  BY <1>1, <1>2

\* What an insert saves was owed and decodable.
LEMMA InsertSaves ==
  ASSUME TypeOK, NEW I \in SUBSET pel, InsertMany(I), UNCHANGED <<entries, trimmed, delivered, pel>>
  PROVE  \E S \in SUBSET Log : Delivery!Save(S)
<1> DEFINE S == {entries[i] : i \in Decodable(I)}
<1>1. /\ DOMAIN entries = 1 .. Len(entries) /\ entries \in Seq(Log) /\ I \subseteq 1 .. Len(entries)
      /\ Decodable(I) = {i \in I : entries[i] \notin Garbage}
  BY OwedById DEF TypeOK, Decodable
<1>2. S \in SUBSET Log
  BY <1>1
<1>3. \A l \in S : l \notin Garbage /\ \E i \in Owed : entries[i] = l
  BY <1>1 DEF Owed
<1>4. \A i \in 1 .. Len(entries) : stored'[i] > 0 <=> (stored[i] > 0 \/ i \in Decodable(I))
  <2>1. \A i \in 1 .. Len(entries) :
          /\ stored[i] \in Nat
          /\ i \in Decodable(I) => stored'[i] = stored[i] + 1
    BY <1>1, InsertManyType
  <2>2. \A i \in 1 .. Len(entries) : i \notin Decodable(I) => stored'[i] = stored[i]
    BY <1>1 DEF InsertMany
  <2>3. QED
    BY <2>1, <2>2
<1>5. Saved' = Saved \cup S
  BY <1>1, <1>4 DEF Saved
<1>6. UNCHANGED <<entries, Owed>>
  BY DEF Owed, Undelivered, NextId, Larger
<1>7. QED
  BY <1>2, <1>3, <1>5, <1>6 DEF Delivery!Save

\* Every step maps to a step of LogDelivery or to a stutter.
LEMMA DeliveryStep ==
  IInv /\ TrimBound /\ [Next]_vars => [Delivery!Next]_<<entries, Owed, Saved>>
<1> SUFFICES ASSUME IInv, TrimBound, [Next]_vars PROVE [Delivery!Next]_<<entries, Owed, Saved>>
  OBVIOUS
<1>0. TypeOK /\ HandsInv /\ AckHoldsStored
  BY DEF IInv
<1>1. ASSUME UNCHANGED <<entries, trimmed, delivered, stored, pel>>
      PROVE  UNCHANGED <<entries, Owed, Saved>>
  BY <1>1 DEF Owed, Saved, Undelivered, NextId, Larger
<1>2. ASSUME NEW l \in Log, PublishLog(l), UNCHANGED <<pel, idle, pc, held>>
      PROVE  Delivery!Next
  <2> DEFINE D == {i \in Undelivered : i <= trimmed'}
  <2>1. /\ entries' = Append(entries, l) /\ Len(entries') = Len(entries) + 1
        /\ DOMAIN entries = 1 .. Len(entries) /\ DOMAIN entries' = 1 .. Len(entries) + 1
        /\ \A i \in 1 .. Len(entries) : entries'[i] = entries[i] /\ stored'[i] = stored[i]
        /\ stored'[Len(entries) + 1] = 0
        /\ trimmed' \in Nat /\ trimmed <= trimmed' /\ trimmed' <= Len(entries)
        /\ trimmed' <= trimmed \/ trimmed' <= Len(entries') - MaxLen
        /\ delivered' = delivered /\ pel' = pel
    <3>1. entries \in Seq(Log) /\ trimmed \in 0 .. Len(entries)
      BY <1>0 DEF TypeOK
    <3>2. /\ entries' = Append(entries, l) /\ delivered' = delivered /\ pel' = pel
          /\ stored' = [i \in 1 .. Len(entries) + 1 |-> IF i <= Len(entries) THEN stored[i] ELSE 0]
          /\ trimmed' \in trimmed .. Larger(trimmed, Len(entries) + 1 - MaxLen)
      BY <1>2 DEF PublishLog
    <3>3. Larger(trimmed, Len(entries) + 1 - MaxLen) \in {trimmed, Len(entries) + 1 - MaxLen}
      BY DEF Larger
    <3>4. /\ trimmed' \in Nat /\ trimmed <= trimmed' /\ trimmed' <= Len(entries)
          /\ trimmed' <= trimmed \/ trimmed' <= Len(entries) + 1 - MaxLen
      BY <3>1, <3>2, <3>3
    <3> QED BY <3>1, <3>2, <3>4
  <2>2. D \in SUBSET Owed /\ D \subseteq 1 .. (Len(entries) + 1 - MaxLen)
    BY <1>0, <2>1, OwedById DEF Owed
  <2>3. Undelivered' = (Undelivered \cup {Len(entries) + 1}) \ D
    <3>1. Undelivered' = {i \in 1 .. Len(entries) + 1 : delivered < i /\ trimmed' < i}
      BY <1>0, <2>1, OwedById DEF Undelivered, NextId, Larger
    <3>2. QED
      BY <1>0, <2>1, <3>1, OwedById
  <2>4. pel \cap D = {} /\ Len(entries) + 1 \notin D
    BY <1>0, OwedById
  <2>5. Owed' = (Owed \cup {Len(entries) + 1}) \ D
    <3> HIDE DEF D
    <3>1. QED
      BY <2>1, <2>3, <2>4 DEF Owed
  <2>6. Saved' = Saved
    <3>1. Len(entries) \in Nat
      BY <1>0, OwedById
    <3>2. {j \in DOMAIN entries' : stored'[j] > 0} = {j \in DOMAIN entries : stored[j] > 0}
      BY <2>1, <3>1
    <3>3. QED
      BY <2>1, <3>2 DEF Saved
  <2>7. Delivery!Publish(l, D)
    BY <2>1, <2>2, <2>5, <2>6 DEF Delivery!Publish
  <2>8. QED
    BY <2>2, <2>7 DEF Delivery!Next
<1>3. ASSUME NEW c \in Consumer, Read(c) \/ ReadLost(c) PROVE UNCHANGED <<entries, Owed, Saved>>
  <2>1. /\ delivered' = BatchEnd /\ pel' = pel \cup (NextId .. BatchEnd) /\ Undelivered # {}
        /\ UNCHANGED <<entries, stored, trimmed>>
    BY <1>3 DEF Read, ReadLost
  <2>2. /\ BatchEnd \in NextId .. Len(entries) /\ NextId \in 1 .. Len(entries)
        /\ trimmed < NextId /\ trimmed \in Nat /\ Len(entries) \in Nat
    BY <1>0, <2>1, BatchRange
  <2>3. Undelivered' = BatchEnd + 1 .. Len(entries)
    BY <2>1, <2>2 DEF Undelivered, NextId, Larger
  <2>4. Undelivered = NextId .. Len(entries)
    BY DEF Undelivered
  <2>5. Owed' = Owed
    BY <2>1, <2>2, <2>3, <2>4 DEF Owed
  <2>6. QED
    BY <2>1, <2>5 DEF Saved
<1>4. ASSUME NEW c \in Consumer, Flush(c) \/ PodEnds(c) PROVE UNCHANGED <<entries, Owed, Saved>>
  BY <1>1, <1>4 DEF Flush, PodEnds, streamVars, groupVars
<1>5. ASSUME NEW c \in Consumer, Claim(c) PROVE Delivery!Next
  <2> DEFINE scanned == Lowest(idle, ReadCount)
             D == {i \in scanned : i <= trimmed}
  <2>1. /\ pel' = pel \ (scanned \ {i \in scanned : i > trimmed})
        /\ UNCHANGED <<entries, stored, trimmed, delivered>>
    BY <1>5 DEF Claim, streamVars
  <2>2. scanned \subseteq pel
    BY <1>0, LowestIsSubset DEF TypeOK
  <2> HIDE DEF scanned
  <2>3. \A i \in scanned : i \in Int /\ trimmed \in Int
    BY <1>0, <2>2, OwedById
  <2>4. pel' = pel \ D
    BY <2>1, <2>3
  <2>5. D \in SUBSET Owed /\ D \cap Undelivered = {} /\ D \subseteq pel
    BY <1>0, <2>2, OwedById DEF Owed
  <2>6. D \subseteq 1 .. (Len(entries) - MaxLen)
    BY <1>0, <2>2, OwedById DEF TrimBound
  <2>7. Undelivered' = Undelivered /\ Saved' = Saved
    BY <2>1 DEF Undelivered, NextId, Larger, Saved
  <2>8. Owed' = Owed \ D
    <3> HIDE DEF D
    <3>1. QED
      BY <2>4, <2>5, <2>7 DEF Owed
  <2>9. Delivery!WriteOff(D)
    BY <2>1, <2>5, <2>6, <2>7, <2>8 DEF Delivery!WriteOff
  <2>10. QED
    BY <2>5, <2>9 DEF Delivery!Next
<1>6. ASSUME NEW t \in Loop, Insert(t) \/ InsertFails(t) PROVE Delivery!Next
  <2>1. PICK I \in SUBSET held[t] : InsertMany(I)
    BY <1>6 DEF Insert, InsertFails
  <2>2. I \in SUBSET pel
    BY <1>0 DEF HandsInv, NoDoubleWork
  <2>3. UNCHANGED <<entries, trimmed, delivered, pel>>
    BY <1>6 DEF Insert, InsertFails, groupVars
  <2>4. QED
    BY <1>0, <2>1, <2>2, <2>3, InsertSaves DEF Delivery!Next
<1>7. ASSUME NEW t \in Loop, Ack(t) PROVE Delivery!Next
  <2>1. /\ pel' = pel \ held[t] /\ pc[t] = "ack"
        /\ UNCHANGED <<entries, trimmed, delivered, stored>>
    BY <1>7 DEF Ack, streamVars
  <2>2. held[t] \in SUBSET pel
    BY <1>0 DEF HandsInv, NoDoubleWork
  <2>3. held[t] \in SUBSET Owed /\ held[t] \cap Undelivered = {}
    BY <1>0, <2>2, OwedById DEF Owed
  <2>4. \A i \in held[t] : entries[i] \in Saved \cup Garbage
    <3>1. held[t] \subseteq DOMAIN entries
      BY <1>0 DEF TypeOK
    <3>2. QED
      BY <1>0, <2>1, <3>1 DEF AckHoldsStored, Saved
  <2>5. Undelivered' = Undelivered /\ Saved' = Saved
    BY <2>1 DEF Undelivered, NextId, Larger, Saved
  <2>6. Owed' = Owed \ held[t]
    BY <2>1, <2>2, <2>3, <2>5 DEF Owed
  <2>7. Delivery!Settle(held[t])
    BY <2>1, <2>3, <2>4, <2>5, <2>6 DEF Delivery!Settle
  <2>8. QED
    BY <2>3, <2>7 DEF Delivery!Next
<1>8. ASSUME NEW t \in Loop, AckFails(t) PROVE UNCHANGED <<entries, Owed, Saved>>
  BY <1>1, <1>8 DEF AckFails, streamVars, groupVars
<1>9. ASSUME NEW i \in pel, GrowsIdle(i) PROVE UNCHANGED <<entries, Owed, Saved>>
  BY <1>1, <1>9 DEF GrowsIdle, streamVars
<1>10. QED
  BY <1>0, <1>1, <1>2, <1>3, <1>4, <1>5, <1>6, <1>7, <1>8, <1>9, NextCases

\* The pipeline implements the promise of LogDelivery, whatever fails.
THEOREM PipelineImplementsDelivery == Spec => ImplementsDelivery
<1>1. Init => Delivery!Init /\ TrimBound
  BY DeliveryInit
<1>2. IInv /\ TrimBound /\ [Next]_vars => TrimBound' /\ [Delivery!Next]_<<entries, Owed, Saved>>
  BY TrimStep, DeliveryStep DEF IInv
<1>3. QED
  BY <1>1, <1>2, Inductive, PTL DEF Spec, ImplementsDelivery, Delivery!Spec, Delivery!vars
=============================================================================
