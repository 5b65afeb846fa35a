--------------------------- MODULE RateLimitProofs ---------------------------
(***************************************************************************)
(* The sliding window keeps its limits for any number of requests and      *)
(* tiers, any ids they carry and any clocks.  The inductive invariant says *)
(* what a sorted set remembers: the id of a request a tier added is in it  *)
(* with that score or a later one, or one that another request with the id *)
(* put back by no more than the disorder, until the window has passed it   *)
(* by on every clock, and neither the eviction nor the key's TTL takes it  *)
(* out before.                                                             *)
(***************************************************************************)
EXTENDS RateLimit, FiniteSetTheorems, TLAPS

USE RateLimitAssumption DEF RateLimitAssumption

\* What the assumption says of one tier.
LEMMA TierFacts ==
  ASSUME NEW i \in TierIndex
  PROVE  /\ Tiers[i].limit \in Nat \ {0} /\ Tiers[i].window \in Nat \ {0}
         /\ Tiers[i].window \in Window
<1> DEFINE T == [limit : Nat \ {0}, window : Nat \ {0}]
<1>1. Tiers \in Seq(T) /\ i \in 1 .. Len(Tiers)
  BY DEF TierIndex
<1>2. Tiers[i] \in T
  <2> HIDE DEF T
  <2> QED
    BY <1>1
<1>3. QED
  BY <1>2 DEF Window

\* The windows are positive numbers.
LEMMA WindowFacts == \A w \in Window : w \in Nat \ {0}
  BY TierFacts DEF Window

\* The types of what a script at hand works with.
LEMMA ScriptFacts ==
  ASSUME TypeOK, NEW r \in Request
  PROVE  /\ tier[r] \in TierIndex
         /\ WindowOf(r) \in Window /\ WindowOf(r) \in Nat \ {0}
         /\ Limit(r) \in Nat \ {0}
         /\ now[r] \in Score /\ now[r] \in Nat /\ id[r] \in Id
         /\ Evicted(r) \in [Id -> Score \cup {Absent}]
<1>1. tier[r] \in TierIndex /\ now[r] \in Score /\ id[r] \in Id
  BY DEF TypeOK
<1>2. WindowOf(r) \in Window /\ WindowOf(r) \in Nat \ {0} /\ Limit(r) \in Nat \ {0}
  BY <1>1, TierFacts DEF WindowOf, Limit
<1>3. zset[WindowOf(r)] \in [Id -> Score \cup {Absent}]
  BY <1>2 DEF TypeOK
<1>4. Evicted(r) \in [Id -> Score \cup {Absent}]
  BY <1>3 DEF Evicted
<1>5. now[r] \in Nat
  BY <1>1 DEF Score
<1>6. QED
  BY <1>1, <1>2, <1>4, <1>5

\* Retry-After is a number of seconds, and no shorter than the wait it rounds up.
LEMMA RetryAfterFacts ==
  ASSUME NEW m \in Int
  PROVE  LET s == Larger(1, (m + Second - 1) \div Second)
         IN  s \in Int /\ s * Second \in Int /\ s * Second >= m
<1> DEFINE d == (m + Second - 1) \div Second
<1>1. d \in Int
  OBVIOUS
<1>2. d * Second >= m
  OBVIOUS
<1>3. Larger(1, d) \in Int /\ Larger(1, d) >= d
  BY <1>1 DEF Larger
<1>4. Larger(1, d) * Second >= d * Second
  <2> HIDE DEF d
  <2>1. CASE d >= 1
    BY <1>1, <2>1 DEF Larger
  <2>2. CASE ~ d >= 1
    BY <1>1, <2>2 DEF Larger
  <2> QED
    BY <2>1, <2>2
<1>5. QED
  BY <1>1, <1>2, <1>3, <1>4

-----------------------------------------------------------------------------
(* Types.                                                                  *)

\* The oldest member is one of the set, and what its wait says is a number.
LEMMA OldestFacts ==
  ASSUME TypeOK, NEW r \in Request, NEW q \in Oldest(r)
  PROVE  /\ q \in Id /\ Evicted(r)[q] \in Nat
         /\ RetryAfter(r, q) \in Int /\ RetryAfter(r, q) * Second \in Int
         /\ RetryAfter(r, q) * Second >= Evicted(r)[q] + WindowOf(r) - now[r]
<1>1. q \in Id /\ Evicted(r)[q] \in Nat
  BY ScriptFacts DEF Oldest, Members, Score, Absent
<1>2. ResetMs(r, q) \in Int /\ ResetMs(r, q) = Evicted(r)[q] + WindowOf(r) - now[r]
  BY <1>1, ScriptFacts DEF ResetMs
<1>3. /\ RetryAfter(r, q) \in Int /\ RetryAfter(r, q) * Second \in Int
      /\ RetryAfter(r, q) * Second >= ResetMs(r, q)
  BY <1>2, RetryAfterFacts DEF RetryAfter
<1>4. QED
  BY <1>1, <1>2, <1>3

\* A script leaves every set, score and time of the right kind.
LEMMA ScriptTypes ==
  ASSUME TypeOK, NEW r \in Request, ScriptAdds(r) \/ ScriptDenies(r)
  PROVE  /\ zset' \in [Window -> [Id -> Score \cup {Absent}]]
         /\ touched' \in [Window -> 0 .. MaxClock]
         /\ admitted' \in [TierIndex -> [Request -> Score \cup {Absent}]]
         /\ retryAt' \in [TierIndex -> Int]
<1> DEFINE S == Score \cup {Absent}
<1>0. /\ tier[r] \in TierIndex /\ WindowOf(r) \in Window /\ now[r] \in S /\ id[r] \in Id
      /\ Evicted(r) \in [Id -> S]
      /\ zset \in [Window -> [Id -> S]] /\ touched \in [Window -> 0 .. MaxClock]
      /\ clock \in 0 .. MaxClock
      /\ admitted \in [TierIndex -> [Request -> S]] /\ retryAt \in [TierIndex -> Int]
  BY ScriptFacts DEF TypeOK
<1> HIDE DEF S
<1>1. CASE ScriptAdds(r)
  <2>1. [Evicted(r) EXCEPT ![id[r]] = now[r]] \in [Id -> S]
    BY <1>0
  <2>2. zset' \in [Window -> [Id -> S]] /\ touched' \in [Window -> 0 .. MaxClock]
    BY <1>0, <1>1, <2>1 DEF ScriptAdds, Write
  <2>3. admitted' \in [TierIndex -> [Request -> S]]
    BY <1>0, <1>1 DEF ScriptAdds
  <2>4. retryAt' \in [TierIndex -> Int]
    BY <1>0, <1>1 DEF ScriptAdds, Never
  <2>5. QED
    BY <2>2, <2>3, <2>4 DEF S
<1>2. CASE ScriptDenies(r)
  <2>1. zset' \in [Window -> [Id -> S]] /\ touched' \in [Window -> 0 .. MaxClock]
    BY <1>0, <1>2 DEF ScriptDenies, Write
  <2>2. admitted' = admitted
    BY <1>2 DEF ScriptDenies
  <2>3. retryAt' \in [TierIndex -> Int]
    <3>1. PICK q \in Oldest(r) :
            retryAt' = [retryAt EXCEPT ![tier[r]] = now[r] + RetryAfter(r, q) * Second]
      BY <1>2 DEF ScriptDenies
    <3>2. now[r] + RetryAfter(r, q) * Second \in Int
      BY OldestFacts, ScriptFacts
    <3>3. QED
      BY <1>0, <3>1, <3>2
  <2>4. QED
    BY <1>0, <2>1, <2>2, <2>3 DEF S
<1>3. QED
  BY <1>1, <1>2

\* The initial state has the types.
LEMMA TypeInit == Init => TypeOK
<1>1. Len(Tiers) \in Nat /\ Len(Tiers) >= 1
  BY DEF TierIndex
<1>2. 1 \in TierIndex
  BY <1>1 DEF TierIndex
<1>3. QED
  BY <1>2 DEF Init, TypeOK, Score, Absent, Never

\* Every step keeps the types.
LEMMA TypeStep == TypeOK /\ [Next]_vars => TypeOK'
<1> SUFFICES ASSUME TypeOK, [Next]_vars PROVE TypeOK'
  OBVIOUS
<1>1. ASSUME NEW r \in Request, ReadClock(r) PROVE TypeOK'
  BY <1>1 DEF ReadClock, TypeOK, Score
<1>2. ASSUME NEW r \in Request, Pass(r) PROVE TypeOK'
  <2>1. tier' \in [Request -> TierIndex]
    <3>1. CASE tier[r] < Len(Tiers)
      <4>1. tier[r] \in TierIndex /\ tier[r] + 1 \in TierIndex
        BY <3>1 DEF TypeOK, TierIndex
      <4>2. tier' = [tier EXCEPT ![r] = @ + 1]
        BY <1>2, <3>1 DEF Pass
      <4>3. QED
        BY <4>1, <4>2 DEF TypeOK
    <3>2. CASE ~ tier[r] < Len(Tiers)
      BY <1>2, <3>2 DEF Pass, Answer, TypeOK
    <3>3. QED
      BY <3>1, <3>2
  <2>2. pc' \in [Request -> {"read", "script", "served", "denied", "unlimited"}]
    BY <1>2 DEF Pass, Answer, TypeOK
  <2>3. now' \in [Request -> Score]
    BY <1>2 DEF Pass, TypeOK, Score
  <2>4. /\ zset' \in [Window -> [Id -> Score \cup {Absent}]]
        /\ touched' \in [Window -> 0 .. MaxClock]
        /\ admitted' \in [TierIndex -> [Request -> Score \cup {Absent}]]
        /\ retryAt' \in [TierIndex -> Int]
    BY <1>2, ScriptTypes DEF Pass
  <2>5. clock' \in 0 .. MaxClock /\ faults' \in 0 .. MaxFaults /\ id' \in [Request -> Id]
    BY <1>2 DEF Pass, TypeOK
  <2>6. QED
    BY <2>1, <2>2, <2>3, <2>4, <2>5 DEF TypeOK
<1>3. ASSUME NEW r \in Request, Deny(r) PROVE TypeOK'
  BY <1>3, ScriptTypes DEF Deny, Answer, TypeOK, Score
<1>4. ASSUME NEW r \in Request, Lost(r) PROVE TypeOK'
  <2>1. /\ zset' \in [Window -> [Id -> Score \cup {Absent}]]
        /\ touched' \in [Window -> 0 .. MaxClock]
        /\ admitted' \in [TierIndex -> [Request -> Score \cup {Absent}]]
        /\ retryAt' \in [TierIndex -> Int]
    BY <1>4, ScriptTypes DEF Lost, TypeOK
  <2>2. faults' \in 0 .. MaxFaults /\ clock' \in 0 .. MaxClock /\ id' \in [Request -> Id]
    BY <1>4 DEF Lost, Fault, TypeOK
  <2>3. /\ pc' \in [Request -> {"read", "script", "served", "denied", "unlimited"}]
        /\ tier' \in [Request -> TierIndex] /\ now' \in [Request -> Score]
    <3>1. 0 \in Score /\ now \in [Request -> Score] /\ tier \in [Request -> TierIndex]
          /\ pc \in [Request -> {"read", "script", "served", "denied", "unlimited"}]
      BY DEF TypeOK, Score
    <3>2. CASE Answer(r, "unlimited") /\ now' = [now EXCEPT ![r] = 0]
      BY <3>1, <3>2 DEF Answer
    <3>3. CASE Answer(r, "script") /\ UNCHANGED now
      BY <3>1, <3>3 DEF Answer
    <3>4. QED
      BY <1>4, <3>2, <3>3 DEF Lost
  <2>4. QED
    BY <2>1, <2>2, <2>3 DEF TypeOK
<1>5. ASSUME NEW w \in Window, Expire(w) PROVE TypeOK'
  BY <1>5 DEF Expire, TypeOK
<1>6. CASE Tick
  BY <1>6 DEF Tick, TypeOK
<1>7. CASE UNCHANGED vars
  BY <1>7 DEF vars, TypeOK
<1>8. QED
  BY <1>1, <1>2, <1>3, <1>4, <1>5, <1>6, <1>7 DEF Next, RequestNext, Quiet

\* RateLimit.tla: every counter, set and answer of the limiter stays of its kind.
THEOREM TypeCorrect == Spec => []TypeOK
<1>1. QED
  BY TypeInit, TypeStep, PTL DEF Spec

-----------------------------------------------------------------------------
(* The inductive invariant.                                                *)

\* A script's clock reading is recent, and later than what the request was added with before.
ReadingsAreRecent ==
    \A r \in Request : pc[r] = "script" =>
        /\ now[r] <= clock + Skew /\ clock <= now[r] + MaxLag
        /\ \A i \in TierIndex : admitted[i][r] <= now[r]

\* No member of a sorted set is from after the set's last EXPIRE, but for the skew.
SetsAreTouched ==
    \A w \in Window : touched[w] <= clock /\ \A d \in Id : zset[w][d] <= touched[w] + Skew

\* No request was added with a reading ahead of the clock, but for the skew.
AddedBefore == \A i \in TierIndex : \A r \in Request : admitted[i][r] <= clock + Skew

\* The id of a request that a tier added is in its sorted set with that score or a later one, or one that
\* another request with the id put back, until the window has passed it by on every clock.
SetsRemember ==
    \A i \in TierIndex : \A r \in Request :
        \/ admitted[i][r] = Absent
        \/ /\ zset[Tiers[i].window][id[r]] # Absent
           /\ zset[Tiers[i].window][id[r]] >= admitted[i][r] - Back(r)
        \/ admitted[i][r] - Back(r) <= clock + Skew - Tiers[i].window

IInv == TypeOK /\ ReadingsAreRecent /\ SetsAreTouched /\ AddedBefore /\ SetsRemember

\* How far a score may be put back is a number, nothing for an id of one's own.
LEMMA BackFacts ==
  ASSUME NEW r \in Request
  PROVE  /\ Back(r) \in Nat
         /\ \A q \in Request : q # r /\ id[q] = id[r] => Back(r) = Disorder
         /\ id' = id => Back(r)' = Back(r)
  BY DEF Back, Shared, Disorder

\* The initial state satisfies the invariant.
LEMMA IInvInit == Init => IInv
<1> SUFFICES ASSUME Init PROVE IInv
  OBVIOUS
<1>1. TypeOK
  BY TypeInit
<1>2. ReadingsAreRecent /\ SetsAreTouched /\ AddedBefore /\ SetsRemember
  BY TierFacts DEF Init, ReadingsAreRecent, SetsAreTouched, AddedBefore, SetsRemember, Absent
<1>3. QED
  BY <1>1, <1>2 DEF IInv

\* What is left of a number, and the same number a tick later.
LEMMA Less ==
  ASSUME NEW a \in Int, NEW b \in Nat, NEW n \in Int, a <= n
  PROVE  a - b <= n
OBVIOUS

LEMMA Over ==
  ASSUME NEW t \in Int, NEW v \in Int, NEW c \in Int, NEW k \in Int, NEW n \in Nat, c >= t + v + n
  PROVE  t + k <= c + k - v
OBVIOUS

LEMMA Later ==
  ASSUME NEW a \in Int, NEW b \in Int, NEW c \in Int
  PROVE  a + b - c \in Int /\ a + b - c <= a + 1 + b - c
OBVIOUS

\* A score the window has passed by at some reading, it has passed by at the clock plus the skew.
LEMMA PassedBy ==
  ASSUME NEW a \in Int, NEW b \in Int, NEW z \in Int, NEW n \in Int, NEW v \in Int,
         NEW c \in Int, NEW k \in Int, n <= c + k
  PROVE  z <= n - v /\ z >= a - b => a - b <= c + k - v
OBVIOUS

\* The order of numbers.
LEMMA Transitive ==
  ASSUME NEW a \in Int, NEW b \in Int, NEW c \in Int, a <= b, b <= c
  PROVE  a <= c
  OBVIOUS

\* The scores of the sorted sets and of the requests are numbers, Absent below them all.
LEMMA ScoreFacts ==
  ASSUME TypeOK
  PROVE  /\ clock \in Nat
         /\ \A v \in Window, d \in Id : zset[v][d] \in Int
         /\ \A i \in TierIndex, q \in Request : admitted[i][q] \in Int
         /\ \A i \in TierIndex, q \in Request :
               admitted[i][q] = Absent \/ admitted[i][q] \in Nat
<1>1. \A s \in Score \cup {Absent} : s \in Int /\ (s = Absent \/ s \in Nat)
  BY DEF Score, Absent
<1>2. QED
  BY <1>1 DEF TypeOK

\* A script keeps what the sorted sets know: it evicts only what its window has passed by, and adds
\* the request with a reading that is no older than any it was added with, and older than another's by
\* the disorder at most.
LEMMA ScriptKeeps ==
  ASSUME IInv, TypeOK', NEW r \in Request, pc[r] = "script", clock' = clock, id' = id,
         ScriptAdds(r) \/ ScriptDenies(r)
  PROVE  /\ SetsAreTouched' /\ AddedBefore' /\ SetsRemember'
         /\ \A i \in TierIndex : \A q \in Request :
               admitted'[i][q] = admitted[i][q] \/ (q = r /\ admitted'[i][q] = now[r])
<1> DEFINE w == WindowOf(r)
<1>0. /\ tier[r] \in TierIndex /\ w \in Window /\ w \in Nat \ {0} /\ now[r] \in Nat
      /\ now[r] <= clock + Skew /\ clock \in Nat
      /\ zset \in [Window -> [Id -> Score \cup {Absent}]]
      /\ touched \in [Window -> 0 .. MaxClock]
      /\ admitted \in [TierIndex -> [Request -> Score \cup {Absent}]]
  <2>1. tier[r] \in TierIndex /\ w \in Window /\ w \in Nat \ {0} /\ now[r] \in Nat
    BY ScriptFacts DEF IInv
  <2>2. /\ zset \in [Window -> [Id -> Score \cup {Absent}]]
        /\ touched \in [Window -> 0 .. MaxClock]
        /\ admitted \in [TierIndex -> [Request -> Score \cup {Absent}]]
    BY DEF IInv, TypeOK
  <2>3. clock \in Nat
    BY ScoreFacts DEF IInv
  <2>4. now[r] <= clock + Skew
    BY DEF IInv, ReadingsAreRecent
  <2>5. QED
    BY <2>1, <2>2, <2>3, <2>4
<1>c. now[r] \in Int /\ now[r] <= clock + Skew /\ clock <= now[r] + MaxLag /\ clock \in Int
  BY <1>0 DEF IInv, ReadingsAreRecent
<1>d. \A q \in Request : id[q] \in Id
  BY ScriptFacts DEF IInv
<1>a. \A v \in Window, d \in Id : zset[v][d] \in Int
  BY ScoreFacts DEF IInv
<1>b. \A i \in TierIndex, q \in Request :
         admitted[i][q] \in Int /\ (admitted[i][q] = Absent \/ admitted[i][q] \in Nat)
  BY ScoreFacts DEF IInv
<1>1. \A i \in TierIndex : \A q \in Request :
         admitted'[i][q] = admitted[i][q] \/ (q = r /\ admitted'[i][q] = now[r])
  <2>1. admitted' = admitted \/ admitted' = [admitted EXCEPT ![tier[r]][r] = now[r]]
    BY DEF ScriptAdds, ScriptDenies
  <2>2. CASE admitted' = admitted
    BY <2>2
  <2>3. CASE admitted' = [admitted EXCEPT ![tier[r]][r] = now[r]]
    <3> SUFFICES ASSUME NEW i \in TierIndex, NEW q \in Request
                 PROVE  admitted'[i][q] = admitted[i][q] \/ (q = r /\ admitted'[i][q] = now[r])
      OBVIOUS
    <3>1. i \in DOMAIN admitted /\ admitted[i] \in [Request -> Score \cup {Absent}]
      BY <1>0
    <3>2. CASE i # tier[r]
      BY <2>3, <3>1, <3>2
    <3>3. CASE i = tier[r]
      <4>1. admitted'[i] = [admitted[i] EXCEPT ![r] = now[r]]
        BY <2>3, <3>1, <3>3
      <4>2. QED
        BY <3>1, <4>1
    <3>4. QED
      BY <3>2, <3>3
  <2>4. QED
    BY <2>1, <2>2, <2>3
<1>2. touched' = [touched EXCEPT ![w] = clock]
  BY DEF ScriptAdds, ScriptDenies, Write
<1>3. \A v \in Window : v # w => zset'[v] = zset[v]
  BY <1>0 DEF ScriptAdds, ScriptDenies, Write
<1>4. \A d \in Id :
         \/ zset'[w][d] = zset[w][d]
         \/ zset'[w][d] = Absent /\ zset[w][d] <= now[r] - w
         \/ d = id[r] /\ zset'[w][d] = now[r]
  <2>1. \A d \in Id :
           \/ Evicted(r)[d] = zset[w][d]
           \/ Evicted(r)[d] = Absent /\ zset[w][d] <= now[r] - w
    BY DEF Evicted
  <2>2. zset'[w] = Evicted(r) \/ zset'[w] = [Evicted(r) EXCEPT ![id[r]] = now[r]]
    BY <1>0 DEF ScriptAdds, ScriptDenies, Write
  <2>3. Evicted(r) \in [Id -> Score \cup {Absent}]
    BY ScriptFacts DEF IInv
  <2>4. QED
    BY <2>1, <2>2, <2>3
<1>5. SetsAreTouched'
  <2> SUFFICES ASSUME NEW v \in Window, NEW q \in Id
               PROVE  touched'[v] <= clock /\ zset'[v][q] <= touched'[v] + Skew
    BY <1>d DEF SetsAreTouched
  <2>1. touched[v] <= clock /\ zset[v][q] <= touched[v] + Skew /\ touched[v] \in Nat
    BY <1>0 DEF IInv, SetsAreTouched
  <2>2. CASE v = w
    <3>1. touched'[v] = clock
      BY <1>0, <1>2, <2>2
    <3>2. zset'[v][q] = zset[v][q] \/ zset'[v][q] = Absent \/ zset'[v][q] = now[r]
      BY <1>4, <2>2
    <3>3. zset[v][q] \in Int
      BY <1>a
    <3>4. zset[v][q] <= clock + Skew /\ now[r] <= clock + Skew
      <4>1. PICK n \in Nat, c \in Nat, z \in Int : n = touched[v] /\ c = clock /\ z = zset[v][q]
        BY <1>0, <2>1, <3>3
      <4>2. n <= c /\ z <= n + Skew
        BY <2>1, <4>1
      <4>3. z <= c + Skew
        BY <4>2
      <4> QED BY <1>0, <4>1, <4>3
    <3>5. Absent <= clock + Skew
      BY <1>0 DEF Absent
    <3>6. zset'[v][q] <= clock + Skew
      BY <3>2, <3>4, <3>5
    <3>7. QED
      BY <1>0, <3>1, <3>6
  <2>3. CASE v # w
    BY <1>0, <1>2, <1>3, <2>1, <2>3
  <2>4. QED
    BY <2>2, <2>3
<1>6. SetsRemember'
  <2> SUFFICES ASSUME NEW i \in TierIndex, NEW q \in Request, admitted'[i][q] # Absent
               PROVE  \/ /\ zset'[Tiers[i].window][id[q]] # Absent
                         /\ zset'[Tiers[i].window][id[q]] >= admitted'[i][q] - Back(q)
                      \/ admitted'[i][q] - Back(q) <= clock + Skew - Tiers[i].window
    BY BackFacts DEF SetsRemember
  <2> DEFINE v == Tiers[i].window
             b == Back(q)
  <2>1. v \in Window /\ v \in Nat /\ id[q] \in Id /\ b \in Nat
    BY <1>d, TierFacts, BackFacts
  <2>2. \/ admitted[i][q] = Absent
        \/ zset[v][id[q]] # Absent /\ zset[v][id[q]] >= admitted[i][q] - b
        \/ admitted[i][q] - b <= clock + Skew - v
    BY DEF IInv, SetsRemember
  <2>3. admitted[i][r] <= now[r] /\ admitted[i][q] <= clock + Skew
    BY DEF IInv, ReadingsAreRecent, AddedBefore
  <2>a. admitted[i][q] \in Int /\ zset[v][id[q]] \in Int /\ now[r] # Absent
    <3>1. admitted[i][q] \in Int
      BY <1>b
    <3>2. zset[v][id[q]] \in Int
      BY <1>a, <2>1
    <3>3. now[r] # Absent
      BY <1>0 DEF Absent
    <3>4. QED
      BY <3>1, <3>2, <3>3
  <2>4. CASE id[q] = id[r] /\ v = w /\ zset'[w][id[q]] = now[r]
    <3>1. admitted'[i][q] - b <= now[r]
      <4>1. CASE admitted'[i][q] = now[r]
        BY <1>c, <2>1, <4>1
      <4>2. CASE q = r /\ admitted'[i][q] = admitted[i][q]
        <5>1. admitted[i][q] <= now[r]
          BY <2>3, <4>2
        <5>2. admitted[i][q] \in Int /\ now[r] \in Int /\ b \in Nat
          BY <1>c, <2>1, <2>a
        <5> HIDE DEF b, v
        <5>3. admitted[i][q] - b <= now[r]
          BY <5>1, <5>2, Less
        <5> QED
          BY <4>2, <5>3
      <4>3. CASE q # r /\ admitted'[i][q] = admitted[i][q]
        <5>1. b = MaxLag + Skew
          BY <2>4, <4>3, BackFacts DEF Disorder
        <5> HIDE DEF b, v
        <5>2. admitted[i][q] <= now[r] + MaxLag + Skew
          BY <1>c, <2>3, <2>a
        <5>3. QED
          BY <1>c, <2>a, <4>3, <5>1, <5>2
      <4>4. QED
        BY <1>1, <4>1, <4>2, <4>3
    <3>2. QED
      <4>1. admitted'[i][q] \in Int
        BY <1>1, <1>c, <2>a
      <4>2. admitted'[i][q] - b \in Int
        BY <2>1, <4>1
      <4> HIDE DEF b, v, w
      <4>3. zset'[v][id[q]] = now[r]
        BY <2>4
      <4>4. zset'[v][id[q]] # Absent /\ zset'[v][id[q]] >= admitted'[i][q] - b
        BY <1>c, <2>a, <3>1, <4>2, <4>3
      <4> QED
        BY <4>4 DEF v, b
  <2>5. CASE q = r /\ admitted'[i][q] = now[r] /\ admitted'[i][q] # admitted[i][q]
    <3>1. ScriptAdds(r) /\ i = tier[r]
      BY <1>0, <2>5 DEF ScriptAdds, ScriptDenies
    <3>2. v = w /\ zset'[w][id[r]] = now[r]
      <4>1. v = w
        BY <3>1 DEF WindowOf
      <4>2. zset'[w] = [Evicted(r) EXCEPT ![id[r]] = now[r]]
        BY <1>0, <3>1 DEF ScriptAdds, Write
      <4>3. Evicted(r) \in [Id -> Score \cup {Absent}]
        BY ScriptFacts DEF IInv
      <4>4. QED
        BY <1>d, <4>1, <4>2, <4>3
    <3>3. QED
      BY <2>4, <2>5, <3>2
  <2>6. CASE admitted'[i][q] = admitted[i][q] /\ ~ (id[q] = id[r] /\ v = w /\ zset'[w][id[q]] = now[r])
    <3>1. CASE v # w
      BY <1>3, <2>1, <2>2, <2>6, <3>1
    <3>2. CASE v = w
      <4>1. \/ zset'[v][id[q]] = zset[v][id[q]]
            \/ zset'[v][id[q]] = Absent /\ zset[v][id[q]] <= now[r] - v
        BY <1>4, <2>1, <2>6, <3>2
      <4>2. zset[v][id[q]] <= now[r] - v /\ zset[v][id[q]] >= admitted[i][q] - b
              => admitted[i][q] - b <= clock + Skew - v
        <5>1. /\ admitted[i][q] \in Int /\ b \in Int /\ zset[v][id[q]] \in Int /\ now[r] \in Int
              /\ v \in Int /\ clock \in Int /\ Skew \in Int /\ now[r] <= clock + Skew
          BY <1>c, <2>1, <2>a, RateLimitAssumption
        <5> HIDE DEF b, v, w
        <5>2. QED
          BY <5>1, PassedBy
      <4>3. QED
        BY <2>2, <2>6, <4>1, <4>2
    <3>3. QED
      BY <3>1, <3>2
  <2>7. QED
    BY <1>1, <2>4, <2>5, <2>6
<1>8. AddedBefore'
  BY <1>1, <1>c DEF IInv, AddedBefore
<1>7. QED
  BY <1>1, <1>5, <1>6, <1>8

\* Nothing but the clock's tick and a script's reading bears on how recent a reading is.
LEMMA ReadingsKept ==
  ASSUME IInv, NEW r \in Request, pc[r] = "script", clock' = clock,
         \A i \in TierIndex : \A q \in Request :
            admitted'[i][q] = admitted[i][q] \/ (q = r /\ admitted'[i][q] = now[r]),
         \A q \in Request : pc'[q] = "script" => pc[q] = "script" /\ now'[q] = now[q]
  PROVE  ReadingsAreRecent'
<1> SUFFICES ASSUME NEW q \in Request, pc'[q] = "script"
             PROVE  /\ now'[q] <= clock + Skew /\ clock <= now'[q] + MaxLag
                    /\ \A i \in TierIndex : admitted'[i][q] <= now'[q]
  BY DEF ReadingsAreRecent
<1>1. /\ now'[q] = now[q] /\ now[q] <= clock + Skew /\ clock <= now[q] + MaxLag
      /\ \A i \in TierIndex : admitted[i][q] <= now[q]
  BY DEF IInv, ReadingsAreRecent
<1>2. now[q] <= now[q]
  BY ScriptFacts DEF IInv
<1>3. QED
  BY <1>1, <1>2

\* Every step keeps the invariant.
LEMMA IInvStep == IInv /\ [Next]_vars => IInv'
<1> SUFFICES ASSUME IInv, [Next]_vars PROVE IInv'
  OBVIOUS
<1>0. TypeOK /\ TypeOK'
  BY TypeStep DEF IInv
<1>1. ASSUME NEW r \in Request, ReadClock(r) PROVE IInv'
  <2>1. SetsAreTouched' /\ AddedBefore' /\ SetsRemember'
    BY <1>1, BackFacts DEF ReadClock, IInv, SetsAreTouched, AddedBefore, SetsRemember
  <2>2. ReadingsAreRecent'
    <3>1. PICK n \in 0 .. MaxClock + Skew :
            /\ n <= clock + Skew /\ clock <= n + MaxLag
            /\ \A i \in TierIndex : admitted[i][r] <= n
            /\ now' = [now EXCEPT ![r] = n]
      BY <1>1 DEF ReadClock
    <3>2. /\ clock' = clock /\ admitted' = admitted
          /\ \A q \in Request : pc'[q] = "script" => q = r \/ pc[q] = "script"
          /\ \A q \in Request : now'[q] = IF q = r THEN n ELSE now[q]
      BY <1>0, <1>1, <3>1 DEF ReadClock, TypeOK
    <3>3. QED
      BY <3>1, <3>2 DEF IInv, ReadingsAreRecent
  <2>3. QED
    BY <1>0, <2>1, <2>2 DEF IInv
<1>2. ASSUME NEW r \in Request, Pass(r) PROVE IInv'
  <2>1. \A q \in Request : pc'[q] = "script" => pc[q] = "script" /\ now'[q] = now[q]
    <3>1. pc' = [pc EXCEPT ![r] = "read"] \/ pc' = [pc EXCEPT ![r] = "served"]
      BY <1>2 DEF Pass, Answer
    <3>2. now' = [now EXCEPT ![r] = 0]
      BY <1>2 DEF Pass
    <3>3. QED
      BY <1>0, <3>1, <3>2 DEF TypeOK
  <2>2. QED
    BY <1>0, <1>2, <2>1, ScriptKeeps, ReadingsKept DEF Pass, IInv
<1>3. ASSUME NEW r \in Request, Deny(r) PROVE IInv'
  <2>1. \A q \in Request : pc'[q] = "script" => pc[q] = "script" /\ now'[q] = now[q]
    BY <1>0, <1>3 DEF Deny, Answer, TypeOK
  <2>2. QED
    BY <1>0, <1>3, <2>1, ScriptKeeps, ReadingsKept DEF Deny, IInv
<1>4. ASSUME NEW r \in Request, Lost(r) PROVE IInv'
  <2>1. \A q \in Request : pc'[q] = "script" => pc[q] = "script" /\ now'[q] = now[q]
    <3>1. CASE Answer(r, "unlimited") /\ now' = [now EXCEPT ![r] = 0]
      BY <1>0, <3>1 DEF Answer, TypeOK
    <3>2. CASE Answer(r, "script") /\ UNCHANGED now
      BY <1>0, <1>4, <3>2 DEF Answer, TypeOK, Lost
    <3>3. QED
      BY <1>4, <3>1, <3>2 DEF Lost
  <2>2. CASE UNCHANGED <<zset, touched, admitted, retryAt>>
    <3>1. clock' = clock /\ SetsAreTouched' /\ AddedBefore' /\ SetsRemember'
      BY <1>4, <2>2, BackFacts DEF Lost, IInv, SetsAreTouched, AddedBefore, SetsRemember
    <3>2. ReadingsAreRecent'
      BY <1>4, <2>1, <2>2, <3>1, ReadingsKept DEF Lost
    <3>3. QED
      BY <1>0, <3>1, <3>2 DEF IInv
  <2>3. CASE ScriptAdds(r) \/ ScriptDenies(r)
    BY <1>0, <1>4, <2>1, <2>3, ScriptKeeps, ReadingsKept DEF Lost, IInv
  <2>4. QED
    BY <1>4, <2>2, <2>3 DEF Lost
<1>5. ASSUME NEW w \in Window, Expire(w) PROVE IInv'
  <2>1. ReadingsAreRecent'
    BY <1>5 DEF Expire, IInv, ReadingsAreRecent
  <2>2. /\ clock' = clock /\ touched' = touched /\ admitted' = admitted /\ id' = id
        /\ clock \in Nat /\ w \in Nat
        /\ touched[w] \in Nat /\ clock >= touched[w] + w + Second
        /\ \A v \in Window : v # w => zset'[v] = zset[v]
        /\ \A d \in Id : zset'[w][d] = Absent
    BY <1>0, <1>5, WindowFacts DEF Expire, TypeOK
  <2>3. \A v \in Window, d \in Id : zset[v][d] \in Int
    BY <1>0, ScoreFacts
  <2>4. \A i \in TierIndex, q \in Request : admitted[i][q] \in Int
    BY <1>0, ScoreFacts
  <2>5. SetsAreTouched'
    <3>a. \A v \in Window : touched'[v] <= clock'
      BY <2>2 DEF IInv, SetsAreTouched
    <3> SUFFICES ASSUME NEW v \in Window, NEW q \in Id
                 PROVE  zset'[v][q] <= touched'[v] + Skew
      BY <3>a DEF SetsAreTouched
    <3>1. touched[v] <= clock /\ zset[v][q] <= touched[v] + Skew
      BY DEF IInv, SetsAreTouched
    <3>2. zset'[v][q] = zset[v][q] \/ (v = w /\ zset'[v][q] = Absent)
      BY <2>2
    <3>3. Absent <= touched[w] + Skew
      BY <2>2 DEF Absent
    <3>4. touched' = touched /\ clock' = clock
      BY <2>2
    <3>5. QED
      BY <3>1, <3>2, <3>3, <3>4
  <2>6. SetsRemember'
    <3> SUFFICES ASSUME NEW i \in TierIndex, NEW q \in Request, admitted[i][q] # Absent,
                        Tiers[i].window = w
                 PROVE  admitted[i][q] - Back(q) <= clock + Skew - w
      <4>1. id' = id /\ admitted' = admitted /\ clock' = clock
        BY <2>2
      <4>2. \A i \in TierIndex : Tiers[i].window \in Window
        BY TierFacts
      <4>3. \A v \in Window : v # w => zset'[v] = zset[v]
        BY <2>2
      <4>4. \A q \in Request : Back(q)' = Back(q)
        BY <4>1, BackFacts
      <4>5. SetsRemember
        BY DEF IInv
      <4> QED
        BY <4>1, <4>2, <4>3, <4>4, <4>5 DEF SetsRemember
    <3>0. id[q] \in Id
      BY <1>0, ScriptFacts
    <3>1. \/ admitted[i][q] - Back(q) <= zset[w][id[q]]
          \/ admitted[i][q] - Back(q) <= clock + Skew - w
      BY <2>3, <2>4, <3>0, BackFacts DEF IInv, SetsRemember
    <3>2. zset[w][id[q]] <= touched[w] + Skew
      BY <3>0 DEF IInv, SetsAreTouched
    <3>3. touched[w] + Skew <= clock + Skew - w
      <4>1. touched[w] \in Int /\ w \in Int /\ clock \in Int /\ Skew \in Int /\ Second \in Nat
        BY <2>2, RateLimitAssumption
      <4>2. QED
        BY <2>2, <4>1, Over
    <3>4. /\ admitted[i][q] - Back(q) \in Int /\ zset[w][id[q]] \in Int
          /\ touched[w] + Skew \in Int /\ clock + Skew - w \in Int
      <4>1. admitted[i][q] - Back(q) \in Int
        BY <2>4, BackFacts
      <4>2. zset[w][id[q]] \in Int
        BY <2>3, <3>0
      <4>3. touched[w] + Skew \in Int /\ clock + Skew - w \in Int
        BY <2>2
      <4> QED BY <4>1, <4>2, <4>3
    <3>5. zset[w][id[q]] <= clock + Skew - w
      BY <3>2, <3>3, <3>4, Transitive
    <3>6. QED
      BY <3>1, <3>4, <3>5, Transitive
  <2>8. AddedBefore'
    BY <2>2 DEF IInv, AddedBefore
  <2>7. QED
    BY <1>0, <2>1, <2>5, <2>6, <2>8 DEF IInv
<1>6. CASE Tick
  <2>1. /\ clock' = clock + 1 /\ clock \in Nat /\ id' = id
        /\ zset' = zset /\ touched' = touched /\ admitted' = admitted /\ pc' = pc /\ now' = now
        /\ \A r \in Request : pc[r] = "script" => clock < now[r] + MaxLag
    BY <1>0, <1>6 DEF Tick, TypeOK
  <2>2. ReadingsAreRecent'
    BY <1>0, <2>1, ScriptFacts DEF IInv, ReadingsAreRecent
  <2>3. SetsAreTouched'
    <3>1. \A w \in Window : touched[w] \in Nat
      BY <1>0 DEF TypeOK
    <3>2. QED
      BY <2>1, <3>1 DEF IInv, SetsAreTouched
  <2>4. SetsRemember'
    <3> SUFFICES ASSUME NEW i \in TierIndex, NEW q \in Request, admitted[i][q] # Absent,
                        admitted[i][q] - Back(q) <= clock + Skew - Tiers[i].window
                 PROVE  admitted[i][q] - Back(q) <= clock + 1 + Skew - Tiers[i].window
      BY <2>1, BackFacts DEF IInv, SetsRemember
    <3>1. Tiers[i].window \in Nat /\ admitted[i][q] - Back(q) \in Int
      <4>1. admitted[i][q] \in Int
        BY <1>0, ScoreFacts
      <4>2. QED
        BY <4>1, TierFacts, BackFacts
    <3>2. clock + Skew - Tiers[i].window \in Int
          /\ clock + Skew - Tiers[i].window <= clock + 1 + Skew - Tiers[i].window
      <4>1. clock \in Int /\ Skew \in Int /\ Tiers[i].window \in Int
        BY <2>1, <3>1, RateLimitAssumption
      <4>2. QED
        BY <4>1, Later
    <3>3. clock + 1 + Skew - Tiers[i].window \in Int
      BY <2>1, <3>1
    <3>4. QED
      BY <3>1, <3>2, <3>3, Transitive
  <2>6. AddedBefore'
    <3>1. \A i \in TierIndex, q \in Request : admitted[i][q] \in Int
      BY <1>0, ScoreFacts
    <3>2. QED
      BY <2>1, <3>1 DEF IInv, AddedBefore
  <2>5. QED
    BY <1>0, <2>2, <2>3, <2>4, <2>6 DEF IInv
<1>7. CASE UNCHANGED vars
  BY <1>0, <1>7, BackFacts
  DEF vars, IInv, ReadingsAreRecent, SetsAreTouched, AddedBefore, SetsRemember
<1>8. QED
  BY <1>1, <1>2, <1>3, <1>4, <1>5, <1>6, <1>7 DEF Next, RequestNext, Quiet

\* RateLimit.tla: a sorted set remembers the id of each request it counted until the window is over on
\* every clock, less what another request with the id may have put it back by.
THEOREM Remembers == Spec => []IInv
<1>1. QED
  BY IInvInit, IInvStep, PTL DEF Spec

-----------------------------------------------------------------------------
(* The limit.                                                              *)

\* The ids are finitely many, and a part of a finite set is no larger than the whole.
LEMMA Sizes ==
  ASSUME NEW A \in SUBSET Id, NEW B \in SUBSET A
  PROVE  /\ IsFiniteSet(A) /\ IsFiniteSet(B)
         /\ Cardinality(A) \in Nat /\ Cardinality(B) \in Nat
         /\ Cardinality(B) <= Cardinality(A)
<1>1. IsFiniteSet(A)
  BY FS_Subset
<1>2. IsFiniteSet(B) /\ Cardinality(B) <= Cardinality(A)
  BY <1>1, FS_Subset
<1>3. QED
  BY <1>1, <1>2, FS_CardinalityType

\* One id more makes a set larger by one at most.
LEMMA OneMore ==
  ASSUME NEW A \in SUBSET Id, NEW r \in Id, NEW B \in SUBSET (A \cup {r})
  PROVE  Cardinality(B) <= Cardinality(A) + 1 /\ Cardinality(A) \in Nat /\ Cardinality(B) \in Nat
<1>1. IsFiniteSet(A) /\ Cardinality(A) \in Nat
  BY Sizes
<1>2. Cardinality(A \cup {r}) = Cardinality(A) \/ Cardinality(A \cup {r}) = Cardinality(A) + 1
  BY <1>1, FS_AddElement
<1>3. A \cup {r} \in SUBSET Id
  OBVIOUS
<1>4. /\ Cardinality(B) <= Cardinality(A \cup {r}) /\ Cardinality(B) \in Nat
      /\ Cardinality(A \cup {r}) \in Nat
  BY <1>3, Sizes
<1>5. QED
  BY <1>1, <1>2, <1>4

\* A score inside the shortened window of a reading is inside the window of any reading its script
\* may run beside.
LEMMA StillCounted ==
  ASSUME NEW a \in Nat, NEW z \in Int, NEW n \in Int, NEW c \in Int, NEW v \in Int, NEW t \in Int,
         NEW b \in Nat,
         n <= t, a > t - (v - Disorder - b), n <= c + Skew, c <= n + MaxLag,
         (z # Absent /\ z >= a - b) \/ a - b <= c + Skew - v
  PROVE  ~ z <= n - v /\ z # Absent
<1>1. ~ a - b <= c + Skew - v
  BY DEF Disorder
<1>2. z # Absent /\ z >= a - b
  BY <1>1
<1>3. QED
  BY <1>2 DEF Disorder

\* A script that adds leaves its tier within the limit: the ids the tier admitted in the shortened
\* window before the reading are still counted.
LEMMA AddKeepsLimit ==
  ASSUME IInv, LimitHolds, NEW r \in Request, pc[r] = "script", ScriptAdds(r), id' = id
  PROVE  LimitHolds'
<1> DEFINE w == WindowOf(r)
           j == tier[r]
<1>0. /\ j \in TierIndex /\ w = Tiers[j].window /\ w \in Nat /\ now[r] \in Nat
      /\ admitted \in [TierIndex -> [Request -> Score \cup {Absent}]]
      /\ admitted' = [admitted EXCEPT ![j][r] = now[r]]
      /\ id \in [Request -> Id]
  BY ScriptFacts DEF IInv, TypeOK, WindowOf, ScriptAdds
<1>1. /\ \A i \in TierIndex : i # j => admitted'[i] = admitted[i]
      /\ \A q \in Request : q # r => admitted'[j][q] = admitted[j][q]
      /\ admitted'[j][r] = now[r]
  BY <1>0
<1>b. \A q \in Request : Back(q)' = Back(q) /\ Back(q) \in Nat
  BY BackFacts
<1> SUFFICES ASSUME NEW i \in TierIndex, NEW t \in Score
             PROVE  Cardinality(IdsIn(i, t)') <= Tiers[i].limit
  BY DEF LimitHolds
<1>2. Cardinality(IdsIn(i, t)) <= Tiers[i].limit /\ Tiers[i].limit \in Nat
  BY TierFacts DEF LimitHolds
<1>3. CASE i # j \/ r \notin AdmittedIn(i, t)'
  <2>1. AdmittedIn(i, t)' \subseteq AdmittedIn(i, t)
    BY <1>1, <1>b, <1>3 DEF AdmittedIn
  <2>2. IdsIn(i, t)' \subseteq IdsIn(i, t) /\ IdsIn(i, t) \in SUBSET Id
    BY <1>0, <2>1 DEF IdsIn, AdmittedIn
  <2>3. Cardinality(IdsIn(i, t)') <= Cardinality(IdsIn(i, t))
        /\ Cardinality(IdsIn(i, t)') \in Nat /\ Cardinality(IdsIn(i, t)) \in Nat
    BY <2>2, Sizes
  <2>4. QED
    BY <1>2, <2>3
<1>4. CASE i = j /\ r \in AdmittedIn(i, t)'
  <2>1. now[r] <= t
    BY <1>1, <1>4 DEF AdmittedIn
  <2>2. IdsIn(i, t)' \subseteq Members(Evicted(r)) \cup {id[r]}
    <3> SUFFICES ASSUME NEW q \in AdmittedIn(i, t)', q # r
                 PROVE  id[q] \in Members(Evicted(r))
      BY DEF IdsIn
    <3>1. /\ q \in Request /\ admitted[j][q] # Absent
          /\ admitted[j][q] > t - (w - Disorder - Back(q))
      BY <1>0, <1>1, <1>b, <1>4 DEF AdmittedIn
    <3>2. admitted[j][q] \in Nat /\ zset[w][id[q]] \in Int /\ clock \in Int /\ id[q] \in Id
      <4>1. TypeOK /\ j \in TierIndex /\ w \in Window /\ id[q] \in Id
        BY <1>0, <3>1, TierFacts DEF IInv
      <4>2. clock \in Nat /\ zset[w][id[q]] \in Int
        BY <4>1, ScoreFacts
      <4>3. admitted[j][q] \in Nat
        BY <3>1, <4>1, ScoreFacts
      <4> QED BY <4>1, <4>2, <4>3
    <3>3. t \in Int /\ now[r] \in Int /\ w \in Int /\ Back(q) \in Nat
      BY <1>0, <1>b, <3>1 DEF Score
    <3>4. now[r] <= clock + Skew /\ clock <= now[r] + MaxLag
      BY DEF IInv, ReadingsAreRecent
    <3>a. \/ zset[w][id[q]] # Absent /\ zset[w][id[q]] >= admitted[j][q] - Back(q)
          \/ admitted[j][q] - Back(q) <= clock + Skew - w
      <4>1. \/ admitted[j][q] = Absent
            \/ /\ zset[Tiers[j].window][id[q]] # Absent
               /\ zset[Tiers[j].window][id[q]] >= admitted[j][q] - Back(q)
            \/ admitted[j][q] - Back(q) <= clock + Skew - Tiers[j].window
        BY <1>0, <3>1 DEF IInv, SetsRemember
      <4>2. w = Tiers[j].window
        BY <1>0
      <4>3. QED
        BY <3>1, <4>1, <4>2
    <3>5. ~ zset[w][id[q]] <= now[r] - w /\ zset[w][id[q]] # Absent
      <4> HIDE DEF w, j
      <4> QED
        BY <2>1, <3>1, <3>2, <3>3, <3>4, <3>a, StillCounted
    <3>6. QED
      BY <3>2, <3>5 DEF Members, Evicted
  <2>3. Members(Evicted(r)) \in SUBSET Id /\ id[r] \in Id
    BY <1>0 DEF Members
  <2>4. /\ Cardinality(IdsIn(i, t)') <= Count(r) + 1
        /\ Cardinality(IdsIn(i, t)') \in Nat /\ Count(r) \in Nat
    BY <2>2, <2>3, OneMore DEF Count
  <2>5. Count(r) < Tiers[i].limit
    BY <1>4 DEF ScriptAdds, Limit
  <2>6. QED
    BY <1>2, <2>4, <2>5
<1>5. QED
  BY <1>3, <1>4

\* Every step keeps the limit.
LEMMA LimitStep == IInv /\ LimitHolds /\ [Next]_vars => LimitHolds'
<1> SUFFICES ASSUME IInv, LimitHolds, [Next]_vars PROVE LimitHolds'
  OBVIOUS
<1>1. ASSUME admitted' = admitted, id' = id PROVE LimitHolds'
  BY <1>1, BackFacts DEF LimitHolds, IdsIn, AdmittedIn
<1>2. ASSUME NEW r \in Request, Pass(r) PROVE LimitHolds'
  BY <1>2, AddKeepsLimit DEF Pass
<1>3. ASSUME NEW r \in Request, Lost(r) PROVE LimitHolds'
  BY <1>1, <1>3, AddKeepsLimit DEF Lost, ScriptDenies
<1>4. CASE UNCHANGED vars
  BY <1>1, <1>4 DEF vars
<1>5. CASE Next /\ ~ \E r \in Request : Pass(r) \/ Lost(r)
  BY <1>1, <1>4, <1>5 DEF Next, RequestNext, ReadClock, Deny, ScriptDenies, Expire, Tick, Quiet
<1>6. QED
  BY <1>2, <1>3, <1>4, <1>5

\* rate_limit_cache.go, Allow: a tier admits requests of at most its limit of ids in its window less the
\* clocks' disorder (twice that for an id that is repeated), for any requests, ids, tiers and clocks.
THEOREM LimitAlwaysHolds == Spec => []LimitHolds
<1>1. Init => LimitHolds
  <2> SUFFICES ASSUME Init, NEW i \in TierIndex, NEW t \in Score
               PROVE  Cardinality(IdsIn(i, t)) <= Tiers[i].limit
    BY DEF LimitHolds
  <2>1. IdsIn(i, t) = {}
    BY DEF Init, IdsIn, AdmittedIn
  <2>2. QED
    BY <2>1, TierFacts, FS_EmptySet
<1>2. QED
  BY <1>1, Remembers, LimitStep, PTL DEF Spec

-----------------------------------------------------------------------------
(* Retry-After.                                                            *)

\* What handlers get from a package whose tiers do not share a sorted set.
WindowsDiffer ==
    \A i \in TierIndex : \A k \in TierIndex : Tiers[i].window = Tiers[k].window => i = k

SetOf(i) == zset[Tiers[i].window]

\* The members of a tier's sorted set that the time its last denial gave does not pass by.
Staying(i) == {q \in Members(SetOf(i)) : SetOf(i)[q] > retryAt[i] - Tiers[i].window}

\* A sorted set is never larger than its tier's limit, and by the time the last denial gave there
\* is room in it.
RoomComes ==
    \A i \in TierIndex :
        /\ Cardinality(Members(SetOf(i))) <= Tiers[i].limit
        /\ retryAt[i] # Never => Cardinality(Staying(i)) < Tiers[i].limit

\* A denial's time is when the oldest member leaves, or later.
LEMMA DenyLeavesRoom ==
  ASSUME TypeOK, NEW r \in Request, ScriptDenies(r), NEW j \in TierIndex, tier[r] = j,
         Cardinality(Members(SetOf(j))) <= Tiers[j].limit
  PROVE  /\ Cardinality(Members(SetOf(j))') <= Tiers[j].limit
         /\ Cardinality(Staying(j)') < Tiers[j].limit
<1> DEFINE E == Members(Evicted(r))
<1>0. /\ WindowOf(r) = Tiers[j].window /\ WindowOf(r) \in Window
      /\ WindowOf(r) \in Nat /\ now[r] \in Nat /\ Tiers[j].limit \in Nat
      /\ zset \in [Window -> [Id -> Score \cup {Absent}]]
      /\ retryAt \in [TierIndex -> Int]
  BY ScriptFacts, TierFacts DEF WindowOf, TypeOK
<1>1. E \subseteq Members(SetOf(j)) /\ Members(SetOf(j)) \in SUBSET Id
  BY <1>0 DEF Members, Evicted, SetOf
<1>2. SetOf(j)' = Evicted(r)
  BY <1>0 DEF ScriptDenies, Write, SetOf
<1>3. PICK q \in Oldest(r) :
         retryAt' = [retryAt EXCEPT ![j] = now[r] + RetryAfter(r, q) * Second]
  BY DEF ScriptDenies
<1>4. retryAt'[j] = now[r] + RetryAfter(r, q) * Second
  BY <1>0, <1>3
<1>5. /\ Evicted(r)[q] \in Nat /\ RetryAfter(r, q) * Second \in Int
      /\ RetryAfter(r, q) * Second >= Evicted(r)[q] + WindowOf(r) - now[r]
  BY OldestFacts
<1>6. ~ Evicted(r)[q] > retryAt'[j] - Tiers[j].window
  <2>1. \A s, n, d, w, t \in Int : d >= s + w - n /\ t = n + d => ~ s > t - w
    OBVIOUS
  <2>2. /\ Evicted(r)[q] \in Int /\ now[r] \in Int /\ RetryAfter(r, q) * Second \in Int
        /\ WindowOf(r) \in Int /\ retryAt'[j] \in Int
    <3> HIDE DEF E
    <3>1. now[r] + RetryAfter(r, q) * Second \in Int
      BY <1>0, <1>5
    <3>2. QED
      BY <1>0, <1>4, <1>5, <3>1
  <2>3. ~ Evicted(r)[q] > retryAt'[j] - WindowOf(r)
    BY <1>4, <1>5, <2>1, <2>2
  <2>4. QED
    BY <1>0, <2>3
<1>7. q \in E /\ Staying(j)' \subseteq E \ {q}
  <2>1. q \in E
    BY DEF Oldest
  <2>2. Staying(j)' = {p \in E : Evicted(r)[p] > retryAt'[j] - Tiers[j].window}
    BY <1>2 DEF Staying, Members
  <2>3. QED
    BY <1>6, <2>1, <2>2
<1>8. /\ IsFiniteSet(E) /\ Cardinality(E) \in Nat
      /\ Cardinality(E) <= Cardinality(Members(SetOf(j)))
      /\ Cardinality(Members(SetOf(j))) \in Nat
  BY <1>1, Sizes
<1>9. Cardinality(E \ {q}) = Cardinality(E) - 1
  BY <1>7, <1>8, FS_RemoveElement
<1>10. /\ Cardinality(Staying(j)') <= Cardinality(E \ {q})
       /\ Cardinality(Staying(j)') \in Nat
  BY <1>1, <1>7, Sizes
<1>11. Members(SetOf(j))' = E
  BY <1>2 DEF Members
<1>12. QED
  BY <1>0, <1>8, <1>9, <1>10, <1>11

\* A tier that adds a request forgets the time it gave, and has no more members than its limit.
LEMMA AddKeepsRoom ==
  ASSUME TypeOK, NEW r \in Request, ScriptAdds(r), NEW j \in TierIndex, tier[r] = j
  PROVE  Cardinality(Members(SetOf(j))') <= Tiers[j].limit /\ retryAt'[j] = Never
<1>1. /\ WindowOf(r) = Tiers[j].window /\ WindowOf(r) \in Window
      /\ Tiers[j].limit \in Nat
      /\ zset \in [Window -> [Id -> Score \cup {Absent}]]
      /\ Evicted(r) \in [Id -> Score \cup {Absent}]
  BY ScriptFacts, TierFacts DEF WindowOf, TypeOK
<1>2. zset'[WindowOf(r)] = [Evicted(r) EXCEPT ![id[r]] = now[r]]
  BY <1>1 DEF ScriptAdds, Write
<1>3. Members(SetOf(j))' \subseteq Members(Evicted(r)) \cup {id[r]} /\ id[r] \in Id
  BY <1>1, <1>2, ScriptFacts DEF Members, SetOf
<1>4. /\ Cardinality(Members(SetOf(j))') <= Count(r) + 1 /\ Count(r) \in Nat
      /\ Cardinality(Members(SetOf(j))') \in Nat
  <2>1. Members(Evicted(r)) \in SUBSET Id
    BY DEF Members
  <2>2. QED
    BY <1>3, <2>1, OneMore DEF Count
<1>5. Count(r) < Tiers[j].limit
  BY DEF ScriptAdds, Limit
<1>6. retryAt'[j] = Never
  BY <1>1 DEF ScriptAdds
<1>7. QED
  BY <1>1, <1>4, <1>5, <1>6

\* A script changes the sorted set and the time of its own tier only.
LEMMA OtherTiersKept ==
  ASSUME TypeOK, WindowsDiffer, NEW r \in Request, ScriptAdds(r) \/ ScriptDenies(r),
         NEW i \in TierIndex, i # tier[r]
  PROVE  SetOf(i)' = SetOf(i) /\ retryAt'[i] = retryAt[i]
<1>1. /\ tier[r] \in TierIndex /\ WindowOf(r) = Tiers[tier[r]].window
      /\ Tiers[i].window # WindowOf(r) /\ Tiers[i].window \in Window
      /\ zset \in [Window -> [Id -> Score \cup {Absent}]]
      /\ retryAt \in [TierIndex -> Int]
  BY ScriptFacts, TierFacts DEF WindowOf, TypeOK, WindowsDiffer
<1>2. SetOf(i)' = SetOf(i)
  BY <1>1 DEF ScriptAdds, ScriptDenies, Write, SetOf
<1>3. retryAt'[i] = retryAt[i]
  BY <1>1 DEF ScriptAdds, ScriptDenies
<1>4. QED
  BY <1>2, <1>3

\* A script keeps the room that is to come.
LEMMA ScriptKeepsRoom ==
  ASSUME TypeOK, WindowsDiffer, RoomComes, NEW r \in Request, ScriptAdds(r) \/ ScriptDenies(r)
  PROVE  RoomComes'
<1> SUFFICES ASSUME NEW i \in TierIndex
             PROVE  /\ Cardinality(Members(SetOf(i))') <= Tiers[i].limit
                    /\ retryAt'[i] # Never => Cardinality(Staying(i)') < Tiers[i].limit
  BY DEF RoomComes
<1>1. /\ Cardinality(Members(SetOf(i))) <= Tiers[i].limit
      /\ retryAt[i] # Never => Cardinality(Staying(i)) < Tiers[i].limit
  BY DEF RoomComes
<1>2. CASE i # tier[r]
  <2>1. SetOf(i)' = SetOf(i) /\ retryAt'[i] = retryAt[i]
    BY <1>2, OtherTiersKept
  <2>2. Members(SetOf(i))' = Members(SetOf(i)) /\ Staying(i)' = Staying(i)
    BY <2>1 DEF Members, Staying
  <2>3. QED
    BY <1>1, <2>1, <2>2
<1>3. CASE i = tier[r] /\ ScriptAdds(r)
  BY <1>3, AddKeepsRoom
<1>4. CASE i = tier[r] /\ ScriptDenies(r)
  BY <1>1, <1>4, DenyLeavesRoom
<1>5. QED
  BY <1>2, <1>3, <1>4

\* Every step keeps the room that is to come.
LEMMA RoomStep == WindowsDiffer /\ TypeOK /\ RoomComes /\ [Next]_vars => RoomComes'
<1> SUFFICES ASSUME WindowsDiffer, TypeOK, RoomComes, [Next]_vars PROVE RoomComes'
  OBVIOUS
<1>1. ASSUME zset' = zset, retryAt' = retryAt PROVE RoomComes'
  BY <1>1 DEF RoomComes, SetOf, Staying, Members
<1>2. ASSUME NEW r \in Request, Pass(r) \/ Deny(r) PROVE RoomComes'
  BY <1>2, ScriptKeepsRoom DEF Pass, Deny
<1>3. ASSUME NEW r \in Request, Lost(r) PROVE RoomComes'
  BY <1>1, <1>3, ScriptKeepsRoom DEF Lost
<1>4. ASSUME NEW w \in Window, Expire(w) PROVE RoomComes'
  <2> SUFFICES ASSUME NEW i \in TierIndex
               PROVE  /\ Cardinality(Members(SetOf(i))') <= Tiers[i].limit
                      /\ retryAt'[i] # Never => Cardinality(Staying(i)') < Tiers[i].limit
    BY DEF RoomComes
  <2>1. /\ Tiers[i].limit \in Nat \ {0} /\ Tiers[i].window \in Window
        /\ zset \in [Window -> [Id -> Score \cup {Absent}]]
    BY TierFacts DEF TypeOK
  <2>2. retryAt' = retryAt /\ zset' = [zset EXCEPT ![w] = [d \in Id |-> Absent]]
    BY <1>4 DEF Expire
  <2>3. CASE Tiers[i].window = w
    <3>1. Members(SetOf(i))' = {}
      BY <2>1, <2>2, <2>3 DEF Members, SetOf
    <3>2. Staying(i)' = {}
      BY <3>1 DEF Staying
    <3>3. QED
      BY <2>1, <3>1, <3>2, FS_EmptySet
  <2>4. CASE Tiers[i].window # w
    <3>1. SetOf(i)' = SetOf(i)
      BY <2>1, <2>2, <2>4 DEF SetOf
    <3>2. Members(SetOf(i))' = Members(SetOf(i)) /\ Staying(i)' = Staying(i)
      BY <2>2, <3>1 DEF Members, Staying
    <3>3. QED
      BY <2>2, <3>2 DEF RoomComes
  <2>5. QED
    BY <2>3, <2>4
<1>5. CASE UNCHANGED vars
  BY <1>1, <1>5 DEF vars
<1>6. ASSUME NEW r \in Request, ReadClock(r) PROVE RoomComes'
  BY <1>1, <1>6 DEF ReadClock
<1>7. CASE Tick
  BY <1>1, <1>7 DEF Tick
<1>8. QED
  BY <1>2, <1>3, <1>4, <1>5, <1>6, <1>7 DEF Next, RequestNext, Quiet

\* A request that carries a time at or after the one given finds room.
LEMMA RoomIsFound ==
  ASSUME TypeOK, RoomComes, NEW r \in Request, Deny(r), retryAt[tier[r]] # Never
  PROVE  now[r] < retryAt[tier[r]]
<1> DEFINE j == tier[r]
<1>1. /\ j \in TierIndex /\ WindowOf(r) = Tiers[j].window /\ WindowOf(r) \in Nat
      /\ Limit(r) = Tiers[j].limit /\ Limit(r) \in Nat
      /\ now[r] \in Nat /\ retryAt[j] \in Int
      /\ \A q \in Id : SetOf(j)[q] \in Int
  BY ScriptFacts, TierFacts, ScoreFacts DEF WindowOf, Limit, TypeOK, SetOf
<1>2. SUFFICES ASSUME retryAt[j] <= now[r] PROVE FALSE
  BY <1>1
<1>3. Members(Evicted(r)) \subseteq Staying(j)
  <2> SUFFICES ASSUME NEW q \in Members(Evicted(r)) PROVE q \in Staying(j)
    OBVIOUS
  <2>1. q \in Id /\ SetOf(j)[q] # Absent /\ ~ SetOf(j)[q] <= now[r] - WindowOf(r)
    BY <1>1 DEF Members, Evicted, SetOf
  <2>2. SetOf(j)[q] > retryAt[j] - WindowOf(r)
    <3> HIDE DEF j
    <3> QED
      BY <1>1, <1>2, <2>1
  <2>3. QED
    BY <1>1, <2>1, <2>2 DEF Staying, Members
<1>4. Staying(j) \in SUBSET Id
  BY DEF Staying, Members
<1>5. Count(r) <= Cardinality(Staying(j)) /\ Count(r) \in Nat /\ Cardinality(Staying(j)) \in Nat
  BY <1>3, <1>4, Sizes DEF Count
<1>6. Cardinality(Staying(j)) < Limit(r)
  BY <1>1 DEF RoomComes
<1>7. Count(r) >= Limit(r)
  BY DEF Deny, ScriptDenies
<1>8. QED
  BY <1>1, <1>5, <1>6, <1>7

\* rate_limit_cache.go, Retry-After: where no two tiers share a window, a request that waits as
\* long as a denial said finds room in that tier, unless another was added before it.
THEOREM RetryAfterAlwaysHonest == WindowsDiffer /\ Spec => RetryAfterIsHonest
<1> SUFFICES ASSUME WindowsDiffer PROVE Spec => RetryAfterIsHonest
  OBVIOUS
<1>1. Init => RoomComes
  <2> SUFFICES ASSUME Init, NEW i \in TierIndex
               PROVE  Cardinality(Members(SetOf(i))) <= Tiers[i].limit /\ retryAt[i] = Never
    BY DEF RoomComes
  <2>1. Members(SetOf(i)) = {}
    BY TierFacts DEF Init, Members, SetOf
  <2>2. QED
    BY <2>1, TierFacts, FS_EmptySet DEF Init
<1>2. TypeOK /\ RoomComes /\ [Next]_vars => RoomComes'
  BY RoomStep
<1>3. TypeOK /\ RoomComes =>
         [\A r \in Request : Deny(r) /\ retryAt[tier[r]] # Never => now[r] < retryAt[tier[r]]]_vars
  BY RoomIsFound
<1>4. QED
  BY <1>1, <1>2, <1>3, TypeCorrect, PTL DEF Spec, RetryAfterIsHonest
=============================================================================
