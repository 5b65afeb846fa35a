------------------------------ MODULE RateLimit ------------------------------
(***************************************************************************)
(* The sliding-window rate limit of one caller on one resource path.  A    *)
(* gateway goroutine walks the tiers of the caller's package: for each it  *)
(* reads its pod's clock and runs a script in Redis, which drops the old   *)
(* members of the tier's sorted set, counts the rest and adds the request. *)
(* The script is atomic; the clock reading before it and the walk over the *)
(* tiers are not, and the client library repeats a script whose reply was  *)
(* lost.  What is counted is a request's id, which the client may choose   *)
(* and repeat.                                                             *)
(***************************************************************************)
EXTENDS Integers, Sequences, FiniteSets

CONSTANTS
    Request,    \* the caller's requests
    Id,         \* values of X-Request-Id
    Tiers,      \* the tiers in order, [limit, window], the window in clock ticks
    Second,     \* clock ticks in a second
    Skew,       \* how far a pod's clock may be from Redis's
    MaxLag,     \* how old a clock reading may be when its script runs
    MaxClock,   \* bound of the model: the clock
    MaxFaults   \* bound of the model: lost calls and replies

ASSUME RateLimitAssumption ==
    /\ IsFiniteSet(Request) /\ IsFiniteSet(Id)
    /\ Tiers \in Seq([limit : Nat \ {0}, window : Nat \ {0}]) /\ Tiers # <<>>
    /\ Second \in Nat \ {0}
    /\ Skew \in Nat /\ MaxLag \in Nat /\ MaxClock \in Nat /\ MaxFaults \in Nat

TierIndex == 1 .. Len(Tiers)
\* RateLimitKey: one sorted set per window, so tiers with the same window share one.
Window == {Tiers[i].window : i \in TierIndex}
Absent == -1
Never == -1

VARIABLES
    id,        \* each request's X-Request-Id, the client's or a UUID, which another may have too
    clock,     \* Redis's clock
    zset,      \* the score of each member of each sorted set, or Absent
    touched,   \* when each sorted set last got its EXPIRE
    pc,        \* "read" the clock, run the "script", or the answer: "served", "denied", "unlimited"
    tier,      \* the tier each request is at
    now,       \* the clock reading its script carries, 0 when it runs none
    admitted,  \* for each tier and request, the score it was added with, or Absent
    retryAt,   \* for each tier, when its last denial said to retry; Never once a request is added
    faults

vars == <<id, clock, zset, touched, pc, tier, now, admitted, retryAt, faults>>

Init ==
    /\ id \in [Request -> Id]
    /\ clock = 0
    /\ zset = [w \in Window |-> [d \in Id |-> Absent]]
    /\ touched = [w \in Window |-> 0]
    /\ pc = [r \in Request |-> "read"]
    /\ tier = [r \in Request |-> 1]
    /\ now = [r \in Request |-> 0]
    /\ admitted = [i \in TierIndex |-> [r \in Request |-> Absent]]
    /\ retryAt = [i \in TierIndex |-> Never]
    /\ faults = 0

Fault == faults < MaxFaults /\ faults' = faults + 1

Larger(a, b) == IF a > b THEN a ELSE b
Limit(r) == Tiers[tier[r]].limit
WindowOf(r) == Tiers[tier[r]].window

\* nowUnixMs, before each tier's script; a pod's clock does not run backwards between two tiers.
ReadClock(r) ==
    /\ pc[r] = "read"
    /\ \E n \in 0 .. MaxClock + Skew :
          /\ n <= clock + Skew /\ clock <= n + Skew /\ clock <= n + MaxLag
          /\ \A i \in TierIndex : admitted[i][r] <= n
          /\ now' = [now EXCEPT ![r] = n]
    /\ pc' = [pc EXCEPT ![r] = "script"]
    /\ UNCHANGED <<id, clock, zset, touched, tier, admitted, retryAt, faults>>

-----------------------------------------------------------------------------
(* slidingWindowScript.                                                    *)

\* ZREMRANGEBYSCORE: the sorted set without what is older than the window.
Evicted(r) ==
    [d \in Id |-> IF zset[WindowOf(r)][d] <= now[r] - WindowOf(r)
                  THEN Absent ELSE zset[WindowOf(r)][d]]

Members(z) == {d \in Id : z[d] # Absent}
Count(r) == Cardinality(Members(Evicted(r)))

\* EXPIRE keeps the set a second longer than its window.
Write(r, z) ==
    /\ zset' = [zset EXCEPT ![WindowOf(r)] = z]
    /\ touched' = [touched EXCEPT ![WindowOf(r)] = clock]

\* ZADD: a member that is there already, from this request or another with its id, gets a new score.
ScriptAdds(r) ==
    /\ Count(r) < Limit(r)
    /\ Write(r, [Evicted(r) EXCEPT ![id[r]] = now[r]])
    /\ admitted' = [admitted EXCEPT ![tier[r]][r] = now[r]]
    /\ retryAt' = [i \in TierIndex |-> IF Tiers[i].window = WindowOf(r) THEN Never ELSE retryAt[i]]

Oldest(r) ==
    {d \in Members(Evicted(r)) : \A e \in Members(Evicted(r)) : Evicted(r)[d] <= Evicted(r)[e]}

\* Mutant of ResetMs: a second short.
ResetMsShort(r, d) == Evicted(r)[d] + WindowOf(r) - now[r] - Second

\* reset_ms_from_oldest: what is inside the window leaves it later than now, so its max(0) is idle.
ResetMs(r, d) == Evicted(r)[d] + WindowOf(r) - now[r]

\* Retry-After: whole seconds, rounded up, at least one.
RetryAfter(r, d) == Larger(1, (ResetMs(r, d) + Second - 1) \div Second)

ScriptDenies(r) ==
    /\ Count(r) >= Limit(r)
    /\ Write(r, Evicted(r))
    /\ \E d \in Oldest(r) :
          retryAt' = [retryAt EXCEPT ![tier[r]] = now[r] + RetryAfter(r, d) * Second]
    /\ UNCHANGED admitted

-----------------------------------------------------------------------------
(* Allow: the walk over the tiers.                                         *)

Answer(r, a) == pc' = [pc EXCEPT ![r] = a] /\ UNCHANGED tier

\* Mutant of Pass: the loop runs one tier too far.
PassOneTooFar(r) ==
    /\ pc[r] = "script"
    /\ ScriptAdds(r)
    /\ IF tier[r] <= Len(Tiers)
       THEN pc' = [pc EXCEPT ![r] = "read"] /\ tier' = [tier EXCEPT ![r] = @ + 1]
       ELSE Answer(r, "served")
    /\ now' = [now EXCEPT ![r] = 0]
    /\ UNCHANGED <<id, clock, faults>>

\* The tier has room: on to the next one, or served.
Pass(r) ==
    /\ pc[r] = "script"
    /\ ScriptAdds(r)
    /\ IF tier[r] < Len(Tiers)
       THEN pc' = [pc EXCEPT ![r] = "read"] /\ tier' = [tier EXCEPT ![r] = @ + 1]
       ELSE Answer(r, "served")
    /\ now' = [now EXCEPT ![r] = 0]
    /\ UNCHANGED <<id, clock, faults>>

\* 429; what the earlier tiers counted stays counted.
Deny(r) ==
    /\ pc[r] = "script"
    /\ ScriptDenies(r)
    /\ Answer(r, "denied")
    /\ now' = [now EXCEPT ![r] = 0]
    /\ UNCHANGED <<id, clock, faults>>

\* The call or its reply is lost: the client library repeats the same script, or gives up, and a
\* request whose check failed is let through.
Lost(r) ==
    /\ pc[r] = "script"
    /\ Fault
    /\ \/ ScriptAdds(r)
       \/ ScriptDenies(r)
       \/ UNCHANGED <<zset, touched, admitted, retryAt>>
    /\ \/ Answer(r, "unlimited") /\ now' = [now EXCEPT ![r] = 0]
       \/ Answer(r, "script") /\ UNCHANGED now
    /\ UNCHANGED <<id, clock>>

-----------------------------------------------------------------------------
(* Redis's clock.                                                          *)

\* A script runs before its reading is older than MaxLag.
Tick ==
    /\ clock < MaxClock
    /\ \A r \in Request : pc[r] = "script" => clock < now[r] + MaxLag
    /\ clock' = clock + 1
    /\ UNCHANGED <<id, zset, touched, pc, tier, now, admitted, retryAt, faults>>

\* Mutant of Expire: a TTL of one second.
ExpireSoon(w) ==
    /\ clock >= touched[w] + Second
    /\ zset' = [zset EXCEPT ![w] = [d \in Id |-> Absent]]
    /\ UNCHANGED <<id, clock, touched, pc, tier, now, admitted, retryAt, faults>>

\* The key's TTL, the window and a second, is over.
Expire(w) ==
    /\ clock >= touched[w] + w + Second
    /\ zset' = [zset EXCEPT ![w] = [d \in Id |-> Absent]]
    /\ UNCHANGED <<id, clock, touched, pc, tier, now, admitted, retryAt, faults>>

\* Every request is answered.
Quiet ==
    /\ \A r \in Request : pc[r] \in {"served", "denied", "unlimited"}
    /\ UNCHANGED vars

RequestNext(r) == ReadClock(r) \/ Pass(r) \/ Deny(r) \/ Lost(r)

Next ==
    \/ \E r \in Request : RequestNext(r)
    \/ \E w \in Window : Expire(w)
    \/ Tick \/ Quiet

Spec == Init /\ [][Next]_vars

-----------------------------------------------------------------------------
Score == 0 .. MaxClock + Skew

TypeOK ==
    /\ id \in [Request -> Id]
    /\ clock \in 0 .. MaxClock
    /\ zset \in [Window -> [Id -> Score \cup {Absent}]]
    /\ touched \in [Window -> 0 .. MaxClock]
    /\ pc \in [Request -> {"read", "script", "served", "denied", "unlimited"}]
    /\ tier \in [Request -> TierIndex]
    /\ now \in [Request -> Score]
    /\ admitted \in [TierIndex -> [Request -> Score \cup {Absent}]]
    /\ retryAt \in [TierIndex -> Int]
    /\ faults \in 0 .. MaxFaults

\* How far apart two scripts' clock readings may be from the order they run in.
Disorder == MaxLag + Skew

\* A request with the id of another may have its member's score put back by the other's reading.
Shared(r) == \E q \in Request \ {r} : id[q] = id[r]
Back(r) == IF Shared(r) THEN Disorder ELSE 0

\* The ids of what tier i admitted in the span of its window that ends at t, shortened by the disorder.
AdmittedIn(i, t) ==
    {r \in Request : admitted[i][r] # Absent /\ admitted[i][r] <= t
                       /\ admitted[i][r] > t - (Tiers[i].window - Disorder - Back(r))}
IdsIn(i, t) == {id[r] : r \in AdmittedIn(i, t)}

\* A tier admits requests of at most as many ids as its limit in any span of its window shortened by the
\* clocks' disorder, and twice that where requests repeat an id, whichever pods, retries, repeated ids
\* and expiries had a hand in it.  Where every id is a UUID, as the comment above Allow wants it, that
\* is a limit on requests; requests that repeat one id count as one.
LimitHolds ==
    \A i \in TierIndex : \A t \in Score : Cardinality(IdsIn(i, t)) <= Tiers[i].limit

\* Retry-After is honest: with tiers of different windows, a request that carries a time at or
\* after the one a denial named is not denied by that tier if nothing was added in between.
RetryAfterIsHonest ==
    [][\A r \in Request :
          Deny(r) /\ retryAt[tier[r]] # Never => now[r] < retryAt[tier[r]]]_vars
=============================================================================
