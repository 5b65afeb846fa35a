--------------------------- MODULE ProxyCacheProofs ---------------------------
(***************************************************************************)
(* Proofs that ProxyCache keeps its types, that a cached answer is fresh,  *)
(* that a stream has one reader and that the memory tier counts what it    *)
(* holds, for any requests, keys, answers, sizes and times to live.        *)
(***************************************************************************)
EXTENDS ProxyCache, FiniteSetTheorems, TLAPS

Answers == [size : Nat, sMaxAge : Int, maxAge : Int, cacheable : BOOLEAN, failed : BOOLEAN]

\* The age an entry may reach: it will not be older when its time is up.
Half == Second \div 2
MaxAge(e) == IF e.torn THEN 2 * e.ttl ELSE e.ttl + Half
InTime(e) == e.left >= 0 => e.age + e.left <= MaxAge(e)

\* Entries with time left, those of them that Redis has, and those in memory, which may have expired.
Entries == [age : Nat, left : Int, ttl : Nat \ {0}, torn : BOOLEAN, size : Nat]
Found == {e \in Entries : e.left \in 0 .. e.ttl /\ InTime(e)}
Stored == {e \in Found : ~e.torn /\ e.age + e.left <= e.ttl}
Kept == {e \in [key : Key, age : Nat, left : Int, ttl : Nat \ {0}, torn : BOOLEAN, size : Nat] :
             e.left \in -1 .. e.ttl /\ InTime(e) /\ e.size >= Overhead}

\* What a request has in hand at each of its steps.
Looking == [at : {"memory", "redis", "call", "fetch", "alone", "wait"}, key : Key, cd : Directive]
Asking == [at : {"ttl"}, key : Key, cd : Directive, entry : Stored]
Copying == [at : {"copy"}, key : Key, cd : Directive, entry : Found]
Hits == [at : {"hit"}, entry : Found]
Answered == [at : {"result", "refetch", "write", "store", "mirror"}, key : Key, cd : Directive,
             answer : Answers, stream : Stream \cup {NoStream}]
Requests == {Idle} \cup Looking \cup Asking \cup Copying \cup Hits \cup Answered

RequestsOK == req \in [Conn -> Requests]
RedisOK == redis \in [Key -> Stored \cup {NoEntry}]
ItemsOK == items \in Seq(Kept)
OpenOK == open \in [Stream -> {"none", "open", "claimed"}]
Types == RequestsOK /\ RedisOK /\ ItemsOK /\ OpenOK

\* A stream that is claimed has one reader, an open one somebody who may yet claim it.
Reads(c, s) == req[c].at = "write" /\ req[c].stream = s
Waits(c, s) == req[c].at = "result" /\ req[c].stream = s
StreamsRead ==
    /\ \A c \in Conn : req[c].at = "write" => req[c].stream \in Stream
    /\ \A s \in Stream : \A c \in Conn : Reads(c, s) => open[s] = "claimed"
    /\ \A s \in Stream : \A c, d \in Conn : Reads(c, s) /\ Reads(d, s) => c = d
    /\ \A s \in Stream : open[s] = "claimed" => \E c \in Conn : Reads(c, s)
    /\ \A s \in Stream : open[s] = "open" => \E c \in Conn : Waits(c, s)

IInv == Types /\ StreamsRead

-----------------------------------------------------------------------------
(* What the operators return.                                              *)

LEMMA Seconds ==
  /\ Second \in Nat \ {0} /\ Half \in Nat
  /\ \A n \in Nat \ {0} : n * Second \in Nat \ {0}
  /\ \A left \in Nat : Rounded(left) \in Nat /\ Rounded(left) <= left + Half
<1>1. Second \in Nat \ {0} /\ Half \in Nat
  BY ProxyCacheAssumption DEF Half
<1>2. \A n \in Nat \ {0} : n * Second \in Nat \ {0}
  BY <1>1
<1>3. ASSUME NEW left \in Nat
      PROVE  Rounded(left) \in Nat /\ Rounded(left) <= left + Half
  <2>1. PICK n \in Nat : n = left + Half
    BY <1>1
  <2>2. (n \div Second) * Second \in Nat /\ (n \div Second) * Second <= n
    BY <1>1
  <2> QED BY <2>1, <2>2 DEF Rounded, Half
<1> QED BY <1>1, <1>2, <1>3

LEMMA AnswerTypes ==
  /\ Do \subseteq Answers
  /\ \A a \in Response : Entry(a) \in Stored
  /\ \A a \in Answers : Entry(a) \in Stored
<1>1. Do \subseteq Answers
  <2>1. Failed \in Answers
    BY DEF Failed, Answers
  <2>2. ASSUME NEW a \in Response
        PROVE  [size |-> a.size, sMaxAge |-> a.sMaxAge, maxAge |-> a.maxAge, cacheable |-> a.cacheable,
                failed |-> FALSE] \in Answers
    <3>1. a \in [size : Nat, sMaxAge : Int, maxAge : Int, cacheable : BOOLEAN]
      BY ProxyCacheAssumption
    <3> QED BY <3>1 DEF Answers
  <2> QED BY <2>1, <2>2 DEF Do
<1>2. ASSUME NEW a, a.size \in Nat, a.sMaxAge \in Int, a.maxAge \in Int
      PROVE  Entry(a) \in Stored
  <2>1. TTL(a) \in Nat \ {0}
    BY <1>2, ProxyCacheAssumption DEF TTL, ExtractTTL
  <2>2. PICK t \in Nat \ {0} : t = TTL(a) * Second
    BY <2>1, Seconds
  <2>3. Entry(a) = [age |-> 0, left |-> t, ttl |-> t, torn |-> FALSE, size |-> a.size]
    BY <2>2 DEF Entry
  <2> QED BY <1>2, <2>2, <2>3, Seconds DEF Entries, Found, Stored, InTime, MaxAge
<1>3. \A a \in Response : a.size \in Nat /\ a.sMaxAge \in Int /\ a.maxAge \in Int
  BY ProxyCacheAssumption
<1>4. \A a \in Answers : a.size \in Nat /\ a.sMaxAge \in Int /\ a.maxAge \in Int
  BY DEF Answers
<1> QED BY <1>1, <1>2, <1>3, <1>4

\* A sequence without one of its elements.
LEMMA RemoveAtTypes ==
  ASSUME NEW S, NEW s \in Seq(S), NEW i \in DOMAIN s
  PROVE  RemoveAt(s, i) \in Seq(S)
<1>1. i \in 1 .. Len(s) /\ Len(s) \in Nat
  OBVIOUS
<1>2. SubSeq(s, 1, i - 1) \in Seq(S) /\ SubSeq(s, i + 1, Len(s)) \in Seq(S)
  BY <1>1
<1> QED BY <1>2 DEF RemoveAt

LEMMA RemainingTypes ==
  ASSUME ItemsOK, NEW k \in Key
  PROVE  Remaining(k) \in Seq(Kept)
<1>1. CASE PlacesOf(k) = {}
  BY <1>1 DEF Remaining, ItemsOK
<1>2. CASE PlacesOf(k) # {}
  <2>1. PICK i : i = CHOOSE j \in PlacesOf(k) : TRUE
    OBVIOUS
  <2>2. i \in DOMAIN items
    BY <1>2, <2>1 DEF PlacesOf
  <2>3. RemoveAt(items, i) \in Seq(Kept)
    BY <2>2, RemoveAtTypes DEF ItemsOK
  <2> QED BY <1>2, <2>1, <2>3 DEF Remaining
<1> QED BY <1>1, <1>2

\* The memory tier keeps entries that are in time (memoryCache.set, get and removeLocked).
LEMMA SetMemoryTypes ==
  ASSUME ItemsOK, NEW k \in Key, NEW e \in Found, SetMemory(k, e)
  PROVE  ItemsOK'
<1> DEFINE item == [key |-> k, age |-> e.age, left |-> e.left, ttl |-> e.ttl, torn |-> e.torn,
                    size |-> e.size + Overhead]
           all == Added(k, item)
<1>1. UNCHANGED items \/ \E n \in 0 .. Len(all.list) : items' = SubSeq(all.list, 1, n)
  BY DEF SetMemory, memory
<1>2. item \in Kept
  BY ProxyCacheAssumption DEF Found, Entries, Kept, InTime, MaxAge
<1>3. Remaining(k) \in Seq(Kept)
  BY RemainingTypes
<1>4. all.list = <<item>> \o Remaining(k)
  BY DEF Added
<1> HIDE DEF item, all
<1>5. all.list \in Seq(Kept)
  BY <1>2, <1>3, <1>4
<1>6. \A n \in 0 .. Len(all.list) : SubSeq(all.list, 1, n) \in Seq(Kept)
  BY <1>5
<1> QED BY <1>1, <1>6 DEF ItemsOK

LEMMA UseTypes ==
  ASSUME ItemsOK, NEW i \in DOMAIN items, Use(i), ~Expired(items[i])
  PROVE  ItemsOK' /\ Taken(i) \in Found
<1>1. items[i] \in Kept
  BY DEF ItemsOK
<1>2. Taken(i) \in Found
  BY <1>1, ProxyCacheAssumption DEF Taken, Expired, Found, Entries, Kept, InTime, MaxAge
<1>3. RemoveAt(items, i) \in Seq(Kept)
  BY RemoveAtTypes DEF ItemsOK
<1>4. items' = <<items[i]>> \o RemoveAt(items, i)
  BY DEF Use
<1>5. items' \in Seq(Kept)
  BY <1>1, <1>3, <1>4
<1> QED BY <1>2, <1>5 DEF ItemsOK

\* The time left that a look-up gives an entry (UpstreamCache.Get): told to the nearest second of the
\* entry itself, it is half a second too long at most; of another, no longer than the time to live.
LEMMA TornTypes ==
  ASSUME NEW e \in Stored, NEW now \in Stored \cup {NoEntry}, NEW left \in TimesLeft(e, now),
         NEW b \in BOOLEAN, ~b => now = e /\ ~(e.left = 0 /\ left > 0)
  PROVE  [e EXCEPT !.left = left, !.torn = b] \in Found
<1>1. /\ e \in Entries /\ e.left \in Nat /\ e.left <= e.ttl /\ e.age \in Nat /\ e.ttl \in Nat \ {0}
      /\ e.age + e.left <= e.ttl
  BY DEF Stored, Found, Entries
<1>2. now # NoEntry => now.left \in Nat
  BY DEF Stored, Found
<1>3. left = e.ttl \/ (now # NoEntry /\ left = Shorter(Rounded(now.left), e.ttl))
  BY DEF TimesLeft
<1>4. left \in Nat /\ left <= e.ttl
  BY <1>1, <1>2, <1>3, Seconds DEF Shorter
<1>5. ~b => e.age + left <= e.ttl + Half
  <2> SUFFICES ASSUME ~b PROVE e.age + left <= e.ttl + Half
    OBVIOUS
  <2>1. now = e /\ (e.left # 0 \/ left <= 0)
    BY <1>1, <1>4
  <2>2. CASE left = Shorter(Rounded(e.left), e.ttl)
    <3>1. Rounded(e.left) \in Nat /\ Rounded(e.left) <= e.left + Half
      BY <1>1, Seconds
    <3> QED BY <1>1, <2>2, <3>1, Seconds DEF Shorter
  <2>3. CASE left = e.ttl /\ left # Shorter(Rounded(e.left), e.ttl)
    <3>1. e # NoEntry
      BY <1>1 DEF NoEntry
    <3>2. e.left = 0
      BY <2>1, <2>3, <3>1 DEF TimesLeft
    <3> QED BY <1>1, <2>1, <2>3, <3>2
  <2> QED BY <1>3, <2>1, <2>2, <2>3
<1> DEFINE f == [e EXCEPT !.left = left, !.torn = b]
<1>6. f \in Entries /\ f.left = left /\ f.torn = b /\ f.ttl = e.ttl /\ f.age = e.age
  <2>1. ASSUME NEW g, g = [e EXCEPT !.left = left, !.torn = b]
        PROVE  g \in Entries /\ g.left = left /\ g.torn = b /\ g.ttl = e.ttl /\ g.age = e.age
    <3>1. left \in Int
      BY <1>4
    <3> HIDE <1>5
    <3> QED BY <1>1, <2>1, <3>1 DEF Entries
  <2> QED BY <2>1
<1> HIDE DEF f
<1>7. f.age + f.left <= MaxAge(f)
  BY <1>1, <1>4, <1>5, <1>6 DEF MaxAge
<1>8. f \in Found
  BY <1>4, <1>6, <1>7 DEF Found, InTime
<1> QED BY <1>8 DEF f

\* A tick makes an entry a tick older, until its time is up.
LEMMA OlderTypes ==
  /\ \A e \in Stored : e.left # 0 => Older(e) \in Stored
  /\ \A e \in Kept : Older(e) \in Kept
<1>1. ASSUME NEW e \in Stored, e.left # 0
      PROVE  Older(e) \in Stored
  <2>1. Older(e) = [e EXCEPT !.left = e.left - 1, !.age = e.age + 1]
    BY <1>1 DEF Older, Expired, Stored, Found
  <2>2. /\ e \in Entries /\ e.left \in Nat /\ e.left <= e.ttl /\ e.age + e.left <= e.ttl /\ ~e.torn
        /\ e.age \in Nat /\ e.ttl \in Nat \ {0}
    BY DEF Stored, Found, Entries
  <2> DEFINE f == Older(e)
  <2>3. f \in Entries /\ f.left = e.left - 1 /\ f.age = e.age + 1 /\ f.ttl = e.ttl /\ ~f.torn
    <3>1. e.left - 1 \in Int /\ e.age + 1 \in Nat
      BY <2>2
    <3>2. PICK a, b : a = e.left - 1 /\ b = e.age + 1
      OBVIOUS
    <3>3. a \in Int /\ b \in Nat /\ f = [e EXCEPT !.left = a, !.age = b]
      BY <2>1, <3>1, <3>2
    <3> HIDE DEF f
    <3>4. f \in Entries /\ f.left = a /\ f.age = b /\ f.ttl = e.ttl /\ f.torn = e.torn
      BY <2>2, <3>3 DEF Entries
    <3> QED BY <2>2, <3>2, <3>4
  <2> HIDE DEF f
  <2>4. f.left \in 0 .. f.ttl /\ f.age + f.left <= f.ttl
    BY <1>1, <2>2, <2>3
  <2>5. f \in Stored
    <3>1. f.age + f.left <= MaxAge(f)
      BY <2>2, <2>3, <2>4, Seconds DEF MaxAge
    <3> QED BY <2>3, <2>4, <3>1 DEF Stored, Found, InTime
  <2> QED BY <2>5 DEF f
<1>2. ASSUME NEW e \in Kept
      PROVE  Older(e) \in Kept
  <2>1. CASE Expired(e)
    BY <2>1 DEF Older
  <2>2. CASE ~Expired(e)
    <3>1. Older(e) = [e EXCEPT !.left = e.left - 1, !.age = IF e.left = 0 THEN 0 ELSE e.age + 1]
      BY <2>2 DEF Older
    <3>2. /\ e.left \in Nat /\ e.left <= e.ttl /\ e.age + e.left <= MaxAge(e)
          /\ e.age \in Nat /\ e.ttl \in Nat \ {0} /\ MaxAge(e) \in Nat
      BY <2>2, Seconds DEF Expired, Kept, InTime, MaxAge
    <3> DEFINE f == Older(e)
               Items == [key : Key, age : Nat, left : Int, ttl : Nat \ {0}, torn : BOOLEAN, size : Nat]
    <3>3. /\ f \in Items /\ f.left = e.left - 1 /\ f.age = (IF e.left = 0 THEN 0 ELSE e.age + 1)
          /\ f.ttl = e.ttl /\ f.torn = e.torn /\ f.size = e.size
      <4>1. e \in Items
        BY DEF Kept
      <4>2. PICK a, b : a = e.left - 1 /\ b = IF e.left = 0 THEN 0 ELSE e.age + 1
        OBVIOUS
      <4>3. a \in Int /\ b \in Nat /\ f = [e EXCEPT !.left = a, !.age = b]
        BY <3>1, <3>2, <4>2
      <4> HIDE DEF f
      <4>4. f \in Items /\ f.left = a /\ f.age = b /\ f.ttl = e.ttl /\ f.torn = e.torn /\ f.size = e.size
        BY <4>1, <4>3
      <4> QED BY <4>2, <4>4
    <3> HIDE DEF f
    <3>4. MaxAge(f) = MaxAge(e)
      BY <3>3 DEF MaxAge
    <3>5. f.left \in -1 .. f.ttl /\ InTime(f)
      BY <3>2, <3>3, <3>4 DEF InTime
    <3>6. f \in Kept
      <4>1. f.size >= Overhead
        BY <3>3 DEF Kept
      <4> QED BY <3>3, <3>5, <4>1 DEF Kept
    <3> QED BY <3>6 DEF f
  <2> QED BY <2>1, <2>2
<1> QED BY <1>1, <1>2

-----------------------------------------------------------------------------
(* Types.                                                                  *)

\* What a request has in hand, by where it is.
LEMMA Shapes ==
  ASSUME RequestsOK, NEW c \in Conn
  PROVE  /\ req[c] \in Requests
         /\ req[c].at \in {"memory", "redis", "call", "fetch", "alone", "wait"} => req[c] \in Looking
         /\ req[c].at = "ttl" => req[c] \in Asking
         /\ req[c].at = "copy" => req[c] \in Copying
         /\ req[c].at = "hit" => req[c] \in Hits
         /\ req[c].at \in {"result", "refetch", "write", "store", "mirror"} => req[c] \in Answered
<1>1. req[c] \in Requests
  BY DEF RequestsOK
<1>2. PICK r : r = req[c]
  OBVIOUS
<1>3. r \in Requests
  BY <1>1, <1>2
<1>4. r = Idle => r.at = "idle"
  BY DEF Idle
<1>5. r \in Looking => r.at \in {"memory", "redis", "call", "fetch", "alone", "wait"}
  BY DEF Looking
<1>6. (r \in Asking => r.at = "ttl") /\ (r \in Copying => r.at = "copy") /\ (r \in Hits => r.at = "hit")
  BY DEF Asking, Copying, Hits
<1>7. r \in Answered => r.at \in {"result", "refetch", "write", "store", "mirror"}
  BY DEF Answered
<1>8. r = Idle \/ r \in Looking \/ r \in Asking \/ r \in Copying \/ r \in Hits \/ r \in Answered
  BY <1>3 DEF Requests
<1> QED BY <1>1, <1>2, <1>4, <1>5, <1>6, <1>7, <1>8

LEMMA PutTypes ==
  ASSUME RequestsOK, NEW c \in Conn, NEW q \in Requests, req' = [req EXCEPT ![c] = q]
  PROVE  RequestsOK' /\ req'[c] = q /\ \A d \in Conn \ {c} : req'[d] = req[d]
BY DEF RequestsOK

LEMMA FinishTypes ==
  ASSUME RequestsOK, NEW c \in Conn, Finish(c)
  PROVE  RequestsOK' /\ req'[c] = Idle /\ \A d \in Conn \ {c} : req'[d] = req[d]
<1>1. Idle \in Requests
  BY DEF Requests
<1> QED BY <1>1, PutTypes DEF Finish

LEMMA GoToTypes ==
  ASSUME RequestsOK, NEW c \in Conn, NEW stage, GoTo(c, stage),
         \/ req[c] \in Looking /\ stage \in {"memory", "redis", "call", "fetch", "alone", "wait"}
         \/ req[c] \in Answered /\ stage \in {"result", "refetch", "write", "store", "mirror"}
  PROVE  RequestsOK' /\ req'[c] = [req[c] EXCEPT !.at = stage] /\ \A d \in Conn \ {c} : req'[d] = req[d]
<1>1. PICK r : r = req[c]
  OBVIOUS
<1>2. [r EXCEPT !.at = stage] \in Requests
  <2>1. CASE req[c] \in Looking /\ stage \in {"memory", "redis", "call", "fetch", "alone", "wait"}
    <3>1. [r EXCEPT !.at = stage] \in Looking
      BY <1>1, <2>1 DEF Looking
    <3> QED BY <3>1 DEF Requests
  <2>2. CASE req[c] \in Answered /\ stage \in {"result", "refetch", "write", "store", "mirror"}
    <3>1. [r EXCEPT !.at = stage] \in Answered
      BY <1>1, <2>2 DEF Answered
    <3> QED BY <3>1 DEF Requests
  <2> QED BY <2>1, <2>2
<1>3. req' = [req EXCEPT ![c] = [r EXCEPT !.at = stage]]
  BY <1>1 DEF GoTo
<1> QED BY <1>1, <1>2, <1>3, PutTypes

\* There is always a name for a new stream: every name that is not free is held by a request that has
\* a result or writes one.
LEMMA FreshIsFree ==
  ASSUME IInv, NEW c \in Conn, req[c].at \notin {"result", "write"}
  PROVE  /\ Fresh \in Stream /\ open[Fresh] = "none"
         /\ \A d \in Conn : At(d, "result") => req[d].stream # Fresh
<1> DEFINE Free(s) == open[s] = "none" /\ \A d \in Conn : At(d, "result") => req[d].stream # s
<1>1. \E s \in Stream : Free(s)
  <2> SUFFICES ASSUME \A s \in Stream : ~Free(s) PROVE FALSE
    OBVIOUS
  <2> DEFINE Holds(d, s) == req[d].at \in {"result", "write"} /\ req[d].stream = s
             holder == [s \in Stream |-> CHOOSE d \in Conn : Holds(d, s)]
  <2>1. ASSUME NEW s \in Stream PROVE \E d \in Conn : Holds(d, s)
    <3>1. CASE open[s] # "none"
      <4>1. open[s] \in {"open", "claimed"}
        BY <3>1 DEF IInv, Types, OpenOK
      <4> QED BY <4>1 DEF IInv, StreamsRead, Reads, Waits
    <3>2. CASE open[s] = "none"
      <4>1. \E d \in Conn : At(d, "result") /\ req[d].stream = s
        BY <3>2
      <4> QED BY <4>1 DEF At
    <3> QED BY <3>1, <3>2
  <2>2. \A s \in Stream : holder[s] \in Conn /\ Holds(holder[s], s)
    BY <2>1
  <2>3. \A s \in Stream : holder[s] \in Conn \ {c} /\ req[holder[s]].stream = s
    BY <2>2
  <2> HIDE DEF holder
  <2>4. DOMAIN holder = Stream /\ holder = [s \in Stream |-> holder[s]]
    BY DEF holder
  <2>5. holder \in Injection(Stream, Conn \ {c})
    <3>1. holder \in [Stream -> Conn \ {c}]
      BY <2>3, <2>4
    <3>2. \A s, t \in Stream : holder[s] = holder[t] => s = t
      BY <2>3
    <3> QED BY <3>1, <3>2 DEF Injection, IsInjective
  <2>6. IsFiniteSet(Conn \ {c}) /\ Cardinality(Conn \ {c}) = Cardinality(Conn) - 1
    BY FS_RemoveElement, ProxyCacheAssumption
  <2>7. Cardinality(Stream) <= Cardinality(Conn \ {c})
    BY <2>5, <2>6, FS_Injection
  <2>8. Cardinality(Conn) \in Nat /\ Cardinality(Stream) \in Nat /\ Cardinality(Stream) >= Cardinality(Conn)
    BY FS_CardinalityType, ProxyCacheAssumption
  <2> QED BY <2>6, <2>7, <2>8
<1>2. Fresh = CHOOSE s \in Stream : Free(s)
  BY DEF Fresh
<1>3. Fresh \in Stream /\ Free(Fresh)
  <2> HIDE DEF Free
  <2> QED BY <1>1, <1>2
<1> QED BY <1>3

-----------------------------------------------------------------------------
(* The steps.                                                              *)

\* Who neither has a result nor writes one does not matter to the streams.
LEMMA StreamsAside ==
  ASSUME StreamsRead, UNCHANGED open,
         \A d \in Conn : \/ req'[d] = req[d]
                         \/ /\ req[d].at \notin {"result", "write"}
                            /\ req'[d].at \notin {"result", "write"}
  PROVE  StreamsRead'
<1>1. ASSUME NEW d \in Conn
      PROVE  \/ req'[d].at = req[d].at /\ req'[d].stream = req[d].stream
             \/ req[d].at \notin {"result", "write"} /\ req'[d].at \notin {"result", "write"}
  <2>1. CASE req'[d] = req[d]
    BY <2>1
  <2> QED BY <2>1
<1>2. \A d \in Conn, s \in Stream : (Reads(d, s)' <=> Reads(d, s)) /\ (Waits(d, s)' <=> Waits(d, s))
  BY <1>1 DEF Reads, Waits
<1>3. \A d \in Conn : req'[d].at = "write" => req'[d].stream \in Stream
  BY <1>1 DEF StreamsRead
<1> QED BY <1>2, <1>3 DEF StreamsRead

\* A stream that nobody has yet gets its first reader, or requests that may read it.
LEMMA StreamsOpened ==
  ASSUME IInv, NEW s \in Stream, open[s] = "none", NEW C \in SUBSET Conn, C # {},
         \A d \in Conn : At(d, "result") => req[d].stream # s,
         \A d \in C : req[d].at \notin {"result", "write"} /\ req'[d].stream = s,
         \A d \in Conn \ C : req'[d] = req[d],
         \/ open' = [open EXCEPT ![s] = "open"] /\ \A d \in C : req'[d].at = "result"
         \/ open' = [open EXCEPT ![s] = "claimed"] /\ (\A d \in C : req'[d].at = "write") /\ \A c, d \in C : c = d
  PROVE  StreamsRead'
<1>1. open \in [Stream -> {"none", "open", "claimed"}] /\ StreamsRead
  BY DEF IInv, Types, OpenOK
<1>2. \A d \in Conn : ~Reads(d, s) /\ ~Waits(d, s)
  BY <1>1 DEF StreamsRead, Reads, Waits, At
<1>3. ASSUME NEW d \in Conn, NEW t \in Stream, t # s
      PROVE  (Reads(d, t)' <=> Reads(d, t)) /\ (Waits(d, t)' <=> Waits(d, t))
  BY <1>3 DEF Reads, Waits
<1>4. \A t \in Stream \ {s} : open'[t] = open[t]
  BY <1>1
<1>5. ASSUME NEW d \in Conn, req'[d].at = "write"
      PROVE  req'[d].stream \in Stream
  BY <1>1, <1>5 DEF StreamsRead
<1>6. \A d \in Conn \ C : ~Reads(d, s)' /\ ~Waits(d, s)'
  BY <1>2 DEF Reads, Waits
<1>7. CASE open' = [open EXCEPT ![s] = "open"] /\ \A d \in C : req'[d].at = "result"
  <2>1. open'[s] = "open" /\ \A d \in C : Waits(d, s)' /\ ~Reads(d, s)'
    BY <1>1, <1>7 DEF Waits, Reads
  <2> QED BY <1>1, <1>3, <1>4, <1>5, <1>6, <2>1 DEF StreamsRead
<1>8. CASE open' = [open EXCEPT ![s] = "claimed"] /\ (\A d \in C : req'[d].at = "write") /\ \A c, d \in C : c = d
  <2>1. open'[s] = "claimed" /\ \A d \in C : Reads(d, s)'
    BY <1>1, <1>8 DEF Waits, Reads
  <2> QED BY <1>1, <1>3, <1>4, <1>5, <1>6, <1>8, <2>1 DEF StreamsRead
<1> QED BY <1>7, <1>8

LEMMA LookUpStep ==
  ASSUME IInv, NEW c \in Conn,
         \/ Arrive(c) \/ GetMemory(c) \/ GetRedis(c) \/ ReadTTL(c)
         \/ SaveMemory(c) \/ AnswerHit(c) \/ JoinCall(c)
  PROVE  IInv'
<1>1. RequestsOK /\ RedisOK /\ ItemsOK /\ OpenOK /\ StreamsRead
  BY DEF IInv, Types
<1> DEFINE Aside == /\ \A d \in Conn \ {c} : req'[d] = req[d]
                    /\ req[c].at \notin {"result", "write"} /\ req'[c].at \notin {"result", "write"}
<1>2. ASSUME UNCHANGED <<redis, open>>, ItemsOK', RequestsOK', Aside
      PROVE  IInv'
  BY <1>1, <1>2, StreamsAside DEF IInv, Types, RedisOK, OpenOK
<1>3. CASE Arrive(c)
  <2>1. PICK k \in Key, cd \in Directive :
            req' = [req EXCEPT ![c] =
                      [key |-> k, cd |-> cd,
                       at |-> IF cd.bypass \/ cd.noStore \/ cd.noCache THEN "call" ELSE "memory"]]
    BY <1>3 DEF Arrive
  <2> DEFINE q == [key |-> k, cd |-> cd,
                   at |-> IF cd.bypass \/ cd.noStore \/ cd.noCache THEN "call" ELSE "memory"]
  <2>2. q \in Looking /\ q.at \in {"call", "memory"}
    BY DEF Looking
  <2> HIDE DEF q
  <2>3. q \in Requests
    BY <2>2 DEF Requests
  <2>a. req' = [req EXCEPT ![c] = q]
    BY <2>1 DEF q
  <2>4. RequestsOK' /\ req'[c] = q /\ \A d \in Conn \ {c} : req'[d] = req[d]
    BY <1>1, <2>a, <2>3, PutTypes
  <2>5. UNCHANGED <<redis, items, open>> /\ req[c].at = "idle"
    BY <1>3 DEF Arrive, memory, At
  <2> QED BY <1>1, <1>2, <2>2, <2>4, <2>5 DEF ItemsOK
<1>4. ASSUME req[c] \in Looking, NEW e \in Found, Serve(c, e)
      PROVE  RequestsOK' /\ Aside
  <2>1. PICK r : r = req[c]
    OBVIOUS
  <2> DEFINE q == IF Accepts(r.cd, e) THEN [at |-> "hit", entry |-> e] ELSE [r EXCEPT !.at = "call"]
  <2>2. [at |-> "hit", entry |-> e] \in Hits
    BY DEF Hits
  <2>3. [r EXCEPT !.at = "call"] \in Looking /\ [r EXCEPT !.at = "call"].at = "call"
    BY <1>4, <2>1 DEF Looking
  <2>4. q \in Requests /\ q.at \in {"hit", "call"}
    BY <2>2, <2>3 DEF Requests
  <2>5. req' = [req EXCEPT ![c] = q]
    BY <1>4, <2>1 DEF Serve
  <2>6. req[c].at \notin {"result", "write"}
    BY <1>4 DEF Looking
  <2> HIDE DEF q
  <2> QED BY <1>1, <2>4, <2>5, <2>6, PutTypes
<1>5. ASSUME NEW stage \in {"redis", "call", "alone", "wait", "fetch"}, GoTo(c, stage), req[c] \in Looking
      PROVE  RequestsOK' /\ Aside
  <2>1. req'[c] = [req[c] EXCEPT !.at = stage] /\ RequestsOK' /\ \A d \in Conn \ {c} : req'[d] = req[d]
    BY <1>1, <1>5, GoToTypes
  <2>2. req'[c].at = stage /\ req[c].at \notin {"result", "write"}
    BY <1>5, <2>1 DEF Looking
  <2> QED BY <2>1, <2>2
<1>6. CASE GetMemory(c)
  <2>1. req[c] \in Looking /\ UNCHANGED <<redis, open>>
    BY <1>1, <1>6, Shapes DEF GetMemory, At
  <2>2. req[c].key \in Key
    BY <2>1 DEF Looking
  <2>3. CASE GoTo(c, "redis") /\ UNCHANGED memory
    BY <1>1, <1>2, <1>5, <2>1, <2>3 DEF memory, ItemsOK
  <2>4. CASE GoTo(c, "redis") /\ Drop(req[c].key)
    BY <1>1, <1>2, <1>5, <2>1, <2>2, <2>4, RemainingTypes DEF Drop, ItemsOK
  <2>5. ASSUME NEW i \in PlacesOf(req[c].key), ~Expired(items[i]), Serve(c, Taken(i)), Use(i)
        PROVE  IInv'
    <3>1. i \in DOMAIN items
      BY DEF PlacesOf
    <3> QED BY <1>1, <1>2, <1>4, <2>1, <2>5, <3>1, UseTypes
  <2> QED BY <1>6, <2>3, <2>4, <2>5 DEF GetMemory
<1>7. CASE GetRedis(c)
  <2>1. req[c] \in Looking /\ UNCHANGED <<redis, items, open>>
    BY <1>1, <1>7, Shapes DEF GetRedis, At, memory
  <2>2. CASE GoTo(c, "call")
    BY <1>1, <1>2, <1>5, <2>1, <2>2 DEF ItemsOK
  <2>3. CASE /\ redis[req[c].key] # NoEntry
             /\ req' = [req EXCEPT ![c] = [at |-> "ttl", key |-> req[c].key, cd |-> req[c].cd,
                                           entry |-> redis[req[c].key]]]
    <3>1. PICK e, k, cd : e = redis[req[c].key] /\ k = req[c].key /\ cd = req[c].cd
      OBVIOUS
    <3>2. e \in Stored /\ k \in Key /\ cd \in Directive
      BY <1>1, <2>1, <2>3, <3>1 DEF RedisOK, Looking
    <3> DEFINE q == [at |-> "ttl", key |-> k, cd |-> cd, entry |-> e]
    <3>3. q \in Asking /\ q.at = "ttl"
      BY <3>2 DEF Asking
    <3>4. req' = [req EXCEPT ![c] = q]
      BY <2>3, <3>1
    <3> HIDE DEF q
    <3>5. q \in Requests
      BY <3>3 DEF Requests
    <3>6. req[c].at \notin {"result", "write"}
      BY <2>1 DEF Looking
    <3> QED BY <1>1, <1>2, <2>1, <3>3, <3>4, <3>5, <3>6, PutTypes DEF ItemsOK
  <2> QED BY <1>7, <2>2, <2>3 DEF GetRedis
<1>11. CASE ReadTTL(c)
  <2>1. PICK r, now : r = req[c] /\ now = redis[req[c].key]
    OBVIOUS
  <2>2. r \in Asking /\ UNCHANGED <<redis, items, open>>
    BY <1>1, <1>11, <2>1, Shapes DEF ReadTTL, At, memory
  <2>3. PICK e : e = r.entry
    OBVIOUS
  <2>4. r.key \in Key /\ r.cd \in Directive /\ e \in Stored /\ r.at = "ttl"
    BY <2>2, <2>3 DEF Asking
  <2>5. now \in Stored \cup {NoEntry}
    BY <1>1, <2>1, <2>4 DEF RedisOK
  <2>6. PICK left \in TimesLeft(e, now) :
             req' = [req EXCEPT ![c].at = "copy", ![c].entry.left = left,
                                ![c].entry.torn = now # e \/ (e.left = 0 /\ left > 0)]
    BY <1>11, <2>1, <2>3 DEF ReadTTL
  <2>7. PICK b \in BOOLEAN : b <=> now # e \/ (e.left = 0 /\ left > 0)
    OBVIOUS
  <2> DEFINE f == [e EXCEPT !.left = left, !.torn = b]
             q == [r EXCEPT !.at = "copy", !.entry = f]
  <2>8. f \in Found
    BY <2>4, <2>5, <2>6, <2>7, TornTypes
  <2>9. q \in Copying /\ q.at = "copy"
    <3> HIDE DEF f
    <3> QED BY <2>2, <2>8 DEF Asking, Copying
  <2>10. req' = [req EXCEPT ![c] = q]
    <3>1. b = (now # e \/ (e.left = 0 /\ left > 0))
      BY <2>7
    <3> QED BY <1>1, <2>1, <2>2, <2>3, <2>6, <3>1 DEF RequestsOK, Asking, Stored, Found, Entries
  <2> HIDE DEF q
  <2>11. q \in Requests
    BY <2>9 DEF Requests
  <2> QED BY <1>1, <1>2, <2>1, <2>2, <2>4, <2>9, <2>10, <2>11, PutTypes DEF ItemsOK
<1>8. CASE SaveMemory(c)
  <2>1. PICK r : r = req[c]
    OBVIOUS
  <2>2. r \in Copying /\ UNCHANGED <<redis, open>>
    BY <1>1, <1>8, <2>1, Shapes DEF SaveMemory, At
  <2>3. r.key \in Key /\ r.cd \in Directive /\ r.entry \in Found /\ r.at = "copy"
    BY <2>2 DEF Copying
  <2>4. ItemsOK'
    BY <1>1, <1>8, <2>1, <2>3, SetMemoryTypes DEF SaveMemory
  <2> DEFINE q == IF Accepts(r.cd, r.entry) THEN [at |-> "hit", entry |-> r.entry]
                  ELSE [at |-> "call", key |-> r.key, cd |-> r.cd]
  <2>5. q \in Requests /\ q.at \in {"hit", "call"}
    BY <2>3 DEF Requests, Hits, Looking
  <2>6. req' = [req EXCEPT ![c] = q]
    BY <1>8, <2>1 DEF SaveMemory
  <2> HIDE DEF q
  <2> QED BY <1>1, <1>2, <2>1, <2>2, <2>3, <2>4, <2>5, <2>6, PutTypes
<1>9. CASE AnswerHit(c)
  <2>1. Finish(c) /\ UNCHANGED <<redis, items, open>> /\ req[c].at = "hit"
    BY <1>9 DEF AnswerHit, At, memory
  <2> QED BY <1>1, <1>2, <2>1, FinishTypes DEF ItemsOK, Idle
<1>10. CASE JoinCall(c)
  <2>1. req[c] \in Looking /\ UNCHANGED <<redis, items, open>>
    BY <1>1, <1>10, Shapes DEF JoinCall, At, memory
  <2>2. PICK stage \in {"alone", "wait", "fetch"} : GoTo(c, stage)
    BY <1>10 DEF JoinCall
  <2>3. RequestsOK' /\ Aside
    BY <1>5, <2>1, <2>2
  <2> QED BY <1>1, <1>2, <2>1, <2>3 DEF ItemsOK
<1> QED BY <1>3, <1>6, <1>7, <1>8, <1>9, <1>10, <1>11

LEMMA FetchStep ==
  ASSUME IInv, NEW c \in Conn, Fetch(c)
  PROVE  IInv'
<1>1. RequestsOK /\ RedisOK /\ ItemsOK /\ OpenOK /\ StreamsRead
  BY DEF IInv, Types
<1>2. PICK a \in Do :
         LET streams == Streams(a, At(c, "fetch") \/ req[c].key \in Transformed)
             s == IF streams THEN Fresh ELSE NoStream
         IN /\ req' = [d \in Conn |->
                         IF d \in Sharing(c)
                         THEN [at |-> "result", key |-> req[d].key, cd |-> req[d].cd,
                               answer |-> a, stream |-> s]
                         ELSE req[d]]
            /\ open' = IF streams THEN [open EXCEPT ![s] = "open"] ELSE open
  BY DEF Fetch
<1> DEFINE streams == Streams(a, At(c, "fetch") \/ req[c].key \in Transformed)
           s == IF streams THEN Fresh ELSE NoStream
           shared(d) == [at |-> "result", key |-> req[d].key, cd |-> req[d].cd, answer |-> a, stream |-> s]
<1>3. req[c].at \in {"fetch", "alone"} /\ UNCHANGED <<redis, items>>
  BY DEF Fetch, At, memory
<1>4. \A d \in Sharing(c) : d \in Conn /\ req[d] \in Looking /\ req[d].at \in {"fetch", "alone", "wait"}
  BY <1>1, <1>3, Shapes DEF Sharing, At
<1>5. c \in Sharing(c)
  BY DEF Sharing
<1>6. Fresh \in Stream /\ open[Fresh] = "none" /\ \A d \in Conn : At(d, "result") => req[d].stream # Fresh
  BY <1>3, FreshIsFree
<1>7. s \in Stream \cup {NoStream} /\ a \in Answers
  BY <1>6, AnswerTypes
<1>8. /\ \A d \in Conn : req'[d] = IF d \in Sharing(c) THEN shared(d) ELSE req[d]
      /\ open' = IF streams THEN [open EXCEPT ![s] = "open"] ELSE open
      /\ req' = [d \in Conn |-> req'[d]]
  BY <1>2
<1>9. \A d \in Sharing(c) : shared(d) \in Answered /\ shared(d).at = "result" /\ shared(d).stream = s
  <2> HIDE DEF s
  <2> QED BY <1>4, <1>7 DEF Looking, Answered
<1> HIDE DEF shared
<1>10. RequestsOK'
  <2>1. \A d \in Conn : req'[d] \in Requests
    BY <1>1, <1>8, <1>9 DEF Requests, RequestsOK
  <2> QED BY <1>8, <2>1 DEF RequestsOK
<1>11. OpenOK'
  BY <1>1, <1>6, <1>8 DEF OpenOK
<1>12. StreamsRead'
  <2>1. CASE streams
    <3>1. s = Fresh /\ open' = [open EXCEPT ![s] = "open"]
      BY <1>8, <2>1
    <3>2. \A d \in Conn : At(d, "result") => req[d].stream # s
      BY <1>6, <3>1
    <3>3. /\ Sharing(c) \in SUBSET Conn /\ Sharing(c) # {}
          /\ \A d \in Sharing(c) : /\ req[d].at \notin {"result", "write"}
                                   /\ req'[d].stream = s /\ req'[d].at = "result"
          /\ \A d \in Conn \ Sharing(c) : req'[d] = req[d]
      <4> HIDE DEF s, streams
      <4> QED BY <1>4, <1>5, <1>8, <1>9
    <3> HIDE DEF s, streams
    <3> QED BY <1>6, <3>1, <3>2, <3>3, StreamsOpened
  <2>2. CASE ~streams
    <3>1. s = NoStream /\ UNCHANGED open
      BY <1>8, <2>2
    <3>2. /\ \A d \in Sharing(c) : req[d].at \notin {"result", "write"} /\ req'[d].stream = s /\ req'[d].at = "result"
          /\ \A d \in Conn \ Sharing(c) : req'[d] = req[d]
      <4> HIDE DEF s, streams
      <4> QED BY <1>4, <1>8, <1>9
    <3>3. NoStream \notin Stream
      BY ProxyCacheAssumption
    <3> HIDE DEF s, streams
    <3>4. \A d \in Conn, t \in Stream : (Reads(d, t)' <=> Reads(d, t)) /\ (Waits(d, t)' <=> Waits(d, t))
      BY <3>1, <3>2, <3>3 DEF Reads, Waits
    <3>5. \A d \in Conn : req'[d].at = "write" => req'[d].stream \in Stream
      BY <1>1, <3>2 DEF StreamsRead
    <3> QED BY <1>1, <3>1, <3>4, <3>5 DEF StreamsRead
  <2> QED BY <2>1, <2>2
<1> QED BY <1>1, <1>3, <1>10, <1>11, <1>12 DEF IInv, Types, RedisOK, ItemsOK

LEMMA TakeResultStep ==
  ASSUME IInv, NEW c \in Conn, TakeResult(c)
  PROVE  IInv'
<1>1. RequestsOK /\ RedisOK /\ ItemsOK /\ OpenOK /\ StreamsRead
  BY DEF IInv, Types
<1>2. req[c].at = "result" /\ req[c] \in Answered /\ UNCHANGED <<redis, items>>
  BY <1>1, Shapes DEF TakeResult, At, memory
<1>3. PICK s : s = req[c].stream
  OBVIOUS
<1>4. s \in Stream \cup {NoStream}
  BY <1>2, <1>3 DEF Answered
<1>5. ASSUME RequestsOK', OpenOK', StreamsRead'
      PROVE  IInv'
  BY <1>1, <1>2, <1>5 DEF IInv, Types, RedisOK, ItemsOK
<1>6. ASSUME NEW stage \in {"write", "refetch", "store"}, GoTo(c, stage)
      PROVE  /\ RequestsOK' /\ req'[c].at = stage /\ req'[c].stream = s
             /\ \A d \in Conn \ {c} : req'[d] = req[d]
  <2>1. req'[c] = [req[c] EXCEPT !.at = stage] /\ RequestsOK' /\ \A d \in Conn \ {c} : req'[d] = req[d]
    BY <1>1, <1>2, <1>6, GoToTypes
  <2> QED BY <1>2, <1>3, <2>1 DEF Answered
\* Nobody leaves a stream that is still to be claimed, but to claim it.
<1>7. ASSUME UNCHANGED open, s = NoStream \/ ~Claims(s), RequestsOK', \A d \in Conn \ {c} : req'[d] = req[d],
             req'[c].at \notin {"result", "write"}
      PROVE  IInv'
  <2>1. \A t \in Stream : open[t] = "open" => s # t
    BY <1>7, ProxyCacheAssumption DEF Claims
  <2>2. ASSUME NEW t \in Stream, open[t] = "open"
        PROVE  \E d \in Conn : Waits(d, t)'
    <3>1. PICK d \in Conn : Waits(d, t)
      BY <1>1, <2>2 DEF StreamsRead
    <3>2. d # c
      BY <1>3, <2>1, <2>2, <3>1 DEF Waits
    <3> QED BY <1>7, <3>1, <3>2 DEF Waits
  <2>3. \A d \in Conn, t \in Stream : Reads(d, t)' <=> Reads(d, t)
    BY <1>2, <1>7 DEF Reads
  <2>4. \A d \in Conn : req'[d].at = "write" => req'[d].stream \in Stream
    BY <1>1, <1>7 DEF StreamsRead
  <2>5. StreamsRead'
    BY <1>1, <1>7, <2>2, <2>3, <2>4 DEF StreamsRead
  <2> QED BY <1>1, <1>5, <1>7, <2>5 DEF OpenOK
<1>8. CASE s # NoStream /\ Claims(s) /\ open' = [open EXCEPT ![s] = "claimed"] /\ GoTo(c, "write")
  <2>1. s \in Stream /\ open[s] = "open"
    BY <1>4, <1>8 DEF Claims
  <2>2. RequestsOK' /\ req'[c].at = "write" /\ req'[c].stream = s /\ \A d \in Conn \ {c} : req'[d] = req[d]
    BY <1>6, <1>8
  <2>3. open'[s] = "claimed" /\ \A t \in Stream \ {s} : open'[t] = open[t]
    BY <1>1, <1>8, <2>1 DEF OpenOK
  <2>4. OpenOK'
    BY <1>1, <1>8 DEF OpenOK
  <2>5. \A d \in Conn : ~Reads(d, s)
    BY <1>1, <2>1 DEF StreamsRead
  <2>6. ASSUME NEW d \in Conn, NEW t \in Stream, t # s
        PROVE  (Reads(d, t)' <=> Reads(d, t)) /\ (Waits(d, t)' <=> Waits(d, t))
    BY <1>3, <2>2, <2>6 DEF Reads, Waits
  <2>7. \A d \in Conn : Reads(d, s)' <=> d = c
    BY <2>2, <2>5 DEF Reads
  <2>8. \A d \in Conn : req'[d].at = "write" => req'[d].stream \in Stream
    BY <1>1, <2>1, <2>2 DEF StreamsRead
  <2>9. StreamsRead'
    BY <1>1, <2>3, <2>6, <2>7, <2>8 DEF StreamsRead
  <2> QED BY <1>5, <2>2, <2>4, <2>9
<1>9. CASE s # NoStream /\ ~Claims(s) /\ GoTo(c, "refetch") /\ UNCHANGED open
  BY <1>6, <1>7, <1>9
<1>10. CASE s = NoStream /\ GoTo(c, "store") /\ UNCHANGED open
  BY <1>6, <1>7, <1>10
<1>11. CASE s = NoStream /\ Finish(c) /\ UNCHANGED open
  <2>1. RequestsOK' /\ req'[c] = Idle /\ \A d \in Conn \ {c} : req'[d] = req[d]
    BY <1>1, <1>11, FinishTypes
  <2>2. req'[c].at \notin {"result", "write"}
    BY <2>1 DEF Idle
  <2> QED BY <1>7, <1>11, <2>1, <2>2
<1> QED BY <1>3, <1>8, <1>9, <1>10, <1>11 DEF TakeResult

LEMMA RefetchStep ==
  ASSUME IInv, NEW c \in Conn, Refetch(c)
  PROVE  IInv'
<1>1. RequestsOK /\ RedisOK /\ ItemsOK /\ OpenOK /\ StreamsRead
  BY DEF IInv, Types
<1>2. req[c].at = "refetch" /\ req[c] \in Answered /\ UNCHANGED <<redis, items>>
  BY <1>1, Shapes DEF Refetch, At, memory
<1>3. Fresh \in Stream /\ open[Fresh] = "none" /\ \A d \in Conn : At(d, "result") => req[d].stream # Fresh
  BY <1>2, FreshIsFree
<1>4. ASSUME NEW a \in Do, open' = [open EXCEPT ![Fresh] = "claimed"],
             req' = [req EXCEPT ![c].at = "write", ![c].stream = Fresh, ![c].answer = a]
      PROVE  IInv'
  <2>1. PICK s, r : s = Fresh /\ r = req[c]
    OBVIOUS
  <2>2. a \in Answers
    BY AnswerTypes
  <2> DEFINE q == [r EXCEPT !.at = "write", !.stream = s, !.answer = a]
  <2>3. q \in Answered /\ q.at = "write" /\ q.stream = s
    BY <1>2, <1>3, <2>1, <2>2 DEF Answered
  <2>4. req' = [req EXCEPT ![c] = q]
    BY <1>1, <1>4, <2>1 DEF RequestsOK
  <2> HIDE DEF q
  <2>5. RequestsOK' /\ req'[c] = q /\ \A d \in Conn \ {c} : req'[d] = req[d]
    BY <1>1, <2>3, <2>4, PutTypes DEF Requests
  <2>6. OpenOK'
    BY <1>1, <1>3, <1>4 DEF OpenOK
  <2>7. StreamsRead'
    <3>1. {c} \in SUBSET Conn /\ {c} # {} /\ \A x, y \in {c} : x = y
      OBVIOUS
    <3>2. \A d \in {c} : req[d].at \notin {"result", "write"} /\ req'[d].stream = s /\ req'[d].at = "write"
      BY <1>2, <2>3, <2>5
    <3>3. /\ s \in Stream /\ open[s] = "none" /\ open' = [open EXCEPT ![s] = "claimed"]
          /\ \A d \in Conn : At(d, "result") => req[d].stream # s
      BY <1>3, <1>4, <2>1
    <3> QED BY <2>5, <3>1, <3>2, <3>3, StreamsOpened
  <2> QED BY <1>1, <1>2, <2>5, <2>6, <2>7 DEF IInv, Types, RedisOK, ItemsOK
<1>5. CASE Finish(c) /\ UNCHANGED open
  <2>1. RequestsOK' /\ req'[c].at = "idle" /\ \A d \in Conn \ {c} : req'[d] = req[d]
    BY <1>1, <1>5, FinishTypes DEF Idle
  <2>2. StreamsRead'
    BY <1>1, <1>2, <1>5, <2>1, StreamsAside
  <2> QED BY <1>1, <1>2, <1>5, <2>1, <2>2 DEF IInv, Types, RedisOK, ItemsOK, OpenOK
<1> QED BY <1>4, <1>5 DEF Refetch

LEMMA WriteStreamStep ==
  ASSUME IInv, NEW c \in Conn, WriteStream(c)
  PROVE  IInv'
<1>1. RequestsOK /\ RedisOK /\ ItemsOK /\ OpenOK /\ StreamsRead
  BY DEF IInv, Types
<1>2. PICK s : s = req[c].stream
  OBVIOUS
<1>3. /\ req[c].at = "write" /\ s \in Stream /\ open[s] = "claimed" /\ UNCHANGED <<redis, items>>
      /\ open' = [open EXCEPT ![s] = "none"]
  BY <1>1, <1>2 DEF WriteStream, At, memory, StreamsRead, Reads
<1>4. RequestsOK' /\ req'[c].at = "idle" /\ \A d \in Conn \ {c} : req'[d] = req[d]
  BY <1>1, FinishTypes DEF WriteStream, Idle
<1>5. open'[s] = "none" /\ (\A t \in Stream \ {s} : open'[t] = open[t]) /\ OpenOK'
  BY <1>1, <1>3 DEF OpenOK
<1>6. \A d \in Conn : ~Reads(d, s)'
  BY <1>1, <1>2, <1>3, <1>4 DEF StreamsRead, Reads
<1>7. ASSUME NEW d \in Conn, NEW t \in Stream, t # s
      PROVE  (Reads(d, t)' <=> Reads(d, t)) /\ (Waits(d, t)' <=> Waits(d, t))
  BY <1>2, <1>3, <1>4, <1>7 DEF Reads, Waits
<1>8. \A d \in Conn : req'[d].at = "write" => req'[d].stream \in Stream
  BY <1>1, <1>4 DEF StreamsRead
<1>9. StreamsRead'
  BY <1>1, <1>5, <1>6, <1>7, <1>8 DEF StreamsRead
<1> QED BY <1>1, <1>3, <1>4, <1>5, <1>9 DEF IInv, Types, RedisOK, ItemsOK

LEMMA StoreStep ==
  ASSUME IInv, NEW c \in Conn, Store(c) \/ Mirror(c)
  PROVE  IInv'
<1>1. RequestsOK /\ RedisOK /\ ItemsOK /\ OpenOK /\ StreamsRead
  BY DEF IInv, Types
<1>2. req[c].at \in {"store", "mirror"} /\ req[c] \in Answered /\ UNCHANGED open
  BY <1>1, Shapes DEF Store, Mirror, At
<1>3. req[c].key \in Key /\ Entry(req[c].answer) \in Stored
  BY <1>2, AnswerTypes DEF Answered
<1>4. /\ RequestsOK' /\ (\A d \in Conn \ {c} : req'[d] = req[d]) /\ req'[c].at \in {"mirror", "idle"}
  <2>1. CASE Finish(c)
    BY <1>1, <2>1, FinishTypes DEF Idle
  <2>2. CASE GoTo(c, "mirror")
    <3>1. req'[c] = [req[c] EXCEPT !.at = "mirror"] /\ RequestsOK' /\ \A d \in Conn \ {c} : req'[d] = req[d]
      BY <1>1, <1>2, <2>2, GoToTypes
    <3> QED BY <1>2, <3>1 DEF Answered
  <2> QED BY <2>1, <2>2 DEF Store, Mirror
<1>5. RedisOK'
  <2>1. UNCHANGED redis \/ redis' = [redis EXCEPT ![req[c].key] = Entry(req[c].answer)]
    BY DEF Store, Mirror
  <2> QED BY <1>1, <1>3, <2>1 DEF RedisOK
<1>6. ItemsOK'
  <2>1. CASE Store(c)
    BY <1>1, <2>1 DEF Store, memory, ItemsOK
  <2>2. CASE Mirror(c)
    <3>1. Entry(req[c].answer) \in Found
      BY <1>3 DEF Stored
    <3> QED BY <1>1, <1>3, <2>2, <3>1, SetMemoryTypes DEF Mirror
  <2> QED BY <2>1, <2>2
<1>7. StreamsRead'
  BY <1>1, <1>2, <1>4, StreamsAside
<1> QED BY <1>1, <1>2, <1>4, <1>5, <1>6, <1>7 DEF IInv, Types, OpenOK

LEMMA InvariantStep ==
  ASSUME IInv, [Next]_vars
  PROVE  IInv'
<1>1. RequestsOK /\ RedisOK /\ ItemsOK /\ OpenOK /\ StreamsRead
  BY DEF IInv, Types
<1>2. ASSUME UNCHANGED <<open, req>>, RedisOK', ItemsOK'
      PROVE  IInv'
  BY <1>1, <1>2, StreamsAside DEF IInv, Types, RequestsOK, OpenOK
<1>3. CASE UNCHANGED vars
  BY <1>1, <1>2, <1>3 DEF vars, memory, RedisOK, ItemsOK
<1>4. CASE StoreElsewhere
  <2>1. PICK k \in Key, a \in Response : redis' = [redis EXCEPT ![k] = Entry(a)]
    BY <1>4 DEF StoreElsewhere
  <2>2. RedisOK'
    BY <1>1, <2>1, AnswerTypes DEF RedisOK
  <2> QED BY <1>1, <1>2, <1>4, <2>2 DEF StoreElsewhere, memory, ItemsOK
<1>5. CASE Tick
  <2>1. ASSUME NEW k \in Key PROVE redis'[k] \in Stored \cup {NoEntry}
    BY <1>1, <1>5, OlderTypes DEF Tick, RedisOK
  <2>2. RedisOK'
    BY <1>5, <2>1 DEF Tick, RedisOK
  <2>3. items' = [i \in 1 .. Len(items) |-> Older(items[i])] /\ Len(items) \in Nat
    BY <1>1, <1>5 DEF Tick, ItemsOK
  <2>4. \A i \in 1 .. Len(items) : Older(items[i]) \in Kept
    BY <1>1, OlderTypes DEF ItemsOK
  <2>5. ItemsOK'
    BY <2>3, <2>4 DEF ItemsOK
  <2> QED BY <1>1, <1>2, <1>5, <2>2, <2>5 DEF Tick
<1> QED BY <1>3, <1>4, <1>5, LookUpStep, FetchStep, TakeResultStep, RefetchStep, WriteStreamStep, StoreStep DEF Next

LEMMA Invariant == Spec => []IInv
<1>1. Init => IInv
  <2> SUFFICES ASSUME Init PROVE IInv
    OBVIOUS
  <2>1. Idle \in Requests /\ Idle.at = "idle"
    BY DEF Requests, Idle
  <2>2. Types
    BY <2>1 DEF Init, Types, RequestsOK, RedisOK, ItemsOK, OpenOK
  <2>3. \A c \in Conn : req[c].at = "idle"
    BY <2>1 DEF Init
  <2>4. \A s \in Stream : open[s] = "none"
    BY DEF Init
  <2>5. StreamsRead
    BY <2>3, <2>4 DEF StreamsRead, Reads
  <2> QED BY <2>2, <2>5 DEF IInv
<1>2. IInv /\ [Next]_vars => IInv'
  BY InvariantStep
<1> QED BY <1>1, <1>2, PTL DEF Spec

-----------------------------------------------------------------------------
(* The theorems.                                                           *)

\* Whatever an answer's headers say, what is stored has a time to live, in Redis and in memory, and no
\* longer one than it began with (ExtractTTL, UpstreamCache.Set, memoryCache.set and get).
THEOREM TypesHold == Spec => []TypeOK
<1>1. IInv => TypeOK
  <2> SUFFICES ASSUME IInv PROVE TypeOK
    OBVIOUS
  <2>1. \A k \in Key : redis[k] = NoEntry \/ (redis[k].ttl > 0 /\ redis[k].left \in 0 .. redis[k].ttl)
    BY DEF IInv, Types, RedisOK, Stored, Found, Entries
  <2>2. \A i \in DOMAIN items :
          items[i].key \in Key /\ items[i].ttl > 0 /\ items[i].left \in -1 .. items[i].ttl
    <3>1. \A i \in DOMAIN items : items[i] \in Kept
      BY DEF IInv, Types, ItemsOK
    <3> QED BY <3>1 DEF Kept
  <2>3. \A c \in Conn : req[c].at \in Stage
    <3>1. \A q \in Requests : q.at \in Stage
      BY DEF Requests, Idle, Looking, Asking, Copying, Hits, Answered, Stage
    <3> QED BY <3>1 DEF IInv, Types, RequestsOK
  <2> QED BY <2>1, <2>2, <2>3 DEF TypeOK, IInv, Types, OpenOK
<1> QED BY <1>1, Invariant, PTL

\* For any answers, directives and times to live: no cached answer is older than its time to live by
\* more than half a second, or than twice that time if its copy in memory got a time that is not its
\* own (UpstreamCache.Get, saveL0, memoryCache.get).
THEOREM HitsAlwaysFresh == Spec => []HitsAreFresh
<1>1. IInv => HitsAreFresh
  <2> SUFFICES ASSUME IInv, NEW c \in Conn, At(c, "hit")
               PROVE  req[c].entry.age <= req[c].entry.ttl
                        + (IF req[c].entry.torn THEN req[c].entry.ttl ELSE Second \div 2)
    BY DEF HitsAreFresh
  <2>1. req[c] \in Hits
    BY Shapes DEF IInv, Types, At
  <2>2. PICK e : e = req[c].entry
    OBVIOUS
  <2>3. e \in Entries /\ e.left \in Nat /\ e.age + e.left <= MaxAge(e)
    BY <2>1, <2>2 DEF Hits, Found, Entries, InTime
  <2>4. e.age \in Nat /\ e.ttl \in Nat /\ e.left \in Nat
    BY <2>3 DEF Entries
  <2>5. e.age <= e.ttl + (IF e.torn THEN e.ttl ELSE Half)
    <3>1. CASE e.torn
      BY <2>3, <2>4, <3>1 DEF MaxAge
    <3>2. CASE ~e.torn
      BY <2>3, <2>4, <3>2, Seconds DEF MaxAge
    <3> QED BY <3>1, <3>2
  <2> QED BY <2>2, <2>5 DEF Half
<1> QED BY <1>1, Invariant, PTL

\* However many requests share a call: its stream is read by one of them, and by one as long as it is
\* open (claimStream, writeStreamedBody, Proxy).
THEOREM StreamsHaveOneReader == Spec => []OneReader
<1>1. IInv => OneReader
  <2> SUFFICES ASSUME IInv, NEW s \in Stream
               PROVE  LET readers == {c \in Conn : At(c, "write") /\ req[c].stream = s}
                      IN /\ Cardinality(readers) = IF open[s] = "claimed" THEN 1 ELSE 0
                         /\ open[s] = "open" => \E c \in Conn : At(c, "result") /\ req[c].stream = s
    BY DEF OneReader
  <2> DEFINE readers == {c \in Conn : At(c, "write") /\ req[c].stream = s}
  <2>1. \A c \in Conn : c \in readers <=> Reads(c, s)
    BY DEF Reads, At
  <2>2. CASE open[s] = "claimed"
    <3>1. PICK c \in Conn : Reads(c, s)
      BY <2>2 DEF IInv, StreamsRead
    <3>2. readers = {c}
      BY <2>1, <3>1 DEF IInv, StreamsRead
    <3>3. Cardinality(readers) = 1
      BY <3>2, FS_Singleton
    <3> QED BY <2>2, <3>3
  <2>3. CASE open[s] # "claimed"
    <3>1. readers = {}
      BY <2>1, <2>3 DEF IInv, StreamsRead
    <3>2. Cardinality(readers) = 0
      BY <3>1, FS_EmptySet
    <3>3. open[s] = "open" => \E c \in Conn : At(c, "result") /\ req[c].stream = s
      BY DEF IInv, StreamsRead, Waits, At
    <3> QED BY <2>3, <3>2, <3>3
  <2> QED BY <2>2, <2>3
<1> QED BY <1>1, Invariant, PTL

-----------------------------------------------------------------------------
(* The memory tier's accounts.  A byte is told by its entry's key, so that *)
(* bytes are counted as a set's members are, and what two entries of       *)
(* different keys take is disjoint.                                        *)

OwnBytes(e) == {e.key} \X (1 .. e.size)
BytesIn(list) == UNION {OwnBytes(list[i]) : i \in DOMAIN list}
Distinct(list) == \A i, j \in DOMAIN list : list[i].key = list[j].key => i = j
Item == [key : Key, age : Nat, left : Int, ttl : Nat \ {0}, torn : BOOLEAN, size : Nat]

Accounted == Distinct(items) /\ bytes = Cardinality(BytesIn(items)) /\ bytes <= MaxBytes

LEMMA ItemSizes == \A list \in Seq(Item) : \A i \in DOMAIN list : list[i].size \in Nat
<1>1. \A e \in Item : e.size \in Nat
  BY DEF Item
<1> QED BY <1>1

LEMMA BytesAre == \A list : Bytes(list) = Cardinality(BytesIn(list))
BY DEF Bytes, BytesIn, OwnBytes

LEMMA OwnBytesFinite ==
  ASSUME NEW e, e.size \in Nat
  PROVE  IsFiniteSet(OwnBytes(e)) /\ Cardinality(OwnBytes(e)) = e.size
<1>1. IsFiniteSet({e.key}) /\ Cardinality({e.key}) = 1
  BY FS_Singleton
<1>2. IsFiniteSet(1 .. e.size) /\ Cardinality(1 .. e.size) = e.size
  BY FS_Interval
<1>3. IsFiniteSet(OwnBytes(e)) /\ Cardinality(OwnBytes(e)) = 1 * e.size
  BY <1>1, <1>2, FS_Product DEF OwnBytes
<1> QED BY <1>3

LEMMA BytesFinite ==
  ASSUME NEW list, IsFiniteSet(DOMAIN list), \A i \in DOMAIN list : list[i].size \in Nat
  PROVE  IsFiniteSet(BytesIn(list)) /\ Cardinality(BytesIn(list)) \in Nat
<1> DEFINE D == DOMAIN list
           f == [i \in D |-> OwnBytes(list[i])]
           T == {OwnBytes(list[i]) : i \in D}
<1>1. f \in Surjection(D, T)
  BY DEF Surjection
<1>2. IsFiniteSet(T)
  BY <1>1, FS_Surjection
<1>3. \A x \in T : IsFiniteSet(x)
  BY OwnBytesFinite
<1>4. IsFiniteSet(UNION T)
  BY <1>2, <1>3, FS_UNION
<1>5. BytesIn(list) = UNION T
  BY DEF BytesIn
<1> QED BY <1>4, <1>5, FS_CardinalityType

LEMMA CardOfTwo ==
  ASSUME NEW S, NEW T, IsFiniteSet(S), IsFiniteSet(T), S \cap T = {}
  PROVE  Cardinality(S \cup T) = Cardinality(S) + Cardinality(T)
<1>1. Cardinality(S \cup T) = Cardinality(S) + Cardinality(T) - Cardinality(S \cap T)
  BY FS_Union
<1>2. Cardinality(S) \in Int /\ Cardinality(T) \in Int
  BY FS_CardinalityType
<1>3. Cardinality(S \cap T) = 0
  BY FS_EmptySet, Zenon
<1> QED BY <1>1, <1>2, <1>3

\* A byte tells its entry's key.
LEMMA BytesTell ==
  /\ \A e : \A b \in OwnBytes(e) : b[1] = e.key
  /\ \A list : \A b \in BytesIn(list) : \E i \in DOMAIN list : b \in OwnBytes(list[i]) /\ b[1] = list[i].key
<1>1. \A e : \A b \in OwnBytes(e) : b[1] = e.key
  BY DEF OwnBytes
<1> QED BY <1>1 DEF BytesIn

\* The two parts of a list.
LEMMA Cut ==
  ASSUME NEW list \in Seq(Item), Distinct(list), NEW n \in 0 .. Len(list)
  PROVE  /\ Distinct(SubSeq(list, 1, n))
         /\ Bytes(list) = Bytes(SubSeq(list, 1, n)) + Bytes(SubSeq(list, n + 1, Len(list)))
         /\ Bytes(SubSeq(list, 1, n)) \in Nat
<1> DEFINE pre == SubSeq(list, 1, n)
           post == SubSeq(list, n + 1, Len(list))
<1>1. Len(list) \in Nat /\ n \in Nat /\ n <= Len(list) /\ DOMAIN list = 1 .. Len(list)
  OBVIOUS
<1>2. pre \in Seq(Item) /\ post \in Seq(Item)
  BY <1>1
<1>3. /\ DOMAIN pre = 1 .. n /\ \A i \in 1 .. n : pre[i] = list[i]
      /\ DOMAIN post = 1 .. Len(list) - n /\ \A i \in 1 .. Len(list) - n : post[i] = list[n + i]
  BY <1>1
<1> HIDE DEF pre, post
<1>4. Distinct(pre)
  BY <1>1, <1>3 DEF Distinct
<1>5. BytesIn(list) = BytesIn(pre) \cup BytesIn(post)
  <2>1. ASSUME NEW i \in DOMAIN list
        PROVE  (\E j \in DOMAIN pre : pre[j] = list[i]) \/ (\E j \in DOMAIN post : post[j] = list[i])
    <3>1. CASE i <= n
      BY <1>1, <1>3, <3>1
    <3>2. CASE i > n
      <4>1. i - n \in DOMAIN post /\ post[i - n] = list[i]
        BY <1>1, <1>3, <3>2
      <4> QED BY <4>1
    <3> QED BY <1>1, <3>1, <3>2
  <2>2. \A j \in DOMAIN pre : j \in DOMAIN list /\ pre[j] = list[j]
    BY <1>1, <1>3
  <2>3. \A j \in DOMAIN post : n + j \in DOMAIN list /\ post[j] = list[n + j]
    BY <1>1, <1>3
  <2> QED BY <2>1, <2>2, <2>3 DEF BytesIn
<1>6. BytesIn(pre) \cap BytesIn(post) = {}
  <2> SUFFICES ASSUME NEW b \in BytesIn(pre), b \in BytesIn(post) PROVE FALSE
    OBVIOUS
  <2>1. PICK i \in DOMAIN pre : b[1] = pre[i].key
    BY BytesTell
  <2>2. PICK j \in DOMAIN post : b[1] = post[j].key
    BY BytesTell
  <2>3. i \in DOMAIN list /\ pre[i] = list[i] /\ i <= n
    BY <1>1, <1>3
  <2>4. j \in 1 .. Len(list) - n /\ post[j] = list[n + j]
    BY <1>3
  <2>5. n + j \in DOMAIN list /\ n + j > n
    BY <1>1, <2>4
  <2>6. list[i].key = list[n + j].key
    BY <2>1, <2>2, <2>3, <2>4
  <2>7. i # n + j
    BY <1>1, <2>3, <2>5
  <2> QED BY <2>3, <2>5, <2>6, <2>7 DEF Distinct
<1>7. ASSUME NEW s \in Seq(Item)
      PROVE  IsFiniteSet(BytesIn(s)) /\ Cardinality(BytesIn(s)) \in Nat
  <2>1. IsFiniteSet(DOMAIN s)
    <3>1. DOMAIN s = 1 .. Len(s) /\ Len(s) \in Nat
      OBVIOUS
    <3> QED BY <3>1, FS_Interval
  <2>2. \A i \in DOMAIN s : s[i].size \in Nat
    BY ItemSizes
  <2> QED BY <2>1, <2>2, BytesFinite
<1>8. Cardinality(BytesIn(list)) = Cardinality(BytesIn(pre)) + Cardinality(BytesIn(post))
  BY <1>2, <1>5, <1>6, <1>7, CardOfTwo
<1> QED BY <1>2, <1>4, <1>7, <1>8, BytesAre DEF pre, post

\* A list with one more entry in front, of another key.
LEMMA InFront ==
  ASSUME NEW list \in Seq(Item), Distinct(list), NEW e \in Item, \A i \in DOMAIN list : list[i].key # e.key
  PROVE  /\ Distinct(<<e>> \o list) /\ <<e>> \o list \in Seq(Item)
         /\ BytesIn(<<e>> \o list) = OwnBytes(e) \cup BytesIn(list)
         /\ Bytes(<<e>> \o list) = e.size + Bytes(list)
<1> DEFINE all == <<e>> \o list
<1>1. Len(list) \in Nat /\ DOMAIN list = 1 .. Len(list)
  OBVIOUS
<1>2. /\ all \in Seq(Item) /\ DOMAIN all = 1 .. Len(list) + 1 /\ all[1] = e
      /\ \A i \in 2 .. Len(list) + 1 : all[i] = list[i - 1]
  BY <1>1
<1> HIDE DEF all
<1>3. Distinct(all)
  <2> SUFFICES ASSUME NEW i \in DOMAIN all, NEW j \in DOMAIN all, all[i].key = all[j].key PROVE i = j
    BY DEF Distinct
  <2>1. CASE i = 1 /\ j = 1
    BY <2>1
  <2>2. CASE i # 1 /\ j # 1
    <3>1. i - 1 \in DOMAIN list /\ j - 1 \in DOMAIN list /\ list[i - 1].key = list[j - 1].key
      BY <1>1, <1>2, <2>2
    <3> QED BY <1>2, <3>1 DEF Distinct
  <2>3. CASE i = 1 /\ j # 1
    <3>1. j - 1 \in DOMAIN list /\ list[j - 1].key = e.key
      BY <1>1, <1>2, <2>3
    <3> QED BY <3>1
  <2>4. CASE i # 1 /\ j = 1
    <3>1. i - 1 \in DOMAIN list /\ list[i - 1].key = e.key
      BY <1>1, <1>2, <2>4
    <3> QED BY <3>1
  <2> QED BY <2>1, <2>2, <2>3, <2>4
<1>4. BytesIn(all) = OwnBytes(e) \cup BytesIn(list)
  <2>1. \A i \in DOMAIN all : all[i] = e \/ \E j \in DOMAIN list : all[i] = list[j]
    BY <1>1, <1>2
  <2>2. \A j \in DOMAIN list : j + 1 \in DOMAIN all /\ all[j + 1] = list[j]
    BY <1>1, <1>2
  <2>3. 1 \in DOMAIN all
    BY <1>1, <1>2
  <2> QED BY <1>2, <2>1, <2>2, <2>3 DEF BytesIn
<1>5. OwnBytes(e) \cap BytesIn(list) = {}
  <2> SUFFICES ASSUME NEW b \in OwnBytes(e), b \in BytesIn(list) PROVE FALSE
    OBVIOUS
  <2> QED BY BytesTell
<1>6. IsFiniteSet(BytesIn(list)) /\ IsFiniteSet(OwnBytes(e)) /\ Cardinality(OwnBytes(e)) = e.size
  <2>1. IsFiniteSet(DOMAIN list)
    BY <1>1, FS_Interval
  <2>2. \A i \in DOMAIN list : list[i].size \in Nat
    BY ItemSizes
  <2>3. e.size \in Nat
    BY DEF Item
  <2> QED BY <2>1, <2>2, <2>3, BytesFinite, OwnBytesFinite
<1>7. Cardinality(BytesIn(all)) = e.size + Cardinality(BytesIn(list))
  BY <1>4, <1>5, <1>6, CardOfTwo
<1> QED BY <1>2, <1>3, <1>4, <1>7, BytesAre DEF all

\* A list without one of its entries.
LEMMA TakenOut ==
  ASSUME NEW list \in Seq(Item), Distinct(list), NEW i \in DOMAIN list
  PROVE  /\ Distinct(RemoveAt(list, i)) /\ RemoveAt(list, i) \in Seq(Item)
         /\ \A j \in DOMAIN RemoveAt(list, i) : RemoveAt(list, i)[j].key # list[i].key
         /\ BytesIn(list) = OwnBytes(list[i]) \cup BytesIn(RemoveAt(list, i))
         /\ Bytes(list) = list[i].size + Bytes(RemoveAt(list, i))
<1> DEFINE rest == RemoveAt(list, i)
<1>1. Len(list) \in Nat /\ DOMAIN list = 1 .. Len(list) /\ i \in 1 .. Len(list)
  OBVIOUS
<1>2. rest \in Seq(Item)
  BY RemoveAtTypes
<1>3. /\ DOMAIN rest = 1 .. Len(list) - 1
      /\ \A j \in 1 .. Len(list) - 1 : rest[j] = IF j < i THEN list[j] ELSE list[j + 1]
  <2> DEFINE pre == SubSeq(list, 1, i - 1)
             post == SubSeq(list, i + 1, Len(list))
  <2>0. i - 1 \in Nat /\ i - 1 <= Len(list)
    BY <1>1
  <2>1. Len(pre) = i - 1
    BY <1>1, <2>0
  <2>2. pre \in Seq(Item) /\ post \in Seq(Item)
    BY <1>1, <2>0
  <2>3. Len(post) = Len(list) - i
    BY <1>1
  <2>4. /\ \A j \in 1 .. i - 1 : pre[j] = list[j]
        /\ \A j \in 1 .. Len(list) - i : post[j] = list[i + j]
    BY <1>1, <2>0
  <2>5. rest = pre \o post
    BY DEF RemoveAt
  <2> HIDE DEF pre, post, rest
  <2>9. Len(rest) = Len(pre) + Len(post)
    BY <2>2, <2>5
  <2>6. DOMAIN rest = 1 .. Len(list) - 1
    <3>1. Len(rest) = Len(list) - 1
      BY <1>1, <2>1, <2>3, <2>9
    <3> QED BY <1>2, <3>1
  <2>7. ASSUME NEW j \in 1 .. Len(list) - 1, j < i PROVE rest[j] = list[j]
    <3>1. rest[j] = pre[j]
      BY <1>1, <2>1, <2>2, <2>5, <2>7
    <3>2. j \in 1 .. i - 1
      BY <1>1, <2>7
    <3> QED BY <2>4, <3>1, <3>2
  <2>8. ASSUME NEW j \in 1 .. Len(list) - 1, ~(j < i) PROVE rest[j] = list[j + 1]
    <3>3. Len(pre) < j /\ j <= Len(pre) + Len(post)
      BY <1>1, <2>1, <2>3, <2>8
    <3>4. rest[j] = post[j - Len(pre)]
      BY <1>1, <2>2, <2>5, <3>3
    <3>1. rest[j] = post[j - (i - 1)]
      BY <2>1, <3>4
    <3>2. j - (i - 1) \in 1 .. Len(list) - i /\ i + (j - (i - 1)) = j + 1
      BY <1>1, <2>8
    <3> QED BY <2>4, <3>1, <3>2
  <2> QED BY <2>6, <2>7, <2>8
<1> HIDE DEF rest
<1> DEFINE place(j) == IF j < i THEN j ELSE j + 1
<1>4. \A j \in DOMAIN rest : place(j) \in DOMAIN list /\ place(j) # i /\ rest[j] = list[place(j)]
  BY <1>1, <1>3
<1>5. \A j \in DOMAIN list \ {i} : \E m \in DOMAIN rest : place(m) = j
  <2> SUFFICES ASSUME NEW j \in DOMAIN list \ {i} PROVE \E m \in DOMAIN rest : place(m) = j
    OBVIOUS
  <2>1. CASE j < i
    <3>1. j \in DOMAIN rest /\ place(j) = j
      BY <1>1, <1>3, <2>1
    <3> QED BY <3>1
  <2>2. CASE j > i
    <3>1. j - 1 \in DOMAIN rest /\ place(j - 1) = j
      BY <1>1, <1>3, <2>2
    <3> QED BY <3>1
  <2> QED BY <1>1, <2>1, <2>2
<1>6. \A j, m \in DOMAIN rest : place(j) = place(m) => j = m
  BY <1>1, <1>3
<1> HIDE DEF place
<1>7. Distinct(rest)
  BY <1>4, <1>6 DEF Distinct
<1>8. \A j \in DOMAIN rest : rest[j].key # list[i].key
  BY <1>4 DEF Distinct
<1>9. BytesIn(list) = OwnBytes(list[i]) \cup BytesIn(rest)
  <2>1. \A j \in DOMAIN list : j = i \/ \E m \in DOMAIN rest : rest[m] = list[j]
    BY <1>4, <1>5
  <2> QED BY <1>4, <2>1 DEF BytesIn
<1>10. OwnBytes(list[i]) \cap BytesIn(rest) = {}
  <2> SUFFICES ASSUME NEW b \in OwnBytes(list[i]), b \in BytesIn(rest) PROVE FALSE
    OBVIOUS
  <2> QED BY <1>8, BytesTell
<1>11. IsFiniteSet(BytesIn(rest)) /\ IsFiniteSet(OwnBytes(list[i])) /\ Cardinality(OwnBytes(list[i])) = list[i].size
  <2>1. IsFiniteSet(DOMAIN rest)
    BY <1>1, <1>3, FS_Interval
  <2>2. (\A j \in DOMAIN rest : rest[j].size \in Nat) /\ list[i].size \in Nat
    BY <1>2, ItemSizes
  <2> QED BY <2>1, <2>2, BytesFinite, OwnBytesFinite
<1>12. Cardinality(BytesIn(list)) = list[i].size + Cardinality(BytesIn(rest))
  BY <1>9, <1>10, <1>11, CardOfTwo
<1> QED BY <1>2, <1>7, <1>8, <1>9, <1>12, BytesAre DEF rest

LEMMA ItemsAre ==
  ASSUME ItemsOK
  PROVE  items \in Seq(Item) /\ Kept \subseteq Item
<1>1. Kept \subseteq Item
  BY DEF Kept, Item
<1> QED BY <1>1 DEF ItemsOK

LEMMA BytesOfItems ==
  ASSUME NEW s \in Seq(Item)
  PROVE  Bytes(s) \in Nat
<1>1. DOMAIN s = 1 .. Len(s) /\ Len(s) \in Nat
  OBVIOUS
<1> QED BY <1>1, FS_Interval, ItemSizes, BytesFinite, BytesAre

\* removeLocked takes out what it counts.
LEMMA RemainingAccounts ==
  ASSUME ItemsOK, Accounted, NEW k \in Key
  PROVE  /\ Remaining(k) \in Seq(Item) /\ Distinct(Remaining(k))
         /\ \A j \in DOMAIN Remaining(k) : Remaining(k)[j].key # k
         /\ BytesWithout(k) = Bytes(Remaining(k)) /\ BytesWithout(k) \in Nat /\ BytesWithout(k) <= bytes
<1> DEFINE places == [i \in PlacesOf(k) |-> items[i]]
<1>1. items \in Seq(Item) /\ Distinct(items) /\ bytes = Bytes(items)
  BY ItemsAre, BytesAre DEF Accounted
<1>2. \A s \in Seq(Item) : Bytes(s) \in Nat
  BY BytesOfItems
<1>3. CASE PlacesOf(k) = {}
  <2>1. Remaining(k) = items
    BY <1>3 DEF Remaining
  <2>2. BytesIn(places) = {}
    BY <1>3 DEF BytesIn
  <2>3. Bytes(places) = 0
    BY <2>2, BytesAre, FS_EmptySet
  <2>4. \A j \in DOMAIN items : items[j].key # k
    BY <1>3 DEF PlacesOf
  <2>5. BytesWithout(k) = bytes
    BY <1>1, <1>2, <2>3 DEF BytesWithout
  <2> QED BY <1>1, <1>2, <2>1, <2>4, <2>5
<1>4. CASE PlacesOf(k) # {}
  <2>1. PICK i : i = CHOOSE j \in PlacesOf(k) : TRUE
    OBVIOUS
  <2>2. i \in DOMAIN items /\ items[i].key = k
    BY <1>4, <2>1 DEF PlacesOf
  <2>3. Remaining(k) = RemoveAt(items, i)
    BY <1>4, <2>1 DEF Remaining
  <2>4. PlacesOf(k) = {i}
    BY <1>1, <2>2 DEF PlacesOf, Distinct
  <2>5. BytesIn(places) = OwnBytes(items[i])
    BY <2>4 DEF BytesIn
  <2>6. Bytes(places) = items[i].size /\ items[i].size \in Nat
    BY <1>1, <2>2, <2>5, ItemSizes, OwnBytesFinite, BytesAre
  <2>7. /\ Distinct(RemoveAt(items, i)) /\ RemoveAt(items, i) \in Seq(Item)
        /\ \A j \in DOMAIN RemoveAt(items, i) : RemoveAt(items, i)[j].key # k
        /\ Bytes(items) = items[i].size + Bytes(RemoveAt(items, i))
    BY <1>1, <2>2, TakenOut
  <2>8. BytesWithout(k) = Bytes(items) - items[i].size
    BY <1>1, <2>6 DEF BytesWithout
  <2>9. Bytes(RemoveAt(items, i)) \in Nat /\ Bytes(items) \in Nat
    BY <1>1, <1>2, <2>7
  <2>10. BytesWithout(k) = Bytes(RemoveAt(items, i)) /\ BytesWithout(k) \in Nat /\ BytesWithout(k) <= Bytes(items)
    BY <2>6, <2>7, <2>8, <2>9
  <2> QED BY <1>1, <2>3, <2>7, <2>10
<1> QED BY <1>3, <1>4

\* What the next state's accounts are made of.
LEMMA AccountsKept ==
  ASSUME NEW list, items' = list, NEW total, bytes' = total,
         Distinct(list), total = Bytes(list), total <= MaxBytes
  PROVE  Accounted'
<1>1. total = Cardinality(BytesIn(list))
  BY BytesAre
<1> QED BY <1>1 DEF Accounted, Distinct, BytesIn, OwnBytes

\* memoryCache.set: what it replaces and evicts is no longer counted, what it adds is.
LEMMA SetMemoryAccounts ==
  ASSUME ItemsOK, Accounted, NEW k \in Key, NEW e \in Found, SetMemory(k, e)
  PROVE  Accounted'
<1> DEFINE item == [key |-> k, age |-> e.age, left |-> e.left, ttl |-> e.ttl, torn |-> e.torn,
                    size |-> e.size + Overhead]
           list == <<item>> \o Remaining(k)
           total == BytesWithout(k) + item.size
           Left(n) == total - Bytes(SubSeq(list, n + 1, Len(list)))
<1>1. CASE UNCHANGED memory
  BY <1>1 DEF memory, Accounted, Distinct, BytesIn, OwnBytes
<1>2. CASE \E n \in 0 .. Len(list) :
               (n = 0 \/ Left(n) <= MaxBytes) /\ items' = SubSeq(list, 1, n) /\ bytes' = Left(n)
  <2>1. item \in Item /\ item.key = k
    BY ProxyCacheAssumption DEF Found, Entries, Item
  <2>2. /\ Remaining(k) \in Seq(Item) /\ Distinct(Remaining(k))
        /\ \A j \in DOMAIN Remaining(k) : Remaining(k)[j].key # k
        /\ BytesWithout(k) = Bytes(Remaining(k)) /\ BytesWithout(k) \in Nat
    BY RemainingAccounts
  <2> HIDE DEF item
  <2>3. Distinct(list) /\ list \in Seq(Item) /\ total = Bytes(list)
    <3>1. item.size \in Nat
      BY <2>1 DEF Item
    <3>2. Distinct(list) /\ list \in Seq(Item) /\ Bytes(list) = item.size + Bytes(Remaining(k))
      BY <2>1, <2>2, InFront
    <3> QED BY <2>2, <3>1, <3>2
  <2> HIDE DEF list, total
  <2>4. PICK n \in 0 .. Len(list) :
            (n = 0 \/ Left(n) <= MaxBytes) /\ items' = SubSeq(list, 1, n) /\ bytes' = Left(n)
    BY <1>2
  <2>5. PICK kept : kept = SubSeq(list, 1, n)
    OBVIOUS
  <2>6. /\ Distinct(kept) /\ Bytes(kept) \in Nat
        /\ Bytes(list) = Bytes(kept) + Bytes(SubSeq(list, n + 1, Len(list)))
    BY <2>3, <2>5, Cut
  <2>7. Bytes(SubSeq(list, n + 1, Len(list))) \in Nat
    <3>1. n \in Nat /\ Len(list) \in Nat
      BY <2>3
    <3>2. SubSeq(list, n + 1, Len(list)) \in Seq(Item)
      BY <2>3, <3>1
    <3> QED BY <3>2, BytesOfItems
  <2>8. Left(n) = Bytes(kept)
    BY <2>3, <2>6, <2>7
  <2>9. Bytes(kept) <= MaxBytes
    <3>1. CASE n = 0
      <4>1. kept = <<>>
        BY <2>3, <2>5, <3>1
      <4>2. BytesIn(kept) = {}
        BY <4>1 DEF BytesIn
      <4>3. Bytes(kept) = 0
        BY <4>2, BytesAre, FS_EmptySet
      <4> QED BY <4>3, ProxyCacheAssumption
    <3> QED BY <2>4, <2>8, <3>1
  <2> HIDE DEF Left
  <2>10. items' = kept /\ bytes' = Bytes(kept)
    BY <2>4, <2>5, <2>8
  <2> QED BY <2>6, <2>9, <2>10, AccountsKept
<1> QED BY <1>1, <1>2 DEF SetMemory, Added

\* memoryCache.get, of an entry past its time and of one it moves to the front.
LEMMA GetMemoryAccounts ==
  ASSUME ItemsOK, Accounted, NEW c \in Conn, req[c].key \in Key, GetMemory(c)
  PROVE  Accounted'
<1> DEFINE k == req[c].key
<1>1. items \in Seq(Item) /\ Distinct(items) /\ bytes = Bytes(items) /\ bytes <= MaxBytes /\ Bytes(items) \in Nat
  BY ItemsAre, BytesAre, BytesOfItems DEF Accounted
<1>2. CASE UNCHANGED memory
  BY <1>2 DEF memory, Accounted, Distinct, BytesIn, OwnBytes
<1>3. CASE Drop(k)
  <2>1. Distinct(Remaining(k)) /\ BytesWithout(k) = Bytes(Remaining(k)) /\ BytesWithout(k) \in Nat
        /\ BytesWithout(k) <= bytes
    BY RemainingAccounts
  <2>2. BytesWithout(k) <= MaxBytes
    BY <1>1, <2>1, ProxyCacheAssumption
  <2>3. items' = Remaining(k) /\ bytes' = BytesWithout(k)
    BY <1>3 DEF Drop
  <2> QED BY <2>1, <2>2, <2>3, AccountsKept
<1>4. CASE \E i \in PlacesOf(k) : Use(i)
  <2>1. PICK i \in DOMAIN items : items' = <<items[i]>> \o RemoveAt(items, i) /\ bytes' = bytes
    BY <1>4 DEF PlacesOf, Use
  <2>2. /\ Distinct(RemoveAt(items, i)) /\ RemoveAt(items, i) \in Seq(Item)
        /\ \A j \in DOMAIN RemoveAt(items, i) : RemoveAt(items, i)[j].key # items[i].key
        /\ Bytes(items) = items[i].size + Bytes(RemoveAt(items, i))
    BY <1>1, TakenOut
  <2>3. items[i] \in Item
    BY <1>1
  <2>4. /\ Distinct(<<items[i]>> \o RemoveAt(items, i))
        /\ Bytes(<<items[i]>> \o RemoveAt(items, i)) = items[i].size + Bytes(RemoveAt(items, i))
    BY <2>2, <2>3, InFront
  <2> QED BY <1>1, <2>1, <2>2, <2>4, AccountsKept
<1> QED BY <1>2, <1>3, <1>4 DEF GetMemory

\* An entry's key and size stay what they are.
LEMMA TickAccounts ==
  ASSUME ItemsOK, Accounted, Tick
  PROVE  Accounted'
<1>1. items \in Seq(Item) /\ Distinct(items) /\ bytes = Bytes(items) /\ bytes <= MaxBytes
  BY ItemsAre, BytesAre DEF Accounted
<1>2. PICK list : list = [i \in DOMAIN items |-> Older(items[i])]
  OBVIOUS
<1>3. items' = list /\ bytes' = bytes
  BY <1>2 DEF Tick
<1>4. \A e \in Item : Older(e).key = e.key /\ Older(e).size = e.size
  BY DEF Older, Item
<1>5. DOMAIN list = DOMAIN items /\ \A i \in DOMAIN items : list[i].key = items[i].key /\ list[i].size = items[i].size
  BY <1>1, <1>2, <1>4
<1>6. Distinct(list)
  BY <1>1, <1>5 DEF Distinct
<1>7. BytesIn(list) = BytesIn(items)
  <2>1. \A i \in DOMAIN items : OwnBytes(list[i]) = OwnBytes(items[i])
    BY <1>5 DEF OwnBytes
  <2> QED BY <1>5, <2>1 DEF BytesIn
<1>8. Bytes(list) = Bytes(items)
  BY <1>7, BytesAre
<1> QED BY <1>1, <1>3, <1>6, <1>8, AccountsKept

LEMMA AccountedStep ==
  ASSUME IInv, Accounted, [Next]_vars
  PROVE  Accounted'
<1>1. RequestsOK /\ ItemsOK
  BY DEF IInv, Types
<1>2. ASSUME UNCHANGED memory PROVE Accounted'
  BY <1>2 DEF memory, Accounted, Distinct, BytesIn, OwnBytes
<1>3. CASE UNCHANGED vars
  BY <1>2, <1>3 DEF vars, memory
<1>4. CASE \E c \in Conn : \/ Arrive(c) \/ GetRedis(c) \/ ReadTTL(c) \/ AnswerHit(c) \/ JoinCall(c) \/ Fetch(c)
                           \/ TakeResult(c) \/ Refetch(c) \/ WriteStream(c) \/ Store(c)
  BY <1>2, <1>4 DEF Arrive, GetRedis, ReadTTL, AnswerHit, JoinCall, Fetch, TakeResult, Refetch, WriteStream, Store
<1>5. CASE StoreElsewhere
  BY <1>2, <1>5 DEF StoreElsewhere
<1>6. CASE Tick
  BY <1>1, <1>6, TickAccounts
<1>7. ASSUME NEW c \in Conn, GetMemory(c) PROVE Accounted'
  <2>1. req[c] \in Looking
    BY <1>1, <1>7, Shapes DEF GetMemory, At
  <2>2. req[c].key \in Key
    BY <2>1 DEF Looking
  <2> QED BY <1>1, <1>7, <2>2, GetMemoryAccounts
<1>8. ASSUME NEW c \in Conn, SaveMemory(c) PROVE Accounted'
  <2>1. req[c] \in Copying
    BY <1>1, <1>8, Shapes DEF SaveMemory, At
  <2>2. req[c].key \in Key /\ req[c].entry \in Found
    BY <2>1 DEF Copying
  <2> QED BY <1>1, <1>8, <2>2, SetMemoryAccounts DEF SaveMemory
<1>9. ASSUME NEW c \in Conn, Mirror(c) PROVE Accounted'
  <2>1. req[c] \in Answered
    BY <1>1, <1>9, Shapes DEF Mirror, At
  <2>2. req[c].key \in Key /\ Entry(req[c].answer) \in Found
    BY <2>1, AnswerTypes DEF Answered, Stored
  <2> QED BY <1>1, <1>9, <2>2, SetMemoryAccounts DEF Mirror
<1> QED BY <1>3, <1>4, <1>5, <1>6, <1>7, <1>8, <1>9 DEF Next

\* Whatever is set, replaced, dropped as expired and evicted: no key is in memory twice, the byte count is
\* what the entries take, and it is within the budget (memoryCache.set, get and removeLocked).
THEOREM MemoryAlwaysFits == Spec => []MemoryFits
<1>1. Init => Accounted
  <2> SUFFICES ASSUME Init PROVE Accounted
    OBVIOUS
  <2>1. BytesIn(items) = {}
    BY DEF Init, BytesIn
  <2>2. bytes = Cardinality(BytesIn(items)) /\ bytes <= MaxBytes
    <3>1. MaxBytes \in Nat
      BY ProxyCacheAssumption
    <3>2. Cardinality(BytesIn(items)) = 0
      BY <2>1, FS_EmptySet
    <3> QED BY <3>1, <3>2 DEF Init
  <2> QED BY <2>2 DEF Init, Accounted, Distinct
<1>2. IInv /\ Accounted /\ [Next]_vars => Accounted'
  BY AccountedStep
<1>3. Accounted => MemoryFits
  BY BytesAre DEF Accounted, MemoryFits, Distinct
<1> QED BY <1>1, <1>2, <1>3, Invariant, PTL DEF Spec

=============================================================================
