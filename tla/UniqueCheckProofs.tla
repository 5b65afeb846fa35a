-------------------------- MODULE UniqueCheckProofs --------------------------
(***************************************************************************)
(* A check before the write leaves a name with at most as many documents   *)
(* as there are requests at a time, and one more for each failed look-up.  *)
(* The bound is inductive for the documents that have the name or are      *)
(* about to get it.                                                        *)
(***************************************************************************)
EXTENDS UniqueCheck, FiniteSetTheorems, FunctionTheorems, TLAPS

Holders(k) == Named(k) \cup Claimed(k)

TypeOK ==
    /\ name \in [Doc -> Key \cup {None}]
    /\ claim \in [Writer -> SUBSET (Doc \X Key)]
    /\ blind \in Nat

\* A request claims each name for one document at most.
OneEach == \A w \in Writer, k \in Key : \A c, e \in Claims(w, k) : c = e

Bounded(k) ==
    /\ IsFiniteSet(Holders(k))
    /\ Cardinality(Holders(k)) <= Cardinality(Writer) + blind

IInv == TypeOK /\ OneEach /\ \A k \in Key : Bounded(k)

-----------------------------------------------------------------------------
\* There are no more claims of a name than requests.
LEMMA ClaimedAtMost ==
    ASSUME UniqueCheckAssumption, NEW cl \in [Writer -> SUBSET (Doc \X Key)], NEW k \in Key,
           \A w \in Writer : \A c, e \in {x \in cl[w] : x[2] = k} : c = e
    PROVE  LET C == {c[1] : c \in UNION {{x \in cl[w] : x[2] = k} : w \in Writer}} IN
           IsFiniteSet(C) /\ Cardinality(C) <= Cardinality(Writer)
<1> DEFINE Own(w) == {x \in cl[w] : x[2] = k}
           C == {c[1] : c \in UNION {Own(w) : w \in Writer}}
           W == {w \in Writer : Own(w) # {}}
           f == [w \in W |-> (CHOOSE c \in Own(w) : TRUE)[1]]
<1>1. IsFiniteSet(W) /\ Cardinality(W) <= Cardinality(Writer)
  BY FS_Subset DEF UniqueCheckAssumption
<1>2. \A w \in W : (CHOOSE c \in Own(w) : TRUE) \in Own(w)
  OBVIOUS
<1>3. f \in [W -> C]
  <2> HIDE DEF Own
  <2> QED BY <1>2
<1>4. \A d \in C : \E w \in W : f[w] = d
  <2> SUFFICES ASSUME NEW d \in C PROVE \E w \in W : f[w] = d
    OBVIOUS
  <2>1. PICK w \in Writer : \E c \in Own(w) : c[1] = d
    OBVIOUS
  <2>2. PICK c \in Own(w) : c[1] = d
    BY <2>1
  <2>3. w \in W
    BY <2>2
  <2>4. (CHOOSE e \in Own(w) : TRUE) = c
    BY <1>2, <2>2, <2>3
  <2> QED BY <2>2, <2>3, <2>4
<1>5. f \in Surjection(W, C)
  BY <1>3, <1>4 DEF Surjection
<1> HIDE DEF W, f, C
<1>6. IsFiniteSet(C) /\ Cardinality(C) <= Cardinality(W)
  BY <1>1, <1>5, FS_Surjection
<1>7. Cardinality(C) \in Nat /\ Cardinality(W) \in Nat /\ Cardinality(Writer) \in Nat
  BY <1>1, <1>6, FS_CardinalityType DEF UniqueCheckAssumption
<1>8. IsFiniteSet(C) /\ Cardinality(C) <= Cardinality(Writer)
  BY <1>1, <1>6, <1>7
<1> QED BY <1>8 DEF C

\* Fewer holders, and no fewer failures, keep the bound.
LEMMA FewerBounded ==
    ASSUME NEW S, NEW T \in SUBSET S, NEW n \in Nat, NEW b \in Nat, NEW c \in Nat, b <= c,
           IsFiniteSet(S), Cardinality(S) <= n + b
    PROVE  IsFiniteSet(T) /\ Cardinality(T) <= n + c
BY FS_Subset, FS_CardinalityType

\* One holder more is paid for by one failure more.
LEMMA OneMoreBounded ==
    ASSUME NEW S, NEW d, NEW T \in SUBSET (S \cup {d}), NEW n \in Nat, NEW b \in Nat,
           IsFiniteSet(S), Cardinality(S) <= n + b
    PROVE  IsFiniteSet(T) /\ Cardinality(T) <= n + (b + 1)
<1>0. /\ IsFiniteSet(S \cup {d})
      /\ Cardinality(S \cup {d}) = IF d \in S THEN Cardinality(S) ELSE Cardinality(S) + 1
      /\ Cardinality(S) \in Nat
  BY FS_AddElement, FS_CardinalityType
<1>1. IsFiniteSet(S \cup {d}) /\ Cardinality(S \cup {d}) <= Cardinality(S) + 1
  BY <1>0
<1>2. Cardinality(S \cup {d}) <= n + (b + 1)
  BY <1>1, FS_CardinalityType
<1> QED BY <1>1, <1>2, FS_Subset, FS_CardinalityType

LEMMA WritersNat ==
    ASSUME UniqueCheckAssumption
    PROVE  Cardinality(Writer) \in Nat
BY FS_CardinalityType DEF UniqueCheckAssumption

-----------------------------------------------------------------------------
LEMMA InitInv ==
    ASSUME UniqueCheckAssumption, Init
    PROVE  IInv
<1>1. TypeOK /\ OneEach
  BY DEF Init, TypeOK, OneEach, Claims
<1>2. ASSUME NEW k \in Key PROVE Bounded(k)
  <2>1. Claimed(k) = {}
    BY DEF Init, Claimed, Claims
  <2>2. \A d, e \in Holders(k) : d = e
    BY <2>1 DEF Init, Holders, Named, UniqueCheckAssumption
  <2>3. PICK d : Holders(k) \subseteq {d}
    BY <2>2
  <2>4. IsFiniteSet({d}) /\ Cardinality({d}) = 1
    BY FS_Singleton
  <2>5. IsFiniteSet(Holders(k)) /\ Cardinality(Holders(k)) <= 1
    BY <2>3, <2>4, FS_Subset
  <2>6. Cardinality(Writer) # 0
    BY FS_EmptySet DEF UniqueCheckAssumption
  <2>7. Cardinality(Holders(k)) \in Nat
    BY <2>5, FS_CardinalityType
  <2> QED BY <2>5, <2>6, <2>7, WritersNat DEF Bounded, Init
<1> QED BY <1>1, <1>2 DEF IInv

\* Requests claim one name for one document, whatever they do.
LEMMA NextTypes == IInv /\ [Next]_vars => TypeOK' /\ OneEach'
<1> SUFFICES ASSUME IInv, [Next]_vars PROVE TypeOK' /\ OneEach'
  OBVIOUS
<1> USE DEF IInv
<1>1. ASSUME NEW w \in Writer, NEW d \in Doc, NEW K \in SUBSET Key, ClaimsToo(w, d, K)
      PROVE  claim' \in [Writer -> SUBSET (Doc \X Key)] /\ OneEach'
  <2>1. claim' \in [Writer -> SUBSET (Doc \X Key)]
    BY <1>1 DEF ClaimsToo, TypeOK
  <2>2. ASSUME NEW v \in Writer, NEW k \in Key, NEW c \in Claims(v, k)', NEW e \in Claims(v, k)'
        PROVE  c = e
    <3>1. CASE v # w
      BY <1>1, <3>1, <2>2 DEF ClaimsToo, TypeOK, OneEach, Claims
    <3>2. CASE v = w /\ k \in K
      <4>1. Claims(w, k)' = {<<d, k>>}
        BY <1>1, <3>2 DEF ClaimsToo, TypeOK, Claims
      <4> QED BY <4>1, <3>2, <2>2
    <3>3. CASE v = w /\ k \notin K
      <4>1. Claims(w, k)' = Claims(w, k)
        BY <1>1, <3>3 DEF ClaimsToo, TypeOK, Claims
      <4> QED BY <4>1, <3>3, <2>2 DEF OneEach
    <3> QED BY <3>1, <3>2, <3>3
  <2> QED BY <2>1, <2>2 DEF OneEach
<1>2. ASSUME NEW w \in Writer, KeepsSome(w)
      PROVE  claim' \in [Writer -> SUBSET (Doc \X Key)] /\ OneEach'
  BY <1>2 DEF KeepsSome, TypeOK, OneEach, Claims
<1>3. ASSUME claim' = claim PROVE OneEach'
  BY <1>3 DEF OneEach, Claims
<1>4. CASE \E w \in Writer, d \in Doc, K \in SUBSET Key : Look(w, d, K) \/ LookFails(w, d, K)
  BY <1>1, <1>4 DEF Look, LookFails, TypeOK
<1>5. CASE \E w \in Writer : GiveUp(w)
  BY <1>2, <1>5 DEF GiveUp, TypeOK
<1>6. ASSUME NEW w \in Writer, NEW c \in claim[w], Write(w, c)
      PROVE  TypeOK' /\ OneEach'
  <2>1. c \in Doc \X Key
    BY <1>6 DEF TypeOK
  <2> QED BY <1>2, <1>6, <2>1 DEF Write, TypeOK
<1>7. CASE \E D \in SUBSET Doc : Free(D)
  BY <1>3, <1>7 DEF Free, TypeOK
<1>8. CASE UNCHANGED vars
  BY <1>3, <1>8 DEF vars, TypeOK
<1> QED BY <1>4, <1>5, <1>6, <1>7, <1>8 DEF Next

\* A step adds a holder of a name only when it has none but claims, or pays with a failed look-up.
LEMMA NextBounded ==
    ASSUME UniqueCheckAssumption, IInv, [Next]_vars, TypeOK', OneEach', NEW k \in Key
    PROVE  Bounded(k)'
<1>1. /\ IsFiniteSet(Holders(k)) /\ Cardinality(Holders(k)) <= Cardinality(Writer) + blind
      /\ blind \in Nat /\ blind' \in Nat
  BY DEF IInv, Bounded, TypeOK
<1>2. ASSUME Holders(k)' \subseteq Holders(k), blind <= blind' PROVE Bounded(k)'
  BY <1>1, <1>2, WritersNat, FewerBounded DEF Bounded
<1>3. ASSUME NEW d, Holders(k)' \subseteq Holders(k) \cup {d}, blind' = blind + 1 PROVE Bounded(k)'
  BY <1>1, <1>3, WritersNat, OneMoreBounded DEF Bounded
<1>4. ASSUME Named(k)' = {} PROVE Bounded(k)'
  <2>1. IsFiniteSet(Claimed(k)') /\ Cardinality(Claimed(k)') <= Cardinality(Writer)
    <3>1. claim' \in [Writer -> SUBSET (Doc \X Key)]
      BY DEF TypeOK
    <3>2. \A w \in Writer : \A c, e \in {x \in claim'[w] : x[2] = k} : c = e
      BY DEF OneEach, Claims
    <3> QED BY <3>1, <3>2, ClaimedAtMost DEF Claimed, Claims
  <2>2. Holders(k)' = Claimed(k)'
    BY <1>4 DEF Holders
  <2>3. Cardinality(Claimed(k)') \in Nat
    BY <2>1, FS_CardinalityType
  <2> QED BY <1>1, <2>1, <2>2, <2>3, WritersNat DEF Bounded
<1>5. ASSUME NEW w \in Writer, NEW d \in Doc, NEW K \in SUBSET Key, ClaimsToo(w, d, K)
      PROVE  Claimed(k)' \subseteq IF k \in K THEN Claimed(k) \cup {d} ELSE Claimed(k)
  BY <1>5 DEF ClaimsToo, Claimed, Claims, IInv, TypeOK
<1>6. ASSUME NEW w \in Writer, KeepsSome(w) PROVE Claimed(k)' \subseteq Claimed(k)
  BY <1>6 DEF KeepsSome, Claimed, Claims, IInv, TypeOK
<1>7. ASSUME NEW w \in Writer, NEW d \in Doc, NEW K \in SUBSET Key, Look(w, d, K) PROVE Bounded(k)'
  <2>1. Named(k)' = Named(k) /\ blind' = blind
    BY <1>7 DEF Look, Named
  <2>2. CASE k \notin K
    BY <2>1, <2>2, <1>1, <1>2, <1>5, <1>7 DEF Look, Holders
  <2>3. CASE k \in K /\ Named(k) = {}
    BY <2>1, <2>3, <1>4
  <2>4. CASE k \in K /\ name[d] = k
    BY <2>1, <2>4, <1>1, <1>2, <1>5, <1>7 DEF Look, Holders, Named
  <2> QED BY <2>2, <2>3, <2>4, <1>7 DEF Look
<1>8. ASSUME NEW w \in Writer, NEW d \in Doc, NEW K \in SUBSET Key, LookFails(w, d, K)
      PROVE  Bounded(k)'
  <2>1. Named(k)' = Named(k) /\ blind' = blind + 1
    BY <1>8 DEF LookFails, Named
  <2>2. Holders(k)' \subseteq Holders(k) \cup {d}
    BY <2>1, <1>5, <1>8 DEF LookFails, Holders
  <2> QED BY <2>1, <2>2, <1>3
<1>9. ASSUME NEW w \in Writer, NEW c \in claim[w], Write(w, c) PROVE Bounded(k)'
  <2>1. c \in Doc \X Key
    BY <1>9 DEF IInv, TypeOK
  <2>2. Named(k)' \subseteq IF c[2] = k THEN Named(k) \cup {c[1]} ELSE Named(k)
    BY <1>9, <2>1 DEF Write, Named, IInv, TypeOK
  <2>3. c[2] = k => c[1] \in Claimed(k)
    BY <1>9 DEF Claimed, Claims
  <2>4. Holders(k)' \subseteq Holders(k)
    BY <2>2, <2>3, <1>6, <1>9 DEF Write, Holders
  <2> QED BY <2>4, <1>1, <1>2, <1>9 DEF Write
<1>10. ASSUME NEW w \in Writer, GiveUp(w) PROVE Bounded(k)'
  <2>1. Holders(k)' \subseteq Holders(k)
    BY <1>6, <1>10 DEF GiveUp, Holders, Named
  <2> QED BY <2>1, <1>1, <1>2, <1>10 DEF GiveUp
<1>11. ASSUME NEW D \in SUBSET Doc, Free(D) PROVE Bounded(k)'
  <2>1. Named(k)' \subseteq Named(k)
    BY <1>11 DEF Free, Named, UniqueCheckAssumption
  <2>2. Claimed(k)' = Claimed(k)
    BY <1>11 DEF Free, Claimed, Claims
  <2> QED BY <2>1, <2>2, <1>1, <1>2, <1>11 DEF Free, Holders
<1>12. CASE UNCHANGED vars
  <2>1. Holders(k)' = Holders(k) /\ blind' = blind
    BY <1>12 DEF vars, Holders, Named, Claimed, Claims
  <2> QED BY <2>1, <1>1, <1>2
<1> QED BY <1>7, <1>8, <1>9, <1>10, <1>11, <1>12 DEF Next

\* However many documents, names and requests there are: a name has at most as many documents as
\* requests run at a time, and one more for each look-up that failed (what the look-ups in the Create
\* and Update of packages, links, services and sources are worth without a unique index).
THEOREM AtMostWritersHold ==
    ASSUME UniqueCheckAssumption
    PROVE  Spec => []AtMostWriters
<1>0. Init => IInv
  BY InitInv
<1>1. IInv /\ [Next]_vars => IInv'
  BY NextTypes, NextBounded DEF IInv
<1>2. IInv => AtMostWriters
  BY DEF IInv, Bounded, Holders, AtMostWriters
<1> QED BY <1>0, <1>1, <1>2, PTL DEF Spec
=============================================================================
