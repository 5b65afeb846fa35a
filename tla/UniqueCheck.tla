----------------------------- MODULE UniqueCheck -----------------------------
(***************************************************************************)
(* What the control plane's uniqueness checks promise.  No collection has  *)
(* a unique index: a request looks for a document with the name it wants   *)
(* and, finding none, writes later.  Names are therefore not unique, but   *)
(* they are not arbitrary either.  The modules of the control plane are    *)
(* shown to implement this one for package aliases, links, base paths,     *)
(* source aliases and the email addresses of users.                        *)
(***************************************************************************)
EXTENDS Integers, FiniteSets

CONSTANTS
    Key,     \* names that ought to be unique
    Doc,     \* documents, there or not
    Writer,  \* requests handled at the same time
    None     \* the name of a document that is not there

\* What the theorem needs of the constants.
UniqueCheckAssumption ==
    /\ None \notin Key
    /\ IsFiniteSet(Writer) /\ Writer # {}

VARIABLES
    name,   \* the name of each document
    claim,  \* what each request will write: names for documents, each name once
    blind   \* look-ups that failed, and that their request took for "not found"
vars == <<name, claim, blind>>

Named(k) == {d \in Doc : name[d] = k}
Claims(w, k) == {c \in claim[w] : c[2] = k}
Claimed(k) == {c[1] : c \in UNION {Claims(w, k) : w \in Writer}}

Init ==
    /\ name \in [Doc -> Key \cup {None}]
    /\ \A d, e \in Doc : name[d] = name[e] /\ name[d] # None => d = e
    /\ claim = [w \in Writer |-> {}]
    /\ blind = 0

ClaimsToo(w, d, K) ==
    /\ \A k \in K : Claims(w, k) = {}
    /\ claim' = [claim EXCEPT ![w] = @ \cup ({d} \X K)]

\* Nobody has the names, or the document itself does.
Look(w, d, K) ==
    /\ \A k \in K : Named(k) = {} \/ name[d] = k
    /\ ClaimsToo(w, d, K)
    /\ UNCHANGED <<name, blind>>

LookFails(w, d, K) ==
    /\ blind' = blind + 1
    /\ ClaimsToo(w, d, K)
    /\ UNCHANGED name

KeepsSome(w) == \E C \in SUBSET claim[w] : claim' = [claim EXCEPT ![w] = C]

\* A claim that is kept may be written once more, when the request rolls back.
Write(w, c) ==
    /\ name' = [name EXCEPT ![c[1]] = c[2]]
    /\ KeepsSome(w)
    /\ UNCHANGED blind

\* The request fails, or the document it would update is gone.
GiveUp(w) ==
    /\ KeepsSome(w)
    /\ UNCHANGED <<name, blind>>

Free(D) ==
    /\ name' = [d \in Doc |-> IF d \in D THEN None ELSE name[d]]
    /\ UNCHANGED <<claim, blind>>

Next ==
    \/ \E w \in Writer, d \in Doc, K \in SUBSET Key : Look(w, d, K) \/ LookFails(w, d, K)
    \/ \E w \in Writer : GiveUp(w) \/ \E c \in claim[w] : Write(w, c)
    \/ \E D \in SUBSET Doc : Free(D)

Spec == Init /\ [][Next]_vars

\* A name has at most as many documents as there are requests at the same time, and one more for
\* each look-up that failed: with one request and no failure, names are unique.
AtMostWriters ==
    \A k \in Key : Cardinality(Named(k) \cup Claimed(k)) <= Cardinality(Writer) + blind
=============================================================================
