---------------------------- MODULE LogDelivery ----------------------------
(***************************************************************************)
(* What the Redis log stream and the control plane's consumer promise      *)
(* together, without consumers, batches, acknowledgements or failures:     *)
(* every published entry stays owed until the document it carries is       *)
(* saved.  It may be written off only when it is not among the Retention   *)
(* newest entries, and an undecodable body (Garbage) is never saved.       *)
(***************************************************************************)
EXTENDS Integers, Sequences

CONSTANTS Log,       \* the access logs the gateways emit
          Garbage,   \* those whose body the consumer cannot decode
          Retention  \* how many of the newest entries are never written off

VARIABLES published, \* every entry ever added; an entry's id is its position
          owed,      \* ids of the entries not settled yet
          saved      \* logs the access log collection holds

vars == <<published, owed, saved>>

Init == published = <<>> /\ owed = {} /\ saved = {}

\* Adding an entry may write off entries the stream no longer retains.
Publish(l, D) ==
    /\ D \subseteq 1 .. (Len(published) + 1 - Retention)
    /\ published' = Append(published, l)
    /\ owed' = (owed \cup {Len(published) + 1}) \ D
    /\ UNCHANGED saved

Save(S) ==
    /\ \A l \in S : l \notin Garbage /\ \E i \in owed : published[i] = l
    /\ saved' = saved \cup S
    /\ UNCHANGED <<published, owed>>

\* An entry stops being owed once its document is saved.
Settle(D) ==
    /\ D \subseteq owed
    /\ \A i \in D : published[i] \in saved \cup Garbage
    /\ owed' = owed \ D
    /\ UNCHANGED <<published, saved>>

WriteOff(D) ==
    /\ D \subseteq owed \cap (1 .. (Len(published) - Retention))
    /\ owed' = owed \ D
    /\ UNCHANGED <<published, saved>>

Next ==
    \/ \E l \in Log, D \in SUBSET owed : Publish(l, D)
    \/ \E S \in SUBSET Log : Save(S)
    \/ \E D \in SUBSET owed : Settle(D) \/ WriteOff(D)

Spec == Init /\ [][Next]_vars
=============================================================================
