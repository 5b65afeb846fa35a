--------------------------- MODULE RouteSyncProofs ---------------------------
(***************************************************************************)
(* Proofs that RouteSync keeps its types, that a running gateway's lists   *)
(* never go back, that no answer empties its routes or sources, and that   *)
(* the snapshot ends as the lists, for any items, handlers, gateways and   *)
(* bounds; and that the trie a gateway builds from the list of services    *)
(* finds a request's best resource, for any paths and requests.  A trie    *)
(* holds what was inserted in it, in whatever order; and the search is     *)
(* right at a node if it is at those one edge below.                       *)
(***************************************************************************)
EXTENDS RouteSync, PathTrie, SequenceTheorems, FiniteSetTheorems, WellFoundedInduction, TLAPS

Answered(g, c) == flight[g][c].at \in {"clear", "fill", "swap"}

\* singleflight: one caller of a gateway leads at a time.
OneFlight ==
    \A g \in Gateway : \A c, d \in Caller :
        flight[g][c].at # "none" /\ flight[g][d].at # "none" => c = d

\* A gateway that loads the snapshot has no lists from the control plane and does not sync.
LoadsFirst ==
    \A g \in Gateway : phase[g] \in {"sources", "services"} =>
        /\ \A k \in Kind : table[g][k].edits = 0
        /\ \A c \in Caller : flight[g][c].at = "none"

\* What is in a table was read from MongoDB.
TableWasRead == \A g \in Gateway, k \in Kind : table[g][k].edits <= list[k].edits

\* An answer that is being applied is no older than the table it replaces.
AnswerIsNewer ==
    \A g \in Gateway, c \in Caller : Answered(g, c) =>
        LET f == flight[g][c] IN
        /\ table[g][f.kind].edits <= f.got.edits
        /\ f.got.edits <= list[f.kind].edits
        /\ f.kind \in Saved => f.got.items # NoItems

IInv == TypeOK /\ OneFlight /\ LoadsFirst /\ TableWasRead /\ AnswerIsNewer

-----------------------------------------------------------------------------
(* Types.                                                                  *)

\* The constant lists and flights have their types.
LEMMA ConstantTypes ==
    /\ NoItems \in Items /\ NoList \in List /\ FirstList \in List /\ NoFlight \in Flight
    /\ \A k \in Kind : Fetching(k) \in Flight
    /\ \A k \in Saved : NextKind[k] \in Kind /\ k \in Kind
    /\ Items \subseteq SavedItems /\ NoItems \in SavedItems
    /\ List \subseteq Table /\ NoList \in Table /\ FirstList \in Table
<1>1. NoItems \in Items /\ NoList \in List /\ FirstList \in List
  BY DEF NoItems, NoList, FirstList, Items, List
<1>2. "sources" \in Kind /\ \A k \in Saved : NextKind[k] \in Kind /\ k \in Kind
  BY DEF Kind, Saved, NextKind
<1>3. NoFlight \in Flight /\ \A k \in Kind : Fetching(k) \in Flight
  BY <1>1, <1>2 DEF NoFlight, Fetching, Flight
<1>4. Items \subseteq SavedItems /\ List \subseteq Table
  BY DEF Items, SavedItems, List, Table
<1> QED
  BY <1>1, <1>2, <1>3, <1>4

\* DoSync (hybrid.go) keeps the types of what it writes.
LEMMA DoSyncTypes ==
  ASSUME TypeOK, NEW g \in Gateway, NEW c \in Caller, DoSync(g, c)
  PROVE  /\ flight' \in [Gateway -> [Caller -> Flight]]
         /\ joined' \in [Gateway -> SUBSET Caller]
<1>1. Fetching("sources") \in Flight
  BY ConstantTypes DEF Kind
<1>2. /\ flight \in [Gateway -> [Caller -> Flight]]
      /\ joined \in [Gateway -> SUBSET Caller]
  BY DEF TypeOK
<1>3. CASE UNCHANGED flight /\ joined' = [joined EXCEPT ![g] = @ \cup {c}]
  BY <1>2, <1>3
<1>4. CASE UNCHANGED joined /\ flight' = [flight EXCEPT ![g][c] = Fetching("sources")]
  BY <1>1, <1>2, <1>4
<1> QED
  BY <1>3, <1>4 DEF DoSync

\* So does the end of a list's sync.
LEMMA AdvanceTypes ==
  ASSUME TypeOK, NEW g \in Gateway, NEW c \in Caller, Advance(g, c)
  PROVE  /\ flight' \in [Gateway -> [Caller -> Flight]]
         /\ joined' \in [Gateway -> SUBSET Caller]
         /\ phase' \in [Gateway -> {"sources", "services", "first", "running"}]
<1>1. /\ flight \in [Gateway -> [Caller -> Flight]]
      /\ joined \in [Gateway -> SUBSET Caller]
      /\ phase \in [Gateway -> {"sources", "services", "first", "running"}]
  BY DEF TypeOK
<1>2. CASE flight[g][c].kind \in Saved /\ UNCHANGED <<joined, phase>>
           /\ flight' = [flight EXCEPT ![g][c] = Fetching(NextKind[flight[g][c].kind])]
  <2>1. Fetching(NextKind[flight[g][c].kind]) \in Flight
    BY <1>2, ConstantTypes
  <2> QED
    BY <1>1, <1>2, <2>1
<1>3. CASE /\ flight' = [flight EXCEPT ![g][c] = NoFlight]
           /\ joined' = [joined EXCEPT ![g] = {}]
           /\ phase' = [phase EXCEPT ![g] = "running"]
  BY <1>1, <1>3, ConstantTypes
<1> QED
  BY <1>2, <1>3 DEF Advance
\* A row of the snapshot is replaced by one of its kind.
LEMMA RowTypes ==
  ASSUME NEW s \in Snapshots, NEW k, NEW row \in SavedItems, k = "sources" => row \in Items
  PROVE  [s EXCEPT ![k] = row] \in Snapshots
<1>1. s \in [Saved -> SavedItems] /\ s["sources"] \in Items /\ "sources" \in Saved
  BY DEF Snapshots, Saved
<1>2. [s EXCEPT ![k] = row] \in [Saved -> SavedItems]
  BY <1>1
<1>3. [s EXCEPT ![k] = row]["sources"] \in Items
  BY <1>1
<1> QED BY <1>2, <1>3 DEF Snapshots

LEMMA InitTypes == Init => TypeOK
<1> SUFFICES ASSUME Init PROVE TypeOK
  OBVIOUS
<1>1. FirstList.items \in Items /\ FirstList.items \in SavedItems /\ FirstList \in Table
  BY ConstantTypes DEF List
<1>2. /\ list \in [Kind -> List] /\ snapshot \in [Saved -> SavedItems]
      /\ table \in [Gateway -> [Kind -> Table]]
      /\ etag \in [Gateway -> [Kind -> Seq(Items)]]
      /\ flight \in [Gateway -> [Caller -> Flight]]
  BY <1>1, ConstantTypes DEF Init
<1>3. snapshot \in Snapshots
  BY <1>1, <1>2 DEF Init, Snapshots, Saved
<1> QED
  BY <1>2, <1>3 DEF Init, TypeOK

\* What is told of a document.
LEMMA ToTellTypes ==
  ASSUME TypeOK, NEW k \in Kind, NEW i \in Item, NEW deleted \in BOOLEAN
  PROVE  /\ Edited(k, i, deleted) \in List
         /\ ToTell(k, i, deleted) \in Entry
<1>1. list[k] \in List /\ list[k].edits \in Nat /\ list[k].items \in Items
  BY DEF TypeOK, List
<1>2. Edited(k, i, deleted) \in List
  BY <1>1 DEF Edited, List, Items
<1>3. Edited(k, i, deleted).items[i] \in Nat
  BY <1>2 DEF List, Items
<1> QED
  BY <1>2, <1>3 DEF ToTell, Entry

LEMMA SnapshotTypes ==
  ASSUME TypeOK, NEW o \in Entry, o.revision # Unread
  PROVE  SnapshotWith(o) \in Snapshots
<1>1. o.item \in Item /\ o.revision \in Nat /\ snapshot \in Snapshots
  BY DEF TypeOK, Entry, Snapshots
<1> QED
  BY <1>1 DEF SnapshotWith, Told, SavedItems, Snapshots, Items, Saved

\* Every step keeps the types, an action at a time.
LEMMA TypeStep == TypeOK /\ [Next]_vars => TypeOK'
<1> SUFFICES ASSUME TypeOK, [Next]_vars PROVE TypeOK'
  OBVIOUS
<1> USE DEF configVars, syncVars
<1>1. ASSUME NEW h \in Handler, NEW k \in Kind, NEW i \in Item, NEW deleted \in BOOLEAN,
             Write(h, k, i, deleted)
      PROVE  TypeOK'
  <2>1. Edited(k, i, deleted) \in List /\ ToTell(k, i, deleted) \in Entry
    BY ToTellTypes
  <2>2. list' \in [Kind -> List] /\ owed' \in [Handler -> SUBSET Entry]
    BY <1>1, <2>1 DEF Write, TypeOK
  <2> QED
    BY <1>1, <2>2 DEF Write, TypeOK
<1>2. ASSUME NEW h \in Handler, NEW o \in owed[h], Reread(h, o)
      PROVE  TypeOK'
  <2> DEFINE now == list[o.kind].items[o.item]
  <2>1. o \in Entry /\ now \in Nat
    BY DEF TypeOK, Entry, List, Items
  <2>2. [o EXCEPT !.revision = now] \in Entry
    BY <2>1 DEF Entry
  <2>3. owed' \in [Handler -> SUBSET Entry]
    BY <1>2, <2>1, <2>2 DEF Reread, TypeOK
  <2> QED
    BY <1>2, <2>3 DEF Reread, TypeOK
<1>3. ASSUME NEW h \in Handler, NEW i \in Item, WriteQuietly(h, i)
      PROVE  TypeOK'
  <2>1. "services" \in Kind
    BY DEF Kind
  <2>2. Edited("services", i, FALSE) \in List
    BY <2>1, ToTellTypes
  <2>3. list' \in [Kind -> List]
    BY <1>3, <2>2 DEF WriteQuietly, TypeOK
  <2>4. quiet' \in Nat
    BY <1>3 DEF WriteQuietly, TypeOK
  <2> QED
    BY <1>3, <2>3, <2>4 DEF WriteQuietly, TypeOK
<1>4. ASSUME NEW h \in Handler, NEW o \in owed[h], Tell(h, o) \/ TellFails(h, o)
      PROVE  TypeOK'
  <2>1. o \in Entry /\ o.revision # Unread
    BY <1>4 DEF TypeOK, Tell, TellFails
  <2>2. SnapshotWith(o) \in Snapshots
    BY <2>1, SnapshotTypes
  <2>3. CASE Tell(h, o)
    BY <2>2, <2>3 DEF Tell, TypeOK, Snapshots
  <2>4. CASE TellFails(h, o)
    BY <2>4 DEF TellFails, Fault, TypeOK
  <2> QED
    BY <1>4, <2>3, <2>4
<1>5. ASSUME NEW h \in Handler, HandlerDies(h)
      PROVE  TypeOK'
  BY <1>5 DEF HandlerDies, Fault, TypeOK
<1>6. ASSUME NEW k \in Saved, PodBoots(k)
      PROVE  TypeOK'
  <2>1. list[k].items \in [Item -> Nat]
    BY ConstantTypes DEF TypeOK, List, Items
  <2>2. boot' \in SUBSET [kind : Saved, item : Item, revision : Nat]
    BY <1>6, <2>1 DEF PodBoots
  <2> QED
    BY <1>6, <2>2 DEF PodBoots, Fault, TypeOK
<1>7. ASSUME NEW k \in Saved, SnapshotExpires(k)
      PROVE  TypeOK'
  <2>1. snapshot' \in Snapshots
    BY <1>7, ConstantTypes, RowTypes DEF SnapshotExpires, TypeOK
  <2> QED BY <1>7, <2>1 DEF SnapshotExpires, TypeOK
<1>8. ASSUME NEW o \in boot, BootWrite(o)
      PROVE  TypeOK'
  <2>1. o \in Entry /\ o.revision # Unread
    BY ConstantTypes DEF TypeOK, Entry, Unread
  <2>2. SnapshotWith(o) \in Snapshots
    BY <2>1, SnapshotTypes
  <2> QED
    BY <1>8, <2>2 DEF BootWrite, TypeOK, Snapshots
<1>9. ASSUME NEW g \in Gateway, Poll(g) \/ ApplyReload(g)
      PROVE  TypeOK'
  <2>1. \E c \in Caller : DoSync(g, c)
    BY <1>9 DEF Poll, ApplyReload, Caller
  <2>2. flight' \in [Gateway -> [Caller -> Flight]] /\ joined' \in [Gateway -> SUBSET Caller]
    BY <2>1, DoSyncTypes
  <2> QED
    BY <1>9, <2>2 DEF Poll, ApplyReload, TypeOK
<1>10. ASSUME NEW g \in Gateway, ReloadLost(g)
       PROVE  TypeOK'
  BY <1>10 DEF ReloadLost, Fault, TypeOK
<1>11. ASSUME NEW g \in Gateway, NEW c \in Caller, SyncNext(g, c)
       PROVE  TypeOK'
  <2> DEFINE k == flight[g][c].kind
  <2>1. /\ flight[g][c] \in Flight /\ k \in Kind
        /\ list[k] \in List /\ <<list[k].items>> \in Seq(Items)
    BY DEF TypeOK, Flight, List
  <2>2. Advance(g, c) => /\ flight' \in [Gateway -> [Caller -> Flight]]
                         /\ joined' \in [Gateway -> SUBSET Caller]
                         /\ phase' \in [Gateway -> {"sources", "services", "first", "running"}]
    BY AdvanceTypes
  <2>3. [etag EXCEPT ![g][k] = <<list[k].items>>] \in [Gateway -> [Kind -> Seq(Items)]]
    BY <2>1 DEF TypeOK
  <2>4. \A at \in {"fill", "swap"} : [flight EXCEPT ![g][c].at = at] \in [Gateway -> [Caller -> Flight]]
    BY <2>1 DEF TypeOK, Flight
  <2>5. CASE NotModified(g, c) \/ FetchFails(g, c)
    BY <2>2, <2>5 DEF NotModified, FetchFails, Fault, TypeOK
  <2>6. CASE Modified(g, c)
    <3> DEFINE f == [at |-> IF k \in Saved THEN "clear" ELSE "swap", kind |-> k, got |-> list[k]]
    <3>1. f \in Flight
      BY <2>1 DEF Flight
    <3>2. \/ Advance(g, c)
          \/ flight' = [flight EXCEPT ![g][c] = f] /\ UNCHANGED <<joined, phase>>
      BY <2>6 DEF Modified
    <3> HIDE DEF f, k
    <3>3. flight' = [flight EXCEPT ![g][c] = f] => flight' \in [Gateway -> [Caller -> Flight]]
      BY <3>1 DEF TypeOK
    <3>4. /\ flight' \in [Gateway -> [Caller -> Flight]]
          /\ joined' \in [Gateway -> SUBSET Caller]
          /\ phase' \in [Gateway -> {"sources", "services", "first", "running"}]
      BY <2>2, <3>2, <3>3 DEF TypeOK
    <3>5. etag' \in [Gateway -> [Kind -> Seq(Items)]]
      BY <2>3, <2>6 DEF Modified, k
    <3> QED
      BY <2>6, <3>4, <3>5 DEF Modified, TypeOK
  <2>7. CASE ResponseCut(g, c)
    <3>1. etag' \in [Gateway -> [Kind -> Seq(Items)]] /\ Advance(g, c)
      BY <2>3, <2>7 DEF ResponseCut
    <3>2. cut' \in SUBSET (Gateway \X Kind)
      BY <2>1, <2>7 DEF ResponseCut, TypeOK
    <3>3. faults' \in Nat
      BY <2>7 DEF ResponseCut, Fault, TypeOK
    <3>4. UNCHANGED <<configVars, snapshot, inbox, table>>
      BY <2>7 DEF ResponseCut
    <3> QED BY <2>2, <3>1, <3>2, <3>3, <3>4 DEF TypeOK, configVars
  <2>8. CASE ClearSnapshot(g, c)
    <3>1. snapshot' \in Snapshots
      BY <2>8, ConstantTypes, RowTypes DEF ClearSnapshot, TypeOK
    <3> QED BY <2>4, <2>8, <3>1 DEF ClearSnapshot, TypeOK
  <2>9. CASE FillSnapshot(g, c)
    <3>1. snapshot' \in Snapshots
      <4> DEFINE f == flight[g][c]
                 filled == [i \in Item |-> IF f.got.items[i] # 0 THEN f.got.items[i] ELSE snapshot[f.kind][i]]
      <4>1. /\ snapshot \in Snapshots /\ snapshot' = [snapshot EXCEPT ![f.kind] = filled]
        BY <2>9 DEF FillSnapshot, TypeOK
      <4>2. f.got.items \in [Item -> Nat]
        BY <2>1 DEF TypeOK, Flight, List, Items
      <4>3. CASE f.kind \in Saved
        <5>1. snapshot[f.kind] \in SavedItems /\ (f.kind = "sources" => snapshot[f.kind] \in Items)
          BY <4>1, <4>3 DEF Snapshots
        <5>2. filled \in SavedItems /\ (f.kind = "sources" => filled \in Items)
          BY <4>2, <5>1 DEF SavedItems, Items
        <5> HIDE DEF filled
        <5> QED BY <4>1, <5>2, RowTypes
      <4>4. CASE f.kind \notin Saved
        <5> HIDE DEF filled
        <5>1. [snapshot EXCEPT ![f.kind] = filled] = snapshot
          BY <4>1, <4>4 DEF Snapshots
        <5> QED BY <4>1, <5>1
      <4> QED BY <4>3, <4>4
    <3> QED
      BY <2>4, <2>9, <3>1 DEF FillSnapshot, TypeOK
  <2>10. CASE SaveFails(g, c)
    BY <2>4, <2>10 DEF SaveFails, Fault, TypeOK
  <2>11. CASE Swap(g, c)
    <3>1. flight[g][c].got \in Table
      BY ConstantTypes DEF TypeOK, Flight
    <3>2. table' \in [Gateway -> [Kind -> Table]]
      BY <2>1, <2>11, <3>1 DEF Swap, TypeOK, Flight
    <3> QED
      BY <2>2, <2>11, <3>2 DEF Swap, TypeOK
  <2> QED
    BY <1>11, <2>5, <2>6, <2>7, <2>8, <2>9, <2>10, <2>11 DEF SyncNext
<1>12. ASSUME NEW g \in Gateway, Restarts(g)
       PROVE  TypeOK'
  <2>1. <<>> \in Seq(Items)
    OBVIOUS
  <2> QED
    BY <1>12, <2>1, ConstantTypes DEF Restarts, Fault, TypeOK
<1>13. ASSUME NEW g \in Gateway, LoadSources(g) \/ LoadServices(g) \/ LoadFails(g)
       PROVE  TypeOK'
  <2>1. \A k \in Saved : Loaded(k) \in Table
    BY DEF Loaded, TypeOK, Table, Snapshots
  <2>2. "sources" \in Saved /\ "services" \in Saved /\ "poll" \in Caller
    BY DEF Saved, Caller
  <2>3. DoSync(g, "poll") => /\ flight' \in [Gateway -> [Caller -> Flight]]
                            /\ joined' \in [Gateway -> SUBSET Caller]
    BY <2>2, DoSyncTypes
  <2>4. CASE LoadSources(g)
    BY <2>1, <2>2, <2>4 DEF LoadSources, TypeOK
  <2>5. CASE LoadServices(g)
    BY <2>1, <2>2, <2>3, <2>5 DEF LoadServices, TypeOK
  <2>6. CASE LoadFails(g)
    BY <2>3, <2>6 DEF LoadFails, TypeOK
  <2> QED
    BY <1>13, <2>4, <2>5, <2>6
<1>14. CASE UNCHANGED vars
  BY <1>14 DEF vars, TypeOK
<1> QED
  BY <1>1, <1>2, <1>3, <1>4, <1>5, <1>6, <1>7, <1>8, <1>9, <1>10, <1>11, <1>12, <1>13, <1>14
  DEF Next, HandlerNext, GatewayNext

\* The types of the lists, the snapshot, the tables and the flights hold for any items and pods.
THEOREM TypeCorrect == Spec => []TypeOK
<1>1. Init => TypeOK
  BY InitTypes
<1>2. TypeOK /\ [Next]_vars => TypeOK'
  BY TypeStep
<1> QED
  BY <1>1, <1>2, PTL DEF Spec

-----------------------------------------------------------------------------
(* The invariant.                                                          *)

Parts == OneFlight /\ LoadsFirst /\ TableWasRead /\ AnswerIsNewer

\* Revisions can be compared.
LEMMA Comparable ==
  ASSUME TypeOK
  PROVE  /\ \A k \in Kind : list[k].edits \in Nat
         /\ \A g \in Gateway, k \in Kind : table[g][k].edits \in Nat
         /\ \A g \in Gateway, c \in Caller :
               /\ flight[g][c].kind \in Kind
               /\ flight[g][c].got.edits \in Nat
  BY DEF TypeOK, List, Table, Flight

\* What leaves the gateways alone, and may edit the lists.
LEMMA GatewaysKept ==
  ASSUME IInv, TypeOK', UNCHANGED <<phase, table, flight>>,
         \A k \in Kind : list[k].edits <= list'[k].edits
  PROVE  Parts'
<1>1. OneFlight' /\ LoadsFirst'
  BY DEF IInv, OneFlight, LoadsFirst
<1>2. /\ \A k \in Kind : list[k].edits \in Nat /\ list'[k].edits \in Nat
      /\ \A g \in Gateway, k \in Kind : table[g][k].edits \in Nat
      /\ \A g \in Gateway, c \in Caller :
             flight[g][c].kind \in Kind /\ flight[g][c].got.edits \in Nat
  BY Comparable DEF IInv, TypeOK, List
<1>3. TableWasRead'
  BY <1>2 DEF IInv, TableWasRead
<1>4. AnswerIsNewer'
  <2> SUFFICES ASSUME NEW g \in Gateway, NEW c \in Caller, Answered(g, c)
               PROVE  LET f == flight[g][c] IN
                      /\ table[g][f.kind].edits <= f.got.edits
                      /\ f.got.edits <= list'[f.kind].edits
                      /\ f.kind \in Saved => f.got.items # NoItems
    BY DEF AnswerIsNewer, Answered
  <2> QED
    BY <1>2 DEF IInv, AnswerIsNewer
<1> QED
  BY <1>1, <1>3, <1>4 DEF Parts

\* A sync that starts, while no table gets newer.
LEMMA StartKept ==
  ASSUME IInv, TypeOK', NEW g \in Gateway, NEW c \in Caller, DoSync(g, c), UNCHANGED list,
         phase'[g] \notin {"sources", "services"},
         \A x \in Gateway \ {g} : phase'[x] = phase[x] /\ table'[x] = table[x],
         \A k \in Kind : table'[g][k].edits <= table[g][k].edits
  PROVE  Parts'
<1>1. \A x \in Gateway, d \in Caller :
         \/ flight'[x][d] = flight[x][d]
         \/ /\ x = g /\ d = c /\ flight'[x][d].at = "fetch"
            /\ \A e \in Caller \ {d} : flight'[x][e].at = "none"
  BY DEF DoSync, Syncing, Fetching, IInv, TypeOK
<1>2. OneFlight'
  BY <1>1 DEF IInv, OneFlight
<1>3. LoadsFirst'
  BY <1>1 DEF IInv, LoadsFirst
<1>4. /\ \A k \in Kind : list[k].edits \in Nat
      /\ \A x \in Gateway, k \in Kind : table[x][k].edits \in Nat
      /\ \A x \in Gateway, d \in Caller :
             flight[x][d].kind \in Kind /\ flight[x][d].got.edits \in Nat
  BY Comparable DEF IInv
<1>5. \A x \in Gateway, k \in Kind : table'[x][k].edits \in Nat
  BY DEF TypeOK, Table
<1>6. \A x \in Gateway, k \in Kind : table'[x][k].edits <= table[x][k].edits
  <2> SUFFICES ASSUME NEW x \in Gateway, NEW k \in Kind
               PROVE  table'[x][k].edits <= table[x][k].edits
    OBVIOUS
  <2>1. CASE x = g
    BY <2>1
  <2>2. CASE x # g
    BY <1>4, <2>2
  <2> QED
    BY <2>1, <2>2
<1>7. TableWasRead'
  BY <1>4, <1>5, <1>6 DEF IInv, TableWasRead
<1>8. AnswerIsNewer'
  <2> SUFFICES ASSUME NEW x \in Gateway, NEW d \in Caller, Answered(x, d)'
               PROVE  LET f == flight'[x][d] IN
                      /\ table'[x][f.kind].edits <= f.got.edits
                      /\ f.got.edits <= list[f.kind].edits
                      /\ f.kind \in Saved => f.got.items # NoItems
    BY DEF AnswerIsNewer
  <2>1. flight'[x][d] = flight[x][d] /\ Answered(x, d)
    BY <1>1 DEF Answered
  <2> QED
    BY <1>4, <1>5, <1>6, <2>1 DEF IInv, AnswerIsNewer
<1> QED
  BY <1>2, <1>3, <1>7, <1>8 DEF Parts

\* A sync that is done with a list.
LEMMA AdvanceKept ==
  ASSUME IInv, TypeOK', NEW g \in Gateway, NEW c \in Caller, Advance(g, c), UNCHANGED list,
         flight[g][c].at # "none", TableWasRead',
         \A x \in Gateway \ {g} : table'[x] = table[x]
  PROVE  Parts'
<1>1. \A d \in Caller \ {c} : flight[g][d].at = "none"
  BY DEF IInv, OneFlight
<1>2. \A x \in Gateway, d \in Caller :
         \/ flight'[x][d] = flight[x][d] /\ (x # g \/ flight'[x][d].at = "none")
         \/ x = g /\ d = c /\ flight'[x][d].at \in {"fetch", "none"}
  BY <1>1 DEF Advance, Fetching, NoFlight, IInv, TypeOK
<1>3. OneFlight'
  BY <1>2 DEF IInv, OneFlight
<1>4. \A x \in Gateway : \/ x # g /\ phase'[x] = phase[x]
                         \/ x = g /\ phase'[x] \notin {"sources", "services"}
  BY DEF Advance, IInv, LoadsFirst, TypeOK
<1>5. LoadsFirst'
  BY <1>2, <1>4 DEF IInv, LoadsFirst
<1>6. AnswerIsNewer'
  <2> SUFFICES ASSUME NEW x \in Gateway, NEW d \in Caller, Answered(x, d)'
               PROVE  LET f == flight'[x][d] IN
                      /\ table'[x][f.kind].edits <= f.got.edits
                      /\ f.got.edits <= list[f.kind].edits
                      /\ f.kind \in Saved => f.got.items # NoItems
    BY DEF AnswerIsNewer
  <2>1. flight'[x][d] = flight[x][d] /\ Answered(x, d) /\ table'[x] = table[x]
    BY <1>2 DEF Answered
  <2> QED
    BY <2>1 DEF IInv, AnswerIsNewer
<1> QED
  BY <1>3, <1>5, <1>6 DEF Parts

\* A sync that goes on with the list it is at.
LEMMA ProgressKept ==
  ASSUME IInv, NEW g \in Gateway, NEW c \in Caller, NEW f, UNCHANGED <<list, table, phase>>,
         flight' = [flight EXCEPT ![g][c] = f],
         flight[g][c].at # "none",
         table[g][f.kind].edits <= f.got.edits,
         f.got.edits <= list[f.kind].edits,
         f.kind \in Saved => f.got.items # NoItems
  PROVE  Parts'
<1>1. \A x \in Gateway, d \in Caller :
         \/ flight'[x][d] = flight[x][d]
         \/ x = g /\ d = c /\ flight'[x][d] = f
  BY DEF IInv, TypeOK
<1>2. OneFlight'
  BY <1>1 DEF IInv, OneFlight
<1>3. LoadsFirst'
  BY <1>1 DEF IInv, LoadsFirst
<1>4. TableWasRead'
  BY DEF IInv, TableWasRead
<1>5. AnswerIsNewer'
  <2> SUFFICES ASSUME NEW x \in Gateway, NEW d \in Caller, Answered(x, d)'
               PROVE  LET e == flight'[x][d] IN
                      /\ table[x][e.kind].edits <= e.got.edits
                      /\ e.got.edits <= list[e.kind].edits
                      /\ e.kind \in Saved => e.got.items # NoItems
    BY DEF AnswerIsNewer
  <2>1. CASE flight'[x][d] = flight[x][d]
    BY <2>1 DEF Answered, IInv, AnswerIsNewer
  <2>2. CASE x = g /\ d = c /\ flight'[x][d] = f
    BY <2>2
  <2> QED
    BY <1>1, <2>1, <2>2
<1> QED
  BY <1>2, <1>3, <1>4, <1>5 DEF Parts

\* Every step keeps the invariant, an action at a time.
LEMMA InvariantStep == IInv /\ [Next]_vars => IInv'
<1> SUFFICES ASSUME IInv, [Next]_vars PROVE IInv'
  OBVIOUS
<1> USE DEF configVars, syncVars
<1>1. TypeOK' /\ TypeOK
  BY TypeStep DEF IInv
<1>2. ASSUME UNCHANGED <<phase, table, flight>>, UNCHANGED list
      PROVE  Parts'
  BY <1>1, <1>2, Comparable, GatewaysKept
<1>3. ASSUME NEW h \in Handler, HandlerNext(h)
      PROVE  Parts'
  <2>1. ASSUME NEW k \in Kind, NEW i \in Item, NEW deleted \in BOOLEAN,
               list' = [list EXCEPT ![k] = Edited(k, i, deleted)]
        PROVE  \A j \in Kind : list[j].edits <= list'[j].edits
    <3>1. \A j \in Kind : list[j].edits \in Nat /\ list'[j].edits \in Nat
      BY <1>1, Comparable DEF TypeOK, List
    <3>2. list'[k].edits = list[k].edits + 1 /\ \A j \in Kind \ {k} : list'[j] = list[j]
      BY <1>1, <2>1 DEF TypeOK, Edited
    <3> QED
      BY <3>1, <3>2
  <2>2. ASSUME NEW k \in Kind, NEW i \in Item, NEW deleted \in BOOLEAN, Write(h, k, i, deleted)
        PROVE  Parts'
    <3>1. list' = [list EXCEPT ![k] = Edited(k, i, deleted)] /\ UNCHANGED <<phase, table, flight>>
      BY <2>2 DEF Write
    <3> QED
      BY <1>1, <2>1, <3>1, GatewaysKept
  <2>3. ASSUME NEW i \in Item, WriteQuietly(h, i)
        PROVE  Parts'
    <3>1. /\ list' = [list EXCEPT !["services"] = Edited("services", i, FALSE)]
          /\ UNCHANGED <<phase, table, flight>>
      BY <2>3 DEF WriteQuietly
    <3>2. "services" \in Kind /\ FALSE \in BOOLEAN
      BY DEF Kind
    <3> QED
      BY <1>1, <2>1, <3>1, <3>2, GatewaysKept
  <2>4. ASSUME NEW o \in owed[h], Reread(h, o) \/ Tell(h, o) \/ TellFails(h, o)
        PROVE  Parts'
    BY <1>2, <2>4 DEF Reread, Tell, TellFails
  <2>5. CASE HandlerDies(h)
    BY <1>2, <2>5 DEF HandlerDies
  <2> QED
    BY <1>3, <2>2, <2>3, <2>4, <2>5 DEF HandlerNext
<1>4. ASSUME \/ \E k \in Saved : PodBoots(k) \/ SnapshotExpires(k)
             \/ \E o \in boot : BootWrite(o)
             \/ \E g \in Gateway : ReloadLost(g)
             \/ UNCHANGED vars
      PROVE  Parts'
  BY <1>2, <1>4 DEF PodBoots, SnapshotExpires, BootWrite, ReloadLost, vars
<1>5. ASSUME NEW g \in Gateway, Poll(g) \/ ApplyReload(g)
      PROVE  Parts'
  <2>1. PICK c \in Caller : DoSync(g, c) /\ flight[g][c].at = "none"
    BY <1>5 DEF Poll, ApplyReload, Free, Caller
  <2>2. UNCHANGED <<list, table, phase>>
    BY <1>5 DEF Poll, ApplyReload
  <2>3. \A k \in Kind : table'[g][k].edits <= table[g][k].edits
    BY <1>1, <2>2, Comparable
  <2>4. phase[g] \notin {"sources", "services"}
    BY <1>5 DEF Poll, ApplyReload
  <2> QED
    BY <1>1, <2>1, <2>2, <2>3, <2>4, StartKept
<1>6. ASSUME NEW g \in Gateway, NEW c \in Caller, SyncNext(g, c)
      PROVE  Parts'
  <2> DEFINE k == flight[g][c].kind
  <2>1. k \in Kind
    BY <1>1, Comparable
  <2>2. UNCHANGED list
    BY <1>6 DEF SyncNext, NotModified, Modified, ResponseCut, FetchFails, ClearSnapshot,
                FillSnapshot, SaveFails, Swap
  <2>3. UNCHANGED table => TableWasRead'
    BY <2>2 DEF IInv, TableWasRead
  <2>4. CASE NotModified(g, c) \/ ResponseCut(g, c) \/ FetchFails(g, c)
    <3>1. Advance(g, c) /\ UNCHANGED table /\ flight[g][c].at # "none"
      BY <2>4 DEF NotModified, ResponseCut, FetchFails
    <3> QED
      BY <1>1, <2>2, <2>3, <3>1, AdvanceKept
  <2> DEFINE f == [at |-> IF k \in Saved THEN "clear" ELSE "swap", kind |-> k, got |-> list[k]]
  <2>5. CASE Modified(g, c)
    <3>1. UNCHANGED table /\ flight[g][c].at # "none"
      BY <2>5 DEF Modified
    <3>2. CASE Advance(g, c)
      BY <1>1, <2>2, <2>3, <3>1, <3>2, AdvanceKept
    <3>3. CASE /\ ~Preserved(k, list[k].items)
               /\ flight' = [flight EXCEPT ![g][c] = f] /\ UNCHANGED <<joined, phase>>
      <4>1. f.kind = k /\ f.got = list[k]
        OBVIOUS
      <4>2. table[g][k].edits <= list[k].edits /\ list[k].edits <= list[k].edits
        BY <1>1, <2>1, Comparable DEF IInv, TableWasRead
      <4>3. k \in Saved => list[k].items # NoItems
        BY <3>3 DEF Preserved
      <4> HIDE DEF f, k
      <4> QED
        BY <2>2, <3>1, <3>3, <4>1, <4>2, <4>3, ProgressKept
    <3> QED
      BY <2>5, <3>2, <3>3 DEF Modified
  <2>6. CASE ClearSnapshot(g, c) \/ FillSnapshot(g, c) \/ SaveFails(g, c)
    <3>1. /\ UNCHANGED <<list, table, phase>>
          /\ Answered(g, c) /\ flight[g][c].at # "none"
      BY <2>6 DEF ClearSnapshot, FillSnapshot, SaveFails, Answered
    <3>2. PICK at \in {"fill", "swap"} : flight' = [flight EXCEPT ![g][c].at = at]
      BY <2>6 DEF ClearSnapshot, FillSnapshot, SaveFails
    <3> DEFINE e == [flight[g][c] EXCEPT !.at = at]
    <3>3. flight' = [flight EXCEPT ![g][c] = e]
      BY <1>1, <3>2 DEF TypeOK
    <3>4. e.kind = k /\ e.got = flight[g][c].got
      BY <1>1 DEF TypeOK, Flight
    <3>5. /\ table[g][k].edits <= flight[g][c].got.edits
          /\ flight[g][c].got.edits <= list[k].edits
          /\ k \in Saved => flight[g][c].got.items # NoItems
      BY <3>1 DEF IInv, AnswerIsNewer
    <3> HIDE DEF e, k
    <3> QED
      BY <3>1, <3>3, <3>4, <3>5, ProgressKept
  <2>7. CASE Swap(g, c)
    <3>1. /\ Advance(g, c) /\ Answered(g, c) /\ flight[g][c].at # "none"
          /\ table' = [table EXCEPT ![g][k] = flight[g][c].got]
      BY <2>7 DEF Swap, Answered
    <3>2. /\ \A x \in Gateway \ {g} : table'[x] = table[x]
          /\ \A x \in Gateway, j \in Kind :
                 table'[x][j] = table[x][j] \/ (j = k /\ table'[x][j] = flight[g][c].got)
      BY <1>1, <2>1, <3>1 DEF TypeOK
    <3>3. flight[g][c].got.edits <= list[k].edits
      BY <3>1 DEF IInv, AnswerIsNewer
    <3>4. TableWasRead'
      BY <2>2, <3>2, <3>3 DEF IInv, TableWasRead
    <3> QED
      BY <1>1, <2>2, <3>1, <3>2, <3>4, AdvanceKept
  <2> QED
    BY <1>6, <2>4, <2>5, <2>6, <2>7 DEF SyncNext
<1>7. ASSUME NEW g \in Gateway, Restarts(g)
      PROVE  Parts'
  <2>1. /\ \A x \in Gateway \ {g} : phase'[x] = phase[x] /\ table'[x] = table[x]
                                  /\ flight'[x] = flight[x]
        /\ \A k \in Kind : table'[g][k] = NoList
        /\ \A c \in Caller : flight'[g][c] = NoFlight
        /\ UNCHANGED list
    BY <1>1, <1>7 DEF Restarts, TypeOK
  <2>2. NoList.edits = 0 /\ NoFlight.at = "none"
    BY DEF NoList, NoFlight
  <2>3. OneFlight' /\ LoadsFirst'
    BY <2>1, <2>2 DEF IInv, OneFlight, LoadsFirst
  <2>4. \A k \in Kind : 0 <= list[k].edits
    BY <1>1, Comparable
  <2>5. TableWasRead'
    BY <2>1, <2>2, <2>4 DEF IInv, TableWasRead
  <2>6. AnswerIsNewer'
    BY <2>1, <2>2 DEF IInv, AnswerIsNewer, Answered
  <2> QED
    BY <2>3, <2>5, <2>6 DEF Parts
<1>8. ASSUME NEW g \in Gateway, LoadSources(g) \/ LoadServices(g) \/ LoadFails(g)
      PROVE  Parts'
  <2>1. /\ phase[g] \in {"sources", "services"} /\ UNCHANGED list
        /\ \A x \in Gateway \ {g} : phase'[x] = phase[x] /\ table'[x] = table[x]
    BY <1>1, <1>8 DEF LoadSources, LoadServices, LoadFails, TypeOK
  <2>2. \A k \in Kind : table'[g][k].edits = 0
    <3>1. \A k \in Kind : table[g][k].edits = 0
      BY <2>1 DEF IInv, LoadsFirst
    <3>2. Loaded("sources").edits = 0 /\ Loaded("services").edits = 0
      BY DEF Loaded
    <3>3. /\ table[g] \in [Kind -> Table]
          /\ \/ table'[g] = table[g]
             \/ table'[g] = [table[g] EXCEPT !["sources"] = Loaded("sources")]
             \/ table'[g] = [table[g] EXCEPT !["services"] = Loaded("services")]
      BY <1>1, <1>8 DEF LoadSources, LoadServices, LoadFails, TypeOK
    <3> QED
      BY <3>1, <3>2, <3>3
  <2>3. \A c \in Caller : flight[g][c].at = "none"
    BY <2>1 DEF IInv, LoadsFirst
  <2>4. CASE phase'[g] = "first" /\ DoSync(g, "poll")
    <3>1. "poll" \in Caller
      BY DEF Caller
    <3>2. \A k \in Kind : table'[g][k].edits <= table[g][k].edits
      BY <1>1, <2>2, Comparable
    <3> QED
      BY <1>1, <2>1, <2>4, <3>1, <3>2, StartKept
  <2>5. CASE UNCHANGED flight
    <3>1. OneFlight' /\ LoadsFirst'
      BY <2>1, <2>2, <2>3, <2>5 DEF IInv, OneFlight, LoadsFirst
    <3>2. \A k \in Kind : 0 <= list[k].edits
      BY <1>1, Comparable
    <3>3. TableWasRead'
      BY <2>1, <2>2, <3>2 DEF IInv, TableWasRead
    <3>4. AnswerIsNewer'
      BY <2>1, <2>3, <2>5 DEF IInv, AnswerIsNewer, Answered
    <3> QED
      BY <3>1, <3>3, <3>4 DEF Parts
  <2> QED
    BY <1>1, <1>8, <2>4, <2>5 DEF LoadSources, LoadServices, LoadFails, TypeOK
<1>9. Parts'
  BY <1>3, <1>4, <1>5, <1>6, <1>7, <1>8 DEF Next, GatewayNext
<1> QED
  BY <1>1, <1>9 DEF IInv, Parts

\* The invariant the two theorems below rest on: one sync of a gateway at a time, and an answer
\* under way is no older than the table it will replace.
THEOREM SyncInvariant == Spec => []IInv
<1>1. Init => IInv
  <2> SUFFICES ASSUME Init PROVE IInv
    OBVIOUS
  <2>1. TypeOK
    BY InitTypes
  <2>2. /\ \A g \in Gateway, c \in Caller : flight[g][c] = NoFlight
        /\ \A g \in Gateway : phase[g] = "running"
        /\ \A g \in Gateway, k \in Kind : table[g][k] = list[k]
    BY DEF Init
  <2>3. NoFlight.at = "none"
    BY DEF NoFlight
  <2>4. OneFlight /\ LoadsFirst /\ AnswerIsNewer
    BY <2>2, <2>3 DEF OneFlight, LoadsFirst, AnswerIsNewer, Answered
  <2>5. TableWasRead
    BY <2>1, <2>2, Comparable DEF TableWasRead
  <2> QED
    BY <2>1, <2>4, <2>5 DEF IInv
<1>2. IInv /\ [Next]_vars => IInv'
  BY InvariantStep
<1> QED
  BY <1>1, <1>2, PTL DEF Spec

-----------------------------------------------------------------------------
(* What a step may do to a table.                                          *)

\* A table is replaced by the answer being applied, by the snapshot while its gateway starts, or
\* emptied as the gateway restarts.
LEMMA TableStep ==
  ASSUME IInv, [Next]_vars, NEW g \in Gateway, NEW k \in Kind
  PROVE  \/ table'[g][k] = table[g][k]
         \/ phase'[g] = "sources"
         \/ phase[g] \in {"sources", "services"} /\ table'[g][k].edits = 0
         \/ \E c \in Caller : /\ Answered(g, c) /\ flight[g][c].kind = k
                             /\ table'[g][k] = flight[g][c].got
<1> USE DEF configVars, syncVars
<1>1. TypeOK
  BY DEF IInv
<1>2. CASE UNCHANGED table
  BY <1>2
<1>3. ASSUME NEW x \in Gateway, Restarts(x)
      PROVE  table'[g][k] = table[g][k] \/ phase'[g] = "sources"
  BY <1>1, <1>3 DEF Restarts, TypeOK
<1>4. ASSUME NEW x \in Gateway, LoadSources(x) \/ LoadServices(x)
      PROVE  \/ table'[g][k] = table[g][k]
             \/ phase[g] \in {"sources", "services"} /\ table'[g][k].edits = 0
  <2>1. /\ phase[x] \in {"sources", "services"}
        /\ \E j \in Saved : table' = [table EXCEPT ![x][j] = Loaded(j)]
    BY <1>4 DEF LoadSources, LoadServices, Saved
  <2>2. \A j \in Saved : Loaded(j).edits = 0
    BY DEF Loaded
  <2> QED
    BY <1>1, <2>1, <2>2 DEF TypeOK
<1>5. ASSUME NEW x \in Gateway, NEW c \in Caller, Swap(x, c)
      PROVE  \/ table'[g][k] = table[g][k]
             \/ /\ Answered(g, c) /\ flight[g][c].kind = k
                /\ table'[g][k] = flight[g][c].got
  BY <1>1, <1>5 DEF Swap, TypeOK, Answered
<1>6. ASSUME NEW x \in Gateway, GatewayNext(x)
      PROVE  \/ UNCHANGED table \/ Restarts(x) \/ LoadSources(x) \/ LoadServices(x)
             \/ \E c \in Caller : Swap(x, c)
  <2>1. Poll(x) \/ ApplyReload(x) \/ ReloadLost(x) \/ LoadFails(x) => UNCHANGED table
    BY DEF Poll, ApplyReload, ReloadLost, LoadFails
  <2>2. ASSUME NEW c \in Caller
        PROVE  SyncNext(x, c) => UNCHANGED table \/ Swap(x, c)
    BY DEF SyncNext, NotModified, Modified, ResponseCut, FetchFails, ClearSnapshot, FillSnapshot,
           SaveFails
  <2> QED
    BY <1>6, <2>1, <2>2 DEF GatewayNext
<1>7. \/ \E h \in Handler : HandlerNext(h)
      \/ \E j \in Saved : PodBoots(j) \/ SnapshotExpires(j)
      \/ \E o \in boot : BootWrite(o)
      \/ UNCHANGED vars
      => UNCHANGED table
  BY DEF HandlerNext, Write, WriteQuietly, Reread, Tell, TellFails, HandlerDies, PodBoots,
         SnapshotExpires, BootWrite, vars
<1> QED
  BY <1>2, <1>3, <1>4, <1>5, <1>6, <1>7 DEF Next

\* A running gateway never goes back to a list the control plane answered with earlier.
THEOREM NeverRegresses == Spec => NoRegression
<1>1. ASSUME IInv, [Next]_vars, NEW g \in Gateway, NEW k \in Kind
      PROVE  phase'[g] = "sources" \/ table'[g][k].edits >= table[g][k].edits
  <2>1. TypeOK
    BY <1>1 DEF IInv
  <2>2. table[g][k].edits \in Nat
    BY <2>1, Comparable
  <2>3. CASE table'[g][k] = table[g][k]
    BY <2>2, <2>3
  <2>4. CASE phase[g] \in {"sources", "services"} /\ table'[g][k].edits = 0
    BY <1>1, <2>4 DEF IInv, LoadsFirst
  <2>5. ASSUME NEW c \in Caller, Answered(g, c), flight[g][c].kind = k,
               table'[g][k] = flight[g][c].got
        PROVE  table'[g][k].edits >= table[g][k].edits
    <3>1. table[g][k].edits <= flight[g][c].got.edits /\ flight[g][c].got.edits \in Nat
      BY <1>1, <2>1, <2>5, Comparable DEF IInv, AnswerIsNewer
    <3> QED
      BY <2>2, <2>5, <3>1
  <2> QED
    BY <1>1, <2>3, <2>4, <2>5, TableStep
<1>2. IInv /\ [Next]_vars =>
        [\A g \in Gateway, k \in Kind :
           phase'[g] = "sources" \/ table'[g][k].edits >= table[g][k].edits]_vars
  BY <1>1
<1> QED
  BY <1>2, SyncInvariant, PTL DEF Spec, NoRegression

\* No answer takes the routes or the sources of a running gateway away.
THEOREM RoutesAlwaysSurvive == Spec => RoutesSurvive
<1>1. ASSUME IInv, [Next]_vars, NEW g \in Gateway, NEW k \in Saved,
             table[g][k].items # NoItems, phase[g] = "running", phase'[g] = "running"
      PROVE  table'[g][k].items # NoItems
  <2>1. k \in Kind
    BY ConstantTypes
  <2>2. ASSUME NEW c \in Caller, Answered(g, c), flight[g][c].kind = k,
               table'[g][k] = flight[g][c].got
        PROVE  table'[g][k].items # NoItems
    BY <1>1, <2>2 DEF IInv, AnswerIsNewer
  <2> QED
    BY <1>1, <2>1, <2>2, TableStep
<1>2. IInv /\ [Next]_vars =>
        [\A g \in Gateway, k \in Saved :
           /\ table[g][k].items # NoItems
           /\ phase[g] = "running" /\ phase'[g] = "running"
           => table'[g][k].items # NoItems]_vars
  BY <1>1
<1> QED
  BY <1>2, SyncInvariant, PTL DEF Spec, RoutesSurvive

-----------------------------------------------------------------------------
(* The snapshot in Redis, while nothing fails.  It may lag behind or be    *)
(* put back by a gateway that saves what it fetched before, but then that  *)
(* gateway has not seen the list as it is, and will fetch and save it.     *)

\* What a request has read of a document is what there is when it tells Redis: requests that edit one
\* document, or that change a service's limits, do not overlap with one that has yet to tell of it.
ToldAsWritten == \A h \in Handler : \A o \in owed[h] : o.revision \in {Unread, list[o.kind].items[o.item]}

\* No gateway or pod has started, and gateways know lists that there were.
Calm ==
    /\ boot = {} /\ \A g \in Gateway : phase[g] = "running"
    /\ \A k \in Kind, i \in Item : list[k].items[i] <= list[k].edits
    /\ \A g \in Gateway, k \in Kind :
           /\ etag[g][k] = <<etag[g][k][1]>>
           /\ \A i \in Item : etag[g][k][1][i] <= list[k].edits

\* A gateway saves the list whose ETag it keeps.
SavesKnown == \A g \in Gateway, c \in Caller :
    flight[g][c].at \in {"clear", "fill"} => etag[g][flight[g][c].kind] = <<flight[g][c].got.items>>

\* An entry that will be written: an edited document that is gone by now will not.
StillOwed(k, i) == \E h \in Handler : \E o \in owed[h] :
    o.kind = k /\ o.item = i /\ (o.revision # Unread \/ list[k].items[i] # 0)

\* A gateway has yet to save the list.
Behind(k, i) == \E g \in Gateway :
    \/ etag[g][k] = <<NoItems>> \/ etag[g][k][1][i] # list[k].items[i]
    \/ \E c \in Caller : flight[g][c].kind = k /\ flight[g][c].at = "clear"
Filling(k) == \E g \in Gateway, c \in Caller : flight[g][c].kind = k /\ flight[g][c].at = "fill"

\* An entry is a document's, as a gateway or as the control plane writes it.
InStep(k, i) == snapshot[k][i] \in {list[k].items[i], Told(k, list[k].items[i])}

LEMMA ToldNone == \A k, n : n = 0 => Told(k, n) = 0
<1>1. \A n \in Int : -n = 0 - n
  OBVIOUS
<1>2. ASSUME NEW k, NEW n, n = 0
      PROVE  Told(k, n) = 0
  <2>1. n \in Int /\ 0 - n = 0
    BY <1>2
  <2>2. -n = 0 - n
    BY <1>1, <2>1
  <2> QED BY <2>1, <2>2 DEF Told
<1> QED BY <1>2

\* The snapshot has the list; or it has expired, and since then nobody has seen what was written.
Written(k) == \A i \in Item :
    Behind(k, i) \/ StillOwed(k, i) \/ InStep(k, i) \/ (snapshot[k][i] = 0 /\ Filling(k))
Expired(k) == \A i \in Item :
    Behind(k, i) \/ IF StillOwed(k, i) THEN list[k].items[i] = 0 ELSE snapshot[k][i] = 0
Settled(k) == Written(k) \/ Expired(k)

Settles == faults = 0 => Calm /\ SavesKnown /\ \A k \in Saved : Settled(k)

\* The steps that are left when nothing fails.
LEMMA FaultlessSteps ==
  ASSUME TypeOK, [Next]_vars, faults' = 0, faults = 0 => Calm
  PROVE  /\ faults = 0
         /\ \/ UNCHANGED vars
            \/ \E h \in Handler, k \in Kind, i \in Item, deleted \in BOOLEAN : Write(h, k, i, deleted)
            \/ \E h \in Handler, i \in Item : WriteQuietly(h, i)
            \/ \E h \in Handler : \E o \in owed[h] : Reread(h, o) \/ Tell(h, o)
            \/ \E k \in Saved : SnapshotExpires(k)
            \/ \E g \in Gateway : Poll(g) \/ ApplyReload(g)
            \/ \E g \in Gateway, c \in Caller :
                   NotModified(g, c) \/ Modified(g, c) \/ ClearSnapshot(g, c) \/ FillSnapshot(g, c) \/ Swap(g, c)
<1>1. ~Fault
  BY DEF Fault, TypeOK
<1>2. faults = 0
  <2>1. CASE UNCHANGED vars
    BY <2>1 DEF vars
  <2>2. CASE \E h \in Handler : HandlerNext(h)
    BY <1>1, <2>2 DEF HandlerNext, Write, WriteQuietly, Reread, Tell, TellFails, HandlerDies
  <2>3. CASE (\E k \in Saved : PodBoots(k) \/ SnapshotExpires(k)) \/ (\E o \in boot : BootWrite(o))
    BY <1>1, <2>3 DEF PodBoots, SnapshotExpires, BootWrite
  <2>4. ASSUME NEW g \in Gateway, NEW c \in Caller, SyncNext(g, c)
        PROVE  UNCHANGED faults
    BY <1>1, <2>4 DEF SyncNext, NotModified, Modified, ResponseCut, FetchFails, ClearSnapshot, FillSnapshot,
       SaveFails, Swap
  <2>5. ASSUME NEW g \in Gateway, GatewayNext(g)
        PROVE  UNCHANGED faults
    BY <1>1, <2>4, <2>5 DEF GatewayNext, Poll, ApplyReload, ReloadLost, Restarts, LoadSources, LoadServices,
       LoadFails
  <2> QED
    BY <2>1, <2>2, <2>3, <2>5 DEF Next
<1>3. boot = {} /\ \A g \in Gateway : phase[g] = "running"
  BY <1>2 DEF Calm
<1>4. CASE \E h \in Handler : HandlerNext(h)
  BY <1>1, <1>2, <1>4 DEF HandlerNext, TellFails, HandlerDies
<1>5. CASE \E g \in Gateway : GatewayNext(g)
  <2>1. ASSUME NEW g \in Gateway, NEW c \in Caller, SyncNext(g, c)
        PROVE  \/ NotModified(g, c) \/ Modified(g, c)
               \/ ClearSnapshot(g, c) \/ FillSnapshot(g, c) \/ Swap(g, c)
    <3>1. ~ResponseCut(g, c) /\ ~FetchFails(g, c) /\ ~SaveFails(g, c)
      BY <1>1 DEF ResponseCut, FetchFails, SaveFails
    <3> QED BY <2>1, <3>1 DEF SyncNext
  <2>2. ASSUME NEW g \in Gateway
        PROVE  ~ReloadLost(g) /\ ~Restarts(g)
    BY <1>1 DEF ReloadLost, Restarts
  <2>3. ASSUME NEW g \in Gateway
        PROVE  ~LoadSources(g) /\ ~LoadServices(g) /\ ~LoadFails(g)
    BY <1>1, <1>3 DEF LoadSources, LoadServices, LoadFails
  <2> QED BY <1>2, <1>5, <2>1, <2>2, <2>3 DEF GatewayNext
<1>6. CASE \E k \in Saved : PodBoots(k) \/ SnapshotExpires(k)
  BY <1>1, <1>2, <1>6 DEF PodBoots
<1>7. CASE \E o \in boot : BootWrite(o)
  BY <1>3, <1>7
<1> QED BY <1>2, <1>4, <1>5, <1>6, <1>7 DEF Next

\* What the other caller of a gateway, and the other gateways, are at.
LEMMA AdvanceFlights ==
  ASSUME TypeOK, NEW g \in Gateway, NEW c \in Caller, Advance(g, c)
  PROVE  /\ \A x \in Gateway, d \in Caller : x # g \/ d # c => flight'[x][d] = flight[x][d]
         /\ flight'[g][c].at \in {"none", "fetch"}
         /\ \A x \in Gateway : phase'[x] \in {phase[x], "running"}
<1>1. /\ flight \in [Gateway -> [Caller -> Flight]]
      /\ phase \in [Gateway -> {"sources", "services", "first", "running"}]
  BY DEF TypeOK
<1>2. NoFlight.at = "none" /\ \A k : Fetching(k).at = "fetch"
  BY DEF NoFlight, Fetching
<1> QED BY <1>1, <1>2 DEF Advance

LEMMA SyncFlights ==
  ASSUME TypeOK, NEW g \in Gateway, NEW c \in Caller, DoSync(g, c)
  PROVE  \A x \in Gateway, d \in Caller :
             \/ flight'[x][d] = flight[x][d]
             \/ flight[x][d].at = "none" /\ flight'[x][d].at = "fetch"
<1>1. flight \in [Gateway -> [Caller -> Flight]]
  BY DEF TypeOK
<1>2. \A k : Fetching(k).at = "fetch"
  BY DEF Fetching
<1> QED BY <1>1, <1>2 DEF DoSync, Syncing

\* A list with an edit: the document's revision is new.
LEMMA EditedList ==
  ASSUME TypeOK, NEW k \in Kind, NEW i \in Item, NEW deleted \in BOOLEAN,
         list' = [list EXCEPT ![k] = Edited(k, i, deleted)]
  PROVE  /\ \A j \in Kind \ {k} : list'[j] = list[j]
         /\ list[k].edits \in Nat /\ list'[k].edits = list[k].edits + 1
         /\ \A x \in Item \ {i} : list'[k].items[x] = list[k].items[x]
         /\ list'[k].items[i] = IF deleted THEN 0 ELSE list[k].edits + 1
<1>1. list \in [Kind -> List] /\ list[k].edits \in Nat /\ list[k].items \in [Item -> Nat]
  BY DEF TypeOK, List, Items
<1>2. list'[k] = Edited(k, i, deleted) /\ \A j \in Kind \ {k} : list'[j] = list[j]
  BY <1>1
<1> QED
  BY <1>1, <1>2 DEF Edited

\* A gateway that has not seen a fresh revision is behind.
LEMMA FreshRevision ==
  ASSUME TypeOK, Calm, Gateway # {}, UNCHANGED etag, NEW k \in Kind, NEW i \in Item,
         list'[k].items[i] = list[k].edits + 1
  PROVE  Behind(k, i)'
<1>1. PICK g \in Gateway : TRUE
  OBVIOUS
<1>2. etag[g][k][1][i] <= list[k].edits /\ list[k].edits \in Nat
  BY DEF Calm, TypeOK, List
<1>3. etag \in [Gateway -> [Kind -> Seq(Items)]] /\ etag[g][k] = <<etag[g][k][1]>>
  BY DEF Calm, TypeOK
<1>4. etag[g][k][1] \in Items
  BY <1>3
<1>5. etag[g][k][1][i] \in Nat
  BY <1>4 DEF Items
<1>6. etag[g][k][1][i] # list[k].edits + 1
  BY <1>2, <1>5
<1> QED
  BY <1>6 DEF Behind

LEMMA CalmStep ==
  ASSUME TypeOK, Calm, [Next]_vars, faults = 0, faults' = 0
  PROVE  Calm'
<1> USE DEF configVars, syncVars
<1>1. TypeOK'
  BY TypeStep
<1>2. ASSUME UNCHANGED <<boot, list, etag>>, \A g \in Gateway : phase'[g] \in {phase[g], "running"}
      PROVE  Calm'
  BY <1>2 DEF Calm
<1>3. ASSUME NEW k \in Kind, NEW i \in Item, NEW deleted \in BOOLEAN, UNCHANGED <<boot, phase, etag>>,
             list' = [list EXCEPT ![k] = Edited(k, i, deleted)]
      PROVE  Calm'
  <2>1. /\ \A j \in Kind \ {k} : list'[j] = list[j]
        /\ list[k].edits \in Nat /\ list'[k].edits = list[k].edits + 1
        /\ \A x \in Item \ {i} : list'[k].items[x] = list[k].items[x]
        /\ list'[k].items[i] = IF deleted THEN 0 ELSE list[k].edits + 1
    BY <1>3, EditedList
  <2>2. \A x \in Item : list[k].items[x] \in Nat /\ list[k].items[x] <= list[k].edits
    BY DEF Calm, TypeOK, List, Items
  <2>3. \A x \in Item : list'[k].items[x] <= list'[k].edits
    BY <2>1, <2>2
  <2>4. ASSUME NEW g \in Gateway, NEW x \in Item
        PROVE  etag[g][k][1][x] <= list'[k].edits
    <3>1. etag[g][k] \in Seq(Items) /\ etag[g][k] = <<etag[g][k][1]>>
      BY DEF TypeOK, Calm
    <3>2. etag[g][k][1] \in Items
      BY <3>1
    <3>3. etag[g][k][1][x] \in Nat /\ etag[g][k][1][x] <= list[k].edits
      BY <3>2 DEF Items, Calm
    <3> QED BY <2>1, <3>3
  <2> QED BY <1>3, <2>1, <2>3, <2>4 DEF Calm
<1>4. ASSUME NEW g \in Gateway, NEW c \in Caller, Modified(g, c)
      PROVE  Calm'
  <2> DEFINE k == flight[g][c].kind
  <2>1. k \in Kind
    BY DEF TypeOK, Flight
  <2>2. UNCHANGED <<boot, list>> /\ etag' = [etag EXCEPT ![g][k] = <<list[k].items>>]
    BY <1>4 DEF Modified
  <2>3. \A x \in Gateway : phase'[x] \in {phase[x], "running"}
    BY <1>4, AdvanceFlights DEF Modified
  <2> HIDE DEF k
  <2>4. /\ etag'[g][k] = <<list[k].items>>
        /\ \A x \in Gateway, j \in Kind : x # g \/ j # k => etag'[x][j] = etag[x][j]
    BY <2>1, <2>2 DEF TypeOK
  <2>5. \A j \in Kind, i \in Item : list'[j].items[i] <= list'[j].edits
    BY <2>2 DEF Calm
  <2>6. ASSUME NEW x \in Gateway, NEW j \in Kind
        PROVE  etag'[x][j] = <<etag'[x][j][1]>> /\ \A i \in Item : etag'[x][j][1][i] <= list'[j].edits
    <3>1. CASE x = g /\ j = k
      BY <2>2, <2>4, <2>5, <3>1
    <3>2. CASE x # g \/ j # k
      BY <2>2, <2>4, <3>2 DEF Calm
    <3> QED BY <3>1, <3>2
  <2> QED BY <2>2, <2>3, <2>5, <2>6 DEF Calm
<1>5. CASE UNCHANGED vars
  BY <1>2, <1>5 DEF vars
<1>6. ASSUME NEW h \in Handler, NEW k \in Kind, NEW i \in Item, NEW deleted \in BOOLEAN, Write(h, k, i, deleted)
      PROVE  Calm'
  BY <1>3, <1>6 DEF Write
<1>7. ASSUME NEW h \in Handler, NEW i \in Item, WriteQuietly(h, i)
      PROVE  Calm'
  BY <1>3, <1>7 DEF WriteQuietly, Kind
<1>8. ASSUME NEW h \in Handler, NEW o \in owed[h], Reread(h, o) \/ Tell(h, o)
      PROVE  Calm'
  BY <1>2, <1>8 DEF Reread, Tell
<1>9. ASSUME NEW k \in Saved, SnapshotExpires(k)
      PROVE  Calm'
  BY <1>2, <1>9 DEF SnapshotExpires
<1>10. ASSUME NEW g \in Gateway, Poll(g) \/ ApplyReload(g)
       PROVE  Calm'
  BY <1>2, <1>10 DEF Poll, ApplyReload
<1>11. ASSUME NEW g \in Gateway, NEW c \in Caller,
              NotModified(g, c) \/ ClearSnapshot(g, c) \/ FillSnapshot(g, c) \/ Swap(g, c)
       PROVE  Calm'
  <2>1. UNCHANGED <<boot, list, etag>> /\ (Advance(g, c) \/ UNCHANGED phase)
    BY <1>11 DEF NotModified, ClearSnapshot, FillSnapshot, Swap
  <2> QED BY <1>2, <2>1, AdvanceFlights
<1> QED BY <1>4, <1>5, <1>6, <1>7, <1>8, <1>9, <1>10, <1>11, FaultlessSteps

\* What each of a gateway's steps does to flights; nobody else of the gateway is saving then.
LEMMA SavingFlights ==
  ASSUME TypeOK, NEW g \in Gateway, NEW c \in Caller
  PROVE  /\ Modified(g, c) => /\ \A x \in Gateway, d \in Caller : x # g \/ d # c => flight'[x][d] = flight[x][d]
                              /\ \/ flight'[g][c].at \in {"none", "fetch", "swap"}
                                 \/ /\ flight'[g][c].at = "clear"
                                    /\ flight'[g][c].kind = flight[g][c].kind
                                    /\ flight'[g][c].got = list[flight[g][c].kind]
         /\ ClearSnapshot(g, c) =>
                /\ \A x \in Gateway, d \in Caller : x # g \/ d # c => flight'[x][d] = flight[x][d]
                /\ flight'[g][c].at = "fill" /\ flight'[g][c].kind = flight[g][c].kind
                /\ flight'[g][c].got = flight[g][c].got
         /\ FillSnapshot(g, c) =>
                /\ \A x \in Gateway, d \in Caller : x # g \/ d # c => flight'[x][d] = flight[x][d]
                /\ flight'[g][c].at = "swap"
<1>1. flight \in [Gateway -> [Caller -> Flight]] /\ flight[g][c] \in Flight
  BY DEF TypeOK
<1>2. ASSUME Modified(g, c)
      PROVE  /\ \A x \in Gateway, d \in Caller : x # g \/ d # c => flight'[x][d] = flight[x][d]
             /\ \/ flight'[g][c].at \in {"none", "fetch", "swap"}
                \/ /\ flight'[g][c].at = "clear"
                   /\ flight'[g][c].kind = flight[g][c].kind
                   /\ flight'[g][c].got = list[flight[g][c].kind]
  <2> DEFINE k == flight[g][c].kind
             f == [at |-> IF k \in Saved THEN "clear" ELSE "swap", kind |-> k, got |-> list[k]]
  <2>1. Advance(g, c) \/ flight' = [flight EXCEPT ![g][c] = f]
    BY <1>2 DEF Modified
  <2>2. f.at \in {"clear", "swap"} /\ f.kind = k /\ f.got = list[k]
    OBVIOUS
  <2>3. ASSUME flight' = [flight EXCEPT ![g][c] = f]
        PROVE  /\ flight'[g][c] = f
               /\ \A x \in Gateway, d \in Caller : x # g \/ d # c => flight'[x][d] = flight[x][d]
    <3> HIDE DEF f
    <3> QED BY <1>1, <2>3
  <2> HIDE DEF f
  <2>4. CASE Advance(g, c)
    BY <2>4, AdvanceFlights
  <2>5. CASE flight' = [flight EXCEPT ![g][c] = f]
    BY <2>2, <2>3, <2>5
  <2> QED BY <2>1, <2>4, <2>5
<1>3. ASSUME ClearSnapshot(g, c)
      PROVE  /\ \A x \in Gateway, d \in Caller : x # g \/ d # c => flight'[x][d] = flight[x][d]
             /\ flight'[g][c].at = "fill" /\ flight'[g][c].kind = flight[g][c].kind
             /\ flight'[g][c].got = flight[g][c].got
  <2>1. flight' = [flight EXCEPT ![g][c].at = "fill"]
    BY <1>3 DEF ClearSnapshot
  <2> QED BY <1>1, <2>1 DEF Flight
<1>4. ASSUME FillSnapshot(g, c)
      PROVE  /\ \A x \in Gateway, d \in Caller : x # g \/ d # c => flight'[x][d] = flight[x][d]
             /\ flight'[g][c].at = "swap"
  <2>1. flight' = [flight EXCEPT ![g][c].at = "swap"]
    BY <1>4 DEF FillSnapshot
  <2> QED BY <1>1, <2>1 DEF Flight
<1> QED BY <1>2, <1>3, <1>4

\* The other steps start no save and end none.
LEMMA FlightsAside ==
  ASSUME TypeOK, NEW g \in Gateway, NEW c \in Caller,
         Poll(g) \/ ApplyReload(g) \/ NotModified(g, c) \/ Swap(g, c)
  PROVE  \A x \in Gateway, d \in Caller :
             \/ flight'[x][d] = flight[x][d]
             \/ flight[x][d].at \notin {"clear", "fill"} /\ flight'[x][d].at \notin {"clear", "fill"}
<1>1. CASE Poll(g) \/ ApplyReload(g)
  <2>1. DoSync(g, "poll") \/ DoSync(g, "event")
    BY <1>1 DEF Poll, ApplyReload
  <2> QED BY <2>1, SyncFlights DEF Caller
<1>2. CASE NotModified(g, c) \/ Swap(g, c)
  <2>1. Advance(g, c) /\ flight[g][c].at \in {"fetch", "swap"}
    BY <1>2 DEF NotModified, Swap
  <2> QED BY <2>1, AdvanceFlights
<1> QED BY <1>1, <1>2

LEMMA SavesKnownStep ==
  ASSUME IInv, Calm, SavesKnown, [Next]_vars, faults = 0, faults' = 0
  PROVE  SavesKnown'
<1> USE DEF configVars, syncVars
<1>1. TypeOK /\ OneFlight
  BY DEF IInv
<1>2. ASSUME UNCHANGED <<etag, flight>>
      PROVE  SavesKnown'
  BY <1>2 DEF SavesKnown
<1>3. ASSUME UNCHANGED etag,
             \A x \in Gateway, d \in Caller : \/ flight'[x][d] = flight[x][d]
                                              \/ flight'[x][d].at \notin {"clear", "fill"}
      PROVE  SavesKnown'
  BY <1>3 DEF SavesKnown
<1>4. ASSUME NEW g \in Gateway, NEW c \in Caller, Modified(g, c)
      PROVE  SavesKnown'
  <2> DEFINE k == flight[g][c].kind
  <2>1. k \in Kind /\ flight[g][c].at = "fetch" /\ etag' = [etag EXCEPT ![g][k] = <<list[k].items>>]
    BY <1>1, <1>4 DEF TypeOK, Flight, Modified
  <2>2. ASSUME NEW d \in Caller, d # c PROVE flight[g][d].at = "none"
    BY <1>1, <2>1, <2>2 DEF OneFlight
  <2>3. /\ \A x \in Gateway, d \in Caller : x # g \/ d # c => flight'[x][d] = flight[x][d]
        /\ \/ flight'[g][c].at \in {"none", "fetch", "swap"}
           \/ flight'[g][c].kind = k /\ flight'[g][c].got = list[k]
    BY <1>1, <1>4, SavingFlights
  <2> HIDE DEF k
  <2>4. /\ etag'[g][k] = <<list[k].items>>
        /\ \A x \in Gateway \ {g} : etag'[x] = etag[x]
    BY <1>1, <2>1 DEF TypeOK
  <2>5. ASSUME NEW x \in Gateway, NEW d \in Caller, flight'[x][d].at \in {"clear", "fill"}
        PROVE  etag'[x][flight'[x][d].kind] = <<flight'[x][d].got.items>>
    <3>1. CASE x = g /\ d = c
      BY <2>3, <2>4, <2>5, <3>1
    <3>2. CASE x = g /\ d # c
      BY <2>2, <2>3, <2>5, <3>2
    <3>3. CASE x # g
      <4>1. flight'[x][d] = flight[x][d] /\ etag'[x] = etag[x]
        BY <2>3, <2>4, <3>3
      <4> QED BY <2>5, <4>1 DEF SavesKnown
    <3> QED BY <3>1, <3>2, <3>3
  <2> QED BY <2>5 DEF SavesKnown
<1>5. ASSUME NEW g \in Gateway, NEW c \in Caller, ClearSnapshot(g, c)
      PROVE  SavesKnown'
  <2>1. flight[g][c].at = "clear" /\ UNCHANGED etag
    BY <1>5 DEF ClearSnapshot
  <2>2. /\ \A x \in Gateway, d \in Caller : x # g \/ d # c => flight'[x][d] = flight[x][d]
        /\ flight'[g][c].kind = flight[g][c].kind /\ flight'[g][c].got = flight[g][c].got
    BY <1>1, <1>5, SavingFlights
  <2>3. etag[g][flight[g][c].kind] = <<flight[g][c].got.items>>
    BY <2>1 DEF SavesKnown
  <2>4. ASSUME NEW x \in Gateway, NEW d \in Caller, flight'[x][d].at \in {"clear", "fill"}
        PROVE  etag'[x][flight'[x][d].kind] = <<flight'[x][d].got.items>>
    <3>1. CASE x = g /\ d = c
      BY <2>1, <2>2, <2>3, <3>1
    <3>2. CASE x # g \/ d # c
      <4>1. flight'[x][d] = flight[x][d]
        BY <2>2, <3>2
      <4> QED BY <2>1, <2>4, <4>1 DEF SavesKnown
    <3> QED BY <3>1, <3>2
  <2> QED BY <2>4 DEF SavesKnown
<1>6. ASSUME NEW g \in Gateway, NEW c \in Caller, FillSnapshot(g, c)
      PROVE  SavesKnown'
  <2>1. UNCHANGED etag
    BY <1>6 DEF FillSnapshot
  <2> QED BY <1>1, <1>3, <1>6, <2>1, SavingFlights
<1>7. ASSUME NEW g \in Gateway, NEW c \in Caller,
             Poll(g) \/ ApplyReload(g) \/ NotModified(g, c) \/ Swap(g, c)
      PROVE  SavesKnown'
  <2>1. UNCHANGED etag
    BY <1>7 DEF Poll, ApplyReload, NotModified, Swap
  <2> QED BY <1>1, <1>3, <1>7, <2>1, FlightsAside
<1>8. \/ UNCHANGED vars
      \/ \E h \in Handler, k \in Kind, i \in Item, deleted \in BOOLEAN : Write(h, k, i, deleted)
      \/ \E h \in Handler, i \in Item : WriteQuietly(h, i)
      \/ \E h \in Handler : \E o \in owed[h] : Reread(h, o) \/ Tell(h, o)
      \/ \E k \in Saved : SnapshotExpires(k)
      => SavesKnown'
  BY <1>2 DEF vars, Write, WriteQuietly, Reread, Tell, SnapshotExpires
<1>9. "poll" \in Caller
  BY DEF Caller
<1> QED BY <1>1, <1>4, <1>5, <1>6, <1>7, <1>8, <1>9, FaultlessSteps

\* A list nobody edits, saves or tells of stays settled.
LEMMA SettledAside ==
  ASSUME NEW k \in Saved, Settled(k), list'[k] = list[k], snapshot'[k] = snapshot[k],
         \A x \in Gateway : etag'[x][k] = etag[x][k],
         \A x \in Gateway, d \in Caller, at \in {"clear", "fill"} :
             flight'[x][d].kind = k /\ flight'[x][d].at = at <=> flight[x][d].kind = k /\ flight[x][d].at = at,
         \A i \in Item : StillOwed(k, i)' <=> StillOwed(k, i)
  PROVE  Settled(k)'
<1>1. \A i \in Item : Behind(k, i)' <=> Behind(k, i)
  BY DEF Behind
<1>2. Filling(k)' <=> Filling(k)
  BY DEF Filling
<1>3. CASE Written(k)
  <2>1. Written(k)'
    BY <1>1, <1>2, <1>3 DEF Written, InStep
  <2> QED BY <2>1 DEF Settled
<1>4. CASE Expired(k)
  <2>1. Expired(k)'
    BY <1>1, <1>4 DEF Expired
  <2> QED BY <2>1 DEF Settled
<1> QED BY <1>3, <1>4 DEF Settled

\* A gateway that is sent a list has yet to save it, or does not believe it.
LEMMA SettledModified ==
  ASSUME TypeOK, NEW k \in Saved, Settled(k), NEW g \in Gateway, NEW c \in Caller, Modified(g, c)
  PROVE  Settled(k)'
<1> DEFINE j == flight[g][c].kind
<1>1. /\ j \in Kind /\ flight[g][c].at = "fetch"
      /\ etag' = [etag EXCEPT ![g][j] = <<list[j].items>>] /\ UNCHANGED <<list, owed, snapshot>>
  BY DEF TypeOK, Flight, Modified, configVars
<1>2. /\ \A x \in Gateway, d \in Caller : x # g \/ d # c => flight'[x][d] = flight[x][d]
      /\ flight'[g][c].at \in {"none", "fetch", "swap"} \/ (flight'[g][c].at = "clear" /\ flight'[g][c].kind = j)
  BY SavingFlights
<1>3. Preserved(j, list[j].items) \/ (j \in Saved => flight'[g][c].at = "clear" /\ flight'[g][c].kind = j)
  <2> DEFINE f == [at |-> IF j \in Saved THEN "clear" ELSE "swap", kind |-> j, got |-> list[j]]
  <2>1. Preserved(j, list[j].items) \/ flight' = [flight EXCEPT ![g][c] = f]
    BY DEF Modified
  <2>2. f.kind = j /\ (j \in Saved => f.at = "clear")
    OBVIOUS
  <2> HIDE DEF f, j
  <2>3. flight' = [flight EXCEPT ![g][c] = f] => flight'[g][c] = f
    BY DEF TypeOK
  <2> QED BY <2>1, <2>2, <2>3
<1> HIDE DEF j
<1>4. etag'[g][j] = <<list[j].items>> /\ \A x \in Gateway : j # k => etag'[x][k] = etag[x][k]
  BY <1>1, ConstantTypes DEF TypeOK
<1>5. CASE k # j
  <2>1. flight[g][c].kind # k
    BY <1>5 DEF j
  <2>2. \A x \in Gateway, d \in Caller, at \in {"clear", "fill"} :
            flight'[x][d].kind = k /\ flight'[x][d].at = at <=> flight[x][d].kind = k /\ flight[x][d].at = at
    BY <1>2, <1>5, <2>1
  <2>3. \A i \in Item : StillOwed(k, i)' <=> StillOwed(k, i)
    BY <1>1 DEF StillOwed
  <2> QED BY <1>1, <1>4, <1>5, <2>2, <2>3, SettledAside
<1>6. CASE k = j
  <2>1. \A i \in Item : Behind(k, i)'
    <3>1. CASE Preserved(j, list[j].items)
      BY <1>4, <1>6, <3>1 DEF Preserved, Behind
    <3>2. CASE flight'[g][c].at = "clear" /\ flight'[g][c].kind = j
      BY <1>6, <3>2 DEF Behind
    <3> QED BY <1>3, <1>6, <3>1, <3>2
  <2> QED BY <2>1 DEF Settled, Written
<1> QED BY <1>5, <1>6

\* The pipeline's DEL: what comes next is its HSETs.
LEMMA SettledClear ==
  ASSUME TypeOK, NEW k \in Saved, Settled(k), NEW g \in Gateway, NEW c \in Caller, ClearSnapshot(g, c)
  PROVE  Settled(k)'
<1> DEFINE j == flight[g][c].kind
<1>1. /\ snapshot' = [snapshot EXCEPT ![j] = NoItems] /\ UNCHANGED <<list, owed, etag>>
  BY DEF ClearSnapshot, configVars
<1>2. /\ \A x \in Gateway, d \in Caller : x # g \/ d # c => flight'[x][d] = flight[x][d]
      /\ flight'[g][c].at = "fill" /\ flight'[g][c].kind = j
  BY SavingFlights
<1> HIDE DEF j
<1>3. CASE k # j
  <2>1. flight[g][c].kind # k /\ snapshot'[k] = snapshot[k]
    BY <1>1, <1>3 DEF j, TypeOK
  <2>2. \A x \in Gateway, d \in Caller, at \in {"clear", "fill"} :
            flight'[x][d].kind = k /\ flight'[x][d].at = at <=> flight[x][d].kind = k /\ flight[x][d].at = at
    BY <1>2, <1>3, <2>1
  <2>3. \A i \in Item : StillOwed(k, i)' <=> StillOwed(k, i)
    BY <1>1 DEF StillOwed
  <2> QED BY <1>1, <2>1, <2>2, <2>3, SettledAside
<1>4. CASE k = j
  <2>1. Filling(k)'
    BY <1>2, <1>4 DEF Filling
  <2>2. \A i \in Item : snapshot'[k][i] = 0
    BY <1>1, <1>4 DEF NoItems, TypeOK, Snapshots
  <2> QED BY <2>1, <2>2 DEF Settled, Written
<1> QED BY <1>3, <1>4

\* The pipeline's HSETs: the snapshot has the list, or its gateway keeps the ETag of an older one.
LEMMA SettledFill ==
  ASSUME TypeOK, SavesKnown, NEW k \in Saved, Settled(k), NEW g \in Gateway, NEW c \in Caller, FillSnapshot(g, c)
  PROVE  Settled(k)'
<1> DEFINE j == flight[g][c].kind
           got == flight[g][c].got.items
<1>1. /\ snapshot' = [snapshot EXCEPT ![j] = [i \in Item |-> IF got[i] # 0 THEN got[i] ELSE snapshot[j][i]]]
      /\ UNCHANGED <<list, owed, etag>> /\ flight[g][c].at = "fill"
  BY DEF FillSnapshot, configVars
<1>2. /\ \A x \in Gateway, d \in Caller : x # g \/ d # c => flight'[x][d] = flight[x][d]
      /\ flight'[g][c].at = "swap"
  BY SavingFlights
<1>3. etag[g][j] = <<got>>
  BY <1>1 DEF SavesKnown
<1>4. \A i \in Item : StillOwed(k, i)' <=> StillOwed(k, i)
  BY <1>1 DEF StillOwed
<1>5. CASE k # j
  <2>1. flight[g][c].kind # k /\ snapshot'[k] = snapshot[k]
    BY <1>1, <1>5 DEF TypeOK
  <2>2. \A x \in Gateway, d \in Caller, at \in {"clear", "fill"} :
            flight'[x][d].kind = k /\ flight'[x][d].at = at <=> flight[x][d].kind = k /\ flight[x][d].at = at
    <3>1. \A x \in Gateway, d \in Caller : x = g /\ d = c => flight'[x][d].at \notin {"clear", "fill"}
      BY <1>2
    <3> QED BY <1>2, <2>1, <3>1
  <2> QED BY <1>1, <1>4, <2>1, <2>2, SettledAside
<1>6. CASE k = j
  <2> HIDE DEF j, got
  <2>1. ASSUME NEW i \in Item, Behind(k, i) PROVE Behind(k, i)'
    <3>1. PICK x \in Gateway :
              \/ etag[x][k] = <<NoItems>> \/ etag[x][k][1][i] # list[k].items[i]
              \/ \E d \in Caller : flight[x][d].kind = k /\ flight[x][d].at = "clear"
      BY <2>1 DEF Behind
    <3>2. CASE etag[x][k] = <<NoItems>> \/ etag[x][k][1][i] # list[k].items[i]
      BY <1>1, <3>2 DEF Behind
    <3>3. ASSUME NEW d \in Caller, flight[x][d].kind = k, flight[x][d].at = "clear"
          PROVE  Behind(k, i)'
      <4>1. flight'[x][d] = flight[x][d]
        BY <1>1, <1>2, <3>3
      <4> QED BY <3>3, <4>1 DEF Behind
    <3> QED BY <3>1, <3>2, <3>3
  <2>2. ASSUME NEW i \in Item, got[i] # list[k].items[i] PROVE Behind(k, i)'
    BY <1>1, <1>3, <1>6, <2>2 DEF Behind
  <2>3. \A i \in Item : snapshot'[k][i] = IF got[i] # 0 THEN got[i] ELSE snapshot[k][i]
    BY <1>1, <1>6 DEF TypeOK, Snapshots
  <2>4. ASSUME NEW i \in Item
        PROVE  Behind(k, i)' \/ StillOwed(k, i)' \/ InStep(k, i)'
    <3>1. CASE got[i] # list[k].items[i]
      BY <2>2, <3>1
    <3>2. CASE got[i] = list[k].items[i] /\ got[i] # 0
      BY <1>1, <2>3, <3>2 DEF InStep
    <3>3. CASE got[i] = list[k].items[i] /\ got[i] = 0
      <4>1. InStep(k, i) => snapshot[k][i] = 0
        BY <3>3, ToldNone DEF InStep
      <4>2. Behind(k, i) \/ StillOwed(k, i) \/ snapshot[k][i] = 0
        BY <3>3, <4>1 DEF Settled, Written, Expired
      <4> QED BY <1>1, <1>4, <2>1, <2>3, <3>3, <4>2 DEF InStep
    <3> QED BY <3>1, <3>2, <3>3
  <2>5. Written(k)'
    BY <2>4 DEF Written
  <2> QED BY <2>5 DEF Settled
<1> QED BY <1>5, <1>6

\* An expiry, when nobody is writing.
LEMMA SettledExpiry ==
  ASSUME TypeOK, NEW k \in Saved, Settled(k), NEW j \in Saved, SnapshotExpires(j)
  PROVE  Settled(k)'
<1>1. /\ snapshot' = [snapshot EXCEPT ![j] = NoItems] /\ UNCHANGED <<list, owed, etag, flight>>
      /\ \A h \in Handler : owed[h] = {}
  BY DEF SnapshotExpires, configVars, syncVars
<1>2. \A i \in Item : ~StillOwed(k, i) /\ ~StillOwed(k, i)'
  BY <1>1 DEF StillOwed
<1>3. CASE k # j
  <2>1. snapshot'[k] = snapshot[k]
    BY <1>1, <1>3 DEF TypeOK
  <2> QED BY <1>1, <1>2, <2>1, SettledAside
<1>4. CASE k = j
  <2>1. \A i \in Item : snapshot'[k][i] = 0
    BY <1>1, <1>4 DEF NoItems, TypeOK, Snapshots
  <2>2. Expired(k)'
    BY <1>2, <2>1 DEF Expired
  <2> QED BY <2>2 DEF Settled
<1> QED BY <1>3, <1>4

\* An edit: no gateway has seen the revision, and a deletion is owed to the snapshot.
LEMMA SettledEdit ==
  ASSUME TypeOK, Calm, Gateway # {}, NEW k \in Saved, Settled(k),
         NEW j \in Kind, NEW i \in Item, NEW deleted \in BOOLEAN,
         list' = [list EXCEPT ![j] = Edited(j, i, deleted)], UNCHANGED <<snapshot, etag, flight>>,
         \A x \in Item : k # j \/ x # i => (StillOwed(k, x)' <=> StillOwed(k, x)),
         deleted /\ k = j => StillOwed(k, i)'
  PROVE  Settled(k)'
<1>1. /\ \A m \in Kind \ {j} : list'[m] = list[m]
      /\ list[j].edits \in Nat /\ list'[j].edits = list[j].edits + 1
      /\ \A x \in Item \ {i} : list'[j].items[x] = list[j].items[x]
      /\ list'[j].items[i] = IF deleted THEN 0 ELSE list[j].edits + 1
  BY EditedList
<1>2. CASE k # j
  <2>1. list'[k] = list[k]
    BY <1>1, <1>2, ConstantTypes
  <2> QED BY <1>2, <2>1, SettledAside
<1>3. CASE k = j
  <2>1. \A x \in Item \ {i} : /\ list'[k].items[x] = list[k].items[x]
                              /\ StillOwed(k, x)' <=> StillOwed(k, x)
    BY <1>1, <1>3
  <2>2. \A x \in Item \ {i} : Behind(k, x)' <=> Behind(k, x)
    BY <2>1 DEF Behind
  <2>3. Filling(k)' <=> Filling(k)
    BY DEF Filling
  <2>4. Behind(k, i)' \/ (StillOwed(k, i)' /\ list'[k].items[i] = 0)
    <3>1. CASE deleted
      BY <1>1, <1>3, <3>1
    <3>2. CASE ~deleted
      BY <1>1, <1>3, <3>2, FreshRevision
    <3> QED BY <3>1, <3>2
  <2>5. CASE Written(k)
    <3>1. \A x \in Item \ {i} : \/ Behind(k, x)' \/ StillOwed(k, x)' \/ InStep(k, x)'
                                \/ snapshot'[k][x] = 0 /\ Filling(k)'
      BY <2>1, <2>2, <2>3, <2>5 DEF Written, InStep
    <3>2. Written(k)'
      BY <2>4, <3>1 DEF Written
    <3> QED BY <3>2 DEF Settled
  <2>6. CASE Expired(k)
    <3>1. \A x \in Item \ {i} :
              Behind(k, x)' \/ IF StillOwed(k, x)' THEN list'[k].items[x] = 0 ELSE snapshot'[k][x] = 0
      BY <2>1, <2>2, <2>6 DEF Expired
    <3>2. Expired(k)'
      BY <2>4, <3>1 DEF Expired
    <3> QED BY <3>2 DEF Settled
  <2> QED BY <2>5, <2>6 DEF Settled
<1> QED BY <1>2, <1>3

LEMMA SettledWrite ==
  ASSUME TypeOK, Calm, Gateway # {}, NEW k \in Saved, Settled(k), NEW h \in Handler,
         NEW j \in Kind, NEW i \in Item, NEW deleted \in BOOLEAN, Write(h, j, i, deleted)
  PROVE  Settled(k)'
<1> DEFINE o == ToTell(j, i, deleted)
<1>1. /\ list' = [list EXCEPT ![j] = Edited(j, i, deleted)] /\ UNCHANGED <<snapshot, etag, flight>>
      /\ owed' = [owed EXCEPT ![h] = owed[h] \cup {o}]
  BY DEF Write, syncVars
<1>2. /\ \A m \in Kind \ {j} : list'[m] = list[m]
      /\ \A x \in Item \ {i} : list'[j].items[x] = list[j].items[x]
  BY <1>1, EditedList
<1>3. o.kind = j /\ o.item = i
  BY DEF ToTell
<1>4. deleted => o.revision # Unread
  BY DEF ToTell, Edited, Unread, TypeOK, List, Items
<1> HIDE DEF o
<1>5. /\ owed'[h] = owed[h] \cup {o} /\ \A f \in Handler \ {h} : owed'[f] = owed[f]
  BY <1>1 DEF TypeOK
<1>6. ASSUME NEW x \in Item, k # j \/ x # i
      PROVE  StillOwed(k, x)' <=> StillOwed(k, x)
  <2>1. list'[k].items[x] = list[k].items[x]
    BY <1>2, <1>6, ConstantTypes
  <2>2. o.kind # k \/ o.item # x
    BY <1>3, <1>6
  <2> QED BY <1>5, <2>1, <2>2 DEF StillOwed
<1>7. deleted /\ k = j => StillOwed(k, i)'
  BY <1>3, <1>4, <1>5 DEF StillOwed
<1> QED BY <1>1, <1>6, <1>7, SettledEdit

LEMMA SettledWriteQuietly ==
  ASSUME TypeOK, Calm, Gateway # {}, NEW k \in Saved, Settled(k), NEW h \in Handler, NEW i \in Item,
         WriteQuietly(h, i)
  PROVE  Settled(k)'
<1>1. /\ "services" \in Kind /\ list' = [list EXCEPT !["services"] = Edited("services", i, FALSE)]
      /\ UNCHANGED <<owed, snapshot, etag, flight>>
  BY DEF WriteQuietly, syncVars, Kind
<1>2. /\ \A m \in Kind \ {"services"} : list'[m] = list[m]
      /\ \A x \in Item \ {i} : list'["services"].items[x] = list["services"].items[x]
  BY <1>1, EditedList
<1>3. ASSUME NEW x \in Item, k # "services" \/ x # i
      PROVE  StillOwed(k, x)' <=> StillOwed(k, x)
  <2>1. list'[k].items[x] = list[k].items[x]
    BY <1>2, <1>3, ConstantTypes
  <2> QED BY <1>1, <2>1 DEF StillOwed
<1> QED BY <1>1, <1>3, SettledEdit

\* The document is read again: it is owed as before.
LEMMA SettledReread ==
  ASSUME TypeOK, NEW k \in Saved, Settled(k), NEW h \in Handler, NEW o \in owed[h], Reread(h, o)
  PROVE  Settled(k)'
<1> DEFINE now == list[o.kind].items[o.item]
           p == [o EXCEPT !.revision = now]
           more == IF now = 0 THEN {} ELSE {p}
<1>1. /\ owed' = [owed EXCEPT ![h] = (owed[h] \ {o}) \cup more]
      /\ o.revision = Unread /\ UNCHANGED <<list, snapshot, etag, flight>>
  BY DEF Reread, syncVars
<1>2. o \in Entry /\ now \in Nat
  BY DEF TypeOK, Entry, List, Items
<1>3. p.kind = o.kind /\ p.item = o.item /\ p.revision # Unread
  BY <1>2 DEF Entry, Unread
<1>4. more = IF now = 0 THEN {} ELSE {p}
  OBVIOUS
<1> HIDE DEF more, p
<1>5. /\ owed'[h] = (owed[h] \ {o}) \cup more /\ \A f \in Handler \ {h} : owed'[f] = owed[f]
  BY <1>1 DEF TypeOK
<1>6. ASSUME NEW i \in Item
      PROVE  StillOwed(k, i)' <=> StillOwed(k, i)
  <2>1. CASE o.kind # k \/ o.item # i
    BY <1>1, <1>3, <1>4, <1>5, <2>1 DEF StillOwed
  <2>2. CASE o.kind = k /\ o.item = i
    <3>1. CASE now = 0
      BY <1>1, <1>4, <1>5, <2>2, <3>1 DEF StillOwed
    <3>2. CASE now # 0
      <4>1. StillOwed(k, i)
        BY <2>2, <3>2 DEF StillOwed
      <4>2. StillOwed(k, i)'
        BY <1>3, <1>4, <1>5, <2>2, <3>2 DEF StillOwed
      <4> QED BY <4>1, <4>2
    <3> QED BY <3>1, <3>2
  <2> QED BY <2>1, <2>2
<1> QED BY <1>1, <1>6, SettledAside

\* The entry that is written is the document.
LEMMA SettledTell ==
  ASSUME TypeOK, ToldAsWritten, NEW k \in Saved, Settled(k), NEW h \in Handler, NEW o \in owed[h], Tell(h, o)
  PROVE  Settled(k)'
<1>1. /\ snapshot' = SnapshotWith(o) /\ owed' = [owed EXCEPT ![h] = owed[h] \ {o}]
      /\ o.revision # Unread /\ UNCHANGED <<list, etag, flight>>
  BY DEF Tell, syncVars
<1>2. o.revision = list[o.kind].items[o.item]
  BY <1>1 DEF ToldAsWritten
<1>3. /\ owed'[h] = owed[h] \ {o} /\ \A f \in Handler \ {h} : owed'[f] = owed[f]
  BY <1>1 DEF TypeOK
<1>4. o \in Entry
  BY DEF TypeOK
<1>5. CASE o.kind # k
  <2>1. snapshot'[k] = snapshot[k]
    BY <1>1, <1>5 DEF SnapshotWith, TypeOK
  <2>2. \A i \in Item : StillOwed(k, i)' <=> StillOwed(k, i)
    BY <1>1, <1>3, <1>5 DEF StillOwed
  <2> QED BY <1>1, <2>1, <2>2, SettledAside
<1>6. CASE o.kind = k
  <2> DEFINE i == o.item
  <2>1. /\ snapshot'[k][i] = Told(k, list'[k].items[i])
        /\ \A x \in Item \ {i} : snapshot'[k][x] = snapshot[k][x]
    BY <1>1, <1>2, <1>4, <1>6 DEF SnapshotWith, TypeOK, Entry, SavedItems, Snapshots
  <2>2. StillOwed(k, i)
    BY <1>1, <1>6 DEF StillOwed
  <2>3. \A x \in Item \ {i} : StillOwed(k, x)' <=> StillOwed(k, x)
    BY <1>1, <1>3 DEF StillOwed
  <2>4. \A x \in Item : Behind(k, x)' <=> Behind(k, x)
    BY <1>1 DEF Behind
  <2>5. Filling(k)' <=> Filling(k)
    BY <1>1 DEF Filling
  <2>6. i \in Item
    BY <1>4 DEF Entry
  <2> HIDE DEF i
  <2>7. CASE Written(k)
    <3>1. Written(k)'
      BY <1>1, <2>1, <2>3, <2>4, <2>5, <2>7 DEF Written, InStep
    <3> QED BY <3>1 DEF Settled
  <2>8. CASE Expired(k)
    <3>1. Behind(k, i)' \/ list'[k].items[i] = 0
      BY <1>1, <2>2, <2>4, <2>6, <2>8 DEF Expired
    <3>2. \A x \in Item \ {i} :
              Behind(k, x)' \/ IF StillOwed(k, x)' THEN list'[k].items[x] = 0 ELSE snapshot'[k][x] = 0
      BY <1>1, <2>1, <2>3, <2>4, <2>8 DEF Expired
    <3>3. list'[k].items[i] = 0 => snapshot'[k][i] = 0
      BY <2>1, ToldNone
    <3>4. Expired(k)'
      BY <3>1, <3>2, <3>3 DEF Expired
    <3> QED BY <3>4 DEF Settled
  <2> QED BY <2>7, <2>8 DEF Settled
<1> QED BY <1>5, <1>6

LEMMA SettlesInit == Init => Settles
<1> SUFFICES ASSUME Init PROVE Calm /\ SavesKnown /\ \A k \in Saved : Settled(k)
  BY DEF Settles
<1>1. FirstList.edits = 1 /\ FirstList.items \in Items /\ \A i \in Item : FirstList.items[i] <= 1
  BY DEF FirstList, Items
<1>2. /\ boot = {} /\ \A g \in Gateway : phase[g] = "running"
      /\ \A k \in Kind : list[k] = FirstList
      /\ \A g \in Gateway, k \in Kind : etag[g][k] = <<FirstList.items>>
      /\ \A g \in Gateway, c \in Caller : flight[g][c].at = "none"
      /\ \A k \in Saved : snapshot[k] = FirstList.items
  BY DEF Init, NoFlight
<1>3. Calm
  BY <1>1, <1>2 DEF Calm
<1>4. SavesKnown
  BY <1>2 DEF SavesKnown
<1>5. \A k \in Saved : Settled(k)
  BY <1>2, ConstantTypes DEF Settled, Written, InStep
<1> QED BY <1>3, <1>4, <1>5

LEMMA SettlesStep ==
  ASSUME Gateway # {}, IInv, Settles, ToldAsWritten, [Next]_vars
  PROVE  Settles'
<1> USE DEF configVars, syncVars
<1> SUFFICES ASSUME faults' = 0 PROVE Calm' /\ SavesKnown' /\ (\A k \in Saved : Settled(k))'
  BY DEF Settles
<1>1. TypeOK
  BY DEF IInv
<1>2. faults = 0
  BY <1>1, FaultlessSteps DEF Settles
<1>3. Calm /\ SavesKnown /\ \A k \in Saved : Settled(k)
  BY <1>2 DEF Settles
<1>4. Calm' /\ SavesKnown'
  BY <1>1, <1>2, <1>3, CalmStep, SavesKnownStep
<1>5. ASSUME NEW k \in Saved
      PROVE  Settled(k)'
  <2>1. Settled(k)
    BY <1>3
  <2>2. CASE UNCHANGED vars
    <3>1. \A i \in Item : StillOwed(k, i)' <=> StillOwed(k, i)
      BY <2>2 DEF vars, StillOwed
    <3> QED BY <2>1, <2>2, <3>1, SettledAside DEF vars
  <2>3. ASSUME NEW h \in Handler, NEW j \in Kind, NEW i \in Item, NEW deleted \in BOOLEAN, Write(h, j, i, deleted)
        PROVE  Settled(k)'
    BY <1>1, <1>3, <2>1, <2>3, SettledWrite
  <2>4. ASSUME NEW h \in Handler, NEW i \in Item, WriteQuietly(h, i)
        PROVE  Settled(k)'
    BY <1>1, <1>3, <2>1, <2>4, SettledWriteQuietly
  <2>5. ASSUME NEW h \in Handler, NEW o \in owed[h], Reread(h, o) \/ Tell(h, o)
        PROVE  Settled(k)'
    BY <1>1, <2>1, <2>5, SettledReread, SettledTell
  <2>6. ASSUME NEW j \in Saved, SnapshotExpires(j)
        PROVE  Settled(k)'
    BY <1>1, <2>1, <2>6, SettledExpiry
  <2>7. ASSUME NEW g \in Gateway, NEW c \in Caller,
               Poll(g) \/ ApplyReload(g) \/ NotModified(g, c) \/ Swap(g, c)
        PROVE  Settled(k)'
    <3>1. UNCHANGED <<list, owed, snapshot, etag>>
      BY <2>7 DEF Poll, ApplyReload, NotModified, Swap
    <3>2. \A x \in Gateway, d \in Caller, at \in {"clear", "fill"} :
              flight'[x][d].kind = k /\ flight'[x][d].at = at <=> flight[x][d].kind = k /\ flight[x][d].at = at
      BY <1>1, <2>7, FlightsAside
    <3>3. \A i \in Item : StillOwed(k, i)' <=> StillOwed(k, i)
      BY <3>1 DEF StillOwed
    <3> QED BY <2>1, <3>1, <3>2, <3>3, SettledAside
  <2>8. ASSUME NEW g \in Gateway, NEW c \in Caller, Modified(g, c) \/ ClearSnapshot(g, c) \/ FillSnapshot(g, c)
        PROVE  Settled(k)'
    BY <1>1, <1>3, <2>1, <2>8, SettledModified, SettledClear, SettledFill
  <2>9. "poll" \in Caller
    BY DEF Caller
  <2> QED BY <1>1, <1>2, <1>3, <2>2, <2>3, <2>4, <2>5, <2>6, <2>7, <2>8, <2>9, FaultlessSteps
<1> QED BY <1>4, <1>5

LEMMA SettlesIsCurrent ==
  ASSUME Gateway # {}, TypeOK, Settles
  PROVE  SnapshotIsCurrent
<1> SUFFICES ASSUME faults = 0, NothingUnderWay, NEW k \in Saved, list[k].items # NoItems
             PROVE  snapshot[k] = NoItems \/ \A i \in Item : InStep(k, i)
  BY DEF SnapshotIsCurrent, InStep
<1>1. k \in Kind /\ Settled(k)
  BY ConstantTypes DEF Settles
<1>2. \A g \in Gateway, c \in Caller : flight[g][c].at = "none"
  BY DEF NothingUnderWay, Syncing
<1>3. \A i \in Item : ~Behind(k, i) /\ ~StillOwed(k, i)
  <2>1. list[k].items \in Items /\ \A g \in Gateway : etag[g][k] = <<list[k].items>>
    BY <1>1 DEF NothingUnderWay, TypeOK, List
  <2>2. \A g \in Gateway, i \in Item : etag[g][k] # <<NoItems>> /\ etag[g][k][1][i] = list[k].items[i]
    BY <2>1
  <2> QED BY <1>2, <2>2 DEF Behind, StillOwed, NothingUnderWay
<1>4. ~Filling(k)
  BY <1>2 DEF Filling
<1>5. CASE Written(k)
  BY <1>3, <1>4, <1>5 DEF Written
<1>6. CASE Expired(k)
  <2>1. \A i \in Item : snapshot[k][i] = 0
    BY <1>3, <1>6 DEF Expired
  <2>2. snapshot[k] \in [Item -> Int]
    BY <1>1 DEF TypeOK, SavedItems, Snapshots
  <2> QED BY <2>1, <2>2 DEF NoItems
<1> QED BY <1>1, <1>5, <1>6 DEF Settled

\* The snapshot's entries are the list's, limits left out, when the dust has settled, however many requests are handled at the same
\* time, as long as what each has read of a document is what there is when it tells Redis.
THEOREM SnapshotSettles ==
  ASSUME Gateway # {}
  PROVE  Spec /\ []ToldAsWritten => []SnapshotIsCurrent
<1>1. Init => Settles
  BY SettlesInit
<1>2. IInv /\ Settles /\ ToldAsWritten /\ [Next]_vars => Settles'
  BY SettlesStep
<1>3. IInv /\ Settles => SnapshotIsCurrent
  BY SettlesIsCurrent DEF IInv
<1> QED
  BY <1>1, <1>2, <1>3, SyncInvariant, PTL DEF Spec

\* One request at a time tells what it has read.
LEMMA OneTellsAsWritten ==
  ASSUME TypeOK, \A g, h \in Handler : g = h, ToldAsWritten, [Next]_vars
  PROVE  ToldAsWritten'
<1> USE DEF configVars, syncVars
<1>1. CASE UNCHANGED <<list, owed>>
  BY <1>1 DEF ToldAsWritten
<1>2. ASSUME NEW h \in Handler, NEW k \in Kind, NEW i \in Item, NEW deleted \in BOOLEAN, Write(h, k, i, deleted)
      PROVE  ToldAsWritten'
  <2> DEFINE p == ToTell(k, i, deleted)
  <2>1. /\ list' = [list EXCEPT ![k] = Edited(k, i, deleted)]
        /\ owed' = [owed EXCEPT ![h] = owed[h] \cup {p}]
        /\ \A o \in owed[h] : o.kind # k \/ o.item # i
    BY <1>2 DEF Write
  <2>2. p.kind = k /\ p.item = i /\ p.revision \in {Unread, list'[k].items[i]}
    <3>1. list'[k] = Edited(k, i, deleted)
      BY <2>1 DEF TypeOK
    <3> QED BY <3>1 DEF ToTell
  <2>3. /\ \A m \in Kind \ {k} : list'[m] = list[m]
        /\ \A x \in Item \ {i} : list'[k].items[x] = list[k].items[x]
    BY <2>1, EditedList
  <2> HIDE DEF p
  <2>4. owed'[h] = owed[h] \cup {p}
    BY <2>1 DEF TypeOK
  <2>5. ASSUME NEW o \in owed[h]
        PROVE  o.revision \in {Unread, list'[o.kind].items[o.item]}
    <3>1. o.kind \in Kind /\ o.item \in Item
      BY DEF TypeOK, Entry
    <3>2. list'[o.kind].items[o.item] = list[o.kind].items[o.item]
      BY <2>1, <2>3, <3>1
    <3> QED BY <3>2 DEF ToldAsWritten
  <2>6. \A o \in owed'[h] : o.revision \in {Unread, list'[o.kind].items[o.item]}
    BY <2>2, <2>4, <2>5
  <2> QED BY <2>6 DEF ToldAsWritten
<1>3. ASSUME NEW h \in Handler, NEW i \in Item, WriteQuietly(h, i)
      PROVE  ToldAsWritten'
  <2>1. owed'[h] = {}
    BY <1>3 DEF WriteQuietly
  <2> QED BY <2>1 DEF ToldAsWritten
<1>4. ASSUME NEW h \in Handler, NEW o \in owed[h], Reread(h, o)
      PROVE  ToldAsWritten'
  <2> DEFINE now == list[o.kind].items[o.item]
             p == [o EXCEPT !.revision = now]
             more == IF now = 0 THEN {} ELSE {p}
  <2>1. owed' = [owed EXCEPT ![h] = (owed[h] \ {o}) \cup more] /\ UNCHANGED list
    BY <1>4 DEF Reread
  <2>2. o \in Entry
    BY DEF TypeOK
  <2>3. p.kind = o.kind /\ p.item = o.item /\ p.revision = list[o.kind].items[o.item]
    BY <2>2 DEF Entry
  <2>4. more \subseteq {p}
    OBVIOUS
  <2> HIDE DEF more, p
  <2>5. owed'[h] = (owed[h] \ {o}) \cup more
    BY <2>1 DEF TypeOK
  <2>6. \A q \in owed'[h] : q.revision \in {Unread, list'[q.kind].items[q.item]}
    BY <2>1, <2>3, <2>4, <2>5 DEF ToldAsWritten
  <2> QED BY <2>6 DEF ToldAsWritten
<1>5. ASSUME NEW h \in Handler, owed'[h] \subseteq owed[h], UNCHANGED list
      PROVE  ToldAsWritten'
  BY <1>5 DEF ToldAsWritten
<1>6. ASSUME NEW h \in Handler, HandlerNext(h)
      PROVE  ToldAsWritten'
  <2>1. ASSUME NEW o \in owed[h], Tell(h, o) \/ TellFails(h, o)
        PROVE  ToldAsWritten'
    BY <1>5, <2>1 DEF Tell, TellFails, TypeOK
  <2>2. HandlerDies(h) => ToldAsWritten'
    BY <1>5 DEF HandlerDies, TypeOK
  <2> QED BY <1>2, <1>3, <1>4, <1>6, <2>1, <2>2 DEF HandlerNext
<1>7. ASSUME NEW g \in Gateway, GatewayNext(g)
      PROVE  UNCHANGED <<list, owed>>
  <2>1. \A c \in Caller : SyncNext(g, c) => UNCHANGED <<list, owed>>
    BY DEF SyncNext, NotModified, Modified, ResponseCut, FetchFails, ClearSnapshot, FillSnapshot, SaveFails, Swap
  <2> QED
    BY <1>7, <2>1 DEF GatewayNext, Poll, ApplyReload, ReloadLost, Restarts, LoadSources, LoadServices, LoadFails
<1>8. \/ \E k \in Saved : PodBoots(k) \/ SnapshotExpires(k)
      \/ \E o \in boot : BootWrite(o)
      \/ UNCHANGED vars
      => UNCHANGED <<list, owed>>
  BY DEF PodBoots, SnapshotExpires, BootWrite, vars
<1> QED BY <1>1, <1>6, <1>7, <1>8 DEF Next

\* So requests that do not overlap leave the snapshot as the lists are, whatever gateways save.
THEOREM OneWriterSettles ==
  ASSUME Gateway # {}, \A g, h \in Handler : g = h
  PROVE  Spec => []SnapshotIsCurrent
<1>1. Init => ToldAsWritten
  BY DEF Init, ToldAsWritten
<1>2. IInv /\ ToldAsWritten /\ [Next]_vars => ToldAsWritten'
  BY OneTellsAsWritten DEF IInv
<1>3. Spec => []ToldAsWritten
  BY <1>1, <1>2, SyncInvariant, PTL DEF Spec
<1> QED
  BY <1>3, SnapshotSettles, PTL

-----------------------------------------------------------------------------
(* The trie that a gateway builds from its list of services.               *)



\* A set of naturals has a least element.
LEMMA Least ==
    ASSUME NEW S, S \subseteq Nat, S # {}
    PROVE  \E m \in S : \A n \in S : m <= n
<1>1. PICK m \in S : \A n \in S : ~(<<n, m>> \in OpToRel(<, Nat))
  BY WFMin, NatLessThanWellFounded, Zenon
<1>2. \A n \in S : ~(n < m)
  BY <1>1 DEF OpToRel
<1> QED BY <1>2

\* Induction over the passes of a loop.
Advances(N, T) == 0 \in T /\ \A n \in 1 .. N : n - 1 \in T => n \in T
LEMMA Steps ==
    ASSUME NEW N \in Nat, NEW T, Advances(N, T)
    PROVE  N \in T
<1> USE DEF Advances
<1> DEFINE Bad == {n \in 0 .. N : n \notin T}
<1> SUFFICES ASSUME Bad # {} PROVE FALSE
  OBVIOUS
<1>1. Bad \subseteq Nat
  OBVIOUS
<1>2. PICK m \in Bad : \A n \in Bad : m <= n
  BY <1>1, Least
<1>3. m # 0 /\ m \in 0 .. N /\ m \notin T
  OBVIOUS
<1>4. m - 1 \in 0 .. N /\ m - 1 \notin Bad
  BY <1>2, <1>3
<1> QED BY <1>3, <1>4

\* A loop of N passes, each of which makes a value of S of the one before, has a value of S after each.
Closed(N, S, step) == \A n \in 1 .. N, x \in S : step[<<n, x>>] \in S
Run(N, S, base, step, f) ==
    f \in [0 .. N -> S] /\ f[0] = base /\ \A n \in 1 .. N : f[n] = step[<<n, f[n - 1]>>]
LEMMA Loops ==
    ASSUME NEW N \in Nat, NEW S, NEW base \in S, NEW step, Closed(N, S, step)
    PROVE  \E f : Run(N, S, base, step, f)
<1> DEFINE T == {k \in 0 .. N : \E f : Run(k, S, base, step, f)}
<1>1. 0 \in T
  <2> DEFINE f == [n \in 0 .. 0 |-> base]
  <2>1. Run(0, S, base, step, f)
    BY DEF Run
  <2> HIDE DEF f
  <2> QED BY <2>1
<1>2. ASSUME NEW k \in 1 .. N, k - 1 \in T PROVE k \in T
  <2>1. PICK f : Run(k - 1, S, base, step, f)
    BY <1>2
  <2> DEFINE g == [n \in 0 .. k |-> IF n = k THEN step[<<k, f[k - 1]>>] ELSE f[n]]
  <2>2. step[<<k, f[k - 1]>>] \in S
    BY <2>1 DEF Run, Closed
  <2>3. g \in [0 .. k -> S] /\ g[0] = base
    BY <2>1, <2>2 DEF Run
  <2>4. ASSUME NEW n \in 1 .. k PROVE g[n] = step[<<n, g[n - 1]>>]
    <3>1. n \in 0 .. k /\ n - 1 \in 0 .. k /\ n - 1 # k
      OBVIOUS
    <3>2. g[n - 1] = f[n - 1]
      BY <3>1
    <3>3. CASE n = k
      BY <3>1, <3>2, <3>3
    <3>4. CASE n # k
      <4>1. n \in 1 .. k - 1
        BY <3>4
      <4>2. f[n] = step[<<n, f[n - 1]>>]
        BY <2>1, <4>1 DEF Run
      <4>3. g[n] = f[n]
        BY <3>1, <3>4
      <4> QED BY <3>2, <4>2, <4>3
    <3> QED BY <3>3, <3>4
  <2>5. Run(k, S, base, step, g)
    BY <2>3, <2>4 DEF Run
  <2> HIDE DEF g
  <2> QED BY <2>5
<1>3. N \in T
  <2> HIDE DEF T
  <2>1. Advances(N, T)
    BY <1>1, <1>2 DEF Advances
  <2> QED BY <2>1, Steps
<1> QED BY <1>3

-----------------------------------------------------------------------------
(* Paths and the edges they make.                                          *)

EdgeSet == [kind : {"literal"}, text : Text] \cup [kind : {"pattern"}, name : ParamName, ext : STRING]
           \cup {Hole}
Full == Seq(Segment \cup {Star})
Res == [service : Service, path : Path]
Lists == Seq([id : Service, paths : Seq(Path)])

LEMMA FullPaths ==
    ASSUME WellFormed, NEW res \in Res
    PROVE  FullPath(res) \in Full
<1>1. Base[res.service] \in Full /\ res.path \in Full
  BY DEF Res, Full, WellFormed
<1> QED BY <1>1, ConcatProperties DEF Full, FullPath

\* A path's body is its segments up to the first star.
LEMMA Bodies ==
    ASSUME NEW p \in Full
    PROVE  /\ Body(p) \in Seq(Segment)
           /\ Len(Body(p)) \in Nat /\ Len(Body(p)) <= Len(p)
           /\ \A i \in 1 .. Len(Body(p)) : Body(p)[i] = p[i] /\
               Body(p)[i] \in Segment
           /\ ~IsWild(p) => Len(Body(p)) = Len(p)
<1>1. Len(p) \in Nat /\ DOMAIN p = 1 .. Len(p) /\ \A i \in 1 .. Len(p) : p[i] \in Segment \cup
          {Star}
  BY DEF Full
<1>2. CASE ~IsWild(p)
  <2>1. \A i \in 1 .. Len(p) : p[i] \in Segment
    BY <1>1, <1>2 DEF IsWild
  <2>2. p \in Seq(Segment)
    BY <1>1, <2>1 DEF Full
  <2> QED BY <1>1, <1>2, <2>1, <2>2 DEF Body
<1>3. CASE IsWild(p)
  <2> DEFINE S == {i \in DOMAIN p : p[i] = Star}
             First(i) == p[i] = Star /\ \A j \in 1 .. i - 1 : p[j] # Star
  <2>0. S \subseteq Nat /\ S # {}
    BY <1>1, <1>3 DEF IsWild
  <2>1. PICK m \in S : \A i \in S : m <= i
    BY <2>0, Least
  <2>2. m \in DOMAIN p /\ First(m)
    BY <1>1, <2>1
  <2>3. PICK c : c = (CHOOSE i \in DOMAIN p : First(i))
    OBVIOUS
  <2>4. c \in 1 .. Len(p) /\ First(c)
    BY <1>1, <2>2, <2>3
  <2>5. Body(p) = SubSeq(p, 1, c - 1)
    BY <1>3, <2>3 DEF Body
  <2>6. \A i \in 1 .. c - 1 : p[i] \in Segment
    BY <1>1, <2>4
  <2>7. /\ SubSeq(p, 1, c - 1) \in Seq(Segment)
        /\ Len(SubSeq(p, 1, c - 1)) = c - 1
        /\ \A i \in 1 .. c - 1 : SubSeq(p, 1, c - 1)[i] = p[i]
    BY <2>4, <2>6, SubSeqProperties
  <2> QED BY <1>1, <1>3, <2>4, <2>5, <2>6, <2>7
<1> QED BY <1>2, <1>3

LEMMA EdgeKinds ==
    ASSUME NEW seg \in Segment
    PROVE  Edge(seg) \in EdgeSet /\ seg.kind \in {"literal", "pattern", "param"}
BY DEF Segment, EdgeSet, Edge, Hole

LEMMA EdgesOK ==
    ASSUME NEW p \in Full
    PROVE  /\ Edges(p) \in Seq(EdgeSet) /\ Len(Edges(p)) = Len(Body(p)) /\
               Len(Body(p)) \in Nat
           /\ \A i \in 1 .. Len(Body(p)) : Edges(p)[i] = Edge(Body(p)[i])
<1>1. PICK b \in Seq(Segment) : b = Body(p)
  BY Bodies
<1>2. Edges(p) = [i \in 1 .. Len(b) |-> Edge(b[i])] /\ Len(b) \in Nat
  BY <1>1 DEF Edges
<1>3. \A i \in 1 .. Len(b) : Edge(b[i]) \in EdgeSet
  BY <1>1, EdgeKinds
<1> QED BY <1>1, <1>2, <1>3

\* Node n is on the way to node m.
Under(n, m) == Len(n) <= Len(m) /\ \A i \in 1 .. Len(n) : n[i] = m[i]
Node == Seq(EdgeSet)

LEMMA PrefixIs ==
    ASSUME NEW n \in Node, NEW m \in Node
    PROVE  /\ IsPrefix(n, m) <=> Under(n, m)
           /\ n \in Prefixes(m) <=> Under(n, m)
<1>1. /\ Len(n) \in Nat /\ Len(m) \in Nat /\ SubSeq(n, 1, Len(n)) = n
      /\ \A i \in 1 .. Len(m) : m[i] \in EdgeSet
  BY SubSeqFull DEF Node
<1>2. ASSUME NEW k \in 0 .. Len(m)
      PROVE  /\ SubSeq(m, 1, k) \in Node /\ Len(SubSeq(m, 1, k)) = k
             /\ \A i \in 1 .. k : SubSeq(m, 1, k)[i] = m[i]
  BY <1>1, SubSeqProperties DEF Node
<1>3. ASSUME Under(n, m) PROVE n = SubSeq(m, 1, Len(n)) /\ Len(n) \in 0 .. Len(m)
  BY <1>1, <1>2, <1>3, SeqEqual DEF Under, Node
<1>4. IsPrefix(n, m) => Under(n, m)
  BY <1>1, <1>2 DEF IsPrefix, Under
<1>5. ASSUME n \in Prefixes(m) PROVE Under(n, m)
  <2>1. PICK k \in 0 .. Len(m) : n = SubSeq(m, 1, k)
    BY <1>5 DEF Prefixes
  <2> QED BY <1>1, <1>2, <2>1 DEF Under
<1>6. Under(n, m) => n \in Prefixes(m)
  BY <1>3 DEF Prefixes
<1>7. Under(n, m) => IsPrefix(n, m)
  BY <1>1, <1>3 DEF IsPrefix, Under
<1> QED BY <1>4, <1>5, <1>6, <1>7

LEMMA PrefixesAre ==
    ASSUME NEW m \in Node
    PROVE  Prefixes(m) = {n \in Node : Under(n, m)}
<1>1. Len(m) \in Nat /\ \A i \in 1 .. Len(m) : m[i] \in EdgeSet
  BY DEF Node
<1>2. Prefixes(m) \subseteq Node
  BY <1>1, SubSeqProperties DEF Prefixes, Node
<1> QED BY <1>2, PrefixIs

-----------------------------------------------------------------------------
(* What a trie holds.                                                      *)

Way(res) == Edges(FullPath(res))
TrieNode == [end : Res \cup {Nothing}, wild : Res \cup {Nothing}, param : STRING \cup {Nothing}]
Tries == UNION {[D -> TrieNode] : D \in SUBSET Node}

\* On its way, a resource names the parameter below node n.
NamesBelow(res, n, name) ==
    /\ Under(n, Way(res)) /\ Len(n) < Len(Way(res))
    /\ Way(res)[Len(n) + 1] = Hole /\ Body(FullPath(res))[Len(n) + 1].name = name
PassesHole(res, n) == Under(n, Way(res)) /\ Len(n) < Len(Way(res)) /\ Way(res)[Len(n) + 1] = Hole

Ways(S) == {n \in Node : n = <<>> \/ \E res \in S : Under(n, Way(res))}

\* The trie of the resources S, in whatever order they came.
Holds(t, S) ==
    /\ t \in [Ways(S) -> TrieNode]
    /\ \A n \in Ways(S) :
          /\ t[n].end # Nothing => t[n].end \in S /\ Way(t[n].end) = n /\
              ~IsWild(FullPath(t[n].end))
          /\ t[n].wild # Nothing => t[n].wild \in S /\ Way(t[n].wild) = n /\
              IsWild(FullPath(t[n].wild))
          /\ t[n].param # Nothing => \E res \in S : NamesBelow(res, n, t[n].param)
    /\ \A res \in S :
          /\ IsWild(FullPath(res)) => t[Way(res)].wild # Nothing
          /\ ~IsWild(FullPath(res)) => t[Way(res)].end # Nothing
          /\ \A n \in Ways(S) : PassesHole(res, n) => t[n].param # Nothing

LEMMA WayOK ==
    ASSUME WellFormed, NEW res \in Res
    PROVE  /\ Way(res) \in Node /\ Len(Way(res)) = Len(Body(FullPath(res))) /\
               Len(Way(res)) \in Nat
           /\ Under(Way(res), Way(res)) /\ Under(<<>>, Way(res))
BY FullPaths, EdgesOK DEF Way, Node, Under

\* A node below which a way goes on with a parameter has that parameter's name.
LEMMA HoleName ==
    ASSUME WellFormed, NEW res \in Res, NEW n \in Node, PassesHole(res, n)
    PROVE  /\ FullPath(res)[Len(n) + 1].name \in STRING
           /\ NamesBelow(res, n, FullPath(res)[Len(n) + 1].name)
<1>1. PICK p \in Full : p = FullPath(res)
  BY FullPaths
<1>2. PICK i : i = Len(n) + 1
  OBVIOUS
<1>3. i \in 1 .. Len(Body(p)) /\ Edges(p)[i] = Hole /\ Len(n) < Len(Way(res))
  BY <1>1, <1>2, EdgesOK DEF PassesHole, Way, Node
<1>4. Edge(Body(p)[i]) = Hole /\ Body(p)[i] \in Segment /\
          Body(p)[i] = p[i]
  BY <1>3, EdgesOK, Bodies
<1>5. p[i].name \in STRING
  <2>1. p[i].name \in ParamName
    BY <1>4 DEF Edge, Hole, Segment
  <2> QED BY <2>1 DEF WellFormed
<1> QED BY <1>1, <1>2, <1>3, <1>4, <1>5 DEF NamesBelow, PassesHole

\* What an insertion leaves at a node.
Inserted(u, t, res, n) ==
    /\ u[n].end = IF n = Way(res) /\ ~IsWild(FullPath(res)) THEN res
                ELSE NodeOf(t, n).end
    /\ u[n].wild = IF n = Way(res) /\ IsWild(FullPath(res)) THEN res
                 ELSE NodeOf(t, n).wild
    /\ u[n].param = IF PassesHole(res, n) /\ NodeOf(t, n).param = Nothing
                    THEN FullPath(res)[Len(n) + 1].name ELSE NodeOf(t, n).param

With(D, res) == D \cup {n \in Node : Under(n, Way(res))}

LEMMA InsertIs ==
    ASSUME WellFormed, NEW D \in SUBSET Node, NEW t \in [D -> TrieNode], NEW res \in Res
    PROVE  /\ InsertResource(t, res) \in [With(D, res) -> TrieNode]
           /\ \A n \in With(D, res) : Inserted(InsertResource(t, res), t, res, n)
<1> DEFINE E == With(D, res)
           new(n) == [end |-> IF n = Way(res) /\ ~IsWild(FullPath(res)) THEN res
                                 ELSE NodeOf(t, n).end,
                      wild |-> IF n = Way(res) /\ IsWild(FullPath(res)) THEN res
                                  ELSE NodeOf(t, n).wild,
                      param |-> IF PassesHole(res, n) /\ NodeOf(t, n).param = Nothing
                                THEN FullPath(res)[Len(n) + 1].name ELSE NodeOf(t, n).param]
<1>1. D \cup Prefixes(Way(res)) = E /\ E \subseteq Node /\ DOMAIN t = D
  BY WayOK, PrefixesAre DEF With
<1>2. ASSUME NEW n \in E
      PROVE  (IsStrictPrefix(n, Way(res)) /\ Way(res)[Len(n) + 1] = Hole) <=>
            PassesHole(res, n)
  <2>1. IsPrefix(n, Way(res)) <=> Under(n, Way(res))
    BY <1>1, WayOK, PrefixIs
  <2>2. Under(n, Way(res)) => (n # Way(res) <=> Len(n) < Len(Way(res)))
    <3>1. Len(n) \in Nat /\ Len(Way(res)) \in Nat /\ n \in Seq(EdgeSet) /\ Way(res) \in Seq(EdgeSet)
      BY <1>1, WayOK DEF Node
    <3>2. ASSUME Under(n, Way(res)), Len(n) = Len(Way(res)) PROVE n = Way(res)
      BY <3>1, <3>2, SeqEqual DEF Under
    <3> QED BY <3>1, <3>2 DEF Under
  <2> QED BY <2>1, <2>2 DEF IsStrictPrefix, PassesHole
<1>3. PICK u : u = InsertResource(t, res)
  OBVIOUS
<1>4. u = [n \in E |-> [end |-> IF n = Way(res) /\ ~IsWild(FullPath(res)) THEN res
                                   ELSE NodeOf(t, n).end,
                        wild |-> IF n = Way(res) /\ IsWild(FullPath(res)) THEN res
                                    ELSE NodeOf(t, n).wild,
                        param |-> IF (/\ IsStrictPrefix(n, Way(res)) /\
                                          Way(res)[Len(n) + 1] = Hole
                                      /\ NodeOf(t, n).param = Nothing)
                                  THEN FullPath(res)[Len(n) + 1].name
                                  ELSE NodeOf(t, n).param]]
  BY <1>1, <1>3 DEF InsertResource, Way
<1>5. u = [n \in E |-> new(n)]
  BY <1>2, <1>4
<1>6. ASSUME NEW n \in E PROVE new(n) \in TrieNode
  <2>1. NodeOf(t, n) \in TrieNode
    BY <1>1 DEF EmptyNode, TrieNode, NodeOf
  <2>2. PassesHole(res, n) => FullPath(res)[Len(n) + 1].name \in STRING
    BY <1>1, HoleName
  <2> QED BY <2>1, <2>2 DEF TrieNode
<1>7. u \in [E -> TrieNode]
  <2> HIDE DEF new
  <2> QED BY <1>5, <1>6
<1>8. ASSUME NEW n \in E PROVE Inserted(u, t, res, n)
  <2>1. u[n] = new(n)
    <3> HIDE DEF new
    <3> QED BY <1>5
  <2> QED BY <2>1 DEF Inserted
<1> QED BY <1>3, <1>7, <1>8

LEMMA InsertTypes ==
    ASSUME WellFormed, NEW t \in Tries, NEW res \in Res
    PROVE  InsertResource(t, res) \in Tries
<1>1. PICK D \in SUBSET Node : t \in [D -> TrieNode]
  BY DEF Tries
<1>2. InsertResource(t, res) \in [With(D, res) -> TrieNode] /\ With(D, res) \in SUBSET Node
  BY <1>1, InsertIs DEF With
<1> QED BY <1>2 DEF Tries

LEMMA InsertHolds ==
    ASSUME WellFormed, NEW S \in SUBSET Res, NEW t, Holds(t, S), NEW res \in Res
    PROVE  Holds(InsertResource(t, res), S \cup {res})
<1> DEFINE old(n) == NodeOf(t, n)
           R == S \cup {res}
<1>1. t \in [Ways(S) -> TrieNode] /\ Ways(S) \in SUBSET Node
  BY DEF Holds, Ways
<1>2. Ways(R) = Ways(S) \cup {n \in Node : Under(n, Way(res))}
  BY DEF Ways
<1>3. PICK u : u = InsertResource(t, res)
  OBVIOUS
<1>4. /\ u \in [Ways(R) -> TrieNode]
      /\ \A n \in Ways(R) :
            /\ u[n].end = IF n = Way(res) /\ ~IsWild(FullPath(res)) THEN res ELSE old(n).end
            /\ u[n].wild = IF n = Way(res) /\ IsWild(FullPath(res)) THEN res ELSE old(n).wild
            /\ u[n].param = IF PassesHole(res, n) /\ old(n).param = Nothing
                            THEN FullPath(res)[Len(n) + 1].name ELSE old(n).param
  <2> HIDE DEF R
  <2>1. /\ u \in [Ways(R) -> TrieNode]
        /\ \A n \in Ways(R) : Inserted(u, t, res, n)
    <3>1. /\ u \in [With(Ways(S), res) -> TrieNode]
          /\ \A n \in With(Ways(S), res) : Inserted(u, t, res, n)
      BY <1>1, <1>3, InsertIs
    <3> QED BY <1>2, <3>1 DEF With
  <2> QED BY <2>1 DEF Inserted
<1>5. EmptyNode.end = Nothing /\ EmptyNode.wild = Nothing /\ EmptyNode.param = Nothing
  BY DEF EmptyNode
<1>6. ASSUME NEW n \in Ways(R)
      PROVE  /\ old(n).end # Nothing => n \in Ways(S) /\ old(n) = t[n]
             /\ old(n).wild # Nothing => n \in Ways(S) /\ old(n) = t[n]
             /\ old(n).param # Nothing => n \in Ways(S) /\ old(n) = t[n]
  BY <1>1, <1>5 DEF NodeOf
<1>a. ASSUME NEW n \in Ways(S) PROVE old(n) = t[n]
  BY <1>1 DEF NodeOf
<1> HIDE DEF old
<1>7. ASSUME NEW n \in Ways(R)
      PROVE  /\ u[n].end # Nothing => u[n].end \in R /\ Way(u[n].end) = n /\
                 ~IsWild(FullPath(u[n].end))
             /\ u[n].wild # Nothing => u[n].wild \in R /\ Way(u[n].wild) = n /\
                 IsWild(FullPath(u[n].wild))
  <2>1. u[n].end # old(n).end => u[n].end = res /\ n = Way(res) /\ ~IsWild(FullPath(res))
    BY <1>4
  <2>3. u[n].wild # old(n).wild => u[n].wild = res /\ n = Way(res) /\ IsWild(FullPath(res))
    BY <1>4
  <2>4. old(n).end # Nothing \/ old(n).wild # Nothing => n \in Ways(S) /\ old(n) = t[n]
    BY <1>6
  <2>2. n \in Ways(S) =>
            /\ t[n].end # Nothing => t[n].end \in S /\ Way(t[n].end) = n /\
                ~IsWild(FullPath(t[n].end))
            /\ t[n].wild # Nothing => t[n].wild \in S /\ Way(t[n].wild) = n /\
                IsWild(FullPath(t[n].wild))
    BY DEF Holds
  <2>5. u[n].end # Nothing => u[n].end \in R /\ Way(u[n].end) = n /\
            ~IsWild(FullPath(u[n].end))
    BY <2>1, <2>2, <2>4
  <2>6. u[n].wild # Nothing => u[n].wild \in R /\ Way(u[n].wild) = n /\
            IsWild(FullPath(u[n].wild))
    BY <2>2, <2>3, <2>4
  <2> QED BY <2>5, <2>6
<1>8. ASSUME NEW n \in Ways(R), u[n].param # Nothing
      PROVE  \E q \in R : NamesBelow(q, n, u[n].param)
  <2>1. CASE PassesHole(res, n) /\ old(n).param = Nothing
    <3>1. NamesBelow(res, n, FullPath(res)[Len(n) + 1].name)
      BY <2>1, HoleName DEF Ways
    <3> QED BY <1>4, <2>1, <3>1
  <2>2. CASE ~(PassesHole(res, n) /\ old(n).param = Nothing)
    <3>1. u[n].param = t[n].param /\ n \in Ways(S)
      BY <1>4, <1>6, <1>8, <2>2
    <3> QED BY <1>8, <3>1 DEF Holds
  <2> QED BY <2>1, <2>2
<1>9. \A q \in R : Way(q) \in Ways(R)
  BY WayOK DEF Ways
<1>10. ASSUME NEW q \in R
       PROVE  /\ IsWild(FullPath(q)) => u[Way(q)].wild # Nothing
              /\ ~IsWild(FullPath(q)) => u[Way(q)].end # Nothing
  <2>1. res # Nothing
    BY DEF Res, WellFormed
  <2>2. CASE Way(q) = Way(res) /\ (IsWild(FullPath(q)) <=> IsWild(FullPath(res)))
    <3>1. Way(q) \in Ways(R) /\ Way(q) = Way(res)
      BY <1>9, <2>2
    <3>2. CASE IsWild(FullPath(res))
      BY <1>4, <2>1, <2>2, <3>1, <3>2
    <3>3. CASE ~IsWild(FullPath(res))
      BY <1>4, <2>1, <2>2, <3>1, <3>3
    <3> QED BY <3>2, <3>3
  <2>3. CASE q \in S /\ ~(Way(q) = Way(res) /\ (IsWild(FullPath(q)) <=>
            IsWild(FullPath(res))))
    <3>1. Way(q) \in Ways(S)
      BY <2>3, WayOK DEF Ways
    <3>2. /\ IsWild(FullPath(q)) => u[Way(q)].wild = t[Way(q)].wild
          /\ ~IsWild(FullPath(q)) => u[Way(q)].end = t[Way(q)].end
      BY <1>4, <1>9, <1>a, <2>3, <3>1
    <3> QED BY <2>3, <3>2 DEF Holds
  <2> QED BY <2>2, <2>3
<1>11. ASSUME NEW q \in R, NEW n \in Ways(R), PassesHole(q, n)
       PROVE  u[n].param # Nothing
  <2>3. PassesHole(res, n) => FullPath(res)[Len(n) + 1].name # Nothing
    BY HoleName DEF Ways, WellFormed
  <2>1. CASE q = res
    <3>1. FullPath(res)[Len(n) + 1].name # Nothing
      BY <1>11, <2>1, HoleName DEF Ways, WellFormed
    <3> QED BY <1>4, <1>11, <2>1, <3>1
  <2>2. CASE q \in S
    <3>1. n \in Ways(S)
      BY <1>11, <2>2 DEF Ways, PassesHole
    <3>2. t[n].param # Nothing
      BY <1>11, <2>2, <3>1 DEF Holds
    <3> QED BY <1>4, <1>11, <1>a, <3>1, <3>2, <2>3
  <2> QED BY <2>1, <2>2
<1> QED BY <1>3, <1>4, <1>7, <1>8, <1>10, <1>11 DEF Holds

-----------------------------------------------------------------------------
(* Loading.                                                                *)

Resource(svc, j) == [service |-> svc.id, path |-> svc.paths[j]]
Own(svc, n) == {Resource(svc, j) : j \in 1 .. n}
Entries == [id : Service, paths : Seq(Path)]

LEMMA ResourceOK ==
    ASSUME NEW svc \in Entries, NEW j \in 1 .. Len(svc.paths)
    PROVE  Resource(svc, j) \in Res
<1>1. svc.id \in Service /\ svc.paths \in Seq(Path)
  BY DEF Entries
<1>2. svc.paths[j] \in Path
  BY <1>1, ElementOfSeq
<1> QED BY <1>1, <1>2 DEF Resource, Res

\* The paths of one service, in order.
LEMMA ServiceLoop ==
    ASSUME WellFormed, NEW t \in Tries, NEW svc \in Entries, NEW N \in Nat, N = Len(svc.paths)
    PROVE  \E a : /\ a[0] = t /\ LoadService(t, svc) = a[N]
                  /\ \A n \in 1 .. N : a[n] = InsertResource(a[n - 1], Resource(svc, n))
<1> DEFINE Pass(n, m) == InsertResource(m, Resource(svc, n))
           Passes(a) == [n \in 0 .. N |-> IF n = 0 THEN t ELSE Pass(n, a[n - 1])]
<1>1. PICK a : a = (CHOOSE x : x = Passes(x)) /\ LoadService(t, svc) = a[N]
  BY DEF LoadService, Resource
<1>2. \A m \in Tries, n \in 1 .. N : Pass(n, m) \in Tries
  BY InsertTypes, ResourceOK
<1> HIDE DEF Pass
<1>3. PICK step : step = [x \in (1 .. N) \X Tries |-> Pass(x[1], x[2])]
  OBVIOUS
<1>4. PICK f : Run(N, Tries, t, step, f)
  <2>1. Closed(N, Tries, step)
    BY <1>2, <1>3 DEF Closed
  <2> QED BY <2>1, Loops
<1>5. f = Passes(f)
  <2>1. ASSUME NEW n \in 1 .. N PROVE f[n] = Pass(n, f[n - 1])
    <3>1. f[n - 1] \in Tries
      BY <1>4 DEF Run
    <3>2. step[<<n, f[n - 1]>>] = Pass(n, f[n - 1])
      BY <1>3, <3>1
    <3> QED BY <1>4, <3>2 DEF Run
  <2> QED BY <1>4, <2>1 DEF Run
<1>6. a = Passes(a)
  <2> HIDE DEF Passes
  <2> QED BY <1>1, <1>5
<1>7. a[0] = t /\ \A n \in 1 .. N : a[n] = Pass(n, a[n - 1])
  <2>1. \A n \in 0 .. N : a[n] = Passes(a)[n]
    BY <1>6
  <2>2. 0 \in 0 .. N /\ \A n \in 1 .. N : n \in 0 .. N /\ n # 0
    OBVIOUS
  <2> QED BY <2>1, <2>2
<1> QED BY <1>1, <1>7 DEF Pass

LEMMA HoldsTypes ==
    ASSUME NEW S \in SUBSET Res, NEW t, Holds(t, S)
    PROVE  t \in Tries
<1>1. t \in [Ways(S) -> TrieNode] /\ Ways(S) \in SUBSET Node
  BY DEF Holds, Ways
<1> QED BY <1>1 DEF Tries

LEMMA ServiceHolds ==
    ASSUME WellFormed, NEW S \in SUBSET Res, NEW t, Holds(t, S), NEW svc \in Entries
    PROVE  Holds(LoadService(t, svc), S \cup Own(svc, Len(svc.paths)))
<1>1. PICK N \in Nat : N = Len(svc.paths)
  BY DEF Entries
<1>2. t \in Tries
  BY HoldsTypes
<1>3. PICK a : /\ a[0] = t /\ LoadService(t, svc) = a[N]
               /\ \A n \in 1 .. N : a[n] = InsertResource(a[n - 1], Resource(svc, n))
  BY <1>1, <1>2, ServiceLoop
<1> DEFINE T == {n \in 0 .. N : Holds(a[n], S \cup Own(svc, n))}
<1>4. 0 \in T
  <2>1. S \cup Own(svc, 0) = S
    BY DEF Own
  <2> QED BY <1>3, <2>1
<1>5. ASSUME NEW n \in 1 .. N, n - 1 \in T PROVE n \in T
  <2>1. S \cup Own(svc, n - 1) \in SUBSET Res
    BY <1>1, ResourceOK DEF Own
  <2>2. Resource(svc, n) \in Res
    BY <1>1, ResourceOK
  <2>3. S \cup Own(svc, n) = (S \cup Own(svc, n - 1)) \cup {Resource(svc, n)}
    <3>1. 1 .. n = (1 .. n - 1) \cup {n}
      OBVIOUS
    <3> QED BY <3>1 DEF Own
  <2>4. Holds(a[n - 1], S \cup Own(svc, n - 1))
    BY <1>5
  <2>5. Holds(InsertResource(a[n - 1], Resource(svc, n)), (S \cup Own(svc, n - 1)) \cup
            {Resource(svc, n)})
    BY <2>1, <2>2, <2>4, InsertHolds
  <2> QED BY <1>3, <2>3, <2>5
<1>6. N \in T
  <2> HIDE DEF T
  <2>1. Advances(N, T)
    BY <1>4, <1>5 DEF Advances
  <2> QED BY <2>1, Steps
<1> QED BY <1>1, <1>3, <1>6

LEMMA EmptyHolds == Holds(EmptyTrie, {})
<1>1. Ways({}) = {<<>>}
  BY EmptySeq DEF Ways, Node
<1>2. EmptyNode \in TrieNode
  BY DEF EmptyNode, TrieNode
<1>3. EmptyTrie \in [{<<>>} -> TrieNode] /\ EmptyTrie[<<>>] = EmptyNode
  BY <1>2 DEF EmptyTrie
<1>4. EmptyNode.end = Nothing /\ EmptyNode.wild = Nothing /\ EmptyNode.param = Nothing
  BY DEF EmptyNode
<1> QED BY <1>1, <1>3, <1>4 DEF Holds

LEMMA BulkLoop ==
    ASSUME WellFormed, NEW given \in Lists, NEW N \in Nat, N = Len(given)
    PROVE  \E a : /\ a[0] = EmptyTrie /\ LoadBulk(given) = a[N]
                  /\ \A n \in 1 .. N : a[n] = LoadService(a[n - 1], given[n])
<1> DEFINE Pass(n, m) == LoadService(m, given[n])
           Passes(a) == [n \in 0 .. N |-> IF n = 0 THEN EmptyTrie ELSE Pass(n, a[n - 1])]
           Good == {t \in Tries : \E S \in SUBSET Res : Holds(t, S)}
<1>1. PICK a : a = (CHOOSE x : x = Passes(x)) /\ LoadBulk(given) = a[N]
  BY DEF LoadBulk
<1>2. ASSUME NEW m \in Good, NEW n \in 1 .. N PROVE Pass(n, m) \in Good
  <2>1. PICK S \in SUBSET Res : Holds(m, S)
    OBVIOUS
  <2>2. given[n] \in Entries
    BY ElementOfSeq DEF Lists, Entries
  <2>3. Own(given[n], Len(given[n].paths)) \subseteq Res
    BY <2>2, ResourceOK DEF Own
  <2>4. Holds(Pass(n, m), S \cup Own(given[n], Len(given[n].paths)))
    BY <2>1, <2>2, ServiceHolds
  <2>5. S \cup Own(given[n], Len(given[n].paths)) \in SUBSET Res
    BY <2>3
  <2> QED BY <2>4, <2>5, HoldsTypes
<1>3. EmptyTrie \in Good
  BY EmptyHolds, HoldsTypes
<1> HIDE DEF Pass, Good
<1>4. PICK step : step = [x \in (1 .. N) \X Good |-> Pass(x[1], x[2])]
  OBVIOUS
<1>5. PICK f : Run(N, Good, EmptyTrie, step, f)
  <2>1. Closed(N, Good, step)
    BY <1>2, <1>4 DEF Closed
  <2> QED BY <1>3, <2>1, Loops
<1>6. f = Passes(f)
  <2>1. ASSUME NEW n \in 1 .. N PROVE f[n] = Pass(n, f[n - 1])
    <3>1. f[n - 1] \in Good
      BY <1>5 DEF Run
    <3>2. step[<<n, f[n - 1]>>] = Pass(n, f[n - 1])
      BY <1>4, <3>1
    <3> QED BY <1>5, <3>2 DEF Run
  <2> QED BY <1>5, <2>1 DEF Run
<1>7. a = Passes(a)
  <2> HIDE DEF Passes
  <2> QED BY <1>1, <1>6
<1>8. a[0] = EmptyTrie /\ \A n \in 1 .. N : a[n] = Pass(n, a[n - 1])
  <2>1. \A n \in 0 .. N : a[n] = Passes(a)[n]
    BY <1>7
  <2>2. 0 \in 0 .. N /\ \A n \in 1 .. N : n \in 0 .. N /\ n # 0
    OBVIOUS
  <2> QED BY <2>1, <2>2
<1> QED BY <1>1, <1>8 DEF Pass

\* A list's trie is that of its resources.
LEMMA BulkHolds ==
    ASSUME WellFormed, NEW given \in Lists
    PROVE  Holds(LoadBulk(given), Resources(given)) /\ Resources(given) \in SUBSET Res
<1> DEFINE First(n) == UNION {Own(given[i], Len(given[i].paths)) : i \in 1 .. n}
<1>1. PICK N \in Nat : N = Len(given)
  BY DEF Lists
<1>2. PICK a : /\ a[0] = EmptyTrie /\ LoadBulk(given) = a[N]
               /\ \A n \in 1 .. N : a[n] = LoadService(a[n - 1], given[n])
  BY <1>1, BulkLoop
<1>3. ASSUME NEW n \in 1 .. N
      PROVE  given[n] \in Entries /\ Own(given[n], Len(given[n].paths)) \subseteq Res
  <2>1. given[n] \in Entries
    BY <1>1, ElementOfSeq DEF Lists, Entries
  <2> QED BY <2>1, ResourceOK DEF Own
<1> DEFINE T == {n \in 0 .. N : First(n) \in SUBSET Res /\ Holds(a[n], First(n))}
<1>4. 0 \in T
  <2>1. First(0) = {}
    OBVIOUS
  <2> HIDE DEF First
  <2> QED BY <1>2, <2>1, EmptyHolds
<1>5. ASSUME NEW n \in 1 .. N, n - 1 \in T PROVE n \in T
  <2>1. First(n) = First(n - 1) \cup Own(given[n], Len(given[n].paths))
    <3>1. 1 .. n = (1 .. n - 1) \cup {n}
      OBVIOUS
    <3> QED BY <3>1
  <2> HIDE DEF First
  <2>2. Holds(LoadService(a[n - 1], given[n]),
              First(n - 1) \cup Own(given[n], Len(given[n].paths)))
    BY <1>3, <1>5, ServiceHolds
  <2>3. a[n] = LoadService(a[n - 1], given[n])
    BY <1>2
  <2>4. First(n) \in SUBSET Res
    BY <1>3, <1>5, <2>1
  <2>5. Holds(a[n], First(n))
    BY <2>1, <2>2, <2>3, Zenon
  <2>6. n \in 0 .. N
    OBVIOUS
  <2> QED BY <2>4, <2>5, <2>6
<1>6. N \in T
  <2> HIDE DEF T
  <2>1. Advances(N, T)
    BY <1>4, <1>5 DEF Advances
  <2> QED BY <2>1, Steps
<1>7. Resources(given) = First(N)
  <2>1. DOMAIN given = 1 .. N
    BY <1>1 DEF Lists
  <2>2. \A i \in 1 .. N : DOMAIN given[i].paths = 1 .. Len(given[i].paths)
    BY <1>3 DEF Entries
  <2>3. \A i \in 1 .. N :
            {[service |-> given[i].id, path |-> given[i].paths[j]] : j \in DOMAIN given[i].paths}
                            = Own(given[i], Len(given[i].paths))
    BY <2>2 DEF Own, Resource
  <2> QED BY <2>1, <2>3 DEF Resources
<1> QED BY <1>2, <1>6, <1>7

-----------------------------------------------------------------------------
(* Edges: what fits, and what is better.                                   *)

At(res, i) == EdgeAt(FullPath(res), i)

LEMMA EdgeAtIs ==
    ASSUME WellFormed, NEW res \in Res
    PROVE  /\ \A i \in 1 .. Len(Way(res)) : At(res, i) = Way(res)[i] /\ Way(res)[i] \in EdgeSet
           /\ LET last == At(res, Len(Way(res)) + 1) IN
              last = IF IsWild(FullPath(res)) THEN Star ELSE [kind |-> "end"]
BY WayOK DEF At, EdgeAt, Way, Node

LEMMA Ranks ==
    /\ Rank("literal") = 1 /\ Rank("pattern") = 2 /\ Rank("hole") = 3 /\
        Rank("star") = 4 /\ Rank("end") = 0
    /\ Star.kind = "star" /\ Star \notin EdgeSet /\ [kind |-> "end"] \notin EdgeSet
    /\ [kind |-> "end"].kind = "end"
    /\ \A e \in EdgeSet : e.kind \in {"literal", "pattern", "hole"}
BY DEF Rank, Star, EdgeSet, Hole

\* An edge the request's segment s can take.
Takes(e, s) == e = Literal(s) \/ MatchesPattern(s, e) \/ e = Hole

LEMMA FitsIs ==
    ASSUME NEW seg \in Segment, NEW s \in Text
    PROVE  Fits(seg, s) <=> Takes(Edge(seg), s)
<1>1. CASE seg \in [kind : {"literal"}, text : Text]
  <2>1. seg.kind = "literal" /\ Edge(seg) = seg /\ seg # Hole
    BY <1>1 DEF Edge, Hole
  <2>2. seg = Literal(s) <=> seg.text = s
    BY <1>1 DEF Literal
  <2>3. ~MatchesPattern(s, seg)
    BY <2>1 DEF MatchesPattern
  <2>4. Fits(seg, s) <=> seg.text = s
    BY <2>1 DEF Fits
  <2> QED BY <2>1, <2>2, <2>3, <2>4 DEF Takes
<1>2. CASE seg \in [kind : {"param"}, name : ParamName]
  <2>1. seg.kind = "param" /\ Edge(seg) = Hole
    BY <1>2 DEF Edge
  <2> QED BY <2>1 DEF Takes, Fits
<1>3. CASE seg \in [kind : {"pattern"}, name : ParamName, ext : STRING]
  <2>1. seg.kind = "pattern" /\ Edge(seg) = seg
    BY <1>3 DEF Edge
  <2>2. seg # Literal(s) /\ seg # Hole
    BY <2>1 DEF Literal, Hole
  <2>3. Fits(seg, s) <=> s[2] # "" /\ seg.ext = s[2]
    BY <2>1 DEF Fits
  <2>4. MatchesPattern(s, seg) <=> s[2] # "" /\ seg.ext = s[2]
    BY <2>1 DEF MatchesPattern
  <2> QED BY <2>1, <2>2, <2>3, <2>4 DEF Takes
<1> QED BY <1>1, <1>2, <1>3 DEF Segment

\* Resources whose ways meet in node n first differ below it.
LEMMA BetterBelow ==
    ASSUME WellFormed, NEW p \in Res, NEW q \in Res, NEW n \in Node, Under(n, Way(p)),
           Under(n, Way(q)),
           Better(FullPath(p), FullPath(q))
    PROVE  \E i \in Nat : /\ Len(n) + 1 <= i /\ i <= Len(Way(p)) + 1 /\ i <= Len(Way(q)) + 1
                          /\ \A j \in 1 .. i - 1 : At(p, j) = At(q, j)
                          /\ Rank(At(p, i).kind) < Rank(At(q, i).kind)
<1>1. /\ Len(Way(p)) = Len(Body(FullPath(p))) /\ Len(Way(p)) \in Nat
      /\ Len(Way(q)) = Len(Body(FullPath(q))) /\ Len(Way(q)) \in Nat /\ Len(n) \in Nat
  BY WayOK DEF Node
<1>2. PICK i \in 1 .. Len(Way(p)) + 1 :
          /\ i <= Len(Way(q)) + 1
          /\ \A j \in 1 .. i - 1 : At(p, j) = At(q, j)
          /\ Rank(At(p, i).kind) < Rank(At(q, i).kind)
  BY <1>1 DEF Better, At
<1>3. ASSUME i <= Len(n) PROVE FALSE
  <2>1. i \in 1 .. Len(Way(p)) /\ i \in 1 .. Len(Way(q)) /\ Way(p)[i] = n[i] /\ Way(q)[i] = n[i]
    BY <1>1, <1>2, <1>3 DEF Under
  <2>2. At(p, i) = n[i] /\ At(q, i) = n[i] /\ n[i] \in EdgeSet
    BY <2>1, EdgeAtIs
  <2>3. Rank(n[i].kind) \in Int
    BY <2>2, Ranks
  <2> QED BY <1>2, <2>2, <2>3
<1> QED BY <1>1, <1>2, <1>3

-----------------------------------------------------------------------------
(* The search, node by node from where the request ends.                   *)

Listing == Resources(services)
TrieLoaded == Listing \in SUBSET Res /\ Holds(trie, Listing)

\* A resource covers what of the request comes after its first k segments.
CoversFrom(res, r, k) ==
    /\ IF IsWild(FullPath(res)) THEN Len(Way(res)) <= Len(r) ELSE Len(Way(res)) = Len(r)
    /\ \A i \in k + 1 .. Len(Way(res)) : Takes(Way(res)[i], r[i])
Sub(n, r) == {res \in Listing : Under(n, Way(res)) /\ CoversFrom(res, r, Len(n))}

\* Below node n the search finds something if it can, and nothing better is there.
Best(res, n, r) == \A q \in Sub(n, r) : ~Better(FullPath(q), FullPath(res))
RightAt(n, r, A) ==
    /\ A = {} <=> Sub(n, r) = {}
    /\ \A m \in A : \E res \in Sub(n, r) : m = Match(res, Way(res), r) /\ Best(res, n, r)

LEMMA Meet ==
    ASSUME NEW n \in Node, NEW m \in Node, Under(n, m), Len(n) = Len(m)
    PROVE  n = m
BY SeqEqual DEF Under, Node

\* A resource whose way ends in n, or goes on.
LEMMA AtEnd ==
    ASSUME WellFormed, TrieLoaded, NEW n \in DOMAIN trie, NEW r \in Seq(Text),
           NEW res \in Sub(n, r), Len(Way(res)) = Len(n)
    PROVE  /\ Way(res) = n /\ res \in Res
           /\ IsWild(FullPath(res)) => trie[n].wild # Nothing /\
               At(res, Len(n) + 1) = Star
           /\ ~IsWild(FullPath(res)) =>
                  trie[n].end # Nothing /\ At(res, Len(n) + 1) = [kind |-> "end"] /\ Len(n) = Len(r)
<1>1. n \in Node /\ res \in Res /\ res \in Listing /\ Under(n, Way(res))
  BY DEF TrieLoaded, Holds, Ways, Sub
<1>2. Way(res) = n
  BY <1>1, WayOK, Meet
<1>3. IsWild(FullPath(res)) => trie[n].wild # Nothing /\ At(res, Len(n) + 1) = Star
  BY <1>1, <1>2, EdgeAtIs DEF TrieLoaded, Holds
<1>4. ~IsWild(FullPath(res)) => trie[n].end # Nothing /\
          At(res, Len(n) + 1) = [kind |-> "end"]
  BY <1>1, <1>2, EdgeAtIs DEF TrieLoaded, Holds
<1>5. ~IsWild(FullPath(res)) => Len(n) = Len(r)
  BY <1>2 DEF Sub, CoversFrom
<1> QED BY <1>1, <1>2, <1>3, <1>4, <1>5

\* Of two resources whose ways end in one node, neither is better if both are wild or neither is.
LEMMA EndsAlike ==
    ASSUME WellFormed, NEW p \in Res, NEW q \in Res, Way(p) = Way(q),
           IsWild(FullPath(p)) <=> IsWild(FullPath(q))
    PROVE  ~Better(FullPath(p), FullPath(q))
<1> SUFFICES ASSUME Better(FullPath(p), FullPath(q)) PROVE FALSE
  OBVIOUS
<1>1. Way(q) \in Node /\ Under(Way(q), Way(q)) /\ Len(Way(q)) \in Nat
  BY WayOK
<1>2. PICK i \in Nat : /\ Len(Way(q)) + 1 <= i /\ i <= Len(Way(q)) + 1
                       /\ Rank(At(p, i).kind) < Rank(At(q, i).kind)
  BY <1>1, BetterBelow
<1>3. i = Len(Way(q)) + 1
  BY <1>1, <1>2
<1>4. At(p, i) = At(q, i) /\ At(q, i) \in {Star, [kind |-> "end"]}
  BY <1>3, EdgeAtIs
<1>5. Rank(At(q, i).kind) \in Int
  BY <1>4, Ranks
<1> QED BY <1>2, <1>4, <1>5

\* A resource that ends in n is an answer there, whatever else is below.
LEMMA EndIsIn ==
    ASSUME WellFormed, TrieLoaded, NEW n \in DOMAIN trie, NEW r \in Seq(Text),
           Len(n) <= Len(r)
    PROVE  /\ trie[n].end # Nothing /\ Len(n) = Len(r) =>
                  /\ trie[n].end \in Sub(n, r) /\ Way(trie[n].end) = n /\
                      ~IsWild(FullPath(trie[n].end))
           /\ trie[n].wild # Nothing =>
                  /\ trie[n].wild \in Sub(n, r) /\ Way(trie[n].wild) = n /\
                      IsWild(FullPath(trie[n].wild))
<1>1. n \in Ways(Listing) /\ n \in Node /\ Len(n) \in Nat
  BY DEF TrieLoaded, Holds, Ways, Node
<1>2. ASSUME NEW res \in Listing, Way(res) = n
      PROVE  /\ Under(n, Way(res))
             /\ \A i \in Len(n) + 1 .. Len(Way(res)) : Takes(Way(res)[i], r[i])
  <2>1. res \in Res
    BY DEF TrieLoaded
  <2> QED BY <1>1, <1>2, <2>1, WayOK
<1>3. ASSUME trie[n].end # Nothing
      PROVE  trie[n].end \in Listing /\ Way(trie[n].end) = n /\ ~IsWild(FullPath(trie[n].end))
  BY <1>1, <1>3 DEF TrieLoaded, Holds
<1>4. ASSUME trie[n].wild # Nothing
      PROVE  trie[n].wild \in Listing /\ Way(trie[n].wild) = n /\
            IsWild(FullPath(trie[n].wild))
  BY <1>1, <1>4 DEF TrieLoaded, Holds
<1> QED BY <1>2, <1>3, <1>4 DEF Sub, CoversFrom

\* Where the request ends.
LEMMA Leaf ==
    ASSUME WellFormed, TrieLoaded, NEW n \in DOMAIN trie, NEW r \in Seq(Text),
           Len(n) = Len(r), NEW below
    PROVE  RightAt(n, r, Answers(r, n, below))
<1>1. n \in Node /\ Len(n) \in Nat /\ Len(r) \in Nat
  BY DEF TrieLoaded, Holds, Ways, Node
<1>2. ASSUME NEW res \in Sub(n, r)
      PROVE  Len(Way(res)) = Len(n)
  <2>1. res \in Res
    BY DEF TrieLoaded, Sub
  <2> QED BY <1>1, <2>1, WayOK DEF Sub, Under, CoversFrom
<1>3. CASE trie[n].end # Nothing
  <2>1. PICK e \in Sub(n, r) : e = trie[n].end /\ Way(e) = n /\ ~IsWild(FullPath(e))
    BY <1>1, <1>3, EndIsIn
  <2>2. Answers(r, n, below) = {Match(e, Way(e), r)}
    BY <1>3, <2>1 DEF Answers
  <2>3. ASSUME NEW q \in Sub(n, r) PROVE ~Better(FullPath(q), FullPath(e))
    <3> SUFFICES ASSUME Better(FullPath(q), FullPath(e)) PROVE FALSE
      OBVIOUS
    <3>1. Way(q) = n /\ q \in Res /\ e \in Res /\ Way(e) = n
      BY <1>2, <2>1, AtEnd
    <3>2. PICK i \in Nat : /\ Len(n) + 1 <= i /\ i <= Len(n) + 1
                           /\ Rank(At(q, i).kind) < Rank(At(e, i).kind)
      BY <1>1, <3>1, BetterBelow, WayOK
    <3>3. i = Len(n) + 1
      BY <1>1, <3>2
    <3>4. At(e, i) = [kind |-> "end"] /\ At(q, i) \in {Star, [kind |-> "end"]}
      BY <2>1, <3>1, <3>3, EdgeAtIs
    <3> QED BY <3>2, <3>4, Ranks
  <2> QED BY <2>1, <2>2, <2>3 DEF RightAt, Best
<1>4. CASE trie[n].end = Nothing
  <2>1. ASSUME NEW q \in Sub(n, r)
        PROVE  IsWild(FullPath(q)) /\ Way(q) = n /\ q \in Res /\ trie[n].wild # Nothing
    BY <1>2, <1>4, AtEnd
  <2>2. CASE trie[n].wild = Nothing
    <3>1. Answers(r, n, below) = {} /\ Sub(n, r) = {}
      BY <1>4, <2>1, <2>2 DEF Answers
    <3> QED BY <3>1 DEF RightAt
  <2>3. CASE trie[n].wild # Nothing
    <3>1. PICK w \in Sub(n, r) : w = trie[n].wild /\ Way(w) = n /\ IsWild(FullPath(w))
      BY <1>1, <2>3, EndIsIn
    <3>2. Answers(r, n, below) = {Match(w, Way(w), r)}
      BY <1>4, <2>3, <3>1 DEF Answers
    <3>3. \A q \in Sub(n, r) : ~Better(FullPath(q), FullPath(w))
      BY <2>1, <3>1, EndsAlike
    <3> QED BY <3>1, <3>2, <3>3 DEF RightAt, Best
  <2> QED BY <2>2, <2>3
<1> QED BY <1>3, <1>4

\* What is found one edge below n, by the edges of E.
Into(n, below, E) ==
    UNION {below[c] : c \in {d \in DOMAIN below : Front(d) = n /\ Last(d) \in E}}
Deeper(n) == {c \in DOMAIN trie : Len(c) = Len(n) + 1}

LEMMA ChildIs ==
    ASSUME NEW n \in Node, NEW c \in Node, Len(c) = Len(n) + 1
    PROVE  /\ Front(c) = n <=> Under(n, c)
           /\ Last(c) = c[Len(n) + 1] /\ Last(c) \in EdgeSet
<1>1. Len(n) \in Nat /\ Len(c) \in Nat /\ \A i \in 1 .. Len(c) : c[i] \in EdgeSet
  BY DEF Node
<1>2. PICK f : f = Front(c)
  OBVIOUS
<1>3. f = SubSeq(c, 1, Len(n))
  BY <1>1, <1>2 DEF Front
<1>4. f \in Node /\ Len(f) = Len(n) /\ \A i \in 1 .. Len(n) : f[i] = c[i]
  BY <1>1, <1>3, SubSeqProperties DEF Node
<1>5. ASSUME Under(n, c) PROVE f = n
  <2>1. Under(n, f)
    BY <1>4, <1>5 DEF Under
  <2> QED BY <1>4, <2>1, Meet
<1>6. f = n => Under(n, c)
  BY <1>1, <1>4 DEF Under
<1> QED BY <1>1, <1>2, <1>5, <1>6 DEF Last

\* The child of n that a resource's way goes through.
LEMMA ThroughChild ==
    ASSUME WellFormed, TrieLoaded, NEW n \in DOMAIN trie, NEW r \in Seq(Text),
           NEW q \in Sub(n, r), Len(Way(q)) > Len(n)
    PROVE  \E c \in Deeper(n) : Front(c) = n /\ Last(c) = Way(q)[Len(n) + 1] /\
          q \in Sub(c, r)
<1>1. n \in Node /\ q \in Res /\ q \in Listing /\ Under(n, Way(q)) /\ DOMAIN trie = Ways(Listing)
  BY DEF TrieLoaded, Holds, Ways, Sub
<1>2. Len(n) \in Nat /\ Way(q) \in Node /\ Len(Way(q)) \in Nat /\
          \A i \in 1 .. Len(Way(q)) : Way(q)[i] \in EdgeSet
  BY <1>1, WayOK DEF Node
<1>3. PICK c : c = SubSeq(Way(q), 1, Len(n) + 1)
  OBVIOUS
<1>4. c \in Node /\ Len(c) = Len(n) + 1 /\ \A i \in 1 .. Len(n) + 1 : c[i] = Way(q)[i]
  BY <1>2, <1>3, SubSeqProperties DEF Node
<1>5. Under(c, Way(q)) /\ Under(n, c)
  BY <1>1, <1>2, <1>4 DEF Under
<1>6. c \in Deeper(n)
  BY <1>1, <1>4, <1>5 DEF Deeper, Ways
<1>7. Front(c) = n /\ Last(c) = Way(q)[Len(n) + 1]
  BY <1>1, <1>2, <1>4, <1>5, ChildIs
<1>8. CoversFrom(q, r, Len(c))
  BY <1>2, <1>4 DEF Sub, CoversFrom
<1> QED BY <1>1, <1>5, <1>6, <1>7, <1>8 DEF Sub

\* What a child answers, its parent can, if its edge takes the request's segment.
LEMMA FromChild ==
    ASSUME WellFormed, TrieLoaded, NEW n \in DOMAIN trie, NEW r \in Seq(Text),
           NEW c \in Deeper(n), Front(c) = n,
           NEW q \in Sub(c, r), Takes(Last(c), r[Len(n) + 1])
    PROVE  q \in Sub(n, r) /\ Len(Way(q)) > Len(n) /\ Way(q)[Len(n) + 1] = Last(c)
<1>1. n \in Node /\ c \in Node /\ q \in Res /\ q \in Listing /\ Under(c, Way(q)) /\ Len(c) = Len(n) + 1
  BY DEF TrieLoaded, Holds, Ways, Sub, Deeper
<1>2. Len(n) \in Nat /\ Len(Way(q)) \in Nat /\ Under(n, c) /\ Last(c) = c[Len(n) + 1]
  BY <1>1, WayOK, ChildIs DEF Node
<1>3. Len(Way(q)) > Len(n) /\ Way(q)[Len(n) + 1] = Last(c)
  BY <1>1, <1>2 DEF Under
<1>4. Under(n, Way(q))
  BY <1>1, <1>2 DEF Under
<1>5. CoversFrom(q, r, Len(n))
  BY <1>1, <1>2, <1>3 DEF Sub, CoversFrom
<1> QED BY <1>1, <1>3, <1>4, <1>5 DEF Sub

\* Edges of one rank that take the segment: what they lead to is right unless there are better ones.
LEMMA OneRank ==
    ASSUME WellFormed, TrieLoaded, NEW n \in DOMAIN trie, NEW r \in Seq(Text),
           Len(n) < Len(r),
           NEW below, DOMAIN below = Deeper(n), \A c \in Deeper(n) : RightAt(c, r, below[c]),
           NEW E \in SUBSET EdgeSet, NEW k \in Nat,
           \A e \in E : Takes(e, r[Len(n) + 1]) /\ Rank(e.kind) = k
    PROVE  /\ Into(n, below, E) = {} <=> \A q \in Sub(n, r) : ~(Len(Way(q)) > Len(n) /\
               Way(q)[Len(n) + 1] \in E)
           /\ (\A q \in Sub(n, r) : Rank(At(q, Len(n) + 1).kind) >= k) =>
                  \A m \in Into(n, below, E) :
                      \E res \in Sub(n, r) : m = Match(res, Way(res), r) /\ Best(res, n, r)
<1> DEFINE Goes(q) == Len(Way(q)) > Len(n) /\ Way(q)[Len(n) + 1] \in E
<1>0. n \in Node /\ Len(n) \in Nat
  BY DEF TrieLoaded, Holds, Ways, Node
<1>1. ASSUME NEW m \in Into(n, below, E)
      PROVE  \E c \in Deeper(n) : Front(c) = n /\ Last(c) \in E /\ m \in below[c]
  BY <1>1 DEF Into
<1>2. ASSUME NEW m \in Into(n, below, E)
      PROVE  \E q \in Sub(n, r) : Goes(q)
  <2>1. PICK c \in Deeper(n) : Front(c) = n /\ Last(c) \in E /\ m \in below[c]
    BY <1>1
  <2>2. PICK q \in Sub(c, r) : TRUE
    BY <2>1 DEF RightAt
  <2> QED BY <2>1, <2>2, FromChild
<1>3. ASSUME NEW q \in Sub(n, r), Goes(q)
      PROVE  Into(n, below, E) # {}
  <2>1. PICK c \in Deeper(n) : Front(c) = n /\ Last(c) \in E /\ q \in Sub(c, r)
    BY <1>3, ThroughChild
  <2>2. below[c] # {}
    BY <2>1 DEF RightAt
  <2> QED BY <2>1, <2>2 DEF Into
<1>4. ASSUME \A q \in Sub(n, r) : Rank(At(q, Len(n) + 1).kind) >= k, NEW m \in Into(n, below, E)
      PROVE  \E res \in Sub(n, r) : m = Match(res, Way(res), r) /\ Best(res, n, r)
  <2>1. PICK c \in Deeper(n) : Front(c) = n /\ Last(c) \in E /\ m \in below[c]
    BY <1>1
  <2>2. PICK res \in Sub(c, r) : m = Match(res, Way(res), r) /\ Best(res, c, r)
    BY <2>1 DEF RightAt
  <2>3. res \in Sub(n, r) /\ Len(Way(res)) > Len(n) /\ Way(res)[Len(n) + 1] = Last(c) /\
            res \in Res
    BY <2>1, FromChild DEF TrieLoaded, Sub
  <2>4. At(res, Len(n) + 1) = Last(c) /\ Last(c) \in EdgeSet
    BY <1>0, <2>3, WayOK, EdgeAtIs
  <2>5. ASSUME NEW q \in Sub(n, r), Better(FullPath(q), FullPath(res)) PROVE FALSE
    <3>1. q \in Res /\ Under(n, Way(q)) /\ Under(n, Way(res)) /\ Len(Way(q)) \in Nat
      BY <2>3, WayOK DEF TrieLoaded, Sub
    <3>2. PICK i \in Nat : /\ Len(n) + 1 <= i /\ i <= Len(Way(q)) + 1
                           /\ \A j \in 1 .. i - 1 : At(q, j) = At(res, j)
                           /\ Rank(At(q, i).kind) < Rank(At(res, i).kind)
      BY <1>0, <2>3, <2>5, <3>1, BetterBelow
    <3>3. CASE i = Len(n) + 1
      <4>1. Rank(At(q, i).kind) >= k /\ Rank(At(res, i).kind) = k
        BY <1>4, <2>1, <2>4, <3>3
      <4>2. Rank(At(q, i).kind) \in Int
        <5>1. At(q, i) \in EdgeSet \cup {Star, [kind |-> "end"]}
          BY <1>0, <3>1, <3>2, EdgeAtIs
        <5> QED BY <5>1, Ranks
      <4> QED BY <3>2, <4>1, <4>2
    <3>4. CASE i # Len(n) + 1
      <4>1. At(q, Len(n) + 1) = Last(c)
        BY <1>0, <2>4, <3>2, <3>4
      <4>2. Len(Way(q)) > Len(n)
        BY <1>0, <3>1, <3>2, <3>4
      <4>3. Way(q)[Len(n) + 1] = Last(c)
        BY <1>0, <3>1, <4>1, <4>2, EdgeAtIs
      <4>4. PICK d \in Deeper(n) : Front(d) = n /\ Last(d) = Last(c) /\ q \in Sub(d, r)
        BY <4>2, <4>3, ThroughChild
      <4>5. d = c
        <5>1. c \in Node /\ d \in Node /\ Len(c) = Len(n) + 1 /\ Len(d) = Len(n) + 1
          BY DEF Deeper, TrieLoaded, Holds, Ways
        <5>2. Under(n, c) /\ Under(n, d) /\ c[Len(n) + 1] = d[Len(n) + 1]
          BY <1>0, <2>1, <4>4, <5>1, ChildIs
        <5>3. Under(c, d)
          BY <1>0, <5>1, <5>2 DEF Under
        <5> QED BY <5>1, <5>3, Meet
      <4> QED BY <2>2, <2>5, <4>4, <4>5 DEF Best
    <3> QED BY <3>3, <3>4
  <2> QED BY <2>2, <2>3, <2>5 DEF Best
<1> QED BY <1>2, <1>3, <1>4

Patterns(s) == {e \in EdgeSet : MatchesPattern(s, e)}

LiteralOnes(n, r, below) == Into(n, below, {Literal(r[Len(n) + 1])})
PatternOnes(n, r, below) == Into(n, below, Patterns(r[Len(n) + 1]))
HoleOnes(n, below) == Into(n, below, {Hole})
WildOne(n, r) == IF trie[n].wild # Nothing THEN {Match(trie[n].wild, n, r)} ELSE {}

\* Above where the request ends: the children in search's order, and the node's own wildcard last.
LEMMA AnswersAre ==
    ASSUME TrieLoaded, NEW n \in DOMAIN trie, NEW r, Len(n) # Len(r), NEW below,
           DOMAIN below = Deeper(n)
    PROVE  Answers(r, n, below) =
               FirstFound(LiteralOnes(n, r, below), PatternOnes(n, r, below),
                     HoleOnes(n, below), WildOne(n, r))
<1> DEFINE s == r[Len(n) + 1]
           Children == {c \in DOMAIN below : Front(c) = n}
<1>1. \A c \in DOMAIN below : Last(c) \in EdgeSet
  <2>1. n \in Node /\ \A c \in Deeper(n) : c \in Node /\ Len(c) = Len(n) + 1
    BY DEF Deeper, TrieLoaded, Holds, Ways
  <2> QED BY <2>1, ChildIs
<1>2. {c \in Children : Last(c) = Literal(s)} =
          {d \in DOMAIN below : Front(d) = n /\ Last(d) \in {Literal(s)}}
  OBVIOUS
<1>3. {c \in Children : MatchesPattern(s, Last(c))} =
          {d \in DOMAIN below : Front(d) = n /\ Last(d) \in Patterns(s)}
  BY <1>1 DEF Patterns
<1>4. {c \in Children : Last(c) = Hole} =
          {d \in DOMAIN below : Front(d) = n /\ Last(d) \in {Hole}}
  OBVIOUS
<1> QED BY <1>2, <1>3, <1>4 DEF Answers, Into, LiteralOnes, PatternOnes, HoleOnes, WildOne

\* Which of them is taken.
LEMMA Found ==
    ASSUME NEW a, NEW b, NEW c, NEW w
    PROVE  /\ a # {} => FirstFound(a, b, c, w) = a
           /\ a = {} /\ b # {} => FirstFound(a, b, c, w) = b
           /\ a = {} /\ b = {} /\ c # {} => FirstFound(a, b, c, w) = c
           /\ a = {} /\ b = {} /\ c = {} => FirstFound(a, b, c, w) = w
BY DEF FirstFound

LEMMA Inner ==
    ASSUME WellFormed, TrieLoaded, NEW n \in DOMAIN trie, NEW r \in Seq(Text),
           Len(n) < Len(r),
           NEW below, DOMAIN below = Deeper(n), \A c \in Deeper(n) : RightAt(c, r, below[c])
    PROVE  RightAt(n, r, Answers(r, n, below))
<1> DEFINE s == r[Len(n) + 1]
           A == LiteralOnes(n, r, below)
           B == PatternOnes(n, r, below)
           C == HoleOnes(n, below)
           W == WildOne(n, r)
           Next1(q) == Len(Way(q)) > Len(n)
           Rk(q) == Rank(At(q, Len(n) + 1).kind)
<1>1. n \in Node /\ Len(n) \in Nat /\ Len(r) \in Nat /\ s \in Text
  BY DEF TrieLoaded, Holds, Ways, Node
<1>2. /\ {Literal(s)} \in SUBSET EdgeSet /\ \A e \in {Literal(s)} : Takes(e, s) /\
          Rank(e.kind) = 1
      /\ Patterns(s) \in SUBSET EdgeSet /\ \A e \in Patterns(s) : Takes(e, s) /\ Rank(e.kind) = 2
      /\ {Hole} \in SUBSET EdgeSet /\ \A e \in {Hole} : Takes(e, s) /\ Rank(e.kind) = 3
  <2>1. Literal(s) \in EdgeSet /\ Literal(s).kind = "literal" /\ Hole \in EdgeSet /\
            Hole.kind = "hole"
    BY <1>1 DEF Literal, EdgeSet, Hole
  <2>2. \A e \in Patterns(s) : e.kind = "pattern"
    BY DEF Patterns, MatchesPattern
  <2> QED BY <2>1, <2>2, Ranks DEF Takes, Patterns
<1>3. Answers(r, n, below) = FirstFound(A, B, C, W)
  <2>1. Len(n) # Len(r)
    BY <1>1
  <2> QED BY <2>1, AnswersAre
<1>5. ASSUME NEW q \in Sub(n, r)
      PROVE  /\ q \in Res
             /\ ~Next1(q) => Rk(q) = 4 /\ Way(q) = n /\ IsWild(FullPath(q)) /\
                 trie[n].wild # Nothing
             /\ Next1(q) => /\ Takes(Way(q)[Len(n) + 1], s)
                            /\ At(q, Len(n) + 1) = Way(q)[Len(n) + 1] /\ Way(q)[Len(n) + 1] \in EdgeSet
  <2>1. q \in Res /\ Under(n, Way(q)) /\ Len(Way(q)) \in Nat
    BY WayOK DEF Sub, TrieLoaded
  <2>2. CASE ~Next1(q)
    <3>1. Len(Way(q)) = Len(n)
      BY <1>1, <2>1, <2>2 DEF Under
    <3>2. IsWild(FullPath(q)) /\ Way(q) = n /\ trie[n].wild # Nothing /\
              At(q, Len(n) + 1) = Star
      BY <1>1, <3>1, AtEnd
    <3> QED BY <2>1, <2>2, <3>2, Ranks
  <2>3. CASE Next1(q)
    <3>1. Takes(Way(q)[Len(n) + 1], s)
      BY <1>1, <2>1, <2>3 DEF Sub, CoversFrom
    <3>2. At(q, Len(n) + 1) = Way(q)[Len(n) + 1] /\ Way(q)[Len(n) + 1] \in EdgeSet
      BY <1>1, <2>1, <2>3, EdgeAtIs
    <3> QED BY <2>1, <2>3, <3>1, <3>2
  <2> QED BY <2>2, <2>3
<1>6. /\ A = {} <=> \A q \in Sub(n, r) : ~(Next1(q) /\ Way(q)[Len(n) + 1] \in {Literal(s)})
      /\ (\A q \in Sub(n, r) : Rk(q) >= 1) =>
             \A m \in A : \E res \in Sub(n, r) : m = Match(res, Way(res), r) /\ Best(res, n, r)
  BY <1>1, <1>2, OneRank DEF LiteralOnes
<1>7. /\ B = {} <=> \A q \in Sub(n, r) : ~(Next1(q) /\ Way(q)[Len(n) + 1] \in Patterns(s))
      /\ (\A q \in Sub(n, r) : Rk(q) >= 2) =>
             \A m \in B : \E res \in Sub(n, r) : m = Match(res, Way(res), r) /\ Best(res, n, r)
  BY <1>1, <1>2, OneRank DEF PatternOnes
<1>8. /\ C = {} <=> \A q \in Sub(n, r) : ~(Next1(q) /\ Way(q)[Len(n) + 1] \in {Hole})
      /\ (\A q \in Sub(n, r) : Rk(q) >= 3) =>
             \A m \in C : \E res \in Sub(n, r) : m = Match(res, Way(res), r) /\ Best(res, n, r)
  BY <1>1, <1>2, OneRank DEF HoleOnes
<1>9. ASSUME NEW q \in Sub(n, r)
      PROVE  /\ Next1(q) => Way(q)[Len(n) + 1] \in {Literal(s)} \cup Patterns(s) \cup {Hole}
             /\ Rk(q) \in {1, 2, 3, 4}
             /\ Rk(q) = 1 => Next1(q) /\ Way(q)[Len(n) + 1] \in {Literal(s)}
             /\ Rk(q) = 2 => Next1(q) /\ Way(q)[Len(n) + 1] \in Patterns(s)
             /\ Rk(q) = 3 => Next1(q) /\ Way(q)[Len(n) + 1] \in {Hole}
  <2>1. CASE ~Next1(q)
    BY <1>5, <2>1
  <2>2. CASE Next1(q)
    <3>1. PICK e \in EdgeSet : e = Way(q)[Len(n) + 1] /\ Takes(e, s) /\ Rk(q) = Rank(e.kind)
      BY <1>5, <2>2
    <3>2. e \in {Literal(s)} \/ e \in Patterns(s) \/ e \in {Hole}
      BY <3>1 DEF Takes, Patterns
    <3>3. /\ e \in {Literal(s)} => Rk(q) = 1
          /\ e \in Patterns(s) => Rk(q) = 2
          /\ e \in {Hole} => Rk(q) = 3
      BY <1>2, <3>1
    <3> HIDE DEF Rk
    <3> QED BY <2>2, <3>1, <3>2, <3>3
  <2> QED BY <2>1, <2>2
<1> HIDE DEF A, B, C, W, Rk, s
<1>10. CASE A # {}
  <2>1. \A q \in Sub(n, r) : Rk(q) >= 1
    BY <1>9
  <2>2. Answers(r, n, below) = A
    BY <1>3, <1>10, Found
  <2>3. Sub(n, r) # {}
    BY <1>6, <1>10
  <2> QED BY <1>6, <1>10, <2>1, <2>2, <2>3 DEF RightAt
<1>11. CASE A = {} /\ B # {}
  <2>1. \A q \in Sub(n, r) : Rk(q) >= 2
    BY <1>6, <1>9, <1>11
  <2>2. Answers(r, n, below) = B
    BY <1>3, <1>11, Found
  <2>3. Sub(n, r) # {}
    BY <1>7, <1>11
  <2> QED BY <1>7, <1>11, <2>1, <2>2, <2>3 DEF RightAt
<1>12. CASE A = {} /\ B = {} /\ C # {}
  <2>1. \A q \in Sub(n, r) : Rk(q) >= 3
    BY <1>6, <1>7, <1>9, <1>12
  <2>2. Answers(r, n, below) = C
    BY <1>3, <1>12, Found
  <2>3. Sub(n, r) # {}
    BY <1>8, <1>12
  <2> QED BY <1>8, <1>12, <2>1, <2>2, <2>3 DEF RightAt
<1>13. CASE A = {} /\ B = {} /\ C = {}
  <2>1. Answers(r, n, below) = W
    BY <1>3, <1>13, Found
  <2>2. \A q \in Sub(n, r) : ~Next1(q)
    BY <1>6, <1>7, <1>8, <1>9, <1>13
  <2>3. \A q \in Sub(n, r) : q \in Res /\ Way(q) = n /\ IsWild(FullPath(q)) /\
            trie[n].wild # Nothing
    BY <1>5, <2>2
  <2>4. CASE trie[n].wild = Nothing
    BY <2>1, <2>3, <2>4 DEF RightAt, W, WildOne
  <2>5. CASE trie[n].wild # Nothing
    <3>1. PICK w \in Sub(n, r) : w = trie[n].wild /\ Way(w) = n /\ IsWild(FullPath(w))
      BY <1>1, <2>5, EndIsIn
    <3>2. W = {Match(w, Way(w), r)}
      BY <2>5, <3>1 DEF W, WildOne
    <3>3. \A q \in Sub(n, r) : ~Better(FullPath(q), FullPath(w))
      BY <2>3, <3>1, EndsAlike
    <3> QED BY <2>1, <3>1, <3>2, <3>3 DEF RightAt, Best
  <2> QED BY <2>4, <2>5
<1> QED BY <1>10, <1>11, <1>12, <1>13

-----------------------------------------------------------------------------
(* The search, from where the request ends up to the root.                 *)

Matches(r) == {Match(res, n, r) : res \in Res, n \in DOMAIN trie}
Rows(r) == UNION {[D -> SUBSET Matches(r)] : D \in SUBSET DOMAIN trie}
Level(r, k) == {m \in DOMAIN trie : Len(m) = Len(r) - k}
Row(r, k, x) == [n \in Level(r, k) |-> Answers(r, n, IF k = 0 THEN <<>> ELSE x)]

LEMMA AnswersIn ==
    ASSUME TrieLoaded, NEW n \in DOMAIN trie, NEW r, NEW below,
           \A c \in DOMAIN below : below[c] \in SUBSET Matches(r)
    PROVE  Answers(r, n, below) \in SUBSET Matches(r)
<1> DEFINE s == r[Len(n) + 1]
           Children == {c \in DOMAIN below : Front(c) = n}
           In(C) == UNION {below[c] : c \in C}
           wild == IF trie[n].wild # Nothing THEN {Match(trie[n].wild, n, r)} ELSE {}
           end == IF trie[n].end # Nothing THEN {Match(trie[n].end, n, r)} ELSE wild
           A == In({c \in Children : Last(c) = Literal(s)})
           B == In({c \in Children : MatchesPattern(s, Last(c))})
           C == In({c \in Children : Last(c) = Hole})
<1>1. trie[n].wild \in Res \cup {Nothing} /\ trie[n].end \in Res \cup {Nothing}
  BY DEF TrieLoaded, Holds, TrieNode
<1>2. wild \in SUBSET Matches(r) /\ end \in SUBSET Matches(r)
  BY <1>1 DEF Matches
<1>3. A \in SUBSET Matches(r) /\ B \in SUBSET Matches(r) /\ C \in SUBSET Matches(r)
  OBVIOUS
<1>4. Answers(r, n, below) = IF Len(n) = Len(r) THEN end ELSE FirstFound(A, B, C, wild)
  BY DEF Answers
<1> HIDE DEF A, B, C, wild, end
<1>5. FirstFound(A, B, C, wild) \in {A, B, C, wild}
  BY DEF FirstFound
<1> QED BY <1>2, <1>3, <1>4, <1>5

LEMMA RowsStay ==
    ASSUME TrieLoaded, NEW r, NEW k \in Nat, NEW x \in Rows(r)
    PROVE  Row(r, k, x) \in Rows(r)
<1>1. PICK y : y = IF k = 0 THEN <<>> ELSE x
  OBVIOUS
<1>2. \A c \in DOMAIN y : y[c] \in SUBSET Matches(r)
  BY <1>1 DEF Rows
<1>3. \A n \in DOMAIN trie : Answers(r, n, y) \in SUBSET Matches(r)
  BY <1>2, AnswersIn
<1>4. Row(r, k, x) = [n \in Level(r, k) |-> Answers(r, n, y)] /\ Level(r, k) \in SUBSET DOMAIN trie
  BY <1>1 DEF Row, Level
<1>5. Row(r, k, x) \in [Level(r, k) -> SUBSET Matches(r)]
  BY <1>3, <1>4
<1> QED BY <1>4, <1>5 DEF Rows

\* One level of the trie after the other.
LEMMA SearchLoop ==
    ASSUME TrieLoaded, NEW r \in Seq(Text), NEW N \in Nat, N = Len(r)
    PROVE  \E a : /\ Search(r) = a[N][<<>>]
                  /\ \A k \in 0 .. N : a[k] = Row(r, k, a[k - 1])
<1> DEFINE Passes(a) == [k \in 0 .. N |-> [n \in {m \in DOMAIN trie : Len(m) = N - k} |->
                                              Answers(r, n, IF k = 0 THEN <<>> ELSE a[k - 1])]]
<1>1. PICK a : a = (CHOOSE x : x = Passes(x)) /\ Search(r) = a[N][<<>>]
  BY DEF Search
<1>2. PICK x0 : x0 = [n \in {} |-> {}]
  OBVIOUS
<1>3. x0 \in Rows(r)
  <2>1. x0 \in [{} -> SUBSET Matches(r)] /\ {} \in SUBSET DOMAIN trie
    BY <1>2
  <2> QED BY <2>1 DEF Rows
<1>4. PICK step : step = [z \in (1 .. N) \X Rows(r) |-> Row(r, z[1], z[2])]
  OBVIOUS
<1>5. PICK f : Run(N, Rows(r), Row(r, 0, x0), step, f)
  <2>1. Closed(N, Rows(r), step)
    BY <1>4, RowsStay DEF Closed
  <2>2. Row(r, 0, x0) \in Rows(r)
    BY <1>3, RowsStay
  <2> QED BY <2>1, <2>2, Loops
<1>6. ASSUME NEW k \in 0 .. N PROVE f[k] = Row(r, k, f[k - 1])
  <2>1. CASE k = 0
    BY <1>5, <2>1 DEF Run, Row
  <2>2. CASE k # 0
    <3>1. k \in 1 .. N /\ k - 1 \in 0 .. N
      BY <2>2
    <3>2. f[k - 1] \in Rows(r)
      BY <1>5, <3>1 DEF Run
    <3>3. step[<<k, f[k - 1]>>] = Row(r, k, f[k - 1])
      BY <1>4, <3>1, <3>2
    <3> QED BY <1>5, <3>1, <3>3 DEF Run
  <2> QED BY <2>1, <2>2
<1>7. f = Passes(f)
  <2>1. f = [k \in 0 .. N |-> f[k]]
    BY <1>5 DEF Run
  <2>2. f = [k \in 0 .. N |-> Row(r, k, f[k - 1])]
    BY <1>6, <2>1
  <2> QED BY <2>2 DEF Row, Level
<1>8. a = Passes(a)
  <2> HIDE DEF Passes
  <2> QED BY <1>1, <1>7
<1>9. \A k \in 0 .. N : a[k] = Row(r, k, a[k - 1])
  BY <1>8 DEF Row, Level
<1> QED BY <1>1, <1>9

\* What the search returns is right at the root.
LEMMA SearchRight ==
    ASSUME WellFormed, TrieLoaded, NEW r \in Seq(Text)
    PROVE  RightAt(<<>>, r, Search(r))
<1>1. PICK N \in Nat : N = Len(r)
  OBVIOUS
<1>2. PICK a : Search(r) = a[N][<<>>] /\ \A k \in 0 .. N : a[k] = Row(r, k, a[k - 1])
  BY <1>1, SearchLoop
<1> DEFINE T == {k \in 0 .. N : \A n \in Level(r, k) : RightAt(n, r, a[k][n])}
<1>3. 0 \in T
  <2> SUFFICES ASSUME NEW n \in Level(r, 0) PROVE RightAt(n, r, a[0][n])
    OBVIOUS
  <2>1. n \in DOMAIN trie /\ Len(n) = Len(r)
    BY <1>1 DEF Level
  <2>2. a[0] = Row(r, 0, a[0 - 1])
    BY <1>2
  <2>3. a[0][n] = Answers(r, n, <<>>)
    BY <2>2 DEF Row
  <2> QED BY <2>1, <2>3, Leaf
<1>4. ASSUME NEW k \in 1 .. N, k - 1 \in T PROVE k \in T
  <2> SUFFICES ASSUME NEW n \in Level(r, k) PROVE RightAt(n, r, a[k][n])
    OBVIOUS
  <2>1. n \in DOMAIN trie /\ Len(n) = N - k /\ Len(n) < Len(r)
    BY <1>1 DEF Level
  <2>2. PICK x : x = a[k - 1]
    OBVIOUS
  <2>3. x = Row(r, k - 1, a[(k - 1) - 1])
    BY <1>2, <2>2
  <2>4. DOMAIN x = Level(r, k - 1)
    BY <2>3 DEF Row
  <2>5. Level(r, k - 1) = Deeper(n)
    BY <1>1, <2>1 DEF Level, Deeper
  <2>6. \A c \in Deeper(n) : RightAt(c, r, x[c])
    BY <1>4, <2>2, <2>5
  <2>7. RightAt(n, r, Answers(r, n, x))
    BY <2>1, <2>4, <2>5, <2>6, Inner
  <2>8. a[k] = Row(r, k, x)
    BY <1>2, <2>2
  <2>9. a[k][n] = Answers(r, n, x)
    BY <2>8 DEF Row
  <2> QED BY <2>7, <2>9
<1>5. N \in T
  <2> HIDE DEF T
  <2>1. Advances(N, T)
    BY <1>3, <1>4 DEF Advances
  <2> QED BY <2>1, Steps
<1>6. <<>> \in Level(r, N)
  BY <1>1, EmptySeq DEF Level, TrieLoaded, Holds, Ways, Node
<1> QED BY <1>2, <1>5, <1>6

-----------------------------------------------------------------------------
(* The search against the list.                                            *)

LEMMA CoversIs ==
    ASSUME WellFormed, NEW res \in Res, NEW r \in Seq(Text)
    PROVE  Covers(FullPath(res), r) <=> CoversFrom(res, r, 0)
<1>1. PICK p \in Full : p = FullPath(res)
  BY FullPaths
<1>2. PICK b \in Seq(Segment) : /\ b = Body(p) /\ Len(b) \in Nat /\
                                         (~IsWild(p) => Len(b) = Len(p))
                                /\ Len(Way(res)) = Len(b) /\
                                    \A i \in 1 .. Len(b) : b[i] \in Segment
  BY <1>1, Bodies, WayOK
<1>3. Len(r) \in Nat /\ \A i \in 1 .. Len(r) : r[i] \in Text
  OBVIOUS
<1>4. \A i \in 1 .. Len(b) : Way(res)[i] = Edge(b[i])
  BY <1>1, <1>2, EdgesOK DEF Way
<1>5. (IF IsWild(p) THEN Len(b) <= Len(r) ELSE Len(p) = Len(r))
          <=> (IF IsWild(p) THEN Len(Way(res)) <= Len(r) ELSE Len(Way(res)) = Len(r))
  BY <1>2
<1>6. ASSUME Len(b) <= Len(r), NEW i \in 1 .. Len(b)
      PROVE  Fits(b[i], r[i]) <=> Takes(Way(res)[i], r[i])
  BY <1>2, <1>3, <1>4, <1>6, FitsIs
<1>7. Covers(p, r) <=> /\ IF IsWild(p) THEN Len(b) <= Len(r) ELSE Len(p) = Len(r)
                       /\ \A i \in 1 .. Len(b) : Fits(b[i], r[i])
  BY <1>2 DEF Covers
<1>8. CoversFrom(res, r, 0) <=> /\ IF IsWild(p) THEN Len(Way(res)) <= Len(r)
                                    ELSE Len(Way(res)) = Len(r)
                                /\ \A i \in 1 .. Len(b) : Takes(Way(res)[i], r[i])
  BY <1>1, <1>2 DEF CoversFrom
<1>9. (IF IsWild(p) THEN Len(b) <= Len(r) ELSE Len(p) = Len(r)) => Len(b) <= Len(r)
  BY <1>2, <1>3
<1> QED BY <1>1, <1>5, <1>6, <1>7, <1>8, <1>9

LEMMA RootIs ==
    ASSUME WellFormed, TrieLoaded, NEW r \in Seq(Text)
    PROVE  Sub(<<>>, r) = {res \in Listing : Covers(FullPath(res), r)}
<1>1. \A res \in Listing : res \in Res /\ Under(<<>>, Way(res))
  BY WayOK DEF TrieLoaded
<1> QED BY <1>1, CoversIs DEF Sub

LEMMA BestFound ==
    ASSUME WellFormed
    PROVE  TrieLoaded => MatchIsBest
<1> SUFFICES ASSUME TrieLoaded, NEW r \in Request
             PROVE  /\ FindBestMatch(r) = {} <=> \A full \in Listed : ~Covers(full, r)
                    /\ \A m \in FindBestMatch(r) :
                          /\ Covers(FullPath(m.resource), r)
                          /\ \A other \in Listed : Covers(other, r) =>
                              ~Better(other, FullPath(m.resource))
  BY DEF MatchIsBest
<1>1. r \in Seq(Text)
  BY DEF WellFormed
<1>2. RightAt(<<>>, r, FindBestMatch(r))
  BY <1>1, SearchRight DEF FindBestMatch
<1>3. Sub(<<>>, r) = {res \in Listing : Covers(FullPath(res), r)}
  BY <1>1, RootIs
<1>4. Listed = {FullPath(res) : res \in Listing}
  BY DEF Listed, Listing
<1>5. FindBestMatch(r) = {} <=> \A full \in Listed : ~Covers(full, r)
  BY <1>2, <1>3, <1>4 DEF RightAt
<1>6. ASSUME NEW m \in FindBestMatch(r)
      PROVE  /\ Covers(FullPath(m.resource), r)
             /\ \A other \in Listed : Covers(other, r) =>
                 ~Better(other, FullPath(m.resource))
  <2>1. PICK res \in Sub(<<>>, r) : m = Match(res, Way(res), r) /\ Best(res, <<>>, r)
    BY <1>2 DEF RightAt
  <2>2. m.resource = res
    BY <2>1 DEF Match
  <2> QED BY <1>3, <1>4, <2>1, <2>2 DEF Best
<1> QED BY <1>5, <1>6

-----------------------------------------------------------------------------
(* The parameters.                                                         *)

\* On a resource's way, each parameter is known by the resource's own name for it.
LEMMA OwnNames ==
    ASSUME WellFormed, TrieLoaded, NamesAgree, NEW res \in Listing,
           NEW i \in 1 .. Len(Way(res))
    PROVE  LET seg == Body(FullPath(res))[i] IN
           /\ seg \in Segment /\ Way(res)[i] = Edge(seg)
           /\ NameAt(Way(res), i) = IF seg.kind = "literal" THEN Nothing ELSE seg.name
<1>1. res \in Res
  BY DEF TrieLoaded
<1>2. PICK p \in Full : p = FullPath(res)
  BY <1>1, FullPaths
<1>3. PICK b \in Seq(Segment) : b = Body(p) /\ Len(b) = Len(Way(res)) /\ Len(b) \in Nat /\
          b[i] \in Segment
  BY <1>1, <1>2, Bodies, WayOK
<1>4. Way(res)[i] = Edge(b[i])
  BY <1>2, <1>3, EdgesOK DEF Way
<1>5. CASE b[i].kind = "param"
  <2>1. Way(res)[i] = Hole
    BY <1>4, <1>5 DEF Edge
  <2>2. PICK n : n = SubSeq(Way(res), 1, i - 1)
    OBVIOUS
  <2>3. Way(res) \in Node /\ Len(Way(res)) \in Nat /\
            \A j \in 1 .. Len(Way(res)) : Way(res)[j] \in EdgeSet
    BY <1>1, WayOK DEF Node
  <2>4. n \in Node /\ Len(n) = i - 1 /\ \A j \in 1 .. i - 1 : n[j] = Way(res)[j]
    BY <2>2, <2>3, SubSeqProperties DEF Node
  <2>5. PassesHole(res, n) /\ n \in Ways(Listing)
    BY <2>1, <2>3, <2>4 DEF PassesHole, Under, Ways
  <2>6. trie[n].param # Nothing
    BY <2>5 DEF TrieLoaded, Holds
  <2>7. PICK q \in Listing : NamesBelow(q, n, trie[n].param)
    BY <2>5, <2>6 DEF TrieLoaded, Holds
  <2>8. /\ q \in Res /\ Under(n, Way(q)) /\ i <= Len(Way(q)) /\ Way(q)[i] = Hole
        /\ Body(FullPath(q))[i].name = trie[n].param /\ Len(Way(q)) \in Nat
        /\ Len(Way(q)) = Len(Body(FullPath(q)))
    BY <2>4, <2>7, WayOK DEF NamesBelow, TrieLoaded
  <2>9. \A j \in 1 .. i : EdgeAt(FullPath(res), j) = EdgeAt(FullPath(q), j)
    <3>1. \A j \in 1 .. i : Way(res)[j] = Way(q)[j]
      BY <2>1, <2>3, <2>4, <2>8 DEF Under
    <3>2. \A j \in 1 .. i : At(res, j) = Way(res)[j] /\ At(q, j) = Way(q)[j]
      BY <1>1, <2>3, <2>8, EdgeAtIs
    <3> QED BY <3>1, <3>2 DEF At
  <2>10. i \in DOMAIN Body(FullPath(res)) \cap DOMAIN Body(FullPath(q))
    BY <1>2, <1>3, <2>8, FullPaths, Bodies
  <2>11. Body(FullPath(res))[i] = Body(FullPath(q))[i]
    BY <2>9, <2>10 DEF NamesAgree, Listed, Listing
  <2>12. NameAt(Way(res), i) = trie[n].param
    BY <2>1, <2>2 DEF NameAt, Hole
  <2> QED BY <1>2, <1>3, <1>4, <1>5, <2>8, <2>11, <2>12
<1>6. CASE b[i].kind # "param"
  <2>1. Way(res)[i] = b[i] /\ b[i] # Hole /\ b[i].kind \in {"literal", "pattern"}
    BY <1>3, <1>4, <1>6, EdgeKinds DEF Edge, Hole
  <2>2. NameAt(Way(res), i) = IF b[i].kind = "literal" THEN Nothing ELSE b[i].name
    BY <2>1 DEF NameAt
  <2> QED BY <1>2, <1>3, <1>4, <2>2
<1> QED BY <1>5, <1>6

\* The segment each of a resource's placeholders is filled with.
LEMMA PlaceholderIs ==
    ASSUME WellFormed, TrieLoaded, NamesAgree, NEW res \in Listing,
           NEW r \in Seq(Text), Covers(FullPath(res), r),
           NEW i \in 1 .. Len(Way(res))
    PROVE  LET seg == Body(FullPath(res))[i]
               params == ParamsOf(Way(res), r)
           IN  IF seg.kind = "literal" THEN Spelt(seg) = r[i]
               ELSE /\ seg.name \in ParamName \cap DOMAIN params
                    /\ Spelt(seg)[1] = Braces[seg.name]
                    /\ Put(Spelt(seg), params[seg.name]) = r[i]
<1>1. PICK n : n = Way(res)
  OBVIOUS
<1>2. PICK b : b = Body(FullPath(res))
  OBVIOUS
<1>3. res \in Res /\ Len(n) \in Nat /\ n \in Seq(EdgeSet) /\ Len(b) = Len(n) /\ Len(n) <= Len(r)
  <2>1. res \in Res
    BY DEF TrieLoaded
  <2> QED BY <1>1, <1>2, <2>1, WayOK, CoversIs DEF Node, CoversFrom
<1>4. b \in Seq(Segment) /\ DOMAIN b = 1 .. Len(n) /\ DOMAIN n = 1 .. Len(n)
  BY <1>2, <1>3, FullPaths, Bodies
<1>5. \A j \in 1 .. Len(n) : /\ b[j] \in Segment /\ n[j] = Edge(b[j])
                             /\ NameAt(n, j) = IF b[j].kind = "literal" THEN Nothing ELSE b[j].name
  BY <1>1, <1>2, OwnNames
<1>6. r[i] \in Text /\ i \in 1 .. Len(n) /\ Fits(b[i], r[i])
  BY <1>1, <1>2, <1>3, <1>4 DEF Covers
<1> DEFINE bound == {j \in DOMAIN n : NameAt(n, j) # Nothing}
           LastOf(name) == CHOOSE k \in bound : /\ NameAt(n, k) = name
                                                /\ \A j \in bound : NameAt(n, j) = name => j <= k
<1>7. ParamsOf(n, r) = [name \in {NameAt(n, j) : j \in bound} |->
          ValueAt(n, LastOf(name), r)]
  BY DEF ParamsOf
<1>8. CASE b[i].kind = "literal"
  BY <1>1, <1>2, <1>6, <1>8 DEF Spelt, Fits
<1>9. CASE b[i].kind # "literal"
  <2>1. b[i].kind \in {"param", "pattern"} /\ b[i].name \in ParamName
    BY <1>5, <1>6, <1>9 DEF Segment
  <2>2. i \in bound /\ NameAt(n, i) = b[i].name
    BY <1>4, <1>5, <1>6, <1>9, <2>1 DEF WellFormed
  <2>3. ASSUME NEW j \in bound, NameAt(n, j) = b[i].name PROVE j = i
    <3>1. j \in 1 .. Len(n) /\ b[j].kind # "literal" /\ b[j].name = b[i].name
      BY <1>4, <1>5, <2>3
    <3>2. b[j].kind \in {"param", "pattern"}
      BY <1>5, <3>1, EdgeKinds
    <3>3. b = Body(FullPath(res)) /\ FullPath(res) \in Listed
      BY <1>2 DEF Listed, Listing
    <3> QED BY <1>4, <1>6, <2>1, <3>1, <3>2, <3>3 DEF NamesAgree
  <2>4. LastOf(b[i].name) = i
    <3> DEFINE Latest(k) == NameAt(n, k) = b[i].name /\
                           \A j \in bound : NameAt(n, j) = b[i].name => j <= k
    <3>1. Latest(i)
      <4>1. i <= i
        OBVIOUS
      <4> QED BY <2>2, <2>3, <4>1
    <3>2. PICK k : k = CHOOSE x \in bound : Latest(x)
      OBVIOUS
    <3>3. k = LastOf(b[i].name)
      BY <3>2
    <3>4. k \in bound /\ Latest(k)
      <4> HIDE DEF bound, Latest
      <4> QED BY <2>2, <3>1, <3>2
    <3> QED BY <2>3, <3>3, <3>4
  <2>5. /\ b[i].name \in DOMAIN ParamsOf(n, r)
        /\ ParamsOf(n, r)[b[i].name] = ValueAt(n, i, r)
    <3> HIDE DEF bound, LastOf
    <3> QED BY <1>7, <2>2, <2>4
  <2>6. CASE b[i].kind = "param"
    <3>1. n[i] = Hole
      BY <1>5, <1>6, <2>6 DEF Edge
    <3>2. ParamsOf(n, r)[b[i].name] = r[i]
      BY <2>5, <3>1 DEF ValueAt
    <3>3. Spelt(b[i]) = <<Braces[b[i].name], "">>
      BY <2>6 DEF Spelt
    <3>4. Spelt(b[i])[1] = Braces[b[i].name] /\ Spelt(b[i])[2] = ""
      <4>1. PICK v : v = Braces[b[i].name]
        OBVIOUS
      <4>2. <<v, "">>[1] = v /\ <<v, "">>[2] = ""
        OBVIOUS
      <4> QED BY <3>3, <4>1, <4>2
    <3>5. Put(Spelt(b[i]), r[i]) = r[i]
      BY <3>4 DEF Put
    <3> QED BY <1>1, <1>2, <1>9, <2>1, <2>5, <3>2, <3>4, <3>5
  <2>7. CASE b[i].kind = "pattern"
    <3>1. n[i] = b[i] /\ n[i] # Hole
      BY <1>5, <1>6, <2>7 DEF Edge, Hole
    <3>2. ParamsOf(n, r)[b[i].name] = <<r[i][1], "">>
      BY <2>5, <3>1 DEF ValueAt
    <3>3. b[i].ext = r[i][2]
      BY <1>6, <2>7 DEF Fits
    <3>4. r[i] = <<r[i][1], r[i][2]>>
      BY <1>6 DEF Text
    <3>5. Spelt(b[i]) = <<Braces[b[i].name], b[i].ext>>
      BY <2>7 DEF Spelt
    <3>6. ParamsOf(n, r)[b[i].name][1] = r[i][1]
      <4>1. PICK v : v = r[i][1]
        OBVIOUS
      <4>2. <<v, "">>[1] = v
        OBVIOUS
      <4> QED BY <3>2, <4>1, <4>2
    <3>7. Put(Spelt(b[i]), <<r[i][1], "">>) = <<r[i][1], b[i].ext>>
      <4>1. Spelt(b[i])[2] = b[i].ext
        BY <3>5
      <4>2. b[i].ext # ""
        BY <1>6, <2>7 DEF Fits
      <4> QED BY <4>1, <4>2 DEF Put
    <3>8. Spelt(b[i])[1] = Braces[b[i].name]
      BY <3>5
    <3> QED BY <1>1, <1>2, <1>9, <2>1, <2>5, <3>2, <3>3, <3>4, <3>7, <3>8
  <2> QED BY <2>1, <2>6, <2>7
<1> QED BY <1>8, <1>9

\* The parameters' names are names that the paths use, and finitely many.
LEMMA ParamNames ==
    ASSUME WellFormed, TrieLoaded, NamesAgree, NEW res \in Listing,
           NEW r \in Seq(Text)
    PROVE  LET params == ParamsOf(Way(res), r) IN
           DOMAIN params \subseteq ParamName /\ Cardinality(DOMAIN params) \in Nat
<1>1. PICK n : n = Way(res)
  OBVIOUS
<1>2. Len(n) \in Nat /\ DOMAIN n = 1 .. Len(n)
  BY <1>1, WayOK DEF TrieLoaded, Node
<1> DEFINE bound == {j \in DOMAIN n : NameAt(n, j) # Nothing}
           T == {NameAt(n, j) : j \in bound}
           f == [j \in bound |-> NameAt(n, j)]
<1>3. DOMAIN ParamsOf(n, r) = T
  BY DEF ParamsOf
<1>4. T \subseteq ParamName
  <2> SUFFICES ASSUME NEW j \in bound PROVE NameAt(n, j) \in ParamName
    OBVIOUS
  <2>1. PICK seg \in Segment : NameAt(n, j) = IF seg.kind = "literal" THEN Nothing ELSE seg.name
    BY <1>1, <1>2, OwnNames
  <2> QED BY <2>1 DEF Segment
<1>5. IsFiniteSet(bound)
  <2>1. IsFiniteSet(1 .. Len(n))
    BY <1>2, FS_Interval
  <2>2. bound \in SUBSET (1 .. Len(n))
    BY <1>2
  <2> QED BY <2>1, <2>2, FS_Subset
<1>6. f \in Surjection(bound, T)
  BY DEF Surjection
<1>7. Cardinality(T) \in Nat
  <2> HIDE DEF bound, T, f
  <2> QED BY <1>5, <1>6, FS_Surjection, FS_CardinalityType
<1> QED BY <1>1, <1>3, <1>4, <1>7

\* Each written segment is filled with the caller's by any parameter it names, and is the caller's
\* if it names none; no segment of the caller's names one.
Fillable(w, params, want) ==
    \A i \in DOMAIN w :
        /\ \A name \in DOMAIN params : /\ want[i][1] # Braces[name]
                                       /\ w[i][1] = Braces[name] => Put(w[i], params[name]) = want[i]
        /\ (\A name \in DOMAIN params : w[i][1] # Braces[name]) => w[i] = want[i]

Ordered(order, params) ==
    Len(order) \in Nat /\ \A k \in 1 .. Len(order) : order[k] \in DOMAIN params
HalfFilled(p, w, want, D) == DOMAIN p = D /\ \A i \in D : p[i] = w[i] \/ p[i] = want[i]

\* Between two replacements a segment is as written, or filled.
LEMMA ReplacedIs ==
    ASSUME NEW D, NEW W, NEW w \in [D -> W], NEW params, NEW want, Fillable(w, params, want),
           NEW order, Ordered(order, params)
    PROVE  HalfFilled(Replaced(w, params, order), w, want, D)
<1> USE DEF Ordered
<1> DEFINE N == Len(order)
           V == W \cup {want[i] : i \in D}
           S == {p \in [D -> V] : \A i \in D : p[i] = w[i] \/ p[i] = want[i]}
           Pass(k, p) == ReplaceEach(p, order[k], params[order[k]])
           Passes(a) == [k \in 0 .. N |-> IF k = 0 THEN w ELSE Pass(k, a[k - 1])]
<1>1. PICK a : a = (CHOOSE x : x = Passes(x)) /\ Replaced(w, params, order) = a[N]
  BY DEF Replaced
<1>2. ASSUME NEW p \in S, NEW k \in 1 .. N PROVE Pass(k, p) \in S
  <2>1. PICK name \in DOMAIN params : name = order[k]
    OBVIOUS
  <2>2. PICK q : q = [i \in D |-> IF p[i][1] = Braces[name] THEN Put(p[i], params[name]) ELSE p[i]]
    OBVIOUS
  <2>3. Pass(k, p) = q
    BY <2>1, <2>2 DEF ReplaceEach
  <2>4. ASSUME NEW i \in D PROVE q[i] = w[i] \/ q[i] = want[i]
    <3>1. CASE p[i] = want[i]
      BY <2>2, <3>1 DEF Fillable
    <3>2. CASE p[i] = w[i]
      BY <2>2, <3>2 DEF Fillable
    <3> QED BY <3>1, <3>2
  <2>5. q \in [D -> V]
    <3>1. \A i \in D : q[i] \in V
      BY <2>4
    <3> HIDE DEF V
    <3> QED BY <2>2, <3>1
  <2> QED BY <2>3, <2>4, <2>5
<1>3. w \in S
  OBVIOUS
<1> HIDE DEF Pass, S
<1>4. PICK step : step = [x \in (1 .. N) \X S |-> Pass(x[1], x[2])]
  OBVIOUS
<1>5. PICK f : Run(N, S, w, step, f)
  <2>1. Closed(N, S, step)
    BY <1>2, <1>4 DEF Closed
  <2> QED BY <1>3, <2>1, Loops
<1>6. f = Passes(f)
  <2>1. ASSUME NEW k \in 1 .. N PROVE f[k] = Pass(k, f[k - 1])
    <3>1. f[k - 1] \in S
      BY <1>5 DEF Run
    <3>2. step[<<k, f[k - 1]>>] = Pass(k, f[k - 1])
      BY <1>4, <3>1
    <3> QED BY <1>5, <3>2 DEF Run
  <2> QED BY <1>5, <2>1 DEF Run
<1>7. a = Passes(a)
  <2> HIDE DEF Passes
  <2> QED BY <1>1, <1>6
<1> DEFINE Kept == {k \in 0 .. N : a[k] \in S}
<1>8. Advances(N, Kept)
  <2>1. \A k \in 0 .. N : a[k] = Passes(a)[k]
    BY <1>7
  <2>2. 0 \in 0 .. N /\ \A k \in 1 .. N : k \in 0 .. N /\ k # 0
    OBVIOUS
  <2> QED BY <1>2, <1>3, <2>1, <2>2 DEF Advances
<1>9. a[N] \in S
  <2> HIDE DEF Kept
  <2>1. N \in Kept
    BY <1>8, Steps
  <2> QED BY <2>1 DEF Kept
<1> QED BY <1>1, <1>9 DEF S, HalfFilled

\* In whichever order the parameters come, the last pass fills what the replacements have left.
LEMMA RefilledIs ==
    ASSUME NEW D, NEW w, NEW params, NEW want, DOMAIN w = D, Fillable(w, params, want),
           NEW p, HalfFilled(p, w, want, D)
    PROVE  Refilled(p, params) = [i \in D |-> want[i]]
<1> USE DEF HalfFilled
<1> DEFINE Named(i) == CHOOSE name \in DOMAIN params : p[i][1] = Braces[name]
<1>1. ASSUME NEW i \in D
      PROVE  want[i] = IF \E name \in DOMAIN params : p[i][1] = Braces[name]
                       THEN Put(p[i], params[Named(i)]) ELSE p[i]
  <2>1. CASE \E name \in DOMAIN params : p[i][1] = Braces[name]
    <3>1. Named(i) \in DOMAIN params /\ p[i][1] = Braces[Named(i)]
      BY <2>1
    <3> HIDE DEF Named
    <3>2. p[i] # want[i]
      BY <2>1 DEF Fillable
    <3> QED BY <2>1, <3>1, <3>2 DEF Fillable
  <2>2. CASE ~\E name \in DOMAIN params : p[i][1] = Braces[name]
    BY <2>2 DEF Fillable
  <2> QED BY <2>1, <2>2
<1> QED BY <1>1, Zenon DEF Refilled

\* What the caller asked for, where no segment of it is a placeholder of the same path.
LEMMA Fills ==
    ASSUME WellFormed, TrieLoaded, NamesAgree, NEW res \in Listing,
           NEW r \in Seq(Text), Covers(FullPath(res), r),
           NEW source, source = Body(FullPath(res)), NEW params, params = ParamsOf(Way(res), r),
           \A i \in DOMAIN source : \A name \in DOMAIN params : r[i][1] # Braces[name],
           NEW order \in SetToSeqs(DOMAIN params)
    PROVE  FilledIn(source, params, order) = [i \in DOMAIN source |-> r[i]]
<1> DEFINE W == {Spelt(source[i]) : i \in DOMAIN source}
<1>1. PICK w : w = [i \in DOMAIN source |-> Spelt(source[i])]
  OBVIOUS
<1>2. DOMAIN params \subseteq ParamName /\ Cardinality(DOMAIN params) \in Nat
  BY ParamNames
<1>3. Ordered(order, params)
  <2>1. order \in [1 .. Cardinality(DOMAIN params) -> DOMAIN params]
    BY DEF SetToSeqs
  <2> QED BY <1>2, <2>1 DEF Ordered
<1>4. DOMAIN source = 1 .. Len(Way(res)) /\ \A i \in DOMAIN source : source[i] \in Segment
  <2>1. res \in Res
    BY DEF TrieLoaded
  <2> QED BY <2>1, WayOK, FullPaths, Bodies
<1>5. Fillable(w, params, r)
  <2> SUFFICES ASSUME NEW i \in DOMAIN source
               PROVE  /\ \A name \in DOMAIN params :
                            w[i][1] = Braces[name] => Put(w[i], params[name]) = r[i]
                      /\ (\A name \in DOMAIN params : w[i][1] # Braces[name]) => w[i] = r[i]
    BY <1>1 DEF Fillable
  <2>1. w[i] = Spelt(source[i]) /\ i \in 1 .. Len(Way(res))
    BY <1>1, <1>4
  <2>2. CASE source[i].kind = "literal"
    <3>1. w[i] = r[i]
      BY <2>1, <2>2, PlaceholderIs
    <3> QED BY <3>1
  <2>3. CASE source[i].kind # "literal"
    <3>1. PICK own \in ParamName \cap DOMAIN params :
              own = source[i].name /\ w[i][1] = Braces[own] /\ Put(w[i], params[own]) = r[i]
      BY <2>1, <2>3, PlaceholderIs
    <3>2. \A name \in DOMAIN params : w[i][1] = Braces[name] => name = own
      BY <1>2, <3>1 DEF WellFormed
    <3> QED BY <3>1, <3>2
  <2> QED BY <2>2, <2>3
<1>6. PICK p : p = Replaced(w, params, order)
  OBVIOUS
<1>7. HalfFilled(p, w, r, DOMAIN source)
  <2>1. w \in [DOMAIN source -> W]
    BY <1>1
  <2> HIDE DEF W
  <2> QED BY <1>3, <1>5, <1>6, <2>1, ReplacedIs
<1>8. Refilled(p, params) = [i \in DOMAIN source |-> r[i]]
  BY <1>1, <1>5, <1>7, RefilledIs
<1> QED BY <1>1, <1>6, <1>8 DEF FilledIn

LEMMA Whole ==
    ASSUME NEW r \in Seq(Text), NEW L \in 0 .. Len(r)
    PROVE  [i \in 1 .. L |-> r[i]] \o SubSeq(r, L + 1, Len(r)) = r
<1>1. PICK s : s = [i \in 1 .. L |-> r[i]]
  OBVIOUS
<1>2. PICK t : t = SubSeq(r, L + 1, Len(r))
  OBVIOUS
<1>3. Len(r) \in Nat /\ \A i \in 1 .. Len(r) : r[i] \in Text
  OBVIOUS
<1>4. s \in Seq(Text) /\ Len(s) = L /\ \A i \in 1 .. L : s[i] = r[i]
  BY <1>1, <1>3
<1>5. t \in Seq(Text) /\ Len(t) = Len(r) - L /\ \A i \in 1 .. Len(r) - L : t[i] = r[L + i]
  BY <1>2, <1>3, SubSeqProperties
<1>6. /\ s \o t \in Seq(Text) /\ Len(s \o t) = Len(r)
      /\ \A i \in 1 .. Len(r) : (s \o t)[i] = IF i <= L THEN s[i] ELSE t[i - L]
  <2>1. /\ s \o t \in Seq(Text) /\ Len(s \o t) = Len(s) + Len(t)
        /\ \A i \in 1 .. Len(s) + Len(t) : (s \o t)[i] = IF i <= Len(s) THEN s[i] ELSE t[i - Len(s)]
    BY <1>4, <1>5, ConcatProperties
  <2>2. Len(s) + Len(t) = Len(r)
    BY <1>3, <1>4, <1>5
  <2> QED BY <1>4, <2>1, <2>2
<1>7. ASSUME NEW i \in 1 .. Len(r) PROVE (s \o t)[i] = r[i]
  <2>1. CASE i <= L
    BY <1>4, <1>6, <2>1
  <2>2. CASE i > L
    <3>1. i - L \in 1 .. Len(r) - L /\ L + (i - L) = i
      BY <1>3, <2>2
    <3> QED BY <1>3, <1>5, <1>6, <2>2, <3>1
  <2>3. i <= L \/ i > L
    OBVIOUS
  <2> QED BY <2>1, <2>2, <2>3
<1> QED BY <1>1, <1>2, <1>6, <1>7, SeqEqual

LEMMA RequestMirrored ==
    ASSUME WellFormed
    PROVE  TrieLoaded => MirrorsRequest
<1> SUFFICES ASSUME TrieLoaded, NamesAgree, NEW r \in Request, NEW m \in FindBestMatch(r),
                    Plain(r, m), NEW path \in ResolveSourcePath(Body(FullPath(m.resource)), m)
             PROVE  path = r
  BY DEF MirrorsRequest, Mirrored
<1>1. r \in Seq(Text)
  BY DEF WellFormed
<1>2. RightAt(<<>>, r, FindBestMatch(r))
  BY <1>1, SearchRight DEF FindBestMatch
<1>3. PICK res \in Sub(<<>>, r) : m = Match(res, Way(res), r)
  BY <1>2 DEF RightAt
<1>4. res \in Listing /\ Covers(FullPath(res), r) /\ res \in Res
  BY <1>1, <1>3, RootIs DEF TrieLoaded
<1>5. m.resource = res /\ m.params = ParamsOf(Way(res), r)
      /\ m.remaining = SubSeq(r, Len(Way(res)) + 1, Len(r))
  BY <1>3 DEF Match
<1>6. PICK L \in Nat : L = Len(Way(res)) /\ L <= Len(r) /\ DOMAIN Body(FullPath(res)) = 1 .. L
  BY <1>1, <1>4, WayOK, CoversIs, FullPaths, Bodies DEF CoversFrom
<1>7. PICK source : source = Body(FullPath(res))
  OBVIOUS
<1>8. PICK order \in SetToSeqs(DOMAIN m.params) :
          path = FilledIn(source, m.params, order) \o m.remaining
  BY <1>5, <1>7 DEF ResolveSourcePath
<1>9. FilledIn(source, m.params, order) = [i \in DOMAIN source |-> r[i]]
  <2>1. \A i \in DOMAIN source : \A name \in DOMAIN m.params : r[i][1] # Braces[name]
    BY <1>5, <1>7 DEF Plain
  <2> QED BY <1>1, <1>4, <1>5, <1>7, <1>8, <2>1, Fills
<1>10. path = [i \in 1 .. L |-> r[i]] \o SubSeq(r, L + 1, Len(r))
  BY <1>5, <1>6, <1>7, <1>8, <1>9
<1> QED BY <1>1, <1>6, <1>10, Whole

-----------------------------------------------------------------------------
(* The trie is that of the list, whichever way the list was changed.       *)

ListLoaded == services \in Lists /\ trie = LoadBulk(services)

LEMMA LoadedIs ==
    ASSUME WellFormed
    PROVE  ListLoaded => TrieLoaded
BY BulkHolds DEF ListLoaded, TrieLoaded, Listing

LEMMA Removed ==
    ASSUME NEW S, NEW s \in Seq(S), NEW i \in DOMAIN s
    PROVE  RemoveAt(s, i) \in Seq(S)
<1>1. Len(s) \in Nat /\ i \in 1 .. Len(s) /\ \A j \in 1 .. Len(s) : s[j] \in S
  OBVIOUS
<1>2. SubSeq(s, 1, i - 1) \in Seq(S) /\ SubSeq(s, i + 1, Len(s)) \in Seq(S)
  BY <1>1, SubSeqProperties
<1>3. SubSeq(s, 1, i - 1) \o SubSeq(s, i + 1, Len(s)) \in Seq(S)
  BY <1>2, ConcatProperties
<1> QED BY <1>3 DEF RemoveAt

LEMMA Reversed ==
    ASSUME NEW S, NEW s \in Seq(S)
    PROVE  Reverse(s) \in Seq(S)
<1>1. Len(s) \in Nat /\ \A j \in 1 .. Len(s) : s[j] \in S
  OBVIOUS
<1>2. \A j \in 1 .. Len(s) : Len(s) - j + 1 \in 1 .. Len(s)
  BY <1>1
<1> QED BY <1>1, <1>2 DEF Reverse

LEMMA ListIs == Lists = Seq(Entries)
BY DEF Lists, Entries

\* One service's paths replaced.
LEMMA Changed ==
    ASSUME NEW given \in Lists, NEW i \in DOMAIN given, NEW paths \in Seq(Path)
    PROVE  [given EXCEPT ![i].paths = paths] \in Lists
<1>1. given \in [1 .. Len(given) -> Entries] /\ Len(given) \in Nat /\ i \in 1 .. Len(given)
  BY ListIs
<1>2. [given[i] EXCEPT !.paths = paths] \in Entries
  BY <1>1 DEF Entries
<1>3. [given EXCEPT ![i].paths = paths] \in [1 .. Len(given) -> Entries]
  BY <1>1, <1>2
<1> QED BY <1>1, <1>3, ListIs

LEMMA TakeOK ==
    ASSUME NEW given \in Lists, Take(given)
    PROVE  ListLoaded'
BY DEF Take, ListLoaded

LEMMA InitLoaded ==
    ASSUME WellFormed
    PROVE  TrieInit => ListLoaded
<1> SUFFICES ASSUME TrieInit PROVE ListLoaded
  OBVIOUS
<1>1. services = <<>> /\ trie = EmptyTrie
  BY DEF TrieInit
<1>2. <<>> \in Lists /\ Len(<<>>) = 0
  BY DEF Lists
<1>3. LoadBulk(<<>>) = EmptyTrie
  BY <1>2, BulkLoop
<1> QED BY <1>1, <1>2, <1>3 DEF ListLoaded

LEMMA ListStays == ListLoaded /\ [TrieNext]_trieVars => ListLoaded'
<1> SUFFICES ASSUME ListLoaded, [TrieNext]_trieVars PROVE ListLoaded'
  OBVIOUS
<1>0. services \in Lists
  BY DEF ListLoaded
<1>1. ASSUME NEW s \in Service, NEW p \in Path, AddService(s, p) PROVE ListLoaded'
  <2>1. [id |-> s, paths |-> <<p>>] \in Entries
    BY DEF Entries
  <2>2. Append(services, [id |-> s, paths |-> <<p>>]) \in Lists
    BY <1>0, <2>1, AppendProperties, ListIs
  <2> QED BY <1>1, <2>2, TakeOK DEF AddService
<1>2. ASSUME NEW i \in DOMAIN services, NEW p \in Path, AddPath(i, p) PROVE ListLoaded'
  <2>1. services[i].paths \in Seq(Path)
    <3>1. services[i] \in Entries
      BY <1>0, ListIs
    <3> QED BY <3>1 DEF Entries
  <2>2. Append(services[i].paths, p) \in Seq(Path)
    BY <2>1, AppendProperties
  <2>3. [services EXCEPT ![i].paths = Append(@, p)] \in Lists
    BY <1>0, <2>2, Changed
  <2> QED BY <1>2, <2>3, TakeOK DEF AddPath
<1>3. ASSUME NEW i \in DOMAIN services, NEW j \in DOMAIN services[i].paths, RemovePath(i, j)
      PROVE  ListLoaded'
  <2>1. services[i].paths \in Seq(Path)
    <3>1. services[i] \in Entries
      BY <1>0, ListIs
    <3> QED BY <3>1 DEF Entries
  <2>2. PICK left : left = RemoveAt(services[i].paths, j)
    OBVIOUS
  <2>3. left \in Seq(Path)
    BY <2>1, <2>2, Removed
  <2>4. [services EXCEPT ![i].paths = left] \in Lists
    BY <1>0, <2>3, Changed
  <2>5. RemoveAt(services, i) \in Lists
    BY <1>0, Removed, ListIs
  <2>6. Take(IF left = <<>> THEN RemoveAt(services, i)
            ELSE [services EXCEPT ![i].paths = left])
    BY <1>3, <2>2 DEF RemovePath
  <2> QED BY <2>4, <2>5, <2>6, TakeOK
<1>4. CASE Load
  <2>1. Reverse(services) \in Lists
    BY <1>0, Reversed, ListIs
  <2> QED BY <1>4, <2>1 DEF Load, ListLoaded
<1>5. CASE UNCHANGED trieVars
  BY <1>5 DEF trieVars, ListLoaded
<1> QED BY <1>1, <1>2, <1>3, <1>4, <1>5 DEF TrieNext

LEMMA AlwaysLoaded == TrieSpec => []ListLoaded
BY PathTrieAssumption, InitLoaded, ListStays, PTL DEF TrieSpec

\* However the services and their resources were loaded, a request is answered exactly if some
\* resource covers it, and by one that no better one competes with (PathTrie.search).
THEOREM SearchFindsBest == TrieSpec => []MatchIsBest
<1>1. ListLoaded => MatchIsBest
  BY PathTrieAssumption, LoadedIs, BestFound
<1> QED BY <1>1, AlwaysLoaded, PTL

\* Where the parameters' names agree, a source whose URL repeats its resource's path is called with
\* the request's own path, in whichever order the parameters are filled in, unless a segment asked
\* for is itself a placeholder of that path (ResolveSourcePath).
THEOREM RequestIsMirrored == TrieSpec => []MirrorsRequest
<1>1. ListLoaded => MirrorsRequest
  BY PathTrieAssumption, LoadedIs, RequestMirrored
<1> QED BY <1>1, AlwaysLoaded, PTL
=============================================================================
