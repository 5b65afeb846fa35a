-------------------------- MODULE TransformConfigs --------------------------
(***************************************************************************)
(* Response transforms: administrators edit them in MongoDB, the gateway   *)
(* reads the enabled ones, orders each service's by how specific their     *)
(* path patterns are, and applies the first that matches.                  *)
(*                                                                         *)
(* A segment is a sequence of letters and a path a sequence of segments.   *)
(* The path of a resource may end with a segment "*", and answers requests *)
(* of many paths.  A pattern is a path that ends there ("exact"), goes on  *)
(* with a segment "*" ("/*"), or has a last segment that ends with "*"     *)
(* ("*").  How an answer travels to a gateway, and what a cut one does, is *)
(* in RouteSync: here one arrives whole.                                   *)
(***************************************************************************)
EXTENDS Integers, Sequences, SequencesExt, FiniteSets

CONSTANTS
    Service,     \* the services
    Path,        \* for each service the path of its resource, as it is declared
    Request,     \* the paths asked for
    Method,      \* the methods asked for
    Body,        \* the requests' bodies: [service, path, methods, enabled]
    PresetPath,  \* the patterns of the presets
    User, Role,  \* the callers and their roles
    Nothing,     \* nil, and a blank pattern
    MaxEdits,    \* bound of the model: requests that write
    MaxTime      \* bound of the model: the clock

VARIABLES
    configs,  \* the documents, by id, as they were created
    writes,   \* updates and deletes that have found their document
    edits,    \* requests that wrote or are in writes
    now,      \* the clock
    table     \* the gateway's: each service's configs in the order they are tried

vars == <<configs, writes, edits, now, table>>

-----------------------------------------------------------------------------
(* The control plane.                                                      *)

CanManage(u) == Role[u] \in {"root", "admin"}
Valid(body) == body.path # Nothing
Alive(id) == id \in DOMAIN configs /\ ~configs[id].deleted

\* createdAt is the time of the insert; an edit keeps it.
Document(body) ==
    [id |-> Len(configs) + 1, body |-> body, created |-> now, deleted |-> FALSE]
Insert(body) ==
    /\ edits < MaxEdits
    /\ configs' = Append(configs, Document(body))
    /\ edits' = edits + 1
    /\ UNCHANGED <<writes, now, table>>

Create(u, body) == CanManage(u) /\ Valid(body) /\ Insert(body)

\* A preset is applied switched off, to a service that has an upstream.
ApplyPreset(u, s, path) ==
    /\ CanManage(u)
    /\ Insert([service |-> s, path |-> path, methods |-> {}, enabled |-> FALSE])

Begin(id, write) ==
    /\ edits < MaxEdits
    /\ Alive(id)
    /\ writes' = writes \cup {write}
    /\ edits' = edits + 1
    /\ UNCHANGED <<configs, now, table>>

Update(u, id, body) ==
    CanManage(u) /\ Valid(body) /\ Begin(id, [op |-> "update", id |-> id, body |-> body])
Delete(u, id) == CanManage(u) /\ Begin(id, [op |-> "delete", id |-> id])

\* The document after a write, which misses one that was deleted since it was found.
Written(doc, w) ==
    CASE doc.deleted -> doc
      [] ~doc.deleted /\ w.op = "update" -> [doc EXCEPT !.body = w.body]
      [] OTHER -> [doc EXCEPT !.deleted = TRUE]

Write(w) ==
    /\ configs' = [configs EXCEPT ![w.id] = Written(@, w)]
    /\ writes' = writes \ {w}
    /\ UNCHANGED <<edits, now, table>>

-----------------------------------------------------------------------------
(* The gateway.                                                            *)

\* The enabled documents, newest first: those of one millisecond in any order.
FindAllActive ==
    LET active == {c \in ToSet(configs) : ~c.deleted /\ c.body.enabled}
    IN  {list \in SetToSeqs(active) :
            \A i, j \in DOMAIN list : i < j => list[i].created >= list[j].created}

Segments(p) ==
    LET n == Len(p.prefix) + (IF p.tail = "/*" THEN 1 ELSE 0)
    IN  IF n = 0 THEN 1 ELSE n

PathScore(p) == Segments(p) * (IF p.tail = "exact" THEN 10 ELSE 8)

\* A step of the insertion sort, which moves c past the configs of a lower score.
Place(list, c) ==
    LET atLeast == {i \in DOMAIN list : PathScore(list[i].body.path) >= PathScore(c.body.path)}
    IN  InsertAt(list, Cardinality(atLeast) + 1, c)
SortBySpecificity(list) == FoldLeft(Place, <<>>, list)

\* A poll, or the reload that every write publishes: the table is replaced.
Sync ==
    /\ \E answer \in FindAllActive :
          table' = [s \in Service |-> SortBySpecificity(
                        SelectSeq(answer, LAMBDA c : c.body.enabled /\ c.body.service = s))]
    /\ UNCHANGED <<configs, writes, edits, now>>

MatchWildcardPath(p, path) ==
    LET n == Len(p.prefix)
    IN  CASE p.tail = "exact" -> path = p.prefix
          [] p.tail = "/*" -> n = 0 \/ IsStrictPrefix(p.prefix, path)
          [] p.tail = "*" -> \/ n = 0
                             \/ /\ n <= Len(path)
                                /\ Front(p.prefix) = SubSeq(path, 1, n - 1)
                                /\ IsPrefix(Last(p.prefix), path[n])
MatchMethod(methods, method) == methods = {} \/ method \in methods
Matches(c, path, method) ==
    MatchWildcardPath(c.body.path, path) /\ MatchMethod(c.body.methods, method)

FindTransformConfig(s, path, method) ==
    LET matching == SelectSeq(table[s], LAMBDA c : Matches(c, path, method))
    IN  IF matching = <<>> THEN Nothing ELSE Head(matching)

\* PathTrie.Match: a resource "/*" answers what goes on from there, and the bare path too.
Star == <<"*">>
Covers(path, request) ==
    IF path # <<>> /\ Last(path) = Star THEN IsPrefix(Front(path), request) ELSE path = request

\* The proxy handler asks with the resource's path, whatever the request's.
Chosen(s, method) == FindTransformConfig(s, Path[s], method)

-----------------------------------------------------------------------------
Init ==
    /\ configs = <<>>
    /\ writes = {}
    /\ edits = 0
    /\ now = 0
    /\ table = [s \in Service |-> <<>>]

Tick == now < MaxTime /\ now' = now + 1 /\ UNCHANGED <<configs, writes, edits, table>>

Next ==
    \/ \E u \in User :
          \/ \E body \in Body :
                Create(u, body) \/ \E id \in DOMAIN configs : Update(u, id, body)
          \/ \E id \in DOMAIN configs : Delete(u, id)
          \/ \E s \in Service, path \in PresetPath : ApplyPreset(u, s, path)
    \/ \E w \in writes : Write(w)
    \/ Sync
    \/ Tick

\* The gateway polls for ever, and a poll succeeds in the end.
Spec == Init /\ [][Next]_vars /\ WF_vars(Sync)

-----------------------------------------------------------------------------
(* What the administrators are told.                                       *)

Settled ==
    \A s \in Service, request \in Request, method \in Method :
        LET candidates == {c \in ToSet(configs) :
                              /\ ~c.deleted /\ c.body.enabled /\ c.body.service = s
                              /\ Matches(c, request, method)}
        IN  Covers(Path[s], request) =>
                IF candidates = {} THEN Chosen(s, method) = Nothing ELSE Chosen(s, method) \in candidates

\* Once the edits are over, a request is answered through an enabled config of its service whose
\* pattern matches the path that was asked for, and through none when there is none: match.path "is
\* the request path pattern" (docs/response-transforms.md:35).
PatternsMatchRequests == <>[]Settled
=============================================================================
