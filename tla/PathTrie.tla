------------------------------ MODULE PathTrie ------------------------------
(***************************************************************************)
(* The gateway's path trie: built from the list of services, and searched  *)
(* for the resource that answers a request and for the parameters that the *)
(* source's URL is filled with, one parameter after another.               *)
(*                                                                         *)
(* A request's segment is <<stem, extension>>, with "" for no extension.   *)
(* A path's segment is a literal, "{name}", "{name}.extension" or "*", and *)
(* what follows its first "*" makes no difference.                         *)
(* The trie's nodes are named by the edges that lead to them; all "{name}" *)
(* edges of a node are one, its paramChild, whatever their names are.      *)
(***************************************************************************)
EXTENDS Integers, Sequences, SequencesExt, FiniteSets

CONSTANTS
    Service,   \* the services
    Base,      \* the base path of each
    Path,      \* the resource paths a service may have
    Request,   \* the paths asked for
    Braces,    \* how each parameter's name is written as a placeholder: "{name}"
    Nothing,   \* nil, and the name of no parameter
    MaxPaths   \* bound of the model: resource paths in all

Literal(text) == [kind |-> "literal", text |-> text]
Param(name) == [kind |-> "param", name |-> name]
Pattern(name, ext) == [kind |-> "pattern", name |-> name, ext |-> ext]
Star == [kind |-> "star"]
Hole == [kind |-> "hole"]

Text == STRING \X STRING
ParamName == DOMAIN Braces
Segment == [kind : {"literal"}, text : Text] \cup [kind : {"param"}, name : ParamName]
           \cup [kind : {"pattern"}, name : ParamName, ext : STRING]

\* A caller may ask for "{name}", as any segment, but not for "{name}.extension": the trie would take
\* it for a pattern's edge and bind nothing (trie.go:177-182), which is left out here.
WellFormed ==
    /\ ParamName \subseteq STRING /\ Braces \in [ParamName -> STRING]
    /\ \A a, b \in ParamName : Braces[a] = Braces[b] => a = b
    /\ Base \in [Service -> Seq(Segment \cup {Star})]
    /\ Path \subseteq Seq(Segment \cup {Star})
    /\ Request \subseteq Seq(Text)
    /\ \A r \in Request : \A i \in DOMAIN r : \A name \in ParamName : r[i][1] = Braces[name] => r[i][2] = ""
    /\ Nothing \notin [service : Service, path : Path] /\ Nothing \notin STRING

ASSUME PathTrieAssumption == WellFormed

VARIABLES
    services,  \* the list the gateway took over last: [id, paths]
    trie       \* node |-> [end, wild: a resource or Nothing, param: the name of its paramChild]

trieVars == <<services, trie>>

EmptyNode == [end |-> Nothing, wild |-> Nothing, param |-> Nothing]
EmptyTrie == [n \in {<<>>} |-> EmptyNode]

-----------------------------------------------------------------------------
(* Insertion.                                                              *)

FullPath(res) == Base[res.service] \o res.path
IsWild(path) == \E i \in DOMAIN path : path[i] = Star
\* The segments that make nodes: those before the first "*".
Body(path) ==
    IF IsWild(path)
    THEN SubSeq(path, 1, (CHOOSE i \in DOMAIN path :
                             path[i] = Star /\ \A j \in 1 .. i - 1 : path[j] # Star) - 1)
    ELSE path
Edge(seg) == IF seg.kind = "param" THEN Hole ELSE seg
Edges(path) == [i \in DOMAIN Body(path) |-> Edge(Body(path)[i])]

NodeOf(t, n) == IF n \in DOMAIN t THEN t[n] ELSE EmptyNode

\* A node keeps the parameter name of the first path that went through its paramChild.
InsertResource(t, res) ==
    LET full == FullPath(res)
        to == Edges(full)
        Names(n) == /\ IsStrictPrefix(n, to) /\ to[Len(n) + 1] = Hole
                    /\ NodeOf(t, n).param = Nothing
    IN  [n \in DOMAIN t \cup Prefixes(to) |->
            [end |-> IF n = to /\ ~IsWild(full) THEN res ELSE NodeOf(t, n).end,
             wild |-> IF n = to /\ IsWild(full) THEN res ELSE NodeOf(t, n).wild,
             param |-> IF Names(n) THEN full[Len(n) + 1].name ELSE NodeOf(t, n).param]]

Resources(list) ==
    UNION {{[service |-> list[i].id, path |-> list[i].paths[j]] : j \in DOMAIN list[i].paths} :
              i \in DOMAIN list}

\* LoadBulk: a new trie, filled in the list's order.
LoadService(t, svc) ==
    LET after[j \in 0 .. Len(svc.paths)] ==
            IF j = 0 THEN t ELSE InsertResource(after[j - 1], [service |-> svc.id, path |-> svc.paths[j]])
    IN  after[Len(svc.paths)]
LoadBulk(list) ==
    LET after[i \in 0 .. Len(list)] ==
            IF i = 0 THEN EmptyTrie ELSE LoadService(after[i - 1], list[i])
    IN  after[Len(list)]

-----------------------------------------------------------------------------
(* Search.                                                                 *)

MatchesPattern(seg, edge) == edge.kind = "pattern" /\ seg[2] # "" /\ edge.ext = seg[2]

\* Position i of the way to node n binds a name, and to this value.
NameAt(n, i) ==
    CASE n[i] = Hole -> trie[SubSeq(n, 1, i - 1)].param
      [] n[i].kind = "pattern" -> n[i].name
      [] OTHER -> Nothing
ValueAt(n, i, r) == IF n[i] = Hole THEN r[i] ELSE <<r[i][1], "">>

\* The parameters on the way to a node: of two with one name, the deeper.
ParamsOf(n, r) ==
    LET bound == {i \in DOMAIN n : NameAt(n, i) # Nothing}
        LastOf(name) == CHOOSE i \in bound : /\ NameAt(n, i) = name
                                             /\ \A j \in bound : NameAt(n, j) = name => j <= i
    IN  [name \in {NameAt(n, i) : i \in bound} |-> ValueAt(n, LastOf(name), r)]

Match(res, n, r) ==
    [resource |-> res, params |-> ParamsOf(n, r), remaining |-> SubSeq(r, Len(n) + 1, Len(r))]

\* Mutant of FirstFound: parameters before literal segments.
ParamFirst(literal, patterns, param, wild) ==
    IF param # {} THEN param ELSE IF literal # {} THEN literal ELSE IF patterns # {} THEN patterns ELSE wild

FirstFound(literal, patterns, param, wild) ==
    IF literal # {} THEN literal ELSE IF patterns # {} THEN patterns ELSE IF param # {} THEN param ELSE wild

\* search, at a node: what it may return, from what it may return at those one edge below. Children
\* with one extension are tried in the order of a Go map, so there may be several answers. {} is nil.
Answers(r, n, below) ==
    LET wild == IF trie[n].wild # Nothing THEN {Match(trie[n].wild, n, r)} ELSE {}
        seg == r[Len(n) + 1]
        Children == {c \in DOMAIN below : Front(c) = n}
        Into(C) == UNION {below[c] : c \in C}
    IN  IF Len(n) = Len(r)
        THEN IF trie[n].end # Nothing THEN {Match(trie[n].end, n, r)} ELSE wild
        ELSE FirstFound(Into({c \in Children : Last(c) = Literal(seg)}),
                        Into({c \in Children : MatchesPattern(seg, Last(c))}),
                        Into({c \in Children : Last(c) = Hole}), wild)

\* From the nodes where the request ends back to the root.
Search(r) ==
    LET found[k \in 0 .. Len(r)] ==
            [n \in {m \in DOMAIN trie : Len(m) = Len(r) - k} |->
                Answers(r, n, IF k = 0 THEN <<>> ELSE found[k - 1])]
    IN  found[Len(r)][<<>>]

FindBestMatch(r) == Search(r)

-----------------------------------------------------------------------------
(* The upstream's path.                                                    *)

\* A segment of the source's URL as it is written, "{name}" and all.
Spelt(seg) ==
    CASE seg.kind = "literal" -> seg.text
      [] seg.kind = "param" -> <<Braces[seg.name], "">>
      [] seg.kind = "pattern" -> <<Braces[seg.name], seg.ext>>

\* A value in the place of a placeholder, before the extension that may follow it there.
Put(text, val) ==
    IF text[2] = "" THEN val
    ELSE <<IF val[2] = "" THEN val[1] ELSE val[1] \o "." \o val[2], text[2]>>

\* strings.ReplaceAll: it takes no notice of where a segment came from.
ReplaceEach(path, name, val) ==
    [i \in DOMAIN path |-> IF path[i][1] = Braces[name] THEN Put(path[i], val) ELSE path[i]]

Replaced(path, params, order) ==
    LET after[k \in 0 .. Len(order)] ==
            IF k = 0 THEN path ELSE ReplaceEach(after[k - 1], order[k], params[order[k]])
    IN  after[Len(order)]

\* The regular expression's one pass over what then still reads as a placeholder.
Refilled(path, params) ==
    [i \in DOMAIN path |->
        IF \E name \in DOMAIN params : path[i][1] = Braces[name]
        THEN Put(path[i], params[CHOOSE name \in DOMAIN params : path[i][1] = Braces[name]])
        ELSE path[i]]

FilledIn(source, params, order) ==
    Refilled(Replaced([i \in DOMAIN source |-> Spelt(source[i])], params, order), params)

\* Mutant of ResolveSourcePath: what a "*" stands for is not appended.
ResolveBody(source, match) ==
    {FilledIn(source, match.params, order) : order \in SetToSeqs(DOMAIN match.params)}

\* The paths it may answer: the parameters come in the order of a Go map.
ResolveSourcePath(source, match) ==
    {FilledIn(source, match.params, order) \o match.remaining : order \in SetToSeqs(DOMAIN match.params)}

-----------------------------------------------------------------------------
TrieInit == services = <<>> /\ trie = EmptyTrie

\* What the control plane accepts: no two paths of a service alike but for the names.
CheckInternalPathConflicts(list) ==
    \A i \in DOMAIN list : \A j, k \in DOMAIN list[i].paths :
        LET Kinds(p) == [x \in DOMAIN p |-> Edge(p[x])] IN
        j # k => Kinds(list[i].paths[j]) # Kinds(list[i].paths[k])

\* syncServices takes the control plane's new list over.
Take(list) ==
    /\ Cardinality(Resources(list)) <= MaxPaths
    /\ CheckInternalPathConflicts(list)
    /\ services' = list
    /\ trie' = LoadBulk(list)

AddService(s, p) ==
    /\ \A i \in DOMAIN services : services[i].id # s
    /\ Take(Append(services, [id |-> s, paths |-> <<p>>]))

AddPath(i, p) == Take([services EXCEPT ![i].paths = Append(@, p)])

\* An empty list is not believed, so the last service stays.
RemovePath(i, j) ==
    LET left == RemoveAt(services[i].paths, j) IN
    /\ Cardinality(Resources(services)) > 1
    /\ Take(IF left = <<>> THEN RemoveAt(services, i) ELSE [services EXCEPT ![i].paths = left])

\* Load: a gateway starts from what Redis has, which keeps no order.
Load ==
    /\ services # <<>>
    /\ services' = Reverse(services)
    /\ trie' = LoadBulk(services')

TrieNext ==
    \/ \E s \in Service, p \in Path : AddService(s, p)
    \/ \E i \in DOMAIN services : \/ \E p \in Path : AddPath(i, p)
                                  \/ \E j \in DOMAIN services[i].paths : RemovePath(i, j)
    \/ Load

TrieSpec == TrieInit /\ [][TrieNext]_trieVars

-----------------------------------------------------------------------------
(* The reference: which resource should answer, read off the list.         *)

Fits(seg, s) ==
    CASE seg.kind = "literal" -> seg.text = s
      [] seg.kind = "pattern" -> s[2] # "" /\ seg.ext = s[2]
      [] seg.kind = "param" -> TRUE

\* A path covers the requests its segments fit, and with a "*" also all that are longer.
Covers(full, r) ==
    /\ IF IsWild(full) THEN Len(Body(full)) <= Len(r) ELSE Len(full) = Len(r)
    /\ \A i \in DOMAIN Body(full) : Fits(Body(full)[i], r[i])

Rank(kind) ==
    CASE kind = "literal" -> 1 [] kind = "pattern" -> 2 [] kind = "hole" -> 3 [] kind = "star" -> 4
      [] kind = "end" -> 0
\* The kind of a path's segment i, where a path without "*" ends in "end".
EdgeAt(full, i) ==
    IF i <= Len(Body(full)) THEN Edges(full)[i] ELSE IF IsWild(full) THEN Star ELSE [kind |-> "end"]

\* Where two paths first differ, the better one is the more specific there.
Better(p, q) ==
    \E i \in 1 .. (Len(Body(p)) + 1) :
        /\ i <= Len(Body(q)) + 1
        /\ \A j \in 1 .. (i - 1) : EdgeAt(p, j) = EdgeAt(q, j)
        /\ Rank(EdgeAt(p, i).kind) < Rank(EdgeAt(q, i).kind)

Listed == {FullPath(res) : res \in Resources(services)}

\* Whatever order the services and their paths were loaded in, a request is answered exactly if some
\* resource covers it, and by one that covers it and that no better one competes with: exact beats
\* pattern beats parameter beats wildcard, segment by segment (trie.go:179-218). A backtrack that
\* gives up too early, or a resource that overwrites another at a shared node, would break it.
MatchIsBest ==
    \A r \in Request :
        /\ FindBestMatch(r) = {} <=> \A full \in Listed : ~Covers(full, r)
        /\ \A m \in FindBestMatch(r) :
              LET full == FullPath(m.resource) IN
              Covers(full, r) /\ \A other \in Listed : Covers(other, r) => ~Better(other, full)

\* Paths that meet in a node name its parameter alike, and no path uses a name twice.
NamesAgree ==
    /\ \A p, q \in Listed : \A i \in DOMAIN Body(p) \cap DOMAIN Body(q) :
          (\A j \in 1 .. i : EdgeAt(p, j) = EdgeAt(q, j)) => Body(p)[i] = Body(q)[i]
    /\ \A p \in Listed : \A i, j \in DOMAIN Body(p) :
          i # j /\ Body(p)[i].kind \in {"param", "pattern"} /\ Body(p)[j].kind \in {"param", "pattern"}
              => Body(p)[i].name # Body(p)[j].name

\* No segment that the resource's path covers is itself the placeholder of one of its parameters.
\* One that is would be filled in again: "/{x}/{y}" asked for as "/{y}/7" is called as "/7/7".
Plain(r, m) ==
    \A i \in DOMAIN Body(FullPath(m.resource)) : \A name \in DOMAIN m.params : r[i][1] # Braces[name]

\* A source whose URL repeats its resource's path is called with the request's own path, in
\* whichever order the parameters are filled in.
Mirrored(r) ==
    \A m \in FindBestMatch(r) :
        Plain(r, m) => \A path \in ResolveSourcePath(Body(FullPath(m.resource)), m) : path = r

\* Where the names agree, every placeholder of a source's URL gets the caller's segment and a "*"
\* the rest of the request, after any backtracking of the search, unless a segment that the caller
\* asked for reads as a placeholder of the same path.
MirrorsRequest == NamesAgree => \A r \in Request : Mirrored(r)

\* "{param} placeholders. A resource path of /collections/{collectionId} with a source URL of
\* https://upstream.example/collections/{collectionId} substitutes whatever the caller asked for"
\* (docs/getting-started.md:55-57): for paths that use no name twice, whichever others are listed,
\* and callers that ask for no placeholder.
PlaceholdersFilled ==
    \A r \in Request : \A m \in FindBestMatch(r) :
        LET body == Body(FullPath(m.resource))
            named == {i \in DOMAIN body : body[i].kind \in {"param", "pattern"}}
        IN  Plain(r, m) /\ (\A i, j \in named : i # j => body[i].name # body[j].name)
                => \A path \in ResolveSourcePath(body, m) : path = r
=============================================================================
