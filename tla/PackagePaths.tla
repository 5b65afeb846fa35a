---------------------------- MODULE PackagePaths ----------------------------
(***************************************************************************)
(* The paths and rate limits of a package's link to a service: which paths *)
(* a link may name, and the limits the control plane serves to the gateway *)
(* for each of the service's resource paths.                               *)
(*                                                                         *)
(* A path is a sequence of segments, of one at least: "/" has an empty     *)
(* one.  Star is the segment "*", Param one like "{id}".  A limit is Unset *)
(* (no policy), Off (a policy that is not enabled, or has no tier with a   *)
(* positive limit and window) or the tiers.                                *)
(***************************************************************************)
EXTENDS Integers, Sequences, SequencesExt, FiniteSets

CONSTANTS Segment, Star, Param, Method, Limit, Unset, Off

Path == Seq(Segment) \ {<<>>}
LinkPath == [path : Path, methods : SUBSET Method, limit : Limit]

-----------------------------------------------------------------------------
(* The paths of a link.                                                    *)

IsWild(path) == path # <<>> /\ Last(path) = Star
\* "/a/*" has the prefix "/a/", and "/*" the prefix "/".
Below(prefix, path) == Len(path) > Len(prefix) /\ IsPrefix(prefix, path)

PathCovers(pkgPath, svcPath) ==
    IF IsWild(pkgPath) THEN Below(Front(pkgPath), svcPath) ELSE pkgPath = svcPath

\* Mutant of MatchesServicePaths: the methods alone.
MatchesMethods(pp, resources) == pp.methods \subseteq UNION {r.methods : r \in resources}

MatchesServicePaths(pp, resources) ==
    LET covered == {r \in resources : PathCovers(pp.path, r.path)} IN
    covered # {} /\ pp.methods \subseteq UNION {r.methods : r \in covered}

\* A link's paths match the service, and no two of them share a path and a method.
ValidatePaths(paths, resources) ==
    /\ \A i \in DOMAIN paths : MatchesServicePaths(paths[i], resources)
    /\ \A i, j \in DOMAIN paths :
           i # j /\ paths[i].path = paths[j].path => paths[i].methods \cap paths[j].methods = {}

-----------------------------------------------------------------------------
(* The limits the gateway is served.                                       *)

EffectiveRateLimit(pp, pkgLimit) == IF pp.limit # Unset THEN pp.limit ELSE pkgLimit

\* A limit map has, for some link paths, the tiers of some packages.
NoLimits == [path \in {} |-> <<>>]
PutTiers(map, path, p, tiers) ==
    [q \in DOMAIN map \cup {path} |->
        IF q # path THEN map[q]
        ELSE LET old == IF path \in DOMAIN map THEN map[path] ELSE [x \in {} |-> Off] IN
             [x \in DOMAIN old \cup {p} |-> IF x = p THEN tiers ELSE old[x]]]

BuildPathRateLimit(map, pp, p, pkgLimit) ==
    LET rl == EffectiveRateLimit(pp, pkgLimit) IN
    IF rl \in {Unset, Off} THEN map ELSE PutTiers(map, pp.path, p, rl)

\* The paths of one link, in order.
AddLink(map, l, pkgLimit) ==
    LET after[n \in 0 .. Len(l.paths)] ==
            IF n = 0 THEN map ELSE BuildPathRateLimit(after[n - 1], l.paths[n], l.package, pkgLimit)
    IN  after[Len(l.paths)]

\* The links, in the order in which MongoDB returns them.
BuildRateLimitMap(links, pkgLimit) ==
    LET after[n \in 0 .. Len(links)] ==
            IF n = 0 THEN NoLimits
            ELSE AddLink(after[n - 1], links[n], pkgLimit[links[n].package])
    IN  after[Len(links)]

Normalize(path) == [i \in DOMAIN path |-> IF path[i] = Param THEN Star ELSE path[i]]

\* Mutant of Improves: lengths alone, which an empty prefix never beats.
ImprovesNever(best, pattern, path) ==
    /\ IsWild(pattern) /\ Below(Front(pattern), path)
    /\ Len(Front(pattern)) > IF best = <<>> THEN 0 ELSE Len(Front(best))

\* A wildcard above the path, and the first such or a longer one than the best so far.
Improves(best, pattern, path) ==
    /\ IsWild(pattern) /\ Below(Front(pattern), path)
    /\ best = <<>> \/ Len(Front(pattern)) > Len(Front(best))

\* The last resort of findBestRateLimit, a loop over the map in whatever order Go chooses.
BetterOf(best, pattern, path) == IF Improves(best, pattern, path) THEN pattern ELSE best
BestWildcard(order, path) ==
    LET best[n \in 0 .. Len(order)] ==
            IF n = 0 THEN <<>> ELSE BetterOf(best[n - 1], order[n], path)
    IN  best[Len(order)]

\* The one entry of the map that a resource path is served: <<>> when it has none.
FindBestRateLimit(map, order, path) ==
    IF path \in DOMAIN map THEN path
    ELSE IF Normalize(path) \in DOMAIN map THEN Normalize(path)
    ELSE BestWildcard(order, Normalize(path))

\* The limit of package p on a resource path, Off for none.
ServedLimit(map, order, path, p) ==
    LET best == FindBestRateLimit(map, order, path) IN
    IF best # <<>> /\ p \in DOMAIN map[best] THEN map[best][p] ELSE Off
=============================================================================
