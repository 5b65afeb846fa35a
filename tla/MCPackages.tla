---------------------------- MODULE MCPackages ----------------------------
\* Instances of Packages for TLC: a resource of its own limit, one below a parameter, and links that
\* name one path, or everything.
EXTENDS Packages, TLC
CONSTANTS a, b, get, slow, fast, p1, x

SegmentDef == {a, b, Star, Param}
LimitDef == {Unset, Off, slow, fast}
ResourceDef == {[path |-> <<a>>, methods |-> {get}], [path |-> <<b, Param>>, methods |-> {get}]}
One == [path |-> <<a>>, methods |-> {get}, limit |-> slow]
All == [path |-> <<Star>>, methods |-> {get}, limit |-> Unset]
Under == [path |-> <<b, Star>>, methods |-> {get}, limit |-> slow]
Wrong == [path |-> <<b>>, methods |-> {}, limit |-> Unset]
LinkPathsDef == {<<One>>, <<All, Under>>, <<Wrong>>}
SettingsDef == {[enabled |-> TRUE, limit |-> Unset], [enabled |-> FALSE, limit |-> fast]}
InitialDef == [p \in Package |->
    IF p = p1 THEN [alias |-> x, enabled |-> TRUE, limit |-> fast] ELSE NoPackage]
Symmetry == Permutations(Handler)
=============================================================================
