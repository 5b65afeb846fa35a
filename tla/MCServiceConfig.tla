--------------------------- MODULE MCServiceConfig ---------------------------
\* An instance of ServiceConfig for TLC.  Resource paths refer to sources, bring them along, do both at
\* once, cannot be told apart, or have a wildcard in their middle: one that ends with another is accepted.
EXTENDS ServiceConfig, TLC
CONSTANTS i, j, u, v

Rp(path, alias, inline) == [path |-> path, alias |-> alias, inline |-> inline]
InitialDef == <<Rp(<<i>>, u, FALSE)>>
BodyDef == {
    <<Rp(<<i>>, u, FALSE)>>,
    <<Rp(<<i>>, u, TRUE), Rp(<<Star>>, u, TRUE), Rp(<<i, i>>, v, FALSE)>>,
    <<Rp(<<i>>, NoAlias, FALSE), Rp(<<Star, j, Star>>, v, TRUE)>>,
    <<Rp(<<i>>, u, FALSE), Rp(<<j>>, v, TRUE)>>,
    <<Rp(<<Star, i>>, u, FALSE)>>}
Symmetry == Permutations(Handler) \cup Permutations(BasePath)
=============================================================================
