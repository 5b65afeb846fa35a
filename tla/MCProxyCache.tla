------------------------------ MODULE MCProxyCache ------------------------------
\* An instance of ProxyCache for TLC: a body three entries of which do not fit in memory
\* together, one that is stored in Redis only, and one that is streamed.
EXTENDS ProxyCache, TLC
CONSTANTS k1, k2, k3

Plain == [bypass |-> FALSE, noStore |-> FALSE, noCache |-> FALSE, maxAge |-> -1]
DirectiveDef == {Plain, [Plain EXCEPT !.bypass = TRUE], [Plain EXCEPT !.maxAge = 0],
                 [Plain EXCEPT !.noCache = TRUE]}
Small == [size |-> 1, sMaxAge |-> 2, maxAge |-> -1, cacheable |-> TRUE]
ResponseDef == {Small,
                [Small EXCEPT !.size = 2, !.sMaxAge = -1, !.maxAge = 0],
                [Small EXCEPT !.size = 5]}
Symmetry == Permutations({k2, k3}) \cup Permutations(Conn)
=============================================================================
