------------------------- MODULE MCTransformConfigs -------------------------
\* An instance of TransformConfigs for TLC: a resource "/*" and one of a single path.
EXTENDS TransformConfigs

CONSTANTS s1, s2, u1, u2

A == <<"a">>
B == <<"b">>
BC == <<"b", "c">>
Pat(prefix, tail) == [prefix |-> prefix, tail |-> tail]
Everything == Pat(<<>>, "/*")
UnderA == Pat(<<A>>, "/*")

MCPath == s1 :> <<Star>> @@ s2 :> <<A, B>>
MCRequest == {<<A>>, <<A, B>>, <<A, BC>>}
MCBody ==
    {[service |-> s1, path |-> p, methods |-> {}, enabled |-> TRUE] :
        p \in {Everything, UnderA, Pat(<<A, B>>, "exact"), Pat(<<A, B>>, "*"), Nothing}}
    \cup {[service |-> s1, path |-> UnderA, methods |-> {"GET"}, enabled |-> TRUE],
          [service |-> s1, path |-> UnderA, methods |-> {}, enabled |-> FALSE],
          [service |-> s2, path |-> UnderA, methods |-> {}, enabled |-> TRUE]}
MCPresetPath == {Everything}
MCRole == u1 :> "user" @@ u2 :> "admin"
=============================================================================
