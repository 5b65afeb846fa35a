----------------------------- MODULE MCPathTrie -----------------------------
\* Instances of PathTrie for TLC.
EXTENDS PathTrie

CONSTANTS s1, s2

A == <<"a", "">>
B == <<"b", "">>
Seven == <<"7", "">>
Tile == <<"7", "png">>
\* What a caller may ask for like anything else ("%7By%7D").
Y == <<"{y}", "">>

\* s2's base path lies below s1's, so that they can meet in a node.
MCBase == s1 :> <<Literal(A)>> @@ s2 :> <<Literal(A), Literal(B)>>
MCPath == {
    <<>>, <<Star>>, <<Literal(B)>>, <<Param("x")>>, <<Param("y"), Literal(B)>>,
    <<Literal(B), Param("x")>>, <<Literal(B), Star>>, <<Param("x"), Star>>,
    <<Param("x"), Param("x")>>, <<Param("x"), Param("y")>>, <<Star, Literal(B), Star>>,
    <<Pattern("z", "png")>>, <<Pattern("w", "png"), Literal(B)>>}
MCBraces == [x |-> "{x}", y |-> "{y}", z |-> "{z}", w |-> "{w}"]
MCRequest == {<<A>> \o rest : rest \in UNION {[1 .. n -> {B, Seven, Tile, Y}] : n \in 0 .. 3}}
=============================================================================
