---------------------------- MODULE MCRateLimit ----------------------------
\* Instances of RateLimit for TLC: two tiers of different windows.
EXTENDS RateLimit, TLC

MCTiers == <<[limit |-> 2, window |-> 2], [limit |-> 1, window |-> 3]>>

\* Requests differ in nothing but their id, and ids in nothing but their name.
MCSymmetry == Permutations(Request) \cup Permutations(Id)
=============================================================================
