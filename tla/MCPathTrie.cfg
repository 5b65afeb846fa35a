\* Two services, one below the other, with up to three paths in all out of thirteen.
SPECIFICATION TrieSpec
CONSTANTS
    s1 = s1
    s2 = s2
    Nothing = Nothing
    Service = {s1, s2}
    Base <- MCBase
    Path <- MCPath
    Request <- MCRequest
    Braces <- MCBraces
    MaxPaths = 3
INVARIANTS MatchIsBest MirrorsRequest
