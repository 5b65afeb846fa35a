\* Two paths that name a shared segment differently are enough.
SPECIFICATION TrieSpec
CONSTANTS
    s1 = s1
    s2 = s2
    Nothing = Nothing
    Service = {s1, s2}
    Base <- MCBase
    Path <- MCPath
    Request <- MCRequest
    Braces <- MCBraces
    MaxPaths = 2
INVARIANTS PlaceholdersFilled
