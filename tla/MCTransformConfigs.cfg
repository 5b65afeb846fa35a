\* Two services and up to two writes; the clock may not move between two creates.
SPECIFICATION Spec
CONSTANTS
    s1 = s1
    s2 = s2
    u1 = u1
    u2 = u2
    Nothing = Nothing
    Service = {s1, s2}
    Path <- MCPath
    Request <- MCRequest
    Method = {"GET", "POST"}
    Body <- MCBody
    PresetPath <- MCPresetPath
    User = {u1, u2}
    Role <- MCRole
    MaxEdits = 2
    MaxTime = 1
PROPERTY PatternsMatchRequests
