\* One request; the final write may fail.
SPECIFICATION Spec
CONSTANTS
    Requests = {r1}
    a = a
    b = b
    v = v
    w = w
    Ids = {a, b}
    Vals = {v, w}
    NoProfile = NoProfile
    NoForm = NoForm
    Absent = Absent
    Empty = Empty
    Torn = Torn
    Forms <- MCValidForms
    InitialFiles <- MCOneFile
    Faults <- MCSaveFault
    SamePath = TRUE
    Sequential = TRUE
    MaxClock = 0
    MaxCrashes = 0
INVARIANT SettledIsOnDisk
CHECK_DEADLOCK FALSE
