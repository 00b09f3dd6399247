\* Two overlapping requests, no fault, no crash.
SPECIFICATION Spec
CONSTANTS
    Requests = {r1, r2}
    a = a
    b = b
    v = v
    w = w
    Ids = {a, b}
    Vals = {v, w}
    NoProfile = NoProfile
    NoForm = NoForm
    Absent = Absent
    Empty = Empty
    Torn = Torn
    Forms <- MCValidForms
    InitialFiles <- MCOneFile
    Faults <- MCNoFaults
    SamePath = TRUE
    Sequential = FALSE
    MaxClock = 1
    MaxCrashes = 0
INVARIANT SettledIsOnDisk
CHECK_DEADLOCK FALSE
