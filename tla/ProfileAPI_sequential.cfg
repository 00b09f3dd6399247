\* Three requests one after the other, reads and backups may fail, a crash.
SPECIFICATION Spec
CONSTANTS
    Requests = {r1, r2, r3}
    a = a
    b = b
    v = v
    w = w
    Ids = {a, b}
    Vals = {v, w}
    NoProfile = NoProfile
    NoForm = NoForm
    Absent = Absent
    Empty = Empty
    Torn = Torn
    Forms <- MCForms
    InitialFiles <- MCInitialFiles
    Faults <- MCSequentialFaults
    SamePath = TRUE
    Sequential = TRUE
    MaxClock = 1
    MaxCrashes = 1
PROPERTIES NothingLost AckedIsOnDisk ImplementsRegistry
CHECK_DEADLOCK FALSE
