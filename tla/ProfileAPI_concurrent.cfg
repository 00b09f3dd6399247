\* Two overlapping requests, every fault, a crash, three kinds of first file.
SPECIFICATION FairSpec
CONSTANTS
    Requests = {r1, r2}
    a = a
    b = b
    v = v
    w = w
    Ids = {a, b}
    Vals = {v, w}
    NoProfile = NoProfile
    NoForm = NoForm
    Absent = Absent
    Empty = Empty
    Torn = Torn
    Forms <- MCForms
    InitialFiles <- MCInitialFiles
    Faults <- MCAllFaults
    SamePath = TRUE
    Sequential = FALSE
    MaxClock = 1
    MaxCrashes = 1
INVARIANTS TypeOK FilesAreSnapshots RejectedLeavesNoTrace
PROPERTY Answered
CHECK_DEADLOCK FALSE
