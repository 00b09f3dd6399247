\* Two requests of any kind, every fault, a crash.
SPECIFICATION FairSpec
CONSTANTS
    Requests = {r1, r2}
    a = a
    b = b
    v = v
    w = w
    Ids = {a, b}
    Vals = {v, w}
    NoProfile = NoProfile
    NoForm = NoForm
    Forms <- MCForms
    InitialColls <- MCInitialColls
    Faults = {"connect", "query", "delete", "insert"}
    MaxCrashes = 1
INVARIANTS TypeOK OnlyGiven SettledIsStored
PROPERTIES ReadersFindSettled AbortedAfterRetry ImplementsRegisters Answered
CHECK_DEADLOCK FALSE
