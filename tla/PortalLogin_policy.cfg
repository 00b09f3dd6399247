\* Logins of two developers and a dashboard user, every fault.
SPECIFICATION FairSpec
CONSTANTS
    Logins = {l1, l2}
    Users = {u1, u2, admin}
    Developers = {u1, u2}
    NoLogin = NoLogin
    NoRecord = NoRecord
    Faults = {"refused", "unauthorised", "lost", "garbled", "created"}
INVARIANTS TypeOK OwnNonces FailedLeavesNothing RedirectedIsAdmitted OneRecordPerUser EditsKept
PROPERTY Answered
CHECK_DEADLOCK FALSE
