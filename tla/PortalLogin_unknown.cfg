\* One login of one developer, the dashboard may be unavailable.
SPECIFICATION Spec
CONSTANTS
    Logins = {l1}
    Users = {u1}
    Developers = {u1}
    NoLogin = NoLogin
    NoRecord = NoRecord
    Faults = {"refused"}
INVARIANT CreatesUnknownOnly
CHECK_DEADLOCK FALSE
