\* The Redis store, no fault and no crash.
SPECIFICATION Spec
CONSTANTS
    Logins = {l1, l2}
    Identities = {u, x}
    OAuthIds = {u}
    Tokens = {t1, t2, t3}
    NoToken = NoToken
    NoIdentity = NoIdentity
    Backend = "redis"
    OneTokenPerAPI = TRUE
    Faults = {}
    Overlapping = FALSE
    MaxCrashes = 0
INVARIANT OneTokenPerUser
CHECK_DEADLOCK FALSE
