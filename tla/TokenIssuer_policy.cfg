\* The memory store, every fault and a crash; one identity of each action.
SPECIFICATION FairSpec
CONSTANTS
    Logins = {l1, l2, l3}
    Identities = {u, x}
    OAuthIds = {u}
    Tokens = {t1, t2, t3}
    NoToken = NoToken
    NoIdentity = NoIdentity
    Backend = "memory"
    OneTokenPerAPI = TRUE
    Faults = {"lookup", "unauthorised", "invalidate", "issue", "store"}
    Overlapping = FALSE
    MaxCrashes = 1
INVARIANTS TypeOK OneTokenPerUser
PROPERTIES RevokesOnlyOwn RefusedKeepsToken ImplementsLedger Answered
CHECK_DEADLOCK FALSE
