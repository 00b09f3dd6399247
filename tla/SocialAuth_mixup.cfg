\* Two logins, every fault, one edit of a profile, one restart.
SPECIFICATION FairSpec
CONSTANTS
    l1 = l1
    l2 = l2
    b1 = b1
    Logins = {l1, l2}
    Browsers = {b1, b2}
    Asked <- MCAsked
    f1 = f1
    f2 = f2
    Profiles = {f1, f2}
    p1 = p1
    p2 = p2
    Providers = {p1, p2}
    NoProvider = NoProvider
    Configs <- MCConfigs
    NoConfig = NoConfig
    Loaded <- MCLoaded
    Accounts = {member, guest}
    Members = {member}
    NoAccount = NoAccount
    NoLogin = NoLogin
    Faults = {"init", "store", "provider", "load"}
    MaxEdits = 1
    MaxCrashes = 1
INVARIANTS TypeOK MixupsFailClosed UndisturbedSucceeds
PROPERTY Answered
CHECK_DEADLOCK FALSE
