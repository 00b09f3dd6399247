\* Two logins of any kind, two people, an edit of the profile, every fault.
SPECIFICATION FairSpec
CONSTANTS
    Logins = {l1, l2}
    p = p
    q = q
    People = {p, q}
    Leavers = {q}
    Nobody = Nobody
    one = one
    both = both
    hidden = hidden
    Names = {one, both, hidden}
    NoName = NoName
    NoField = NoField
    AccountOf <- MCAccountOf
    EntriesOf <- MCEntriesOf
    SlugOf <- MCSlugOf
    FullNameOf <- MCFullNameOf
    Forms <- MCForms
    NoSecret = NoSecret
    Wrong = Wrong
    i = i
    j = j
    IdPs = {i, j}
    NoIdP = NoIdP
    Profiles <- MCProfiles
    Loaded <- MCLoaded
    NoProfile = NoProfile
    NoIdentity = NoIdentity
    Rejections <- MCRejections
    MaxConns = 1
    MaxEdits = 1
    Faults = {"dial", "bind", "search", "attribute", "target", "metadata", "track", "response", "action"}
INVARIANTS TypeOK OnlyVouched ConnectionsAccounted UndisturbedSucceeds 
PROPERTIES ExhaustedForGood Answered
CHECK_DEADLOCK FALSE
