SPECIFICATION AccountsSpec
CONSTANTS
    u1 = u1
    u2 = u2
    e1 = e1
    e2 = e2
    h1 = h1
    h2 = h2
    NoEmail = NoEmail
    Phones = {u1, u2}
    Registered = {u1}
    SignIns = {u2}
    Emails = {e1}
    Handlers = {h1, h2}
    MaxAttempts = 2
    MaxPerHour = 1
    MaxCodes = 1
    MaxHits = 2
    Crashes = TRUE
SYMMETRY MCSymmetry
CHECK_DEADLOCK FALSE
INVARIANT OneEmailOwner
INVARIANT CountersExpire
