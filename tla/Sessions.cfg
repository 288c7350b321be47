SPECIFICATION FairSpec
CONSTANTS
    s1 = s1
    s2 = s2
    u1 = u1
    u2 = u2
    t1 = t1
    t2 = t2
    c1 = c1
    c2 = c2
    NoSid = NoSid
    NoUser = NoUser
    Sids = {s1}
    Users = {u1}
    Owner <- MCOwner
    Tabs = {t1, t2}
    MaxVersion = 2
    Calls = {c1, c2}
    TabOf <- MCTabOf
    SignOuts <- MCSignOuts
    ChatTabs = {t1}
    Operations = {"expire", "elsewhere", "reload", "lose", "offline"}
    MaxFaults = 1
CHECK_DEADLOCK FALSE
INVARIANT OneSuccessor
INVARIANT OnlySharedTokensReused
PROPERTY RevokedIsFinal
PROPERTY EndedSocketIsCut
