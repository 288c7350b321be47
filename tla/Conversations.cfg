SPECIFICATION Spec
CONSTANTS
    client = client
    p = p
    c1 = c1
    p1 = p1
    Providers = {p}
    Client = client
    Tabs = {c1, p1}
    User <- MCUser
    MaxTalks = 2
    MaxClicks <- MCMaxClicks
    MaxFaults = 1
CHECK_DEADLOCK FALSE
INVARIANT SameConversation
INVARIANT EngagedStaysOpen
PROPERTY DraftKept
PROPERTY OpenLands
