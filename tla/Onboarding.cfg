SPECIFICATION Spec
CONSTANTS
    u1 = u1
    u2 = u2
    h1 = h1
    h2 = h2
    Users = {u1, u2}
    People = {u2}
    Handlers = {h1, h2}
    MaxCompanies = 1
    MaxDocuments = 1
    MaxDecisions = 2
    Crashes = TRUE
SYMMETRY MCSymmetry
CHECK_DEADLOCK FALSE
INVARIANT OneRowEach
INVARIANT OwnerKept
INVARIANT DecisionsHistorised
INVARIANT BadgeIsEarned
