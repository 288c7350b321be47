SPECIFICATION Spec
CONSTANTS
    IsPhoneNumber <- MoroccanNumber
    PhoneMinDigits = 8
    PhoneMaxDigits = 15
    LookalikeMinDigits = 4
    c1 = c1
    c2 = c2
    p1 = p1
    h1 = h1
    h2 = h2
    Ids = {c1, c2}
    Author <- MCAuthor
    Texts = {"plain"}
    Handlers = {h1}
    Operations = {"react"}
    MaxSeq = 2
    MaxVersion = 2
    Tabs = {"PROVIDER"}
    PageSize = 1
    Loaded = TRUE
    Faults = {"drop"}
    MaxFaults = 1
INVARIANTS
    NothingMissed
PROPERTIES
    VersionsForward
CHECK_DEADLOCK FALSE
