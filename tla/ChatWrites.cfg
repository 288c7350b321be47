SPECIFICATION Spec
CONSTANTS
    IsPhoneNumber <- MoroccanNumber
    PhoneMinDigits = 8
    PhoneMaxDigits = 15
    LookalikeMinDigits = 4
    c1 = c1
    c2 = c2
    p1 = p1
    h1 = h1
    h2 = h2
    Ids = {c1}
    Author <- MCAuthor
    Texts = {"plain", "phone", "email"}
    Handlers = {h1, h2}
    Operations = {"edit", "remove", "unlock", "close", "lapse", "crash"}
    MaxSeq = 2
    MaxVersion = 2
    Tabs = {}
    PageSize = 1
    Loaded = FALSE
    Faults = {}
    MaxFaults = 0
SYMMETRY MCSymmetry
INVARIANTS
    SentOnce
    NoContactBeforeUnlock
PROPERTIES
    ModerationKept
CHECK_DEADLOCK FALSE
