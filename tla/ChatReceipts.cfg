SPECIFICATION Spec
CONSTANTS
    IsPhoneNumber <- MoroccanNumber
    PhoneMinDigits = 8
    PhoneMaxDigits = 15
    LookalikeMinDigits = 4
    c1 = c1
    c2 = c2
    p1 = p1
    h1 = h1
    h2 = h2
    Ids = {c1}
    Author <- MCAuthor
    Texts = {"plain"}
    Handlers = {h1, h2}
    Operations = {"receipts"}
    MaxSeq = 1
    MaxVersion = 2
    Tabs = {"PROVIDER"}
    PageSize = 1
    Loaded = FALSE
    Faults = {"fail"}
    MaxFaults = 1
SYMMETRY MCSymmetry
INVARIANTS
    MarksOrdered
PROPERTIES
    MarksForward
CHECK_DEADLOCK FALSE
