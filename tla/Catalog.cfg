SPECIFICATION Spec
CONSTANTS
    i1 = i1
    i2 = i2
    t1 = t1
    t2 = t2
    Instances = {i1, i2}
    Tabs = {t1, t2}
    Names = {"Electricite"}
    Colours <- MCColours
    NoColour = "none"
    Plan <- MCPlan
    MaxNodes = 4
    MaxEdits = 2
SYMMETRY MCSymmetry
CHECK_DEADLOCK FALSE
INVARIANT TreeIsSound
INVARIANT InheritanceKept
PROPERTY SeededBeforeServing
