SPECIFICATION Spec
CONSTANTS
    s1 = s1
    s2 = s2
    Providers = {1, 2, 3, 4}
    Profile <- MCProfile
    Weights <- MCWeights
    BatchSizes = {2, 3}
    Slots = {1, 2}
    Radii = {5, 10}
    RadiusStep = 3
    Searches = {s1, s2}
    MaxSearches = 8
    MaxChanges = 1
SYMMETRY MCSymmetry
CHECK_DEADLOCK FALSE
INVARIANT NewcomersEnter
INVARIANT BatchIsDeserved
