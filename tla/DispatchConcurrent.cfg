SPECIFICATION Spec
CONSTANTS
    far = far
    h1 = h1
    h2 = h2
    Providers = {q1, far}
    Distance <- MCDistance
    Handlers = {h1, h2}
    Workers = {w1}
    MaxBatches = 2
    BatchSize = 1
    DefaultRadius = 1
    MaxRadius = 2
    RadiusStep = 1
    RadiusInputs = {3}
    Operations = {"auto", "expand", "cancel"}
    MaxFaults = 1
CHECK_DEADLOCK FALSE
SYMMETRY MCSymmetry
INVARIANT ContactedOnce
INVARIANT CountedBatchesRecorded
PROPERTY ClosedIsFinal
PROPERTY AuditTrailIsProgressive
