SPECIFICATION FairSpec
CONSTANTS
    far = far
    h1 = h1
    h2 = h2
    Providers = {q1, far}
    Distance <- MCDistance
    Handlers = {h1, h2}
    Workers = {w1}
    MaxBatches = 2
    BatchSize = 1
    DefaultRadius = 1
    MaxRadius = 2
    RadiusStep = 1
    RadiusInputs = {3}
    Operations = {"auto", "direct", "cancel", "view", "decline", "lapse"}
    MaxFaults = 0
CHECK_DEADLOCK FALSE
INVARIANT SmallBatches
INVARIANT ContactsRecorded
INVARIANT TimerHasJob
PROPERTY CancelStopsMatch
PROPERTY SearchEnds
