SPECIFICATION FairSpec
CONSTANTS
    t1 = t1
    t2 = t2
    small = small
    large = large
    sA = sA
    sB = sB
    tA = tA
    tX = tX
    tB = tB
    cA = cA
    cX = cX
    cB = cB
    NoNode = NoNode
    NoTarget = 0
    Tabs = {t1, t2}
    Files = {small}
    Services = {sA}
    Types = {tA, tX}
    Complexities = {cA, cX}
    Parent <- MCParent
    Uploads <- MCUploads
    Targets <- MCTargets
    Disguised <- MCDisguised
    Oversized <- MCOversized
    MaxRequests = 3
    MaxSubmits <- MCOneForm
    PageSize = 2
    MaxFaults = 1
CHECK_DEADLOCK FALSE
 
INVARIANT ChainKept
INVARIANT ShownReadyIsAttached
PROPERTY SubmittedIsFrozen
PROPERTY SubmitReturns
