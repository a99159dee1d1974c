SPECIFICATION Spec
CONSTANTS
    K = 1
    Alpha = 1
    BetaVirtuous = 1
    BetaRogue = 1
    Blocks <- MCBlocks
    Genesis = 0
    Parent <- MCParent
    Height <- MCHeight
    Ancestors <- MCAncestors
    None <- MCNone
    Nodes = {n1}
    Samples <- MCSamples
    Unreliable = {}
    Options <- MCOptions
    ConcurrentRepolls = 1
    OptimalProcessing = 1
    MaxGets = 2
    MaxPolls = 2
    MaxBuilds = 0
INVARIANTS
    PendingIsQueued
CHECK_DEADLOCK FALSE
