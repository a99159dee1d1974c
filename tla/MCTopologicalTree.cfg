SPECIFICATION FairSpecTree
CONSTANTS
    None = None
    NoSb = NoSb
    Genesis <- MCGenesis
    Blocks <- MCBlocks
    Parent <- MCParent
    Height <- MCHeight
    Ancestors <- MCAncestors
    K = 2
    Alpha = 2
    NumBits = 3
    BetaVirtuous = 2
    BetaRogue = 3
    MaxPolls = 3
    SbNew <- NewTree
    SbAdd <- TreeAdd
    SbFalter <- TreeUnsuccessful
    SbPolls <- TreePolls
    SbPreference <- TreePreference
    SbFinalized <- TreeFinalized
INVARIANTS
    FalterDeferred
    PreferenceIsWalk
PROPERTIES
    InstancesKeepContract
    EventuallyDecided
CHECK_DEADLOCK FALSE
