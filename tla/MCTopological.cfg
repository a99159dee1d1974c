SPECIFICATION Spec
CONSTANTS
    g = g
    a = a
    b = b
    c = c
    d = d
    f = f
    Genesis = g
    None = None
    NoSb = NoSb
    Blocks <- MCBlocks
    Parent <- MCParent
    Height <- MCHeight
    Ancestors <- MCAncestors
    K = 2
    Alpha = 2
    BetaVirtuous = 1
    BetaRogue = 1
    SbStates <- MCSbStates
    SbNew <- MCSbNew
    SbAdd <- MCSbAdd
    SbFalter <- MCSbFalter
    SbPolls <- MCSbPolls
    SbPreference <- MCSbPreference
    SbFinalized <- MCSbFinalized
    SbChoices <- MCSbChoices
    SbSame <- MCSbSame
INVARIANTS
    AcceptedIsChain
    RejectedConflicts
    TreeIsRooted
    PreferenceInTree
    VoteHasInstance
PROPERTIES
    ImplementsSnowman
CHECK_DEADLOCK FALSE
