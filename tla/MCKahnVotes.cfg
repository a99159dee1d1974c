SPECIFICATION Spec
CONSTANTS
    g = g
    a = a
    b = b
    c = c
    d = d
    e = e
    f = f
    Genesis = g
    None = None
    Blocks <- MCBlocks
    Parent <- MCParent
    Height <- MCHeight
    Ancestors <- MCAncestors
    K = 3
    Alpha = 2
    BetaVirtuous = 1
    BetaRogue = 1
INVARIANTS
    StackIsOnStack
    VotesConserved
CHECK_DEADLOCK FALSE
