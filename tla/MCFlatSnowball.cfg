SPECIFICATION Spec
CONSTANTS
    Choices = {a, b, c}
    NoVote = NoVote
    K = 3
    Alpha = 2
    BetaVirtuous = 2
    BetaRogue = 3
    MaxPolls = 6
INVARIANTS
    DecisionEarned
    RogueIffConflict
    PreferenceLeads
PROPERTIES
    DecisionFinal
    ImplementsContract
CHECK_DEADLOCK FALSE
