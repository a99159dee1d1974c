SPECIFICATION Spec
CONSTANTS
    NumBits = 3
    Choices <- MCChoices
    K = 3
    Alpha = 2
    BetaVirtuous = 2
    BetaRogue = 3
    MaxPolls = 5
INVARIANTS
    NoDecisionUnderUnary
    PreferencesCached
    MatchesReference
CHECK_DEADLOCK FALSE
