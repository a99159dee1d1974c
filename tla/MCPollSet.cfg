\* Two polls over two request IDs (an ID may be used again), three blocks: majorities
\* through descendants.
SPECIFICATION FairSpec
CONSTANTS
    RequestIDs = {1, 2}
    v1 = v1
    v2 = v2
    v3 = v3
    a = a
    b = b
    c = c
    Validators = {v1, v2, v3}
    Blocks = {a, b, c}
    Descends <- MCDescends
    Samples <- MCSamples
    K = 3
    Alpha = 2
    NoVote = NoVote
    MaxPolls = 2
INVARIANTS
    ResultsInIssueOrder
    OldestUnfinished
    EarlyTerminationSound
PROPERTIES
    AnswersFinal
    EveryPollReturns
CHECK_DEADLOCK FALSE
