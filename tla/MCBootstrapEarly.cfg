SPECIFICATION Spec
CONSTANTS
    Blocks <- MCBlocks
    Genesis = 0
    correct = correct
    faulty = faulty
    Parent <- MCParent
    Height <- MCHeight
    Chain <- MCChain
    Tips = {2, 3}
    TwoStage = {1}
    Beacons = {correct, faulty}
    Faulty = {faulty}
    Lies = {3, 4}
    Weight <- MCWeight
    Alpha = 2
    SampleKs = {2}
    MaxOutstandingBroadcastRequests = 1
    RetryBootstrap = TRUE
    KeepsParsed = {FALSE}
INVARIANTS
    FinishedExecuted
CHECK_DEADLOCK FALSE
