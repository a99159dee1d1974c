SPECIFICATION FairSpec
CONSTANTS
    me = me
    other = other
    o = o
    x = x
    primary = primary
    subnet = subnet
    None = None
    Nodes = {me, other}
    Me = me
    Chains = {o, x}
    OmegaChainID = o
    Subnets = {primary, subnet}
    PrimaryNetworkID = primary
    SubnetID <- MCSubnetID
    Networks <- MCNetworks
    Requests <- MCRequests
    threshold = 1
INVARIANTS
    OneOutcome
    ConnectivityExact
    BenchedAgrees
PROPERTIES
    RequestResolved
CHECK_DEADLOCK FALSE
