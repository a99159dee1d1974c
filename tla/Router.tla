------------------------------- MODULE Router -------------------------------
(***************************************************************************)
(* Requests to other nodes and what the chains hear of the nodes: ChainRouter *)
(* (snow/networking/router/chain_router.go), the timeout manager over the    *)
(* adaptive timeout manager, the benchlist of every chain, and the part of   *)
(* the sender that makes a request.                                          *)
(*                                                                         *)
(* The goroutines are the senders (one per request), the dispatcher of the   *)
(* timeouts, the timer of each benchlist, the goroutine of each peer, and    *)
(* one for each inbound message.  The router holds its lock while it calls   *)
(* the timeout manager, and a benchlist holds its own while it calls the     *)
(* router; both locks are modelled.  The locks of the timeout manager and of *)
(* the failure streaks are never held while waiting for another one, so that *)
(* what they protect is one step.  The validators of a subnet change at any   *)
(* time; the router looks at them where the subnet is for validators only.    *)
(***************************************************************************)
EXTENDS Integers, FiniteSets

CONSTANTS
    Nodes, Me,              \* node IDs, this node
    Chains, OmegaChainID,
    Subnets, PrimaryNetworkID,
    SubnetID,               \* the subnet of each chain
    Networks,               \* configurations to start with: [sybilProtectionEnabled,
                            \* validatorOnly: subnets, AllowedNodes, tracked: node -> subnets]
    Requests,               \* the requests made: [node, chain, op]
    threshold,              \* failures in a row before a node is benched
    None

ASSUME RouterAssumption ==
    /\ Me \in Nodes /\ OmegaChainID \in Chains /\ PrimaryNetworkID \in Subnets
    /\ SubnetID \in [Chains -> Subnets] /\ SubnetID[OmegaChainID] = PrimaryNetworkID
    /\ Networks \subseteq [sybilProtectionEnabled : BOOLEAN, validatorOnly : SUBSET Subnets,
                           AllowedNodes : SUBSET Nodes, tracked : [Nodes -> SUBSET Subnets]]
    /\ Requests \subseteq [node : Nodes \ {Me}, chain : Chains, op : {"frontier", "query"}]
    /\ threshold \in Nat \ {0}
    /\ None \notin Nodes

VARIABLES
    \* ChainRouter
    network,            \* the configuration of this node, and what the others track
    validators,         \* subnet -> validators, of the subnets for validators only
    lock,               \* the message handled under the lock: [req, op], or None
    chainHandlers,      \* the chains that can be routed to
    stopped,            \* the chains that were removed
    peers,              \* node -> tracked subnets; {} if it is no peer
    connectedSubnets,   \* node -> subnets
    benched,            \* node -> chains
    timedRequests,
    \* timeout manager and benchlists
    timeoutMap,         \* requests with a timeout to come
    timing,             \* the timeout the dispatcher is at: [req, at], or None
    benchLock,          \* chain -> the node the benchlist tells the router of, or None
    failureStreaks,     \* chain -> node -> consecutive failures
    benchlistSet,       \* chain -> nodes
    \* senders, peers and messages
    sending,            \* request -> where its sender is
    announce,           \* node -> subnets its peer has yet to report
    inbound,            \* answers and failures to send, each with its goroutine: [req, op]
    \* what the chains hear
    outcomes,           \* request -> responses and failures pushed to the chain
    connected,          \* chain -> node -> Connected less Disconnected messages
    subnetsConnected    \* node -> subnet -> ConnectedSubnet messages since Connected

routerVars == <<chainHandlers, stopped, peers, connectedSubnets, benched>>
benchVars == <<benchLock, failureStreaks, benchlistSet>>
chainVars == <<connected, subnetsConnected>>
vars == <<network, validators, lock, timedRequests, timeoutMap, timing, sending, announce, inbound,
          outcomes, routerVars, benchVars, chainVars>>

Zero == [s \in Subnets |-> 0]

\* NewBenchlist, and Initialize: this node tracks any subnets.
Init ==
    /\ network \in Networks
    /\ validators = [s \in Subnets |-> IF s \in network.validatorOnly THEN Nodes ELSE {}]
    /\ lock = None /\ chainHandlers = {} /\ stopped = {}
    /\ peers = [n \in Nodes |-> IF n = Me THEN network.tracked[Me] \cup {PrimaryNetworkID} ELSE {}]
    /\ connectedSubnets = [n \in Nodes |-> {}] /\ benched = [n \in Nodes |-> {}]
    /\ timedRequests = {} /\ timeoutMap = {} /\ timing = None
    /\ benchLock = [c \in Chains |-> None]
    /\ failureStreaks = [c \in Chains |-> [n \in Nodes |-> 0]]
    /\ benchlistSet = [c \in Chains |-> {}]
    /\ sending = [r \in Requests |-> "new"]
    /\ announce = [n \in Nodes |-> {}]
    /\ inbound = {}
    /\ outcomes = [r \in Requests |-> 0]
    /\ connected = [c \in Chains |-> [n \in Nodes |-> 0]]
    /\ subnetsConnected = [n \in Nodes |-> Zero]

-----------------------------------------------------------------------------
(* What the router tells the chains *)

Plus(cs, n) == [c \in Chains |-> [connected[c] EXCEPT ![n] = IF c \in cs THEN @ + 1 ELSE @]]

\* Disconnected to the chains cs.  The O-chain takes it for all subnets.
PushDisconnected(cs, n) ==
    /\ connected' = [c \in Chains |-> [connected[c] EXCEPT ![n] = IF c \in cs THEN @ - 1 ELSE @]]
    /\ subnetsConnected' = IF OmegaChainID \in cs THEN [subnetsConnected EXCEPT ![n] = Zero]
                           ELSE subnetsConnected

\* connectedSubnet, for each of subnets, when the peer has those in before.
ConnectedSubnet(n, subnets, before) ==
    LET new == subnets \ (before \cup {PrimaryNetworkID})
    IN  /\ connectedSubnets' = [connectedSubnets EXCEPT ![n] = before \cup new]
        /\ subnetsConnected' = [subnetsConnected EXCEPT
                                   ![n] = [s \in Subnets |-> IF s \in new THEN @[s] + 1 ELSE @[s]]]

\* The chains that hear of a peer that tracks these subnets.
Hearing(subnets) == {c \in chainHandlers : SubnetID[c] \in subnets \/ ~network.sybilProtectionEnabled}

\* The router is called once the O-chain is there.
Ready == lock = None /\ OmegaChainID \in chainHandlers

AddChain(c) ==
    /\ lock = None
    /\ c \notin chainHandlers \cup stopped
    /\ c = OmegaChainID \/ OmegaChainID \in chainHandlers
    /\ chainHandlers' = chainHandlers \cup {c}
    /\ connected' = [connected EXCEPT ![c] =
                        [n \in Nodes |-> IF /\ benched[n] = {} /\ peers[n] # {}
                                            /\ SubnetID[c] \in peers[n] \/ ~network.sybilProtectionEnabled
                                         THEN @[n] + 1 ELSE @[n]]]
    /\ IF c = OmegaChainID /\ benched[Me] = {}
       THEN ConnectedSubnet(Me, peers[Me], connectedSubnets[Me])
       ELSE UNCHANGED <<connectedSubnets, subnetsConnected>>
    /\ UNCHANGED <<network, validators, lock, stopped, peers, benched, timedRequests, timeoutMap,
                   timing, benchVars, sending, announce, inbound, outcomes>>

\* removeChain, once a chain other than the O-chain has stopped.  The O-chain is
\* critical: the node exits.
RemoveChain(c) ==
    /\ Ready /\ c \in chainHandlers \ {OmegaChainID}
    /\ chainHandlers' = chainHandlers \ {c}
    /\ stopped' = stopped \cup {c}
    /\ UNCHANGED <<network, validators, lock, peers, connectedSubnets, benched, timedRequests,
                   timeoutMap, timing, benchVars, sending, announce, inbound, outcomes, chainVars>>

\* A peer finished its handshake: it reports the primary network, then the others.
Handshake(n) ==
    /\ OmegaChainID \in chainHandlers
    /\ n # Me /\ peers[n] = {} /\ announce[n] = {}
    /\ announce' = [announce EXCEPT ![n] = network.tracked[n] \cup {PrimaryNetworkID}]
    /\ UNCHANGED <<network, validators, lock, timedRequests, timeoutMap, timing, sending, inbound,
                   outcomes, routerVars, benchVars, chainVars>>

Connected(n, subnetID) ==
    LET hearing == IF ~network.sybilProtectionEnabled
                   THEN IF subnetID = PrimaryNetworkID THEN chainHandlers ELSE {}
                   ELSE {c \in chainHandlers : SubnetID[c] = subnetID}
    IN  /\ Ready
        /\ subnetID \in announce[n]
        /\ PrimaryNetworkID \in announce[n] => subnetID = PrimaryNetworkID
        /\ announce' = [announce EXCEPT ![n] = @ \ {subnetID}]
        /\ peers' = [peers EXCEPT ![n] = @ \cup {subnetID}]
        /\ IF benched[n] # {}
           THEN UNCHANGED <<connectedSubnets, chainVars>>
           ELSE connected' = Plus(hearing, n) /\ ConnectedSubnet(n, {subnetID}, connectedSubnets[n])
        /\ UNCHANGED <<network, validators, lock, chainHandlers, stopped, benched, timedRequests,
                       timeoutMap, timing, benchVars, sending, inbound, outcomes>>

Disconnected(n) ==
    /\ Ready
    /\ n # Me /\ peers[n] # {} /\ announce[n] = {}
    /\ peers' = [peers EXCEPT ![n] = {}]
    /\ connectedSubnets' = [connectedSubnets EXCEPT ![n] = {}]
    /\ IF benched[n] # {} THEN UNCHANGED chainVars ELSE PushDisconnected(Hearing(peers[n]), n)
    /\ UNCHANGED <<network, validators, lock, chainHandlers, stopped, benched, timedRequests,
                   timeoutMap, timing, benchVars, sending, announce, inbound, outcomes>>

\* Mutant: a node that is benched already is disconnected again.
TellBenchedAgain(n) == peers[n] # {}

\* Whether the chains have to hear that n is benched.
TellBenched(n) == benched[n] = {} /\ peers[n] # {}

Benched(c, n) ==
    /\ Ready
    /\ benched' = [benched EXCEPT ![n] = @ \cup {c}]
    /\ IF TellBenched(n)
       THEN /\ PushDisconnected(Hearing(peers[n]), n)
            /\ connectedSubnets' = [connectedSubnets EXCEPT ![n] = {}]
       ELSE UNCHANGED <<connectedSubnets, chainVars>>
    /\ UNCHANGED <<chainHandlers, stopped, peers>>

\* Mutant: the node is off the bench of every chain.
StillBenchedNever(n, c) == {}
StillBenched(n, c) == benched[n] \ {c}

Unbenched(c, n) ==
    /\ Ready
    /\ benched' = [benched EXCEPT ![n] = StillBenched(n, c)]
    /\ IF StillBenched(n, c) # {} \/ peers[n] = {}
       THEN UNCHANGED <<connectedSubnets, chainVars>>
       ELSE /\ connected' = Plus(Hearing(peers[n]), n)
            /\ ConnectedSubnet(n, peers[n], connectedSubnets[n])
    /\ UNCHANGED <<chainHandlers, stopped, peers>>

-----------------------------------------------------------------------------
(* Benchlists *)

\* Where the dispatcher is with the timeout of a request.
At(p) == timing # None /\ timing.at = p

\* RegisterFailure, up to the call of Benched.  A streak counts up to threshold.  A
\* node is not benched before minimumFailingDuration, if it is no validator, or if
\* too much stake would be benched.
RegisterFailure ==
    /\ At("failure")
    /\ LET n == timing.req.node    c == timing.req.chain
       IN  /\ benchLock[c] = None
           /\ \/ /\ n \in benchlistSet[c]
                 /\ timing' = [timing EXCEPT !.at = "handle"]
                 /\ UNCHANGED benchVars
              \/ /\ n \notin benchlistSet[c]
                 /\ failureStreaks' = [failureStreaks EXCEPT ![c][n] = IF @ < threshold THEN @ + 1 ELSE @]
                 /\ timing' = [timing EXCEPT !.at = "handle"]
                 /\ UNCHANGED <<benchLock, benchlistSet>>
              \/ /\ n \notin benchlistSet[c] /\ failureStreaks[c][n] + 1 >= threshold
                 /\ failureStreaks' = [failureStreaks EXCEPT ![c][n] = threshold]
                 /\ benchlistSet' = [benchlistSet EXCEPT ![c] = @ \cup {n}]
                 /\ benchLock' = [benchLock EXCEPT ![c] = n]
                 /\ timing' = [timing EXCEPT !.at = "bench"]
    /\ UNCHANGED <<network, validators, lock, timedRequests, timeoutMap, sending, announce, inbound,
                   outcomes, routerVars, chainVars>>

\* The rest of bench.
Bench ==
    /\ At("bench")
    /\ LET n == timing.req.node    c == timing.req.chain
       IN  /\ Benched(c, n)
           /\ failureStreaks' = [failureStreaks EXCEPT ![c][n] = 0]
           /\ benchLock' = [benchLock EXCEPT ![c] = None]
    /\ timing' = [timing EXCEPT !.at = "handle"]
    /\ UNCHANGED <<network, validators, lock, timedRequests, timeoutMap, benchlistSet, sending,
                   announce, inbound, outcomes>>

\* update: the timer fires and n leaves the bench, up to the call of Unbenched.
Update(c, n) ==
    /\ benchLock[c] = None /\ n \in benchlistSet[c]
    /\ benchlistSet' = [benchlistSet EXCEPT ![c] = @ \ {n}]
    /\ benchLock' = [benchLock EXCEPT ![c] = n]
    /\ UNCHANGED <<network, validators, lock, timedRequests, timeoutMap, timing, failureStreaks,
                   sending, announce, inbound, outcomes, routerVars, chainVars>>

\* The rest of remove; update goes on with the next node or returns.
Remove(c) ==
    /\ benchLock[c] # None /\ benchLock[c] \notin benchlistSet[c]
    /\ Unbenched(c, benchLock[c])
    /\ \/ /\ benchLock' = [benchLock EXCEPT ![c] = None]
          /\ UNCHANGED benchlistSet
       \/ \E n \in benchlistSet[c] :
             /\ benchLock' = [benchLock EXCEPT ![c] = n]
             /\ benchlistSet' = [benchlistSet EXCEPT ![c] = @ \ {n}]
    /\ UNCHANGED <<network, validators, lock, timedRequests, timeoutMap, timing, failureStreaks,
                   sending, announce, inbound, outcomes>>

-----------------------------------------------------------------------------
(* Requests *)

\* What a sender and the answers leave alone.
othersVars == <<network, validators, lock, timing, announce, outcomes, routerVars, benchVars, chainVars>>

\* ChainRouter.RegisterRequest, up to the call of the timeout manager.
RegisterRequest(r) ==
    /\ Ready /\ r.chain \in chainHandlers
    /\ sending[r] = "new"
    /\ sending' = [sending EXCEPT ![r] = "register"]
    /\ timedRequests' = timedRequests \cup {r}
    /\ UNCHANGED <<othersVars, timeoutMap, inbound>>

\* RegisterRequest of the timeout manager.
RegisterTimeout(r) ==
    /\ sending[r] = "register"
    /\ sending' = [sending EXCEPT ![r] = "send"]
    /\ timeoutMap' = timeoutMap \cup {r}
    /\ UNCHANGED <<othersVars, timedRequests, inbound>>

\* The rest of SendGetAcceptedFrontier: the message may get lost.
SendGetAcceptedFrontier(r) ==
    /\ r.op = "frontier" /\ sending[r] = "send"
    /\ sending' = [sending EXCEPT ![r] = "sent"]
    /\ UNCHANGED <<othersVars, timedRequests, timeoutMap, inbound>>

\* The rest of SendPullQuery: a query to a benched node, or one that cannot be
\* sent, fails at once.
SendPullQuery(r) ==
    /\ r.op = "query" /\ sending[r] = "send"
    /\ benchLock[r.chain] = None
    /\ \/ /\ sending' = [sending EXCEPT ![r] = "failed"]
          /\ inbound' = inbound \cup {[req |-> r, op |-> "failed"]}
       \/ /\ r.node \notin benchlistSet[r.chain]
          /\ sending' = [sending EXCEPT ![r] = "sent"]
          /\ UNCHANGED inbound
    /\ UNCHANGED <<othersVars, timedRequests, timeoutMap>>

\* The node answers, however late, and maybe again.
Answer(r) ==
    /\ sending[r] = "sent"
    /\ inbound' = inbound \cup {[req |-> r, op |-> "response"]}
    /\ UNCHANGED <<othersVars, timedRequests, timeoutMap, sending>>

\* getNextTimeoutHandler: a deadline has passed.
Expire(r) ==
    /\ timing = None /\ r \in timeoutMap
    /\ timeoutMap' = timeoutMap \ {r}
    /\ timing' = [req |-> r, at |-> "failure"]
    /\ UNCHANGED <<network, validators, lock, timedRequests, sending, announce, inbound, outcomes,
                   routerVars, benchVars, chainVars>>

\* Mutant: the request stays outstanding.
clearRequestNot(r) == timedRequests
clearRequest(r) == timedRequests \ {r}

\* A call of HandleInbound returns, to the dispatcher if it made the call.
Return(m) == timing' = IF m.op = "timeout" THEN None ELSE timing

\* The validators of a subnet change, as the O-chain accepts blocks.  This node is
\* always allowed.
ValidatorsChange(s, n) ==
    /\ s \in network.validatorOnly /\ n # Me
    /\ \/ validators' = [validators EXCEPT ![s] = @ \cup {n}]
       \/ validators' = [validators EXCEPT ![s] = @ \ {n}]
    /\ UNCHANGED <<network, lock, timedRequests, timeoutMap, timing, sending, announce, inbound,
                   outcomes, routerVars, benchVars, chainVars>>

\* IsAllowed of the subnet of a chain.
ShouldHandle(c, n) ==
    \/ n = Me \/ n \in network.AllowedNodes
    \/ SubnetID[c] \notin network.validatorOnly
    \/ n \in validators[SubnetID[c]]

\* HandleInbound, up to the call of the timeout manager.  Nothing is heard of a node
\* that is not allowed, its timeouts and failures included.  Responses are dropped
\* while the chain executes blocks.
HandleInbound(m) ==
    /\ Ready
    /\ \/ /\ \/ m.req.chain \notin chainHandlers \/ ~ShouldHandle(m.req.chain, m.req.node)
             \/ m.op = "response" \/ m.req \notin timedRequests
          /\ Return(m)
          /\ UNCHANGED <<lock, timedRequests>>
       \/ /\ m.req.chain \in chainHandlers /\ ShouldHandle(m.req.chain, m.req.node)
          /\ m.req \in timedRequests
          /\ lock' = m
          /\ timedRequests' = clearRequest(m.req)
          /\ UNCHANGED timing
    /\ UNCHANGED <<network, validators, timeoutMap, sending, announce, outcomes, routerVars,
                   benchVars, chainVars>>

\* The goroutine of an answer or of a failure to send.
HandleMessage(m) ==
    /\ m \in inbound /\ inbound' = inbound \ {m}
    /\ HandleInbound(m)

\* The dispatcher runs the rest of the timeout handler.
HandleTimeout ==
    /\ At("handle")
    /\ HandleInbound([req |-> timing.req, op |-> "timeout"])
    /\ UNCHANGED inbound

\* Mutant: RegisterResponse of a benchlist takes its lock.
MayRegisterResponseLocked(c) == benchLock[c] = None

\* RegisterResponse of a benchlist takes streaklock only.
MayRegisterResponse(c) == TRUE

\* The rest of HandleInbound: RegisterResponse or RemoveRequest, then Push.
Push ==
    /\ lock # None
    /\ \/ /\ lock.op = "response" /\ MayRegisterResponse(lock.req.chain)
          /\ failureStreaks' = [failureStreaks EXCEPT ![lock.req.chain][lock.req.node] = 0]
       \/ lock.op # "response" /\ UNCHANGED failureStreaks
    /\ timeoutMap' = timeoutMap \ {lock.req}
    /\ outcomes' = [outcomes EXCEPT ![lock.req] = @ + 1]
    /\ lock' = None
    /\ Return(lock)
    /\ UNCHANGED <<network, validators, timedRequests, benchLock, benchlistSet, sending, announce,
                   inbound, routerVars, chainVars>>

-----------------------------------------------------------------------------

\* The goroutine that makes a request, and the one it leaves a failure to.
Sender(r) ==
    \/ RegisterTimeout(r) \/ SendGetAcceptedFrontier(r) \/ SendPullQuery(r)
    \/ HandleMessage([req |-> r, op |-> "failed"])

Dispatcher == (\E r \in timeoutMap : Expire(r)) \/ RegisterFailure \/ Bench \/ HandleTimeout
BenchTimer(c) == (\E n \in Nodes : Update(c, n)) \/ Remove(c)

Next ==
    \/ \E c \in Chains : AddChain(c) \/ RemoveChain(c) \/ BenchTimer(c)
    \/ \E n \in Nodes : \/ Handshake(n) \/ Disconnected(n)
                        \/ \E s \in Subnets : Connected(n, s) \/ ValidatorsChange(s, n)
    \/ \E r \in Requests : \/ RegisterRequest(r) \/ Sender(r) \/ Answer(r)
                           \/ HandleMessage([req |-> r, op |-> "response"])
    \/ Dispatcher
    \/ Push

Spec == Init /\ [][Next]_vars

\* Deadlines pass, timers fire, and who waits for a mutex gets it (a mutex of Go does
\* not starve a waiter).  Answers, peers and chains may do nothing.  As a request is
\* made once, the senders take finitely many steps, and so do the timers: fairness to
\* all of them together is fairness to each.
FairSpec ==
    /\ Spec
    /\ SF_vars(\E r \in Requests : Sender(r))
    /\ SF_vars(Dispatcher)
    /\ SF_vars(\E c \in Chains : BenchTimer(c))
    /\ WF_vars(Push)

-----------------------------------------------------------------------------
(* Properties *)

\* A request has one outcome: the chain gets one response or one failure for it,
\* although answers, timeouts and failures to send race, and none while the
\* request is outstanding.
OneOutcome ==
    \A r \in Requests : outcomes[r] <= 1 /\ (r \in timedRequests => outcomes[r] = 0)

\* The chains agree with the router: a chain heard Connected, and only once, of
\* exactly the peers in its subnet that are benched on no chain, and the O-chain
\* heard once of each other subnet of those.  Benching on one chain "is treated as
\* disconnected on all chains".
ConnectivityExact ==
    \A n \in Nodes :
        /\ \A c \in chainHandlers :
              connected[c][n] = IF /\ peers[n] # {} /\ benched[n] = {}
                                   /\ SubnetID[c] \in peers[n] \/ ~network.sybilProtectionEnabled
                                THEN 1 ELSE 0
        /\ OmegaChainID \in chainHandlers =>
              \A s \in Subnets :
                  subnetsConnected[n][s] =
                      IF s \in peers[n] \ {PrimaryNetworkID} /\ benched[n] = {} THEN 1 ELSE 0

\* The router knows where a node is benched, as soon as the benchlist unlocks.
BenchedAgrees ==
    \A c \in Chains, n \in Nodes :
        benchLock[c] # n => (c \in benched[n] <=> n \in benchlistSet[c])

\* No request is forgotten: once registered, it is cleared by a response, a timeout or
\* a failure to send, unless its chain stops or its node is not allowed at some time
\* before.  RegisterRequest promises it without the two exceptions ("Every registered
\* request must be cleared either by receiving a valid reply ... or by a timeout"), but
\* HandleInbound drops the timeout of a stopped chain, or of a node that left a subnet
\* for validators only, without clearing the request, and there is no other timeout.
RequestResolved ==
    \A r \in Requests :
        sending[r] = "register" ~> \/ r \notin timedRequests
                                   \/ r.chain \in stopped \/ ~ShouldHandle(r.chain, r.node)
=============================================================================
