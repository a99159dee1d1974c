---------------------------- MODULE RouterProofs ----------------------------
(* What is proved of Router, for any nodes, chains, subnets and requests. *)
EXTENDS Router, TLAPS

Messages == [req : Requests, op : {"response", "failed", "timeout"}]
Timeouts == [req : Requests, at : {"failure", "bench", "handle"}]

TypeOK ==
    /\ network \in Networks
    /\ validators \in [Subnets -> SUBSET Nodes]
    /\ lock \in Messages \cup {None}
    /\ chainHandlers \in SUBSET Chains /\ stopped \in SUBSET Chains
    /\ peers \in [Nodes -> SUBSET Subnets] /\ connectedSubnets \in [Nodes -> SUBSET Subnets]
    /\ benched \in [Nodes -> SUBSET Chains]
    /\ timedRequests \in SUBSET Requests /\ timeoutMap \in SUBSET Requests
    /\ timing \in Timeouts \cup {None}
    /\ benchLock \in [Chains -> Nodes \cup {None}]
    /\ failureStreaks \in [Chains -> [Nodes -> Nat]]
    /\ benchlistSet \in [Chains -> SUBSET Nodes]
    /\ sending \in [Requests -> {"new", "register", "send", "sent", "failed"}]
    /\ announce \in [Nodes -> SUBSET Subnets]
    /\ inbound \in SUBSET Messages
    /\ outcomes \in [Requests -> Nat]
    /\ connected \in [Chains -> [Nodes -> Int]]
    /\ subnetsConnected \in [Nodes -> [Subnets -> Int]]

\* A request is new, outstanding, being resolved under the lock of the router, or
\* resolved, in that order.
RequestInv ==
    /\ \A r \in Requests :
          /\ outcomes[r] \in {0, 1}
          /\ r \in timedRequests => outcomes[r] = 0 /\ sending[r] # "new"
          /\ sending[r] = "new" => outcomes[r] = 0
    /\ lock # None => /\ outcomes[lock.req] = 0 /\ sending[lock.req] # "new"
                      /\ lock.req \notin timedRequests

\* The dispatcher holds the lock of the benchlist while it is benching, and the node
\* that a benchlist has let go is still benched for the router.
BenchInv ==
    /\ BenchedAgrees
    /\ At("bench") => /\ benchLock[timing.req.chain] = timing.req.node
                      /\ timing.req.node \in benchlistSet[timing.req.chain]
    /\ \A c \in Chains : benchLock[c] # None /\ benchLock[c] \notin benchlistSet[c]
                            => c \in benched[benchLock[c]]

\* A peer is on the primary network first, and reports no subnet twice.
PeerInv ==
    \A n \in Nodes :
        /\ announce[n] \cap peers[n] = {}
        /\ announce[n] \cup peers[n] # {} => PrimaryNetworkID \in announce[n] \cup peers[n]
        /\ PrimaryNetworkID \in announce[n] => peers[n] = {}

\* Whether chain c is told that node n is there.
Hears(c, n) ==
    /\ peers[n] # {} /\ benched[n] = {}
    /\ SubnetID[c] \in peers[n] \/ ~network.sybilProtectionEnabled

\* The router remembers what it told the O-chain of a node, and the chains heard of it
\* once.
NodeExact(n) ==
    /\ connectedSubnets[n] = IF benched[n] = {} THEN peers[n] \ {PrimaryNetworkID} ELSE {}
    /\ \A c \in chainHandlers : connected[c][n] = IF Hears(c, n) THEN 1 ELSE 0
    /\ \A s \in Subnets : subnetsConnected[n][s] = IF s \in connectedSubnets[n] THEN 1 ELSE 0

\* The chains that were not added have heard nothing.
Silent == \A c \in Chains \ (chainHandlers \cup stopped), n \in Nodes : connected[c][n] = 0

\* Before the O-chain is added there is no other peer and no other chain.
HeardInv ==
    /\ OmegaChainID \notin chainHandlers =>
          /\ chainHandlers = {}
          /\ \A n \in Nodes : /\ connectedSubnets[n] = {} /\ subnetsConnected[n] = Zero
                              /\ n # Me => peers[n] = {}
    /\ OmegaChainID \in chainHandlers => \A n \in Nodes : NodeExact(n)
    /\ Silent

-----------------------------------------------------------------------------
(* Types *)

USE RouterAssumption, Zenon

LEMMA InitType == Init => TypeOK
<1> SUFFICES ASSUME Init PROVE TypeOK OBVIOUS
<1>1. peers \in [Nodes -> SUBSET Subnets]
  <2>1. network.tracked[Me] \in SUBSET Subnets BY DEF Init
  <2> QED BY <2>1 DEF Init
<1> QED BY <1>1, SMT DEF Init, TypeOK, Zero

\* What a request names.
LEMMA RequestFields ==
    ASSUME NEW r \in Requests
    PROVE  r.node \in Nodes /\ r.chain \in Chains
OBVIOUS

LEMMA HandleInboundType ==
    ASSUME TypeOK, NEW m \in Messages, HandleInbound(m), inbound' \in SUBSET Messages
    PROVE  TypeOK'
<1>1. lock' \in Messages \cup {None} /\ timing' \in Timeouts \cup {None}
      /\ timedRequests' \in SUBSET Requests
  BY DEF TypeOK, HandleInbound, Return, clearRequest
<1> QED BY <1>1 DEF TypeOK, HandleInbound, routerVars, benchVars, chainVars

LEMMA ConnectedSubnetType ==
    ASSUME TypeOK, NEW n \in Nodes, NEW subnets \in SUBSET Subnets,
           ConnectedSubnet(n, subnets, connectedSubnets[n])
    PROVE  /\ connectedSubnets' \in [Nodes -> SUBSET Subnets]
           /\ subnetsConnected' \in [Nodes -> [Subnets -> Int]]
BY SMT DEF TypeOK, ConnectedSubnet

LEMMA PushDisconnectedType ==
    ASSUME TypeOK, NEW n \in Nodes, NEW cs, PushDisconnected(cs, n)
    PROVE  /\ connected' \in [Chains -> [Nodes -> Int]]
           /\ subnetsConnected' \in [Nodes -> [Subnets -> Int]]
BY SMT DEF TypeOK, PushDisconnected, Zero

LEMMA PlusType ==
    ASSUME TypeOK, NEW n \in Nodes, NEW cs
    PROVE  Plus(cs, n) \in [Chains -> [Nodes -> Int]]
BY SMT DEF TypeOK, Plus

\* What the router does about a benched node.
BenchRouterType ==
    /\ benched' \in [Nodes -> SUBSET Chains]
    /\ connectedSubnets' \in [Nodes -> SUBSET Subnets]
    /\ connected' \in [Chains -> [Nodes -> Int]]
    /\ subnetsConnected' \in [Nodes -> [Subnets -> Int]]
    /\ UNCHANGED <<chainHandlers, stopped, peers>>

LEMMA BenchedType ==
    ASSUME TypeOK, NEW c \in Chains, NEW n \in Nodes, Benched(c, n)
    PROVE  BenchRouterType
<1>1. benched' \in [Nodes -> SUBSET Chains] /\ UNCHANGED <<chainHandlers, stopped, peers>>
  BY DEF TypeOK, Benched
<1>2. CASE TellBenched(n)
  <2>1. PushDisconnected(Hearing(peers[n]), n) BY <1>2 DEF Benched
  <2>2. connectedSubnets' \in [Nodes -> SUBSET Subnets] BY <1>2 DEF TypeOK, Benched
  <2> QED BY <1>1, <2>1, <2>2, PushDisconnectedType DEF BenchRouterType
<1>3. CASE ~TellBenched(n)
  BY <1>1, <1>3 DEF TypeOK, Benched, BenchRouterType, chainVars
<1> QED BY <1>2, <1>3

LEMMA UnbenchedType ==
    ASSUME TypeOK, NEW c \in Chains, NEW n \in Nodes, Unbenched(c, n)
    PROVE  BenchRouterType
<1>1. benched' \in [Nodes -> SUBSET Chains] /\ UNCHANGED <<chainHandlers, stopped, peers>>
  BY DEF TypeOK, Unbenched, StillBenched
<1>2. CASE StillBenched(n, c) # {} \/ peers[n] = {}
  BY <1>1, <1>2 DEF TypeOK, Unbenched, BenchRouterType, chainVars
<1>3. CASE ~(StillBenched(n, c) # {} \/ peers[n] = {})
  <2>1. /\ connected' = Plus(Hearing(peers[n]), n)
        /\ ConnectedSubnet(n, peers[n], connectedSubnets[n])
    BY <1>3 DEF Unbenched
  <2>2. peers[n] \in SUBSET Subnets BY DEF TypeOK
  <2> QED BY <1>1, <2>1, <2>2, PlusType, ConnectedSubnetType DEF BenchRouterType
<1> QED BY <1>2, <1>3

LEMMA AddChainType ==
    ASSUME TypeOK, NEW c \in Chains, AddChain(c)
    PROVE  TypeOK'
<1>1. connected' \in [Chains -> [Nodes -> Int]]
  <2>1. [n \in Nodes |-> IF /\ benched[n] = {} /\ peers[n] # {}
                            /\ SubnetID[c] \in peers[n] \/ ~network.sybilProtectionEnabled
                         THEN connected[c][n] + 1 ELSE connected[c][n]] \in [Nodes -> Int]
    BY SMT DEF TypeOK
  <2> QED BY <2>1 DEF TypeOK, AddChain
<1>2. /\ connectedSubnets' \in [Nodes -> SUBSET Subnets]
      /\ subnetsConnected' \in [Nodes -> [Subnets -> Int]]
  <2>1. CASE c = OmegaChainID /\ benched[Me] = {}
    <3>1. ConnectedSubnet(Me, peers[Me], connectedSubnets[Me]) BY <2>1 DEF AddChain
    <3>2. peers[Me] \in SUBSET Subnets BY DEF TypeOK
    <3> QED BY <3>1, <3>2, ConnectedSubnetType
  <2>2. CASE ~(c = OmegaChainID /\ benched[Me] = {})
    BY <2>2 DEF TypeOK, AddChain
  <2> QED BY <2>1, <2>2
<1>3. chainHandlers' \in SUBSET Chains BY DEF TypeOK, AddChain
<1> QED BY <1>1, <1>2, <1>3 DEF TypeOK, AddChain, benchVars

LEMMA ConnectedType ==
    ASSUME TypeOK, NEW n \in Nodes, NEW s \in Subnets, Connected(n, s)
    PROVE  TypeOK'
<1>1. /\ connectedSubnets' \in [Nodes -> SUBSET Subnets]
      /\ connected' \in [Chains -> [Nodes -> Int]]
      /\ subnetsConnected' \in [Nodes -> [Subnets -> Int]]
  <2>1. CASE benched[n] # {} BY <2>1 DEF TypeOK, Connected, chainVars
  <2>2. CASE benched[n] = {}
    <3>1. (\E cs : connected' = Plus(cs, n)) /\ ConnectedSubnet(n, {s}, connectedSubnets[n])
      BY <2>2, Zenon DEF Connected
    <3>2. {s} \in SUBSET Subnets OBVIOUS
    <3>3. PICK cs : connected' = Plus(cs, n) BY <3>1
    <3> QED BY <3>1, <3>2, <3>3, PlusType, ConnectedSubnetType
  <2> QED BY <2>1, <2>2
<1>2. peers' \in [Nodes -> SUBSET Subnets] /\ announce' \in [Nodes -> SUBSET Subnets]
  BY DEF TypeOK, Connected
<1> QED BY <1>1, <1>2 DEF TypeOK, Connected, benchVars

LEMMA DisconnectedType ==
    ASSUME TypeOK, NEW n \in Nodes, Disconnected(n)
    PROVE  TypeOK'
<1>1. /\ connected' \in [Chains -> [Nodes -> Int]]
      /\ subnetsConnected' \in [Nodes -> [Subnets -> Int]]
  <2>1. CASE benched[n] # {} BY <2>1 DEF TypeOK, Disconnected, chainVars
  <2>2. CASE benched[n] = {}
    BY <2>2, PushDisconnectedType DEF Disconnected
  <2> QED BY <2>1, <2>2
<1>2. peers' \in [Nodes -> SUBSET Subnets] /\ connectedSubnets' \in [Nodes -> SUBSET Subnets]
  BY DEF TypeOK, Disconnected
<1> QED BY <1>1, <1>2 DEF TypeOK, Disconnected, benchVars

LEMMA StreakType ==
    ASSUME NEW f \in [Chains -> [Nodes -> Nat]], NEW c \in Chains, NEW n \in Nodes, NEW k \in Nat
    PROVE  [f EXCEPT ![c][n] = k] \in [Chains -> [Nodes -> Nat]]
OBVIOUS

LEMMA RegisterFailureType == TypeOK /\ RegisterFailure => TypeOK'
<1> SUFFICES ASSUME TypeOK, RegisterFailure PROVE TypeOK' OBVIOUS
<1> DEFINE n == timing.req.node  c == timing.req.chain
<1>1. n \in Nodes /\ c \in Chains /\ timing \in Timeouts
  BY DEF TypeOK, RegisterFailure, At, Timeouts
<1> DEFINE k == IF failureStreaks[c][n] < threshold THEN failureStreaks[c][n] + 1
                                                    ELSE failureStreaks[c][n]
<1>2. /\ [timing EXCEPT !.at = "handle"] \in Timeouts
      /\ [timing EXCEPT !.at = "bench"] \in Timeouts
  BY <1>1 DEF Timeouts
<1>3. failureStreaks[c][n] \in Nat /\ k \in Nat BY <1>1, SMT DEF TypeOK
<1>4. /\ [failureStreaks EXCEPT ![c][n] = k] \in [Chains -> [Nodes -> Nat]]
      /\ [failureStreaks EXCEPT ![c][n] = threshold] \in [Chains -> [Nodes -> Nat]]
  BY <1>1, <1>3, StreakType DEF TypeOK
<1>5. /\ [benchlistSet EXCEPT ![c] = @ \cup {n}] \in [Chains -> SUBSET Nodes]
      /\ [benchLock EXCEPT ![c] = n] \in [Chains -> Nodes \cup {None}]
  BY <1>1 DEF TypeOK
<1>6. /\ timing' \in Timeouts
      /\ benchLock' \in [Chains -> Nodes \cup {None}]
      /\ benchlistSet' \in [Chains -> SUBSET Nodes]
      /\ failureStreaks' \in [Chains -> [Nodes -> Nat]]
  <2>1. \/ /\ timing' = [timing EXCEPT !.at = "handle"]
           /\ UNCHANGED <<benchLock, benchlistSet>>
           /\ \/ UNCHANGED failureStreaks
              \/ failureStreaks' = [failureStreaks EXCEPT ![c][n] = k]
        \/ /\ timing' = [timing EXCEPT !.at = "bench"]
           /\ failureStreaks' = [failureStreaks EXCEPT ![c][n] = threshold]
           /\ benchlistSet' = [benchlistSet EXCEPT ![c] = @ \cup {n}]
           /\ benchLock' = [benchLock EXCEPT ![c] = n]
    BY DEF RegisterFailure, benchVars
  <2>2. /\ benchLock \in [Chains -> Nodes \cup {None}]
        /\ benchlistSet \in [Chains -> SUBSET Nodes]
        /\ failureStreaks \in [Chains -> [Nodes -> Nat]]
    BY DEF TypeOK
  <2> QED BY <1>2, <1>4, <1>5, <2>1, <2>2
<1> QED BY <1>6 DEF TypeOK, RegisterFailure, routerVars, chainVars

LEMMA BenchType == TypeOK /\ Bench => TypeOK'
<1> SUFFICES ASSUME TypeOK, Bench PROVE TypeOK' OBVIOUS
<1> DEFINE n == timing.req.node  c == timing.req.chain
<1>1. n \in Nodes /\ c \in Chains /\ timing \in Timeouts
  BY DEF TypeOK, Bench, At, Timeouts
<1>2. BenchRouterType BY <1>1, BenchedType DEF Bench
<1>3. /\ timing' \in Timeouts
      /\ benchLock' \in [Chains -> Nodes \cup {None}]
      /\ failureStreaks' \in [Chains -> [Nodes -> Nat]]
  BY <1>1 DEF TypeOK, Bench, Timeouts
<1> QED BY <1>2, <1>3 DEF TypeOK, Bench, BenchRouterType

LEMMA BenchTimerType ==
    ASSUME TypeOK, NEW c \in Chains, BenchTimer(c)
    PROVE  TypeOK'
<1>1. ASSUME NEW n \in Nodes, Update(c, n) PROVE TypeOK'
  BY <1>1 DEF TypeOK, Update, routerVars, chainVars
<1>2. CASE Remove(c)
  <2>1. BenchRouterType
    <3>1. benchLock[c] \in Nodes BY <1>2 DEF TypeOK, Remove
    <3> QED BY <1>2, <3>1, UnbenchedType DEF Remove
  <2>2. /\ benchLock' \in [Chains -> Nodes \cup {None}]
        /\ benchlistSet' \in [Chains -> SUBSET Nodes]
    <3>1. \/ benchLock' = [benchLock EXCEPT ![c] = None] /\ benchlistSet' = benchlistSet
          \/ \E n \in benchlistSet[c] :
                /\ benchLock' = [benchLock EXCEPT ![c] = n]
                /\ benchlistSet' = [benchlistSet EXCEPT ![c] = @ \ {n}]
      BY <1>2 DEF Remove
    <3>2. /\ benchLock \in [Chains -> Nodes \cup {None}]
          /\ benchlistSet \in [Chains -> SUBSET Nodes]
      BY DEF TypeOK
    <3>3. CASE benchLock' = [benchLock EXCEPT ![c] = None] /\ benchlistSet' = benchlistSet
      BY <3>2, <3>3
    <3>4. ASSUME NEW n \in benchlistSet[c], benchLock' = [benchLock EXCEPT ![c] = n],
                 benchlistSet' = [benchlistSet EXCEPT ![c] = @ \ {n}]
          PROVE  /\ benchLock' \in [Chains -> Nodes \cup {None}]
                 /\ benchlistSet' \in [Chains -> SUBSET Nodes]
      BY <3>2, <3>4
    <3> QED BY <3>1, <3>3, <3>4
  <2> QED BY <1>2, <2>1, <2>2 DEF TypeOK, Remove, BenchRouterType
<1> QED BY <1>1, <1>2 DEF BenchTimer

LEMMA PushType == TypeOK /\ Push => TypeOK'
<1> SUFFICES ASSUME TypeOK, Push PROVE TypeOK' OBVIOUS
<1>1. lock \in Messages /\ lock.req \in Requests
      /\ lock.req.node \in Nodes /\ lock.req.chain \in Chains
  BY DEF TypeOK, Push, Messages
<1>2. failureStreaks' \in [Chains -> [Nodes -> Nat]]
  <2>1. \/ failureStreaks' = [failureStreaks EXCEPT ![lock.req.chain][lock.req.node] = 0]
        \/ failureStreaks' = failureStreaks
    BY DEF Push
  <2>2. failureStreaks \in [Chains -> [Nodes -> Nat]] /\ 0 \in Nat BY DEF TypeOK
  <2>3. [failureStreaks EXCEPT ![lock.req.chain][lock.req.node] = 0] \in [Chains -> [Nodes -> Nat]]
    BY <1>1, <2>2, StreakType, Zenon
  <2> QED BY <2>1, <2>2, <2>3
<1>3. outcomes' \in [Requests -> Nat] BY <1>1, SMT DEF TypeOK, Push
<1>4. timing' \in Timeouts \cup {None} BY DEF TypeOK, Push, Return
<1> QED BY <1>2, <1>3, <1>4 DEF TypeOK, Push, routerVars, chainVars

LEMMA NextType == TypeOK /\ [Next]_vars => TypeOK'
<1> SUFFICES ASSUME TypeOK, [Next]_vars PROVE TypeOK' OBVIOUS
<1> USE DEF routerVars, benchVars, chainVars
<1>1. ASSUME NEW c \in Chains, RemoveChain(c) PROVE TypeOK'
  BY <1>1 DEF TypeOK, RemoveChain
<1>2. ASSUME NEW n \in Nodes, Handshake(n) PROVE TypeOK'
  <2>1. network.tracked[n] \in SUBSET Subnets BY SMT DEF TypeOK
  <2> QED BY <1>2, <2>1 DEF TypeOK, Handshake
<1>9. ASSUME NEW n \in Nodes, NEW s \in Subnets, ValidatorsChange(s, n) PROVE TypeOK'
  <2>1. validators \in [Subnets -> SUBSET Nodes] BY DEF TypeOK
  <2>2. \/ validators' = [validators EXCEPT ![s] = validators[s] \cup {n}]
        \/ validators' = [validators EXCEPT ![s] = validators[s] \ {n}]
    BY <1>9 DEF ValidatorsChange
  <2>3. validators[s] \cup {n} \in SUBSET Nodes /\ validators[s] \ {n} \in SUBSET Nodes
    BY <2>1
  <2>4. validators' \in [Subnets -> SUBSET Nodes] BY <2>1, <2>2, <2>3
  <2> QED BY <1>9, <2>4 DEF TypeOK, ValidatorsChange
<1>3. ASSUME NEW r \in Requests, RegisterRequest(r) \/ RegisterTimeout(r) \/
             SendGetAcceptedFrontier(r) \/ SendPullQuery(r) \/ Answer(r)
      PROVE  TypeOK'
  <2>1. timedRequests' \in SUBSET Requests /\ timeoutMap' \in SUBSET Requests
    BY <1>3 DEF TypeOK, RegisterRequest, RegisterTimeout, SendGetAcceptedFrontier,
              SendPullQuery, Answer, othersVars
  <2>2. sending' \in [Requests -> {"new", "register", "send", "sent", "failed"}]
    BY <1>3 DEF TypeOK, RegisterRequest, RegisterTimeout, SendGetAcceptedFrontier,
              SendPullQuery, Answer
  <2>3. inbound' \in SUBSET Messages
    <3>1. /\ [req |-> r, op |-> "failed"] \in Messages
          /\ [req |-> r, op |-> "response"] \in Messages
      BY DEF Messages
    <3> QED BY <1>3, <3>1 DEF TypeOK, RegisterRequest, RegisterTimeout,
              SendGetAcceptedFrontier, SendPullQuery, Answer
  <2>4. UNCHANGED othersVars
    BY <1>3 DEF RegisterRequest, RegisterTimeout, SendGetAcceptedFrontier, SendPullQuery, Answer
  <2> QED BY <2>1, <2>2, <2>3, <2>4 DEF TypeOK, othersVars
<1>4. ASSUME NEW m \in Messages, HandleMessage(m) PROVE TypeOK'
  <2>1. inbound' \in SUBSET Messages BY <1>4 DEF TypeOK, HandleMessage
  <2> QED BY <1>4, <2>1, HandleInboundType DEF HandleMessage
<1>5. ASSUME NEW r \in timeoutMap, Expire(r) PROVE TypeOK'
  BY <1>5 DEF TypeOK, Expire, Timeouts
<1>6. CASE HandleTimeout
  <2>1. [req |-> timing.req, op |-> "timeout"] \in Messages
    BY <1>6 DEF TypeOK, HandleTimeout, At, Timeouts, Messages
  <2>2. inbound' \in SUBSET Messages BY <1>6 DEF TypeOK, HandleTimeout
  <2> QED BY <1>6, <2>1, <2>2, HandleInboundType DEF HandleTimeout
<1>7. CASE UNCHANGED vars BY <1>7 DEF TypeOK, vars
<1>8. \A r \in Requests : [req |-> r, op |-> "failed"] \in Messages
                          /\ [req |-> r, op |-> "response"] \in Messages
  BY DEF Messages
<1> QED
  BY <1>1, <1>2, <1>3, <1>4, <1>5, <1>6, <1>7, <1>8, <1>9, AddChainType, ConnectedType,
     DisconnectedType, RegisterFailureType, BenchType, BenchTimerType, PushType
  DEF Next, Sender, Dispatcher

-----------------------------------------------------------------------------
(* Requests *)

LEMMA InitRequest == Init => RequestInv
BY DEF Init, RequestInv

LEMMA HandleInboundRequest ==
    ASSUME TypeOK, RequestInv, NEW m \in Messages, HandleInbound(m)
    PROVE  RequestInv'
<1>1. sending' = sending /\ outcomes' = outcomes /\ lock = None
  BY DEF HandleInbound, Ready
<1>2. CASE UNCHANGED <<lock, timedRequests>>
  BY <1>1, <1>2 DEF RequestInv
<1>3. CASE /\ m.req \in timedRequests /\ lock' = m
           /\ timedRequests' = timedRequests \ {m.req}
  <2>1. m.req \in Requests BY DEF Messages
  <2> QED BY <1>1, <1>3, <2>1 DEF RequestInv
<1> QED BY <1>2, <1>3 DEF HandleInbound, clearRequest

LEMMA SenderRequest ==
    ASSUME TypeOK, RequestInv, NEW r \in Requests,
           \/ RegisterRequest(r) \/ RegisterTimeout(r) \/ SendGetAcceptedFrontier(r)
           \/ SendPullQuery(r) \/ Answer(r)
    PROVE  RequestInv'
<1>1. lock' = lock /\ outcomes' = outcomes
  BY DEF RegisterRequest, RegisterTimeout, SendGetAcceptedFrontier, SendPullQuery, Answer,
         othersVars
<1>2. CASE RegisterRequest(r)
  <2>1. /\ lock = None /\ sending[r] = "new" /\ timedRequests' = timedRequests \cup {r}
        /\ sending' = [sending EXCEPT ![r] = "register"]
    BY <1>2 DEF RegisterRequest, Ready
  <2> QED BY <1>1, <2>1 DEF TypeOK, RequestInv
<1>3. CASE ~RegisterRequest(r)
  <2>1. /\ timedRequests' = timedRequests
        /\ \A x \in Requests : sending'[x] = "new" <=> sending[x] = "new"
    BY <1>3 DEF TypeOK, RegisterTimeout, SendGetAcceptedFrontier, SendPullQuery, Answer,
                othersVars
  <2>2. lock # None => lock.req \in Requests BY DEF TypeOK, Messages
  <2> QED BY <1>1, <2>1, <2>2 DEF RequestInv
<1> QED BY <1>2, <1>3

LEMMA PushRequest == TypeOK /\ RequestInv /\ Push => RequestInv'
<1> SUFFICES ASSUME TypeOK, RequestInv, Push PROVE RequestInv' OBVIOUS
<1>1. lock # None /\ lock.req \in Requests BY DEF TypeOK, Push, Messages
<1>2. /\ outcomes[lock.req] = 0 /\ sending[lock.req] # "new" /\ lock.req \notin timedRequests
  BY <1>1 DEF RequestInv
<1>3. /\ lock' = None /\ timedRequests' = timedRequests /\ sending' = sending
      /\ outcomes' = [outcomes EXCEPT ![lock.req] = @ + 1]
  BY DEF Push
<1>4. /\ outcomes'[lock.req] = 1
      /\ \A r \in Requests \ {lock.req} : outcomes'[r] = outcomes[r]
  BY <1>1, <1>2, <1>3, SMT DEF TypeOK
<1> QED BY <1>2, <1>3, <1>4 DEF RequestInv

LEMMA NextRequest == TypeOK /\ RequestInv /\ [Next]_vars => RequestInv'
<1> SUFFICES ASSUME TypeOK, RequestInv, [Next]_vars PROVE RequestInv' OBVIOUS
<1>1. ASSUME NEW m \in Messages, HandleMessage(m) PROVE RequestInv'
  BY <1>1, HandleInboundRequest DEF HandleMessage
<1>2. CASE HandleTimeout
  <2>1. [req |-> timing.req, op |-> "timeout"] \in Messages
    BY <1>2 DEF TypeOK, HandleTimeout, At, Timeouts, Messages
  <2> QED BY <1>2, <2>1, HandleInboundRequest DEF HandleTimeout
<1>3. CASE UNCHANGED <<lock, timedRequests, sending, outcomes>> BY <1>3 DEF RequestInv
<1>4. ASSUME NEW c \in Chains, AddChain(c) \/ RemoveChain(c) \/ BenchTimer(c)
      PROVE  UNCHANGED <<lock, timedRequests, sending, outcomes>>
  BY <1>4 DEF AddChain, RemoveChain, BenchTimer, Update, Remove
<1>5. ASSUME NEW n \in Nodes,
             \/ Handshake(n) \/ Disconnected(n)
             \/ \E s \in Subnets : Connected(n, s) \/ ValidatorsChange(s, n)
      PROVE  UNCHANGED <<lock, timedRequests, sending, outcomes>>
  BY <1>5 DEF Handshake, Disconnected, Connected, ValidatorsChange
<1>6. ASSUME (\E r \in timeoutMap : Expire(r)) \/ RegisterFailure \/ Bench
      PROVE  UNCHANGED <<lock, timedRequests, sending, outcomes>>
  BY <1>6 DEF Expire, RegisterFailure, Bench
<1>7. CASE UNCHANGED vars BY <1>3, <1>7 DEF vars
<1>8. \A r \in Requests : [req |-> r, op |-> "failed"] \in Messages
                          /\ [req |-> r, op |-> "response"] \in Messages
  BY DEF Messages
<1> QED
  BY <1>1, <1>2, <1>3, <1>4, <1>5, <1>6, <1>7, <1>8, SenderRequest, PushRequest
  DEF Next, Sender, Dispatcher

-----------------------------------------------------------------------------
(* Benchlists *)

LEMMA InitBench == Init => BenchInv
BY DEF Init, BenchInv, BenchedAgrees, At

LEMMA RegisterFailureBench == TypeOK /\ BenchInv /\ RegisterFailure => BenchInv'
<1> SUFFICES ASSUME TypeOK, BenchInv, RegisterFailure PROVE BenchInv' OBVIOUS
<1> DEFINE n == timing.req.node  c == timing.req.chain
<1>1. n \in Nodes /\ c \in Chains /\ timing \in Timeouts /\ benchLock[c] = None
  BY DEF TypeOK, RegisterFailure, At, Timeouts
<1>2. benched' = benched BY DEF RegisterFailure, routerVars
<1>3. CASE /\ timing' = [timing EXCEPT !.at = "handle"]
           /\ UNCHANGED <<benchLock, benchlistSet>>
  <2>1. ~At("bench")' BY <1>1, <1>3 DEF At, Timeouts
  <2> QED BY <1>2, <1>3, <2>1 DEF BenchInv, BenchedAgrees
<1>4. CASE /\ timing' = [timing EXCEPT !.at = "bench"]
           /\ benchlistSet' = [benchlistSet EXCEPT ![c] = @ \cup {n}]
           /\ benchLock' = [benchLock EXCEPT ![c] = n]
  <2>1. timing'.req = timing.req BY <1>1, <1>4 DEF Timeouts
  <2>2. /\ benchLock'[c] = n /\ n \in benchlistSet'[c]
        /\ \A m \in Nodes \ {n} : m \in benchlistSet'[c] <=> m \in benchlistSet[c]
        /\ \A d \in Chains \ {c} : /\ benchLock'[d] = benchLock[d]
                                   /\ benchlistSet'[d] = benchlistSet[d]
    BY <1>1, <1>4 DEF TypeOK
  <2>3. BenchedAgrees'
    BY <1>1, <1>2, <2>2, SMT DEF BenchInv, BenchedAgrees
  <2> QED BY <1>2, <2>1, <2>2, <2>3 DEF BenchInv
<1> QED BY <1>3, <1>4 DEF RegisterFailure, benchVars

LEMMA BenchBench == TypeOK /\ BenchInv /\ Bench => BenchInv'
<1> SUFFICES ASSUME TypeOK, BenchInv, Bench PROVE BenchInv' OBVIOUS
<1> DEFINE n == timing.req.node  c == timing.req.chain
<1>1. n \in Nodes /\ c \in Chains /\ timing \in Timeouts /\ At("bench")
  BY DEF TypeOK, Bench, At, Timeouts
<1>2. benchLock[c] = n /\ n \in benchlistSet[c] BY <1>1 DEF BenchInv
<1>3. /\ benched' = [benched EXCEPT ![n] = @ \cup {c}]
      /\ benchLock' = [benchLock EXCEPT ![c] = None]
      /\ timing' = [timing EXCEPT !.at = "handle"]
      /\ benchlistSet' = benchlistSet
  BY DEF Bench, Benched
<1>4. ~At("bench")' BY <1>1, <1>3 DEF At, Timeouts
<1>5. /\ benchLock'[c] = None /\ c \in benched'[n]
      /\ \A d \in Chains \ {c} : benchLock'[d] = benchLock[d]
      /\ \A d \in Chains, m \in Nodes : d # c \/ m # n => (d \in benched'[m] <=> d \in benched[m])
  BY <1>1, <1>3 DEF TypeOK
<1> HIDE DEF n, c
<1>6. BenchedAgrees'
  <2> SUFFICES ASSUME NEW d \in Chains, NEW m \in Nodes, benchLock'[d] # m
               PROVE  d \in benched'[m] <=> m \in benchlistSet[d]
    BY <1>3 DEF BenchedAgrees
  <2>1. CASE d = c /\ m = n BY <1>2, <1>5, <2>1
  <2>2. CASE d # c \/ m # n
    <3>1. benchLock[d] # m BY <1>2, <1>5, <2>2
    <3> QED BY <1>5, <2>2, <3>1 DEF BenchInv, BenchedAgrees
  <2> QED BY <2>1, <2>2
<1>7. ASSUME NEW d \in Chains, benchLock'[d] # None, benchLock'[d] \notin benchlistSet'[d]
      PROVE  d \in benched'[benchLock'[d]]
  <2>1. d # c /\ benchLock'[d] = benchLock[d] BY <1>5, <1>7
  <2>2. benchLock[d] \in Nodes /\ d \in benched[benchLock[d]]
    BY <1>3, <1>7, <2>1 DEF BenchInv, TypeOK
  <2> QED BY <1>5, <2>1, <2>2
<1> QED BY <1>4, <1>6, <1>7 DEF BenchInv

LEMMA UpdateBench ==
    ASSUME TypeOK, BenchInv, NEW c \in Chains, NEW n \in Nodes, Update(c, n)
    PROVE  BenchInv'
<1>1. /\ benched' = benched /\ timing' = timing
      /\ benchLock[c] = None /\ n \in benchlistSet[c]
      /\ benchLock'[c] = n /\ benchlistSet'[c] = benchlistSet[c] \ {n}
      /\ \A d \in Chains \ {c} : /\ benchLock'[d] = benchLock[d]
                                 /\ benchlistSet'[d] = benchlistSet[d]
  BY DEF TypeOK, Update, routerVars
<1>2. c \in benched[n] BY <1>1 DEF BenchInv, BenchedAgrees
<1>3. BenchedAgrees' BY <1>1, SMT DEF BenchInv, BenchedAgrees
<1>4. At("bench")' => At("bench") /\ timing.req.chain # c
                      /\ timing.req.chain \in Chains /\ timing.req.node \in Nodes
  BY <1>1 DEF TypeOK, BenchInv, At, Timeouts
<1>5. At("bench")' => /\ benchLock'[timing'.req.chain] = timing'.req.node
                      /\ timing'.req.node \in benchlistSet'[timing'.req.chain]
  BY <1>1, <1>4 DEF BenchInv
<1> QED BY <1>1, <1>2, <1>3, <1>5 DEF BenchInv

LEMMA RemoveBench ==
    ASSUME TypeOK, BenchInv, NEW c \in Chains, Remove(c)
    PROVE  BenchInv'
<1> DEFINE n == benchLock[c]
<1>1. n \in Nodes /\ n \notin benchlistSet[c] /\ timing' = timing
  BY DEF TypeOK, Remove
<1>2. /\ benched'[n] = benched[n] \ {c}
      /\ \A m \in Nodes \ {n} : benched'[m] = benched[m]
  BY <1>1 DEF TypeOK, Remove, Unbenched, StillBenched
<1>3. /\ \A d \in Chains \ {c} : /\ benchLock'[d] = benchLock[d]
                                 /\ benchlistSet'[d] = benchlistSet[d]
      /\ \/ benchLock'[c] = None /\ benchlistSet'[c] = benchlistSet[c]
         \/ \E m \in benchlistSet[c] : /\ benchLock'[c] = m
                                       /\ benchlistSet'[c] = benchlistSet[c] \ {m}
  BY DEF TypeOK, Remove
<1>4. benchlistSet[c] \subseteq Nodes BY DEF TypeOK
<1>5. At("bench")' => /\ benchLock'[timing'.req.chain] = timing'.req.node
                      /\ timing'.req.node \in benchlistSet'[timing'.req.chain]
  <2> SUFFICES ASSUME At("bench") 
               PROVE  /\ benchLock'[timing.req.chain] = timing.req.node
                      /\ timing.req.node \in benchlistSet'[timing.req.chain]
    BY <1>1 DEF At
  <2>1. timing.req.chain \in Chains BY DEF TypeOK, At, Timeouts
  <2>2. timing.req.chain # c BY <1>1 DEF BenchInv
  <2> QED BY <1>3, <2>1, <2>2 DEF BenchInv
<1>6. BenchedAgrees'
  <2> SUFFICES ASSUME NEW d \in Chains, NEW m \in Nodes, benchLock'[d] # m
               PROVE  d \in benched'[m] <=> m \in benchlistSet'[d]
    BY DEF BenchedAgrees
  <2>1. CASE d # c
    <3>1. d \in benched'[m] <=> d \in benched[m] BY <1>1, <1>2, <2>1
    <3> QED BY <1>3, <2>1, <3>1 DEF BenchInv, BenchedAgrees
  <2>2. CASE d = c /\ m = n BY <1>1, <1>2, <1>3, <2>2
  <2>3. CASE d = c /\ m # n
    <3>1. c \in benched'[m] <=> m \in benchlistSet[c]
      BY <1>2, <2>3 DEF BenchInv, BenchedAgrees
    <3> QED BY <1>3, <2>3, <3>1
  <2> QED BY <2>1, <2>2, <2>3
<1>7. ASSUME NEW d \in Chains, benchLock'[d] # None, benchLock'[d] \notin benchlistSet'[d]
      PROVE  d \in benched'[benchLock'[d]]
  <2>1. CASE d # c
    <3>1. benchLock[d] \in Nodes /\ d \in benched[benchLock[d]]
      BY <1>3, <1>7, <2>1, SMT DEF BenchInv, TypeOK
    <3> QED BY <1>1, <1>2, <1>3, <2>1, <3>1
  <2>2. CASE d = c
    <3>1. benchLock'[c] \in benchlistSet[c] BY <1>3, <1>7, <2>2
    <3>2. benchLock'[c] # n /\ benchLock'[c] \in Nodes BY <1>1, <1>4, <3>1
    <3>3. c \in benched[benchLock'[c]] BY <3>1, <3>2 DEF BenchInv, BenchedAgrees
    <3> QED BY <1>2, <2>2, <3>2, <3>3
  <2> QED BY <2>1, <2>2
<1> QED BY <1>5, <1>6, <1>7 DEF BenchInv

LEMMA NextBench == TypeOK /\ BenchInv /\ [Next]_vars => BenchInv'
<1> SUFFICES ASSUME TypeOK, BenchInv, [Next]_vars PROVE BenchInv' OBVIOUS
<1>1. CASE /\ UNCHANGED <<benched, benchLock, benchlistSet>>
           /\ timing' = timing \/ ~At("bench")'
  BY <1>1 DEF BenchInv, BenchedAgrees, At
<1> USE DEF routerVars, benchVars, othersVars
<1>2. ASSUME NEW m, HandleInbound(m) PROVE BenchInv'
  BY <1>1, <1>2 DEF HandleInbound, Return, At
<1>3. CASE Push BY <1>1, <1>3 DEF Push, Return, At
<1>4. ASSUME NEW r, Expire(r) PROVE BenchInv' BY <1>1, <1>4 DEF Expire, At
<1>5. ASSUME NEW r \in Requests,
             \/ RegisterRequest(r) \/ RegisterTimeout(r) \/ SendGetAcceptedFrontier(r)
             \/ SendPullQuery(r) \/ Answer(r)
      PROVE  BenchInv'
  BY <1>1, <1>5 DEF RegisterRequest, RegisterTimeout, SendGetAcceptedFrontier, SendPullQuery,
              Answer
<1>6. ASSUME NEW c \in Chains, AddChain(c) \/ RemoveChain(c) PROVE BenchInv'
  BY <1>1, <1>6 DEF AddChain, RemoveChain
<1>7. ASSUME NEW n \in Nodes,
             \/ Handshake(n) \/ Disconnected(n)
             \/ \E s \in Subnets : Connected(n, s) \/ ValidatorsChange(s, n)
      PROVE  BenchInv'
  BY <1>1, <1>7 DEF Handshake, Disconnected, Connected, ValidatorsChange
<1>8. CASE UNCHANGED vars BY <1>1, <1>8 DEF vars
<1> QED
  BY <1>2, <1>3, <1>4, <1>5, <1>6, <1>7, <1>8, RegisterFailureBench, BenchBench,
     UpdateBench, RemoveBench
  DEF Next, Sender, Dispatcher, BenchTimer, HandleMessage, HandleTimeout

-----------------------------------------------------------------------------
(* What the chains hear *)

LEMMA NextPeer == TypeOK /\ PeerInv /\ [Next]_vars => PeerInv'
<1> SUFFICES ASSUME TypeOK, PeerInv, [Next]_vars PROVE PeerInv' OBVIOUS
<1>1. CASE UNCHANGED <<announce, peers>> BY <1>1 DEF PeerInv
<1>2. ASSUME NEW n \in Nodes, Handshake(n) PROVE PeerInv'
  <2>1. /\ peers' = peers /\ peers[n] = {}
        /\ announce'[n] = network.tracked[n] \cup {PrimaryNetworkID}
        /\ \A m \in Nodes \ {n} : announce'[m] = announce[m]
    BY <1>2 DEF Handshake, routerVars, TypeOK
  <2> QED BY <2>1 DEF PeerInv
<1>3. ASSUME NEW n \in Nodes, NEW s \in Subnets, Connected(n, s) PROVE PeerInv'
  <2>1. /\ s \in announce[n]
        /\ PrimaryNetworkID \in announce[n] => s = PrimaryNetworkID
        /\ announce'[n] = announce[n] \ {s} /\ peers'[n] = peers[n] \cup {s}
        /\ \A m \in Nodes \ {n} : announce'[m] = announce[m] /\ peers'[m] = peers[m]
    BY <1>3 DEF Connected, TypeOK
  <2>2. /\ announce'[n] \cap peers'[n] = {}
        /\ PrimaryNetworkID \in peers'[n] /\ PrimaryNetworkID \notin announce'[n]
    BY <2>1 DEF PeerInv
  <2> QED BY <2>1, <2>2 DEF PeerInv
<1>4. ASSUME NEW n \in Nodes, Disconnected(n) PROVE PeerInv'
  <2>1. /\ announce' = announce /\ announce[n] = {} /\ peers'[n] = {}
        /\ \A m \in Nodes \ {n} : peers'[m] = peers[m]
    BY <1>4 DEF Disconnected, TypeOK
  <2> QED BY <2>1 DEF PeerInv
<1> USE DEF routerVars, othersVars
<1>5. ASSUME NEW c \in Chains, AddChain(c) \/ RemoveChain(c) \/ BenchTimer(c)
      PROVE  UNCHANGED <<announce, peers>>
  BY <1>5 DEF AddChain, RemoveChain, BenchTimer, Update, Remove, Unbenched
<1>6. ASSUME NEW r \in Requests,
             \/ RegisterRequest(r) \/ RegisterTimeout(r) \/ SendGetAcceptedFrontier(r)
             \/ SendPullQuery(r) \/ Answer(r)
      PROVE  UNCHANGED <<announce, peers>>
  BY <1>6 DEF RegisterRequest, RegisterTimeout, SendGetAcceptedFrontier, SendPullQuery, Answer
<1>7. ASSUME NEW m, HandleInbound(m) PROVE UNCHANGED <<announce, peers>>
  BY <1>7 DEF HandleInbound
<1>8. ASSUME \/ \E r \in timeoutMap : Expire(r)
             \/ \E n \in Nodes, s \in Subnets : ValidatorsChange(s, n)
             \/ RegisterFailure \/ Bench \/ Push \/ UNCHANGED vars
      PROVE  UNCHANGED <<announce, peers>>
  BY <1>8 DEF Expire, ValidatorsChange, RegisterFailure, Bench, Benched, Push, vars
<1> QED
  BY <1>1, <1>2, <1>3, <1>4, <1>5, <1>6, <1>7, <1>8
  DEF Next, Sender, Dispatcher, HandleMessage, HandleTimeout

LEMMA PlusValue ==
    ASSUME TypeOK, NEW cs, NEW n \in Nodes, NEW c \in Chains, NEW m \in Nodes
    PROVE  Plus(cs, n)[c][m] = IF m = n /\ c \in cs THEN connected[c][m] + 1 ELSE connected[c][m]
BY DEF TypeOK, Plus

LEMMA PushDisconnectedValue ==
    ASSUME TypeOK, NEW cs, NEW n \in Nodes, PushDisconnected(cs, n), OmegaChainID \in cs,
           NEW m \in Nodes
    PROVE  /\ \A c \in Chains : connected'[c][m] = IF m = n /\ c \in cs THEN connected[c][m] - 1
                                                                       ELSE connected[c][m]
           /\ subnetsConnected'[m] = IF m = n THEN Zero ELSE subnetsConnected[m]
BY DEF TypeOK, PushDisconnected

\* What ConnectedSubnet does, point by point.
Reported(n, subnets) ==
    \A m \in Nodes :
        /\ connectedSubnets'[m] = IF m = n
              THEN connectedSubnets[n] \cup (subnets \ {PrimaryNetworkID})
              ELSE connectedSubnets[m]
        /\ \A t \in Subnets : subnetsConnected'[m][t] =
              IF m = n /\ t \in subnets \ (connectedSubnets[n] \cup {PrimaryNetworkID})
              THEN subnetsConnected[m][t] + 1 ELSE subnetsConnected[m][t]
        /\ m # n => subnetsConnected'[m] = subnetsConnected[m]

LEMMA ConnectedSubnetValue ==
    ASSUME TypeOK, NEW n \in Nodes, NEW subnets,
           ConnectedSubnet(n, subnets, connectedSubnets[n])
    PROVE  Reported(n, subnets)
<1> DEFINE new == subnets \ (connectedSubnets[n] \cup {PrimaryNetworkID})
<1>1. connectedSubnets' = [connectedSubnets EXCEPT ![n] = connectedSubnets[n] \cup new]
  BY DEF ConnectedSubnet
<1>2. subnetsConnected' = [subnetsConnected EXCEPT ![n] =
          [s \in Subnets |-> IF s \in new THEN @[s] + 1 ELSE @[s]]]
  BY DEF ConnectedSubnet
<1>3. connectedSubnets[n] \cup new = connectedSubnets[n] \cup (subnets \ {PrimaryNetworkID})
  OBVIOUS
<1>4. connectedSubnets \in [Nodes -> SUBSET Subnets]
      /\ subnetsConnected \in [Nodes -> [Subnets -> Int]]
  BY DEF TypeOK
<1> QED BY <1>1, <1>2, <1>3, <1>4 DEF Reported

\* A step of the router that is about node n only.
LEMMA OtherNodes ==
    ASSUME HeardInv, OmegaChainID \in chainHandlers, NEW n \in Nodes,
           UNCHANGED <<network, chainHandlers, stopped>>,
           \A m \in Nodes \ {n} :
              /\ peers'[m] = peers[m] /\ benched'[m] = benched[m]
              /\ connectedSubnets'[m] = connectedSubnets[m]
              /\ subnetsConnected'[m] = subnetsConnected[m]
              /\ \A c \in Chains : connected'[c][m] = connected[c][m],
           \A c \in Chains \ chainHandlers : connected'[c][n] = connected[c][n],
           TypeOK, NodeExact(n)'
    PROVE  HeardInv'
<1>0. chainHandlers \subseteq Chains BY DEF TypeOK
<1>1. ASSUME NEW m \in Nodes \ {n} PROVE NodeExact(m)'
  <2>1. NodeExact(m) BY DEF HeardInv
  <2>2. \A c \in chainHandlers : Hears(c, m)' <=> Hears(c, m) BY DEF Hears
  <2>3. connectedSubnets'[m] = IF benched'[m] = {} THEN peers'[m] \ {PrimaryNetworkID} ELSE {}
    BY <2>1 DEF NodeExact
  <2>4. \A c \in chainHandlers : connected'[c][m] = IF Hears(c, m)' THEN 1 ELSE 0
    BY <1>0, <2>1, <2>2, SMT DEF NodeExact
  <2>5. \A s \in Subnets : subnetsConnected'[m][s] = IF s \in connectedSubnets'[m] THEN 1 ELSE 0
    BY <2>1, SMT DEF NodeExact
  <2> QED BY <2>3, <2>4, <2>5 DEF NodeExact
<1>2. Silent' BY SMT DEF HeardInv, Silent
<1> QED BY <1>1, <1>2 DEF HeardInv

LEMMA ConnectedHeard ==
    ASSUME TypeOK, PeerInv, HeardInv, NEW n \in Nodes, NEW s \in Subnets, Connected(n, s)
    PROVE  HeardInv'
<1> DEFINE cs == IF ~network.sybilProtectionEnabled
                 THEN IF s = PrimaryNetworkID THEN chainHandlers ELSE {}
                 ELSE {c \in chainHandlers : SubnetID[c] = s}
<1>1. /\ OmegaChainID \in chainHandlers
      /\ UNCHANGED <<network, chainHandlers, stopped, benched>>
      /\ peers' = [peers EXCEPT ![n] = @ \cup {s}]
  BY DEF Connected, Ready
<1>2. /\ peers'[n] = peers[n] \cup {s} /\ \A m \in Nodes \ {n} : peers'[m] = peers[m]
      /\ chainHandlers \subseteq Chains
  BY <1>1 DEF TypeOK
<1>3. s \notin peers[n] /\ (IF s = PrimaryNetworkID THEN peers[n] = {} ELSE peers[n] # {})
  <2>1. s \in announce[n] /\ (PrimaryNetworkID \in announce[n] => s = PrimaryNetworkID)
    BY DEF Connected
  <2> QED BY <2>1 DEF PeerInv
<1>4. NodeExact(n) BY <1>1 DEF HeardInv
<1>5. CASE benched[n] # {}
  <2>1. UNCHANGED <<connectedSubnets, connected, subnetsConnected>>
    BY <1>5 DEF Connected, chainVars
  <2>2. NodeExact(n)' BY <1>1, <1>4, <1>5, <2>1 DEF NodeExact, Hears
  <2> QED BY <1>1, <1>2, <2>1, <2>2, OtherNodes
<1>6. CASE benched[n] = {}
  <2>1. connected' = Plus(cs, n) /\ ConnectedSubnet(n, {s}, connectedSubnets[n])
    BY <1>6, Zenon DEF Connected
  <2>2. cs \subseteq chainHandlers OBVIOUS
  <2>3. \A c \in chainHandlers : c \in cs <=> Hears(c, n)' /\ ~Hears(c, n)
    BY <1>1, <1>2, <1>3, <1>6 DEF Hears
  <2>4. \A c \in chainHandlers : Hears(c, n) => Hears(c, n)'
    BY <1>1, <1>2, <1>6 DEF Hears
  <2> HIDE DEF cs
  <2>5. \A c \in Chains, m \in Nodes :
           connected'[c][m] = IF m = n /\ c \in cs THEN connected[c][m] + 1 ELSE connected[c][m]
    BY <2>1, PlusValue, SMT
  <2>6. Reported(n, {s}) BY <2>1, ConnectedSubnetValue
  <2>7. NodeExact(n)'
    <3>1. connectedSubnets'[n] = peers'[n] \ {PrimaryNetworkID}
      BY <1>2, <1>4, <1>6, <2>6 DEF NodeExact, Reported
    <3>2. ASSUME NEW c \in chainHandlers PROVE connected'[c][n] = IF Hears(c, n)' THEN 1 ELSE 0
      <4>1. connected[c][n] = IF Hears(c, n) THEN 1 ELSE 0 BY <1>4 DEF NodeExact
      <4> QED BY <1>2, <2>3, <2>4, <2>5, <4>1, SMT
    <3>3. ASSUME NEW t \in Subnets
          PROVE  subnetsConnected'[n][t] = IF t \in connectedSubnets'[n] THEN 1 ELSE 0
      <4>1. subnetsConnected[n][t] = IF t \in connectedSubnets[n] THEN 1 ELSE 0
        BY <1>4 DEF NodeExact
      <4> QED BY <2>6, <4>1, SMT DEF Reported
    <3> QED BY <1>1, <1>6, <3>1, <3>2, <3>3 DEF NodeExact
  <2>8. \A m \in Nodes \ {n} : /\ subnetsConnected'[m] = subnetsConnected[m]
                               /\ connectedSubnets'[m] = connectedSubnets[m]
    BY <2>6 DEF Reported
  <2> QED BY <1>1, <1>2, <2>2, <2>5, <2>7, <2>8, OtherNodes, SMT
<1> QED BY <1>5, <1>6

\* Disconnected is pushed to the chains that were told of the node, the O-chain among
\* them.
LEMMA PushDisconnectedHeard ==
    ASSUME TypeOK, PeerInv, HeardInv, OmegaChainID \in chainHandlers,
           NEW n \in Nodes, peers[n] # {}, benched[n] = {},
           PushDisconnected(Hearing(peers[n]), n),
           connectedSubnets' = [connectedSubnets EXCEPT ![n] = {}],
           UNCHANGED <<network, chainHandlers, stopped>>,
           \A m \in Nodes \ {n} : peers'[m] = peers[m] /\ benched'[m] = benched[m],
           peers'[n] = {} \/ benched'[n] # {}
    PROVE  HeardInv'
<1> DEFINE cs == Hearing(peers[n])
<1>1. cs \subseteq chainHandlers /\ chainHandlers \subseteq Chains BY DEF Hearing, TypeOK
<1>2. \A c \in chainHandlers : c \in cs <=> Hears(c, n) BY DEF Hearing, Hears
<1>3. OmegaChainID \in cs
  <2>1. PrimaryNetworkID \in peers[n] BY DEF PeerInv
  <2> QED BY <2>1 DEF Hearing
<1>4. PushDisconnected(cs, n) OBVIOUS
<1> HIDE DEF cs
<1>5. \A m \in Nodes :
         /\ \A c \in Chains : connected'[c][m] = IF m = n /\ c \in cs THEN connected[c][m] - 1
                                                                     ELSE connected[c][m]
         /\ subnetsConnected'[m] = IF m = n THEN Zero ELSE subnetsConnected[m]
  BY <1>3, <1>4, PushDisconnectedValue
<1>6. /\ connectedSubnets'[n] = {}
      /\ \A m \in Nodes \ {n} : connectedSubnets'[m] = connectedSubnets[m]
  BY DEF TypeOK
<1>7. NodeExact(n) BY DEF HeardInv
<1>8. NodeExact(n)'
  <2>1. \A c \in chainHandlers : ~Hears(c, n)' BY DEF Hears
  <2>2. ASSUME NEW c \in chainHandlers PROVE connected'[c][n] = 0
    <3>1. connected[c][n] = IF Hears(c, n) THEN 1 ELSE 0 BY <1>7 DEF NodeExact
    <3> QED BY <1>1, <1>2, <1>5, <3>1, SMT
  <2>3. \A s \in Subnets : subnetsConnected'[n][s] = 0 BY <1>5, SMT DEF Zero
  <2> QED BY <1>6, <2>1, <2>2, <2>3 DEF NodeExact
<1> QED BY <1>1, <1>5, <1>6, <1>8, OtherNodes

LEMMA DisconnectedHeard ==
    ASSUME TypeOK, PeerInv, HeardInv, NEW n \in Nodes, Disconnected(n)
    PROVE  HeardInv'
<1>1. /\ OmegaChainID \in chainHandlers /\ peers[n] # {}
      /\ UNCHANGED <<network, chainHandlers, stopped, benched>>
      /\ peers'[n] = {} /\ \A m \in Nodes \ {n} : peers'[m] = peers[m]
      /\ connectedSubnets' = [connectedSubnets EXCEPT ![n] = {}]
  BY DEF Disconnected, Ready, TypeOK
<1>2. CASE benched[n] = {}
  <2>1. PushDisconnected(Hearing(peers[n]), n) BY <1>2 DEF Disconnected
  <2> QED BY <1>1, <1>2, <2>1, PushDisconnectedHeard
<1>3. CASE benched[n] # {}
  <2>1. NodeExact(n) BY <1>1 DEF HeardInv
  <2>2. connected' = connected /\ subnetsConnected' = subnetsConnected
    BY <1>3 DEF Disconnected, chainVars
  <2>3. /\ connectedSubnets'[n] = {} /\ connectedSubnets[n] = {}
        /\ \A m \in Nodes \ {n} : connectedSubnets'[m] = connectedSubnets[m]
    BY <1>1, <1>3, <2>1 DEF TypeOK, NodeExact
  <2>4. NodeExact(n)' BY <1>1, <1>3, <2>1, <2>2, <2>3 DEF NodeExact, Hears
  <2> QED BY <1>1, <2>2, <2>3, <2>4, OtherNodes
<1> QED BY <1>2, <1>3

LEMMA BenchedHeard ==
    ASSUME TypeOK, PeerInv, HeardInv, NEW c \in Chains, NEW n \in Nodes, Benched(c, n),
           network' = network
    PROVE  HeardInv'
<1>1. /\ OmegaChainID \in chainHandlers
      /\ UNCHANGED <<network, chainHandlers, stopped, peers>>
      /\ benched'[n] # {} /\ \A m \in Nodes \ {n} : benched'[m] = benched[m]
  BY DEF Benched, Ready, TypeOK
<1>2. CASE TellBenched(n)
  <2>1. /\ PushDisconnected(Hearing(peers[n]), n)
        /\ connectedSubnets' = [connectedSubnets EXCEPT ![n] = {}]
    BY <1>2 DEF Benched
  <2> QED BY <1>1, <1>2, <2>1, PushDisconnectedHeard DEF TellBenched
<1>3. CASE ~TellBenched(n)
  <2>1. NodeExact(n) BY <1>1 DEF HeardInv
  <2>2. UNCHANGED <<connectedSubnets, connected, subnetsConnected>>
    BY <1>3 DEF Benched, chainVars
  <2>3. NodeExact(n)' BY <1>1, <1>3, <2>1, <2>2 DEF NodeExact, Hears, TellBenched
  <2> QED BY <1>1, <2>2, <2>3, OtherNodes
<1> QED BY <1>2, <1>3

LEMMA UnbenchedHeard ==
    ASSUME TypeOK, PeerInv, HeardInv, NEW c \in Chains, NEW n \in Nodes, Unbenched(c, n),
           c \in benched[n], network' = network
    PROVE  HeardInv'
<1>1. /\ OmegaChainID \in chainHandlers
      /\ UNCHANGED <<network, chainHandlers, stopped, peers>>
      /\ benched'[n] = StillBenched(n, c) /\ \A m \in Nodes \ {n} : benched'[m] = benched[m]
      /\ chainHandlers \subseteq Chains
  BY DEF Unbenched, Ready, TypeOK
<1>2. NodeExact(n) BY <1>1 DEF HeardInv
<1>3. /\ connectedSubnets[n] = {} /\ \A d \in chainHandlers : connected[d][n] = 0
      /\ \A s \in Subnets : subnetsConnected[n][s] = 0
  BY <1>2 DEF NodeExact, Hears
<1>4. CASE StillBenched(n, c) # {} \/ peers[n] = {}
  <2>1. UNCHANGED <<connectedSubnets, connected, subnetsConnected>>
    BY <1>4 DEF Unbenched, chainVars
  <2>2. NodeExact(n)' BY <1>1, <1>3, <1>4, <2>1 DEF NodeExact, Hears
  <2> QED BY <1>1, <2>1, <2>2, OtherNodes
<1>5. CASE StillBenched(n, c) = {} /\ peers[n] # {}
  <2> DEFINE cs == Hearing(peers[n])
  <2>1. connected' = Plus(cs, n) /\ ConnectedSubnet(n, peers[n], connectedSubnets[n])
    BY <1>5 DEF Unbenched
  <2>2. /\ cs \subseteq chainHandlers /\ peers[n] \in SUBSET Subnets
        /\ \A d \in chainHandlers : d \in cs <=> Hears(d, n)'
    <3>1. cs \subseteq chainHandlers /\ peers[n] \in SUBSET Subnets BY DEF Hearing, TypeOK
    <3>2. benched'[n] = {} /\ peers'[n] # {} BY <1>1, <1>5
    <3> QED BY <1>1, <3>1, <3>2 DEF Hearing, Hears
  <2> HIDE DEF cs
  <2>3. \A d \in Chains, m \in Nodes :
           connected'[d][m] = IF m = n /\ d \in cs THEN connected[d][m] + 1 ELSE connected[d][m]
    BY <2>1, PlusValue, SMT
  <2>4. Reported(n, peers[n]) BY <2>1, ConnectedSubnetValue
  <2>5. NodeExact(n)'
    <3>1. connectedSubnets'[n] = peers'[n] \ {PrimaryNetworkID} BY <1>1, <1>3, <2>4 DEF Reported
    <3>2. \A d \in chainHandlers : connected'[d][n] = IF Hears(d, n)' THEN 1 ELSE 0
      BY <1>1, <1>3, <2>2, <2>3, SMT
    <3>3. \A t \in Subnets : subnetsConnected'[n][t] = IF t \in connectedSubnets'[n] THEN 1 ELSE 0
      BY <1>1, <1>3, <2>4, <3>1, SMT DEF Reported
    <3> QED BY <1>1, <1>5, <3>1, <3>2, <3>3 DEF NodeExact
  <2>6. \A m \in Nodes \ {n} : /\ subnetsConnected'[m] = subnetsConnected[m]
                               /\ connectedSubnets'[m] = connectedSubnets[m]
    BY <2>4 DEF Reported
  <2> QED BY <1>1, <2>2, <2>3, <2>5, <2>6, OtherNodes
<1> QED BY <1>4, <1>5

LEMMA AddChainHeard ==
    ASSUME TypeOK, PeerInv, HeardInv, NEW c \in Chains, AddChain(c)
    PROVE  HeardInv'
<1>1. /\ c \notin chainHandlers \cup stopped /\ chainHandlers' = chainHandlers \cup {c}
      /\ UNCHANGED <<network, stopped, peers, benched>>
      /\ chainHandlers \subseteq Chains
      /\ OmegaChainID \in chainHandlers \/ (c = OmegaChainID /\ chainHandlers = {})
      /\ OmegaChainID \in chainHandlers'
  BY DEF AddChain, TypeOK, HeardInv
<1>2. /\ \A n \in Nodes : connected'[c][n] = IF Hears(c, n) THEN connected[c][n] + 1
                                                             ELSE connected[c][n]
      /\ \A d \in Chains \ {c} : connected'[d] = connected[d]
  BY DEF AddChain, TypeOK, Hears
<1>3. \A n \in Nodes : connected'[c][n] = IF Hears(c, n) THEN 1 ELSE 0
  BY <1>1, <1>2, SMT DEF HeardInv, Silent
<1>4. Silent' BY <1>1, <1>2, SMT DEF HeardInv, Silent
<1>5. \A d \in Chains, n \in Nodes : Hears(d, n)' <=> Hears(d, n) BY <1>1 DEF Hears
<1>6. CASE OmegaChainID \in chainHandlers
  <2>1. UNCHANGED <<connectedSubnets, subnetsConnected>> BY <1>1, <1>6 DEF AddChain
  <2>2. ASSUME NEW n \in Nodes PROVE NodeExact(n)'
    <3>1. NodeExact(n) BY <1>6 DEF HeardInv
    <3>2. \A d \in chainHandlers' : connected'[d][n] = IF Hears(d, n)' THEN 1 ELSE 0
      BY <1>1, <1>2, <1>3, <1>5, <3>1, SMT DEF NodeExact
    <3> QED BY <1>1, <2>1, <3>1, <3>2 DEF NodeExact
  <2> QED BY <1>1, <1>4, <2>2 DEF HeardInv
<1>7. CASE c = OmegaChainID /\ chainHandlers = {}
  <2>0. /\ \A n \in Nodes : connectedSubnets[n] = {} /\ (n # Me => peers[n] = {})
        /\ \A n \in Nodes, s \in Subnets : subnetsConnected[n][s] = 0
    BY <1>7 DEF HeardInv, Zero
  <2>1. ASSUME NEW n \in Nodes
        PROVE  /\ connectedSubnets'[n] = IF benched[n] = {} THEN peers[n] \ {PrimaryNetworkID}
                                                            ELSE {}
               /\ \A s \in Subnets :
                     subnetsConnected'[n][s] = IF s \in connectedSubnets'[n] THEN 1 ELSE 0
    <3>1. CASE benched[Me] # {}
      <4>1. UNCHANGED <<connectedSubnets, subnetsConnected>> BY <3>1 DEF AddChain
      <4> QED BY <2>0, <3>1, <4>1
    <3>2. CASE benched[Me] = {}
      <4>1. ConnectedSubnet(Me, peers[Me], connectedSubnets[Me]) BY <1>7, <3>2 DEF AddChain
      <4>2. Reported(Me, peers[Me]) BY <4>1, ConnectedSubnetValue
      <4>3. connectedSubnets'[n] = IF n = Me THEN peers[Me] \ {PrimaryNetworkID} ELSE {}
        <5>1. connectedSubnets'[n] = IF n = Me
                  THEN connectedSubnets[Me] \cup (peers[Me] \ {PrimaryNetworkID})
                  ELSE connectedSubnets[n]
          BY <4>2 DEF Reported
        <5>2. connectedSubnets[n] = {} /\ connectedSubnets[Me] = {} BY <2>0
        <5> QED BY <5>1, <5>2, SMT
      <4>4. \A s \in Subnets : subnetsConnected'[n][s] = IF s \in connectedSubnets'[n] THEN 1 ELSE 0
        BY <2>0, <4>2, <4>3, SMT DEF Reported
      <4>5. n # Me => peers[n] \ {PrimaryNetworkID} = {} BY <2>0
      <4>6. connectedSubnets'[n] = IF benched[n] = {} THEN peers[n] \ {PrimaryNetworkID} ELSE {}
        BY <3>2, <4>3, <4>5
      <4> QED BY <4>4, <4>6
    <3> QED BY <3>1, <3>2
  <2>2. ASSUME NEW n \in Nodes PROVE NodeExact(n)'
    <3>1. \A d \in chainHandlers' : connected'[d][n] = IF Hears(d, n)' THEN 1 ELSE 0
      BY <1>1, <1>3, <1>5, <1>7
    <3> QED BY <1>1, <2>1, <3>1 DEF NodeExact
  <2> QED BY <1>1, <1>4, <2>2 DEF HeardInv
<1> QED BY <1>1, <1>6, <1>7

LEMMA RemoveChainHeard ==
    ASSUME TypeOK, HeardInv, NEW c \in Chains, RemoveChain(c)
    PROVE  HeardInv'
<1>1. /\ OmegaChainID \in chainHandlers /\ OmegaChainID \in chainHandlers'
      /\ chainHandlers' = chainHandlers \ {c} /\ stopped' = stopped \cup {c}
      /\ UNCHANGED <<network, peers, benched, connectedSubnets, connected, subnetsConnected>>
  BY DEF RemoveChain, Ready, chainVars
<1>2. Silent' BY <1>1 DEF HeardInv, Silent
<1>3. ASSUME NEW n \in Nodes PROVE NodeExact(n)'
  <2>1. NodeExact(n) BY <1>1 DEF HeardInv
  <2> QED BY <1>1, <2>1 DEF NodeExact, Hears
<1> QED BY <1>1, <1>2, <1>3 DEF HeardInv

LEMMA NextHeard == TypeOK /\ BenchInv /\ PeerInv /\ HeardInv /\ [Next]_vars => HeardInv'
<1> SUFFICES ASSUME TypeOK, BenchInv, PeerInv, HeardInv, [Next]_vars PROVE HeardInv' OBVIOUS
<1> DEFINE heardVars == <<network, chainHandlers, stopped, peers, connectedSubnets, benched,
                          connected, subnetsConnected>>
<1>1. CASE UNCHANGED heardVars
  <2>1. \A n \in Nodes : NodeExact(n)' <=> NodeExact(n) BY <1>1 DEF NodeExact, Hears
  <2>2. Silent' BY <1>1 DEF HeardInv, Silent
  <2> QED BY <1>1, <2>1, <2>2 DEF HeardInv
<1>2. CASE Bench
  <2>1. timing.req.node \in Nodes /\ timing.req.chain \in Chains
    BY <1>2 DEF TypeOK, Bench, At, Timeouts
  <2> QED BY <1>2, <2>1, BenchedHeard DEF Bench
<1>3. ASSUME NEW c \in Chains, Remove(c) PROVE HeardInv'
  <2>1. benchLock[c] \in Nodes /\ c \in benched[benchLock[c]]
    BY <1>3 DEF Remove, TypeOK, BenchInv
  <2> QED BY <1>3, <2>1, UnbenchedHeard DEF Remove
<1> USE DEF routerVars, chainVars, othersVars
<1>4. ASSUME NEW c \in Chains, NEW n \in Nodes, Update(c, n) PROVE UNCHANGED heardVars
  BY <1>4 DEF Update
<1>5. ASSUME NEW n \in Nodes, Handshake(n) PROVE UNCHANGED heardVars BY <1>5 DEF Handshake
<1>6. ASSUME NEW r \in Requests,
             \/ RegisterRequest(r) \/ RegisterTimeout(r) \/ SendGetAcceptedFrontier(r)
             \/ SendPullQuery(r) \/ Answer(r)
      PROVE  UNCHANGED heardVars
  BY <1>6 DEF RegisterRequest, RegisterTimeout, SendGetAcceptedFrontier, SendPullQuery, Answer
<1>7. ASSUME NEW m, HandleInbound(m) PROVE UNCHANGED heardVars
  BY <1>7 DEF HandleInbound
<1>8. ASSUME \/ \E r \in timeoutMap : Expire(r)
             \/ \E n \in Nodes, s \in Subnets : ValidatorsChange(s, n)
             \/ RegisterFailure \/ Push \/ UNCHANGED vars
      PROVE  UNCHANGED heardVars
  BY <1>8 DEF Expire, ValidatorsChange, RegisterFailure, Push, vars
<1> HIDE DEF heardVars
<1> QED
  BY <1>1, <1>2, <1>3, <1>4, <1>5, <1>6, <1>7, <1>8, AddChainHeard, RemoveChainHeard,
     ConnectedHeard, DisconnectedHeard
  DEF Next, Sender, Dispatcher, BenchTimer, HandleMessage, HandleTimeout

-----------------------------------------------------------------------------
(* Theorems *)

Inv == TypeOK /\ RequestInv /\ BenchInv /\ PeerInv /\ HeardInv

LEMMA InitInv == Init => Inv
<1> SUFFICES ASSUME Init PROVE PeerInv /\ HeardInv
  BY InitType, InitRequest, InitBench DEF Inv
<1>1. PeerInv BY DEF Init, PeerInv
<1>2. HeardInv BY DEF Init, HeardInv, Silent
<1> QED BY <1>1, <1>2

LEMMA NextInv == Inv /\ [Next]_vars => Inv'
BY NextType, NextRequest, NextBench, NextPeer, NextHeard DEF Inv

\* The fields of the router, the timeout manager and the benchlists keep their types.
THEOREM TypeCorrect == Spec => []TypeOK
<1>1. Inv => TypeOK BY DEF Inv
<1> QED BY <1>1, InitInv, NextInv, PTL DEF Spec

\* HandleInbound pushes one response or failure for a request, however the answers, the
\* timeout and the failure to send it race, for any number of requests and nodes.
THEOREM OutcomeUnique == Spec => []OneOutcome
<1>1. Inv => OneOutcome
  <2> SUFFICES ASSUME RequestInv, NEW r \in Requests
               PROVE  outcomes[r] <= 1 /\ (r \in timedRequests => outcomes[r] = 0)
    BY DEF Inv, OneOutcome
  <2>1. outcomes[r] = 0 \/ outcomes[r] = 1 BY DEF RequestInv
  <2> QED BY <2>1, SMT DEF RequestInv
<1> QED BY <1>1, InitInv, NextInv, PTL DEF Spec

\* The router's view of who is benched (Benched, Unbenched) is that of the benchlist of
\* each chain, except for the node a benchlist is telling it of.
THEOREM BenchesAgree == Spec => []BenchedAgrees
<1>1. Inv => BenchedAgrees BY DEF Inv, BenchInv
<1> QED BY <1>1, InitInv, NextInv, PTL DEF Spec

\* Every chain has heard Connected once of exactly the peers it is connected to: no
\* order of Connected, Disconnected, Benched, Unbenched and AddChain, of any number of
\* chains, nodes and subnets, repeats a message to a chain or leaves one out.
THEOREM ConnectivityIsExact == Spec => []ConnectivityExact
<1>1. Inv => ConnectivityExact
  <2> SUFFICES ASSUME HeardInv, NEW n \in Nodes
               PROVE  /\ \A c \in chainHandlers : connected[c][n] = IF Hears(c, n) THEN 1 ELSE 0
                      /\ OmegaChainID \in chainHandlers =>
                            \A s \in Subnets : subnetsConnected[n][s] =
                               IF s \in peers[n] \ {PrimaryNetworkID} /\ benched[n] = {}
                               THEN 1 ELSE 0
    BY DEF Inv, ConnectivityExact, Hears
  <2>1. CASE OmegaChainID \notin chainHandlers BY <2>1 DEF HeardInv
  <2>2. CASE OmegaChainID \in chainHandlers
    <3>1. NodeExact(n) BY <2>2 DEF HeardInv
    <3>2. \A s \in Subnets : s \in connectedSubnets[n] <=>
                              s \in peers[n] \ {PrimaryNetworkID} /\ benched[n] = {}
      BY <3>1 DEF NodeExact
    <3> QED BY <3>1, <3>2 DEF NodeExact
  <2> QED BY <2>1, <2>2
<1> QED BY <1>1, InitInv, NextInv, PTL DEF Spec
=============================================================================
