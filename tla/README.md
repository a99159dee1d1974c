# Verification of OdysseyGo

TLA+ specifications of the part of OdysseyGo that decides which blocks a node accepts: the
snowball instances, Snowman consensus over a tree of blocks, the set of network polls, the
engine that drives both, the bootstrapper with its persistent queue of blocks, and the router,
timeouts and benchlists that carry the engine's requests. TLC checks them on small instances;
for the polls, the n-nary snowball instance, Snowman consensus with its vote counting, the engine,
the router and the bootstrapper the safety properties are proved with TLAPS for all parameters.

`PROJECT.json` lists the components of the system, the runs, the mutants that show that each
property can fail, the lines of code that each definition models, the hazards the properties
are about, and the theorems.

## The system

A node runs a number of chains. For each chain:

* the **bootstrapper** (`snow/engine/common/bootstrapper.go`,
  `snow/engine/snowman/bootstrap/`) brings the chain up to date at startup. It keeps what it has
  still to execute in a **job queue** on disk (`snow/engine/common/queue/`);
* the **Snowman engine** (`snow/engine/snowman/`) then handles one message at a time: it fetches
  blocks and their ancestors, issues them to consensus in order, sends queries and collects the
  answers in the **polls** (`snow/consensus/snowman/poll/`);
* **Snowman consensus** (`snow/consensus/snowman/topological.go`) holds the tree of undecided
  blocks, and in each block a **snowball tree** (`snow/consensus/snowball/tree.go`) of
  **snowball instances** over the block's children. A finished poll is recorded on them and may
  accept or reject blocks;
* the **virtual machine** verifies, accepts and rejects blocks. It is outside of the models: its
  Verify may fail, its Accept and Reject succeed.

All chains share the **chain router** with the **timeout manager**, and each has a **benchlist**
(`snow/networking/`). They turn what the network does into messages: exactly one answer or
failure for each request, and alternating connections and disconnections of each node.

## Modules

| Part | Modules | State and actions |
|---|---|---|
| Polls | `PollSet` | `polls` is the linked hash map, oldest first. A bag of polled validators and a bag of votes are kept as K slots. `Add`, `Vote` and `Drop` are the methods of the set, each with the release of finished polls. |
| Snowball instances | `Snowball`, `SnowballParameters` | The structs of unary, binary and n-nary snowball, snowflake and slush as one record, their methods as operators. |
| Contract of an instance | `SnowballContract` | The abstract specification of the `Consensus` interface: what consensus relies on. |
| Flat | `FlatSnowball` | One n-nary instance under any sequence of `Add`, `RecordPoll` and `RecordUnsuccessfulPoll`. |
| Snowball tree | `SnowballTreeNodes`, `SnowballTree` | The patricia tree: nodes as records, methods as operators. `SnowballTree` runs it beside a reference with one instance per bit, reset at once. |
| Snowman consensus | `BlockTree`, `Topological`, `TopologicalContract` | The fields of `Topological` and `snowmanBlock`. `RecordPoll` takes one step for each iteration of its loops (`pc`), with nothing else enabled. The snowball instances are parameters, of which `TopologicalContract` assumes the contract and, for deferred falters, the laws of `RecordUnsuccessfulPoll`. |
| Contract of consensus | `SnowmanContract` | The abstract specification of the `Consensus` interface of Snowman: what the engine relies on. `Topological` implements it. |
| Vote counting | `KahnVotes` | `calculateInDegree` and `pushVotes`, with the order of votes and leaves left open, as the code takes them from maps. It justifies `OnStack` and `CountedTwice` in `BlockTree`. |
| Deferred falters | `TopologicalEager` | Runs beside `Topological` a reference that defers no falter. |
| Consensus over snowball trees | `TopologicalTree` | Composes `TopologicalEager` with `SnowballTreeNodes`. |
| Snowman engine | `Transitive` | The handlers of `transitive.go` with `issuer`, `voter`, `AncestorTree`, `memoryBlock`, `Requests` and `event.Blocker`. A handler works through callbacks; `stack` holds the calls it has still to make. |
| Router | `Router` | `ChainRouter`, the timeout manager, the benchlists and the sender's requests, one action for each stretch that a goroutine runs under a lock. |
| Job queue | `JobQueue` | The queue as a record in memory and a record on disk; `Push`, `RemoveRunnableJob`, `Commit`, `CleanRunnableStack` and the others as operators. |
| Bootstrapper | `Bootstrap` | Rounds of requests to the beacons, fetching, processing and executing blocks, restarting and finishing, with halts and crashes between any two writes to the disk. |

The modules `MC*` hold the constants of the instances. The modules `*Proofs` and `TransitiveInvariant`
hold proofs. Definitions marked "Mutant" are faulty versions of the
definition that follows; no specification uses them.

### Abstractions

* **Polls.** `MaxPolls` bounds the polls ever added. `results` and `added` are history.
* **Consensus.** Blocks form a given tree (`Parent`, `Height`, `Ancestors`). Fatal errors of the
  VM, metrics and health checks are left out.
* **Engine.** Consensus appears as `SnowmanContract` describes it, several steps at once: a block is
  added together with its options, and a poll accepts some chain of blocks that has votes below
  (`CanAccept`), which is `Accept` repeated, and rejects what conflicts. A poll may
  finish early whenever it likes. The VM has the blocks that it accepted and those in consensus;
  any other it may have, from a cache, or miss, and have lost when asked again (`MayMiss`). It may
  also forget that it rejected a block, as `vms/components/chain` does (`Forget`). The router answers
  every request once. `MaxGets`, `MaxPolls` and `MaxBuilds` bound what is in flight;
  request IDs that nothing refers to are used again.
* **Router.** Any pending timeout may expire and a bench may end at any time, so averages and
  durations play no part. Where a subnet is for validators only, nodes join and leave its validators
  at any time (`ValidatorsChange`), and `HandleInbound` drops what concerns a node that is not allowed.
  Requests of a node to itself, responses and gossip are left out.
* **Bootstrapper.** A request whose ID is out of date is dropped at once, as its answer is
  ignored. Enough stake and some peer are connected. `sampleK`
  is 0 for a chain that was created when no beacon was known: then a round asks nobody (`Skip`). `keepsParsed` says whether the VM returns
  blocks that it has only parsed; `TwoStage` are the blocks whose acceptance reaches the disk
  with their child's. Correct beacons stand at one of the blocks `Tips`; what faulty ones name is
  bounded by `Lies`. No chain is added to the subnet while it bootstraps. The model ends when
  consensus takes over (`finished`).

## Runs

| Run | Instance | What it shows |
|---|---|---|
| `polls` | 2 polls, K = 3, Alpha = 2, samples with a validator drawn twice, a block with a child and a sibling | Results come out in issue order, each once; early termination never changes a majority; answers are final; every poll is returned. |
| `flat` | 3 choices, K = 3, Alpha = 2, betas 2 and 3, 6 polls | A decision was earned with the right beta and is final; `FlatSnowball` implements `SnowballContract`. |
| `tree` | 4 IDs of 3 bits, 5 polls | The snowball tree with delayed resets cannot be told from one instance per bit. |
| `topological` | 5 blocks on genesis, two nested forks, K = 2, instances that do anything the contract allows | One accepted chain; only conflicting blocks are rejected; the tree and the preferred branch stay consistent inside of a poll; `Topological` implements `SnowmanContract`. |
| `topological_preference` | the same | Violated: see Findings. |
| `kahn` | every subtree of 6 blocks on genesis, every bag of 3 votes, every order | What `voteStack` holds. |
| `topological_tree` | 4 blocks with two forks, real snowball trees, 3 arbitrary polls, then unanimous ones | Deferred falters are invisible; the trees keep the contract; every block is decided. |
| `engine` | 4 blocks with an oracle block and its options, one of which may fail verification; 2 polls, 2 Gets, 1 block to build | Nothing waits for a block in consensus, what waits for a block that may be accepted will be released, votes bubble correctly, consensus gets no orphan, no vote of an open poll gets lost. |
| `engine_pending` | two branches of two blocks | Violated: see Findings. |
| `router` | 2 nodes, 2 chains in 2 subnets, 2 requests of both kinds, 3 configurations, one with a subnet for validators only | At most one outcome for each request, and eventually one while its chain runs and its node is allowed; chains, router and benchlists agree on who is connected. |
| `bootstrap` | chain of 4 blocks and a fork, a correct and a faulty beacon or none to sample, both kinds of VM | No job is lost, execution meets no error, only the network's blocks are touched, missing blocks are requested, bootstrapping finishes. |
| `bootstrap_early` | the same | Violated: see Findings. |

**Bounds.** Each instance has the least of everything that makes the hard case happen. Two
overlapping polls, since order is a matter of pairs, and three slots, so that a majority is less
than all. Three choices, so that a preference can lose to a choice that is not the one finalized.
Three bits, so that a unary node splits at its first, an inner and its last bit. Two nested forks,
so that a rejected subtree has more than one level and a vote can lie below one. A fork below an
oracle block, so that an option fails while another is processing. Two chains for one node, so
that it is benched on one and comes back on the other. A chain of three blocks with a two-stage
block first, so that a crash can undo an acceptance whose job is gone.
Deadlock is not checked: each of these systems may legitimately have nothing to do, be it that
its bounded inputs are used up or that consensus has taken over.

**Fairness.** `PollSet`: each polled validator answers or fails, as every query is registered
with a timeout. `Router`: strong fairness of goroutines that wait for a mutex (Go hands a mutex over to a waiter
that has waited long enough), of deadlines and timers; nothing of peers or answers. Senders and timers
take finitely many steps, so that fairness is stated for all of them together. `RequestResolved`
has two exceptions that the promise of `RegisterRequest` (`chain_router.go:144`) does not have: the
timeout of a request is dropped when its chain has stopped, and when its node is no longer allowed on a
subnet for validators only (`chain_router.go:262`); such a request stays in `timedRequests`.
`TopologicalTree`: `RecordPoll` ends, the engine keeps polling while blocks are processing, and
once the arbitrary polls are used up the network votes as this node prefers. `Bootstrap`: handlers
run and requests are answered once the failures have stopped (`stable`), and the subnet's other
chains bootstrap. `EventuallyFinished` is stated for VMs that do not return blocks that they have
only parsed: for the others `fetch` returns early for such a block and nobody processes it before a
restart, which is why `MissingRequested` has its exception. A bootstrapping that finishes too early,
as in the third finding, counts as finished there.

The engine has no liveness property. A poll ends when the votes it waits for are released;
`EveryVoteComes` and `NoDanglingDependency` say that none is lost and that what waits for a block that
may still be accepted is released by an answer. A vote that waits for a block that can no longer be
accepted, as after the second finding, stays until some node names the block again, so that without an
assumption on what other nodes send not every poll ends.

**Polls that count no edge twice.** `FalterDeferred`, `PreferenceIsWalk` and `EventuallyDecided`
are checked for polls that happen to count the votes further down first; the first finding below
shows what happens otherwise.

## Findings

1. `topological.go:387`: whether a block is counted as a leaf depends on the order in which the
   votes come out of a map. A block that a vote reaches directly first and from below later passes
   its edge on twice; the blocks above it then record nothing, and the preference can move to a
   branch that the last accepted block does not prefer (`topological_preference`). The safety
   properties hold all the same: they are proved for any order.
2. `transitive.go:753`: `deliver` returns for a block that was decided meanwhile, without removing
   it from `pending` or releasing what waits for it (`engine_pending`). `NoDanglingDependency`
   therefore speaks of the blocks that may still be accepted.
3. `snowman/bootstrap/bootstrapper.go:365`: `checkFinish` runs once inside of `process` and again
   at the end of `ForceAccepted`. If the first one starts a new round, the second one sets
   `awaitingTimeout`, and the timeout finishes bootstrapping with blocks still queued
   (`bootstrap_early`).

## Proofs

All theorems hold for every value of the constants that satisfies the named assumptions of the
modules (`ParameterAssumption` and so on). TLC evaluates these assumptions in the runs.

* **`PollSetProofs`**: `ResultsInIssueOrder`, `OldestUnfinished`, `EarlyTerminationSound`,
  `AnswersFinal`. The invariant adds that an outstanding slot has not voted and
  that a returned poll was finished. The core of the argument for early termination: two blocks with
  alpha votes each share a slot, as 2 Alpha > K. `AnswersFinal` is a property of steps: it needs that
  the release of finished polls moves polls from one list to the other and changes none.
* **`FlatSnowballProofs`**: `DecisionEarned`, `RogueIffConflict`, `PreferenceLeads`,
  `DecisionFinal`, and the refinement `ImplementsContract`. The invariant adds that `max` is the
  preference's number of successes, and that `confidence` counts the successes in a row up to the
  last poll.
* **`TopologicalProofs`**: `AcceptedIsChain`, `RejectedConflicts`, `TreeIsRooted`,
  `PreferenceInTree`, `VoteHasInstance`, `DecisionsFinal` and the refinement `ImplementsSnowman`, for
  every tree of blocks, every order of votes, and every kind of snowball instance that keeps the
  contract; `PreferenceIsWalk` and `FalterDeferred` for polls that count no edge twice. The invariant
  `Inv` adds that the tree is closed upwards, that a block has an instance exactly over its children,
  that the loop of `vote` is at a block with alpha votes below it, all of them in the tree if the block
  is, and, inside of a poll, that the preferred branch is in the tree or was rejected as a whole. The
  module goes through the state between polls and the start of a poll, the loop of `vote`, the
  settling of the preference, the refinement, the walk, and the deferred falters.

  `ImplementsSnowman`: each iteration of `vote` accepts at most one child of `head`; what
  `rejectTransitively` reaches from its siblings is exactly what conflicts with it; and alpha votes
  below the block that is voted on are at least one. `DecisionsFinal` says the same of decisions in
  terms of `Topological`'s own state and is proved only; `topological` checks the refinement.

  `FalterDeferred` is proved from `EagerInv`: the reference's instance of a block is the one that the
  code would have once the falter pending for it, on itself or on a block above, is recorded, and
  inside of a poll once the poll is recorded on the blocks that the loop has yet to reach. The loop
  goes down one branch: two children of a block cannot both have alpha votes, so the blocks beside the
  branch have fewer, and a falter on the top one covers them all (`LoopClean` adds that none is left
  behind above the loop). The states need not be equal: a child added below a pending falter
  gets a falter that the reference never recorded. Hence the laws in `TopologicalContract` speak of
  states that no calls tell apart (`SbSame`): a falter does nothing to a new instance or after another
  falter, keeps preference and decision, and can be exchanged with `Add`. The theorem also supposes
  that a poll has one outcome (`Deterministic`), as it has for the trees. TLC evaluates the laws on the
  instances of `topological`, and on the snowball trees that come out of up to three calls in
  `topological_tree` (`TreeFalterAssumption`).
* **`KahnVotesProofs`**: `StackIsOnStack` and `VotesConserved`, for every tree of blocks, bag of votes
  and order in which the maps return votes and leaves. The invariant `Inv` says that the keys of
  `kahnNodes` are a subtree in which every block lies above a vote (`SeenInv`, `ReachInv`); that an
  in-degree is the number of children that are keys and were not popped, plus the number of edges
  counted twice (`EdgeInv`); that a bag holds for each child the votes for the child itself that were
  counted and, once the child was popped, all votes below it (`BagInv`); that all keys below a popped
  block were popped (`DoneInv`); and that the stack holds the popped blocks with alpha votes,
  descendants first (`StackInv`), one branch, as 2 Alpha > K. At the end, the deepest key that was not
  popped has no edge left but one counted twice: so only blocks above such an edge are left over.
* **`TransitiveInvariant`, `TransitiveProofs`**: `VerifyAllowed`, `VotesBubble`, `NothingWaitsForIssued`,
  `NoDanglingDependency`, `EveryVoteComes` and `TypeOK`, for every tree of blocks, set of nodes and
  assignment of options, any number of polls and requests, and a VM that loses blocks at any time.
  `NothingWaitsForIssued`, `NoDanglingDependency` and `EveryVoteComes` speak of the engine between
  messages. A handler gets there through callbacks that issue, release and decide blocks in any order, so
  the invariant `EngineInv` says for each moment inside of a handler which of the calls to come makes up
  for what is missing. A block is added (in consensus or accepted), or lost (neither, and not below the
  last accepted block: it can never be added), or open; only a step from open to added or lost can
  disturb what is said of it:
  * `TreeInv`: the processing blocks hang below the last accepted one, and rejected blocks are lost,
    also when the VM forgot that it rejected them; `VoteInv`: from each non-verified block a chain of such
    blocks leads up to a block of consensus;
  * `FulfillInv`: what waits for a block that was added is about to be released; `PendingInv`: a pending
    block waits for its parent, is lost, or a call to come takes it out; `WaitInv`: what waits for a block
    waits for one that is pending, requested or lost, or will be released, or the block is being looked
    up; `RemoveInv`: a request is removed only after what waited for it was released;
  * `ChitsInv`: when the loop `issueFrom` of a Chits ends, the voter votes at once, or is registered on a
    block that is still to be released or is lost. The loop can be overtaken by the votes it releases;
    `LoopInv` says where it stands then. `LoopIsLast` says that there is one such loop, with only the rest
    of Chits and `buildBlocks` after it;
  * `RequestInv`: a recorded request is one whose Get is unanswered, or whose answer is being looked
    at, and no two share a block or an ID. With `WaitInv` this gives `NoDanglingDependency`: what is
    waited for between messages will really be answered;
  * `PollInv`: a node that a poll waits for has a query to answer, or its vote is among the calls to come
    or registered with the Blocker. A step may move a vote but not lose it, and `poll.Set` leaves no
    finished poll in front.

  The two modules are one proof: the invariant with the facts on the tree of blocks and what any call keeps
  of the calls to come; voting, releasing, delivering and abandoning; requests and the IDs of polls; issuing
  blocks with their ancestors, the rest of Chits, the handlers, the votes and the theorems.
* **`RouterProofs`**: `OneOutcome`, `BenchedAgrees`, `ConnectivityExact`, for any nodes, chains,
  subnets and requests. The invariant adds that a request is new, outstanding, being resolved under
  the router's lock, or resolved, in that order (`RequestInv`); that the goroutine that benches a node
  holds the benchlist's lock from one map to the other (`BenchInv`); that a peer reports the primary
  network first and no subnet twice (`PeerInv`); and that the router remembers what it told the O-chain
  and a chain that was not added yet has heard nothing (`HeardInv`).
* **`BootstrapProofs`**: `NoLostJob`, `NoExecutionError`, `OnlyNetworkBlocks`, `MissingRequested`,
  for every tree of blocks, chain in it, set of two-stage blocks, and beacons of which the faulty
  ones weigh less than Alpha. About a queue: `Shape`: runnable jobs and dependents are jobs, and no
  job is both. `Kept(q, hole)`: each job is runnable, or waits for a job, a missing block or the block
  that the handler holds. `Ready`: the parents of runnable jobs are accepted. `Released`: nothing
  waits for an accepted block that is not a job any more. `Synced`: the missing IDs on disk and the
  unwritten changes add up to those in memory. The invariant `IInv` says that the queue on disk fits
  the VM's disk, the queue in memory the running VM except for the one block in the handler's hands
  (`Hole`, `Settled`), and that the two agree between handlers; that the VM's accepted blocks are a
  prefix of the chain; and that only faulty beacons vote for blocks outside of the chain. `Start`
  re-establishes the part about memory from the part about the disk, which no crash disturbs: that is
  why the disk has to satisfy its part inside of every handler too. `RequestInv` follows the missing
  blocks through requests and handlers.

What stays with TLC: all liveness properties, as fairness and `ENABLED` are out of the prover's
reach; and the snowball tree (`SnowballTreeNodes` is recursive), hence what `SnowballTree` shows, that
the trees keep the contract (`InstancesKeepContract`) and that they satisfy the laws on falters. The types of
the modules with proofs are part of their inductive invariants and are not checked by a run of their
own.

## Not modelled

Coverage is by depth. The models cover the state machines that a node's agreement with the network
depends on and that are concurrent, crash or depend on the order of events; they are a small share
of the repository's lines. The rest falls into these groups (component by component in
`PROJECT.json`):

* generated code, I/O, APIs, wallet, configuration, codecs and cryptography: no state machine, or
  none of interest;
* the virtual machines (Omega, Alpha, proposer): large, sequential rules about amounts, times and
  signatures, which test suites reach well. The models rely on the interface only: a block that was
  accepted or is in consensus is found, a verified block can be accepted, and the bytes of a block name
  one parent; a VM that breaks this is not covered;
* throttling, resource tracking, uptimes: rates and durations;
* databases, Merkle tries and their synchronisation: data structures over byte strings, of which
  the models assume atomic commits;
* the state syncer and the DAG bootstrapper, which repeat the shape of `Bootstrap` with other data,
  the message handler's queue, and the shared memory between chains: these could be modelled next;
* in modelled files: metrics, logging, health checks, `Clear` of the job queue, the wait for
  connected stake, and the choice of the peer that ancestors are fetched from.
