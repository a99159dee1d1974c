----------------------------- MODULE Bootstrap ------------------------------
(***************************************************************************)
(* Bootstrapping a chain (snow/engine/common/bootstrapper.go and           *)
(* snow/engine/snowman/bootstrap/bootstrapper.go): a node asks a sample of *)
(* beacons for their last accepted block, asks all of them which of those  *)
(* they accepted, fetches the blocks that enough weight accepted and their *)
(* ancestors into the persistent queue of JobQueue, and executes the queue *)
(* once no block is missing.  The node may be halted, or crash between any *)
(* two writes to its disk, and starts again from what was committed.       *)
(*                                                                         *)
(* The handlers run one at a time under the chain's lock.  Those that loop *)
(* over blocks are split where they write to the disk or read the halt     *)
(* flag: pc says where the running handler is, "idle" that none runs.      *)
(* A request to a beacon whose ID is no longer the current one is dropped  *)
(* from the model: its answer is ignored.  Which peer is asked for         *)
(* ancestors is left open, and some peer is assumed to be connected.       *)
(***************************************************************************)
EXTENDS JobQueue, FiniteSetsExt

CONSTANTS Chain,            \* the blocks the network accepts
          Tips,             \* those that may be a correct beacon's last accepted block
          TwoStage,         \* blocks whose acceptance reaches the disk only with their child's
          Beacons,          \* the beacons
          Faulty,           \* those that answer anything:
          Lies,             \* the blocks that they name (any, but for the size of an instance)
          Weight,           \* a beacon's weight
          Alpha,            \* the weight that makes a block accepted
          SampleKs,         \* Config.SampleK, how many units of weight are sampled for their
                            \* frontier (0 if no beacon was known): the values to check
          MaxOutstandingBroadcastRequests,
          RetryBootstrap,   \* Config.RetryBootstrap
          KeepsParsed       \* whether the VM returns parsed blocks: the values to check

VARIABLES db,               \* disk: the queue
          vmDB,             \* disk: the blocks the VM has accepted
          queue,            \* the queue in memory
          accepted,         \* the blocks the running VM has accepted
          sampleK,
          keepsParsed,      \* the VM returns blocks it has only parsed
          parsed,           \* those blocks
          startingHeight,
          pc,               \* where the running handler is
          at,               \* the block it is at
          batch,            \* the blocks that came with an Ancestors message
          todo,             \* the blocks ForceAccepted has still to process
          forcing,          \* ForceAccepted runs, and ends with a checkFinish
          numExecuted, executedStateTransitions,
          awaitingTimeout,
          outstanding,      \* OutstandingRequests: the blocks asked for
          round,            \* the current round of requests to the beacons
          finished,         \* OnFinished was called: consensus takes over
          subnetDone,       \* the subnet's other chains are bootstrapped
          stable            \* no more crashes, halts and failed requests

diskVars == <<db, vmDB>>
vmVars == <<vmDB, accepted, parsed>>
loopVars == <<pc, at, batch, todo, forcing>>
countVars == <<numExecuted, executedStateTransitions>>
envVars == <<sampleK, keepsParsed, subnetDone, stable>>
vars == <<db, vmDB, queue, accepted, sampleK, keepsParsed, parsed, startingHeight, pc, at, batch, todo, forcing,
          numExecuted, executedStateTransitions, awaitingTimeout, outstanding, round, finished,
          subnetDone, stable>>

WeightOf(nodes) == MapThenSumSet(LAMBDA n : Weight[n], nodes)

ASSUME BootstrapAssumption ==
  /\ Genesis \in Chain /\ Chain \subseteq Blocks
  /\ \A b \in Chain \ {Genesis} : Parent[b] \in Chain
  /\ \A b, c \in Chain : Height[b] = Height[c] => b = c
  /\ Tips \subseteq Chain /\ TwoStage \subseteq Chain \ {Genesis}
  /\ Lies \subseteq Blocks
  /\ IsFiniteSet(Beacons) /\ Faulty \subseteq Beacons
  /\ Weight \in [Beacons -> Nat \ {0}]
  /\ Alpha \in Nat /\ 2 * Alpha > WeightOf(Beacons)
  /\ \A S \in SUBSET Faulty : WeightOf(S) \in 0..(Alpha - 1)
  /\ SampleKs \subseteq 0..WeightOf(Beacons)
  /\ MaxOutstandingBroadcastRequests \in Nat \ {0}
  /\ RetryBootstrap \in BOOLEAN

Many == 2 * Cardinality(Blocks) + 2  \* math.MaxInt32: half of it is more than can be executed
None == Genesis                      \* no block

\* VM.GetBlock finds what was accepted and, in some VMs, what was parsed.
CanGet(b) == b \in accepted \cup parsed

NoRound == [phase |-> "none", pendingSend |-> {}, pendingReceive |-> {}, failed |-> {},
            frontier |-> {}, votes |-> [b \in Blocks |-> {}]]

-----------------------------------------------------------------------------
\* The rounds of requests to the beacons.

\* sendGetAcceptedFrontiers and sendGetAccepted: what round r may be once as many
\* requests are out as may be.
Sent(r) ==
  LET room == MaxOutstandingBroadcastRequests - Cardinality(r.pendingReceive)
      number == IF Cardinality(r.pendingSend) < room THEN Cardinality(r.pendingSend) ELSE room
  IN  {[r EXCEPT !.pendingSend = @ \ now, !.pendingReceive = @ \cup now] :
         now \in kSubset(number, r.pendingSend)}

\* The beacons a sample of sampleK units of weight can consist of.
Samples == {S \in SUBSET Beacons : Cardinality(S) <= sampleK /\ sampleK <= WeightOf(S)}

\* Startup, and Restart, which only logs more.  If nobody is sampled, the rest is Skip.
Startup ==
  \E S \in Samples :
    \/ S = {} /\ round' = [NoRound EXCEPT !.phase = "skip"]
    \/ S # {} /\ round' \in Sent([NoRound EXCEPT !.phase = "frontier", !.pendingSend = S])

\* The test of markAcceptedFrontierReceived, sampled weight - newAlpha < failed
\* weight, multiplied by the weight of all beacons.
NotEnoughFrontiers(r) ==
  sampleK * WeightOf(Beacons) - sampleK * Alpha < WeightOf(r.failed) * WeightOf(Beacons)

\* markAcceptedFrontierReceived, when r is the round without the beacon's request.
MarkAcceptedFrontierReceived(r) ==
  \E s \in Sent(r) :
    \/ /\ s.pendingReceive # {}
       /\ round' = s
    \/ /\ s.pendingReceive = {}
       /\ NotEnoughFrontiers(s) /\ RetryBootstrap
       /\ Startup
    \/ /\ s.pendingReceive = {}
       /\ ~(NotEnoughFrontiers(s) /\ RetryBootstrap)
       /\ round' \in Sent([NoRound EXCEPT !.phase = "accepted", !.pendingSend = Beacons,
                                          !.frontier = s.frontier])

Without(n) == [round EXCEPT !.pendingReceive = @ \ {n}]

\* No handler is running, and consensus has not taken over.
Idle == pc = "idle" /\ ~finished /\ round.phase # "skip"

\* The node is waiting for an answer of beacon n; any other answer is ignored.
Expects(phase, n) == Idle /\ round.phase = phase /\ n \in round.pendingReceive

\* A correct beacon names its last accepted block, a faulty one any.
AcceptedFrontier(n) ==
  /\ Expects("frontier", n)
  /\ \E b \in IF n \in Faulty THEN Lies ELSE Tips :
       MarkAcceptedFrontierReceived([Without(n) EXCEPT !.frontier = @ \cup {b}])
  /\ UNCHANGED <<diskVars, queue, accepted, parsed, startingHeight, loopVars, countVars,
                 awaitingTimeout, outstanding, finished, envVars>>

GetAcceptedFrontierFailed(n) ==
  /\ Expects("frontier", n) /\ ~stable
  /\ MarkAcceptedFrontierReceived([Without(n) EXCEPT !.failed = @ \cup {n}])
  /\ UNCHANGED <<diskVars, queue, accepted, parsed, startingHeight, loopVars, countVars,
                 awaitingTimeout, outstanding, finished, envVars>>

\* The early returns of checkFinish, for a queue q.
MayExecute(q) == q.missing = {} /\ ~finished /\ ~awaitingTimeout

\* Mutant: what was missing before is not taken up again.
PendingIDsNew(ids) == ids
PendingIDs(ids) == queue.missing \cup ids

\* ForceAccepted: what is missing and what the beacons accepted is processed if the
\* VM has it and fetched otherwise.
ForceAccepted(ids) ==
  LET pending == PendingIDs(ids)
      q == AddMissingID(queue, pending)
      toProcess == {b \in pending : CanGet(b)}
  IN  /\ queue' = q
      /\ outstanding' = outstanding \cup (pending \ toProcess)
      /\ round' = NoRound
      /\ \/ /\ toProcess = {}
            /\ pc' = IF MayExecute(q) THEN "execute" ELSE "idle"
            /\ UNCHANGED <<at, todo, forcing>>
         \/ \E b \in toProcess :
              pc' = "process" /\ at' = b /\ todo' = toProcess \ {b} /\ forcing' = TRUE
      /\ UNCHANGED batch

\* The end of Startup, when there are no beacons to ask: ForceAccepted(nil).
Skip ==
  /\ pc = "idle" /\ round.phase = "skip"
  /\ ForceAccepted({})
  /\ UNCHANGED <<diskVars, accepted, parsed, startingHeight, countVars, awaitingTimeout, finished,
                 envVars>>

\* Mutant: one beacon is enough.
SupportedOnce(r) == {b \in Blocks : r.votes[b] # {}}

\* acceptedVotes holds the weight of a block's voters; the model holds the voters.
Supported(r) == {b \in Blocks : WeightOf(r.votes[b]) >= Alpha}

\* The end of Accepted, when r is the round without the beacon's request.
MarkAcceptedReceived(r) ==
  \E s \in Sent(r) :
    LET ids == Supported(s)
        restart == ids = {} /\ RetryBootstrap /\ WeightOf(Beacons) - WeightOf(s.failed) < Alpha
    IN  \/ /\ s.pendingReceive # {}
           /\ round' = s
           /\ UNCHANGED <<queue, outstanding, loopVars>>
        \/ /\ s.pendingReceive = {} /\ restart
           /\ Startup
           /\ UNCHANGED <<queue, outstanding, loopVars>>
        \/ /\ s.pendingReceive = {} /\ ~restart
           /\ ForceAccepted(ids)

\* A correct beacon names those of the blocks asked for that it has accepted, a faulty
\* one any; the handler drops an answer that names a block twice.
Accepted(n) ==
  /\ Expects("accepted", n)
  /\ \E ids \in IF n \in Faulty
               THEN SUBSET Lies
               ELSE {{b \in round.frontier \cap Chain : Height[b] <= Height[last]} : last \in Tips} :
       MarkAcceptedReceived([Without(n) EXCEPT
         !.votes = [b \in Blocks |-> IF b \in ids THEN @[b] \cup {n} ELSE @[b]]])
  /\ UNCHANGED <<diskVars, accepted, parsed, startingHeight, countVars, awaitingTimeout, finished,
                 envVars>>

GetAcceptedFailed(n) ==
  /\ Expects("accepted", n) /\ ~stable
  /\ MarkAcceptedReceived([Without(n) EXCEPT !.failed = @ \cup {n}])
  /\ UNCHANGED <<diskVars, accepted, parsed, startingHeight, countVars, awaitingTimeout, finished,
                 envVars>>

-----------------------------------------------------------------------------
\* Fetching blocks.

\* Ancestors, with the wanted block first and any blocks after it.
Ancestors(b) ==
  /\ Idle /\ b \in outstanding
  /\ outstanding' = outstanding \ {b}
  /\ \E others \in SUBSET (Blocks \ {Genesis, b}) :
       /\ batch' = others
       /\ parsed' = IF keepsParsed THEN parsed \cup {b} \cup others ELSE parsed
  /\ pc' = "process" /\ at' = b
  /\ UNCHANGED <<diskVars, queue, accepted, startingHeight, todo, forcing, countVars,
                 awaitingTimeout, round, finished, envVars>>

\* fetch, for a block whose request was removed: a new request takes a new ID, which
\* makes the answers to a running round late ones; if the VM has the block by now
\* there is only a checkFinish.
Refetch(b) ==
  \/ /\ b \in accepted \cup parsed'
     /\ outstanding' = outstanding \ {b}
     /\ pc' = IF MayExecute(queue) THEN "execute" ELSE "idle"
     /\ UNCHANGED round
  \/ /\ b \notin accepted \cup parsed'
     /\ round' = NoRound
     /\ UNCHANGED <<outstanding, pc>>

\* GetAncestorsFailed, and an answer to GetAncestors without the wanted block at its
\* head: the VM has parsed what came.
GetAncestorsFailed(b) ==
  /\ Idle /\ b \in outstanding /\ ~stable
  /\ \E others \in SUBSET (Blocks \ {Genesis}) :
       /\ keepsParsed \/ others = {}
       /\ parsed' = parsed \cup others
  /\ Refetch(b)
  /\ UNCHANGED <<diskVars, queue, accepted, startingHeight, at, batch, todo, forcing, countVars,
                 awaitingTimeout, finished, envVars>>

\* process returns after a Commit of q and a checkFinish.  ForceAccepted then goes
\* on to its next block; when it has none left, its own checkFinish finds what
\* this one found.
StopProcess(q) ==
  /\ queue' = Committed(q)
  /\ db' = Commit(db, q)
  /\ batch' = {}
  /\ \/ MayExecute(q) /\ pc' = "execute" /\ at' = None /\ UNCHANGED <<todo, forcing>>
     \/ ~MayExecute(q) /\ \E b \in todo : at' = b /\ todo' = todo \ {b} /\ UNCHANGED <<pc, forcing>>
     \/ ~MayExecute(q) /\ todo = {} /\ pc' = "idle" /\ at' = None /\ forcing' = FALSE /\ UNCHANGED todo

\* One turn of process's loop, at the block at: it is accepted, or in the queue, or
\* it is pushed and its parent is next, or missing.
ProcessAccepted ==
  /\ at \in accepted \/ Height[at] <= startingHeight
  /\ StopProcess(RemoveMissingID(queue, at))
  /\ UNCHANGED <<outstanding, round>>

ProcessPushed ==
  LET q == RemoveMissingID(queue, at)
  IN  /\ at \notin accepted /\ Height[at] > startingHeight
      /\ Has(q, at)
      /\ StopProcess(q)
      /\ UNCHANGED <<outstanding, round>>

ProcessPush ==
  LET q == RemoveMissingID(queue, at)
      pushed == Push(q, at, accepted)
      parent == Parent[at]
  IN  /\ at \notin accepted /\ Height[at] > startingHeight
      /\ ~Has(q, at)
      /\ \/ /\ parent \in batch \/ CanGet(parent)
            /\ queue' = pushed /\ at' = parent
            /\ UNCHANGED <<db, pc, batch, todo, forcing, outstanding, round>>
         \/ /\ parent \notin batch /\ ~CanGet(parent)
            /\ StopProcess(AddMissingID(pushed, {parent}))
            /\ outstanding' = outstanding \cup {parent}
            /\ round' = IF parent \in outstanding THEN round ELSE NoRound

Process ==
  /\ pc = "process"
  /\ ProcessAccepted \/ ProcessPushed \/ ProcessPush
  /\ UNCHANGED <<vmVars, startingHeight, countVars, awaitingTimeout, finished, envVars>>

-----------------------------------------------------------------------------
\* Executing the queue.

\* ExecuteAll: a runnable job leaves the queue and the VM accepts it, on its disk
\* at once or with its child.  A job that is not in the database or that has a
\* missing dependency is an error, after which the chain takes no more steps.
ExecuteJob ==
  /\ pc = "execute"
  /\ \E b \in queue.runnable \cap queue.jobs :
       /\ ~HasMissingDependencies(b, accepted)
       /\ queue' = RemoveRunnableJob(queue, b)
       /\ accepted' = accepted \cup {b}
       /\ vmDB' = IF b \in accepted \cup TwoStage THEN vmDB ELSE accepted'
       /\ pc' = "release" /\ at' = b
  /\ UNCHANGED <<db, parsed, startingHeight, batch, todo, forcing, countVars, awaitingTimeout,
                 outstanding, round, finished, envVars>>

\* ExecuteAll: the executed job's dependents, which must be in the database, become
\* runnable, and all is committed.
ReleaseJobs ==
  /\ pc = "release"
  /\ queue.dependents[at] \subseteq queue.jobs
  /\ queue' = ReleaseDependents(queue, at, accepted)
  /\ db' = CommitJobs(db, queue')
  /\ numExecuted' = numExecuted + 1
  /\ pc' = "execute" /\ at' = None
  /\ UNCHANGED <<vmVars, startingHeight, batch, todo, forcing, executedStateTransitions,
                 awaitingTimeout, outstanding, round, finished, envVars>>

\* Mutant: bootstrapping starts over whenever it may.
RestartsAlways == RetryBootstrap

\* Much less was executed than the time before.
Restarts == RetryBootstrap /\ numExecuted > 0 /\ numExecuted < executedStateTransitions \div 2

\* The rest of checkFinish, when nothing is left to run: start over, finish, or wait
\* for the other chains.  ForceAccepted calls checkFinish once more, which does
\* nothing if the one of Skip came before.
Executed ==
  /\ pc = "execute" /\ queue.runnable = {}
  /\ executedStateTransitions' = numExecuted
  /\ numExecuted' = 0
  /\ \/ /\ Restarts
        /\ Startup
        /\ pc' = IF forcing /\ round'.phase # "skip" THEN "execute" ELSE "idle"
        /\ UNCHANGED <<awaitingTimeout, finished>>
     \/ /\ ~Restarts
        /\ finished' = subnetDone
        /\ awaitingTimeout' = ~subnetDone
        /\ pc' = "idle"
        /\ UNCHANGED round
  /\ forcing' = FALSE
  /\ UNCHANGED <<diskVars, queue, accepted, parsed, startingHeight, at, batch, todo, outstanding,
                 envVars>>

Timeout ==
  /\ Idle /\ awaitingTimeout
  /\ awaitingTimeout' = FALSE
  /\ \/ subnetDone /\ finished' = TRUE /\ UNCHANGED round
     \/ ~subnetDone /\ Startup /\ UNCHANGED finished
  /\ UNCHANGED <<diskVars, queue, accepted, parsed, startingHeight, loopVars, countVars, outstanding,
                 envVars>>

-----------------------------------------------------------------------------
\* The node around the bootstrapper.

SubnetBootstrapped ==
  /\ ~subnetDone /\ pc # "down"
  /\ subnetDone' = TRUE
  /\ UNCHANGED <<diskVars, queue, accepted, parsed, startingHeight, loopVars, countVars,
                 awaitingTimeout, outstanding, round, finished, sampleK, keepsParsed, stable>>

Stabilize ==
  /\ ~stable
  /\ stable' = TRUE
  /\ UNCHANGED <<diskVars, queue, accepted, parsed, startingHeight, loopVars, countVars,
                 awaitingTimeout, outstanding, round, finished, sampleK, keepsParsed, subnetDone>>

\* The process ends, and only the disk is left.
Down ==
  /\ pc' = "down"
  /\ queue' = Load(EmptyQueue) /\ accepted' = {} /\ parsed' = {} /\ startingHeight' = 0
  /\ at' = None /\ batch' = {} /\ todo' = {} /\ forcing' = FALSE
  /\ numExecuted' = 0 /\ executedStateTransitions' = Many
  /\ awaitingTimeout' = FALSE /\ outstanding' = {} /\ round' = NoRound
  /\ subnetDone' = FALSE
  /\ UNCHANGED <<vmDB, sampleK, keepsParsed, finished, stable>>

Crash ==
  /\ pc # "down" /\ ~finished /\ ~stable
  /\ Down
  /\ UNCHANGED db

\* process finds that the node is halted: the block is missing again.  The blocks
\* ForceAccepted has still to process are missing already, and ExecuteAll does
\* nothing for a halted node, so that nothing more reaches the disk.
ProcessHalted ==
  /\ pc = "process" /\ ~stable
  /\ db' = Commit(db, AddMissingID(queue, {at}))
  /\ Down

\* Start: SetParser cleans the runnable stack and commits; the VM has what its disk
\* holds.  Enough beacons are connected.
Start ==
  LET q == CleanRunnableStack(Load(db), vmDB)
  IN  /\ pc = "down"
      /\ queue' = Committed(q)
      /\ db' = Commit(db, q)
      /\ accepted' = vmDB
      /\ \E last \in vmDB : /\ \A b \in vmDB : Height[b] <= Height[last]
                             /\ startingHeight' = Height[last]
      /\ pc' = "idle"
      /\ Startup
      /\ UNCHANGED <<vmDB, parsed, at, batch, todo, forcing, countVars, awaitingTimeout, outstanding,
                     finished, envVars>>

-----------------------------------------------------------------------------

Init ==
  /\ db = EmptyQueue /\ vmDB = {Genesis}
  /\ queue = Load(EmptyQueue) /\ accepted = {} /\ parsed = {} /\ startingHeight = 0
  /\ sampleK \in SampleKs /\ keepsParsed \in KeepsParsed
  /\ pc = "down" /\ at = None /\ batch = {} /\ todo = {} /\ forcing = FALSE
  /\ numExecuted = 0 /\ executedStateTransitions = Many
  /\ awaitingTimeout = FALSE /\ outstanding = {} /\ round = NoRound
  /\ finished = FALSE /\ subnetDone = FALSE /\ stable = FALSE

\* Handlers run, and every request is answered or fails.
Progress ==
  \/ Process \/ ExecuteJob \/ ReleaseJobs \/ Executed
  \/ \E n \in Beacons : AcceptedFrontier(n) \/ Accepted(n)
  \/ \E b \in Blocks : Ancestors(b)
  \/ Timeout \/ Skip
  \/ Start

Failure ==
  \/ \E n \in Beacons : GetAcceptedFrontierFailed(n) \/ GetAcceptedFailed(n)
  \/ \E b \in Blocks : GetAncestorsFailed(b)
  \/ Crash \/ ProcessHalted

Next == Progress \/ Failure \/ SubnetBootstrapped \/ Stabilize

Spec == Init /\ [][Next]_vars

FairSpec == Spec /\ WF_vars(Progress) /\ WF_vars(SubnetBootstrapped)

-----------------------------------------------------------------------------
\* Properties.

Rounds == [phase : {"none", "skip", "frontier", "accepted"},
           pendingSend : SUBSET Beacons, pendingReceive : SUBSET Beacons, failed : SUBSET Beacons,
           frontier : SUBSET Blocks, votes : [Blocks -> SUBSET Beacons]]

\* The types of the state, flags and the numbers of executed blocks aside.
TypeOK ==
  /\ db \in DiskQueue /\ queue \in MemoryQueue
  /\ vmDB \subseteq Blocks /\ accepted \subseteq Blocks /\ parsed \subseteq Blocks
  /\ startingHeight \in Nat
  /\ pc \in {"down", "idle", "process", "execute", "release"}
  /\ at \in Blocks /\ batch \subseteq Blocks /\ todo \subseteq Blocks
  /\ outstanding \subseteq Blocks /\ round \in Rounds

\* Wherever a crash hits, what is on the disk is enough to go on: every job that the
\* VM has not accepted is runnable, or waits for a block that is itself a job or
\* recorded as missing (process commits the missing parent with the pushed jobs;
\* ExecuteAll commits a job's removal with its dependents' release).
NoLostJob ==
  \A b \in db.jobs \ vmDB :
    \/ b \in db.runnable
    \/ b \in db.dependents[Parent[b]] /\ Parent[b] \in db.jobs \cup db.missing

\* ExecuteAll never meets the errors that stop the chain: a runnable job without its
\* bytes, errMissingDependenciesOnAccept, a dependent that is not in the queue.
NoExecutionError ==
  /\ pc = "execute" => \A b \in queue.runnable :
                         b \in queue.jobs /\ ~HasMissingDependencies(b, accepted)
  /\ pc = "release" => queue.dependents[at] \subseteq queue.jobs

\* Whatever the faulty beacons answer, and whatever comes along with Ancestors, the
\* node fetches, queues and accepts only blocks that the network accepted.
OnlyNetworkBlocks ==
  accepted \cup queue.jobs \cup queue.missing \cup outstanding \cup db.jobs \cup db.missing \subseteq Chain

\* Outside of a round, every missing block is being asked for, so that some answer
\* will move the node on.  The exception is fetch's early return for a block that
\* the VM has by now: such a block is processed only after a restart.
MissingRequested ==
  Idle /\ round.phase = "none" => \A b \in queue.missing : b \in outstanding \/ CanGet(b)

\* Consensus takes over once everything that was asked for has been executed, as the
\* comment on checkFinish says.
FinishedExecuted == finished => queue.jobs = {} /\ queue.missing = {}

\* Once crashes and failures stop, bootstrapping finishes, if the VM does not return
\* blocks that it has only parsed.  To finish early, against FinishedExecuted, is to
\* finish as well.
EventuallyFinished == stable /\ ~keepsParsed ~> finished
=============================================================================
