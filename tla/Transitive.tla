----------------------------- MODULE Transitive -----------------------------
(***************************************************************************)
(* The Snowman engine: snow/engine/snowman/transitive.go with its issuer,    *)
(* voter, AncestorTree and memoryBlock, over event.Blocker and               *)
(* common.Requests.                                                         *)
(*                                                                         *)
(* The engine handles one message at a time, but a handler reaches most of   *)
(* its work through callbacks: a block that is issued or abandoned releases  *)
(* the issuers and voters that wait for it, which issue, abandon and vote in *)
(* turn.  stack holds the calls the running handler has yet to make, the     *)
(* next one first.                                                          *)
(*                                                                         *)
(* Consensus appears through what Topological guarantees: blocks extend the  *)
(* last accepted one, and a poll accepts any of them and rejects what        *)
(* conflicts.  Errors of the VM and of consensus are fatal and left out.     *)
(***************************************************************************)
EXTENDS BlockTree, Sequences, Functions

CONSTANTS
    Nodes,              \* node IDs
    Samples,            \* the sets of nodes Validators.Sample may return
    Unreliable,         \* the blocks whose Verify may fail
    Options,            \* the options of each oracle block, <<>> for the others
    ConcurrentRepolls, OptimalProcessing,
    MaxGets, MaxPolls,  \* bounds on the Gets and the polls outstanding at once
    MaxBuilds           \* bound on pendingBuildBlocks

ASSUME EngineAssumption ==
    /\ Samples \subseteq (SUBSET Nodes) \ {{}} /\ Unreliable \subseteq Blocks
    /\ Options \in [Blocks -> Seq(Blocks \ {Genesis})]
    /\ \A b \in Blocks : Len(Options[b]) \in {0, 2} /\ \A o \in Range(Options[b]) : Parent[o] = b
    /\ ConcurrentRepolls \in Nat /\ OptimalProcessing \in Nat
    /\ MaxGets \in Nat /\ MaxPolls \in Nat /\ MaxBuilds \in Nat

VARIABLES
    status, processing, lastAccepted,   \* VM and consensus
    pending,             \* blocks queued until their parent is issued
    blkReqs,             \* outstanding Gets: [node, id, blk]
    nonVerifieds,        \* keys of AncestorTree.childToParent
    nonVerifiedCache,
    blocked,             \* event.Blocker: block -> issuers and voters
    polls,               \* [id, waiting, votes, done], oldest first
    pendingBuildBlocks,
    stack, added,        \* the calls to come; what issueFrom returned
    gets, queries        \* requests in the network: [node, id]

consensusVars == <<status, processing, lastAccepted>>
issueVars == <<pending, blkReqs, nonVerifieds, nonVerifiedCache, blocked>>
vars == <<consensusVars, issueVars, polls, pendingBuildBlocks, stack, added, gets, queries>>

Init ==
    /\ status = [b \in Blocks |-> IF b = Genesis THEN "Accepted" ELSE "Processing"]
    /\ processing = {} /\ lastAccepted = Genesis
    /\ pending = {} /\ blkReqs = {} /\ nonVerifieds = {} /\ nonVerifiedCache = {}
    /\ blocked = [b \in Blocks |-> <<>>]
    /\ polls = <<>> /\ pendingBuildBlocks = 0
    /\ stack = [i \in 1..Len(Options[Genesis]) |-> [op |-> "deliver", blk |-> Options[Genesis][i]]]
    /\ added = FALSE
    /\ gets = {} /\ queries = {}

-----------------------------------------------------------------------------
(* Blocks *)

Decided(b) == status[b] # "Processing" \/ Height[b] <= Height[lastAccepted]
Issued(b) == Decided(b) \/ b \in processing
WasIssued(b) == Issued(b) \/ b \in pending

\* GetBlock may not find b.  The VM has the blocks that it accepted and those in
\* consensus.  Of the others it may have any, from a cache, and lose it again.
MayMiss(b) == b \notin pending \cup nonVerifiedCache \cup processing /\ status[b] # "Accepted"

Nearest(bs) == CHOOSE b \in bs : \A x \in bs : Height[x] <= Height[b]

\* AncestorTree.GetRoot, and what RemoveSubtree(b) removes.
GetRoot(b) == Nearest(({b} \cup Ancestors[b]) \ nonVerifieds)
Subtree(b) ==
    {x \in nonVerifieds :
        x = b \/ (b \in Ancestors[x] /\ \A m \in Ancestors[x] : b \in Ancestors[m] => m \in nonVerifieds)}

\* Mutant: any block that could not be issued is remembered.
KeepsParentAny(b) == ~Issued(b)

\* addToNonVerifieds remembers b.
KeepsParent(b) == ~Issued(b) /\ Parent[b] \in nonVerifieds \cup processing

AddToNonVerifieds(bs) ==
    /\ nonVerifieds' = nonVerifieds \cup bs
    /\ nonVerifiedCache' \in IF bs = {} THEN {nonVerifiedCache}
                             ELSE SUBSET (nonVerifiedCache \cup bs)

\* bubbleVotes: the blocks that a vote for b may count for, or None.
Bubble(b) ==
    LET way    == {GetRoot(b)} \cup Ancestors[GetRoot(b)]
        issued == Nearest({x \in way : Issued(x)})
    IN  {IF issued \in processing THEN issued ELSE None}
        \cup {None : x \in {y \in way : Height[y] > Height[issued] /\ MayMiss(y)}}

-----------------------------------------------------------------------------
(* Calls *)

Running(op) == stack # <<>> /\ stack[1].op = op
Return(calls) == stack' = calls \o Tail(stack)

Call(op, b) == [op |-> op, blk |-> b]
CallFrom(op, node, b) == [op |-> op, node |-> node, blk |-> b]
Voter(node, id, b) == [op |-> "voter", node |-> node, id |-> id, blk |-> b]
Do(op) == [op |-> op]

RemoveAny(b) == blkReqs' = {r \in blkReqs : r.blk # b}

Requested(b) == \E r \in blkReqs : r.blk = b

\* The request IDs that are not in use.  RequestID counts up; an ID is taken again
\* only when nothing refers to it any more.
IDsIn(calls) == {calls[i].id : i \in {j \in DOMAIN calls : calls[j].op \in {"voter", "chits"}}}
FreeGets == (1..MaxGets) \ {r.id : r \in blkReqs \cup gets}
FreePolls ==
    (1..MaxPolls) \ ({q.id : q \in queries} \cup {polls[i].id : i \in DOMAIN polls}
                     \cup IDsIn(stack) \cup UNION {IDsIn(blocked[x]) : x \in Blocks})
NextID(free) == CHOOSE i \in free : \A j \in free : i <= j

\* issue(b): b waits for its parent or is delivered; then the call next.
Issue(b, next) ==
    LET p == Parent[b]
    IN  /\ pending' = pending \cup {b}
        /\ RemoveAny(b)
        /\ \/ /\ MayMiss(p) \/ ~Issued(p)
              /\ blocked' = [blocked EXCEPT ![p] = Append(@, Call("issuer", b))]
              /\ Return(<<next>>)
           \/ /\ Issued(p)
              /\ Return(<<Call("deliver", b), next>>)
              /\ UNCHANGED blocked
        /\ UNCHANGED <<consensusVars, nonVerifieds, nonVerifiedCache, polls, pendingBuildBlocks,
                       added, gets, queries>>

\* sendRequest(node, b), where issueFrom gives up.
SendRequest(node, b) ==
    /\ \/ Requested(b) /\ UNCHANGED <<blkReqs, gets>>
       \/ /\ ~Requested(b) /\ FreeGets # {}
          /\ LET id == NextID(FreeGets)
             IN  /\ blkReqs' = blkReqs \cup {[node |-> node, id |-> id, blk |-> b]}
                 /\ gets' = gets \cup {[node |-> node, id |-> id]}
    /\ added' = FALSE
    /\ Return(<<>>)
    /\ UNCHANGED <<consensusVars, pending, nonVerifieds, nonVerifiedCache, blocked, polls,
                   pendingBuildBlocks, queries>>

AbandonIssued(b) == IF Issued(b) THEN <<Call("abandon", b)>> ELSE <<>>

\* One iteration of the loop of issueFrom, or what follows it.
IssueFrom ==
    /\ Running("issueFrom") \/ Running("issueFromByID")
    /\ LET call == stack[1]
           b    == call.blk
       IN  \/ /\ call.op = "issueFromByID" /\ MayMiss(b)
              /\ SendRequest(call.node, b)
           \/ /\ ~WasIssued(b)
              /\ Issue(b, CallFrom("issueFromByID", call.node, Parent[b]))
           \/ /\ WasIssued(b)
              /\ RemoveAny(b)
              /\ added' = Issued(b)
              /\ Return(AbandonIssued(b))
              /\ UNCHANGED <<consensusVars, pending, nonVerifieds, nonVerifiedCache, blocked, polls,
                             pendingBuildBlocks, gets, queries>>

AbandonUnrequested(b) == IF Requested(b) THEN <<>> ELSE <<Call("abandon", b)>>

\* The same for issueWithAncestors, which requests nothing.
IssueWithAncestors ==
    /\ Running("issueWithAncestors") \/ Running("issueWithAncestorsByID")
    /\ LET call == stack[1]
           b    == call.blk
       IN  \/ /\ ~WasIssued(b)
              /\ Issue(b, Call("issueWithAncestorsByID", Parent[b]))
           \/ /\ \/ WasIssued(b) /\ Return(IF Issued(b) THEN <<>> ELSE AbandonUnrequested(b))
                 \/ call.op = "issueWithAncestorsByID" /\ MayMiss(b) /\ Return(AbandonUnrequested(b))
              /\ UNCHANGED <<consensusVars, issueVars, polls, pendingBuildBlocks, added, gets, queries>>

-----------------------------------------------------------------------------
(* Blocker, issuer and deliver *)

\* Blocker.Fulfill and Blocker.Abandon release what waits for b.  An issuer waits
\* for one block, so that Fulfill delivers its own; a voter votes in both cases.
Release(as) ==
    LET b == stack[1].blk
    IN  /\ blocked' = [blocked EXCEPT ![b] = <<>>]
        /\ Return([i \in DOMAIN blocked[b] |->
                      IF blocked[b][i].op = "issuer" THEN Call(as, blocked[b][i].blk) ELSE blocked[b][i]])
        /\ UNCHANGED <<consensusVars, pending, blkReqs, nonVerifieds, nonVerifiedCache, polls,
                       pendingBuildBlocks, added, gets, queries>>

Fulfill == Running("fulfill") /\ Release("deliver")
Abandon == Running("abandon") /\ Release("abandonIssuer")

AbandonIssuer ==
    LET b == stack[1].blk
    IN  /\ Running("abandonIssuer")
        /\ pending' = pending \ {b}
        /\ AddToNonVerifieds(IF KeepsParent(b) THEN {b} ELSE {})
        /\ Return(<<Call("abandon", b)>>)
        /\ UNCHANGED <<consensusVars, blkReqs, blocked, polls, pendingBuildBlocks, added, gets, queries>>

\* Mutant: the parent only has to be known.
DeliverableAny(b) == ~MayMiss(Parent[b]) \/ Issued(Parent[b])
Deliverable(b) == status[Parent[b]] = "Accepted" \/ Parent[b] \in processing

\* addUnverifiedBlockToConsensus on b and on its options good, while Verify fails
\* for its options bad.  Consensus rejects b, and the options, unless b extends a
\* block of the tree.
AddToConsensus(b, good, bad) ==
    LET verified == {b} \cup good
        inTree   == Parent[b] \in processing \cup {lastAccepted}
    IN  /\ processing' = IF inTree THEN processing \cup verified ELSE processing
        /\ status' = [x \in Blocks |-> IF x \in verified /\ ~inTree THEN "Rejected" ELSE status[x]]
        /\ nonVerifieds' = IF inTree THEN (nonVerifieds \ verified) \cup bad
                           ELSE nonVerifieds \ UNION {Subtree(x) : x \in verified}
        /\ nonVerifiedCache' \in {c \ verified : c \in IF inTree /\ bad # {}
                                                        THEN SUBSET (nonVerifiedCache \cup bad)
                                                        ELSE {nonVerifiedCache}}
        /\ UNCHANGED lastAccepted

\* The options in the order of the last two loops: the ones that were added first.
AddedFirst(options, bad) ==
    IF options # <<>> /\ options[1] \in bad /\ options[2] \notin bad THEN <<options[2], options[1]>>
    ELSE options

Deliver ==
    LET b    == stack[1].blk
        opts == Range(Options[b])
    IN  /\ Running("deliver")
        /\ \/ /\ Issued(b)
              /\ Return(<<>>)
              /\ UNCHANGED <<consensusVars, pending, nonVerifieds, nonVerifiedCache>>
           \/ /\ ~Issued(b) /\ ~Deliverable(b)
              /\ pending' = pending \ {b}
              /\ Return(<<Call("abandon", b)>>)
              /\ UNCHANGED <<consensusVars, nonVerifieds, nonVerifiedCache>>
           \/ /\ ~Issued(b) /\ Deliverable(b) /\ b \in Unreliable
              /\ pending' = pending \ {b}
              /\ AddToNonVerifieds(IF KeepsParent(b) THEN {b} ELSE {})
              /\ Return(<<Call("abandon", b)>>)
              /\ UNCHANGED consensusVars
           \/ /\ ~Issued(b) /\ Deliverable(b)
              /\ pending' = pending \ {b}
              /\ \E bad \in SUBSET (opts \cap Unreliable), preferred \in BOOLEAN :
                    /\ AddToConsensus(b, opts \ bad, bad)
                    /\ LET order == AddedFirst(Options[b], bad)
                       IN  Return((IF preferred THEN <<Do("query")>> ELSE <<>>)
                                  \o <<Call("fulfill", b)>>
                                  \o [i \in DOMAIN order |->
                                         Call(IF order[i] \in bad THEN "droppedOption" ELSE "addedOption", order[i])]
                                  \o <<Do("repoll")>>)
        /\ UNCHANGED <<blkReqs, blocked, polls, pendingBuildBlocks, added, gets, queries>>

\* Mutant: what waits for an option is not released.
ReleaseOptionNot(b) == <<Call("removeAny", b)>>
ReleaseOption(b) == <<Call("fulfill", b), Call("removeAny", b)>>

\* The loops over the options that were added and dropped.
Option ==
    LET b == stack[1].blk
    IN  /\ \/ /\ Running("addedOption")
              /\ \E preferred \in BOOLEAN :
                    Return((IF preferred THEN <<Do("query")>> ELSE <<>>) \o ReleaseOption(b))
           \/ /\ Running("droppedOption")
              /\ Return(<<Call("abandon", b), Call("removeAny", b)>>)
        /\ pending' = pending \ {b}
        /\ UNCHANGED <<consensusVars, blkReqs, nonVerifieds, nonVerifiedCache, blocked, polls,
                       pendingBuildBlocks, added, gets, queries>>

RemoveRequest ==
    /\ Running("removeAny")
    /\ RemoveAny(stack[1].blk)
    /\ Return(<<>>)
    /\ UNCHANGED <<consensusVars, pending, nonVerifieds, nonVerifiedCache, blocked, polls,
                   pendingBuildBlocks, added, gets, queries>>

-----------------------------------------------------------------------------
(* Polls, voter and repoll *)

\* The rest of Chits: vote, unless the block was not issued.
Chits ==
    LET call == stack[1]
        v    == Voter(call.node, call.id, call.blk)
    IN  /\ Running("chits")
        /\ \/ /\ added
              /\ Return(<<v>>)
              /\ UNCHANGED blocked
           \/ /\ ~added
              /\ blocked' = [blocked EXCEPT ![call.blk] = Append(@, v)]
              /\ Return(<<>>)
        /\ UNCHANGED <<consensusVars, pending, blkReqs, nonVerifieds, nonVerifiedCache, polls,
                       pendingBuildBlocks, added, gets, queries>>

\* Mutant: one finished poll is returned at a time.
FinishedOne(ps) == IF ps # <<>> /\ ps[1].done THEN 1 ELSE 0

\* poll.Set returns the oldest polls, as far as they are finished.
Finished(ps) ==
    LET open == {i \in DOMAIN ps : ~ps[i].done}
    IN  IF open = {} THEN Len(ps) ELSE (CHOOSE i \in open : \A j \in open : i <= j) - 1

\* voter.Update: the poll counts the vote or drops it, and the results that this
\* returns are recorded.  A poll is finished once nobody is left to wait for, or
\* earlier when the votes to come cannot matter.
Vote ==
    LET v     == stack[1]
        Of(p) == p.id = v.id /\ v.node \in p.waiting
        Counted(p, early) ==
            [p EXCEPT !.waiting = @ \ {v.node},
                      !.votes   = @ \cup ({v.blk} \ {None}),
                      !.done    = @ \/ early \/ p.waiting = {v.node}]
    IN  /\ Running("voter")
        /\ \E early \in BOOLEAN :
              LET ps == [i \in DOMAIN polls |->
                            IF Of(polls[i]) THEN Counted(polls[i], early) ELSE polls[i]]
                  n  == Finished(ps)
              IN  /\ polls' = SubSeq(ps, n + 1, Len(ps))
                  /\ Return(IF n = 0 THEN <<>>
                            ELSE [i \in 1..n |-> [op |-> "record", votes |-> ps[i].votes]]
                                 \o <<Do("settle")>>)
        /\ UNCHANGED <<consensusVars, issueVars, pendingBuildBlocks, added, gets, queries>>

\* RecordPoll accepts the way to a block last, whose parent needs votes below it,
\* and rejects what conflicts with it.
CanAccept(votes) ==
    {last \in processing : \E b \in votes : \E x \in Bubble(b) \ {None} : Parent[last] \in Ancestors[x]}
Accepted(last) == {x \in {last} \cup Ancestors[last] : Height[x] > Height[lastAccepted]}
Conflicting(last) ==
    {x \in processing : x # last /\ x \notin Ancestors[last] /\ last \notin Ancestors[x]}

\* memoryBlock forgets the blocks below the parent of an accepted block and below a
\* rejected block, as far as they are not verified.
Forgotten(last) ==
    (UNION {Subtree(Parent[x]) : x \in Accepted(last)}) \cup (UNION {Subtree(x) : x \in Conflicting(last)})

Record ==
    /\ Running("record")
    /\ \E last \in CanAccept(stack[1].votes) \cup {lastAccepted} :
          /\ lastAccepted' = last
          /\ processing' = processing \ (Accepted(last) \cup Conflicting(last))
          /\ status' = [x \in Blocks |-> CASE x \in Accepted(last)   -> "Accepted"
                                         [] x \in Conflicting(last) -> "Rejected"
                                         [] OTHER -> status[x]]
          /\ nonVerifieds' = nonVerifieds \ Forgotten(last)
    /\ Return(<<>>)
    /\ UNCHANGED <<pending, blkReqs, nonVerifiedCache, blocked, polls, pendingBuildBlocks, added,
                   gets, queries>>

Settle ==
    /\ Running("settle")
    /\ Return(IF processing = {} THEN <<>> ELSE <<Do("repoll")>>)
    /\ UNCHANGED <<consensusVars, issueVars, polls, pendingBuildBlocks, added, gets, queries>>

Repoll ==
    /\ Running("repoll")
    /\ Return([i \in 1..(ConcurrentRepolls - Len(polls)) |-> Do("query")])
    /\ UNCHANGED <<consensusVars, issueVars, polls, pendingBuildBlocks, added, gets, queries>>

\* sendQuery and pullQuery.  No poll is started when there are too few validators.
Query ==
    /\ Running("query")
    /\ Return(<<>>)
    /\ \/ UNCHANGED <<polls, queries>>
       \/ /\ FreePolls # {}
          /\ \E vdrs \in Samples :
                LET id == NextID(FreePolls)
                IN  /\ polls' = Append(polls, [id |-> id, waiting |-> vdrs, votes |-> {}, done |-> FALSE])
                    /\ queries' = queries \cup {[node |-> n, id |-> id] : n \in vdrs}
    /\ UNCHANGED <<consensusVars, issueVars, pendingBuildBlocks, added, gets>>

\* One iteration of the loop of buildBlocks, or its end.
BuildBlocks ==
    /\ Running("buildBlocks")
    /\ IF pendingBuildBlocks > 0 /\ Cardinality(processing) < OptimalProcessing
       THEN /\ pendingBuildBlocks' = pendingBuildBlocks - 1
            /\ \/ Return(<<>>)
               \/ \E b \in Blocks :
                     ~Issued(b) /\ Return(<<Call("issueWithAncestors", b), Do("buildBlocks")>>)
       ELSE Return(<<>>) /\ UNCHANGED pendingBuildBlocks
    /\ UNCHANGED <<consensusVars, issueVars, polls, added, gets, queries>>

-----------------------------------------------------------------------------
(* Handlers.  The router calls one at a time, and answers every Get and every    *)
(* query exactly once, with a message or with its failure.  A handler sends at   *)
(* most one Get; to bound them, one ID is kept for the votes.                   *)

Handle(calls) ==
    /\ stack = <<>>
    /\ stack' = calls \o <<Do("buildBlocks")>>
    /\ UNCHANGED <<consensusVars, nonVerifieds, nonVerifiedCache, pending, blocked, polls>>

\* Mutant: the request is forgotten, what waits for the block is not.
FailGetSilently(r) == Handle(<<>>) /\ blkReqs' = blkReqs \ {r}

\* GetFailed for an outstanding request.
FailGet(r) == Handle(<<Call("abandon", r.blk)>>) /\ blkReqs' = blkReqs \ {r}

\* The request that a node answers, if it was not removed meanwhile.
Expected(m) == {r \in blkReqs : r.node = m.node /\ r.id = m.id}

GetFailed(m) ==
    /\ stack = <<>>
    /\ gets' = gets \ {m}
    /\ \/ \E r \in Expected(m) : FailGet(r)
       \/ /\ Expected(m) = {}
          /\ UNCHANGED <<consensusVars, issueVars, polls, stack>>
    /\ UNCHANGED <<pendingBuildBlocks, added, queries>>

Put(m) ==
    \E b \in Blocks :
        /\ gets' = gets \ {m}
        /\ \/ \E r \in Expected(m) : r.blk # b /\ FailGet(r)
           \/ /\ \A r \in Expected(m) : r.blk = b
              /\ Handle(<<CallFrom("issueFrom", m.node, b)>>)
              /\ UNCHANGED blkReqs
        /\ UNCHANGED <<pendingBuildBlocks, added, queries>>

\* PushQuery, and a Put nobody asked for.
PushQuery ==
    \E node \in Nodes, b \in Blocks :
        /\ Cardinality(FreeGets) > 1
        /\ Handle(<<CallFrom("issueFrom", node, b)>>)
        /\ UNCHANGED <<blkReqs, pendingBuildBlocks, added, gets, queries>>

PullQuery ==
    \E node \in Nodes, b \in Blocks :
        /\ Cardinality(FreeGets) > 1
        /\ Handle(<<CallFrom("issueFromByID", node, b)>>)
        /\ UNCHANGED <<blkReqs, pendingBuildBlocks, added, gets, queries>>

ChitsFor(m, b) ==
    Handle(<<CallFrom("issueFromByID", m.node, b),
             [op |-> "chits", node |-> m.node, id |-> m.id, blk |-> b]>>)

\* Chits for b; QueryFailed votes for a block the node accepted before, or drops.
AnswerQuery(m) ==
    /\ FreeGets # {}
    /\ queries' = queries \ {m}
    /\ \/ \E b \in Blocks : ChitsFor(m, b)
       \/ Handle(<<Voter(m.node, m.id, None)>>)
    /\ UNCHANGED <<blkReqs, pendingBuildBlocks, added, gets>>

Notify ==
    /\ pendingBuildBlocks < MaxBuilds
    /\ Handle(<<>>)
    /\ pendingBuildBlocks' = pendingBuildBlocks + 1
    /\ UNCHANGED <<blkReqs, added, gets, queries>>

Step ==
    \/ IssueFrom \/ IssueWithAncestors \/ Deliver \/ Option \/ RemoveRequest
    \/ Fulfill \/ Abandon \/ AbandonIssuer
    \/ Chits \/ Vote \/ Record \/ Settle \/ Repoll \/ Query \/ BuildBlocks

AnswerGet(m) == GetFailed(m) \/ Put(m)

\* The VM no longer knows that it rejected b, as it keeps no record of that: parsed
\* again, the block is like a new one.
Forget(b) ==
    /\ status[b] = "Rejected"
    /\ status' = [status EXCEPT ![b] = "Processing"]
    /\ UNCHANGED <<processing, lastAccepted, issueVars, polls, pendingBuildBlocks, stack, added,
                   gets, queries>>

Next ==
    \/ \E b \in Blocks : Forget(b)
    \/ Step \/ PushQuery \/ PullQuery \/ Notify
    \/ \E m \in gets : AnswerGet(m)
    \/ \E m \in queries : AnswerQuery(m)

Spec == Init /\ [][Next]_vars

-----------------------------------------------------------------------------
(* Properties *)

\* The type invariant: the state of Transitive is well formed, a block is requested
\* once at a time (Requests assumes that containerIDs are), and polls differ in
\* their IDs.
TypeOK ==
    /\ status \in [Blocks -> {"Processing", "Accepted", "Rejected"}]
    /\ processing \subseteq {b \in Blocks : status[b] = "Processing"}
    /\ status[lastAccepted] = "Accepted"
    /\ pending \subseteq Blocks /\ nonVerifieds \subseteq Blocks /\ nonVerifiedCache \subseteq Blocks
    /\ blkReqs \subseteq [node : Nodes, id : 1..MaxGets, blk : Blocks]
    /\ \A r, q \in blkReqs : r.blk = q.blk \/ r.id = q.id => r = q
    /\ \A b \in Blocks : \A i \in DOMAIN blocked[b] : blocked[b][i].op \in {"issuer", "voter"}
    /\ \A i, j \in DOMAIN polls : polls[i].id = polls[j].id => i = j
    /\ pendingBuildBlocks \in 0..MaxBuilds

\* Between two messages, whatever waits for a block that may still be accepted will
\* be released: the block waits for its own parent in turn, or it was requested and
\* its Get is still to be answered.
Viable(b) == lastAccepted \in Ancestors[b]
Unanswered(r) == [node |-> r.node, id |-> r.id] \in gets
Queued(b) == \E i \in DOMAIN blocked[Parent[b]] : blocked[Parent[b]][i] = Call("issuer", b)
NoDanglingDependency ==
    stack = <<>> =>
        \A b \in Blocks : Viable(b) =>
            /\ blocked[b] # <<>> => b \in pending \/ \E r \in blkReqs : r.blk = b /\ Unanswered(r)
            /\ b \in pending => Queued(b)

\* pending holds "blocks that are queued to be issued to consensus once missing
\* dependencies are fetched": each has its issuer registered.
PendingIsQueued == stack = <<>> => \A b \in pending : Queued(b)

\* Between two messages "a dependency should never be waiting on a decided or
\* processing block", unless it was rejected, as issueFrom remarks.
NothingWaitsForIssued ==
    stack = <<>> => \A b \in Blocks : b \in processing \/ status[b] = "Accepted" => blocked[b] = <<>>

\* A vote for a block that failed verification, or whose ancestor did, counts for
\* the nearest ancestor in consensus: the chain to it through nonVerifieds is
\* never broken, although blocks are decided, added and evicted meanwhile.
VotesBubble ==
    \A b \in nonVerifieds :
        /\ b \notin processing
        /\ lastAccepted \in Ancestors[b]
        /\ Bubble(b) = LET above == Ancestors[b] \cap processing
                       IN  {IF above = {} THEN None ELSE Nearest(above)}

\* Verify is only called on a block whose parent was verified, so that consensus
\* rejects no block on arrival: a block is decided only after it was processing.
\* A rejected block does not come back, although the VM may forget that it was.
DecidedWasProcessing ==
    \A b \in Blocks : status'[b] \notin {status[b], "Processing"} => b \in processing
VerifyAllowed == [][DecidedWasProcessing]_vars

\* No vote gets lost: between two messages, a node that a poll waits for has yet to
\* answer its query, or its vote waits for a block, and the oldest poll has not
\* finished.
VoteWaits(n, id) ==
    \E b \in Blocks : \E v \in Range(blocked[b]) : v.op = "voter" /\ v.node = n /\ v.id = id
EveryVoteComes ==
    stack = <<>> =>
        /\ polls # <<>> => ~Head(polls).done
        /\ \A p \in Range(polls) : \A n \in p.waiting :
              [node |-> n, id |-> p.id] \in queries \/ VoteWaits(n, p.id)
=============================================================================
