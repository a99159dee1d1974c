----------------------------- MODULE KahnVotes ------------------------------
(***************************************************************************)
(* calculateInDegree and pushVotes of snow/consensus/snowman/topological.go: *)
(* how RecordPoll finds the blocks with alpha votes below them, by a         *)
(* topological sort of the blocks above the votes.  The votes come in the    *)
(* order of a map (Bag.List), and leaves are taken from a set in any order.  *)
(***************************************************************************)
EXTENDS BlockTree, Sequences

VARIABLES
    blocks, head,    \* the tree of Topological and its last accepted block
    votes,           \* the votes of the poll: slot -> block
    todo,            \* the voted blocks calculateInDegree has not looked at
    kahnNodes,       \* block -> [seen, inDegree, votes, size]; seen: is a key;
                     \* votes and size: the counts and the size of the Bag
    leaves,
    voteStack,
    pc, at,          \* at: where the loop over the ancestors is
    twice            \* history: blocks that were leaves and reached from below

vars == <<blocks, head, votes, todo, kahnNodes, leaves, voteStack, pc, at, twice>>

NewNode == [seen |-> FALSE, inDegree |-> 0, votes |-> [b \in Blocks |-> 0], size |-> 0]

\* Mutant: the votes of a bag count once.
CountOnce(v) == 1
Count(v) == Cardinality({s \in Slots : votes[s] = v})

\* Bag.AddCount on the votes of a node.
AddCount(node, elt, count) ==
    [node EXCEPT !.votes[elt] = @ + count, !.size = @ + count]

\* Any tree rooted in any head, and any votes.
Init ==
    /\ head \in Blocks
    /\ blocks \in {t \cup {head} : t \in SUBSET {b \in Blocks : head \in Ancestors[b]}}
    /\ \A b \in blocks \ {head} : Parent[b] \in blocks
    /\ votes \in [Slots -> Blocks \cup {None}]
    /\ todo = {votes[s] : s \in Slots} \ {None}
    /\ kahnNodes = [b \in Blocks |-> NewNode]
    /\ leaves = {} /\ voteStack = <<>> /\ twice = {}
    /\ pc = "count" /\ at = None

-----------------------------------------------------------------------------
(* calculateInDegree *)

\* A vote for a block that is not processing is dropped.
DropVote(v) ==
    /\ v \notin blocks \/ v = head
    /\ UNCHANGED <<kahnNodes, leaves, pc, at>>

\* The vote counts for the instance of the parent.  If the parent is new, it is a
\* leaf, and the loop over its ancestors starts.
CountVote(v) ==
    LET p == Parent[v]
    IN  /\ v \in blocks /\ v # head
        /\ kahnNodes' = [kahnNodes EXCEPT ![p] = AddCount([@ EXCEPT !.seen = TRUE], v, Count(v))]
        /\ IF kahnNodes[p].seen
           THEN UNCHANGED <<leaves, pc, at>>
           ELSE /\ leaves' = leaves \cup {p}
                /\ IF p = head THEN UNCHANGED <<pc, at>> ELSE pc' = "climb" /\ at' = p

TakeVote ==
    /\ pc = "count"
    /\ \E v \in todo : todo' = todo \ {v} /\ (DropVote(v) \/ CountVote(v))
    /\ UNCHANGED <<blocks, head, votes, voteStack, twice>>

\* One ancestor.  The loop ends at the first one that was reached before.
Climb ==
    LET p == Parent[at]
    IN  /\ pc = "climb"
        /\ kahnNodes' = [kahnNodes EXCEPT ![p].seen = TRUE, ![p].inDegree = @ + 1]
        /\ IF kahnNodes'[p].inDegree # 1
           THEN pc' = "count" /\ at' = None /\ UNCHANGED <<leaves, twice>>
           ELSE /\ leaves' = leaves \ {p}
                /\ twice' = IF p \in leaves /\ p # head THEN twice \cup {p} ELSE twice
                /\ IF p = head THEN pc' = "count" /\ at' = None
                               ELSE pc' = "climb" /\ at' = p
        /\ UNCHANGED <<blocks, head, votes, todo, voteStack>>

Counted ==
    /\ pc = "count" /\ todo = {}
    /\ pc' = "push"
    /\ UNCHANGED <<blocks, head, votes, todo, kahnNodes, leaves, voteStack, at, twice>>

-----------------------------------------------------------------------------
(* pushVotes *)

\* Mutant: a block is a leaf while one edge is still to be pushed.
IsLeafEarly(node) == node.inDegree <= 1
IsLeaf(node) == node.inDegree = 0

\* The leaf goes to the stack if alpha votes are below it, and its votes go to its
\* parent.
Push(leaf) ==
    LET p      == Parent[leaf]
        node   == kahnNodes[leaf]
        parent == kahnNodes[p]
    IN  /\ voteStack' = IF node.size >= Alpha
                        THEN Append(voteStack, [parentID |-> leaf, votes |-> node.votes])
                        ELSE voteStack
        /\ IF leaf = head
           THEN leaves' = leaves \ {leaf} /\ UNCHANGED kahnNodes
           ELSE /\ kahnNodes' = [kahnNodes EXCEPT ![p] =
                                    AddCount([parent EXCEPT !.inDegree = @ - 1], leaf, node.size)]
                /\ leaves' = (leaves \ {leaf}) \cup
                             (IF IsLeaf(kahnNodes'[p]) THEN {p} ELSE {})

PushLeaf ==
    /\ pc = "push"
    /\ \E leaf \in leaves : Push(leaf)
    /\ UNCHANGED <<blocks, head, votes, todo, pc, at, twice>>

Pushed ==
    /\ pc = "push" /\ leaves = {}
    /\ pc' = "done"
    /\ UNCHANGED <<blocks, head, votes, todo, kahnNodes, leaves, voteStack, at, twice>>

Next == TakeVote \/ Climb \/ Counted \/ PushLeaf \/ Pushed

Spec == Init /\ [][Next]_vars

-----------------------------------------------------------------------------
(* Properties *)

Valid == ValidVotes(votes, blocks, head)
StackIDs == {voteStack[i].parentID : i \in 1..Len(voteStack)}

\* In whatever order the votes and the leaves come, voteStack ends up holding what
\* Topological takes it to hold: the blocks with alpha votes below them that are
\* not above a block counted twice, each once, descendants first, each with the
\* votes that go through each of its children.
StackIsOnStack ==
    pc = "done" =>
        /\ twice \subseteq CountedTwice(Valid, blocks, head)
        /\ StackIDs = OnStack(Valid, blocks, twice)
        /\ \A i \in 1..Len(voteStack) :
              /\ \A j \in 1..(i - 1) : voteStack[i].parentID \in Ancestors[voteStack[j].parentID]
              /\ voteStack[i].votes =
                    [c \in Blocks |-> IF c \in blocks /\ c # head /\ Parent[c] = voteStack[i].parentID
                                      THEN Cardinality(VotesThrough(Valid, c)) ELSE 0]

\* While votes are pushed, no count of a block that is about to push is lost: a leaf
\* holds all votes below it.  Only processing blocks and head are counted, and no
\* in-degree goes below zero.
VotesConserved ==
    pc = "push" =>
        \A b \in Blocks :
            /\ kahnNodes[b].seen => b \in blocks /\ kahnNodes[b].inDegree >= 0
            /\ b \in leaves => kahnNodes[b].size = Cardinality(VotesBelow(Valid, b))
=============================================================================
