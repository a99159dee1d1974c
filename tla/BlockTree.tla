----------------------------- MODULE BlockTree ------------------------------
(* The blocks that may ever be issued, a tree by Block.Parent and            *)
(* Block.Height (snow/consensus/snowman/block.go), and the votes of a poll   *)
(* for them.                                                                *)
EXTENDS SnowballParameters, FiniteSets

CONSTANTS
    Blocks, Genesis,     \* the block IDs; the block consensus starts from
    Parent, Height,      \* of each block
    Ancestors,           \* the strict ancestors of each block
    None                 \* not a block

\* The blocks form a tree.
ASSUME BlockAssumption ==
    /\ Genesis \in Blocks /\ None \notin Blocks
    /\ Parent \in [Blocks \ {Genesis} -> Blocks]
    /\ Height \in [Blocks -> Nat]
    /\ \A b \in Blocks \ {Genesis} : Height[b] = Height[Parent[b]] + 1

\* Ancestors is the ancestor relation of that tree.
ASSUME AncestorAssumption ==
    /\ Ancestors \in [Blocks -> SUBSET Blocks]
    /\ Ancestors[Genesis] = {}
    /\ \A b \in Blocks \ {Genesis} :
          Ancestors[b] = {Parent[b]} \cup Ancestors[Parent[b]] /\ Genesis \in Ancestors[b]
    /\ \A b \in Blocks : \A a \in Ancestors[b] :
          /\ Ancestors[a] \subseteq Ancestors[b]
          /\ Height[a] < Height[b]
          /\ \A x \in Ancestors[b] : Height[x] = Height[a] => x = a
          /\ \E c \in Blocks \ {Genesis} : Parent[c] = a /\ (c = b \/ c \in Ancestors[b])

-----------------------------------------------------------------------------

\* The votes of a poll: at most one block for each of the K validators.
Slots == 1..K
NoVotes == [s \in Slots |-> None]

\* The slots whose vote, pushed towards the genesis, reaches a child of p, and
\* those that reach block c itself.
VotesBelow(vs, p) == {s \in Slots : vs[s] # None /\ p \in Ancestors[vs[s]]}
VotesThrough(vs, c) == {s \in Slots : vs[s] = c} \cup VotesBelow(vs, c)

\* Mutant: votes for blocks that were never issued count.
ValidVotesAll(vs, tree, head) ==
    [s \in Slots |-> IF vs[s] # None /\ head \in Ancestors[vs[s]] THEN vs[s] ELSE None]

\* Votes for blocks that are not processing are dropped: head is the last
\* accepted block in the tree.
ValidVotes(vs, tree, head) ==
    [s \in Slots |-> IF vs[s] \in tree \ {head} THEN vs[s] ELSE None]

\* calculateInDegree counts the edge to the parent of n twice if a vote for a
\* child of n comes before all votes further below n.  Then the parent of n and
\* the blocks above it never become leaves in pushVotes (see KahnVotes).
CountedTwice(vs, tree, head) ==
    {n \in tree \ {head} :
        /\ \E s \in Slots : vs[s] # None /\ Parent[vs[s]] = n
        /\ \E s \in Slots : vs[s] # None /\ n \in Ancestors[Parent[vs[s]]]}

\* The blocks on voteStack: those with alpha votes below them, except the ones
\* above a block whose edge was counted twice.
OnStack(vs, tree, twice) ==
    {p \in tree : /\ Cardinality(VotesBelow(vs, p)) >= Alpha
                  /\ \A n \in twice : p \notin Ancestors[n]}
=============================================================================
