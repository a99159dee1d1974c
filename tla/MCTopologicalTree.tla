------------------------- MODULE MCTopologicalTree --------------------------
(* Instances of TopologicalTree for TLC: the IDs of the blocks are their    *)
(* bits, so that the snowball trees can split on them.                      *)
EXTENDS TopologicalTree

MCGenesis == <<1, 1, 1>>
A == <<0, 0, 0>>
B == <<0, 0, 1>>
C == <<0, 1, 0>>
D == <<0, 1, 1>>

\* A fork of A and B below the genesis, and of C and D below A.
MCBlocks == {MCGenesis, A, B, C, D}
MCParent == [x \in {A, B, C, D} |-> IF x \in {C, D} THEN A ELSE MCGenesis]
MCHeight == [x \in MCBlocks |-> IF x = MCGenesis THEN 0 ELSE IF x \in {C, D} THEN 2 ELSE 1]
MCAncestors ==
    [x \in MCBlocks |-> IF x = MCGenesis THEN {}
                        ELSE IF x \in {C, D} THEN {MCGenesis, A} ELSE {MCGenesis}]

\* The trees after up to three calls, over three choices.
SampleBags == [{A, B, C} -> 0..2]
AfterCalls[n \in 0..3] ==
    IF n = 0 THEN {NewTree(A)}
    ELSE LET S == AfterCalls[n - 1]
         IN  S \cup {TreeAdd(t, c) : t \in S, c \in {B, C}}
               \cup {TreeUnsuccessful(t) : t \in S}
               \cup UNION {TreePolls(t, v) : t \in S, v \in SampleBags}

\* What TopologicalContract assumes of unsuccessful polls, for these trees.
ASSUME TreeFalterAssumption ==
    \A s \in AfterCalls[3] :
        /\ TreeSame(TreeUnsuccessful(TreeUnsuccessful(s)), TreeUnsuccessful(s))
        /\ TreePreference(TreeUnsuccessful(s)) = TreePreference(s)
        /\ TreeFinalized(TreeUnsuccessful(s)) = TreeFinalized(s)
        /\ \A c \in {B, C} :
              /\ TreeSame(TreeUnsuccessful(TreeAdd(s, c)), TreeAdd(TreeUnsuccessful(s), c))
              /\ TreeSame(TreeUnsuccessful(NewTree(c)), NewTree(c))
        /\ \A t \in AfterCalls[3] : TreeSame(s, t) =>
              /\ TreePreference(s) = TreePreference(t) /\ TreeFinalized(s) = TreeFinalized(t)
              /\ TreeSame(TreeUnsuccessful(s), TreeUnsuccessful(t))
              /\ \A c \in {B, C} : TreeSame(TreeAdd(s, c), TreeAdd(t, c))
              /\ \A v \in SampleBags : \A x \in TreePolls(s, v), y \in TreePolls(t, v) : TreeSame(x, y)
=============================================================================
