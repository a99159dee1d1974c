---------------------------- MODULE MCTransitive ----------------------------
(* Blocks on the genesis block 0: the branches 1 <- 2 <- 5 and 3 <- 4, and 6 on 1. *)
(* Where there is a block 6, blocks 2 and 6 are the options of block 1.           *)
EXTENDS Transitive

MCBlocks == 0..4
MCBlocksOracle == {0, 1, 2, 5, 6}
MCParent == [b \in Blocks \ {0} |-> CASE b \in {1, 3} -> 0 [] b \in {2, 6} -> 1 [] b = 4 -> 3 [] b = 5 -> 2]
MCHeight == [b \in Blocks |-> CASE b = 0 -> 0 [] b \in {1, 3} -> 1 [] b = 5 -> 3 [] OTHER -> 2]
MCAncestors ==
    [b \in Blocks |-> CASE b = 0 -> {} [] b \in {1, 3} -> {0} [] b \in {2, 6} -> {0, 1}
                        [] b = 4 -> {0, 3} [] b = 5 -> {0, 1, 2}]
MCNone == -1
MCOptions == [b \in Blocks |-> IF b = 1 /\ 6 \in Blocks THEN <<2, 6>> ELSE <<>>]
MCSamples == {Nodes}
=============================================================================
