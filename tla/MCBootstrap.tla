---------------------------- MODULE MCBootstrap -----------------------------
(* Instances of Bootstrap for TLC: the chain 0 <- 1 <- 2 <- 3, and a block 4   *)
(* on 1 that the network does not accept.  The faulty beacon's weight is 1,    *)
(* the correct one's 2.                                                        *)
EXTENDS Bootstrap

CONSTANTS correct, faulty

MCBlocks == 0..4
MCChain == 0..3
MCParent == [b \in 1..4 |-> IF b = 4 THEN 1 ELSE b - 1]
MCHeight == [b \in 0..4 |-> IF b = 4 THEN 2 ELSE b]
MCWeight == [n \in {correct, faulty} |-> IF n = correct THEN 2 ELSE 1]
=============================================================================
