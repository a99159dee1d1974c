---------------------------- MODULE MCKahnVotes -----------------------------
(* Instances of KahnVotes for TLC. *)
EXTENDS KahnVotes

CONSTANTS g, a, b, c, d, e, f

\* A chain of four blocks below the genesis, with forks at the genesis and at
\* the first of them.
MCBlocks == {g, a, b, c, d, e, f}
MCParent == [x \in {a, b, c, d, e, f} |-> CASE x \in {a, b} -> g [] x \in {c, d} -> a [] x = e -> c [] x = f -> e]
MCHeight == [x \in MCBlocks |-> CASE x = g -> 0 [] x \in {a, b} -> 1 [] x \in {c, d} -> 2 [] x = e -> 3 [] x = f -> 4]
MCAncestors ==
    [x \in MCBlocks |-> CASE x = g -> {} [] x \in {a, b} -> {g} [] x \in {c, d} -> {g, a} [] x = e -> {g, a, c} [] x = f -> {g, a, c, e}]
=============================================================================
