--------------------------- MODULE MCTopological ----------------------------
(* Instances of Topological for TLC. *)
EXTENDS TopologicalContract

CONSTANTS g, a, b, c, d, f

\* Two forks, one below the other, on branches of one to three blocks.
MCBlocks == {g, a, b, c, d, f}
MCParent == [x \in {a, b, c, d, f} |-> CASE x \in {a, b} -> g [] x \in {c, d} -> a [] x = f -> c]
MCHeight == [x \in MCBlocks |-> CASE x = g -> 0 [] x \in {a, b} -> 1 [] x \in {c, d} -> 2 [] x = f -> 3]
MCAncestors ==
    [x \in MCBlocks |-> CASE x = g -> {} [] x \in {a, b} -> {g}
                          [] x \in {c, d} -> {g, a} [] x = f -> {g, a, c}]

\* An instance that does anything the contract allows, and knows whether an
\* unsuccessful poll would make a difference to it.
MCSbStates ==
    {s \in [choices : (SUBSET MCBlocks) \ {{}}, preference : MCBlocks, finalized : BOOLEAN,
           running : BOOLEAN] :
        s.preference \in s.choices}
MCSbNew(x) == [choices |-> {x}, preference |-> x, finalized |-> FALSE, running |-> FALSE]
MCSbAdd(s, x) == [s EXCEPT !.choices = @ \cup {x}]
MCSbFalter(s) == [s EXCEPT !.running = FALSE]
MCSbPolls(s, v) ==
    IF s.finalized THEN {s}
    ELSE {[s EXCEPT !.preference = p, !.finalized = q, !.running = TRUE] :
             p \in s.choices, q \in BOOLEAN}
MCSbPreference(s) == s.preference
MCSbFinalized(s) == s.finalized
MCSbChoices(s) == s.choices
MCSbSame(s, t) == s = t
=============================================================================
