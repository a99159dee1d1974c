---------------------------- MODULE SnowballTree ----------------------------
(***************************************************************************)
(* A snowball tree under any sequence of added choices and polls.  Next to  *)
(* it runs a reference without its optimisations: one snowball instance per *)
(* bit and prefix, every reset done at once.  The two must be               *)
(* indistinguishable to the caller.                                         *)
(***************************************************************************)
EXTENDS SnowballTreeNodes

CONSTANTS
    Choices,        \* the IDs that may be added: sequences of NumBits bits
    MaxPolls        \* bound on the number of polls

ASSUME TreeAssumption ==
    /\ NumBits \in Nat \ {0}
    /\ Choices \subseteq [1..NumBits -> {0, 1}]

VARIABLES
    tree,         \* the Tree
    added,        \* the choices passed to Initialize and Add
    ref,          \* the reference: prefix -> instance
    result,       \* what RecordPoll last returned before the decision, from the
                  \* tree and the reference
    polls         \* number of polls

vars == <<tree, added, ref, result, polls>>

Bags == {v \in [Choices -> 0..K] : Total(v) <= K}

-----------------------------------------------------------------------------
(* The reference: an instance for every prefix of an added choice.  seen is *)
(* the set of next bits known at this prefix.                               *)

Prefixes == UNION {[1..l -> {0, 1}] : l \in 0..(NumBits - 1)}

Absent == [seen |-> {}, slush |-> 0, preference |-> 0, confidence |-> 0,
           finalized |-> FALSE, num |-> [b \in {0, 1} |-> 0]]

IsBelow(p, q) == Len(p) <= Len(q) /\ SubSeq(q, 1, Len(p)) = p

\* A choice is dropped once it contradicts a decision.
RECURSIVE RefAdd(_, _, _)
RefAdd(r, p, id) ==
    IF Len(p) = NumBits THEN r
    ELSE LET i   == r[p]
             bit == Bit(id, Len(p))
         IN  IF i.finalized /\ i.slush # bit THEN r
             ELSE RefAdd([r EXCEPT ![p] =
                             IF i.seen = {}
                             THEN [Absent EXCEPT !.seen = {bit}, !.slush = bit, !.preference = bit]
                             ELSE [i EXCEPT !.seen = @ \cup {bit}]],
                         Append(p, bit), id)

RefReset(r, p) == [q \in Prefixes |-> IF IsBelow(p, q) THEN Unsuccessful(r[q]) ELSE r[q]]

RefFor(votes, p, bit) == Filter(votes, {id \in DOMAIN votes : Bit(id, Len(p)) = bit})

\* A poll descends from the root into the bit with alpha votes; everything it
\* does not reach is reset.  A decided instance only passes the votes on.
RECURSIVE RefRecordPoll(_, _, _)
RefRecordPoll(r, p, votes) ==
    IF Len(p) = NumBits THEN r
    ELSE IF r[p].finalized
    THEN RefRecordPoll(r, Append(p, r[p].slush), RefFor(votes, p, r[p].slush))
    ELSE LET won == {b \in {0, 1} : Total(RefFor(votes, p, b)) >= Alpha}
         IN  IF won = {} THEN RefReset(r, p)
             ELSE LET b    == CHOOSE x \in won : TRUE
                      beta == IF r[p].seen = {b} THEN BetaVirtuous ELSE BetaRogue
                      r1   == [RefReset(r, Append(p, 1 - b)) EXCEPT
                                  ![p] = BinarySuccess(@, b, beta)]
                  IN  RefRecordPoll(r1, Append(p, b), RefFor(votes, p, b))

\* Whether a poll succeeds at the first undecided bit.
RECURSIVE RefSuccessful(_, _, _)
RefSuccessful(r, p, votes) ==
    IF r[p].finalized
    THEN RefSuccessful(r, Append(p, r[p].slush), RefFor(votes, p, r[p].slush))
    ELSE \E b \in {0, 1} : Total(RefFor(votes, p, b)) >= Alpha

RECURSIVE RefPreference(_, _)
RefPreference(r, p) ==
    IF Len(p) = NumBits THEN p ELSE RefPreference(r, Append(p, InstancePreference(r[p])))

RefFinalized(r) ==
    \A l \in 0..(NumBits - 1) : r[SubSeq(RefPreference(r, <<>>), 1, l)].finalized

-----------------------------------------------------------------------------
(* The tree *)

Init ==
    \E c \in Choices :
        /\ tree = NewTree(c)
        /\ added = {c}
        /\ ref = RefAdd([p \in Prefixes |-> Absent], <<>>, c)
        /\ result = [tree |-> TRUE, reference |-> TRUE]
        /\ polls = 0

Add(choice) ==
    /\ choice \notin added
    /\ tree' = TreeAdd(tree, choice)
    /\ added' = added \cup {choice}
    /\ ref' = RefAdd(ref, <<>>, choice)
    /\ UNCHANGED <<result, polls>>

RecordPoll(votes) ==
    LET r == TreeRecordPoll(tree, votes)
    IN  /\ polls < MaxPolls
        /\ tree' = r.tree
        /\ ref' = RefRecordPoll(ref, <<>>, votes)
        /\ result' = IF Finalized(tree.node) THEN result
                     ELSE [tree |-> r.successful, reference |-> RefSuccessful(ref, <<>>, votes)]
        /\ polls' = polls + 1
        /\ UNCHANGED added

RecordUnsuccessfulPoll ==
    /\ polls < MaxPolls
    /\ tree' = TreeUnsuccessful(tree)
    /\ ref' = RefReset(ref, <<>>)
    /\ polls' = polls + 1
    /\ UNCHANGED <<added, result>>

Next ==
    \/ \E c \in Choices : Add(c)
    \/ \E votes \in Bags : (\A c \in Choices \ added : votes[c] = 0) /\ RecordPoll(votes)
    \/ RecordUnsuccessfulPoll

Spec == Init /\ [][Next]_vars

-----------------------------------------------------------------------------
(* Properties *)

\* The patricia tree with its delayed resets cannot be told from one instance
\* per bit that is reset at once: same preference, same decision, and the same
\* answer from RecordPoll.
MatchesReference ==
    /\ Preference(tree.node) = RefPreference(ref, <<>>)
    /\ Finalized(tree.node) = RefFinalized(ref)
    /\ result.tree = result.reference

RECURSIVE Nodes(_)
Nodes(n) ==
    IF n = Nil THEN {}
    ELSE {n} \cup IF n.kind = "unary" THEN Nodes(n.child)
                  ELSE Nodes(n.children[0]) \cup Nodes(n.children[1])

\* What unaryNode.RecordPoll relies on when it passes its votes on unfiltered:
\* no decision was made under a unary node, so the child starts at the bit
\* where the node ends.
NoDecisionUnderUnary ==
    \A n \in Nodes(tree.node) :
        n.kind = "unary" =>
            /\ n.decidedPrefix < n.commonPrefix
            /\ n.child # Nil => n.commonPrefix = DecidedPrefix(n.child) /\ ~Finalized(n.child)
            /\ n.child = Nil => n.commonPrefix = NumBits

\* The preference that a node keeps is the one its subtree would compute, so
\* reading the preference at the root needs no traversal.
PreferencesCached ==
    \A n \in Nodes(tree.node) :
        IF n.kind = "unary"
        THEN n.child # Nil => n.preference = Preference(n.child)
        ELSE \A b \in {0, 1} :
                /\ Bit(n.preferences[b], n.bit) = b
                /\ n.children[b] # Nil => n.preferences[b] = Preference(n.children[b])
=============================================================================
