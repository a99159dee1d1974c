-------------------------- MODULE SnowballTreeNodes -------------------------
(***************************************************************************)
(* Tree (snow/consensus/snowball/tree.go): a patricia tree of unary and     *)
(* binary snowball instances over the bits of the choices.  One unary node  *)
(* stands for a run of bits on which all its choices agree, decided nodes   *)
(* are cut off the top, and the reset of a subtree that lost a poll is put  *)
(* off until the subtree is next visited (shouldReset).                     *)
(*                                                                          *)
(* Nodes are records; a method that changes its receiver is an operator     *)
(* that returns the new node.                                               *)
(***************************************************************************)
EXTENDS Snowball, SnowballParameters, Sequences, FiniteSets

Sets == INSTANCE FiniteSetsExt

CONSTANT NumBits        \* ids.NumBits

Bit(id, i) == id[i + 1]
EqualSubset(start, stop, x, y) == \A i \in start..(stop - 1) : Bit(x, i) = Bit(y, i)
Differences(start, stop, x, y) == {i \in start..(stop - 1) : Bit(x, i) # Bit(y, i)}

\* A bag of votes is a function from choices to counts.
Total(votes) == Sets!MapThenSumSet(LAMBDA c : votes[c], DOMAIN votes)
Filter(votes, kept) == [c \in DOMAIN votes |-> IF c \in kept THEN votes[c] ELSE 0]

-----------------------------------------------------------------------------
(* Nodes *)

Nil == [kind |-> "nil"]

NewUnaryNode(preference, decidedPrefix) ==
    [kind |-> "unary", preference |-> preference, decidedPrefix |-> decidedPrefix,
     commonPrefix |-> NumBits, snowball |-> NewUnary, shouldReset |-> FALSE, child |-> Nil]

Preference(n) ==
    IF n.kind = "unary" THEN n.preference ELSE n.preferences[InstancePreference(n.snowball)]

DecidedPrefix(n) == IF n.kind = "unary" THEN n.decidedPrefix ELSE n.bit

Finalized(n) == n.snowball.finalized

\* Mutant: a node split on its last bit still covers that bit.
SplitLastKeepsBit(u, fork) == [u EXCEPT !.child = fork]

SplitLast(u, fork) == [u EXCEPT !.commonPrefix = @ - 1, !.child = fork]

\* unaryNode.Add when newChoice differs from the node's preference, first at index.
Split(u, newChoice, index) ==
    LET bit == Bit(u.preference, index)
        newChild == NewUnaryNode(newChoice, index + 1)
        Fork(same, other) ==
            [kind |-> "binary", bit |-> index,
             snowball |-> Extend(u.snowball, bit),
             shouldReset |-> [b \in {0, 1} |-> u.shouldReset],
             preferences |-> [b \in {0, 1} |-> IF b = bit THEN u.preference ELSE newChoice],
             children |-> [b \in {0, 1} |-> IF b = bit THEN same ELSE other]]
        below == IF u.child = Nil THEN Nil ELSE newChild
    IN  CASE u.decidedPrefix = u.commonPrefix - 1 -> Fork(u.child, below)
          [] u.decidedPrefix # u.commonPrefix - 1 /\ index = u.decidedPrefix ->
                Fork([u EXCEPT !.decidedPrefix = @ + 1], newChild)
          [] index # u.decidedPrefix /\ index = u.commonPrefix - 1 ->
                SplitLast(u, Fork(u.child, below))
          [] index # u.decidedPrefix /\ index # u.commonPrefix - 1 ->
                [u EXCEPT !.commonPrefix = index, !.shouldReset = FALSE,
                          !.child = Fork([u EXCEPT !.decidedPrefix = index + 1], newChild)]

RECURSIVE NodeAdd(_, _)
UnaryAdd(u, newChoice) ==
    LET diff == Differences(u.decidedPrefix, u.commonPrefix, u.preference, newChoice)
    IN  IF Finalized(u) \/ (diff = {} /\ u.child = Nil) THEN u
        ELSE IF diff = {} THEN [u EXCEPT !.child = NodeAdd(@, newChoice)]
        ELSE Split(u, newChoice, Sets!Min(diff))

BinaryAdd(b, id) ==
    LET bit == Bit(id, b.bit)
        child == b.children[bit]
    IN  IF /\ child # Nil
           /\ EqualSubset(b.bit + 1, DecidedPrefix(child), b.preferences[bit], id)
        THEN [b EXCEPT !.children[bit] = NodeAdd(@, id)]
        ELSE b

NodeAdd(n, id) == IF n.kind = "unary" THEN UnaryAdd(n, id) ELSE BinaryAdd(n, id)

\* RecordPoll returns the node that replaces the receiver and whether the poll
\* was successful there.
RECURSIVE NodeRecordPoll(_, _, _)

\* Mutant: the preference of the child is not taken over.
PassedOnStale(u, newChild) == [u EXCEPT !.child = newChild, !.shouldReset = FALSE]

PassedOn(u, newChild) ==
    [u EXCEPT !.child = newChild, !.preference = Preference(newChild), !.shouldReset = FALSE]

UnaryRecordPoll(u0, votes, reset) ==
    LET u == IF reset THEN [u0 EXCEPT !.snowball = Unsuccessful(@), !.shouldReset = TRUE] ELSE u0
    IN  IF Total(votes) < Alpha
        THEN [node |-> [u EXCEPT !.snowball = Unsuccessful(@), !.shouldReset = TRUE],
              successful |-> FALSE]
        ELSE LET u1 == [u EXCEPT !.snowball = UnarySuccess(@, BetaVirtuous)]
             IN  IF u1.child = Nil
                 THEN [node |-> [u1 EXCEPT !.shouldReset = FALSE], successful |-> TRUE]
                 ELSE LET newChild == NodeRecordPoll(u1.child, votes, u1.shouldReset).node
                      IN  [node |-> IF Finalized(u1) THEN newChild
                                    ELSE PassedOn(u1, newChild),
                           successful |-> TRUE]

\* Mutant: the branch that lost the poll is not reset.
MarkResetsWinner(b, bit, reset) == [b EXCEPT !.shouldReset[bit] = @ \/ reset]

MarkResets(b, bit, reset) ==
    [b EXCEPT !.shouldReset[bit] = @ \/ reset, !.shouldReset[1 - bit] = TRUE]

BinaryRecordPoll(b0, votes, reset) ==
    LET For(x)  == Filter(votes, {id \in DOMAIN votes : Bit(id, b0.bit) = x})
        bit     == IF Total(For(1)) >= Alpha THEN 1 ELSE 0
        b       == [MarkResets(b0, bit, reset) EXCEPT
                       !.snowball = IF reset THEN Unsuccessful(@) ELSE @]
        child   == b.children[bit]
    IN  IF Total(For(bit)) < Alpha
        THEN [node |-> [b EXCEPT !.snowball = Unsuccessful(@), !.shouldReset[bit] = TRUE],
              successful |-> FALSE]
        ELSE LET b1 == [b EXCEPT !.snowball = BinarySuccess(@, bit, BetaRogue)]
             IN  IF child = Nil
                 THEN [node |-> [b1 EXCEPT !.shouldReset[bit] = FALSE], successful |-> TRUE]
                 ELSE LET valid == Filter(For(bit), {id \in DOMAIN votes :
                                       EqualSubset(b.bit + 1, DecidedPrefix(child),
                                                   b.preferences[bit], id)})
                          newChild == NodeRecordPoll(child, valid, b.shouldReset[bit]).node
                      IN  [node |-> IF Finalized(b1) THEN newChild
                                    ELSE [b1 EXCEPT !.children[bit] = newChild,
                                                    !.preferences[bit] = Preference(newChild),
                                                    !.shouldReset[bit] = FALSE],
                           successful |-> TRUE]

NodeRecordPoll(n, votes, reset) ==
    IF n.kind = "unary" THEN UnaryRecordPoll(n, votes, reset)
    ELSE BinaryRecordPoll(n, votes, reset)

-----------------------------------------------------------------------------
(* Tree *)

NewTree(choice) == [node |-> NewUnaryNode(choice, 0), shouldReset |-> FALSE]

TreeAdd(t, choice) ==
    IF EqualSubset(0, DecidedPrefix(t.node), Preference(t.node), choice)
    THEN [t EXCEPT !.node = NodeAdd(@, choice)]
    ELSE t

TreeRecordPoll(t, votes) ==
    LET valid == Filter(votes, {id \in DOMAIN votes :
                     EqualSubset(0, DecidedPrefix(t.node), Preference(t.node), id)})
        r     == NodeRecordPoll(t.node, valid, t.shouldReset)
    IN  [tree |-> [node |-> r.node, shouldReset |-> FALSE], successful |-> r.successful]

TreeUnsuccessful(t) == [t EXCEPT !.shouldReset = TRUE]
=============================================================================
