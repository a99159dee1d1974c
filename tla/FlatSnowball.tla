---------------------------- MODULE FlatSnowball ----------------------------
(***************************************************************************)
(* Flat (snow/consensus/snowball/flat.go): one n-nary snowball instance     *)
(* fed with the results of network polls.  A poll asks K slots; each votes  *)
(* for one of the choices added so far or not at all.                       *)
(***************************************************************************)
EXTENDS Snowball, SnowballParameters, Sequences, FiniteSets

CONSTANTS
    Choices,        \* IDs
    NoVote,         \* not a choice: a slot without a vote
    MaxPolls        \* bound on the number of polls

ASSUME ChoiceAssumption == NoVote \notin Choices
ASSUME BoundAssumption == MaxPolls \in Nat

Slots == 1..K

VARIABLES
    sb,      \* the nnarySnowball
    added,   \* history: the choices added so far
    polls    \* history: per poll, the choice that succeeded (or NoVote) and
             \* whether the instance was rogue

vars == <<sb, added, polls>>

Instance ==
    [slush : Choices, preference : Choices, confidence : Nat, finalized : BOOLEAN,
     rogue : BOOLEAN, max : Nat, num : [Choices -> Nat]]

TypeOK ==
    /\ sb \in Instance
    /\ added \subseteq Choices
    /\ polls \in Seq([choice : Choices \cup {NoVote}, rogue : BOOLEAN])

VotesFor(votes, c) == {s \in Slots : votes[s] = c}

\* Bag.Mode: some choice with the most votes.
IsMode(votes, c) ==
    \A d \in added : Cardinality(VotesFor(votes, d)) <= Cardinality(VotesFor(votes, c))

Init ==
    \E c \in Choices :
        /\ sb = NewNnary(c, Choices)
        /\ added = {c}
        /\ polls = <<>>

Add(c) ==
    /\ sb' = NnaryAdd(sb, c)
    /\ added' = added \cup {c}
    /\ UNCHANGED polls

\* Mutant: the threshold is off by one.
RecordPollNoAlpha(votes) ==
    /\ Len(polls) < MaxPolls
    /\ \E c \in added :
          /\ IsMode(votes, c)
          /\ IF Cardinality(VotesFor(votes, c)) >= Alpha - 1
             THEN /\ sb' = NnarySuccess(sb, c, BetaVirtuous, BetaRogue)
                  /\ polls' = Append(polls, [choice |-> IF Cardinality(VotesFor(votes, c)) >= Alpha
                                                        THEN c ELSE NoVote,
                                             rogue |-> sb.rogue])
             ELSE /\ sb' = Unsuccessful(sb)
                  /\ polls' = Append(polls, [choice |-> NoVote, rogue |-> sb.rogue])
    /\ UNCHANGED added

RecordPoll(votes) ==
    /\ Len(polls) < MaxPolls
    /\ \E c \in added :
          /\ IsMode(votes, c)
          /\ IF Cardinality(VotesFor(votes, c)) >= Alpha
             THEN /\ sb' = NnarySuccess(sb, c, BetaVirtuous, BetaRogue)
                  /\ polls' = Append(polls, [choice |-> c, rogue |-> sb.rogue])
             ELSE /\ sb' = Unsuccessful(sb)
                  /\ polls' = Append(polls, [choice |-> NoVote, rogue |-> sb.rogue])
    /\ UNCHANGED added

\* RecordUnsuccessfulPoll: consensus reports a poll that skipped this instance.
RecordUnsuccessfulPoll ==
    /\ Len(polls) < MaxPolls
    /\ sb' = Unsuccessful(sb)
    /\ polls' = Append(polls, [choice |-> NoVote, rogue |-> sb.rogue])
    /\ UNCHANGED added

Next ==
    \/ \E c \in Choices : Add(c)
    \/ \E votes \in [Slots -> added \cup {NoVote}] : RecordPoll(votes)
    \/ RecordUnsuccessfulPoll

Spec == Init /\ [][Next]_vars

-----------------------------------------------------------------------------
(* Properties *)

\* The last n polls before and including poll i all succeeded for choice c.
Run(c, i, n) ==
    /\ n <= i
    /\ \A j \in (i - n + 1)..i : polls[j].choice = c

\* A decision was earned: some poll completed beta successes in a row for the
\* finalized choice, where beta is BetaRogue if a conflicting choice was known
\* by then and BetaVirtuous if not.  Polls that failed, or succeeded for another
\* choice, reset the count.
DecisionEarned ==
    sb.finalized =>
        \E i \in 1..Len(polls) :
            Run(sb.slush, i, IF polls[i].rogue THEN BetaRogue ELSE BetaVirtuous)

\* The instance is rogue exactly when it knows more than one choice, so the
\* higher threshold applies from the moment a conflict is known.
RogueIffConflict == sb.rogue <=> \E c, d \in added : c # d

\* Until it is decided the instance prefers a choice that no other choice beats
\* in successful polls, and one that was added to it.
PreferenceLeads ==
    /\ InstancePreference(sb) \in added
    /\ \A c \in Choices : sb.num[c] <= sb.num[sb.preference]

\* A decision is final: no later poll moves or withdraws it, although the
\* counters of snowball keep running.
DecisionFinal ==
    [][sb.finalized => sb'.finalized /\ InstancePreference(sb') = InstancePreference(sb)]_vars

\* Flat keeps the promises of the Consensus interface.
Contract == INSTANCE SnowballContract WITH
    choices <- added, preference <- InstancePreference(sb), finalized <- sb.finalized
ImplementsContract == Contract!Spec
=============================================================================
