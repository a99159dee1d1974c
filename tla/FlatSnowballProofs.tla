------------------------- MODULE FlatSnowballProofs -------------------------
(* What is proved of FlatSnowball, for all parameters and any number of polls. *)
EXTENDS FlatSnowball, SequenceTheorems, TLAPS

PollEntry == [choice : Choices \cup {NoVote}, rogue : BOOLEAN]

\* Both preferences are choices that were added.
PreferencesAdded == sb.slush \in added /\ sb.preference \in added

\* max is the number of successes of the preference, and the largest number.
MaxIsLeader ==
    /\ sb.max = sb.num[sb.preference]
    /\ \A c \in Choices : sb.num[c] <= sb.max

\* Until the decision, confidence counts successes in a row for slush, up to
\* the last poll.
ConfidenceIsRun ==
    ~sb.finalized => Run(sb.slush, Len(polls), sb.confidence)

Inv ==
    /\ TypeOK
    /\ PreferencesAdded
    /\ RogueIffConflict
    /\ MaxIsLeader
    /\ ConfidenceIsRun
    /\ DecisionEarned

-----------------------------------------------------------------------------
(* The operators of Snowball *)

USE Zenon

\* What a success for choice c does to an instance, field by field.
LEMMA SuccessFields ==
    ASSUME NEW s \in Instance, NEW c \in Choices
    PROVE  LET t == NnarySuccess(s, c, BetaVirtuous, BetaRogue)
               n == s.num[c] + 1
               k == IF s.slush = c THEN s.confidence + 1 ELSE 1
           IN  /\ t \in Instance
               /\ t.rogue = s.rogue
               /\ t.num = [s.num EXCEPT ![c] = n]
               /\ t.max = IF n > s.max THEN n ELSE s.max
               /\ t.preference = IF n > s.max THEN c ELSE s.preference
               /\ s.finalized => t.finalized /\ t.slush = s.slush
               /\ ~s.finalized =>
                    /\ t.slush = c /\ t.confidence = k
                    /\ t.finalized = ((~s.rogue /\ k >= BetaVirtuous) \/ k >= BetaRogue)
<1> DEFINE n  == s.num[c] + 1
           k  == IF s.slush = c THEN s.confidence + 1 ELSE 1
           f  == (~s.rogue /\ k >= BetaVirtuous) \/ k >= BetaRogue
           s1 == [s EXCEPT !.num[c] = n,
                           !.preference = IF n > s.max THEN c ELSE @,
                           !.max = IF n > @ THEN n ELSE @]
           t  == NnarySuccess(s, c, BetaVirtuous, BetaRogue)
<1>0. n \in Nat /\ k \in Nat /\ f \in BOOLEAN BY SMT DEF Instance
<1> HIDE DEF n, k, f
<1>1. /\ s1 \in Instance
      /\ s1.num = [s.num EXCEPT ![c] = n]
      /\ s1.max = IF n > s.max THEN n ELSE s.max
      /\ s1.preference = IF n > s.max THEN c ELSE s.preference
      /\ s1.finalized = s.finalized /\ s1.slush = s.slush
      /\ s1.confidence = s.confidence /\ s1.rogue = s.rogue
  BY <1>0 DEF Instance
<1>2. CASE s.finalized
  <2>1. t = s1 BY <1>2 DEF NnarySuccess, FlakeSuccess, n, Instance
  <2> QED BY <1>1, <1>2, <2>1 DEF n, k
<1>3. CASE ~s.finalized
  <2> DEFINE betas == IF s.rogue THEN {BetaRogue} ELSE {BetaVirtuous, BetaRogue}
  <2>0. f = (\E beta \in betas : k >= beta) BY DEF f, Instance
  <2>1. t = [s1 EXCEPT !.confidence = k, !.finalized = f, !.slush = c]
    BY <1>3, <2>0 DEF NnarySuccess, FlakeSuccess, n, k, Instance
  <2> HIDE DEF s1, t
  <2>2. /\ t \in Instance /\ t.confidence = k /\ t.finalized = f /\ t.slush = c
        /\ t.num = s1.num /\ t.max = s1.max /\ t.preference = s1.preference
        /\ t.rogue = s1.rogue
    BY <1>0, <1>1, <2>1 DEF Instance
  <2> QED BY <1>1, <1>3, <2>2 DEF n, k, f, t
<1> QED BY <1>2, <1>3 DEF Instance

LEMMA UnsuccessfulFields ==
    ASSUME NEW s \in Instance
    PROVE  LET t == Unsuccessful(s)
           IN  /\ t \in Instance /\ t.confidence = 0
               /\ t.slush = s.slush /\ t.preference = s.preference
               /\ t.finalized = s.finalized /\ t.rogue = s.rogue
               /\ t.num = s.num /\ t.max = s.max
BY DEF Instance, Unsuccessful

LEMMA AddFields ==
    ASSUME NEW s \in Instance, NEW c \in Choices
    PROVE  LET t == NnaryAdd(s, c)
           IN  /\ t \in Instance /\ t.confidence = s.confidence
               /\ t.slush = s.slush /\ t.preference = s.preference
               /\ t.finalized = s.finalized
               /\ t.rogue = (s.rogue \/ c # s.slush)
               /\ t.num = s.num /\ t.max = s.max
BY DEF Instance, NnaryAdd

-----------------------------------------------------------------------------
(* The inductive invariant *)

\* A success for a choice lengthens by one the run the history ends with.
LEMMA RunExtends ==
    ASSUME TypeOK, NEW e \in PollEntry, polls' = Append(polls, e),
           NEW k \in Nat, Run(e.choice, Len(polls), k)
    PROVE  /\ k + 1 <= Len(polls')
           /\ \A j \in (Len(polls') - (k + 1) + 1)..Len(polls') :
                  polls'[j].choice = e.choice
<1>1. polls \in Seq(PollEntry) /\ Len(polls) \in Nat
  BY LenProperties DEF TypeOK, PollEntry
<1>2. /\ Len(polls') = Len(polls) + 1
      /\ \A j \in 1..Len(polls) : polls'[j] = polls[j]
      /\ polls'[Len(polls) + 1] = e
  BY <1>1, AppendProperties, SMT
<1>3. k <= Len(polls) BY DEF Run
<1>4. ASSUME NEW j \in (Len(polls) + 1 - (k + 1) + 1)..(Len(polls) + 1)
      PROVE  polls'[j].choice = e.choice
  <2>1. CASE j = Len(polls) + 1 BY <1>2, <2>1
  <2>2. CASE j # Len(polls) + 1
    <3>1. j \in (Len(polls) - k + 1)..Len(polls) /\ j \in 1..Len(polls)
      BY <1>1, <1>3, <2>2, SMT
    <3> QED BY <1>2, <3>1 DEF Run
  <2> QED BY <2>1, <2>2
<1> QED BY <1>1, <1>2, <1>3, <1>4, SMT

\* A decision earned before a poll is still earned after it.
LEMMA EarnedStable ==
    ASSUME TypeOK, DecisionEarned, NEW e \in PollEntry, polls' = Append(polls, e),
           sb.finalized, sb'.slush = sb.slush
    PROVE  DecisionEarned'
<1>1. polls \in Seq(PollEntry) /\ Len(polls) \in Nat
  BY LenProperties DEF TypeOK, PollEntry
<1>2. PICK i \in 1..Len(polls) :
          Run(sb.slush, i, IF polls[i].rogue THEN BetaRogue ELSE BetaVirtuous)
  BY DEF DecisionEarned
<1> DEFINE n == IF polls[i].rogue THEN BetaRogue ELSE BetaVirtuous
<1>3. n \in Nat BY ParameterAssumption
<1>4. i \in 1..Len(polls') /\ polls'[i] = polls[i] /\ i \in 0..Len(polls)
  BY <1>1, AppendProperties, SMT
<1>5. Run(sb.slush, i, n) BY <1>2
<1> HIDE DEF n
<1>6. \A j \in (i - n + 1)..i : polls'[j] = polls[j]
  <2>1. \A j \in (i - n + 1)..i : j \in 1..Len(polls) BY <1>1, <1>3, <1>5, SMT DEF Run
  <2> QED BY <1>1, <2>1, AppendProperties, SMT
<1>7. n <= i /\ \A j \in (i - n + 1)..i : polls'[j].choice = sb'.slush
  BY <1>5, <1>6 DEF Run
<1> QED BY <1>4, <1>7 DEF DecisionEarned, Run, n

LEMMA InitInv == Init => Inv
<1> SUFFICES ASSUME NEW c \in Choices, sb = NewNnary(c, Choices), added = {c}, polls = <<>>
             PROVE  Inv
  BY DEF Init
<1>1. TypeOK BY EmptySeq DEF TypeOK, Instance, NewNnary
<1>2. PreferencesAdded /\ RogueIffConflict /\ MaxIsLeader /\ DecisionEarned
  BY SMT DEF PreferencesAdded, RogueIffConflict, MaxIsLeader, DecisionEarned, NewNnary
<1>3. ConfidenceIsRun BY EmptySeq, SMT DEF ConfidenceIsRun, Run, NewNnary
<1> QED BY <1>1, <1>2, <1>3 DEF Inv

LEMMA AddInv ==
    ASSUME Inv, NEW c \in Choices, Add(c)
    PROVE  Inv'
<1>1. sb \in Instance BY DEF Inv, TypeOK
<1>2. /\ sb' \in Instance /\ sb'.confidence = sb.confidence
      /\ sb'.slush = sb.slush /\ sb'.preference = sb.preference
      /\ sb'.finalized = sb.finalized
      /\ sb'.rogue = (sb.rogue \/ c # sb.slush)
      /\ sb'.num = sb.num /\ sb'.max = sb.max
  BY <1>1, AddFields DEF Add
<1>3. added' = added \cup {c} /\ polls' = polls BY DEF Add
<1>4. TypeOK' BY <1>2, <1>3 DEF Inv, TypeOK
<1>5. PreferencesAdded' /\ MaxIsLeader' BY <1>2, <1>3 DEF Inv, PreferencesAdded, MaxIsLeader
<1>6. RogueIffConflict'
  <2>1. sb.slush \in added /\ (sb.rogue <=> \E d1, d2 \in added : d1 # d2)
    BY DEF Inv, RogueIffConflict, PreferencesAdded
  <2>2. CASE c \in added
    <3>1. added' = added BY <1>3, <2>2
    <3>2. sb'.rogue <=> sb.rogue BY <1>2, <2>1, <2>2, Zenon
    <3> QED BY <2>1, <3>1, <3>2 DEF RogueIffConflict
  <2>3. CASE c \notin added
    <3>1. c # sb.slush BY <2>1, <2>3
    <3>2. sb'.rogue BY <1>2, <3>1
    <3>3. \E d1, d2 \in added' : d1 # d2 BY <1>3, <2>1, <3>1
    <3> QED BY <3>2, <3>3 DEF RogueIffConflict
  <2> QED BY <2>2, <2>3
<1>7. ConfidenceIsRun' /\ DecisionEarned'
  BY <1>2, <1>3 DEF Inv, ConfidenceIsRun, DecisionEarned, Run
<1> QED BY <1>4, <1>5, <1>6, <1>7 DEF Inv

LEMMA UnsuccessfulInv ==
    ASSUME Inv, sb' = Unsuccessful(sb), added' = added,
           polls' = Append(polls, [choice |-> NoVote, rogue |-> sb.rogue])
    PROVE  Inv'
<1> DEFINE e == [choice |-> NoVote, rogue |-> sb.rogue]
<1>1. sb \in Instance /\ TypeOK BY DEF Inv, TypeOK
<1>2. /\ sb' \in Instance /\ sb'.confidence = 0
      /\ sb'.slush = sb.slush /\ sb'.preference = sb.preference
      /\ sb'.finalized = sb.finalized /\ sb'.rogue = sb.rogue
      /\ sb'.num = sb.num /\ sb'.max = sb.max
  BY <1>1, UnsuccessfulFields
<1>3. e \in PollEntry BY <1>1 DEF PollEntry, Instance
<1>4. polls \in Seq(PollEntry) /\ polls' \in Seq(PollEntry) /\ Len(polls') \in Nat
  BY <1>1, <1>3, AppendProperties, LenProperties DEF TypeOK, PollEntry
<1>5. TypeOK' BY <1>1, <1>2, <1>4 DEF TypeOK, PollEntry
<1>6. PreferencesAdded' /\ MaxIsLeader' /\ RogueIffConflict'
  BY <1>2 DEF Inv, PreferencesAdded, MaxIsLeader, RogueIffConflict
<1>7. ConfidenceIsRun' BY <1>2, <1>4, SMT DEF ConfidenceIsRun, Run
<1>8. DecisionEarned'
  <2>1. CASE sb.finalized BY <1>1, <1>2, <1>3, <2>1, EarnedStable DEF Inv
  <2>2. CASE ~sb.finalized BY <1>2, <2>2 DEF DecisionEarned
  <2> QED BY <2>1, <2>2
<1> QED BY <1>5, <1>6, <1>7, <1>8 DEF Inv

LEMMA SuccessInv ==
    ASSUME Inv, NEW c \in added, added' = added,
           sb' = NnarySuccess(sb, c, BetaVirtuous, BetaRogue),
           polls' = Append(polls, [choice |-> c, rogue |-> sb.rogue])
    PROVE  Inv'
<1> DEFINE e == [choice |-> c, rogue |-> sb.rogue]
           n == sb.num[c] + 1
           k == IF sb.slush = c THEN sb.confidence + 1 ELSE 1
<1>1. sb \in Instance /\ TypeOK /\ c \in Choices BY DEF Inv, TypeOK
<1>2. /\ sb' \in Instance
      /\ sb'.rogue = sb.rogue
      /\ sb'.num = [sb.num EXCEPT ![c] = n]
      /\ sb'.max = IF n > sb.max THEN n ELSE sb.max
      /\ sb'.preference = IF n > sb.max THEN c ELSE sb.preference
      /\ sb.finalized => sb'.finalized /\ sb'.slush = sb.slush
      /\ ~sb.finalized =>
            /\ sb'.slush = c /\ sb'.confidence = k
            /\ sb'.finalized = ((~sb.rogue /\ k >= BetaVirtuous) \/ k >= BetaRogue)
  BY <1>1, SuccessFields, ZenonT(40)
<1>3. e \in PollEntry /\ e.choice = c /\ e.rogue = sb.rogue
  BY <1>1 DEF PollEntry, Instance
<1>4. /\ polls \in Seq(PollEntry) /\ polls' \in Seq(PollEntry)
      /\ Len(polls) \in Nat /\ Len(polls') = Len(polls) + 1
      /\ polls'[Len(polls) + 1] = e
  BY <1>1, <1>3, AppendProperties, LenProperties, SMT DEF TypeOK, PollEntry
<1>5. TypeOK' BY <1>1, <1>2, <1>4 DEF TypeOK, PollEntry
<1>6. PreferencesAdded' BY <1>2 DEF Inv, PreferencesAdded
<1>7. RogueIffConflict' BY <1>2 DEF Inv, RogueIffConflict
<1>8. MaxIsLeader'
  <2>1. sb.num \in [Choices -> Nat] /\ sb.max \in Nat /\ sb.preference \in Choices
    BY <1>1 DEF Instance
  <2>2. sb.max = sb.num[sb.preference] /\ \A d \in Choices : sb.num[d] <= sb.max
    BY DEF Inv, MaxIsLeader
  <2> QED BY <1>1, <1>2, <2>1, <2>2, SMT DEF MaxIsLeader
<1>9. ~sb.finalized =>
         /\ k <= Len(polls')
         /\ \A j \in (Len(polls') - k + 1)..Len(polls') : polls'[j].choice = c
  <2> SUFFICES ASSUME ~sb.finalized
               PROVE  /\ k <= Len(polls')
                      /\ \A j \in (Len(polls') - k + 1)..Len(polls') : polls'[j].choice = c
    OBVIOUS
  <2>1. sb.confidence \in Nat BY <1>1 DEF Instance
  <2>2. CASE sb.slush = c
    <3>1. Run(c, Len(polls), sb.confidence) BY <2>2 DEF Inv, ConfidenceIsRun
    <3> QED BY <1>1, <1>3, <2>1, <2>2, <3>1, RunExtends
  <2>3. CASE sb.slush # c
    <3>1. Run(c, Len(polls), 0) BY <1>4, SMT DEF Run
    <3> QED BY <1>1, <1>3, <2>3, <3>1, RunExtends, SMT
  <2> QED BY <2>2, <2>3
<1> HIDE DEF k, n
<1>10. ConfidenceIsRun' BY <1>2, <1>9 DEF ConfidenceIsRun, Run
<1>11. DecisionEarned'
  <2>1. CASE sb.finalized BY <1>1, <1>2, <1>3, <2>1, EarnedStable DEF Inv
  <2>2. CASE ~sb.finalized /\ sb'.finalized
    <3> DEFINE i == Len(polls) + 1
               b == IF sb.rogue THEN BetaRogue ELSE BetaVirtuous
    <3>0. k \in Nat BY <1>1, SMT DEF k, Instance
    <3>1. b <= k /\ b \in Nat
      <4>1. (~sb.rogue /\ k >= BetaVirtuous) \/ k >= BetaRogue BY <1>2, <2>2
      <4>2. CASE sb.rogue BY <3>0, <4>1, <4>2, ParameterAssumption DEF Verify
      <4>3. CASE ~sb.rogue BY <3>0, <4>1, <4>3, ParameterAssumption, SMT DEF Verify
      <4> QED BY <4>2, <4>3
    <3>2. i \in 1..Len(polls') /\ polls'[i].rogue = sb.rogue BY <1>3, <1>4, SMT
    <3>3. k <= i /\ \A j \in (i - k + 1)..i : polls'[j].choice = c
      BY <1>4, <1>9, <2>2
    <3> HIDE DEF b
    <3>4. b <= i /\ \A j \in (i - b + 1)..i : polls'[j].choice = c
      BY <1>4, <3>0, <3>1, <3>3, SMT
    <3>5. sb'.slush = c BY <1>2, <2>2
    <3>6. b = IF polls'[i].rogue THEN BetaRogue ELSE BetaVirtuous BY <3>2 DEF b
    <3> HIDE DEF i
    <3>7. b <= i /\ \A j \in (i - b + 1)..i : polls'[j].choice = sb'.slush BY <3>4, <3>5
    <3> QED BY <3>2, <3>6, <3>7 DEF DecisionEarned, Run
  <2>3. CASE ~sb'.finalized BY <2>3 DEF DecisionEarned
  <2> QED BY <2>1, <2>2, <2>3
<1> QED BY <1>5, <1>6, <1>7, <1>8, <1>10, <1>11 DEF Inv

LEMMA NextInv == Inv /\ [Next]_vars => Inv'
<1> SUFFICES ASSUME Inv, [Next]_vars PROVE Inv' OBVIOUS
<1>1. CASE \E c \in Choices : Add(c) BY <1>1, AddInv
<1>2. CASE \E votes \in [Slots -> added \cup {NoVote}] : RecordPoll(votes)
  <2>1. PICK votes \in [Slots -> added \cup {NoVote}] : RecordPoll(votes) BY <1>2
  <2>2. PICK c \in added :
          IF Cardinality(VotesFor(votes, c)) >= Alpha
          THEN /\ sb' = NnarySuccess(sb, c, BetaVirtuous, BetaRogue)
               /\ polls' = Append(polls, [choice |-> c, rogue |-> sb.rogue])
          ELSE /\ sb' = Unsuccessful(sb)
               /\ polls' = Append(polls, [choice |-> NoVote, rogue |-> sb.rogue])
    BY <2>1 DEF RecordPoll
  <2>3. added' = added BY <2>1 DEF RecordPoll
  <2> QED BY <2>2, <2>3, SuccessInv, UnsuccessfulInv
<1>3. CASE RecordUnsuccessfulPoll BY <1>3, UnsuccessfulInv DEF RecordUnsuccessfulPoll
<1>4. CASE UNCHANGED vars
  BY <1>4 DEF vars, Inv, TypeOK, PreferencesAdded, RogueIffConflict, MaxIsLeader,
              ConfidenceIsRun, DecisionEarned, Run
<1> QED BY <1>1, <1>2, <1>3, <1>4 DEF Next

-----------------------------------------------------------------------------
(* Theorems *)

\* The fields of the instance keep their types in every reachable state.
THEOREM TypeCorrect == Spec => []TypeOK
<1>1. Inv => TypeOK BY DEF Inv
<1> QED BY <1>1, InitInv, NextInv, PTL DEF Spec

\* An instance is finalized only after beta successes in a row for its decision
\* (nnarySnowflake.RecordSuccessfulPoll), with the beta in force at the last one.
THEOREM DecisionsAreEarned == Spec => []DecisionEarned
<1>1. Inv => DecisionEarned BY DEF Inv
<1> QED BY <1>1, InitInv, NextInv, PTL DEF Spec

\* nnarySnowflake.rogue is set exactly when two choices are known.
THEOREM RogueExact == Spec => []RogueIffConflict
<1>1. Inv => RogueIffConflict BY DEF Inv
<1> QED BY <1>1, InitInv, NextInv, PTL DEF Spec

\* The preference was added and nothing beats its successful polls
\* (nnarySnowball.RecordSuccessfulPoll and Preference).
THEOREM PreferenceLeading == Spec => []PreferenceLeads
<1>1. Inv => PreferenceLeads
  BY DEF Inv, PreferenceLeads, PreferencesAdded, MaxIsLeader, InstancePreference
<1> QED BY <1>1, InitInv, NextInv, PTL DEF Spec

\* A step of Flat is a step of the contract: it moves the preference only by a
\* poll, before the decision, and to a choice that was added.
LEMMA StepRefines == Inv /\ Inv' /\ [Next]_vars =>
    [Contract!Next]_<<added, InstancePreference(sb), sb.finalized>>
<1> SUFFICES ASSUME Inv, Inv', [Next]_vars
             PROVE  [Contract!Next]_<<added, InstancePreference(sb), sb.finalized>>
  OBVIOUS
<1>0. sb \in Instance /\ sb' \in Instance BY DEF Inv, TypeOK
<1>1. ASSUME NEW c \in Choices, Add(c) PROVE Contract!Next
  <2>1. /\ sb'.slush = sb.slush /\ sb'.preference = sb.preference
        /\ sb'.finalized = sb.finalized
    BY <1>0, <1>1, AddFields DEF Add
  <2>2. InstancePreference(sb') = InstancePreference(sb) BY <2>1 DEF InstancePreference
  <2> QED BY <1>1, <2>1, <2>2 DEF Contract!Next, Contract!Add, Add
<1>2. ASSUME added' = added,
             sb.finalized => sb'.finalized /\ sb'.slush = sb.slush
      PROVE  [Contract!Next]_<<added, InstancePreference(sb), sb.finalized>>
  <2>1. CASE sb.finalized
    <3>1. sb'.finalized = sb.finalized BY <1>0, <1>2, <2>1 DEF Instance
    <3> QED BY <1>2, <2>1, <3>1 DEF InstancePreference
  <2>2. CASE ~sb.finalized
    <3>1. InstancePreference(sb') \in added BY <1>2 DEF Inv, PreferencesAdded, InstancePreference
    <3>2. sb'.finalized \in BOOLEAN BY <1>0 DEF Instance
    <3> QED BY <1>2, <2>2, <3>1, <3>2 DEF Contract!Next, Contract!RecordPoll
  <2> QED BY <2>1, <2>2
<1>3. CASE \E votes \in [Slots -> added \cup {NoVote}] : RecordPoll(votes)
  <2>1. PICK votes \in [Slots -> added \cup {NoVote}] : RecordPoll(votes) BY <1>3
  <2>2. PICK c \in added : \/ sb' = NnarySuccess(sb, c, BetaVirtuous, BetaRogue)
                           \/ sb' = Unsuccessful(sb)
    BY <2>1 DEF RecordPoll
  <2>3. added' = added /\ c \in Choices BY <2>1 DEF RecordPoll, Inv, TypeOK
  <2>4. sb.finalized => sb'.finalized /\ sb'.slush = sb.slush
    <3>1. CASE sb' = Unsuccessful(sb) BY <1>0, <3>1, UnsuccessfulFields
    <3>2. CASE sb' = NnarySuccess(sb, c, BetaVirtuous, BetaRogue)
      BY <1>0, <2>3, <3>2, SuccessFields
    <3> QED BY <2>2, <3>1, <3>2
  <2> QED BY <1>2, <2>3, <2>4
<1>4. CASE RecordUnsuccessfulPoll
  BY <1>0, <1>2, <1>4, UnsuccessfulFields DEF RecordUnsuccessfulPoll
<1>5. CASE UNCHANGED vars BY <1>5 DEF vars, InstancePreference
<1> QED BY <1>1, <1>3, <1>4, <1>5 DEF Next

\* Flat implements the contract of the Consensus interface, the only thing the
\* block consensus above it relies on.
THEOREM Refinement == Spec => ImplementsContract
<1>1. Init => Contract!Init
  BY SMT DEF Init, Contract!Init, NewNnary, InstancePreference
<1> QED BY <1>1, InitInv, NextInv, StepRefines, PTL DEF Spec, ImplementsContract, Contract!Spec

\* A decision is final, whatever polls follow.
THEOREM DecisionsAreFinal == Spec => DecisionFinal
<1>1. Inv /\ Inv' /\ [Next]_vars =>
        [sb.finalized => sb'.finalized /\ InstancePreference(sb') = InstancePreference(sb)]_vars
  <2> SUFFICES ASSUME Inv, Inv', [Next]_vars, sb.finalized
               PROVE  sb'.finalized /\ InstancePreference(sb') = InstancePreference(sb)
    OBVIOUS
  <2>1. [Contract!Next]_<<added, InstancePreference(sb), sb.finalized>> BY StepRefines
  <2> QED BY <2>1 DEF Contract!Next, Contract!Add, Contract!RecordPoll
<1> QED BY <1>1, InitInv, NextInv, PTL DEF Spec, DecisionFinal
=============================================================================
