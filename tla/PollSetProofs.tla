--------------------------- MODULE PollSetProofs ---------------------------
(* What is proved of PollSet, for every K, Alpha, sample and set of blocks. *)
EXTENDS PollSet, FiniteSetTheorems, SequenceTheorems, TLAPS

USE Zenon

LEMMA SlotsFinite == IsFiniteSet(Slots) /\ Cardinality(Slots) = K
BY FS_Interval, ParameterAssumption, SMT DEF Slots

LEMMA SubsetOfSlots ==
    ASSUME NEW S \in SUBSET Slots
    PROVE  IsFiniteSet(S) /\ Cardinality(S) \in Nat /\ Cardinality(S) <= K
BY SlotsFinite, FS_Subset, FS_CardinalityType, FS_CardinalityType

\* Two disjoint sets of slots hold at most K slots between them.
LEMMA DisjointSlots ==
    ASSUME NEW S \in SUBSET Slots, NEW T \in SUBSET Slots, S \cap T = {}
    PROVE  Cardinality(S) + Cardinality(T) <= K
<1>1. IsFiniteSet(S) /\ IsFiniteSet(T) BY SubsetOfSlots
<1>2. Cardinality(S \cup T) <= K BY SubsetOfSlots
<1>3. Cardinality(S \cup T) = Cardinality(S) + Cardinality(T) - Cardinality(S \cap T)
  BY <1>1, FS_Union
<1>4. Cardinality(S \cap T) = 0 BY FS_EmptySet
<1> QED BY <1>2, <1>3, <1>4, SubsetOfSlots, SMT

-----------------------------------------------------------------------------
(* Early termination *)

\* A slot that is still outstanding has not voted.
PollOK(p) == p \in Poll /\ \A s \in p.polled : p.votes[s] = NoVote

\* If some block b has alpha votes, the blocks with a majority are b and its
\* ancestors, whatever the outstanding slots vote.
LEMMA MajorityFixed ==
    ASSUME NEW p, PollOK(p), NEW f \in Completions(p),
           NEW b \in Blocks, Cardinality(VotesFor(p, b)) >= Alpha
    PROVE  Majority(f) = {c \in Blocks : <<b, c>> \in Descends}
<1> SUFFICES ASSUME NEW c \in Blocks
             PROVE  Cardinality(Support(f, c)) >= Alpha <=> <<b, c>> \in Descends
  BY DEF Majority
<1>1. VotesFor(p, b) \subseteq Slots /\ Support(f, c) \subseteq Slots
  BY DEF VotesFor, Support
<1>2. \A s \in VotesFor(p, b) : f[s] = b
  <2> SUFFICES ASSUME NEW s \in VotesFor(p, b) PROVE f[s] = b OBVIOUS
  <2>1. s \in Slots /\ p.votes[s] = b BY DEF VotesFor
  <2>2. s \notin p.polled BY <2>1, PollAssumption DEF PollOK
  <2> QED BY <2>1, <2>2 DEF Completions
<1>3. CASE <<b, c>> \in Descends
  <2>1. VotesFor(p, b) \subseteq Support(f, c) BY <1>1, <1>2, <1>3 DEF Support
  <2>2. Cardinality(VotesFor(p, b)) <= Cardinality(Support(f, c))
    BY <2>1, <1>1, SubsetOfSlots, FS_Subset
  <2> QED BY <2>2, <1>1, <1>3, SubsetOfSlots, ParameterAssumption, SMT
<1>4. CASE <<b, c>> \notin Descends
  <2>1. VotesFor(p, b) \cap Support(f, c) = {} BY <1>2, <1>4 DEF Support
  <2>2. Cardinality(VotesFor(p, b)) + Cardinality(Support(f, c)) <= K
    BY <2>1, <1>1, DisjointSlots
  <2> QED BY <2>2, <1>1, <1>4, SubsetOfSlots, ParameterAssumption, SMT
<1> QED BY <1>3, <1>4

\* If the answers received and outstanding are fewer than alpha, no block has
\* a majority, whatever the outstanding slots vote.
LEMMA NoMajority ==
    ASSUME NEW p, PollOK(p), NEW f \in Completions(p),
           Cardinality(Received(p)) + Cardinality(p.polled) < Alpha
    PROVE  Majority(f) = {}
<1> SUFFICES ASSUME NEW c \in Blocks
             PROVE  Cardinality(Support(f, c)) < Alpha
  <2>1. \A c \in Blocks : Cardinality(Support(f, c)) \in Nat
    BY SubsetOfSlots DEF Support
  <2> QED BY <2>1, ParameterAssumption, SMT DEF Majority
<1> DEFINE R == Received(p)  U == p.polled
<1>1. R \subseteq Slots /\ U \subseteq Slots BY DEF Received, PollOK, Poll
<1>2. Support(f, c) \subseteq R \cup U
  <2> SUFFICES ASSUME NEW s \in Slots, <<f[s], c>> \in Descends, s \notin U
               PROVE  s \in R
    BY DEF Support
  <2>1. f[s] = p.votes[s] BY DEF Completions
  <2>2. f[s] \in Blocks BY PollAssumption
  <2> QED BY <2>1, <2>2, PollAssumption DEF Received
<1>3. /\ IsFiniteSet(R) /\ IsFiniteSet(U) /\ IsFiniteSet(R \cup U)
      /\ Cardinality(R) \in Nat /\ Cardinality(U) \in Nat
      /\ Cardinality(R \cup U) \in Nat /\ Cardinality(R \cap U) \in Nat
  BY <1>1, SubsetOfSlots
<1>4. Cardinality(Support(f, c)) <= Cardinality(R \cup U) BY <1>2, <1>3, FS_Subset
<1>5. Cardinality(R \cup U) = Cardinality(R) + Cardinality(U) - Cardinality(R \cap U)
  BY <1>3, FS_Union
<1>6. Cardinality(Support(f, c)) \in Nat
  BY <1>1, <1>2, SubsetOfSlots
<1> HIDE DEF R, U
<1>7. Cardinality(R) + Cardinality(U) < Alpha BY DEF R, U
<1> QED BY <1>3, <1>4, <1>5, <1>6, <1>7, ParameterAssumption, SMT

\* A finished poll has the same majorities under every completion.
LEMMA FinishedSound ==
    ASSUME NEW p, PollOK(p), Finished(p), NEW f \in Completions(p)
    PROVE  Majority(f) = Majority(p.votes)
<1>1. p.votes \in Completions(p) BY DEF Completions, PollOK, Poll
<1>2. CASE p.polled = {}
  <2>1. f \in [Slots -> Blocks \cup {NoVote}] /\ \A s \in Slots : f[s] = p.votes[s]
    BY <1>2 DEF Completions
  <2>2. p.votes \in [Slots -> Blocks \cup {NoVote}] BY DEF PollOK, Poll
  <2>3. f = p.votes BY <2>1, <2>2, SMT
  <2> QED BY <2>3
<1>3. CASE Cardinality(Received(p)) + Cardinality(p.polled) < Alpha
  BY <1>1, <1>3, NoMajority
<1>4. CASE \E b \in Blocks : Cardinality(VotesFor(p, b)) >= Alpha
  BY <1>1, <1>4, MajorityFixed
<1> QED BY <1>2, <1>3, <1>4 DEF Finished

-----------------------------------------------------------------------------
(* The inductive invariant *)

PollsOK == \A i \in DOMAIN polls : PollOK(polls[i])
ResultsOK == \A i \in DOMAIN results : PollOK(results[i]) /\ Finished(results[i])

Inv ==
    /\ TypeOK
    /\ PollsOK
    /\ ResultsOK
    /\ ResultsInIssueOrder
    /\ OldestUnfinished

\* The request IDs of a sequence of polls.
LEMMA IdsOfSeq ==
    ASSUME NEW ps \in Seq(Poll)
    PROVE  /\ IdsOf(ps) \in Seq(RequestIDs) /\ Len(IdsOf(ps)) = Len(ps)
           /\ \A i \in 1..Len(ps) : IdsOf(ps)[i] = ps[i].id
<1>1. DOMAIN ps = 1..Len(ps) /\ Len(ps) \in Nat BY LenProperties
<1>2. \A i \in 1..Len(ps) : ps[i].id \in RequestIDs
  <2>1. \A i \in 1..Len(ps) : ps[i] \in Poll BY ElementOfSeq
  <2> QED BY <2>1 DEF Poll
<1>3. IdsOf(ps) = [i \in 1..Len(ps) |-> ps[i].id] BY <1>1 DEF IdsOf
<1>4. IdsOf(ps) \in [1..Len(ps) -> RequestIDs] BY <1>2, <1>3
<1>5. IdsOf(ps) \in Seq(RequestIDs) BY <1>1, <1>4, SeqDef
<1>6. DOMAIN IdsOf(ps) = 1..Len(IdsOf(ps)) /\ Len(IdsOf(ps)) \in Nat
  BY <1>5, LenProperties
<1>7. Len(IdsOf(ps)) = Len(ps) BY <1>1, <1>4, <1>6, SMT
<1> QED BY <1>3, <1>5, <1>7

LEMMA IdsOfSubSeq ==
    ASSUME NEW ps \in Seq(Poll), NEW m \in 1..(Len(ps) + 1), NEW n \in (m-1)..Len(ps)
    PROVE  IdsOf(SubSeq(ps, m, n)) = SubSeq(IdsOf(ps), m, n)
<1> DEFINE l == IdsOf(SubSeq(ps, m, n))  r == SubSeq(IdsOf(ps), m, n)
<1>1. SubSeq(ps, m, n) \in Seq(Poll) /\ Len(SubSeq(ps, m, n)) = n - m + 1
      /\ \A i \in 1..(n-m+1) : SubSeq(ps, m, n)[i] = ps[m+i-1]
  BY SMT
<1>2. l \in Seq(RequestIDs) /\ Len(l) = n - m + 1
      /\ \A i \in 1..(n-m+1) : l[i] = ps[m+i-1].id
  BY <1>1, IdsOfSeq, ZenonT(40), SMT
<1>3. r \in Seq(RequestIDs) /\ Len(r) = n - m + 1
      /\ \A i \in 1..(n-m+1) : r[i] = ps[m+i-1].id
  BY IdsOfSeq, SMT
<1> QED BY <1>2, <1>3, SeqEqual

LEMMA IdsOfConcat ==
    ASSUME NEW s \in Seq(Poll), NEW t \in Seq(Poll)
    PROVE  IdsOf(s \o t) = IdsOf(s) \o IdsOf(t)
<1> DEFINE l == IdsOf(s \o t)  r == IdsOf(s) \o IdsOf(t)
<1>1. l \in Seq(RequestIDs) /\ Len(l) = Len(s) + Len(t)
      /\ \A i \in 1..(Len(s) + Len(t)) : l[i] = (s \o t)[i].id
  <2>1. s \o t \in Seq(Poll) /\ Len(s \o t) = Len(s) + Len(t) BY ConcatProperties
  <2> QED BY <2>1, IdsOfSeq
<1>2. r \in Seq(RequestIDs) /\ Len(r) = Len(s) + Len(t)
      /\ \A i \in 1..(Len(s) + Len(t)) : r[i] = (s \o t)[i].id
  <2>1. /\ IdsOf(s) \in Seq(RequestIDs) /\ Len(IdsOf(s)) = Len(s) /\ Len(s) \in Nat
        /\ IdsOf(t) \in Seq(RequestIDs) /\ Len(IdsOf(t)) = Len(t) /\ Len(t) \in Nat
    BY IdsOfSeq, LenProperties
  <2>2. r \in Seq(RequestIDs) /\ Len(r) = Len(s) + Len(t)
    <3>1. Len(r) = Len(IdsOf(s)) + Len(IdsOf(t)) BY <2>1, ConcatProperties
    <3> QED BY <2>1, <3>1, ConcatProperties
  <2>3. ASSUME NEW i \in 1..(Len(s) + Len(t)) PROVE r[i] = (s \o t)[i].id
    <3>1. r[i] = IF i <= Len(s) THEN IdsOf(s)[i] ELSE IdsOf(t)[i - Len(s)]
      BY <2>1, ConcatProperties, SMT
    <3>2. (s \o t)[i] = IF i <= Len(s) THEN s[i] ELSE t[i - Len(s)]
      BY ConcatProperties
    <3>3. CASE i <= Len(s) BY <3>1, <3>2, <3>3, <2>1, IdsOfSeq, SMT
    <3>4. CASE i > Len(s)
      <4>1. i - Len(s) \in 1..Len(t) BY <3>4, <2>1, SMT
      <4> QED BY <4>1, <3>1, <3>2, <3>4, <2>1, IdsOfSeq, SMT
    <3> QED BY <3>3, <3>4, <2>1, SMT
  <2> QED BY <2>2, <2>3
<1> QED BY <1>1, <1>2, SeqEqual

LEMMA ConcatIds ==
    \A s, t, u \in Seq(RequestIDs) : (s \o t) \o u = s \o (t \o u)
BY ConcatAssociative, SMT

\* What is left of a sequence of polls without its first n.
LEMMA SuffixProperties ==
    ASSUME NEW ps \in Seq(Poll), NEW n \in 0..Len(ps)
    PROVE  /\ SubSeq(ps, n+1, Len(ps)) \in Seq(Poll)
           /\ Len(SubSeq(ps, n+1, Len(ps))) = Len(ps) - n
           /\ \A j \in 1..(Len(ps) - n) : SubSeq(ps, n+1, Len(ps))[j] = ps[n + j]
<1>1. Len(ps) \in Nat BY LenProperties
<1>2. \A j \in (n+1)..Len(ps) : ps[j] \in Poll BY <1>1, ElementOfSeq, SMT
<1> QED BY <1>1, <1>2, SubSeqProperties, SMT

\* A new poll is well formed and has not finished.
LEMMA NewPollUnfinished ==
    ASSUME NEW id \in RequestIDs, NEW sample \in Samples
    PROVE  PollOK(NewPoll(id, sample)) /\ ~Finished(NewPoll(id, sample))
<1> DEFINE p == NewPoll(id, sample)
<1>1. PollOK(p) BY PollAssumption DEF PollOK, Poll, NewPoll, Slots
<1>2. Received(p) = {} BY DEF Received, NewPoll
<1>3. \A b \in Blocks : VotesFor(p, b) = {}
  BY PollAssumption DEF VotesFor, NewPoll
<1>4. p.polled = Slots BY DEF NewPoll
<1>5. Cardinality({}) = 0 BY FS_EmptySet
<1>6. Slots # {} BY ParameterAssumption, SMT DEF Slots
<1> HIDE DEF p
<1>7. ~(Cardinality(Received(p)) + Cardinality(p.polled) < Alpha)
  BY <1>2, <1>4, <1>5, SlotsFinite, ParameterAssumption, SMT
<1>8. ~ \E b \in Blocks : Cardinality(VotesFor(p, b)) >= Alpha
  BY <1>3, <1>5, ParameterAssumption, SMT
<1>9. ~Finished(p) BY <1>4, <1>6, <1>7, <1>8, SMTT(30) DEF Finished
<1> QED BY <1>1, <1>9 DEF p

\* An answer keeps a poll well formed, and its request ID.
LEMMA AnswerOK ==
    ASSUME NEW p, PollOK(p), NEW vdr \in Validators, NEW vote \in Blocks
    PROVE  /\ PollOK(PollVote(p, vdr, vote)) /\ PollVote(p, vdr, vote).id = p.id
           /\ PollOK(PollDrop(p, vdr)) /\ PollDrop(p, vdr).id = p.id
BY DEF PollOK, Poll, PollVote, PollDrop, SlotsOf

\* The step that both kinds of answer take.
LEMMA RespondInv ==
    ASSUME Inv, NEW i \in DOMAIN polls, NEW p, PollOK(p), p.id = polls[i].id,
           Respond(i, p)
    PROVE  Inv'
<1> DEFINE ps == [polls EXCEPT ![i] = p]
<1>0. /\ PollsOK /\ ResultsOK /\ ResultsInIssueOrder /\ OldestUnfinished
  BY DEF Inv
<1>1. /\ polls \in Seq(Poll) /\ results \in Seq(Poll) /\ added \in Seq(RequestIDs)
      /\ added' = added
      /\ Len(polls) \in Nat /\ DOMAIN polls = 1..Len(polls) /\ i \in 1..Len(polls)
      /\ Len(results) \in Nat /\ DOMAIN results = 1..Len(results)
  BY LenProperties DEF Inv, TypeOK, Respond
<1>2. /\ ps \in Seq(Poll) /\ Len(ps) = Len(polls) /\ DOMAIN ps = 1..Len(polls)
      /\ \A j \in 1..Len(polls) : ps[j] = IF j = i THEN p ELSE polls[j]
  <2>1. p \in Poll BY DEF PollOK
  <2> QED BY <1>1, <2>1, ExceptSeq
<1>3. \A j \in 1..Len(polls) : PollOK(ps[j]) /\ ps[j].id = polls[j].id
  BY <1>0, <1>1, <1>2 DEF PollsOK
<1> HIDE DEF ps
<1>4. CASE ~Finished(p)
  <2>1. polls' = ps /\ results' = results BY <1>4 DEF Respond, ps
  <2>2. TypeOK' BY <1>1, <1>2, <2>1 DEF TypeOK
  <2>3. PollsOK' /\ ResultsOK' BY <1>0, <1>2, <1>3, <2>1 DEF PollsOK, ResultsOK
  <2>4. IdsOf(polls') = IdsOf(polls) BY <1>1, <1>2, <1>3, <2>1 DEF IdsOf
  <2>5. ResultsInIssueOrder' BY <1>0, <1>1, <2>1, <2>4 DEF ResultsInIssueOrder
  <2>6. OldestUnfinished'
    <3>1. polls # <<>> /\ polls' # <<>> /\ 1 \in 1..Len(polls)
      BY <1>1, <1>2, <2>1, SMT
    <3>2. Head(polls) = polls[1] /\ Head(polls') = ps[1] BY <1>1, <1>2, <2>1, <3>1, SMT
    <3>3. ps[1] = IF 1 = i THEN p ELSE polls[1] BY <1>2, <3>1
    <3> QED BY <1>0, <1>4, <3>1, <3>2, <3>3 DEF OldestUnfinished
  <2> QED BY <2>2, <2>3, <2>5, <2>6 DEF Inv
<1>5. CASE Finished(p)
  <2>1. PICK n \in 0..Len(ps) :
          /\ \A j \in 1..n : Finished(ps[j])
          /\ n < Len(ps) => ~Finished(ps[n+1])
          /\ polls' = SubSeq(ps, n+1, Len(ps))
          /\ results' = results \o SubSeq(ps, 1, n)
    BY <1>5 DEF Respond, processFinishedPolls, ps
  <2>a. n \in Nat /\ n <= Len(polls) /\ Len(ps) \in Nat BY <1>1, <1>2, <2>1, SMT
  <2>2. /\ polls' \in Seq(Poll) /\ Len(polls') = Len(polls) - n
        /\ DOMAIN polls' = 1..(Len(polls) - n)
        /\ \A j \in 1..(Len(polls) - n) : polls'[j] = ps[n + j]
    <3>1. polls' \in Seq(Poll) /\ Len(polls') = Len(polls) - n
          /\ \A j \in 1..(Len(polls) - n) : polls'[j] = ps[n + j]
      <4>1. /\ polls' \in Seq(Poll) /\ Len(polls') = Len(ps) - n
            /\ \A j \in 1..(Len(ps) - n) : polls'[j] = ps[n + j]
        BY <1>2, <2>1, SuffixProperties, Zenon
      <4> QED BY <4>1, <1>2, Zenon
    <3> QED BY <3>1, LenProperties
  <2>b. /\ SubSeq(ps, 1, n) \in Seq(Poll) /\ Len(SubSeq(ps, 1, n)) = n
        /\ \A j \in 1..n : SubSeq(ps, 1, n)[j] = ps[j]
    BY <1>1, <1>2, <2>1, <2>a, SMT
  <2>3. /\ results' \in Seq(Poll) /\ Len(results') = Len(results) + n
        /\ DOMAIN results' = 1..(Len(results) + n)
        /\ \A j \in 1..(Len(results) + n) :
              results'[j] = IF j <= Len(results) THEN results[j]
                                                 ELSE ps[j - Len(results)]
    <3>1. results' \in Seq(Poll) /\ Len(results') = Len(results) + n
      BY <1>1, <2>1, <2>b, ConcatProperties, SMT
    <3>2. ASSUME NEW j \in 1..(Len(results) + n)
          PROVE  results'[j] = IF j <= Len(results) THEN results[j]
                                                    ELSE ps[j - Len(results)]
      <4>1. results'[j] = IF j <= Len(results) THEN results[j]
                          ELSE SubSeq(ps, 1, n)[j - Len(results)]
        BY <1>1, <2>1, <2>b, ConcatProperties, SMT
      <4>2. j > Len(results) => j - Len(results) \in 1..n BY <1>1, <2>a, SMT
      <4> QED BY <4>1, <4>2, <2>b, <1>1, <2>a, SMT
    <3> QED BY <3>1, <3>2, LenProperties
  <2>4. TypeOK' BY <1>1, <2>2, <2>3 DEF TypeOK
  <2>5. PollsOK'
    <3>1. \A j \in 1..(Len(polls) - n) : n + j \in 1..Len(polls) BY <1>1, <2>a, SMT
    <3> QED BY <1>3, <2>2, <3>1 DEF PollsOK
  <2>6. ResultsOK'
    <3> SUFFICES ASSUME NEW j \in 1..(Len(results) + n)
                 PROVE  PollOK(results'[j]) /\ Finished(results'[j])
      BY <2>3 DEF ResultsOK
    <3>1. CASE j <= Len(results)
      <4>1. results'[j] = results[j] /\ j \in DOMAIN results BY <1>1, <2>a, <2>3, <3>1, SMT
      <4> QED BY <1>0, <4>1 DEF ResultsOK
    <3>2. CASE j > Len(results)
      <4>1. /\ j - Len(results) \in 1..n /\ j - Len(results) \in 1..Len(polls)
            /\ results'[j] = ps[j - Len(results)]
        BY <1>1, <2>a, <2>3, <3>2, SMT
      <4> QED BY <4>1, <1>3, <2>1
    <3> QED BY <1>1, <2>a, <3>1, <3>2, SMT
  <2>7. ResultsInIssueOrder'
    <3>1. /\ IdsOf(results) \in Seq(RequestIDs) /\ IdsOf(ps) \in Seq(RequestIDs)
          /\ Len(IdsOf(ps)) = Len(ps)
      BY <1>1, <1>2, IdsOfSeq
    <3>2. IdsOf(ps) = IdsOf(polls) BY <1>1, <1>2, <1>3 DEF IdsOf
    <3>3. SubSeq(ps, 1, n) \in Seq(Poll) BY <1>2, <2>1, SMT
    <3>4. IdsOf(results') = IdsOf(results) \o SubSeq(IdsOf(ps), 1, n)
      <4>1. IdsOf(SubSeq(ps, 1, n)) = SubSeq(IdsOf(ps), 1, n)
        <5>1. 1 \in 1..(Len(ps) + 1) /\ n \in (1-1)..Len(ps) BY <1>1, <1>2, <2>a, SMT
        <5> QED BY <5>1, <1>2, IdsOfSubSeq, Zenon
      <4>2. IdsOf(results') = IdsOf(results) \o IdsOf(SubSeq(ps, 1, n))
        BY <1>1, <2>1, <3>3, IdsOfConcat
      <4> QED BY <4>1, <4>2
    <3>5. IdsOf(polls') = SubSeq(IdsOf(ps), n+1, Len(ps))
      <4>1. n+1 \in 1..(Len(ps)+1) /\ Len(ps) \in ((n+1)-1)..Len(ps)
        BY <1>1, <1>2, <2>a, SMT
      <4> QED BY <4>1, <1>2, <2>1, IdsOfSubSeq
    <3>6. SubSeq(IdsOf(ps), 1, n) \o SubSeq(IdsOf(ps), n+1, Len(ps)) = IdsOf(ps)
      <4>1. SubSeq(IdsOf(ps), 1, n) \o SubSeq(IdsOf(ps), n+1, Len(ps))
              = SubSeq(IdsOf(ps), 1, Len(ps))
        <5>1. /\ 1 \in 1..(Len(IdsOf(ps)) + 1) /\ n \in (1-1)..Len(IdsOf(ps))
              /\ Len(ps) \in n..Len(IdsOf(ps))
          BY <1>1, <1>2, <2>a, <3>1, SMT
        <5> QED BY <5>1, <3>1, ConcatAdjacentSubSeq, Zenon
      <4> QED BY <4>1, <3>1, SubSeqFull
    <3>7. /\ SubSeq(IdsOf(ps), 1, n) \in Seq(RequestIDs)
          /\ SubSeq(IdsOf(ps), n+1, Len(ps)) \in Seq(RequestIDs)
      BY <1>2, <2>1, <3>1, SMT
    <3>8. IdsOf(results') \o IdsOf(polls') = IdsOf(results) \o IdsOf(ps)
      <4>1. (IdsOf(results) \o SubSeq(IdsOf(ps), 1, n)) \o SubSeq(IdsOf(ps), n+1, Len(ps))
            = IdsOf(results) \o (SubSeq(IdsOf(ps), 1, n) \o SubSeq(IdsOf(ps), n+1, Len(ps)))
        BY <3>1, <3>7, ConcatIds
      <4> QED BY <3>4, <3>5, <3>6, <4>1
    <3> QED BY <3>2, <3>8, <1>0, <1>1 DEF ResultsInIssueOrder
  <2>8. OldestUnfinished'
    <3> SUFFICES ASSUME polls' # <<>> PROVE ~Finished(Head(polls'))
      BY DEF OldestUnfinished
    <3>1. Len(polls) - n > 0 BY <1>1, <2>a, <2>2, SMT
    <3>2. Head(polls') = ps[n+1] BY <1>1, <2>a, <2>2, <3>1, SMT
    <3> QED BY <1>2, <2>1, <2>a, <3>1, <3>2, SMT
  <2> QED BY <2>4, <2>5, <2>6, <2>7, <2>8 DEF Inv
<1> QED BY <1>4, <1>5

LEMMA InitInv == Init => Inv
BY EmptySeq, SMT DEF Init, Inv, TypeOK, PollsOK, ResultsOK, ResultsInIssueOrder, IdsOf,
       OldestUnfinished

LEMMA AddInv ==
    ASSUME Inv, NEW id \in RequestIDs, NEW sample \in Samples, Add(id, sample)
    PROVE  Inv'
<1> DEFINE p == NewPoll(id, sample)
<1>0. /\ PollsOK /\ ResultsOK /\ ResultsInIssueOrder /\ OldestUnfinished
  BY DEF Inv
<1>1. /\ polls \in Seq(Poll) /\ results \in Seq(Poll) /\ added \in Seq(RequestIDs)
      /\ Len(polls) \in Nat /\ DOMAIN polls = 1..Len(polls)
  BY LenProperties DEF Inv, TypeOK
<1>2. PollOK(p) /\ ~Finished(p) /\ p \in Poll /\ p.id = id
  BY NewPollUnfinished DEF PollOK, NewPoll
<1>3. /\ polls' = Append(polls, p) /\ added' = Append(added, id) /\ results' = results
      /\ \A i \in DOMAIN polls : polls[i].id # id
  BY <1>1 DEF Add, IdsOf, Range
<1> HIDE DEF p
<1>4. /\ polls' \in Seq(Poll) /\ Len(polls') = Len(polls) + 1
      /\ DOMAIN polls' = 1..(Len(polls) + 1)
      /\ \A i \in 1..Len(polls) : polls'[i] = polls[i]
      /\ polls'[Len(polls) + 1] = p
  BY <1>1, <1>2, <1>3, AppendProperties, LenProperties, SMT
<1>5. TypeOK' BY <1>1, <1>3, <1>4, AppendProperties DEF TypeOK
<1>6. PollsOK' /\ ResultsOK' BY <1>0, <1>1, <1>2, <1>3, <1>4, SMT DEF PollsOK, ResultsOK
<1>7. ResultsInIssueOrder'
  <2>1. <<p>> \in Seq(Poll) /\ polls' = polls \o <<p>>
    BY <1>1, <1>2, <1>3, AppendIsConcat, SMT
  <2>2. IdsOf(<<p>>) = <<id>> BY <1>2, SMT DEF IdsOf
  <2>3. IdsOf(polls') = IdsOf(polls) \o <<id>>
    BY <1>1, <2>1, <2>2, IdsOfConcat
  <2>4. IdsOf(results) \in Seq(RequestIDs) /\ IdsOf(polls) \in Seq(RequestIDs)
        /\ <<id>> \in Seq(RequestIDs)
    BY <1>1, IdsOfSeq, SMT
  <2>5. IdsOf(results) \o (IdsOf(polls) \o <<id>>) = added \o <<id>>
    BY <1>0, <2>4, ConcatIds DEF ResultsInIssueOrder
  <2> QED BY <1>1, <1>3, <2>3, <2>5, AppendIsConcat DEF ResultsInIssueOrder
<1>8. OldestUnfinished'
  <2>1. Head(polls') = IF polls = <<>> THEN p ELSE Head(polls)
    BY <1>1, <1>3, HeadTailAppend
  <2> QED BY <1>0, <1>2, <2>1 DEF OldestUnfinished
<1> QED BY <1>5, <1>6, <1>7, <1>8 DEF Inv

LEMMA NextInv == Inv /\ [Next]_vars => Inv'
<1> SUFFICES ASSUME Inv, [Next]_vars PROVE Inv' OBVIOUS
<1>1. ASSUME NEW id \in RequestIDs, NEW sample \in Samples, Add(id, sample)
      PROVE  Inv'
  BY <1>1, AddInv
<1>2. ASSUME NEW id \in RequestIDs, NEW vdr \in Validators, NEW vote \in Blocks,
             Vote(id, vdr, vote)
      PROVE  Inv'
  <2>1. PICK i \in DOMAIN polls : Respond(i, PollVote(polls[i], vdr, vote))
    BY <1>2 DEF Vote
  <2>2. PollOK(polls[i]) BY DEF Inv, PollsOK
  <2> QED BY <2>1, <2>2, AnswerOK, RespondInv
<1>3. ASSUME NEW id \in RequestIDs, NEW vdr \in Validators, Drop(id, vdr)
      PROVE  Inv'
  <2>1. PICK i \in DOMAIN polls : Respond(i, PollDrop(polls[i], vdr))
    BY <1>3 DEF Drop
  <2>2. PollOK(polls[i]) BY DEF Inv, PollsOK
  <2>3. PollOK(PollDrop(polls[i], vdr)) /\ PollDrop(polls[i], vdr).id = polls[i].id
    BY <2>2 DEF PollOK, Poll, PollDrop, SlotsOf
  <2> QED BY <2>1, <2>3, RespondInv
<1>4. CASE UNCHANGED vars
  BY <1>4 DEF vars, Inv, TypeOK, PollsOK, ResultsOK, ResultsInIssueOrder,
              OldestUnfinished
<1> QED BY <1>1, <1>2, <1>3, <1>4 DEF Next

\* Every poll is still in the set or among the results after an answer.
LEMMA RespondKeeps ==
    ASSUME Inv, NEW i \in DOMAIN polls, NEW p, PollOK(p), Continues(polls[i], p),
           Respond(i, p)
    PROVE  AnswersKept
<1> DEFINE ps == [polls EXCEPT ![i] = p]
<1> SUFFICES ASSUME NEW j \in DOMAIN polls
             PROVE  ps[j] \in Range(polls') \cup Range(results')
  <2> SUFFICES ASSUME NEW k \in DOMAIN polls
               PROVE  \E q \in Range(polls') \cup Range(results') : Continues(polls[k], q)
    BY DEF AnswersKept
  <2>1. Continues(polls[k], ps[k]) BY DEF Continues
  <2> QED BY <2>1
<1>1. /\ polls \in Seq(Poll) /\ results \in Seq(Poll)
      /\ Len(polls) \in Nat /\ DOMAIN polls = 1..Len(polls)
      /\ Len(results) \in Nat /\ DOMAIN results = 1..Len(results)
  BY LenProperties DEF Inv, TypeOK
<1>2. ps \in Seq(Poll) /\ Len(ps) = Len(polls) /\ DOMAIN ps = 1..Len(polls)
  <2>1. p \in Poll BY DEF PollOK
  <2> QED BY <1>1, <2>1, ExceptSeq
<1>3. CASE ~Finished(p)
  <2>1. polls' = ps BY <1>3 DEF Respond
  <2> QED BY <2>1 DEF Range
<1>4. CASE Finished(p)
  <2>1. PICK n \in 0..Len(ps) :
          /\ polls' = SubSeq(ps, n+1, Len(ps))
          /\ results' = results \o SubSeq(ps, 1, n)
    BY <1>4 DEF Respond, processFinishedPolls
  <2> HIDE DEF ps
  <2>2. CASE j <= n
    <3>1. /\ SubSeq(ps, 1, n) \in Seq(Poll) /\ Len(SubSeq(ps, 1, n)) = n
          /\ SubSeq(ps, 1, n)[j] = ps[j]
      BY <1>1, <1>2, <2>2, SMT
    <3>2. /\ Len(results') = Len(results) + n /\ results' \in Seq(Poll)
          /\ results'[Len(results) + j] = ps[j]
      <4>1. results' \in Seq(Poll) /\ Len(results') = Len(results) + n
        BY <1>1, <2>1, <3>1, ConcatProperties
      <4>2. /\ Len(results) + j \in 1..(Len(results) + n)
            /\ ~(Len(results) + j <= Len(results))
            /\ (Len(results) + j) - Len(results) = j
        BY <1>1, <2>2, SMT
      <4>3. results'[Len(results) + j] = SubSeq(ps, 1, n)[(Len(results) + j) - Len(results)]
        BY <1>1, <2>1, <3>1, <4>2, ConcatProperties, SMT
      <4> QED BY <3>1, <4>1, <4>2, <4>3
    <3>3. Len(results) + j \in DOMAIN results' BY <1>1, <2>2, <3>2, LenProperties, SMT
    <3> QED BY <3>2, <3>3 DEF Range
  <2>3. CASE j > n
    <3>1. j - n \in 1..(Len(ps) - n) /\ n + (j - n) = j BY <1>1, <1>2, <2>3, SMT
    <3>2. /\ polls' \in Seq(Poll) /\ Len(polls') = Len(ps) - n
          /\ polls'[j - n] = ps[j]
      BY <1>2, <2>1, <3>1, SuffixProperties
    <3>3. j - n \in DOMAIN polls' BY <3>1, <3>2, LenProperties
    <3> QED BY <3>2, <3>3 DEF Range
  <2> QED BY <1>1, <2>1, <2>2, <2>3, SMT
<1> QED BY <1>3, <1>4

LEMMA NextKeeps == Inv /\ [Next]_vars => [AnswersKept]_vars
<1> SUFFICES ASSUME Inv, Next PROVE AnswersKept OBVIOUS
<1>0. PollsOK /\ polls \in Seq(Poll) /\ results \in Seq(Poll) BY DEF Inv, TypeOK
<1>1. ASSUME NEW id \in RequestIDs, NEW sample \in Samples, Add(id, sample)
      PROVE  AnswersKept
  <2> SUFFICES ASSUME NEW i \in DOMAIN polls
               PROVE  polls[i] \in Range(polls')
    BY DEF AnswersKept, Continues
  <2>1. NewPoll(id, sample) \in Poll BY NewPollUnfinished DEF PollOK
  <2>2. i \in DOMAIN polls' /\ polls'[i] = polls[i]
    BY <1>0, <1>1, <2>1, AppendProperties, LenProperties, SMT DEF Add
  <2> QED BY <2>2 DEF Range
<1>2. ASSUME NEW id \in RequestIDs, NEW vdr \in Validators, NEW vote \in Blocks,
             Vote(id, vdr, vote)
      PROVE  AnswersKept
  <2>1. PICK i \in DOMAIN polls : Respond(i, PollVote(polls[i], vdr, vote))
    BY <1>2 DEF Vote
  <2>2. PollOK(polls[i]) BY <1>0 DEF PollsOK
  <2>3. Continues(polls[i], PollVote(polls[i], vdr, vote))
    BY <2>2 DEF PollOK, Poll, Continues, PollVote, SlotsOf
  <2> QED BY <2>1, <2>2, <2>3, AnswerOK, RespondKeeps
<1>3. ASSUME NEW id \in RequestIDs, NEW vdr \in Validators, Drop(id, vdr)
      PROVE  AnswersKept
  <2>1. PICK i \in DOMAIN polls : Respond(i, PollDrop(polls[i], vdr))
    BY <1>3 DEF Drop
  <2>2. PollOK(polls[i]) BY <1>0 DEF PollsOK
  <2>3. /\ PollOK(PollDrop(polls[i], vdr))
        /\ Continues(polls[i], PollDrop(polls[i], vdr))
    BY <2>2 DEF PollOK, Poll, Continues, PollDrop, SlotsOf
  <2> QED BY <2>1, <2>3, RespondKeeps
<1> QED BY <1>1, <1>2, <1>3 DEF Next

LEMMA InvHolds == Spec => []Inv
BY InitInv, NextInv, PTL DEF Spec

\* The polls are well formed at all times.
THEOREM TypeCorrect == Spec => []TypeOK
BY InvHolds, PTL DEF Inv

\* Results leave the set in the order in which the polls were issued, none is
\* lost and none is returned twice (set.processFinishedPolls), for any number of
\* polls, any sample size and any reuse of request IDs.
THEOREM ResultsOrdered == Spec => []ResultsInIssueOrder
BY InvHolds, PTL DEF Inv

\* A finished poll is never left at the front of the set by Add, Vote or Drop.
THEOREM NoFinishedPollWaits == Spec => []OldestUnfinished
BY InvHolds, PTL DEF Inv

\* earlyTermNoTraversalPoll.Finished is sound: for every K and every alpha above
\* K/2, the answers still missing from a returned poll could not have changed
\* the set of blocks with a transitive majority.
THEOREM EarlyTermination == Spec => []EarlyTerminationSound
<1>1. Inv => EarlyTerminationSound
  BY FinishedSound DEF Inv, ResultsOK, EarlyTerminationSound
<1> QED BY <1>1, InvHolds, PTL

\* Vote and Drop never revise or withdraw an answer that was counted, and no
\* outstanding poll disappears without being returned.
THEOREM AnswersAreFinal == Spec => AnswersFinal
BY NextKeeps, InvHolds, PTL DEF Spec, AnswersFinal
=============================================================================
