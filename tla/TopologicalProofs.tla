-------------------------- MODULE TopologicalProofs --------------------------
(***************************************************************************)
(* The inductive invariant of Topological, which Initialize, Add and every  *)
(* step of RecordPoll keep; what follows from it, and that Topological      *)
(* implements SnowmanContract; and, when no edge is counted twice, that     *)
(* every poll starts at head, that the preferred branch is the walk along   *)
(* the preferences, and that putting off the falters changes nothing.       *)
(***************************************************************************)
EXTENDS TopologicalContract, TopologicalEager, FiniteSetTheorems, TLAPS

\* Every ancestor of a block of the tree is in the tree or was accepted before
\* head.
UpClosed == \A b \in blocks : \A a \in Ancestors[b] : a \in blocks \/ a \in Ancestors[head]

\* A block has an instance exactly when it has children, over just these.
Instances ==
    /\ sb \in [Blocks -> SbStates \cup {NoSb}]
    /\ \A b \in Blocks :
          /\ b \notin blocks => children[b] = {}
          /\ IF children[b] # {} THEN sb[b] # NoSb /\ SbChoices(sb[b]) = children[b]
                                 ELSE sb[b] = NoSb

TreeInv ==
    /\ TypeOK
    /\ TreeIsRooted
    /\ UpClosed
    /\ Instances
    /\ AcceptedIsChain
    /\ RejectedConflicts

\* The loop of vote is at a block with alpha votes below it, all of them in the
\* tree if the block is.
VoteBase ==
    /\ at \in Blocks
    /\ Cardinality(VotesBelow(votes, at)) >= Alpha
    /\ at \in blocks =>
          \A s \in Slots : votes[s] # None /\ at \in Ancestors[votes[s]] => votes[s] \in blocks

\* The way up from x.
Path(x) == {b \in blocks \ {head} : b = x \/ b \in Ancestors[x]}

TailIn == tail \in blocks /\ preferredIDs = Path(tail)

\* The preferred branch is in the tree, or all of it was rejected.
BranchKept == (TailIn /\ sb[tail] = NoSb) \/ preferredIDs \cap blocks = {}

BranchInv ==
    /\ pc = "idle" => TailIn /\ sb[tail] = NoSb
    /\ pc = "vote" =>
          VoteBase /\ newPreferred \in blocks /\ (at = head => onPreferredBranch) /\ BranchKept
    /\ pc = "settle" => newPreferred \in blocks /\ BranchKept
    /\ pc = "walk" => TailIn

Inv == TreeInv /\ BranchInv

USE Zenon

-----------------------------------------------------------------------------
(* The tree of all blocks *)

\* No block is its own ancestor.
LEMMA AncestorIrreflexive == \A b \in Blocks : b \notin Ancestors[b]
BY BlockAssumption, AncestorAssumption, SMT

\* The ancestors of a child are its parent and the parent's ancestors.
LEMMA AncestorsOfChild ==
    ASSUME NEW b \in Blocks, NEW p \in Blocks, b # Genesis, Parent[b] = p
    PROVE  Ancestors[b] = {p} \cup Ancestors[p]
BY AncestorAssumption

\* Only one child of a block lies on the way to a given descendant.
LEMMA OneChildOnTheWay ==
    ASSUME NEW c \in Blocks \ {Genesis}, NEW q \in Blocks \ {Genesis}, Parent[c] = Parent[q],
           NEW b \in Blocks, c = b \/ c \in Ancestors[b], q = b \/ q \in Ancestors[b]
    PROVE  c = q
<1>1. Height[c] = Height[q]
  BY BlockAssumption
<1>2. CASE c \in Ancestors[b] /\ q \in Ancestors[b]
  BY <1>1, <1>2, AncestorAssumption
<1>3. CASE c = b /\ q \in Ancestors[b]
  BY <1>1, <1>3, AncestorAssumption, BlockAssumption, SMT
<1>4. CASE q = b /\ c \in Ancestors[b]
  BY <1>1, <1>4, AncestorAssumption, BlockAssumption, SMT
<1> QED
  BY <1>2, <1>3, <1>4

-----------------------------------------------------------------------------
(* The tree of processing blocks *)

\* Nothing in the tree is above head.
LEMMA NothingAboveHead ==
    ASSUME TreeInv
    PROVE  \A a \in Ancestors[head] : a \notin blocks
<1>1. head \in Blocks /\ Ancestors[head] \subseteq Blocks
  BY AncestorAssumption DEF TreeInv, TypeOK
<1>2. \A a \in Ancestors[head] : status[a] = "Accepted" /\ a # head
  BY <1>1, AncestorIrreflexive DEF TreeInv, AcceptedIsChain
<1> QED
  BY <1>2 DEF TreeInv, TreeIsRooted

\* The children of a block are in the tree, below it.
LEMMA ChildrenInTree ==
    ASSUME TreeInv, NEW p \in blocks, NEW c \in children[p]
    PROVE  /\ c \in blocks /\ c # head /\ c \in Blocks \ {Genesis} /\ Parent[c] = p
           /\ Ancestors[c] = {p} \cup Ancestors[p] /\ status[c] = "Processing"
<1>1. /\ c \in blocks /\ c # head /\ c \in Blocks /\ p \in Blocks /\ Parent[c] = p
      /\ head \in Ancestors[c] /\ status[c] = "Processing"
  BY SMT DEF TreeInv, TreeIsRooted, TypeOK
<1>2. c # Genesis
  BY <1>1, AncestorAssumption
<1> QED
  BY <1>1, <1>2, AncestorsOfChild

\* From a block of the tree a child leads to each descendant in the tree.
LEMMA ChildOnTheWay ==
    ASSUME TreeInv, NEW p \in blocks, NEW b \in blocks, p \in Ancestors[b]
    PROVE  \E c \in children[p] : c = b \/ c \in Ancestors[b]
<1>1. p \in Blocks /\ b \in Blocks /\ head \in Blocks
  BY DEF TreeInv, TypeOK
<1>2. PICK c \in Blocks \ {Genesis} : Parent[c] = p /\ (c = b \/ c \in Ancestors[b])
  BY <1>1, AncestorAssumption
<1>3. p \in Ancestors[c] /\ Ancestors[c] \subseteq Blocks
  BY <1>1, <1>2, AncestorAssumption, SMT
<1>4. c # head /\ c \notin Ancestors[head]
  BY <1>1, <1>3, NothingAboveHead, AncestorAssumption
<1>5. c \in blocks
  BY <1>2, <1>4 DEF TreeInv, UpClosed
<1> QED
  BY <1>2, <1>4, <1>5 DEF TreeInv, TreeIsRooted

\* A block with children has an instance over them, which prefers one of them.
LEMMA PreferenceIsChild ==
    ASSUME TreeInv, NEW p \in blocks, sb[p] # NoSb
    PROVE  sb[p] \in SbStates /\ SbChoices(sb[p]) = children[p]
           /\ SbPreference(sb[p]) \in children[p]
<1>1. p \in Blocks
  BY DEF TreeInv, TypeOK
<1> QED
  BY <1>1, SnowballAssumption DEF TreeInv, Instances

\* A block of the tree other than head lies below its parent.
LEMMA ParentAbove ==
    ASSUME TreeInv, NEW a \in blocks \ {head}
    PROVE  /\ a \in Blocks \ {Genesis} /\ Parent[a] \in blocks /\ Parent[a] \in Blocks
           /\ Parent[a] \in Ancestors[a] /\ a \in children[Parent[a]]
<1>1. a \in Blocks /\ head \in Ancestors[a] /\ Parent[a] \in blocks /\ Parent[a] \in Blocks
  BY DEF TreeInv, TreeIsRooted, TypeOK
<1>2. a # Genesis
  BY <1>1, AncestorAssumption
<1> QED
  BY <1>1, <1>2, AncestorsOfChild, SMT DEF TreeInv, TreeIsRooted

-----------------------------------------------------------------------------
(* Initialize and Add *)

\* Initialize establishes the invariant.
LEMMA InitInv == Init => Inv
<1> SUFFICES ASSUME Init PROVE Inv
  OBVIOUS
<1>1. /\ Genesis \in Blocks /\ Ancestors[Genesis] = {} /\ NoVotes \in [Slots -> Blocks \cup {None}]
  BY BlockAssumption, AncestorAssumption DEF NoVotes
<1>2. TypeOK
  BY <1>1 DEF Init, TypeOK
<1>3. TreeIsRooted /\ UpClosed /\ Instances /\ AcceptedIsChain /\ RejectedConflicts
  BY <1>1 DEF Init, TreeIsRooted, UpClosed, Instances, AcceptedIsChain, RejectedConflicts
<1>4. BranchInv
  BY <1>1 DEF Init, BranchInv, TailIn, Path
<1> QED
  BY <1>2, <1>3, <1>4 DEF Inv, TreeInv

\* A block that may be issued is a new leaf below head.
LEMMA IssuedBlock ==
    ASSUME TreeInv, NEW b \in Blocks, ~Decided(b), ~Processing(b), Parent[b] \in blocks
    PROVE  /\ b # Genesis /\ b # head /\ b \notin blocks /\ status[b] = "Processing"
           /\ Parent[b] \in Blocks /\ Parent[b] # b
           /\ Ancestors[b] = {Parent[b]} \cup Ancestors[Parent[b]]
           /\ head \in Ancestors[b]
           /\ \A x \in blocks : b \notin Ancestors[x]
<1>1. b # head /\ b \notin blocks /\ status[b] = "Processing" /\ Parent[b] \in Blocks
  BY BlockAssumption, SMT DEF Decided, Processing, TreeInv, TypeOK
<1>2. status[Genesis] = "Accepted"
  <2>1. head = Genesis \/ Genesis \in Ancestors[head]
    BY BlockAssumption, AncestorAssumption DEF TreeInv, TypeOK
  <2> QED
    BY <2>1, BlockAssumption DEF TreeInv, AcceptedIsChain
<1>3. b # Genesis
  BY <1>1, <1>2
<1>4. Ancestors[b] = {Parent[b]} \cup Ancestors[Parent[b]]
  BY <1>1, <1>3, AncestorsOfChild
<1>5. head \in Ancestors[b]
  BY <1>4 DEF TreeInv, TreeIsRooted
<1>6. ASSUME NEW x \in blocks, b \in Ancestors[x] PROVE FALSE
  <2>1. b \in Ancestors[head]
    BY <1>1, <1>6 DEF TreeInv, UpClosed
  <2> QED
    BY <1>1, <2>1 DEF TreeInv, AcceptedIsChain
<1>7. Parent[b] # b
  BY <1>1
<1> QED
  BY <1>1, <1>3, <1>4, <1>5, <1>6, <1>7

\* Add of a block whose parent is in the tree keeps the tree rooted.
LEMMA IssueTree ==
    ASSUME TreeInv, NEW b \in Blocks, ~Decided(b), ~Processing(b), Issue(b), UNCHANGED pollVars
    PROVE  TreeInv'
<1> DEFINE p == Parent[b]
<1>1. /\ b # Genesis /\ b # head /\ b \notin blocks /\ status[b] = "Processing"
      /\ p \in blocks /\ p \in Blocks /\ p # b /\ head \in Blocks /\ head \in blocks
      /\ Ancestors[b] = {p} \cup Ancestors[p]
      /\ head \in Ancestors[b]
      /\ \A x \in blocks : b \notin Ancestors[x]
  BY IssuedBlock DEF Issue, TreeInv, TypeOK, TreeIsRooted
<1>2. /\ blocks' = blocks \cup {b} /\ head' = head /\ status' = status
      /\ children' = [children EXCEPT ![p] = children[p] \cup {b}]
      /\ sb' = [sb EXCEPT ![p] = IF sb[p] = NoSb THEN SbNew(b) ELSE SbAdd(sb[p], b)]
  BY DEF Issue, AddChild
<1> HIDE DEF p
<1>3. TypeOK'
  BY <1>1, <1>2 DEF TypeOK, TreeInv, Issue, ExtendTail, pollVars
<1>4. children \in [Blocks -> SUBSET Blocks] /\ blocks \subseteq Blocks
  BY DEF TreeInv, TypeOK
<1>5. children[b] = {} /\ sb[b] = NoSb
  BY <1>1 DEF TreeInv, Instances
<1>6. TreeIsRooted'
  <2>1. \A x \in blocks' \ {head} : status[x] = "Processing" /\ head \in Ancestors[x] /\ Parent[x] \in blocks'
    BY <1>1, <1>2 DEF TreeInv, TreeIsRooted, p
  <2>2. ASSUME NEW x \in blocks' PROVE children'[x] = {c \in blocks' \ {head} : Parent[c] = x}
    <3>1. CASE x = b
      BY <1>1, <1>2, <1>4, <1>5, <3>1, SMT DEF TreeInv, TreeIsRooted, p
    <3>2. CASE x = p
      BY <1>1, <1>2, <1>4, <3>2 DEF TreeInv, TreeIsRooted, p
    <3>3. CASE x # b /\ x # p
      BY <1>1, <1>2, <1>4, <3>3 DEF TreeInv, TreeIsRooted, p
    <3> QED
      BY <3>1, <3>2, <3>3
  <2> QED
    BY <1>1, <1>2, <2>1, <2>2 DEF TreeIsRooted
<1>7. UpClosed'
  BY <1>1, <1>2 DEF TreeInv, UpClosed
<1>8. Instances'
  <2>1. sb'[p] \in SbStates /\ SbChoices(sb'[p]) = children'[p]
    <3>1. CASE sb[p] = NoSb
      BY <1>1, <1>2, <1>4, <3>1, SnowballAssumption DEF TreeInv, Instances
    <3>2. CASE sb[p] # NoSb
      BY <1>1, <1>2, <1>4, <3>2, PreferenceIsChild, SnowballAssumption, SMT DEF TreeInv, Instances
    <3> QED
      BY <3>1, <3>2
  <2>2. sb' \in [Blocks -> SbStates \cup {NoSb}]
    BY <1>1, <1>2, <2>1 DEF TreeInv, Instances
  <2>3. \A x \in Blocks \ {p} : sb'[x] = sb[x] /\ children'[x] = children[x]
    BY <1>1, <1>2, <1>4 DEF TreeInv, Instances
  <2>4. children'[p] # {} /\ sb'[p] # NoSb
    BY <1>1, <1>2, <1>4, <2>1, SnowballAssumption
  <2>5. ASSUME NEW x \in Blocks
        PROVE  /\ x \notin blocks' => children'[x] = {}
               /\ IF children'[x] # {} THEN sb'[x] # NoSb /\ SbChoices(sb'[x]) = children'[x]
                                       ELSE sb'[x] = NoSb
    <3>1. CASE x = p
      BY <1>1, <1>2, <2>1, <2>4, <3>1
    <3>2. CASE x # p
      <4>1. sb'[x] = sb[x] /\ children'[x] = children[x] /\ (x \notin blocks' => x \notin blocks)
        BY <1>2, <2>3, <3>2
      <4> QED
        BY <4>1 DEF TreeInv, Instances
    <3> QED
      BY <3>1, <3>2
  <2> QED
    BY <2>2, <2>5 DEF Instances
<1>9. AcceptedIsChain' /\ RejectedConflicts'
  BY <1>2 DEF TreeInv, AcceptedIsChain, RejectedConflicts
<1> QED
  BY <1>3, <1>6, <1>7, <1>8, <1>9 DEF TreeInv

\* A new tip of the preferred branch becomes tail.
LEMMA IssueBranch ==
    ASSUME TreeInv, TailIn, sb[tail] = NoSb, NEW b \in Blocks, ~Decided(b), ~Processing(b), Issue(b)
    PROVE  (TailIn /\ sb[tail] = NoSb)'
<1> DEFINE p == Parent[b]
<1>1. /\ b # head /\ b \notin blocks /\ p \in blocks /\ p \in Blocks /\ p # b
      /\ Ancestors[b] = {p} \cup Ancestors[p]
      /\ \A x \in blocks : b \notin Ancestors[x]
  BY IssuedBlock DEF Issue, TreeInv, TypeOK
<1>2. /\ blocks' = blocks \cup {b} /\ head' = head
      /\ sb' = [sb EXCEPT ![p] = IF sb[p] = NoSb THEN SbNew(b) ELSE SbAdd(sb[p], b)]
      /\ IF tail = p THEN tail' = b /\ preferredIDs' = preferredIDs \cup {b}
                     ELSE tail' = tail /\ preferredIDs' = preferredIDs
  BY DEF Issue, AddChild, ExtendTail
<1> HIDE DEF p
<1>3. /\ \A x \in Blocks \ {p} : sb'[x] = sb[x]
      /\ sb[b] = NoSb /\ blocks \subseteq Blocks
  BY <1>1, <1>2 DEF TreeInv, Instances, TypeOK
<1>4. tail \in blocks /\ preferredIDs = {x \in blocks \ {head} : x = tail \/ x \in Ancestors[tail]}
  BY DEF TailIn, Path
<1>5. CASE tail = p
  <2>1. tail' = b /\ preferredIDs' = preferredIDs \cup {b} /\ sb'[b] = NoSb
    BY <1>1, <1>2, <1>3, <1>5
  <2>2. preferredIDs' = {x \in blocks' \ {head'} : x = tail' \/ x \in Ancestors[tail']}
    BY <1>1, <1>2, <1>4, <1>5, <2>1
  <2> QED
    BY <1>2, <2>1, <2>2 DEF TailIn, Path
<1>6. CASE tail # p
  <2>1. tail' = tail /\ preferredIDs' = preferredIDs /\ sb'[tail] = NoSb
    BY <1>2, <1>3, <1>4, <1>6
  <2>2. preferredIDs' = {x \in blocks' \ {head'} : x = tail' \/ x \in Ancestors[tail']}
    BY <1>1, <1>2, <1>4, <2>1
  <2> QED
    BY <1>2, <1>4, <2>1, <2>2 DEF TailIn, Path
<1> QED
  BY <1>5, <1>6

\* Add rejects a block whose parent was pruned; it conflicts with head.
LEMMA OrphanTree ==
    ASSUME TreeInv, NEW b \in Blocks, ~Decided(b), ~Processing(b), IssueOrphan(b),
           Parent[b] \in blocks \/ status[Parent[b]] # "Processing", UNCHANGED pollVars
    PROVE  TreeInv'
<1>1. /\ b # head /\ b \notin blocks /\ status[b] = "Processing" /\ head \in Blocks
      /\ head \in blocks /\ status \in [Blocks -> {"Processing", "Accepted", "Rejected"}]
  BY BlockAssumption, SMT DEF Decided, Processing, TreeInv, TypeOK, TreeIsRooted
<1>2. b # Genesis
  <2>1. head = Genesis \/ Genesis \in Ancestors[head]
    BY <1>1, BlockAssumption, AncestorAssumption
  <2> QED
    BY <1>1, <2>1, BlockAssumption DEF TreeInv, AcceptedIsChain
<1> DEFINE p == Parent[b]
<1>3. p \in Blocks /\ p \notin blocks /\ status[p] \in {"Accepted", "Rejected"} /\ p # head
  BY <1>1, <1>2, BlockAssumption DEF IssueOrphan
<1>4. Ancestors[b] = {p} \cup Ancestors[p]
  BY <1>2, <1>3, AncestorsOfChild
<1> HIDE DEF p
<1>5. head \notin Ancestors[p]
  <2>1. CASE status[p] = "Accepted"
    <3>1. p \in Ancestors[head]
      BY <1>3, <2>1 DEF TreeInv, AcceptedIsChain
    <3> QED
      BY <1>1, <1>3, <3>1, AncestorAssumption, AncestorIrreflexive
  <2>2. CASE status[p] = "Rejected"
    BY <1>3, <2>2 DEF TreeInv, RejectedConflicts
  <2> QED
    BY <1>3, <2>1, <2>2
<1>6. /\ status' = [status EXCEPT ![b] = "Rejected"]
      /\ UNCHANGED <<blocks, children, sb, shouldFalter, head, tail, preferredIDs>>
  BY DEF IssueOrphan
<1>7. TypeOK'
  BY <1>6 DEF TreeInv, TypeOK, pollVars
<1>8. TreeIsRooted' /\ UpClosed' /\ Instances'
  BY <1>1, <1>6, SMT DEF TreeInv, TreeIsRooted, UpClosed, Instances
<1>9. b \notin Ancestors[head] \cup {head} /\ head \notin Ancestors[b]
  BY <1>1, <1>3, <1>4, <1>5 DEF TreeInv, AcceptedIsChain
<1>10. AcceptedIsChain' /\ RejectedConflicts'
  BY <1>1, <1>6, <1>9 DEF TreeInv, AcceptedIsChain, RejectedConflicts
<1> QED
  BY <1>7, <1>8, <1>10 DEF TreeInv

\* Add keeps the invariant.
LEMMA AddInv ==
    ASSUME Inv, NEW b \in Blocks, Add(b)
    PROVE  Inv'
<1>1. /\ TreeInv /\ TailIn /\ sb[tail] = NoSb /\ pc' = "idle"
      /\ ~Decided(b) /\ ~Processing(b) /\ UNCHANGED pollVars
      /\ Parent[b] \in blocks \/ status[Parent[b]] # "Processing"
  BY DEF Inv, BranchInv, Add, pollVars
<1>2. CASE Issue(b)
  BY <1>1, <1>2, IssueTree, IssueBranch DEF Inv, BranchInv
<1>3. CASE IssueOrphan(b)
  <2>1. TailIn' /\ sb'[tail'] = NoSb
    BY <1>1, <1>3 DEF IssueOrphan, TailIn, Path
  <2> QED
    BY <1>1, <1>3, <2>1, OrphanTree DEF Inv, BranchInv
<1> QED
  BY <1>2, <1>3 DEF Add

-----------------------------------------------------------------------------
(* RecordPoll: collecting the votes *)

\* The votes that count are for blocks of the tree.
LEMMA VotesAreValid ==
    ASSUME NEW vs \in AnyVotes
    PROVE  /\ vs \in [Slots -> Blocks \cup {None}]
           /\ \A s \in Slots : vs[s] # None => vs[s] \in blocks
<1>1. PICK any \in [Slots -> Blocks \cup {None}] : vs = ValidVotes(any, blocks, head)
  BY DEF AnyVotes
<1> QED
  BY <1>1 DEF ValidVotes

\* Dropping stray votes and finding the topmost block with alpha votes below it,
\* or none, keeps the invariant.
LEMMA RecordPollInv ==
    ASSUME Inv, NEW vs \in AnyVotes, NEW twice, RecordPoll(vs, twice)
    PROVE  Inv'
<1>1. /\ TreeInv /\ TailIn /\ sb[tail] = NoSb /\ head \in blocks /\ head \in Blocks /\ tail \in Blocks
      /\ blocks \subseteq Blocks
  BY DEF Inv, BranchInv, RecordPoll, TreeInv, TreeIsRooted, TypeOK
<1>2. /\ UNCHANGED <<blocks, children, sb, status, head, preferredIDs, tail>>
      /\ onPreferredBranch' = TRUE
  BY DEF RecordPoll
<1>3. \/ /\ pc' = "vote" /\ votes' = vs /\ newPreferred' = head /\ shouldFalter' = shouldFalter
         /\ at' \in blocks /\ Cardinality(VotesBelow(vs, at')) >= Alpha
      \/ /\ pc' = "settle" /\ votes' = NoVotes /\ at' = None /\ newPreferred' = tail
         /\ shouldFalter' = [shouldFalter EXCEPT ![head] = TRUE]
  BY DEF RecordPoll, OnStack
<1>4. TypeOK'
  BY <1>1, <1>2, <1>3, VotesAreValid DEF TreeInv, TypeOK, NoVotes
<1>5. TreeInv'
  BY <1>1, <1>2, <1>4 DEF TreeInv, TreeIsRooted, UpClosed, Instances, AcceptedIsChain, RejectedConflicts
<1>6. TailIn' /\ sb'[tail'] = NoSb
  BY <1>1, <1>2 DEF TailIn, Path
<1>7. pc' = "vote" => VoteBase'
  BY <1>1, <1>2, <1>3, VotesAreValid DEF VoteBase, VotesBelow
<1>8. newPreferred' \in blocks'
  BY <1>1, <1>2, <1>3 DEF TailIn
<1> QED
  BY <1>2, <1>3, <1>5, <1>6, <1>7, <1>8 DEF Inv, BranchInv, BranchKept

-----------------------------------------------------------------------------
(* vote: one iteration *)

\* At most K votes go through a block.
LEMMA VotesThroughBound ==
    ASSUME NEW vs, NEW c
    PROVE  Cardinality(VotesThrough(vs, c)) \in 0..K
<1>1. K \in Nat
  BY ParameterAssumption DEF Verify
<1>2. IsFiniteSet(1..K) /\ Cardinality(1..K) = K
  BY <1>1, FS_Interval, SMT
<1>3. VotesThrough(vs, c) \subseteq 1..K
  BY DEF VotesThrough, VotesBelow, Slots
<1> QED
  BY <1>1, <1>2, <1>3, FS_Subset, FS_CardinalityType, SMT

\* What a poll makes of the instance of p: an instance over the same children.
LEMMA PolledInstance ==
    ASSUME TreeInv, NEW p \in blocks, sb[p] # NoSb,
           NEW s \in SbPolls(IF shouldFalter[p] THEN SbFalter(sb[p]) ELSE sb[p], VoteBag(votes, p))
    PROVE  s \in SbStates /\ SbChoices(s) = children[p] /\ SbPreference(s) \in children[p]
<1> DEFINE t == IF shouldFalter[p] THEN SbFalter(sb[p]) ELSE sb[p]
<1>1. t \in SbStates /\ SbChoices(t) = children[p]
  BY PreferenceIsChild, SnowballAssumption
<1>2. VoteBag(votes, p) \in [SbChoices(t) -> 0..K]
  <2>1. VoteBag(votes, p) \in [children[p] -> 0..K]
    BY VotesThroughBound DEF VoteBag
  <2> QED
    BY <1>1, <2>1
<1>3. s \in SbPolls(t, VoteBag(votes, p))
  OBVIOUS
<1> HIDE DEF t
<1>4. s \in SbStates /\ SbChoices(s) = SbChoices(t)
  BY <1>1, <1>2, <1>3, SnowballPollAssumption
<1> QED
  BY <1>1, <1>4, SnowballAssumption

\* Alpha votes are at least one.
LEMMA VoteBelow ==
    ASSUME VoteBase
    PROVE  \E s \in Slots : votes[s] # None /\ at \in Ancestors[votes[s]]
<1>1. Alpha >= 1 /\ Alpha \in Nat
  BY ParameterAssumption, SMT DEF Verify
<1>2. VotesBelow(votes, at) # {}
  BY <1>1, FS_EmptySet, SMT DEF VoteBase
<1> QED
  BY <1>2 DEF VotesBelow

\* With alpha votes below at, at has children: the votes are for blocks of the
\* tree.
LEMMA VotedBlockHasInstance ==
    ASSUME TreeInv, VoteBase, at \in blocks
    PROVE  sb[at] # NoSb
<1>1. PICK s \in Slots : votes[s] # None /\ at \in Ancestors[votes[s]]
  BY VoteBelow
<1>2. votes[s] \in blocks
  BY <1>1 DEF VoteBase
<1>3. children[at] # {}
  BY <1>1, <1>2, ChildOnTheWay
<1> QED
  BY <1>3 DEF TreeInv, Instances, TypeOK

\* When child q of head is accepted, q and what extends it survive.
LEMMA Survivors ==
    ASSUME TreeInv, NEW q \in children[head], NEW b \in blocks
    PROVE  b \in blocks \ (RejectedWith(head, q) \cup {head}) <=> b = q \/ q \in Ancestors[b]
<1>1. head \in blocks /\ head \in Blocks /\ b \in Blocks
  BY DEF TreeInv, TreeIsRooted, TypeOK
<1>2. \A c \in children[head] : c \in Blocks \ {Genesis} /\ Parent[c] = head /\ c # head /\ c \in blocks
  BY <1>1, ChildrenInTree
<1>3. ASSUME b # head, b \notin RejectedWith(head, q) PROVE b = q \/ q \in Ancestors[b]
  <2>1. head \in Ancestors[b]
    BY <1>3 DEF TreeInv, TreeIsRooted
  <2>2. PICK c \in children[head] : c = b \/ c \in Ancestors[b]
    BY <1>1, <2>1, ChildOnTheWay
  <2> QED
    BY <1>3, <2>2 DEF RejectedWith
<1>4. ASSUME b = q \/ q \in Ancestors[b] PROVE b # head /\ b \notin RejectedWith(head, q)
  <2>1. b # head
    BY <1>1, <1>2, <1>4, NothingAboveHead
  <2>2. ASSUME NEW c \in children[head] \ {q}, c = b \/ c \in Ancestors[b] PROVE FALSE
    BY <1>1, <1>2, <1>4, <2>2, OneChildOnTheWay
  <2> QED
    BY <2>1, <2>2 DEF RejectedWith
<1> QED
  BY <1>3, <1>4

\* The tree after the acceptance of child q of head.
LEMMA AcceptTree ==
    ASSUME TreeInv, NEW inst \in SbStates, NEW next, SbChoices(inst) = children[head],
           SbPreference(inst) \in children[head],
           Accepts(inst, head), VoteWith(head, next, inst), TypeOK'
    PROVE  TreeInv'
<1> DEFINE q == SbPreference(inst)
           p == head
<1>1. /\ q \in children[p] /\ q \in blocks /\ q # p /\ q \in Blocks \ {Genesis} /\ Parent[q] = p
      /\ Ancestors[q] = {p} \cup Ancestors[p] /\ status[q] = "Processing"
      /\ p \in blocks /\ p \in Blocks /\ blocks \subseteq Blocks
  BY ChildrenInTree DEF TreeInv, TreeIsRooted, TypeOK
<1>2. /\ status' = [b \in Blocks |-> IF b = q THEN "Accepted"
                       ELSE IF b \in RejectedWith(p, q) THEN "Rejected" ELSE status[b]]
      /\ head' = q
      /\ blocks' = blocks \ (RejectedWith(p, q) \cup {p})
  BY DEF VoteWith, AcceptPreferredChild
<1>3. /\ sb' = [b \in Blocks |-> IF b \notin blocks' THEN NoSb ELSE IF b = p THEN inst ELSE sb[b]]
      /\ children' = [b \in Blocks |-> IF b \in blocks' THEN children[b] ELSE {}]
  BY DEF VoteWith
<1>4. q \in children[head]
  BY <1>1
<1>5. \A b \in blocks : b \in blocks' <=> b = q \/ q \in Ancestors[b]
  BY <1>2, <1>4, Survivors
<1>6. blocks' \subseteq blocks /\ q \in blocks' /\ p \notin blocks'
  BY <1>1, <1>2, <1>5
<1>7. \A b \in RejectedWith(p, q) : b \in blocks /\ b # q /\ q \notin Ancestors[b] /\ b # p
  BY <1>1, <1>2, <1>5, ChildrenInTree, NothingAboveHead DEF RejectedWith
<1> HIDE DEF q, p
<1>8. TreeIsRooted'
  <2>1. ASSUME NEW b \in blocks' \ {q}
        PROVE  status'[b] = "Processing" /\ q \in Ancestors[b] /\ Parent[b] \in blocks'
    <3>1. b \in blocks /\ q \in Ancestors[b] /\ b # p
      BY <1>5, <1>6
    <3>2. status[b] = "Processing" /\ Parent[b] \in blocks /\ b # Genesis /\ b \in Blocks
      BY <1>1, <3>1, AncestorAssumption DEF TreeInv, TreeIsRooted, p
    <3>3. Parent[b] = q \/ q \in Ancestors[Parent[b]]
      BY <3>1, <3>2, AncestorAssumption, SMT
    <3> QED
      BY <1>2, <1>5, <3>1, <3>2, <3>3
  <2>2. ASSUME NEW b \in blocks' PROVE children'[b] = {c \in blocks' \ {q} : Parent[c] = b}
    <3>1. children'[b] = children[b] /\ b \in Blocks /\ b \in blocks /\ b # p
      BY <1>1, <1>3, <1>6
    <3>2. children[b] = {c \in blocks \ {p} : Parent[c] = b}
      BY <3>1 DEF TreeInv, TreeIsRooted, p
    <3>3. ASSUME NEW c \in blocks \ {p}, Parent[c] = b PROVE c \in blocks' /\ c # q
      <4>1. c \in Blocks /\ Ancestors[c] = {b} \cup Ancestors[b]
        BY <3>1, <3>2, <3>3, ChildrenInTree
      <4>2. q \in Ancestors[c]
        BY <1>5, <3>1, <4>1
      <4> QED
        BY <1>5, <4>1, <4>2, AncestorIrreflexive
    <3>4. p \notin blocks' \ {q} /\ \A c \in blocks' \ {q} : c \in blocks \ {p}
      BY <1>6
    <3> QED
      BY <3>1, <3>2, <3>3, <3>4
  <2> QED
    BY <1>2, <1>6, <2>1, <2>2 DEF TreeIsRooted
<1>9. UpClosed'
  <2>1. ASSUME NEW b \in blocks', NEW a \in Ancestors[b], a \notin blocks'
        PROVE  a \in Ancestors[q]
    <3>1. b \in blocks /\ b \in Blocks /\ (b = q \/ q \in Ancestors[b])
      BY <1>1, <1>5, <1>6
    <3>2. CASE a \in Ancestors[p] \/ a = p
      BY <3>2, <1>1
    <3>3. CASE a \in blocks /\ a # p /\ b = q
      BY <1>1, <2>1, <3>3
    <3>4. CASE a \in blocks /\ a # p /\ q \in Ancestors[b]
      <4>1. p \in Ancestors[a]
        BY <3>4 DEF TreeInv, TreeIsRooted, p
      <4>2. PICK c \in children[p] : c = a \/ c \in Ancestors[a]
        BY <1>1, <3>4, <4>1, ChildOnTheWay DEF p
      <4>3. c \in Ancestors[b] /\ c \in Blocks \ {Genesis} /\ Parent[c] = p
        BY <1>1, <2>1, <3>1, <4>2, AncestorAssumption, ChildrenInTree, SMT DEF p
      <4>4. c = q
        BY <1>1, <3>1, <3>4, <4>3, OneChildOnTheWay
      <4> QED
        BY <1>5, <2>1, <3>4, <4>2, <4>4
    <3> QED
      BY <3>1, <3>2, <3>3, <3>4 DEF TreeInv, UpClosed, p
  <2> QED
    BY <1>2, <2>1 DEF UpClosed
<1>10. Instances'
  <2>1. \A b \in Blocks : b \notin blocks' => children'[b] = {} /\ sb'[b] = NoSb
    BY <1>3
  <2>2. \A b \in Blocks : b \in blocks' => children'[b] = children[b] /\ sb'[b] = sb[b]
    BY <1>3, <1>6
  <2>3. sb' \in [Blocks -> SbStates \cup {NoSb}]
    BY <1>3, <1>6 DEF TreeInv, Instances
  <2> QED
    BY <2>1, <2>2, <2>3 DEF TreeInv, Instances
<1>11. AcceptedIsChain'
  <2>1. ASSUME NEW b \in Blocks PROVE status'[b] = "Accepted" <=> b = q \/ b \in Ancestors[q]
    <3>1. b \in RejectedWith(p, q) => b # p /\ b \notin Ancestors[p]
      BY <1>7, NothingAboveHead DEF p
    <3>2. status[b] = "Accepted" <=> b = p \/ b \in Ancestors[p]
      BY DEF TreeInv, AcceptedIsChain, p
    <3> QED
      BY <1>1, <1>2, <3>1, <3>2
  <2> QED
    BY <1>2, <2>1 DEF AcceptedIsChain
<1>12. RejectedConflicts'
  <2>1. ASSUME NEW b \in Blocks, status'[b] = "Rejected"
        PROVE  b # q /\ b \notin Ancestors[q] /\ q \notin Ancestors[b]
    <3>1. CASE b \in RejectedWith(p, q)
      BY <1>1, <1>7, <3>1, NothingAboveHead DEF p
    <3>2. CASE b \notin RejectedWith(p, q)
      <4>1. status[b] = "Rejected" /\ b # q
        BY <1>2, <2>1, <3>2
      <4>2. b \notin Ancestors[p] \cup {p} /\ p \notin Ancestors[b]
        BY <4>1 DEF TreeInv, RejectedConflicts, p
      <4> QED
        BY <1>1, <4>1, <4>2, AncestorAssumption, SMT
    <3> QED
      BY <3>1, <3>2
  <2> QED
    BY <1>2, <2>1 DEF RejectedConflicts
<1> QED
  BY <1>8, <1>9, <1>10, <1>11, <1>12 DEF TreeInv

\* Without an acceptance only the instance of p changes.
LEMMA VoteWithoutAccept ==
    ASSUME TreeInv, NEW p \in blocks, NEW next, NEW inst \in SbStates,
           ~Accepts(inst, p), VoteWith(p, next, inst)
    PROVE  /\ UNCHANGED <<status, head, preferredIDs, blocks, children, tail>>
           /\ sb' = [sb EXCEPT ![p] = inst]
           /\ sb'[p] = inst /\ \A b \in Blocks \ {p} : sb'[b] = sb[b]
<1>1. /\ UNCHANGED <<status, head, preferredIDs, blocks, tail>>
      /\ sb' = [b \in Blocks |-> IF b \notin blocks' THEN NoSb ELSE IF b = p THEN inst ELSE sb[b]]
      /\ children' = [b \in Blocks |-> IF b \in blocks' THEN children[b] ELSE {}]
  BY DEF VoteWith
<1>2. \A b \in Blocks \ blocks : sb[b] = NoSb /\ children[b] = {}
  BY DEF TreeInv, Instances
<1>3. children \in [Blocks -> SUBSET Blocks] /\ blocks \subseteq Blocks
  BY DEF TreeInv, TypeOK
<1>4. children' = children
  <2>1. \A b \in Blocks : children'[b] = children[b]
    BY <1>1, <1>2, <1>3
  <2> QED
    BY <1>1, <1>3, <2>1
<1>5. sb'[p] = inst /\ \A b \in Blocks \ {p} : sb'[b] = sb[b]
  BY <1>1, <1>2, <1>3
<1>6. sb' = [sb EXCEPT ![p] = inst]
  BY <1>1, <1>3, <1>5 DEF TreeInv, Instances
<1> QED
  BY <1>1, <1>4, <1>5, <1>6

\* One iteration of vote keeps the tree rooted.
LEMMA VoteTree ==
    ASSUME TreeInv, NEW p \in blocks, NEW next, NEW inst \in SbStates, sb[p] # NoSb,
           SbChoices(inst) = children[p], SbPreference(inst) \in children[p],
           VoteWith(p, next, inst), TypeOK'
    PROVE  TreeInv'
<1>1. CASE Accepts(inst, p)
  BY <1>1, AcceptTree DEF Accepts
<1>2. CASE ~Accepts(inst, p)
  <2>1. /\ UNCHANGED <<status, head, preferredIDs, blocks, children, tail>>
        /\ sb' = [sb EXCEPT ![p] = inst]
        /\ sb'[p] = inst /\ \A b \in Blocks \ {p} : sb'[b] = sb[b]
    BY <1>2, VoteWithoutAccept
  <2>2. TreeIsRooted' /\ UpClosed' /\ AcceptedIsChain' /\ RejectedConflicts'
    BY <2>1 DEF TreeInv, TreeIsRooted, UpClosed, AcceptedIsChain, RejectedConflicts
  <2>3. sb' \in [Blocks -> SbStates \cup {NoSb}]
    BY <2>1 DEF TreeInv, Instances
  <2>4. inst # NoSb
    BY SnowballAssumption
  <2>5. ASSUME NEW x \in Blocks
        PROVE  /\ x \notin blocks' => children'[x] = {}
               /\ IF children'[x] # {} THEN sb'[x] # NoSb /\ SbChoices(sb'[x]) = children'[x]
                                       ELSE sb'[x] = NoSb
    <3>1. CASE x = p
      BY <2>1, <2>4, <3>1
    <3>2. CASE x # p
      BY <2>1, <3>2 DEF TreeInv, Instances
    <3> QED
      BY <3>1, <3>2
  <2> QED
    BY <2>2, <2>3, <2>5 DEF TreeInv, Instances
<1> QED
  BY <1>1, <1>2

\* What becomes the new preference stays in the tree, and the preferred branch
\* is kept or rejected as a whole.
LEMMA VoteBranch ==
    ASSUME TreeInv, newPreferred \in blocks, at = head => onPreferredBranch, BranchKept,
           at \in blocks, sb[at] # NoSb, NEW next, NEW inst \in SbStates,
           SbPreference(inst) \in children[at], VoteWith(at, next, inst)
    PROVE  newPreferred' \in blocks' /\ BranchKept'
<1> DEFINE q == SbPreference(inst)
<1>1. /\ q \in children[at] /\ q \in blocks \ {head} /\ q \in Blocks \ {Genesis}
      /\ Parent[q] = at /\ at \in Blocks /\ blocks \subseteq Blocks /\ head \in blocks
  BY ChildrenInTree DEF TreeInv, TreeIsRooted, TypeOK
<1>2. /\ newPreferred' = IF onPreferredBranch THEN q ELSE newPreferred
      /\ tail' = tail
      /\ sb' = [b \in Blocks |-> IF b \notin blocks' THEN NoSb ELSE IF b = at THEN inst ELSE sb[b]]
  BY DEF VoteWith
<1>3. CASE ~Accepts(inst, at)
  <2>1. UNCHANGED <<head, preferredIDs, blocks>>
    BY <1>3 DEF VoteWith
  <2> QED
    BY <1>1, <1>2, <2>1 DEF BranchKept, TailIn, Path
<1>4. CASE Accepts(inst, at)
  <2>1. /\ at = head /\ head' = q /\ preferredIDs' = preferredIDs \ {q}
        /\ blocks' = blocks \ (RejectedWith(head, q) \cup {head})
    BY <1>4 DEF VoteWith, AcceptPreferredChild, Accepts
  <2>2. q \in children[head]
    BY <1>1, <2>1
  <2>3. \A b \in blocks : b \in blocks' <=> b = q \/ q \in Ancestors[b]
    BY <2>1, <2>2, Survivors
  <2>4. blocks' \subseteq blocks \ {head} /\ q \in blocks'
    BY <1>1, <2>1, <2>3
  <2>5. newPreferred' \in blocks'
    BY <1>2, <2>1, <2>4
  <2> HIDE DEF q
  <2>6. CASE preferredIDs \cap blocks = {}
    BY <2>1, <2>4, <2>5, <2>6 DEF BranchKept
  <2>7. CASE TailIn /\ sb[tail] = NoSb
    <3>1. /\ tail \in blocks /\ tail # head /\ tail \in Blocks
          /\ preferredIDs = {b \in blocks \ {head} : b = tail \/ b \in Ancestors[tail]}
      BY <1>1, <2>1, <2>7 DEF TailIn, Path
    <3>2. CASE tail \in blocks'
      <4>1. sb'[tail'] = NoSb
        BY <1>2, <2>1, <2>7, <3>1
      <4>2. ASSUME NEW b \in blocks \ {head}, b = tail \/ b \in Ancestors[tail]
            PROVE  b \in blocks'
        <5>1. head \in Ancestors[b] /\ b \in Blocks
          BY <1>1 DEF TreeInv, TreeIsRooted
        <5>2. PICK c \in children[head] : c = b \/ c \in Ancestors[b]
          BY <1>1, <5>1, ChildOnTheWay
        <5>3. c \in Blocks \ {Genesis} /\ Parent[c] = head
          BY <1>1, <5>2, ChildrenInTree
        <5>4. c = tail \/ c \in Ancestors[tail]
          BY <3>1, <4>2, <5>1, <5>2, AncestorAssumption
        <5>5. q = tail \/ q \in Ancestors[tail]
          BY <2>3, <3>1, <3>2
        <5>6. c = q
          BY <1>1, <2>1, <3>1, <5>3, <5>4, <5>5, OneChildOnTheWay
        <5> QED
          BY <2>3, <5>2, <5>6
      <4>3. preferredIDs' = {b \in blocks' \ {head'} : b = tail' \/ b \in Ancestors[tail']}
        BY <1>2, <2>1, <2>4, <3>1, <4>2
      <4> QED
        BY <1>2, <2>5, <3>2, <4>1, <4>3 DEF BranchKept, TailIn, Path
    <3>3. CASE tail \notin blocks'
      <4>1. ASSUME NEW b \in preferredIDs, b \in blocks' PROVE FALSE
        <5>1. b \in Ancestors[tail] /\ b \in Blocks
          BY <1>1, <3>1, <3>3, <4>1
        <5>2. q \in Ancestors[tail]
          BY <2>3, <2>4, <3>1, <4>1, <5>1, AncestorAssumption, SMT
        <5> QED
          BY <2>3, <3>1, <3>3, <5>2
      <4> QED
        BY <2>1, <2>5, <4>1 DEF BranchKept
    <3> QED
      BY <3>2, <3>3
  <2> QED
    BY <2>6, <2>7 DEF BranchKept
<1> QED
  BY <1>3, <1>4

\* The next block on voteStack has its votes in the tree, and is head only on
\* the preferred branch.
LEMMA VoteContinues ==
    ASSUME TreeInv, VoteBase, at = head => onPreferredBranch, at \in blocks,
           NEW next \in NextOnStack(at), NEW inst \in SbStates, SbPreference(inst) \in children[at],
           VoteWith(at, next, inst), at' = next, votes' = votes
    PROVE  VoteBase' /\ (at' = head' => onPreferredBranch')
<1> DEFINE q == SbPreference(inst)
<1>2. /\ next \in children[at] /\ next \in blocks \ {head} /\ next \in Blocks
      /\ Ancestors[next] = {at} \cup Ancestors[at]
      /\ Cardinality(VotesBelow(votes, next)) >= Alpha
  BY ChildrenInTree DEF NextOnStack
<1>3. onPreferredBranch' = (onPreferredBranch /\ next = q)
  BY DEF VoteWith
<1>4. /\ Accepts(inst, at) => at = head /\ onPreferredBranch /\ head' = q
      /\ ~Accepts(inst, at) => head' = head /\ blocks' = blocks
  BY DEF VoteWith, AcceptPreferredChild, Accepts
<1>5. ASSUME NEW s \in Slots, next \in blocks', votes[s] # None, next \in Ancestors[votes[s]]
      PROVE  votes[s] \in blocks'
  <2>1. votes[s] \in Blocks
    BY <1>5 DEF TreeInv, TypeOK
  <2>2. at \in Ancestors[votes[s]] /\ Ancestors[next] \subseteq Ancestors[votes[s]]
    BY <1>2, <1>5, <2>1, AncestorAssumption
  <2>3. votes[s] \in blocks
    BY <1>5, <2>2 DEF VoteBase
  <2>4. CASE Accepts(inst, at)
    <3>1. at = head /\ q \in children[head] /\ blocks' = blocks \ (RejectedWith(head, q) \cup {head})
      BY <2>4, <1>4 DEF VoteWith, AcceptPreferredChild
    <3>2. next = q \/ q \in Ancestors[next]
      BY <1>2, <1>5, <3>1, Survivors
    <3>3. q \in Ancestors[votes[s]]
      BY <1>5, <2>2, <3>2
    <3> QED
      BY <2>3, <3>1, <3>3, Survivors
  <2>5. CASE ~Accepts(inst, at)
    BY <1>4, <2>3, <2>5
  <2> QED
    BY <2>4, <2>5
<1>6. at' = head' => onPreferredBranch'
  <2>1. CASE Accepts(inst, at)
    BY <1>3, <1>4, <2>1, Zenon
  <2>2. CASE ~Accepts(inst, at)
    BY <1>2, <1>4, <2>2
  <2> QED
    BY <2>1, <2>2
<1> HIDE DEF q
<1>7. Cardinality(VotesBelow(votes', at')) >= Alpha
  BY <1>2
<1> QED
  BY <1>2, <1>5, <1>6, <1>7 DEF VoteBase, VotesBelow

\* Every iteration of vote is one VoteWith on the block on top of voteStack.
LEMMA VoteCases ==
    ASSUME Inv, Vote
    PROVE  /\ TreeInv /\ VoteBase /\ at \in blocks /\ sb[at] # NoSb
           /\ \E inst \in SbStates :
                 /\ SbChoices(inst) = children[at] /\ SbPreference(inst) \in children[at]
                 /\ \/ \E next \in NextOnStack(at) :
                          VoteWith(at, next, inst) /\ at' = next /\ pc' = "vote" /\ votes' = votes
                    \/ VoteWith(at, None, inst) /\ at' = None /\ pc' = "settle" /\ votes' = NoVotes
<1>1. TreeInv /\ VoteBase /\ at \in blocks
  BY DEF Inv, BranchInv, Vote
<1>2. sb[at] # NoSb
  BY <1>1, VotedBlockHasInstance
<1>3. CASE \E next \in NextOnStack(at) : VoteOn(at, next) /\ at' = next /\ UNCHANGED <<pc, votes>>
  <2>1. PICK next \in NextOnStack(at) : VoteOn(at, next) /\ at' = next /\ UNCHANGED <<pc, votes>>
    BY <1>3
  <2>2. PICK inst \in SbPolls(IF shouldFalter[at] THEN SbFalter(sb[at]) ELSE sb[at], VoteBag(votes, at)) :
            VoteWith(at, next, inst)
    BY <2>1 DEF VoteOn
  <2>3. inst \in SbStates /\ SbChoices(inst) = children[at] /\ SbPreference(inst) \in children[at]
    BY <1>1, <1>2, PolledInstance
  <2>4. pc' = "vote"
    BY <2>1 DEF Vote
  <2> QED
    BY <1>1, <1>2, <2>1, <2>2, <2>3, <2>4
<1>4. CASE VoteOn(at, None) /\ at' = None /\ pc' = "settle" /\ votes' = NoVotes
  <2>2. PICK inst \in SbPolls(IF shouldFalter[at] THEN SbFalter(sb[at]) ELSE sb[at], VoteBag(votes, at)) :
            VoteWith(at, None, inst)
    BY <1>4 DEF VoteOn
  <2>3. inst \in SbStates /\ SbChoices(inst) = children[at] /\ SbPreference(inst) \in children[at]
    BY <1>1, <1>2, PolledInstance
  <2> QED
    BY <1>1, <1>2, <1>4, <2>2, <2>3
<1> QED
  BY <1>3, <1>4 DEF Vote

\* One iteration of vote keeps the types.
LEMMA VoteType ==
    ASSUME TreeInv, at \in blocks, NEW next, NEW inst, SbPreference(inst) \in children[at],
           VoteWith(at, next, inst), at' \in Blocks \cup {None}, pc' \in {"vote", "settle"},
           votes' \in [Slots -> Blocks \cup {None}]
    PROVE  TypeOK'
<1>1. SbPreference(inst) \in Blocks
  BY ChildrenInTree
<1>2. /\ blocks' \subseteq Blocks /\ head' \in Blocks /\ preferredIDs' \subseteq Blocks
      /\ status' \in [Blocks -> {"Processing", "Accepted", "Rejected"}]
  <2>1. CASE Accepts(inst, at)
    BY <1>1, <2>1 DEF VoteWith, AcceptPreferredChild, TreeInv, TypeOK
  <2>2. CASE ~Accepts(inst, at)
    BY <2>2 DEF VoteWith, TreeInv, TypeOK
  <2> QED
    BY <2>1, <2>2
<1>3. children' \in [Blocks -> SUBSET Blocks]
  BY DEF VoteWith, TreeInv, TypeOK
<1>4. shouldFalter' \in [Blocks -> BOOLEAN]
  <2>1. shouldFalter' = [b \in Blocks |-> /\ b \in blocks'
                                          /\ (b # at /\ shouldFalter[b]) \/ Falters(at, next, b)]
    BY DEF VoteWith
  <2> QED
    BY <2>1, Zenon
<1>5. newPreferred' \in Blocks
  BY <1>1 DEF VoteWith, TreeInv, TypeOK
<1>6. onPreferredBranch' \in BOOLEAN
  <2>1. onPreferredBranch' = (onPreferredBranch /\ next = SbPreference(inst))
    BY DEF VoteWith
  <2> QED
    BY <2>1, Zenon
<1>7. tail' \in Blocks
  BY DEF VoteWith, TreeInv, TypeOK
<1> QED
  BY <1>2, <1>3, <1>4, <1>5, <1>6, <1>7 DEF TypeOK

\* One iteration of vote keeps the invariant.
LEMMA VoteStep ==
    ASSUME Inv, Vote
    PROVE  Inv'
<1>1. /\ TreeInv /\ VoteBase /\ at \in blocks /\ sb[at] # NoSb
      /\ newPreferred \in blocks /\ (at = head => onPreferredBranch) /\ BranchKept
  BY VoteCases DEF Inv, BranchInv, Vote
<1>2. PICK inst \in SbStates :
        /\ SbChoices(inst) = children[at] /\ SbPreference(inst) \in children[at]
        /\ \/ \E next \in NextOnStack(at) :
                 VoteWith(at, next, inst) /\ at' = next /\ pc' = "vote" /\ votes' = votes
           \/ VoteWith(at, None, inst) /\ at' = None /\ pc' = "settle" /\ votes' = NoVotes
  BY VoteCases
<1>3. NoVotes \in [Slots -> Blocks \cup {None}] /\ votes \in [Slots -> Blocks \cup {None}]
  BY <1>1 DEF NoVotes, TreeInv, TypeOK
<1>4. CASE \E next \in NextOnStack(at) :
              VoteWith(at, next, inst) /\ at' = next /\ pc' = "vote" /\ votes' = votes
  <2>1. PICK next \in NextOnStack(at) :
            VoteWith(at, next, inst) /\ at' = next /\ pc' = "vote" /\ votes' = votes
    BY <1>4
  <2>2. next \in Blocks
    BY <1>1, ChildrenInTree DEF NextOnStack
  <2>3. TypeOK'
    BY <1>1, <1>2, <1>3, <2>1, <2>2, VoteType
  <2>4. TreeInv'
    BY <1>1, <1>2, <2>1, <2>3, VoteTree
  <2>5. newPreferred' \in blocks' /\ BranchKept'
    BY <1>1, <1>2, <2>1, VoteBranch
  <2>6. VoteBase' /\ (at' = head' => onPreferredBranch')
    BY <1>1, <1>2, <2>1, VoteContinues
  <2> QED
    BY <2>1, <2>4, <2>5, <2>6 DEF Inv, BranchInv
<1>5. CASE VoteWith(at, None, inst) /\ at' = None /\ pc' = "settle" /\ votes' = NoVotes
  <2>1. TypeOK'
    BY <1>1, <1>2, <1>3, <1>5, VoteType
  <2>2. TreeInv'
    BY <1>1, <1>2, <1>5, <2>1, VoteTree
  <2>3. newPreferred' \in blocks' /\ BranchKept'
    BY <1>1, <1>2, <1>5, VoteBranch
  <2> QED
    BY <1>5, <2>2, <2>3 DEF Inv, BranchInv
<1> QED
  BY <1>2, <1>4, <1>5

-----------------------------------------------------------------------------
(* RecordPoll: settling the preference *)

\* Leaving the loop at a rejected block keeps the invariant.
LEMMA BreakStep ==
    ASSUME Inv, VoteBreak
    PROVE  Inv'
<1>1. /\ TreeInv /\ newPreferred \in blocks /\ BranchKept
      /\ UNCHANGED <<treeVars, preferredIDs, tail, newPreferred, onPreferredBranch>>
      /\ pc' = "settle" /\ at' = None /\ votes' = NoVotes
  BY DEF Inv, BranchInv, VoteBreak
<1>2. TypeOK'
  BY <1>1 DEF TreeInv, TypeOK, treeVars, NoVotes
<1>3. TreeInv'
  BY <1>1, <1>2 DEF TreeInv, TreeIsRooted, UpClosed, Instances, AcceptedIsChain, RejectedConflicts, treeVars
<1>4. newPreferred' \in blocks' /\ BranchKept'
  BY <1>1 DEF BranchKept, TailIn, Path, treeVars
<1> QED
  BY <1>1, <1>3, <1>4 DEF Inv, BranchInv

\* Keeping or rebuilding the preferred branch keeps the invariant.
LEMMA SettleStep ==
    ASSUME Inv, Settle
    PROVE  Inv'
<1>1. /\ TreeInv /\ UNCHANGED treeVars /\ votes' = NoVotes /\ at' = None /\ onPreferredBranch' = TRUE
      /\ newPreferred' = IF pc' = "idle" THEN Genesis ELSE newPreferred
      /\ newPreferred \in Blocks /\ tail \in Blocks /\ preferredIDs \subseteq Blocks
  BY DEF Inv, Settle, Keep, Rebuild, Walk, TreeInv, TypeOK
<1>2. ASSUME tail' \in Blocks, preferredIDs' \subseteq Blocks, pc' \in {"idle", "walk"} PROVE TreeInv'
  <2>1. TypeOK'
    BY <1>1, <1>2, BlockAssumption DEF TreeInv, TypeOK, treeVars, NoVotes
  <2> QED
    BY <1>1, <2>1 DEF TreeInv, TreeIsRooted, UpClosed, Instances, AcceptedIsChain, RejectedConflicts, treeVars
<1>3. CASE Keep
  <2>1. pc' = "idle" /\ UNCHANGED <<treeVars, preferredIDs, tail>>
    BY <1>3 DEF Keep
  <2>2. TailIn /\ sb[tail] = NoSb
    BY <1>3 DEF Keep, Inv, BranchInv, BranchKept
  <2>3. TailIn' /\ sb'[tail'] = NoSb
    BY <2>1, <2>2 DEF TailIn, Path, treeVars
  <2> QED
    BY <1>1, <1>2, <2>1, <2>3 DEF Inv, BranchInv
<1>4. CASE Rebuild
  <2>1. /\ newPreferred \in blocks /\ pc' = "walk" /\ tail' = newPreferred
        /\ preferredIDs' = Path(newPreferred)
    BY <1>4 DEF Rebuild, Inv, BranchInv, Path
  <2>2. TailIn'
    BY <1>1, <2>1 DEF TailIn, Path, treeVars
  <2>3. preferredIDs' \subseteq Blocks
    BY <1>1, <2>1 DEF Path, TreeInv, TypeOK
  <2> QED
    BY <1>1, <1>2, <2>1, <2>2, <2>3 DEF Inv, BranchInv
<1>5. CASE Walk /\ sb[tail] # NoSb
  <2> DEFINE q == SbPreference(sb[tail])
  <2>1. /\ tail \in blocks /\ preferredIDs = {b \in blocks \ {head} : b = tail \/ b \in Ancestors[tail]}
        /\ pc' = "walk" /\ preferredIDs' = preferredIDs \cup {q} /\ tail' = q
    BY <1>5 DEF Walk, Inv, BranchInv, TailIn, Path
  <2>2. q \in blocks \ {head} /\ q \in Blocks /\ Ancestors[q] = {tail} \cup Ancestors[tail]
    BY <1>1, <1>5, <2>1, PreferenceIsChild, ChildrenInTree
  <2> HIDE DEF q
  <2>3. preferredIDs' = {b \in blocks \ {head} : b = q \/ b \in Ancestors[q]}
    BY <2>1, <2>2
  <2>4. TailIn'
    BY <1>1, <2>1, <2>2, <2>3 DEF TailIn, Path, treeVars
  <2> QED
    BY <1>1, <1>2, <2>1, <2>2, <2>4 DEF Inv, BranchInv
<1>6. CASE Walk /\ sb[tail] = NoSb
  <2>1. TailIn /\ pc' = "idle" /\ UNCHANGED <<treeVars, preferredIDs, tail>>
    BY <1>6 DEF Walk, Inv, BranchInv
  <2>2. TailIn' /\ sb'[tail'] = NoSb
    BY <1>6, <2>1 DEF TailIn, Path, treeVars
  <2> QED
    BY <1>1, <1>2, <2>1, <2>2 DEF Inv, BranchInv
<1> QED
  BY <1>3, <1>4, <1>5, <1>6 DEF Settle

-----------------------------------------------------------------------------
(* Every step *)

\* Every step keeps the invariant.
LEMMA NextInv == Inv /\ [Next]_vars => Inv'
<1> SUFFICES ASSUME Inv, [Next]_vars PROVE Inv'
  OBVIOUS
<1>1. ASSUME NEW b \in Blocks, Add(b) PROVE Inv'
  BY <1>1, AddInv
<1>2. ASSUME NEW vs \in AnyVotes, NEW twice, RecordPoll(vs, twice) PROVE Inv'
  BY <1>2, RecordPollInv
<1>3. CASE Vote
  BY <1>3, VoteStep
<1>4. CASE VoteBreak
  BY <1>4, BreakStep
<1>5. CASE Settle
  BY <1>5, SettleStep
<1>6. CASE UNCHANGED vars
  <2>1. UNCHANGED <<blocks, children, sb, shouldFalter, status, head, preferredIDs, tail,
                    pc, votes, at, newPreferred, onPreferredBranch>>
    BY <1>6 DEF vars, treeVars, pollVars
  <2>2. TreeInv' = TreeInv
    BY <2>1, SMT DEF TreeInv, TypeOK, TreeIsRooted, UpClosed, Instances, AcceptedIsChain, RejectedConflicts
  <2>3. BranchInv' = BranchInv
    BY <2>1 DEF BranchInv, BranchKept, TailIn, Path, VoteBase, VotesBelow
  <2> QED
    BY <2>2, <2>3 DEF Inv
<1> QED
  BY <1>1, <1>2, <1>3, <1>4, <1>5, <1>6 DEF Next

-----------------------------------------------------------------------------
(* Theorems *)

\* The inductive invariant holds in every state Topological reaches.
THEOREM Invariance == Spec => []Inv
BY InitInv, NextInv, PTL DEF Spec

\* The fields of Topological and of its blocks keep their types.
THEOREM TypeCorrect == Spec => []TypeOK
<1>1. Inv => TypeOK
  BY DEF Inv, TreeInv
<1> QED
  BY <1>1, Invariance, PTL

\* The blocks that vote accepts are head and its ancestors: one chain.
THEOREM AcceptedChain == Spec => []AcceptedIsChain
<1>1. Inv => AcceptedIsChain
  BY DEF Inv, TreeInv
<1> QED
  BY <1>1, Invariance, PTL

\* Add and rejectTransitively reject only what conflicts with the accepted chain.
THEOREM OnlyConflictsRejected == Spec => []RejectedConflicts
<1>1. Inv => RejectedConflicts
  BY DEF Inv, TreeInv
<1> QED
  BY <1>1, Invariance, PTL

\* ts.blocks is a tree of processing blocks rooted in head.
THEOREM RootedTree == Spec => []TreeIsRooted
<1>1. Inv => TreeIsRooted
  BY DEF Inv, TreeInv
<1> QED
  BY <1>1, Invariance, PTL

\* Between calls tail is a leaf of the tree and preferredIDs the way up from it,
\* whether RecordPoll kept or rebuilt them.
THEOREM PreferredInTree == Spec => []PreferenceInTree
<1>1. Inv => PreferenceInTree
  BY DEF Inv, BranchInv, TailIn, Path, PreferenceInTree
<1> QED
  BY <1>1, Invariance, PTL

\* vote never records a poll on a block without an instance.
THEOREM VotedInstance == Spec => []VoteHasInstance
<1>1. Inv => VoteHasInstance
  BY VotedBlockHasInstance DEF Inv, BranchInv, VoteHasInstance
<1> QED
  BY <1>1, Invariance, PTL

\* No step of Add or RecordPoll takes a decision back, moves head other than to
\* a child, or drops an undecided block.
LEMMA StepFinal ==
    ASSUME Inv, Next
    PROVE  /\ \A b \in Blocks : status[b] # "Processing" => status'[b] = status[b]
           /\ head' # head => head' \in children[head]
           /\ \A b \in blocks \ blocks' : status'[b] # "Processing"
<1>1. ASSUME NEW b \in Blocks, Add(b)
      PROVE  /\ \A x \in Blocks \ {b} : status'[x] = status[x]
             /\ head' = head /\ blocks \subseteq blocks' /\ status[b] = "Processing"
  BY <1>1 DEF Add, Issue, IssueOrphan, Decided, Inv, TreeInv, TypeOK
<1>2. CASE \E vs \in AnyVotes : \E twice \in SUBSET CountedTwice(vs, blocks, head) : RecordPoll(vs, twice)
  BY <1>2 DEF RecordPoll
<1>3. CASE Vote
  <2>1. TreeInv /\ VoteBase /\ at \in blocks
    BY <1>3, VoteCases
  <2>2. PICK inst \in SbStates :
            SbPreference(inst) \in children[at] /\ \E next : VoteWith(at, next, inst)
    BY <1>3, VoteCases
  <2> PICK next : VoteWith(at, next, inst)
    BY <2>2
  <2>3. CASE ~Accepts(inst, at)
    BY <2>2, <2>3 DEF VoteWith
  <2>4. CASE Accepts(inst, at)
    <3> DEFINE q == SbPreference(inst)
    <3>1. /\ at = head /\ head' = q /\ q \in children[head] /\ status[q] = "Processing"
          /\ status' = [b \in Blocks |-> IF b = q THEN "Accepted"
                           ELSE IF b \in RejectedWith(head, q) THEN "Rejected" ELSE status[b]]
          /\ blocks' = blocks \ (RejectedWith(head, q) \cup {head})
      BY <2>1, <2>2, <2>4, ChildrenInTree DEF VoteWith, AcceptPreferredChild, Accepts
    <3>2. head \in Blocks /\ head \in blocks /\ status[head] = "Accepted" /\ blocks \subseteq Blocks
      BY <2>1 DEF TreeInv, TypeOK, TreeIsRooted, AcceptedIsChain
    <3>3. \A b \in RejectedWith(head, q) : b \in blocks /\ b # head
      BY <2>1, <3>2, ChildrenInTree, NothingAboveHead DEF RejectedWith
    <3>4. \A b \in RejectedWith(head, q) : status[b] = "Processing"
      BY <2>1, <3>3 DEF TreeInv, TreeIsRooted
    <3> HIDE DEF q
    <3> QED
      BY <3>1, <3>2, <3>3, <3>4
  <2> QED
    BY <2>3, <2>4
<1>4. CASE VoteBreak \/ Settle
  BY <1>4 DEF VoteBreak, Settle, Keep, Rebuild, Walk, treeVars
<1> QED
  BY <1>1, <1>2, <1>3, <1>4 DEF Next

\* Decisions of Topological are final, and every block that leaves the tree was
\* decided.
THEOREM FinalDecisions == Spec => DecisionsFinal
<1> DEFINE Final == /\ \A b \in Blocks : status[b] # "Processing" => status'[b] = status[b]
                    /\ head' # head => head' \in children[head]
                    /\ \A b \in blocks \ blocks' : status'[b] # "Processing"
<1>1. Inv /\ [Next]_vars => [Final]_vars
  BY StepFinal
<1>2. Spec => [][Final]_vars
  BY <1>1, Invariance, PTL DEF Spec
<1> QED
  BY <1>2 DEF DecisionsFinal

-----------------------------------------------------------------------------
(* Topological implements SnowmanContract *)

\* acceptPreferredChild rejects exactly what conflicts with the accepted child q.
LEMMA RejectedIsConflicting ==
    ASSUME TreeInv, NEW q \in children[head]
    PROVE  Snowman!Conflicting(q) = RejectedWith(head, q)
<1>1. head \in Blocks /\ head \in blocks /\ blocks \subseteq Blocks
  BY DEF TreeInv, TreeIsRooted, TypeOK
<1>2. q \in Blocks \ {Genesis} /\ Parent[q] = head
  BY <1>1, ChildrenInTree
<1>3. Ancestors[q] = {head} \cup Ancestors[head]
  BY <1>2, AncestorAssumption
<1>4. \A x \in blocks : x \notin Ancestors[head]
  BY <1>1, NothingAboveHead
<1>5. \A x \in blocks : x \notin RejectedWith(head, q) /\ x # head <=> x = q \/ q \in Ancestors[x]
  BY Survivors
<1>6. head \notin RejectedWith(head, q)
  BY <1>1, ChildrenInTree, NothingAboveHead DEF RejectedWith
<1>7. RejectedWith(head, q) \subseteq blocks
  BY DEF RejectedWith
<1> QED
  BY <1>3, <1>4, <1>5, <1>6, <1>7 DEF Snowman!Conflicting

\* Add puts the block into the tree or rejects it, as its parent decides.
LEMMA AddSnowman ==
    ASSUME Inv, NEW b \in Blocks, Add(b)
    PROVE  b # Genesis /\ Snowman!Add(b)
<1>1. TreeInv /\ head \in Blocks /\ head \in blocks /\ status[head] = "Accepted"
  BY DEF Inv, TreeInv, TypeOK, TreeIsRooted, AcceptedIsChain
<1>2. status[Genesis] = "Accepted"
  BY <1>1, BlockAssumption, AncestorAssumption DEF TreeInv, AcceptedIsChain
<1>3. status[b] = "Processing" /\ b # head /\ b \notin blocks
  BY <1>1 DEF Add, Decided, Processing
<1>4. (blocks \ {head}) \cup {head} = blocks
  BY <1>1
<1>5. votes' = votes /\ head' = head
  BY DEF Add, Issue, IssueOrphan, pollVars
<1>6. CASE Issue(b)
  <2>1. Parent[b] \in blocks /\ blocks' = blocks \cup {b} /\ status' = status
    BY <1>6 DEF Issue
  <2>2. blocks' \ {head'} = (blocks \ {head}) \cup {b}
    BY <1>3, <1>5, <2>1
  <2> QED
    BY <1>2, <1>3, <1>4, <1>5, <2>1, <2>2 DEF Snowman!Add
<1>7. CASE IssueOrphan(b)
  <2>1. /\ Parent[b] \notin blocks /\ status[Parent[b]] # "Processing"
        /\ status' = [status EXCEPT ![b] = "Rejected"] /\ blocks' = blocks
    BY <1>7 DEF IssueOrphan, Add
  <2> QED
    BY <1>2, <1>3, <1>4, <1>5, <2>1 DEF Snowman!Add
<1> QED
  BY <1>6, <1>7 DEF Add

\* An iteration of vote decides nothing, or accepts one child of head.
LEMMA VoteSnowman ==
    ASSUME Inv, Vote
    PROVE  \/ UNCHANGED <<status, blocks, head>> /\ votes' \in {votes, NoVotes}
           \/ \E q \in Blocks \ {Genesis} : Snowman!Accept(q)
<1>1. TreeInv /\ VoteBase /\ at \in blocks
  BY VoteCases
<1>2. PICK inst \in SbStates :
          /\ SbPreference(inst) \in children[at]
          /\ \E next : VoteWith(at, next, inst)
          /\ votes' \in {votes, NoVotes}
  BY VoteCases
<1> PICK next : VoteWith(at, next, inst)
  BY <1>2
<1>3. CASE ~Accepts(inst, at)
  BY <1>2, <1>3 DEF VoteWith
<1>4. CASE Accepts(inst, at)
  <2> DEFINE q == SbPreference(inst)
  <2>1. /\ at = head /\ head' = q /\ q \in children[head]
        /\ status' = [b \in Blocks |-> IF b = q THEN "Accepted"
                         ELSE IF b \in RejectedWith(head, q) THEN "Rejected" ELSE status[b]]
        /\ blocks' = blocks \ (RejectedWith(head, q) \cup {head})
    BY <1>2, <1>4 DEF VoteWith, AcceptPreferredChild, Accepts
  <2> HIDE DEF q
  <2>2. q \in Blocks \ {Genesis} /\ Parent[q] = head /\ q # head /\ q \in blocks
    BY <1>1, <2>1, ChildrenInTree
  <2>3. Snowman!Conflicting(q) = RejectedWith(head, q)
    BY <1>1, <2>1, RejectedIsConflicting
  <2>4. blocks' \ {head'} = (blocks \ {head}) \ ({q} \cup Snowman!Conflicting(q))
    BY <2>1, <2>3
  <2>5. PICK s \in Slots : votes[s] # None /\ head \in Ancestors[votes[s]]
    BY <1>1, <2>1, VoteBelow
  <2>6. \E v \in {votes[x] : x \in Slots} \ {None} : head \in Ancestors[v]
    BY <2>5
  <2>7. {votes'[x] : x \in Slots} \ {None} \in {{votes[x] : x \in Slots} \ {None}, {}}
    BY <1>2 DEF NoVotes
  <2>8. q \in blocks \ {head}
    BY <2>2
  <2>9. status' = [x \in Blocks |-> IF x = q THEN "Accepted"
                       ELSE IF x \in Snowman!Conflicting(q) THEN "Rejected" ELSE status[x]]
    BY <2>1, <2>3
  <2>10. Snowman!Accept(q)
    BY <2>1, <2>2, <2>4, <2>6, <2>7, <2>8, <2>9 DEF Snowman!Accept
  <2> QED
    BY <2>2, <2>10
<1> QED
  BY <1>3, <1>4

\* Every step of Topological is a step of the contract, or leaves what the engine
\* sees alone.
LEMMA StepSnowman ==
    ASSUME Inv, [Next]_vars
    PROVE  [Snowman!Next]_<<status, blocks \ {head}, head, {votes[s] : s \in Slots} \ {None}>>
<1>1. CASE \E b \in Blocks : Add(b)
  BY <1>1, AddSnowman DEF Snowman!Next
<1>2. CASE \E vs \in AnyVotes : \E twice \in SUBSET CountedTwice(vs, blocks, head) : RecordPoll(vs, twice)
  <2>1. PICK vs \in AnyVotes : \E twice \in SUBSET CountedTwice(vs, blocks, head) : RecordPoll(vs, twice)
    BY <1>2
  <2>2. UNCHANGED <<status, blocks, head>> /\ votes' \in {vs, NoVotes}
    BY <2>1 DEF RecordPoll
  <2>3. \A s \in Slots : vs[s] \in (blocks \ {head}) \cup {None}
    BY <2>1 DEF AnyVotes, ValidVotes
  <2>4. {votes'[s] : s \in Slots} \ {None} \subseteq blocks \ {head}
    BY <2>2, <2>3 DEF NoVotes
  <2> QED
    BY <2>2, <2>4 DEF Snowman!Next, Snowman!RecordPoll
<1>3. CASE UNCHANGED <<status, blocks, head>> /\ votes' \in {votes, NoVotes}
  <2>1. CASE votes' = votes
    BY <1>3, <2>1
  <2>2. CASE votes' = NoVotes
    <3>1. {votes'[s] : s \in Slots} \ {None} = {}
      BY <2>2 DEF NoVotes
    <3> QED
      BY <1>3, <3>1 DEF Snowman!Next, Snowman!RecordPoll
  <2> QED
    BY <1>3, <2>1, <2>2
<1>4. CASE Vote
  BY <1>3, <1>4, VoteSnowman DEF Snowman!Next
<1>5. CASE VoteBreak \/ Settle
  <2>1. UNCHANGED <<status, blocks, head>> /\ votes' = NoVotes
    BY <1>5 DEF VoteBreak, Settle, Keep, Rebuild, Walk, treeVars
  <2> QED
    BY <1>3, <2>1
<1>6. CASE UNCHANGED vars
  BY <1>3, <1>6 DEF vars, treeVars, pollVars
<1> QED
  BY <1>1, <1>2, <1>4, <1>5, <1>6 DEF Next

\* Topological implements the Consensus interface as the engine uses it: blocks
\* are added, accepted one by one along one branch, and rejected when they
\* conflict, whatever the votes and the snowball instances are.
THEOREM Refinement == Spec => ImplementsSnowman
<1>1. Init => Snowman!Init
  BY DEF Init, Snowman!Init, NoVotes
<1> QED
  BY <1>1, Invariance, StepSnowman, PTL DEF Spec, ImplementsSnowman, Snowman!Spec

-----------------------------------------------------------------------------
(* When no edge is counted twice: the walk along the preferences *)

\* The preferred blocks hang together: each is the preference of its parent.
Linked ==
    /\ preferredIDs \subseteq blocks \ {head}
    /\ \A b \in preferredIDs :
          /\ Parent[b] \in preferredIDs \cup {head}
          /\ SbPreference(sb[Parent[b]]) = b
          /\ \A a \in Ancestors[b] \cap blocks : a \in preferredIDs \cup {head}

\* Every preferred block but tail has a preferred child.
Reaching(t) ==
    /\ t \in preferredIDs \cup {head}
    /\ \A b \in (preferredIDs \cup {head}) \ {t} :
          sb[b] # NoSb /\ SbPreference(sb[b]) \in preferredIDs

Fresh == Linked /\ Reaching(tail) /\ sb[tail] = NoSb

\* The preferred blocks are out of date, and vote has noticed.
Stale ==
    newPreferred \notin preferredIDs /\ \A b \in preferredIDs : newPreferred \notin Ancestors[b]

\* x is reached from head along the preferences.
OnWay(x) ==
    /\ x \in blocks
    /\ \A a \in blocks \ {head} :
          a = x \/ a \in Ancestors[x] => SbPreference(sb[Parent[a]]) = a

VoteInv ==
    /\ VoteBase
    /\ OnWay(newPreferred)
    /\ onPreferredBranch => at = newPreferred
    /\ ~onPreferredBranch =>
          at # head /\ at # newPreferred /\ at \notin Ancestors[newPreferred]
    /\ \/ Fresh /\ (onPreferredBranch <=> at \in preferredIDs \cup {head})
       \/ Stale

WalkInv ==
    /\ pc = "idle" => Fresh
    /\ pc = "vote" => VoteInv
    /\ pc = "settle" => OnWay(newPreferred) /\ (Fresh \/ newPreferred \notin preferredIDs)
    /\ pc = "walk" => Linked /\ Reaching(tail)

\* The preferences of the instances do not move, and a new tip of the preferred
\* branch becomes tail.
LEMMA IssueFresh ==
    ASSUME TreeInv, Fresh, NEW b \in Blocks, ~Decided(b), ~Processing(b), Issue(b)
    PROVE  Fresh'
<1> DEFINE p == Parent[b]
<1>1. /\ b # head /\ b \notin blocks /\ p \in blocks /\ p \in Blocks /\ p # b
      /\ Ancestors[b] = {p} \cup Ancestors[p]
      /\ head \in Ancestors[b]
      /\ \A x \in blocks : b \notin Ancestors[x]
  BY IssuedBlock DEF Issue, TreeInv, TypeOK
<1>2. /\ blocks' = blocks \cup {b} /\ head' = head
      /\ sb' = [sb EXCEPT ![p] = IF sb[p] = NoSb THEN SbNew(b) ELSE SbAdd(sb[p], b)]
      /\ IF tail = p THEN tail' = b /\ preferredIDs' = preferredIDs \cup {b}
                     ELSE tail' = tail /\ preferredIDs' = preferredIDs
  BY DEF Issue, AddChild, ExtendTail
<1> HIDE DEF p
<1>3. \A x \in Blocks \ {p} : sb'[x] = sb[x]
  BY <1>2 DEF TreeInv, Instances
<1>4. sb'[p] # NoSb
  BY <1>1, <1>2, PreferenceIsChild, SnowballAssumption, SMT DEF TreeInv, Instances
<1>5. sb[p] # NoSb => SbPreference(sb'[p]) = SbPreference(sb[p])
  BY <1>1, <1>2, PreferenceIsChild, SnowballAssumption DEF TreeInv, Instances
<1>6. sb[p] = NoSb => SbPreference(sb'[p]) = b
  BY <1>1, <1>2, SnowballAssumption, SMT DEF TreeInv, Instances
<1>7. sb[b] = NoSb
  BY <1>1 DEF TreeInv, Instances
<1>8. /\ preferredIDs \subseteq blocks \ {head} /\ blocks \subseteq Blocks /\ head \in blocks
      /\ tail \in preferredIDs \cup {head} /\ sb[tail] = NoSb
      /\ \A x \in (preferredIDs \cup {head}) \ {tail} : sb[x] # NoSb /\ SbPreference(sb[x]) \in preferredIDs
      /\ \A x \in preferredIDs :
            /\ Parent[x] \in preferredIDs \cup {head}
            /\ SbPreference(sb[Parent[x]]) = x
            /\ \A a \in Ancestors[x] \cap blocks : a \in preferredIDs \cup {head}
  BY DEF Fresh, Linked, Reaching, TreeInv, TypeOK, TreeIsRooted
<1>9. ASSUME NEW x \in preferredIDs PROVE Parent[x] # tail /\ Parent[x] \in Blocks
  <2>1. x \in children[Parent[x]] /\ Parent[x] \in Blocks
    BY <1>8, SMT DEF TreeInv, TreeIsRooted
  <2> QED
    BY <1>8, <2>1 DEF TreeInv, Instances
<1>10. CASE tail = p
  <2>1. tail' = b /\ preferredIDs' = preferredIDs \cup {b} /\ sb[p] = NoSb
    BY <1>2, <1>8, <1>10
  <2>2. ASSUME NEW x \in preferredIDs
        PROVE  /\ Parent[x] \in preferredIDs' \cup {head}
               /\ SbPreference(sb'[Parent[x]]) = x
               /\ \A a \in Ancestors[x] \cap blocks' : a \in preferredIDs' \cup {head}
    <3>1. sb'[Parent[x]] = sb[Parent[x]]
      BY <1>3, <1>9, <1>10
    <3> QED
      BY <1>1, <1>2, <1>8, <2>1, <3>1
  <2>3. /\ Parent[b] \in preferredIDs' \cup {head}
        /\ SbPreference(sb'[Parent[b]]) = b
        /\ \A a \in Ancestors[b] \cap blocks' : a \in preferredIDs' \cup {head}
    <3>1. Parent[b] \in preferredIDs' \cup {head} /\ SbPreference(sb'[Parent[b]]) = b
      BY <1>6, <1>8, <1>10, <2>1 DEF p
    <3>2. ASSUME NEW a \in Ancestors[b], a \in blocks' PROVE a \in preferredIDs' \cup {head}
      <4>1. a # b
        BY <3>2, AncestorIrreflexive
      <4>2. CASE a = p
        BY <4>2, <1>8, <1>10, <2>1
      <4>3. CASE a \in Ancestors[p]
        BY <4>1, <4>3, <3>2, <1>2, <1>8, <1>10, <2>1, NothingAboveHead
      <4> QED
        BY <4>2, <4>3, <1>1
    <3> QED
      BY <3>1, <3>2
  <2>4. ASSUME NEW x \in (preferredIDs' \cup {head}) \ {b}
        PROVE  sb'[x] # NoSb /\ SbPreference(sb'[x]) \in preferredIDs'
    <3>1. CASE x = p
      BY <3>1, <1>4, <1>6, <2>1
    <3>2. CASE x # p
      <4>1. sb'[x] = sb[x] /\ x \in (preferredIDs \cup {head}) \ {tail}
        BY <1>3, <1>8, <1>10, <2>1, <3>2
      <4> QED
        BY <1>8, <2>1, <4>1
    <3> QED
      BY <3>1, <3>2
  <2>5. sb'[b] = NoSb
    BY <1>1, <1>3, <1>7
  <2>6. preferredIDs' \subseteq blocks' \ {head}
    BY <1>1, <1>2, <1>8, <2>1
  <2>7. Linked'
    BY <1>2, <2>1, <2>2, <2>3, <2>6 DEF Linked
  <2> QED
    BY <1>2, <2>1, <2>4, <2>5, <2>7 DEF Fresh, Reaching
<1>11. CASE tail # p
  <2>1. tail' = tail /\ preferredIDs' = preferredIDs
    BY <1>2, <1>11
  <2>2. ASSUME NEW x \in (preferredIDs \cup {head}) \ {tail}
        PROVE  sb'[x] # NoSb /\ SbPreference(sb'[x]) = SbPreference(sb[x])
    BY <1>3, <1>4, <1>5, <1>8
  <2>3. sb'[tail] = NoSb
    BY <1>3, <1>8, <1>11
  <2>4. Linked'
    BY <1>1, <1>2, <1>8, <1>9, <2>1, <2>2, SMT DEF Linked
  <2> QED
    BY <1>2, <1>8, <2>1, <2>2, <2>3, <2>4, SMT DEF Fresh, Reaching
<1> QED
  BY <1>10, <1>11

\* Add keeps the preferred branch a walk.
LEMMA AddWalk ==
    ASSUME Inv, WalkInv, NEW b \in Blocks, Add(b)
    PROVE  WalkInv'
<1>1. TreeInv /\ Fresh /\ pc' = "idle" /\ ~Decided(b) /\ ~Processing(b)
  BY DEF Inv, WalkInv, Add, pollVars
<1>2. CASE Issue(b)
  BY <1>1, <1>2, IssueFresh DEF WalkInv
<1>3. CASE IssueOrphan(b)
  <2>1. Fresh'
    BY <1>1, <1>3 DEF IssueOrphan, Fresh, Linked, Reaching
  <2> QED
    BY <1>1, <2>1 DEF WalkInv
<1> QED
  BY <1>2, <1>3 DEF Add

\* The last preferred block is reached along the preferences.
LEMMA TailOnWay ==
    ASSUME TreeInv, Fresh
    PROVE  OnWay(tail) /\ OnWay(head)
<1>1. /\ tail \in preferredIDs \cup {head} /\ preferredIDs \subseteq blocks /\ head \in blocks
      /\ head \notin preferredIDs
  BY DEF Fresh, Linked, Reaching, TreeInv, TreeIsRooted
<1>2. ASSUME NEW a \in blocks \ {head}, a = tail \/ a \in Ancestors[tail]
      PROVE  SbPreference(sb[Parent[a]]) = a
  BY <1>1, <1>2, NothingAboveHead DEF Fresh, Linked
<1>3. ASSUME NEW a \in blocks \ {head}, a = head \/ a \in Ancestors[head] PROVE FALSE
  BY <1>3, NothingAboveHead
<1> QED
  BY <1>1, <1>2, <1>3 DEF OnWay

\* If a block of the tree has alpha votes below it, so has head.
LEMMA HeadIsTop ==
    ASSUME TreeInv, NEW vs \in [Slots -> Blocks \cup {None}], NEW top \in OnStack(vs, blocks, {}),
           \A p \in OnStack(vs, blocks, {}) : p = top \/ top \in Ancestors[p]
    PROVE  top = head
<1>1. /\ top \in blocks /\ head \in blocks /\ head \in Blocks /\ top \in Blocks
      /\ Cardinality(VotesBelow(vs, top)) >= Alpha
  BY DEF OnStack, TreeInv, TreeIsRooted, TypeOK
<1>2. SUFFICES ASSUME top # head PROVE FALSE
  OBVIOUS
<1>3. head \in Ancestors[top]
  BY <1>1, <1>2 DEF TreeInv, TreeIsRooted
<1>4. VotesBelow(vs, top) \subseteq VotesBelow(vs, head)
  <2>1. ASSUME NEW s \in Slots, vs[s] # None, top \in Ancestors[vs[s]] PROVE head \in Ancestors[vs[s]]
    BY <1>1, <1>3, <2>1, AncestorAssumption, SMT
  <2> QED
    BY <2>1 DEF VotesBelow
<1>5. IsFiniteSet(VotesBelow(vs, head))
  <2>1. IsFiniteSet(1..K)
    BY FS_Interval, ParameterAssumption, SMT
  <2>2. VotesBelow(vs, head) \subseteq 1..K
    BY DEF VotesBelow, Slots
  <2> QED
    BY <2>1, <2>2, FS_Subset
<1>6. /\ Cardinality(VotesBelow(vs, top)) =< Cardinality(VotesBelow(vs, head))
      /\ Cardinality(VotesBelow(vs, top)) \in Nat /\ Cardinality(VotesBelow(vs, head)) \in Nat
  BY <1>4, <1>5, FS_Subset, FS_CardinalityType
<1>7. Cardinality(VotesBelow(vs, head)) >= Alpha
  BY <1>1, <1>6, ParameterAssumption, SMT
<1>8. head \in OnStack(vs, blocks, {})
  BY <1>1, <1>7 DEF OnStack
<1> QED
  BY <1>1, <1>2, <1>8, NothingAboveHead

\* The loop of vote starts at head, on the preferred branch.
LEMMA RecordPollWalk ==
    ASSUME Inv, WalkInv, NEW vs \in AnyVotes, RecordPoll(vs, {}), Inv'
    PROVE  WalkInv'
<1>1. TreeInv /\ Fresh /\ vs \in [Slots -> Blocks \cup {None}]
  BY VotesAreValid DEF Inv, WalkInv, RecordPoll
<1>2. /\ UNCHANGED <<blocks, children, sb, status, head, preferredIDs, tail>>
      /\ onPreferredBranch' = TRUE
  BY DEF RecordPoll
<1>3. \/ pc' = "vote" /\ votes' = vs /\ at' = head /\ newPreferred' = head
      \/ pc' = "settle" /\ newPreferred' = tail
  <2>1. CASE pc' = "vote"
    <3>1. PICK top \in OnStack(vs, blocks, {}) :
              /\ \A p \in OnStack(vs, blocks, {}) : p = top \/ top \in Ancestors[p]
              /\ votes' = vs /\ at' = top /\ newPreferred' = head
      BY <2>1 DEF RecordPoll
    <3>2. top = head
      BY <1>1, <3>1, HeadIsTop, SMTT(30)
    <3> QED
      BY <2>1, <3>1, <3>2
  <2>2. CASE pc' # "vote"
    BY <2>2 DEF RecordPoll
  <2> QED
    BY <2>1, <2>2
<1>4. Fresh'
  BY <1>1, <1>2 DEF Fresh, Linked, Reaching
<1>5. OnWay(newPreferred)'
  BY <1>1, <1>2, <1>3, TailOnWay DEF OnWay
<1>6. pc' = "vote" => VoteInv'
  <2>1. SUFFICES ASSUME pc' = "vote" PROVE VoteInv'
    OBVIOUS
  <2>2. VoteBase' /\ at' = newPreferred' /\ at' = head'
    BY <1>2, <1>3, <2>1 DEF Inv, BranchInv
  <2> QED
    BY <1>2, <1>4, <1>5, <2>2 DEF VoteInv
<1> QED
  BY <1>3, <1>4, <1>5, <1>6 DEF WalkInv

-----------------------------------------------------------------------------
(* vote: one iteration *)

\* newPreferred stays on the way along the preferences.
LEMMA VoteOnWay ==
    ASSUME TreeInv, VoteInv, at \in blocks, NEW next, NEW inst \in SbStates,
           SbPreference(inst) \in children[at],
           VoteWith(at, next, inst), TreeInv'
    PROVE  OnWay(newPreferred)'
<1> DEFINE q == SbPreference(inst)
<1>1. /\ q \in blocks /\ q # head /\ q \in Blocks \ {Genesis} /\ Parent[q] = at
      /\ Ancestors[q] = {at} \cup Ancestors[at]
  BY ChildrenInTree
<1>2. at \in Blocks /\ newPreferred \in Blocks
  BY DEF TreeInv, TypeOK, VoteInv, VoteBase
<1>3. newPreferred' = IF onPreferredBranch THEN q ELSE newPreferred
  BY DEF VoteWith
<1>4. CASE Accepts(inst, at)
  <2>1. head' = q /\ onPreferredBranch
    BY <1>4 DEF VoteWith, AcceptPreferredChild, Accepts, VoteInv, VoteBase
  <2>2. q \in blocks'
    BY <2>1 DEF TreeInv, TreeIsRooted
  <2>3. \A a \in blocks' : a \notin Ancestors[q]
    <3>1. \A a \in Ancestors[head'] : a \notin blocks'
      <4>1. head' \in Blocks /\ Ancestors[head'] \subseteq Blocks
        BY AncestorAssumption DEF TreeInv, TypeOK
      <4>2. \A a \in Ancestors[head'] : status'[a] = "Accepted" /\ a # head'
        BY <4>1, AncestorIrreflexive DEF TreeInv, AcceptedIsChain
      <4> QED
        BY <4>2 DEF TreeInv, TreeIsRooted
    <3> QED
      BY <2>1, <3>1
  <2> QED
    BY <1>3, <2>1, <2>2, <2>3 DEF OnWay
<1>5. CASE ~Accepts(inst, at)
  <2>1. /\ head' = head /\ blocks' = blocks
        /\ sb'[at] = inst /\ \A b \in Blocks \ {at} : sb'[b] = sb[b]
    BY <1>5, VoteWithoutAccept
  <2> HIDE DEF q
  <2>2. newPreferred' \in blocks
    BY <1>1, <1>3 DEF VoteInv, VoteBase, OnWay
  <2>3. ASSUME NEW a \in blocks \ {head}, a = newPreferred' \/ a \in Ancestors[newPreferred']
        PROVE  SbPreference(sb'[Parent[a]]) = a
    <3>1. /\ a \in Blocks \ {Genesis} /\ Parent[a] \in Blocks /\ Parent[a] \in Ancestors[a]
      BY ParentAbove
    <3>2. CASE onPreferredBranch /\ a = q
      BY <1>1, <2>1, <3>2 DEF q
    <3>3. CASE (onPreferredBranch /\ a # q) \/ ~onPreferredBranch
      <4>1. a = newPreferred \/ a \in Ancestors[newPreferred]
        BY <1>1, <1>3, <2>3, <3>3 DEF VoteInv, VoteBase
      <4>2. Parent[a] \in Ancestors[newPreferred]
        BY <1>2, <3>1, <4>1, AncestorAssumption, SMT
      <4>3. Parent[a] # at
        BY <1>2, <4>2, AncestorIrreflexive DEF VoteInv, VoteBase
      <4> QED
        BY <2>1, <3>1, <4>1, <4>3 DEF VoteInv, VoteBase, OnWay
    <3> QED
      BY <3>2, <3>3
  <2> QED
    BY <2>1, <2>2, <2>3 DEF OnWay
<1> QED
  BY <1>4, <1>5

\* A preferred block has its ancestors among the preferred blocks, so a block
\* that is not preferred has no preferred block below it.
LEMMA NotPreferredIsStale ==
    ASSUME TreeInv, Linked, NEW q \in blocks \ {head}, q \notin preferredIDs
    PROVE  \A b \in preferredIDs : q \notin Ancestors[b]
BY DEF Linked

\* A poll that leaves the preferences of the preferred blocks alone.
LEMMA FreshKept ==
    ASSUME TreeInv, Fresh, NEW p \in blocks, NEW next, NEW inst \in SbStates, sb[p] # NoSb,
           ~Accepts(inst, p), VoteWith(p, next, inst),
           p \in preferredIDs \cup {head} => SbPreference(inst) = SbPreference(sb[p])
    PROVE  Fresh'
<1>1. /\ UNCHANGED <<head, preferredIDs, blocks, tail>>
      /\ sb'[p] = inst /\ \A b \in Blocks \ {p} : sb'[b] = sb[b]
  BY VoteWithoutAccept
<1>2. /\ inst # NoSb /\ p # tail /\ head \in Blocks /\ head \in blocks /\ tail \in Blocks
      /\ preferredIDs \subseteq Blocks /\ preferredIDs \subseteq blocks
  BY SnowballAssumption DEF Fresh, Linked, TreeInv, TreeIsRooted, TypeOK
<1>3. sb'[tail] = NoSb
  BY <1>1, <1>2 DEF Fresh
<1>4. \A b \in preferredIDs \cup {head} :
          SbPreference(sb'[b]) = SbPreference(sb[b]) /\ (sb'[b] # NoSb <=> sb[b] # NoSb)
  BY <1>1, <1>2
<1>5. Linked'
  BY <1>1, <1>4 DEF Fresh, Linked
<1>6. Reaching(tail)'
  BY <1>1, <1>4 DEF Fresh, Reaching
<1> QED
  BY <1>1, <1>3, <1>5, <1>6 DEF Fresh

\* The preferred child of head is accepted.
LEMMA FreshAccepted ==
    ASSUME TreeInv, Fresh, NEW next, NEW inst \in SbStates, sb[head] # NoSb,
           SbPreference(inst) \in children[head], SbPreference(inst) \in preferredIDs,
           Accepts(inst, head), VoteWith(head, next, inst)
    PROVE  Fresh'
<1> DEFINE q == SbPreference(inst)
           p == head
<1>1. /\ q \in blocks /\ q # p /\ q \in Blocks \ {Genesis} /\ Parent[q] = p
      /\ p \in blocks /\ p \in Blocks /\ blocks \subseteq Blocks /\ q \in preferredIDs
  BY ChildrenInTree DEF TreeInv, TreeIsRooted, TypeOK
<1>2. /\ head' = q /\ preferredIDs' = preferredIDs \ {q} /\ tail' = tail
      /\ blocks' = blocks \ (RejectedWith(p, q) \cup {p})
      /\ sb' = [b \in Blocks |-> IF b \notin blocks' THEN NoSb ELSE IF b = p THEN inst ELSE sb[b]]
  BY DEF VoteWith, AcceptPreferredChild
<1>3. q \in children[head]
  OBVIOUS
<1>4. \A b \in blocks : b \in blocks' <=> b = q \/ q \in Ancestors[b]
  BY <1>2, <1>3, Survivors
<1>5. p \notin blocks'
  BY <1>2
<1>6. SbPreference(sb[p]) = q
  BY <1>1 DEF Fresh, Linked
<1>7. /\ preferredIDs \subseteq blocks \ {p}
      /\ tail \in preferredIDs \cup {p} /\ sb[tail] = NoSb
      /\ \A x \in (preferredIDs \cup {p}) \ {tail} : sb[x] # NoSb /\ SbPreference(sb[x]) \in preferredIDs
      /\ \A x \in preferredIDs :
            /\ Parent[x] \in preferredIDs \cup {p}
            /\ SbPreference(sb[Parent[x]]) = x
            /\ \A a \in Ancestors[x] \cap blocks : a \in preferredIDs \cup {p}
  BY DEF Fresh, Linked, Reaching
<1>8. ASSUME NEW b \in preferredIDs PROVE b \in blocks' /\ b \in Blocks /\ sb'[b] = sb[b]
  <2>1. b \in blocks /\ p \in Ancestors[b] /\ b \in Blocks
    BY <1>1, <1>7 DEF TreeInv, TreeIsRooted
  <2>2. PICK c \in children[p] : c = b \/ c \in Ancestors[b]
    BY <1>1, <2>1, ChildOnTheWay
  <2>3. c \in blocks /\ c # p /\ Parent[c] = p
    BY <1>1, <2>2, ChildrenInTree
  <2>4. c = q
    BY <1>6, <1>7, <2>2, <2>3
  <2>5. b \in blocks'
    BY <1>4, <2>1, <2>2, <2>4
  <2> QED
    BY <1>2, <1>5, <2>1, <2>5
<1> HIDE DEF q, p
<1>9. Linked'
  <2>1. preferredIDs' \subseteq blocks' \ {q}
    BY <1>2, <1>8
  <2>2. ASSUME NEW b \in preferredIDs'
        PROVE  /\ Parent[b] \in preferredIDs' \cup {q}
               /\ SbPreference(sb'[Parent[b]]) = b
               /\ \A a \in Ancestors[b] \cap blocks' : a \in preferredIDs' \cup {q}
    <3>1. b \in preferredIDs /\ b # q
      BY <1>2
    <3>2. Parent[b] \in preferredIDs
      BY <1>6, <1>7, <3>1
    <3>3. \A a \in Ancestors[b] \cap blocks' : a \in preferredIDs
      BY <1>2, <1>5, <1>7, <3>1
    <3> QED
      BY <1>2, <1>7, <1>8, <3>1, <3>2, <3>3
  <2> QED
    BY <1>2, <2>1, <2>2 DEF Linked
<1>10. Reaching(tail)'
  <2>1. tail # p
    BY <1>7 DEF p
  <2>2. ASSUME NEW b \in (preferredIDs' \cup {q}) \ {tail}
        PROVE  sb'[b] # NoSb /\ SbPreference(sb'[b]) \in preferredIDs'
    <3>1. b \in preferredIDs /\ b \in blocks /\ b # p /\ sb[b] # NoSb
      BY <1>1, <1>2, <1>7, <2>2
    <3>2. SbPreference(sb[b]) # q
      <4>1. SbPreference(sb[b]) \in children[b]
        BY <3>1, PreferenceIsChild
      <4> QED
        BY <1>1, <3>1, <4>1, ChildrenInTree, SMT
    <3> QED
      BY <1>2, <1>7, <1>8, <2>2, <3>1, <3>2
  <2> QED
    BY <1>1, <1>2, <1>7, <2>1, <2>2, SMTT(30) DEF Reaching
<1>11. sb'[tail] = NoSb
  <2>1. tail \in preferredIDs
    BY <1>7 DEF p
  <2> QED
    BY <1>7, <1>8, <2>1
<1> QED
  BY <1>2, <1>9, <1>10, <1>11 DEF Fresh

\* The preferred blocks stay up to date, or vote will find newPreferred outside.
LEMMA VotePreferred ==
    ASSUME TreeInv, VoteInv, at \in blocks, NEW next, NEW inst \in SbStates, sb[at] # NoSb,
           SbPreference(inst) \in children[at], VoteWith(at, next, inst)
    PROVE  \/ Stale'
           \/ /\ Fresh'
              /\ next \in children[at] => (onPreferredBranch' <=> next \in preferredIDs' \cup {head'})
<1> DEFINE q == SbPreference(inst)
<1>1. /\ q \in blocks \ {head} /\ q \in Blocks /\ Parent[q] = at
      /\ Ancestors[q] = {at} \cup Ancestors[at] /\ q \in children[at]
      /\ at \in Blocks
  BY ChildrenInTree DEF VoteInv, VoteBase
<1>2. /\ newPreferred' = IF onPreferredBranch THEN q ELSE newPreferred
      /\ onPreferredBranch' = (onPreferredBranch /\ next = q)
      /\ preferredIDs' \subseteq preferredIDs
      /\ preferredIDs \subseteq Blocks
  BY DEF VoteWith, AcceptPreferredChild, TreeInv, TypeOK
<1>3. next \in children[at] => next \in blocks /\ next # head /\ Parent[next] = at
  BY ChildrenInTree
<1>4. Accepts(inst, at) => at = head /\ onPreferredBranch /\ head' = q /\ preferredIDs' = preferredIDs \ {q}
  BY DEF VoteWith, AcceptPreferredChild, Accepts, VoteInv, VoteBase
<1>5. ~Accepts(inst, at) => head' = head /\ preferredIDs' = preferredIDs
  BY DEF VoteWith
<1>6. CASE Stale
  <2>1. CASE onPreferredBranch
    <3>1. newPreferred = at /\ newPreferred' = q
      BY <1>2, <2>1 DEF VoteInv, VoteBase
    <3>2. ASSUME NEW b \in preferredIDs PROVE q \notin Ancestors[b] /\ b # q
      BY <1>1, <1>2, <1>6, <3>1, AncestorAssumption, SMT DEF Stale
    <3> QED
      BY <1>2, <3>1, <3>2 DEF Stale
  <2>2. CASE ~onPreferredBranch
    BY <1>2, <1>6, <2>2 DEF Stale
  <2> QED
    BY <2>1, <2>2
<1>7. CASE Fresh /\ onPreferredBranch /\ at \in preferredIDs \cup {head} /\ q \notin preferredIDs
  <2>1. \A b \in preferredIDs : q \notin Ancestors[b]
    BY <1>1, <1>7, NotPreferredIsStale DEF Fresh
  <2> QED
    BY <1>2, <1>7, <2>1 DEF Stale
<1>8. CASE Fresh /\ onPreferredBranch /\ at \in preferredIDs \cup {head} /\ q \in preferredIDs
  <2>1. SbPreference(sb[at]) = q
    BY <1>1, <1>8 DEF Fresh, Linked
  <2>2. Fresh'
    <3>1. CASE Accepts(inst, at)
      BY <1>1, <1>4, <1>8, <3>1, FreshAccepted, SMT
    <3>2. CASE ~Accepts(inst, at)
      BY <1>8, <2>1, <3>2, FreshKept
    <3> QED
      BY <3>1, <3>2
  <2>3. next \in children[at] /\ next \in preferredIDs => next = q
    BY <1>3, <1>8, <2>1 DEF Fresh, Linked
  <2>4. next \in children[at] => (onPreferredBranch' <=> next \in preferredIDs' \cup {head'})
    <3>1. onPreferredBranch' <=> next = q
      BY <1>2, <1>8
    <3>2. next \in children[at] => (next = q <=> next \in preferredIDs' \cup {head'})
      <4>1. CASE Accepts(inst, at)
        BY <1>4, <2>3, <4>1
      <4>2. CASE ~Accepts(inst, at)
        BY <1>3, <1>5, <1>8, <2>3, <4>2, SMT
      <4> QED
        BY <4>1, <4>2
    <3> QED
      BY <3>1, <3>2
  <2> QED
    BY <2>2, <2>4
<1>9. CASE Fresh /\ ~onPreferredBranch /\ at \notin preferredIDs \cup {head}
  <2>1. ~Accepts(inst, at) /\ ~onPreferredBranch'
    BY <1>2, <1>9 DEF Accepts
  <2>2. Fresh'
    BY <1>9, <2>1, FreshKept
  <2>3. next \in children[at] => next \notin preferredIDs' \cup {head'}
    BY <1>3, <1>5, <1>9, <2>1 DEF Fresh, Linked
  <2> QED
    BY <2>1, <2>2, <2>3
<1> QED
  BY <1>6, <1>7, <1>8, <1>9 DEF VoteInv, VoteBase

\* The loop goes on with the next block of voteStack.
LEMMA WalkContinues ==
    ASSUME TreeInv, VoteInv, at \in blocks, NEW next \in NextOnStack(at), NEW inst \in SbStates,
           sb[at] # NoSb, SbPreference(inst) \in children[at],
           VoteWith(at, next, inst), at' = next, VoteBase', OnWay(newPreferred)'
    PROVE  VoteInv'
<1> DEFINE q == SbPreference(inst)
<1>1. /\ q \in blocks \ {head} /\ q \in Blocks /\ Ancestors[q] = {at} \cup Ancestors[at]
      /\ at \in Blocks /\ newPreferred \in Blocks
  BY ChildrenInTree DEF VoteInv, VoteBase, TreeInv, TypeOK
<1>2. /\ next \in children[at] /\ next \in blocks \ {head} /\ next \in Blocks
      /\ Ancestors[next] = {at} \cup Ancestors[at]
  BY ChildrenInTree DEF NextOnStack
<1>3. /\ newPreferred' = IF onPreferredBranch THEN q ELSE newPreferred
      /\ onPreferredBranch' = (onPreferredBranch /\ next = q)
  BY DEF VoteWith
<1>4. /\ Accepts(inst, at) => at = head /\ onPreferredBranch /\ head' = q
      /\ ~Accepts(inst, at) => head' = head /\ blocks' = blocks
  BY DEF VoteWith, AcceptPreferredChild, Accepts, VoteInv
<1>6. ~onPreferredBranch' => next # head' /\ next # newPreferred' /\ next \notin Ancestors[newPreferred']
  <2>1. ASSUME onPreferredBranch, next # q PROVE next # head' /\ next # q /\ next \notin Ancestors[q]
    <3>1. next \notin Ancestors[q]
      BY <1>1, <1>2, AncestorIrreflexive, AncestorAssumption
    <3> QED
      BY <1>2, <1>4, <2>1, <3>1
  <2>2. ASSUME ~onPreferredBranch
        PROVE  next # head' /\ next # newPreferred /\ next \notin Ancestors[newPreferred]
    <3>1. at # newPreferred /\ at \notin Ancestors[newPreferred] /\ head' = head
      BY <1>4, <2>2 DEF VoteInv
    <3> QED
      BY <1>1, <1>2, <3>1, AncestorAssumption
  <2> QED
    BY <1>3, <2>1, <2>2
<1>7. \/ Stale'
      \/ Fresh' /\ (onPreferredBranch' <=> next \in preferredIDs' \cup {head'})
  BY <1>2, VotePreferred
<1> HIDE DEF q
<1>8. onPreferredBranch' => next = newPreferred'
  BY <1>3
<1> QED
  BY <1>2, <1>6, <1>7, <1>8 DEF VoteInv

\* One iteration of vote notices when the preferred branch is out of date.
LEMMA VoteWalk ==
    ASSUME Inv, WalkInv, Vote, Inv'
    PROVE  WalkInv'
<1>1. TreeInv /\ VoteInv /\ at \in blocks /\ sb[at] # NoSb /\ TreeInv'
  BY VoteCases DEF Inv, WalkInv, Vote
<1>2. PICK inst \in SbStates :
        /\ SbChoices(inst) = children[at] /\ SbPreference(inst) \in children[at]
        /\ \/ \E next \in NextOnStack(at) :
                 VoteWith(at, next, inst) /\ at' = next /\ pc' = "vote" /\ votes' = votes
           \/ VoteWith(at, None, inst) /\ at' = None /\ pc' = "settle" /\ votes' = NoVotes
  BY VoteCases
<1>3. CASE \E next \in NextOnStack(at) :
              VoteWith(at, next, inst) /\ at' = next /\ pc' = "vote" /\ votes' = votes
  <2>1. PICK next \in NextOnStack(at) :
            VoteWith(at, next, inst) /\ at' = next /\ pc' = "vote" /\ votes' = votes
    BY <1>3
  <2>2. OnWay(newPreferred)'
    BY <1>1, <1>2, <2>1, VoteOnWay
  <2>3. VoteBase'
    BY <2>1 DEF Inv, BranchInv
  <2>4. VoteInv'
    BY <1>1, <1>2, <2>1, <2>2, <2>3, WalkContinues
  <2> QED
    BY <2>1, <2>4 DEF WalkInv
<1>4. CASE VoteWith(at, None, inst) /\ at' = None /\ pc' = "settle" /\ votes' = NoVotes
  <2>1. OnWay(newPreferred)'
    BY <1>1, <1>2, <1>4, VoteOnWay
  <2>2. Stale' \/ Fresh'
    BY <1>1, <1>2, <1>4, VotePreferred
  <2> QED
    BY <1>4, <2>1, <2>2 DEF WalkInv, Stale
<1> QED
  BY <1>2, <1>3, <1>4

-----------------------------------------------------------------------------
(* RecordPoll: settling the preference *)

\* The branch up from newPreferred leads back down to it.
LEMMA RebuildReaches ==
    ASSUME TreeInv, OnWay(newPreferred), Rebuild
    PROVE  Linked' /\ Reaching(tail)'
<1> DEFINE x == newPreferred
<1>1. /\ UNCHANGED treeVars /\ tail' = x
      /\ preferredIDs' = {b \in blocks \ {head} : b = x \/ b \in Ancestors[x]}
  BY DEF Rebuild
<1>2. x \in blocks /\ x \in Blocks /\ head \in blocks /\ head \in Blocks
  BY DEF OnWay, TreeInv, TreeIsRooted, TypeOK
<1>3. \A a \in blocks \ {head} : a = x \/ a \in Ancestors[x] => SbPreference(sb[Parent[a]]) = a
  BY DEF OnWay
<1> HIDE DEF x
<1>4. ASSUME NEW b \in preferredIDs'
      PROVE  /\ Parent[b] \in preferredIDs' \cup {head}
             /\ SbPreference(sb[Parent[b]]) = b
             /\ \A a \in Ancestors[b] \cap blocks : a \in preferredIDs' \cup {head}
  <2>1. b \in blocks \ {head} /\ (b = x \/ b \in Ancestors[x])
    BY <1>1
  <2>2. Parent[b] \in blocks /\ Parent[b] \in Ancestors[b]
    BY <2>1, ParentAbove
  <2>3. Ancestors[b] \subseteq Ancestors[x]
    BY <1>2, <2>1, AncestorAssumption
  <2> QED
    BY <1>1, <1>3, <2>1, <2>2, <2>3
<1>5. ASSUME NEW b \in (preferredIDs' \cup {head}) \ {x}
      PROVE  sb[b] # NoSb /\ SbPreference(sb[b]) \in preferredIDs'
  <2>1. b \in blocks /\ b \in Ancestors[x] /\ b \in Blocks
    BY <1>1, <1>2, <1>5, SMT DEF TreeInv, TreeIsRooted, TypeOK
  <2>2. PICK c \in children[b] : c = x \/ c \in Ancestors[x]
    BY <1>2, <2>1, ChildOnTheWay
  <2>3. c \in blocks \ {head} /\ Parent[c] = b
    BY <2>1, <2>2, ChildrenInTree
  <2>4. SbPreference(sb[b]) = c /\ c \in preferredIDs'
    BY <1>1, <1>3, <2>2, <2>3
  <2>5. sb[b] # NoSb
    BY <2>1, <2>2 DEF TreeInv, Instances
  <2> QED
    BY <2>4, <2>5
<1>6. Linked'
  BY <1>1, <1>4 DEF Linked, treeVars
<1>7. Reaching(tail)'
  BY <1>1, <1>2, <1>5 DEF Reaching, treeVars
<1> QED
  BY <1>6, <1>7

\* One step down along the preferences.
LEMMA WalkReaches ==
    ASSUME TreeInv, Linked, Reaching(tail), sb[tail] # NoSb, Walk
    PROVE  Linked' /\ Reaching(tail)' /\ tail' \in Blocks
<1> DEFINE q == SbPreference(sb[tail])
<1>1. UNCHANGED treeVars /\ tail' = q /\ preferredIDs' = preferredIDs \cup {q}
  BY DEF Walk
<1>2. /\ tail \in blocks /\ tail \in preferredIDs \cup {head} /\ preferredIDs \subseteq blocks \ {head}
      /\ \A b \in (preferredIDs \cup {head}) \ {tail} : sb[b] # NoSb /\ SbPreference(sb[b]) \in preferredIDs
      /\ \A b \in preferredIDs :
            /\ Parent[b] \in preferredIDs \cup {head}
            /\ SbPreference(sb[Parent[b]]) = b
            /\ \A a \in Ancestors[b] \cap blocks : a \in preferredIDs \cup {head}
  BY DEF Linked, Reaching, TreeInv, TreeIsRooted
<1>3. q \in blocks \ {head} /\ q \in Blocks /\ Parent[q] = tail /\ Ancestors[q] = {tail} \cup Ancestors[tail]
  BY <1>2, PreferenceIsChild, ChildrenInTree, SMTT(30)
<1>4. \A a \in Ancestors[q] \cap blocks : a \in preferredIDs \cup {head}
  BY <1>2, <1>3, NothingAboveHead, SMTT(30)
<1>5. Linked'
  BY <1>1, <1>2, <1>3, <1>4, SMTT(30) DEF Linked, treeVars
<1>6. Reaching(tail)'
  BY <1>1, <1>2 DEF Reaching, treeVars
<1> QED
  BY <1>1, <1>3, <1>5, <1>6

\* Leaving the loop and settling the preference ends in a walk.
LEMMA SettleWalk ==
    ASSUME Inv, WalkInv, VoteBreak \/ Settle
    PROVE  WalkInv'
<1>1. TreeInv
  BY DEF Inv
<1>2. CASE VoteBreak
  <2>1. /\ VoteInv /\ UNCHANGED <<treeVars, preferredIDs, tail, newPreferred>> /\ pc' = "settle"
    BY <1>2 DEF WalkInv, VoteBreak
  <2>2. OnWay(newPreferred)'
    BY <2>1 DEF VoteInv, OnWay, treeVars
  <2>3. Fresh' \/ newPreferred' \notin preferredIDs'
    BY <2>1 DEF VoteInv, Fresh, Linked, Reaching, Stale, treeVars
  <2> QED
    BY <2>1, <2>2, <2>3 DEF WalkInv
<1>3. CASE Keep
  <2>1. Fresh /\ pc' = "idle" /\ UNCHANGED <<treeVars, preferredIDs, tail>>
    BY <1>3 DEF Keep, WalkInv
  <2>2. Fresh'
    BY <2>1 DEF Fresh, Linked, Reaching, treeVars
  <2> QED
    BY <2>1, <2>2 DEF WalkInv
<1>4. CASE Rebuild
  <2>1. OnWay(newPreferred) /\ pc' = "walk"
    BY <1>4 DEF Rebuild, WalkInv
  <2> QED
    BY <1>1, <1>4, <2>1, RebuildReaches DEF WalkInv
<1>5. CASE Walk /\ sb[tail] # NoSb
  <2>1. Linked /\ Reaching(tail) /\ pc' = "walk"
    BY <1>5 DEF Walk, WalkInv
  <2> QED
    BY <1>1, <1>5, <2>1, WalkReaches DEF WalkInv
<1>6. CASE Walk /\ sb[tail] = NoSb
  <2>1. Linked /\ Reaching(tail) /\ pc' = "idle" /\ UNCHANGED <<treeVars, preferredIDs, tail>>
    BY <1>6 DEF Walk, WalkInv
  <2>2. Fresh'
    BY <1>6, <2>1 DEF Fresh, Linked, Reaching, treeVars
  <2> QED
    BY <2>1, <2>2 DEF WalkInv
<1> QED
  BY <1>2, <1>3, <1>4, <1>5, <1>6 DEF Settle

-----------------------------------------------------------------------------
(* Theorem *)

\* A step in which no edge is counted twice keeps both invariants.
LEMMA OrderedStep == Inv /\ WalkInv /\ [OrderedNext]_vars => Inv' /\ WalkInv'
<1> SUFFICES ASSUME Inv, WalkInv, [OrderedNext]_vars PROVE Inv' /\ WalkInv'
  OBVIOUS
<1>1. OrderedNext => Next
  BY DEF OrderedNext, Next
<1>2. Inv'
  BY <1>1, NextInv
<1>3. ASSUME NEW b \in Blocks, Add(b) PROVE WalkInv'
  BY <1>3, AddWalk
<1>4. ASSUME NEW vs \in AnyVotes, RecordPoll(vs, {}) PROVE WalkInv'
  BY <1>2, <1>4, RecordPollWalk
<1>5. CASE Vote
  BY <1>2, <1>5, VoteWalk
<1>6. CASE VoteBreak \/ Settle
  BY <1>2, <1>6, SettleWalk
<1>7. CASE UNCHANGED vars
  <2>1. UNCHANGED <<blocks, children, sb, shouldFalter, status, head, preferredIDs, tail,
                    pc, votes, at, newPreferred, onPreferredBranch>>
    BY <1>7, SMTT(30) DEF vars, treeVars, pollVars
  <2>2. Fresh' = Fresh /\ Stale' = Stale /\ (Linked /\ Reaching(tail))' = (Linked /\ Reaching(tail))
    BY <2>1, SMTT(30) DEF Fresh, Stale, Linked, Reaching
  <2>3. OnWay(newPreferred)' = OnWay(newPreferred) /\ VoteBase' = VoteBase
    BY <2>1 DEF OnWay, VoteBase, VotesBelow
  <2>4. VoteInv' = VoteInv
    BY <2>1, <2>2, <2>3 DEF VoteInv
  <2> QED
    BY <1>2, <2>1, <2>2, <2>3, <2>4 DEF WalkInv
<1> QED
  BY <1>2, <1>3, <1>4, <1>5, <1>6, <1>7 DEF OrderedNext

\* When calculateInDegree counts no edge twice, between calls preferredIDs and tail
\* are what the instances prefer, whether RecordPoll kept or rebuilt them.
THEOREM PreferredWalk == OrderedSpec => []PreferenceIsWalk
<1>1. Init => Inv /\ WalkInv
  <2>1. Init => WalkInv
    BY BlockAssumption, SMTT(30) DEF Init, WalkInv, Fresh, Linked, Reaching
  <2> QED
    BY <2>1, InitInv, Zenon
<1>2. Inv /\ WalkInv => PreferenceIsWalk
  BY DEF WalkInv, Fresh, Linked, Reaching, PreferenceIsWalk
<1> QED
  BY <1>1, <1>2, OrderedStep, PTL DEF OrderedSpec

-----------------------------------------------------------------------------
(* When no edge is counted twice: putting off the falters *)

\* What a poll leaves of an instance is determined by the instance and the votes.
Deterministic ==
    \A s \in SbStates : \A v \in [SbChoices(s) -> 0..K] : \E t : SbPolls(s, v) = {t}

\* b is to falter before it records its next poll.
Pending(b) == \E a \in blocks : shouldFalter[a] /\ (a = b \/ a \in Ancestors[b])

\* The instance of b after what was put off.
Caught(b) == IF Pending(b) THEN SbFalter(sb[b]) ELSE sb[b]

\* What a poll makes of instance s of block b at once.
Reaction(s, vs, b) ==
    IF Cardinality(VotesBelow(vs, b)) >= Alpha
    THEN CHOOSE x \in SbPolls(s, VoteBag(vs, b)) : TRUE
    ELSE SbFalter(s)

\* The loop of vote has not passed b, and b is not beside its way.
ToVisit(b) == pc = "vote" /\ (b = at \/ at \in Ancestors[b])

\* The reference is ahead of b by the poll that b is still to record, and by what b
\* has put off.
EagerOf(b) ==
    IF sb[b] = NoSb THEN eager[b] = NoSb
    ELSE /\ eager[b] \in SbStates
         /\ SbSame(eager[b], IF ToVisit(b) THEN Reaction(Caught(b), votes, b) ELSE Caught(b))

\* Above the loop of vote nothing is put off, and nothing is left below a block that
\* was rejected.
LoopClean ==
    pc = "vote" =>
        /\ \A a \in blocks : a \in Ancestors[at] => ~shouldFalter[a]
        /\ at \notin blocks => \A b \in blocks : at \notin Ancestors[b]

EagerInv ==
    /\ \A b \in blocks : EagerOf(b)
    /\ eager \in [Blocks -> SbStates \cup {NoSb}]
    /\ \A b \in Blocks \ blocks : status[b] = "Processing" => eager[b] = NoSb
    /\ LoopClean

\* What is known of two states that behave alike.
LEMMA SameFacts ==
    ASSUME NEW s \in SbStates, NEW t \in SbStates, SbSame(s, t)
    PROVE  /\ SbSame(t, s)
           /\ SbChoices(s) = SbChoices(t)
           /\ SbPreference(s) = SbPreference(t) /\ SbFinalized(s) = SbFinalized(t)
           /\ SbSame(SbFalter(s), SbFalter(t))
           /\ \A c \in Blocks : SbSame(SbAdd(s, c), SbAdd(t, c))
BY SameAssumption

LEMMA SameTransitive ==
    ASSUME NEW s \in SbStates, NEW t \in SbStates, NEW u \in SbStates, SbSame(s, t), SbSame(t, u)
    PROVE  SbSame(s, u)
BY SameAssumption

\* The instance of a block after what was put off.
LEMMA CaughtState ==
    ASSUME TreeInv, NEW b \in blocks, sb[b] # NoSb
    PROVE  /\ Caught(b) \in SbStates /\ SbChoices(Caught(b)) = children[b]
           /\ SbPreference(Caught(b)) = SbPreference(sb[b])
           /\ SbFinalized(Caught(b)) = SbFinalized(sb[b])
<1>1. sb[b] \in SbStates /\ SbChoices(sb[b]) = children[b]
  BY PreferenceIsChild
<1>2. CASE Pending(b)
  BY <1>1, <1>2, SnowballAssumption, FalterAssumption DEF Caught
<1>3. CASE ~Pending(b)
  BY <1>1, <1>3 DEF Caught
<1> QED
  BY <1>2, <1>3

\* A poll leaves one state.
LEMMA OnlyOutcome ==
    ASSUME Deterministic, NEW s \in SbStates, NEW v \in [SbChoices(s) -> 0..K]
    PROVE  /\ (CHOOSE x \in SbPolls(s, v) : TRUE) \in SbPolls(s, v)
           /\ \A t \in SbPolls(s, v) : t = CHOOSE x \in SbPolls(s, v) : TRUE
           /\ (CHOOSE x \in SbPolls(s, v) : TRUE) \in SbStates
           /\ SbChoices(CHOOSE x \in SbPolls(s, v) : TRUE) = SbChoices(s)
<1>1. PICK t : SbPolls(s, v) = {t}
  BY DEF Deterministic
<1>2. (CHOOSE x \in SbPolls(s, v) : TRUE) \in SbPolls(s, v)
  BY <1>1
<1>3. \A x \in SbPolls(s, v) : x \in SbStates /\ SbChoices(x) = SbChoices(s)
  BY SnowballPollAssumption
<1> QED
  BY <1>1, <1>2, <1>3

\* The votes for the children of a block.
LEMMA BagType ==
    ASSUME NEW vs, NEW b
    PROVE  VoteBag(vs, b) \in [children[b] -> 0..K]
BY VotesThroughBound DEF VoteBag

\* A poll does the same to instances that behave alike.
LEMMA ReactionSame ==
    ASSUME Deterministic, NEW s \in SbStates, NEW t \in SbStates, SbSame(s, t),
           NEW vs, NEW b, SbChoices(t) = children[b]
    PROVE  /\ Reaction(s, vs, b) \in SbStates /\ Reaction(t, vs, b) \in SbStates
           /\ SbSame(Reaction(s, vs, b), Reaction(t, vs, b))
<1> DEFINE v == VoteBag(vs, b)
           x == CHOOSE y \in SbPolls(s, v) : TRUE
           z == CHOOSE y \in SbPolls(t, v) : TRUE
<1>1. v \in [SbChoices(s) -> 0..K] /\ v \in [SbChoices(t) -> 0..K]
  BY BagType, SameFacts
<1> HIDE DEF v
<1>2. /\ x \in SbPolls(s, v) /\ x \in SbStates /\ z \in SbStates
      /\ \A y \in SbPolls(t, v) : y = z
  BY <1>1, OnlyOutcome
<1>3. \A w \in SbPolls(s, v) : \E y \in SbPolls(t, v) : SbSame(w, y)
  BY <1>1, SameAssumption, SMT
<1>4. SbSame(x, z)
  BY <1>2, <1>3
<1>5. /\ SbFalter(s) \in SbStates /\ SbFalter(t) \in SbStates
      /\ SbSame(SbFalter(s), SbFalter(t))
  BY SnowballAssumption, SameFacts
<1>6. CASE Cardinality(VotesBelow(vs, b)) >= Alpha
  BY <1>2, <1>4, <1>6 DEF Reaction, v
<1>7. CASE ~(Cardinality(VotesBelow(vs, b)) >= Alpha)
  BY <1>5, <1>7 DEF Reaction
<1> QED
  BY <1>6, <1>7

\* Two blocks beside each other do not both have alpha votes below them.
LEMMA MajoritiesMeet ==
    ASSUME NEW A \in SUBSET Slots, NEW B \in SUBSET Slots, A \cap B = {},
           Cardinality(A) >= Alpha, Cardinality(B) >= Alpha
    PROVE  FALSE
<1>1. K \in Nat /\ Alpha \in Nat /\ Alpha + Alpha > K
  BY ParameterAssumption, SMT DEF Verify
<1>2. IsFiniteSet(Slots) /\ Cardinality(Slots) = K
  BY <1>1, FS_Interval, SMT DEF Slots
<1>3. IsFiniteSet(A) /\ IsFiniteSet(B) /\ A \cup B \subseteq Slots
  BY <1>2, FS_Subset
<1>4. /\ Cardinality(A) \in Nat /\ Cardinality(B) \in Nat
      /\ Cardinality(A \cup B) = Cardinality(A) + Cardinality(B) - Cardinality(A \cap B)
      /\ Cardinality(A \cup B) <= K
  BY <1>2, <1>3, FS_CardinalityType, FS_Union, FS_Subset, SMT
<1>5. Cardinality(A \cap B) = 0
  BY FS_EmptySet
<1> QED
  BY <1>1, <1>4, <1>5, SMT

\* Fewer votes lie below a block further down.
LEMMA FewerBelow ==
    ASSUME NEW vs \in [Slots -> Blocks \cup {None}], NEW c \in Blocks, NEW b \in Blocks,
           c = b \/ c \in Ancestors[b], Cardinality(VotesBelow(vs, b)) >= Alpha
    PROVE  VotesBelow(vs, b) \subseteq VotesBelow(vs, c) /\ Cardinality(VotesBelow(vs, c)) >= Alpha
<1>1. ASSUME NEW s \in Slots, vs[s] # None, b \in Ancestors[vs[s]] PROVE c \in Ancestors[vs[s]]
  BY <1>1, AncestorAssumption, SMT
<1>2. VotesBelow(vs, b) \subseteq VotesBelow(vs, c)
  BY <1>1 DEF VotesBelow
<1>3. IsFiniteSet(VotesBelow(vs, c))
  <2>1. IsFiniteSet(1..K)
    BY FS_Interval, ParameterAssumption, SMT
  <2>2. VotesBelow(vs, c) \subseteq 1..K
    BY DEF VotesBelow, Slots
  <2> QED
    BY <2>1, <2>2, FS_Subset
<1>4. /\ Cardinality(VotesBelow(vs, b)) =< Cardinality(VotesBelow(vs, c))
      /\ Cardinality(VotesBelow(vs, b)) \in Nat /\ Cardinality(VotesBelow(vs, c)) \in Nat
  BY <1>2, <1>3, FS_Subset, FS_CardinalityType
<1>5. Cardinality(VotesBelow(vs, c)) >= Alpha
  BY <1>4, ParameterAssumption, SMT
<1> QED
  BY <1>2, <1>5

-----------------------------------------------------------------------------
(* Putting off the falters: Initialize, Add and the start of a poll *)

\* What is put off for b depends on the flags of b and of the blocks above it.
LEMMA PendingSame ==
    ASSUME NEW b,
           \A a : a = b \/ a \in Ancestors[b] =>
               ((a \in blocks' /\ shouldFalter'[a]) <=> (a \in blocks /\ shouldFalter[a]))
    PROVE  Pending(b)' = Pending(b)
<1>1. Pending(b)' <=> Pending(b)
  BY DEF Pending
<1> QED
  BY <1>1 DEF Pending

LEMMA EagerInit == InitEager => EagerInv
<1> SUFFICES ASSUME InitEager PROVE EagerInv
  OBVIOUS
<1>1. sb = [b \in Blocks |-> NoSb] /\ eager = sb /\ pc = "idle" /\ blocks = {Genesis}
      /\ Genesis \in Blocks
  BY BlockAssumption DEF InitEager, Init
<1>2. LoopClean
  BY <1>1, SMT DEF LoopClean
<1> QED
  BY <1>1, <1>2 DEF EagerInv, EagerOf

\* A new child is added to the instance of its parent and to the reference.
LEMMA IssueEager ==
    ASSUME Inv, EagerInv, NEW b \in Blocks, AddEager(b), Issue(b)
    PROVE  EagerInv'
<1> DEFINE p == Parent[b]
<1>1. /\ TreeInv /\ pc = "idle" /\ pc' = "idle" /\ ~Decided(b) /\ ~Processing(b)
  BY DEF Inv, AddEager, Add, pollVars
<1>2. /\ b # head /\ b \notin blocks /\ p \in blocks /\ p \in Blocks /\ p # b
      /\ status[b] = "Processing" /\ \A x \in blocks : b \notin Ancestors[x]
  BY <1>1, IssuedBlock DEF Issue, TreeInv, TypeOK
<1>3. /\ blocks' = blocks \cup {b} /\ UNCHANGED <<shouldFalter, status>>
      /\ sb' = [sb EXCEPT ![p] = IF sb[p] = NoSb THEN SbNew(b) ELSE SbAdd(sb[p], b)]
  BY DEF Issue, AddChild
<1>4. eager' = [eager EXCEPT ![p] = IF eager[p] = NoSb THEN SbNew(b) ELSE SbAdd(eager[p], b)]
  BY <1>2 DEF AddEager
<1> HIDE DEF p
<1>5. /\ \A x \in Blocks \ {p} : sb'[x] = sb[x] /\ eager'[x] = eager[x]
      /\ sb'[p] = IF sb[p] = NoSb THEN SbNew(b) ELSE SbAdd(sb[p], b)
      /\ eager'[p] = IF eager[p] = NoSb THEN SbNew(b) ELSE SbAdd(eager[p], b)
      /\ blocks \subseteq Blocks
  BY <1>1, <1>2, <1>3, <1>4 DEF TreeInv, Instances, EagerInv, TypeOK
<1>6. \A x \in blocks : Pending(x)' = Pending(x)
  BY <1>2, <1>3, PendingSame
<1>7. \A x : ~ToVisit(x) /\ ~ToVisit(x)'
  BY <1>1, SMT DEF ToVisit
<1>8. SbNew(b) \in SbStates /\ SbNew(b) # NoSb
  BY SnowballAssumption
<1>9. EagerOf(p)' /\ eager'[p] \in SbStates
  <2>1. CASE sb[p] = NoSb
    <3>1. sb'[p] = SbNew(b) /\ eager'[p] = SbNew(b)
      BY <1>2, <1>5, <2>1 DEF EagerInv, EagerOf
    <3>2. SbSame(SbNew(b), SbNew(b)) /\ SbSame(SbNew(b), SbFalter(SbNew(b)))
      <4>1. SbSame(SbFalter(SbNew(b)), SbNew(b)) /\ SbFalter(SbNew(b)) \in SbStates
        BY <1>8, FalterAssumption, SnowballAssumption
      <4> QED
        BY <1>8, <4>1, SameAssumption
    <3> QED
      BY <1>7, <1>8, <3>1, <3>2 DEF EagerOf, Caught
  <2>2. CASE sb[p] # NoSb
    <3>1. /\ eager[p] \in SbStates /\ SbSame(eager[p], Caught(p)) /\ eager[p] # NoSb
          /\ sb[p] \in SbStates
      BY <1>1, <1>2, <1>7, <2>2, PreferenceIsChild, SnowballAssumption DEF EagerInv, EagerOf
    <3>2. sb'[p] = SbAdd(sb[p], b) /\ eager'[p] = SbAdd(eager[p], b)
      BY <1>5, <2>2, <3>1
    <3>3. SbAdd(sb[p], b) \in SbStates /\ SbAdd(eager[p], b) \in SbStates
      BY <3>1, SnowballAssumption
    <3>4. CASE Pending(p)
      <4>1. Caught(p) = SbFalter(sb[p]) /\ SbFalter(sb[p]) \in SbStates
        BY <3>1, <3>4, SnowballAssumption DEF Caught
      <4>2. SbSame(SbAdd(eager[p], b), SbAdd(SbFalter(sb[p]), b))
        BY <3>1, <4>1, SameFacts
      <4>3. /\ SbAdd(SbFalter(sb[p]), b) \in SbStates /\ SbFalter(SbAdd(sb[p], b)) \in SbStates
            /\ SbSame(SbFalter(SbAdd(sb[p], b)), SbAdd(SbFalter(sb[p]), b))
        BY <3>1, <3>3, <4>1, SnowballAssumption, FalterAssumption
      <4>4. SbSame(SbAdd(SbFalter(sb[p]), b), SbFalter(SbAdd(sb[p], b)))
        BY <4>3, SameFacts
      <4>5. SbSame(SbAdd(eager[p], b), SbFalter(SbAdd(sb[p], b)))
        BY <3>3, <4>2, <4>3, <4>4, SameTransitive
      <4>6. Caught(p)' = SbFalter(SbAdd(sb[p], b))
        BY <1>2, <1>6, <3>2, <3>4 DEF Caught
      <4> QED
        BY <1>7, <3>2, <3>3, <4>5, <4>6, SnowballAssumption DEF EagerOf
    <3>5. CASE ~Pending(p)
      <4>1. SbSame(SbAdd(eager[p], b), SbAdd(sb[p], b))
        BY <3>1, <3>5, SameFacts DEF Caught
      <4>2. Caught(p)' = SbAdd(sb[p], b)
        BY <1>2, <1>6, <3>2, <3>5 DEF Caught
      <4> QED
        BY <1>7, <3>2, <3>3, <4>1, <4>2, SnowballAssumption DEF EagerOf
    <3> QED
      BY <3>4, <3>5
  <2> QED
    BY <2>1, <2>2
<1>10. ASSUME NEW x \in blocks', x # p PROVE EagerOf(x)'
  <2>1. CASE x = b
    BY <1>1, <1>2, <1>5, <2>1 DEF EagerOf, EagerInv, TreeInv, Instances
  <2>2. CASE x \in blocks
    <3>1. sb'[x] = sb[x] /\ eager'[x] = eager[x] /\ Caught(x)' = Caught(x)
      BY <1>5, <1>6, <1>10, <2>2 DEF Caught
    <3> QED
      BY <1>7, <2>2, <3>1 DEF EagerOf, EagerInv
  <2> QED
    BY <1>3, <1>10, <2>1, <2>2
<1>11. eager' \in [Blocks -> SbStates \cup {NoSb}]
  BY <1>4, <1>5, <1>9, <1>2 DEF EagerInv
<1>12. \A x \in Blocks \ blocks' : status'[x] = "Processing" => eager'[x] = NoSb
  BY <1>2, <1>3, <1>5 DEF EagerInv
<1>13. LoopClean'
  BY <1>1, SMT DEF LoopClean
<1> QED
  BY <1>9, <1>10, <1>11, <1>12, <1>13 DEF EagerInv

LEMMA AddEagerStep ==
    ASSUME Inv, EagerInv, NEW b \in Blocks, AddEager(b)
    PROVE  EagerInv'
<1>1. CASE Issue(b)
  BY <1>1, IssueEager
<1>2. CASE IssueOrphan(b)
  <2>1. /\ UNCHANGED <<blocks, sb, shouldFalter>> /\ pc = "idle" /\ pc' = "idle"
        /\ status' = [status EXCEPT ![b] = "Rejected"] /\ Parent[b] \notin blocks
    BY <1>2 DEF IssueOrphan, AddEager, Add, pollVars
  <2>2. eager' = eager
    <3>1. eager' = [eager EXCEPT ![Parent[b]] = eager[Parent[b]]]
      BY <2>1 DEF AddEager
    <3> QED
      BY <3>1 DEF EagerInv
  <2>3. \A x : ~ToVisit(x) /\ ~ToVisit(x)' /\ Caught(x)' = Caught(x)
    BY <2>1, SMT DEF ToVisit, Caught, Pending
  <2>4. \A x \in blocks' : EagerOf(x)'
    BY <2>1, <2>2, <2>3 DEF EagerInv, EagerOf
  <2>5. \A x \in Blocks \ blocks' : status'[x] = "Processing" => eager'[x] = NoSb
    BY <2>1, <2>2, SMT DEF EagerInv, Inv, TreeInv, TypeOK
  <2>6. LoopClean'
    BY <2>1, SMT DEF LoopClean
  <2> QED
    BY <2>2, <2>4, <2>5, <2>6 DEF EagerInv
<1> QED
  BY <1>1, <1>2 DEF AddEager, Add

\* The reference records the poll at once; the tree is to record it from head on, or
\* to falter from head on.
LEMMA PollEagerStep ==
    ASSUME Deterministic, Inv, EagerInv, NEW vs \in AnyVotes, Poll(vs)
    PROVE  EagerInv'
<1>1. /\ TreeInv /\ pc = "idle" /\ RecordPoll(vs, {}) /\ head \in blocks /\ head \in Blocks
      /\ blocks \subseteq Blocks /\ vs \in [Slots -> Blocks \cup {None}]
  BY VotesAreValid DEF Inv, TreeInv, TreeIsRooted, TypeOK, Poll, RecordPoll
<1>2. UNCHANGED <<blocks, children, sb, status, head>>
  BY <1>1 DEF RecordPoll
<1>3. eager' = [b \in Blocks |-> EagerPoll(b, vs)]
  BY DEF Poll
<1>4. \A b \in blocks : b = head \/ head \in Ancestors[b]
  BY <1>1 DEF TreeInv, TreeIsRooted
<1>5. ASSUME NEW b \in blocks, sb[b] # NoSb
      PROVE  /\ eager'[b] = Reaction(eager[b], vs, b) /\ eager[b] \in SbStates
             /\ SbSame(eager[b], Caught(b)) /\ eager'[b] \in SbStates
             /\ Reaction(Caught(b), vs, b) \in SbStates
             /\ SbSame(eager'[b], Reaction(Caught(b), vs, b))
  <2>1. ~ToVisit(b)
    BY <1>1, SMT DEF ToVisit
  <2>2. eager[b] \in SbStates /\ SbSame(eager[b], Caught(b)) /\ eager[b] # NoSb
    BY <1>5, <2>1, SnowballAssumption DEF EagerInv, EagerOf
  <2>3. eager'[b] = Reaction(eager[b], vs, b)
    BY <1>1, <1>3, <2>2 DEF EagerPoll, Reaction
  <2>4. Caught(b) \in SbStates /\ SbChoices(Caught(b)) = children[b]
    BY <1>1, <1>5, CaughtState
  <2>5. /\ Reaction(eager[b], vs, b) \in SbStates /\ Reaction(Caught(b), vs, b) \in SbStates
        /\ SbSame(Reaction(eager[b], vs, b), Reaction(Caught(b), vs, b))
    BY <2>2, <2>4, ReactionSame
  <2> QED
    BY <2>2, <2>3, <2>5
<1>6. ASSUME NEW b \in blocks, sb[b] = NoSb PROVE eager'[b] = NoSb
  BY <1>1, <1>3, <1>6 DEF EagerInv, EagerOf, EagerPoll
<1>7. \A b \in Blocks \ blocks : eager'[b] = NoSb
  BY <1>3 DEF EagerPoll
<1>8. eager' \in [Blocks -> SbStates \cup {NoSb}]
  <2>1. \A b \in Blocks : eager'[b] \in SbStates \cup {NoSb}
    BY <1>5, <1>6, <1>7
  <2> QED
    BY <1>3, <2>1
<1>9. CASE pc' = "vote"
  <2>1. PICK top \in OnStack(vs, blocks, {}) :
            /\ \A p \in OnStack(vs, blocks, {}) : p = top \/ top \in Ancestors[p]
            /\ votes' = vs /\ at' = top /\ shouldFalter' = shouldFalter
    BY <1>1, <1>9, SMT DEF RecordPoll
  <2>2. at' = head
    BY <1>1, <2>1, HeadIsTop, SMTT(30)
  <2>3. \A b \in blocks : ToVisit(b)'
    BY <1>4, <1>9, <2>2 DEF ToVisit
  <2>4. \A b : Caught(b)' = Caught(b) /\ VoteBag(votes, b)' = VoteBag(vs, b)
    BY <1>2, <2>1 DEF Caught, Pending, VoteBag, VotesThrough, VotesBelow
  <2>5. ASSUME NEW b PROVE Reaction(Caught(b), votes, b)' = Reaction(Caught(b), vs, b)
    <3>1. VotesBelow(votes, b)' = VotesBelow(vs, b)
      BY <2>1 DEF VotesBelow
    <3>2. /\ SbPolls(Caught(b), VoteBag(votes, b))' = SbPolls(Caught(b), VoteBag(vs, b))
          /\ SbFalter(Caught(b))' = SbFalter(Caught(b))
      BY <2>4
    <3> QED
      BY <3>1, <3>2, SMT DEF Reaction
  <2>6. ASSUME NEW b \in blocks' PROVE EagerOf(b)'
    <3>1. CASE sb[b] = NoSb
      BY <1>2, <1>6, <3>1 DEF EagerOf
    <3>2. CASE sb[b] # NoSb
      BY <1>2, <1>5, <2>3, <2>5, <3>2 DEF EagerOf
    <3> QED
      BY <3>1, <3>2
  <2>7. LoopClean'
    BY <1>1, <1>2, <2>2, NothingAboveHead DEF LoopClean
  <2> QED
    BY <1>2, <1>7, <1>8, <2>6, <2>7 DEF EagerInv
<1>10. CASE pc' # "vote"
  <2>1. OnStack(vs, blocks, {}) = {} /\ shouldFalter' = [shouldFalter EXCEPT ![head] = TRUE]
    BY <1>1, <1>10 DEF RecordPoll
  <2>2. \A b \in blocks : ~(Cardinality(VotesBelow(vs, b)) >= Alpha)
    BY <2>1 DEF OnStack
  <2>3. \A b : ~ToVisit(b)'
    BY <1>10 DEF ToVisit
  <2>4. \A b \in blocks : Pending(b)'
    <3>1. shouldFalter'[head] = TRUE
      BY <1>1, <2>1 DEF TreeInv, TypeOK
    <3> QED
      BY <1>1, <1>2, <1>4, <3>1 DEF Pending
  <2>5. ASSUME NEW b \in blocks' PROVE EagerOf(b)'
    <3>1. CASE sb[b] = NoSb
      BY <1>2, <1>6, <3>1 DEF EagerOf
    <3>2. CASE sb[b] # NoSb
      <4>1. /\ eager'[b] \in SbStates /\ SbSame(eager'[b], SbFalter(Caught(b)))
            /\ SbFalter(Caught(b)) \in SbStates
        BY <1>2, <1>5, <2>2, <2>5, <3>2 DEF Reaction
      <4>2. sb[b] \in SbStates /\ SbFalter(sb[b]) \in SbStates
        BY <1>1, <1>2, <3>2, PreferenceIsChild, SnowballAssumption
      <4>3. SbSame(SbFalter(Caught(b)), SbFalter(sb[b]))
        BY <4>2, FalterAssumption, SameAssumption DEF Caught
      <4>4. SbSame(eager'[b], SbFalter(sb[b]))
        BY <4>1, <4>2, <4>3, SameTransitive
      <4>5. Caught(b)' = SbFalter(sb[b])
        BY <1>2, <2>4 DEF Caught
      <4> QED
        BY <1>2, <2>3, <3>2, <4>1, <4>4, <4>5 DEF EagerOf
    <3> QED
      BY <3>1, <3>2
  <2>6. LoopClean'
    BY <1>10 DEF LoopClean
  <2> QED
    BY <1>2, <1>7, <1>8, <2>5, <2>6 DEF EagerInv
<1> QED
  BY <1>9, <1>10

\* The rest of RecordPoll after the loop touches no instance.
LEMMA SettleEagerStep ==
    ASSUME Inv, EagerInv, VoteBreak \/ Settle, UNCHANGED eager
    PROVE  EagerInv'
<1>1. UNCHANGED <<blocks, children, sb, shouldFalter, status>> /\ pc' # "vote"
  BY SMT DEF VoteBreak, Settle, Keep, Rebuild, Walk, treeVars
<1>2. \A b \in blocks : ~ToVisit(b)
  <2>1. CASE VoteBreak
    BY <2>1 DEF VoteBreak, EagerInv, LoopClean, ToVisit
  <2>2. CASE Settle
    BY <2>2, SMT DEF Settle, Keep, Rebuild, Walk, ToVisit
  <2> QED
    BY <2>1, <2>2
<1>3. \A b : ~ToVisit(b)' /\ Caught(b)' = Caught(b)
  BY <1>1 DEF ToVisit, Caught, Pending
<1>4. \A b \in blocks' : EagerOf(b)'
  BY <1>1, <1>2, <1>3 DEF EagerInv, EagerOf
<1>5. LoopClean'
  BY <1>1 DEF LoopClean
<1> QED
  BY <1>1, <1>4, <1>5 DEF EagerInv

-----------------------------------------------------------------------------
(* Putting off the falters: one iteration of vote *)

\* What one iteration of vote does to the tree: nothing leaves it but with the
\* acceptance of child q of head, and then only q and what extends it stay.
LEMMA VoteSurvivors ==
    ASSUME TreeInv, at \in blocks, NEW next, NEW inst \in SbStates,
           SbPreference(inst) \in children[at], VoteWith(at, next, inst)
    PROVE  /\ blocks' \subseteq blocks
           /\ \A b \in blocks' :
                 /\ sb'[b] = IF b = at THEN inst ELSE sb[b]
                 /\ children'[b] = children[b]
                 /\ shouldFalter'[b] <=> (b # at /\ shouldFalter[b]) \/ Falters(at, next, b)
           /\ \/ blocks' = blocks
              \/ at = head /\ \E q \in children[at] :
                    \A b \in blocks : b \in blocks' <=> b = q \/ q \in Ancestors[b]
<1>1. blocks \subseteq Blocks /\ head \in blocks
  BY DEF TreeInv, TypeOK, TreeIsRooted
<1>2. CASE Accepts(inst, at)
  <2> DEFINE q == SbPreference(inst)
  <2>1. at = head /\ q \in children[head] /\ blocks' = blocks \ (RejectedWith(head, q) \cup {head})
    BY <1>2 DEF VoteWith, AcceptPreferredChild, Accepts
  <2>2. q \in blocks
    BY <1>1, <2>1, ChildrenInTree
  <2> HIDE DEF q
  <2>3. \A b \in blocks : b \in blocks' <=> b = q \/ q \in Ancestors[b]
    BY <2>1, <2>2, Survivors
  <2>4. blocks' \subseteq blocks
    BY <2>1
  <2>5. \A b \in blocks' :
             /\ sb'[b] = IF b = at THEN inst ELSE sb[b]
             /\ children'[b] = children[b]
             /\ shouldFalter'[b] <=> (b # at /\ shouldFalter[b]) \/ Falters(at, next, b)
    BY <1>1, <2>4 DEF VoteWith
  <2> QED
    BY <2>1, <2>3, <2>4, <2>5
<1>3. CASE ~Accepts(inst, at)
  <2>1. blocks' = blocks
    BY <1>3 DEF VoteWith
  <2>2. \A b \in blocks' :
             /\ sb'[b] = IF b = at THEN inst ELSE sb[b]
             /\ children'[b] = children[b]
             /\ shouldFalter'[b] <=> (b # at /\ shouldFalter[b]) \/ Falters(at, next, b)
    BY <1>1, <2>1 DEF VoteWith
  <2> QED
    BY <2>1, <2>2
<1> QED
  BY <1>2, <1>3

\* What is above a block that stays, and was not accepted, stays.
LEMMA VoteKeepsWay ==
    ASSUME TreeInv, at \in blocks, NEW next, NEW inst \in SbStates,
           SbPreference(inst) \in children[at], VoteWith(at, next, inst),
           NEW b \in blocks', NEW a \in blocks \ {at}, a = b \/ a \in Ancestors[b]
    PROVE  a \in blocks'
<1>1. blocks' \subseteq blocks /\ blocks \subseteq Blocks
  BY VoteSurvivors DEF TreeInv, TypeOK
<1>2. CASE blocks' = blocks
  BY <1>2
<1>3. CASE at = head /\ \E q \in children[at] :
              \A x \in blocks : x \in blocks' <=> x = q \/ q \in Ancestors[x]
  <2>1. PICK q \in children[at] : \A x \in blocks : x \in blocks' <=> x = q \/ q \in Ancestors[x]
    BY <1>3
  <2>2. at \in Ancestors[a]
    BY <1>3 DEF TreeInv, TreeIsRooted
  <2>3. PICK c \in children[at] : c = a \/ c \in Ancestors[a]
    BY <2>2, ChildOnTheWay
  <2>4. /\ c \in Blocks \ {Genesis} /\ q \in Blocks \ {Genesis} /\ Parent[c] = Parent[q]
    BY <2>1, <2>3, ChildrenInTree
  <2>5. c = b \/ c \in Ancestors[b]
    BY <1>1, <2>3, AncestorAssumption
  <2>6. c = q
    BY <1>1, <2>1, <2>4, <2>5, OneChildOnTheWay
  <2> QED
    BY <2>1, <2>3, <2>6
<1> QED
  BY <1>2, <1>3, VoteSurvivors

\* The flags at and above the loop of vote are clear after the iteration.
LEMMA ClearAbove ==
    ASSUME TreeInv, LoopClean, pc = "vote", at \in blocks, NEW next, NEW inst \in SbStates,
           SbPreference(inst) \in children[at], VoteWith(at, next, inst)
    PROVE  \A a \in blocks' : a = at \/ a \in Ancestors[at] => ~shouldFalter'[a]
<1>1. /\ blocks' \subseteq blocks /\ blocks \subseteq Blocks
      /\ \A b \in blocks' : shouldFalter'[b] <=> (b # at /\ shouldFalter[b]) \/ Falters(at, next, b)
  BY VoteSurvivors DEF TreeInv, TypeOK
<1> SUFFICES ASSUME NEW a \in blocks', a = at \/ a \in Ancestors[at], shouldFalter'[a] PROVE FALSE
  OBVIOUS
<1>2. a \notin children[at]
  <2>1. SUFFICES ASSUME a \in children[at] PROVE FALSE
    OBVIOUS
  <2>2. at \in Ancestors[a]
    BY <2>1, ChildrenInTree, SMT
  <2> QED
    BY <1>1, <2>2, AncestorIrreflexive, AncestorAssumption
<1>3. a # at /\ shouldFalter[a]
  BY <1>1, <1>2 DEF Falters
<1> QED
  BY <1>1, <1>3 DEF LoopClean

\* Before the iteration only the flag of at is put off for at.
LEMMA CaughtAt ==
    ASSUME LoopClean, pc = "vote", at \in blocks
    PROVE  Caught(at) = IF shouldFalter[at] THEN SbFalter(sb[at]) ELSE sb[at]
<1>1. Pending(at) <=> shouldFalter[at]
  BY DEF Pending, LoopClean
<1> QED
  BY <1>1 DEF Caught

\* The block that records the poll catches up with the reference.
LEMMA VotedEager ==
    ASSUME Deterministic, TreeInv, VoteBase, EagerInv, pc = "vote", at \in blocks, sb[at] # NoSb,
           NEW inst \in SbPolls(IF shouldFalter[at] THEN SbFalter(sb[at]) ELSE sb[at], VoteBag(votes, at))
    PROVE  eager[at] \in SbStates /\ SbSame(eager[at], inst)
<1>1. /\ eager[at] \in SbStates /\ SbSame(eager[at], Reaction(Caught(at), votes, at))
  BY DEF EagerInv, EagerOf, ToVisit
<1>2. Caught(at) = IF shouldFalter[at] THEN SbFalter(sb[at]) ELSE sb[at]
  BY CaughtAt DEF EagerInv
<1>3. inst \in SbPolls(Caught(at), VoteBag(votes, at))
  BY <1>2
<1>4. Caught(at) \in SbStates /\ VoteBag(votes, at) \in [SbChoices(Caught(at)) -> 0..K]
  BY CaughtState, BagType
<1>5. inst = CHOOSE x \in SbPolls(Caught(at), VoteBag(votes, at)) : TRUE
  BY <1>3, <1>4, OnlyOutcome
<1>6. inst = Reaction(Caught(at), votes, at)
  BY <1>5, SMT DEF Reaction, VoteBase
<1> QED
  BY <1>1, <1>6

\* A block beside the way of the votes had no alpha votes below it.
LEMMA BesideTheWay ==
    ASSUME TreeInv, at \in blocks, NEW c \in children[at], NEW b \in blocks, c = b \/ c \in Ancestors[b],
           \/ NextOnStack(at) = {}
           \/ \E next \in NextOnStack(at) : c # next
    PROVE  ~(Cardinality(VotesBelow(votes, b)) >= Alpha)
<1> SUFFICES ASSUME Cardinality(VotesBelow(votes, b)) >= Alpha PROVE FALSE
  OBVIOUS
<1>1. /\ votes \in [Slots -> Blocks \cup {None}] /\ b \in Blocks
      /\ \A x \in children[at] : x \in Blocks \ {Genesis} /\ Parent[x] = at
  BY ChildrenInTree DEF TreeInv, TypeOK
<1>2. VotesBelow(votes, b) \subseteq VotesBelow(votes, c) /\ Cardinality(VotesBelow(votes, c)) >= Alpha
  BY <1>1, FewerBelow
<1>3. c \in NextOnStack(at)
  BY <1>2 DEF NextOnStack
<1>4. PICK next \in NextOnStack(at) : c # next
  BY <1>3
<1>5. next \in children[at] /\ Cardinality(VotesBelow(votes, next)) >= Alpha
  BY <1>4 DEF NextOnStack
<1>6. VotesBelow(votes, c) \cap VotesBelow(votes, next) = {}
  <2>1. ASSUME NEW s \in Slots, votes[s] # None, c \in Ancestors[votes[s]], next \in Ancestors[votes[s]]
        PROVE  FALSE
    <3>1. votes[s] \in Blocks
      BY <1>1, <2>1
    <3> QED
      BY <1>1, <1>4, <1>5, <2>1, <3>1, OneChildOnTheWay
  <2> QED
    BY <2>1 DEF VotesBelow
<1>7. VotesBelow(votes, c) \subseteq Slots /\ VotesBelow(votes, next) \subseteq Slots
  BY DEF VotesBelow
<1> QED
  BY <1>2, <1>5, <1>6, <1>7, MajoritiesMeet

\* After the iteration: a block below the next one is as before it, its flags moved
\* one block down.
LEMMA EagerBelowNext ==
    ASSUME TreeInv, EagerInv, pc = "vote", at \in blocks, NEW next \in children[at],
           NEW inst \in SbStates, SbPreference(inst) \in children[at], VoteWith(at, next, inst),
           at' = next, pc' = "vote", UNCHANGED <<votes, eager>>,
           NEW b \in blocks', next = b \/ next \in Ancestors[b]
    PROVE  EagerOf(b)'
<1>1. /\ blocks' \subseteq blocks /\ blocks \subseteq Blocks
      /\ \A x \in blocks' :
            /\ sb'[x] = IF x = at THEN inst ELSE sb[x]
            /\ children'[x] = children[x]
            /\ shouldFalter'[x] <=> (x # at /\ shouldFalter[x]) \/ Falters(at, next, x)
  BY VoteSurvivors DEF TreeInv, TypeOK
<1>2. /\ next \in Blocks \ {Genesis} /\ Ancestors[next] = {at} \cup Ancestors[at] /\ at \in Blocks
      /\ next \in blocks /\ b \in Blocks
  BY <1>1, ChildrenInTree
<1>3. at \in Ancestors[b] /\ b # at /\ Ancestors[next] \subseteq Ancestors[b]
  BY <1>2, AncestorAssumption, AncestorIrreflexive
<1>4. next \in blocks' /\ next # at
  BY <1>2, VoteKeepsWay, AncestorIrreflexive
<1>5. Pending(b)' => Pending(b)
  <2>1. SUFFICES ASSUME NEW a \in blocks', shouldFalter'[a], a = b \/ a \in Ancestors[b] PROVE Pending(b)
    BY DEF Pending
  <2>2. CASE shouldFalter[a]
    BY <1>1, <2>1, <2>2 DEF Pending
  <2>3. CASE ~shouldFalter[a]
    <3>1. a \in children[at] /\ (shouldFalter[at] \/ a # next)
      BY <1>1, <2>1, <2>3 DEF Falters
    <3>2. a = next
      <4>1. a \in Blocks \ {Genesis} /\ Parent[a] = at /\ Parent[next] = at
        BY <3>1, ChildrenInTree
      <4> QED
        BY <1>2, <2>1, <4>1, OneChildOnTheWay
    <3> QED
      BY <1>3, <3>1, <3>2 DEF Pending
  <2> QED
    BY <2>2, <2>3
<1>6. Pending(b) => Pending(b)'
  <2>1. SUFFICES ASSUME NEW a \in blocks, shouldFalter[a], a = b \/ a \in Ancestors[b] PROVE Pending(b)'
    BY DEF Pending
  <2>2. CASE a = at
    <3>1. shouldFalter'[next]
      BY <1>1, <1>4, <2>1, <2>2 DEF Falters
    <3> QED
      BY <1>4, <3>1 DEF Pending
  <2>3. CASE a # at
    <3>1. a \in blocks'
      BY <2>1, <2>3, VoteKeepsWay
    <3> QED
      BY <1>1, <2>1, <2>3, <3>1 DEF Pending
  <2> QED
    BY <2>2, <2>3
<1>7. sb'[b] = sb[b] /\ children'[b] = children[b]
  BY <1>1, <1>3
<1>8. Caught(b)' = Caught(b) /\ VoteBag(votes, b)' = VoteBag(votes, b)
  BY <1>5, <1>6, <1>7 DEF Caught, VoteBag
<1>9. Reaction(Caught(b), votes, b)' = Reaction(Caught(b), votes, b)
  <2>1. /\ SbPolls(Caught(b), VoteBag(votes, b))' = SbPolls(Caught(b), VoteBag(votes, b))
        /\ SbFalter(Caught(b))' = SbFalter(Caught(b))
        /\ VotesBelow(votes, b)' = VotesBelow(votes, b)
    BY <1>8 DEF VotesBelow
  <2> QED
    BY <2>1, SMT DEF Reaction
<1>10. ToVisit(b) /\ ToVisit(b)'
  BY <1>3 DEF ToVisit
<1>11. EagerOf(b)
  BY <1>1 DEF EagerInv
<1> QED
  BY <1>7, <1>9, <1>10, <1>11 DEF EagerOf

\* After the iteration: a block below another child than the next one, or below any
\* if there is no next one, has put off the unsuccessful poll.
LEMMA EagerBeside ==
    ASSUME TreeInv, EagerInv, pc = "vote", at \in blocks, NEW next,
           NEW inst \in SbStates, SbPreference(inst) \in children[at], VoteWith(at, next, inst),
           UNCHANGED eager,
           NEW c \in children[at] \ {next}, NEW b \in blocks', c = b \/ c \in Ancestors[b],
           ~(Cardinality(VotesBelow(votes, b)) >= Alpha), ~ToVisit(b)'
    PROVE  EagerOf(b)'
<1>1. /\ blocks' \subseteq blocks /\ blocks \subseteq Blocks
      /\ \A x \in blocks' :
            /\ sb'[x] = IF x = at THEN inst ELSE sb[x]
            /\ shouldFalter'[x] <=> (x # at /\ shouldFalter[x]) \/ Falters(at, next, x)
  BY VoteSurvivors DEF TreeInv, TypeOK
<1>2. c \in blocks /\ c \in Blocks /\ at \in Ancestors[c] /\ at \in Blocks /\ b \in Blocks
  BY <1>1, ChildrenInTree, SMT
<1>3. at \in Ancestors[b] /\ b # at /\ c # at
  BY <1>2, AncestorAssumption, AncestorIrreflexive
<1>4. c \in blocks' /\ shouldFalter'[c]
  BY <1>1, <1>2, <1>3, VoteKeepsWay DEF Falters
<1>5. Pending(b)'
  BY <1>4 DEF Pending
<1>6. sb'[b] = sb[b]
  BY <1>1, <1>3
<1>7. CASE sb[b] = NoSb
  BY <1>1, <1>6, <1>7 DEF EagerOf, EagerInv
<1>8. CASE sb[b] # NoSb
  <2>1. ToVisit(b)
    BY <1>3 DEF ToVisit
  <2>2. eager[b] \in SbStates /\ SbSame(eager[b], SbFalter(Caught(b)))
    BY <1>1, <1>8, <2>1 DEF EagerInv, EagerOf, Reaction
  <2>3. /\ sb[b] \in SbStates /\ SbFalter(sb[b]) \in SbStates
        /\ Caught(b) \in SbStates /\ SbFalter(Caught(b)) \in SbStates
    BY <1>1, <1>8, PreferenceIsChild, CaughtState, SnowballAssumption
  <2>4. SbSame(SbFalter(Caught(b)), SbFalter(sb[b]))
    BY <2>3, FalterAssumption, SameAssumption DEF Caught
  <2>5. SbSame(eager[b], SbFalter(sb[b]))
    BY <2>2, <2>3, <2>4, SameTransitive
  <2>6. Caught(b)' = SbFalter(sb[b])
    BY <1>5, <1>6 DEF Caught
  <2> QED
    BY <1>6, <1>8, <2>2, <2>5, <2>6 DEF EagerOf
<1> QED
  BY <1>7, <1>8

\* After the iteration: nothing changed for a block that is not below at.
LEMMA EagerElsewhere ==
    ASSUME TreeInv, EagerInv, pc = "vote", at \in blocks, NEW next,
           NEW inst \in SbStates, SbPreference(inst) \in children[at], VoteWith(at, next, inst),
           UNCHANGED eager,
           NEW b \in blocks', b # at, at \notin Ancestors[b], ~ToVisit(b)'
    PROVE  EagerOf(b)'
<1>1. /\ blocks' \subseteq blocks /\ blocks \subseteq Blocks
      /\ \A x \in blocks' :
            /\ sb'[x] = IF x = at THEN inst ELSE sb[x]
            /\ shouldFalter'[x] <=> (x # at /\ shouldFalter[x]) \/ Falters(at, next, x)
  BY VoteSurvivors DEF TreeInv, TypeOK
<1>2. blocks' = blocks
  <2>1. at # head
    BY <1>1 DEF TreeInv, TreeIsRooted
  <2> QED
    BY <2>1, VoteSurvivors
<1>3. ASSUME NEW a, a = b \/ a \in Ancestors[b]
      PROVE  (a \in blocks' /\ shouldFalter'[a]) <=> (a \in blocks /\ shouldFalter[a])
  <2>1. a # at
    BY <1>3
  <2>2. a \notin children[at]
    <3>1. SUFFICES ASSUME a \in children[at] PROVE FALSE
      OBVIOUS
    <3>2. at \in Ancestors[a]
      BY <3>1, ChildrenInTree, SMT
    <3> QED
      BY <1>1, <1>3, <3>2, AncestorAssumption
  <2> QED
    BY <1>1, <1>2, <2>1, <2>2 DEF Falters
<1>4. Pending(b)' = Pending(b)
  BY <1>3, PendingSame
<1>5. sb'[b] = sb[b] /\ Caught(b)' = Caught(b) /\ ~ToVisit(b)
  BY <1>1, <1>4 DEF Caught, ToVisit
<1> QED
  BY <1>1, <1>5 DEF EagerInv, EagerOf

\* One iteration of vote keeps every instance equivalent to the reference.
LEMMA VoteWithEager ==
    ASSUME Deterministic, TreeInv, VoteBase, EagerInv, pc = "vote", at \in blocks, sb[at] # NoSb,
           NEW inst \in SbPolls(IF shouldFalter[at] THEN SbFalter(sb[at]) ELSE sb[at], VoteBag(votes, at)),
           NEW next, VoteWith(at, next, inst), at' = next, UNCHANGED eager,
           \/ next \in NextOnStack(at) /\ pc' = "vote" /\ votes' = votes
           \/ NextOnStack(at) = {} /\ next = None /\ pc' # "vote"
    PROVE  (\A b \in blocks : EagerOf(b))' /\ LoopClean'
<1>1. /\ inst \in SbStates /\ SbPreference(inst) \in children[at] /\ LoopClean
      /\ blocks \subseteq Blocks /\ None \notin Blocks
  BY PolledInstance, BlockAssumption DEF EagerInv, TreeInv, TypeOK
<1>2. /\ blocks' \subseteq blocks
      /\ \A x \in blocks' : sb'[x] = IF x = at THEN inst ELSE sb[x]
      /\ \/ blocks' = blocks
         \/ at = head /\ \E q \in children[at] :
               \A b \in blocks : b \in blocks' <=> b = q \/ q \in Ancestors[b]
  BY <1>1, VoteSurvivors
<1>3. \A a \in blocks' : a = at \/ a \in Ancestors[at] => ~shouldFalter'[a]
  BY <1>1, ClearAbove
<1>4. \A x \in children[at] : /\ x \in Blocks \ {Genesis} /\ Parent[x] = at /\ x \in blocks
                             /\ Ancestors[x] = {at} \cup Ancestors[at] /\ x # at
  BY <1>1, ChildrenInTree, AncestorIrreflexive, SMT
<1>5. next \in NextOnStack(at) => next \in children[at]
  BY DEF NextOnStack
<1>6. ASSUME NEW b \in blocks', ToVisit(b)'
      PROVE  next \in NextOnStack(at) /\ (next = b \/ next \in Ancestors[b]) /\ at \in Ancestors[b]
  <2>1. next \in NextOnStack(at) /\ (next = b \/ next \in Ancestors[b])
    BY <1>6 DEF ToVisit
  <2>2. at \in Ancestors[next] /\ b \in Blocks
    BY <1>1, <1>2, <1>4, <1>5, <2>1
  <2> QED
    BY <2>1, <2>2, AncestorAssumption
<1>7. ASSUME NEW b \in blocks' PROVE EagerOf(b)'
  <2>1. b \in Blocks /\ b \in blocks
    BY <1>1, <1>2
  <2>2. CASE b = at
    <3>1. ~ToVisit(b)'
      BY <1>6, <2>1, <2>2, AncestorIrreflexive
    <3>2. ~Pending(b)'
      BY <1>3, <2>2 DEF Pending
    <3>3. sb'[b] = inst /\ Caught(b)' = inst
      BY <1>2, <2>2, <3>2 DEF Caught
    <3>4. eager[b] \in SbStates /\ SbSame(eager[b], inst)
      BY <2>2, VotedEager
    <3>5. inst # NoSb
      BY <1>1, SnowballAssumption
    <3> QED
      BY <3>1, <3>3, <3>4, <3>5 DEF EagerOf
  <2>3. CASE at \in Ancestors[b]
    <3>1. PICK c \in children[at] : c = b \/ c \in Ancestors[b]
      BY <2>1, <2>3, ChildOnTheWay
    <3>2. CASE c = next
      <4>1. next \in NextOnStack(at) /\ pc' = "vote" /\ votes' = votes
        BY <1>1, <1>4, <3>2
      <4> QED
        BY <1>1, <1>5, <3>1, <3>2, <4>1, EagerBelowNext
    <3>3. CASE c # next
      <4>1. ~(Cardinality(VotesBelow(votes, b)) >= Alpha)
        BY <2>1, <3>1, <3>3, BesideTheWay
      <4>2. ~ToVisit(b)'
        <5>1. SUFFICES ASSUME ToVisit(b)' PROVE FALSE
          OBVIOUS
        <5>2. next \in children[at] /\ (next = b \/ next \in Ancestors[b])
          BY <1>5, <1>6, <5>1
        <5> QED
          BY <1>4, <2>1, <3>1, <3>3, <5>2, OneChildOnTheWay
      <4> QED
        BY <1>1, <3>1, <3>3, <4>1, <4>2, EagerBeside
    <3> QED
      BY <3>2, <3>3
  <2>4. CASE b # at /\ at \notin Ancestors[b]
    BY <1>1, <1>6, <2>4, EagerElsewhere
  <2> QED
    BY <2>2, <2>3, <2>4
<1>8. LoopClean'
  <2>1. SUFFICES ASSUME pc' = "vote" PROVE LoopClean'
    BY DEF LoopClean
  <2>2. next \in children[at]
    BY <1>5, <2>1
  <2>3. \A a \in blocks' : a \in Ancestors[next] => ~shouldFalter'[a]
    BY <1>3, <1>4, <2>2
  <2>4. ASSUME next \notin blocks', NEW b \in blocks', next \in Ancestors[b] PROVE FALSE
    BY <1>1, <1>4, <2>2, <2>4, VoteKeepsWay
  <2> QED
    BY <2>3, <2>4 DEF LoopClean
<1> QED
  BY <1>7, <1>8

LEMMA VoteEagerStep ==
    ASSUME Deterministic, Inv, EagerInv, Vote, UNCHANGED eager
    PROVE  EagerInv'
<1>1. TreeInv /\ VoteBase /\ pc = "vote" /\ at \in blocks /\ sb[at] # NoSb
  BY VoteCases DEF Vote
<1> DEFINE Polled == SbPolls(IF shouldFalter[at] THEN SbFalter(sb[at]) ELSE sb[at], VoteBag(votes, at))
<1>2. PICK next : \E inst \in Polled :
        /\ VoteWith(at, next, inst) /\ at' = next
        /\ \/ next \in NextOnStack(at) /\ pc' = "vote" /\ votes' = votes
           \/ NextOnStack(at) = {} /\ next = None /\ pc' # "vote"
  <2>1. CASE \E next \in NextOnStack(at) : VoteOn(at, next) /\ at' = next /\ UNCHANGED <<pc, votes>>
    BY <1>1, <2>1 DEF VoteOn
  <2>2. CASE /\ NextOnStack(at) = {} /\ VoteOn(at, None) /\ at' = None /\ pc' = "settle"
    <3>1. pc' # "vote"
      BY <2>2, SMT
    <3> QED
      BY <2>2, <3>1 DEF VoteOn
  <2> QED
    BY <2>1, <2>2 DEF Vote
<1>3. (\A b \in blocks : EagerOf(b))' /\ LoopClean'
  BY <1>1, <1>2, VoteWithEager
<1>4. /\ \A b \in Blocks : status[b] # "Processing" => status'[b] = status[b]
      /\ \A b \in blocks \ blocks' : status'[b] # "Processing"
  BY StepFinal DEF Next
<1>5. \A b \in Blocks \ blocks' : status'[b] = "Processing" => eager'[b] = NoSb
  BY <1>4 DEF EagerInv
<1> QED
  BY <1>3, <1>5 DEF EagerInv

\* Every step keeps the invariant.
LEMMA EagerStep == Deterministic /\ Inv /\ EagerInv /\ [NextEager]_allVars => Inv' /\ EagerInv'
<1> SUFFICES ASSUME Deterministic, Inv, EagerInv, [NextEager]_allVars PROVE Inv' /\ EagerInv'
  OBVIOUS
<1>1. ASSUME NEW b \in Blocks, AddEager(b) PROVE Inv' /\ EagerInv'
  BY <1>1, AddEagerStep, AddInv DEF AddEager
<1>2. ASSUME NEW vs \in AnyVotes, Poll(vs) PROVE Inv' /\ EagerInv'
  BY <1>2, PollEagerStep, RecordPollInv DEF Poll
<1>3. CASE StrayPoll
  BY <1>2, <1>3 DEF StrayPoll
<1>4. CASE UnanimousPoll
  <2>1. PICK vs \in {ValidVotes([s \in Slots |-> tail], blocks, head)} : Poll(vs)
    BY <1>4 DEF UnanimousPoll
  <2>2. [s \in Slots |-> tail] \in [Slots -> Blocks \cup {None}]
    BY DEF Inv, TreeInv, TypeOK
  <2>3. vs \in AnyVotes
    BY <2>1, <2>2 DEF AnyVotes
  <2> QED
    BY <1>2, <2>1, <2>3
<1>5. CASE Continue
  <2>1. Inv'
    BY <1>5, VoteStep, BreakStep, SettleStep DEF Continue
  <2>2. EagerInv'
    BY <1>5, VoteEagerStep, SettleEagerStep DEF Continue
  <2> QED
    BY <2>1, <2>2
<1>6. CASE UNCHANGED allVars
  <2>1. UNCHANGED vars /\ UNCHANGED eager
    BY <1>6 DEF allVars
  <2>2. UNCHANGED <<blocks, children, sb, shouldFalter, status, pc, votes, at>>
    BY <2>1, SMTT(30) DEF vars, treeVars, pollVars
  <2>3. Inv'
    BY <2>1, NextInv
  <2>4. \A b : /\ ToVisit(b)' = ToVisit(b) /\ Caught(b)' = Caught(b)
               /\ VoteBag(votes, b)' = VoteBag(votes, b) /\ VotesBelow(votes, b)' = VotesBelow(votes, b)
    BY <2>2 DEF ToVisit, Caught, Pending, VoteBag, VotesThrough, VotesBelow
  <2>5. ASSUME NEW b PROVE Reaction(Caught(b), votes, b)' = Reaction(Caught(b), votes, b)
    <3>1. /\ SbPolls(Caught(b), VoteBag(votes, b))' = SbPolls(Caught(b), VoteBag(votes, b))
          /\ SbFalter(Caught(b))' = SbFalter(Caught(b))
      BY <2>4
    <3> QED
      BY <2>4, <3>1, SMT DEF Reaction
  <2>6. (\A b \in blocks : EagerOf(b))' /\ LoopClean'
    BY <2>1, <2>2, <2>4, <2>5 DEF EagerInv, EagerOf, LoopClean
  <2> QED
    BY <2>1, <2>2, <2>3, <2>6 DEF EagerInv
<1> QED
  BY <1>1, <1>3, <1>4, <1>5, <1>6 DEF NextEager

\* For every kind of snowball instance that keeps the contract and whose polls have
\* one outcome, RecordPoll may put off what it does with shouldFalter.
THEOREM FaltersDeferred == Deterministic => (SpecEager => []FalterDeferred)
<1>1. InitEager => Inv /\ EagerInv
  BY EagerInit, InitInv DEF InitEager
<1>2. Inv /\ EagerInv => FalterDeferred
  <2> SUFFICES ASSUME Inv, EagerInv, pc = "idle", NEW b \in blocks
               PROVE  /\ sb[b] = NoSb <=> eager[b] = NoSb
                      /\ sb[b] # NoSb =>
                            /\ SbPreference(sb[b]) = SbPreference(eager[b])
                            /\ SbFinalized(sb[b]) = SbFinalized(eager[b])
    BY DEF FalterDeferred
  <2>1. TreeInv /\ ~ToVisit(b)
    BY SMT DEF Inv, ToVisit
  <2>2. CASE sb[b] = NoSb
    BY <2>2 DEF EagerInv, EagerOf
  <2>3. CASE sb[b] # NoSb
    <3>1. eager[b] \in SbStates /\ SbSame(eager[b], Caught(b)) /\ eager[b] # NoSb
      BY <2>1, <2>3, SnowballAssumption DEF EagerInv, EagerOf
    <3> QED
      BY <2>1, <2>3, <3>1, CaughtState, SameFacts
  <2> QED
    BY <2>2, <2>3
<1> SUFFICES ASSUME Deterministic PROVE SpecEager => []FalterDeferred
  OBVIOUS
<1>3. Inv /\ EagerInv /\ [NextEager]_allVars => Inv' /\ EagerInv'
  BY EagerStep
<1> QED
  BY <1>1, <1>2, <1>3, PTL DEF SpecEager
=============================================================================
