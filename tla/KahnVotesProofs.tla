-------------------------- MODULE KahnVotesProofs ---------------------------
(***************************************************************************)
(* What is proved of KahnVotes, for every tree of blocks, every bag of      *)
(* votes, and every order of votes and leaves.                              *)
(***************************************************************************)
EXTENDS KahnVotes, FiniteSetTheorems, TLAPS

Node == [seen : BOOLEAN, inDegree : Int, votes : [Blocks -> Nat], size : Nat]

\* The keys of kahnNodes.
Seen == {b \in Blocks : kahnNodes[b].seen}

Counting == pc \in {"count", "climb"}

\* The blocks that were popped from leaves.
Done == {b \in Seen : ~Counting /\ kahnNodes[b].inDegree = 0 /\ b \notin leaves}

Kids(p) == {c \in blocks \ {head} : Parent[c] = p}
OpenKids(p) == {c \in Seen \ Done : c \in Kids(p)}
TwiceKids(p) == {c \in twice : c \in Kids(p)}

StateType ==
    /\ head \in blocks /\ blocks \subseteq Blocks
    /\ \A b \in blocks \ {head} : head \in Ancestors[b] /\ Parent[b] \in blocks
    /\ votes \in [Slots -> Blocks \cup {None}]
    /\ kahnNodes \in [Blocks -> Node]
    /\ voteStack \in Seq([parentID : Blocks, votes : [Blocks -> Nat]])
    /\ pc \in {"count", "climb", "push", "done"}
    /\ ~Counting => todo = {}
    /\ pc = "climb" => at \in Seen \ {head}
    /\ pc = "done" => leaves = {}

\* The keys are a subtree of the tree.  Until all votes are counted, the leaves are
\* the blocks that no edge leads to.
SeenInv ==
    /\ Seen \subseteq blocks /\ IsFiniteSet(Seen)
    /\ \E h \in Nat : \A b \in Seen : Height[b] <= h
    /\ \A b \in Seen \ {head} : Parent[b] \in Seen \/ (pc = "climb" /\ at = b)
    /\ leaves \subseteq Seen /\ twice \subseteq Seen \ {head}
    /\ \A b \in leaves : kahnNodes[b].inDegree = 0
    /\ \A b \in blocks : kahnNodes[b].inDegree # 0 => b \in Seen
    /\ Counting => /\ \A b \in Seen : kahnNodes[b].inDegree = 0 => b \in leaves
                   /\ leaves \cap twice = {}

\* inDegree counts the edges from keys that were not popped, and once more the edges
\* that were counted twice; the edge from at is about to be counted.
EdgeInv ==
    \A p \in blocks :
        kahnNodes[p].inDegree + (IF pc = "climb" /\ Parent[at] = p THEN 1 ELSE 0)
            = Cardinality(OpenKids(p)) + Cardinality(TwiceKids(p))

\* Every vote that was counted has put its parent among the keys, and every key is
\* above some vote.  A leaf of the first phase is the parent of a vote.
ReachInv ==
    /\ \A v \in todo : \E s \in Slots : votes[s] = v
    /\ \A s \in Slots : Valid[s] # None /\ Valid[s] \notin todo => Parent[Valid[s]] \in Seen
    /\ \A b \in Seen : \E s \in Slots : Valid[s] # None /\ b \in Ancestors[Valid[s]]
    /\ Counting => \A b \in leaves : \E s \in Slots : Valid[s] # None /\ Parent[Valid[s]] = b
    /\ twice \subseteq CountedTwice(Valid, blocks, head)

\* The votes that have arrived at block p through its child c.
Arrived(p, c) ==
    {s \in Slots : /\ c \in Kids(p)
                   /\ \/ Valid[s] = c /\ c \notin todo
                      \/ c \in Done /\ s \in VotesBelow(Valid, c)}
ArrivedAt(p) == {s \in Slots : \E c \in Kids(p) : s \in Arrived(p, c)}

BagInv ==
    \A p \in blocks :
        /\ \A c \in Blocks : kahnNodes[p].votes[c] = Cardinality(Arrived(p, c))
        /\ kahnNodes[p].size = Cardinality(ArrivedAt(p))

\* What the stack holds for block p.
VotesOf(p) ==
    [c \in Blocks |-> IF c \in blocks /\ c # head /\ Parent[c] = p
                      THEN Cardinality(VotesThrough(Valid, c)) ELSE 0]

\* Below a popped block all keys were popped and no edge was counted twice.
DoneInv ==
    /\ \A b \in Done, x \in Seen : b \in Ancestors[x] => x \in Done
    /\ \A b \in Done, n \in twice : b \notin Ancestors[n]

StackInv ==
    /\ \A i \in 1..Len(voteStack) :
          /\ voteStack[i].parentID \in Done
          /\ Cardinality(VotesBelow(Valid, voteStack[i].parentID)) >= Alpha
          /\ voteStack[i].votes = VotesOf(voteStack[i].parentID)
          /\ \A j \in 1..(i - 1) : voteStack[i].parentID \in Ancestors[voteStack[j].parentID]
    /\ \A b \in Done : Cardinality(VotesBelow(Valid, b)) >= Alpha => b \in StackIDs

Inv == StateType /\ SeenInv /\ EdgeInv /\ ReachInv /\ BagInv /\ DoneInv /\ StackInv

-----------------------------------------------------------------------------
(* The tree of all blocks *)

USE Zenon

\* A set of numbers has a least element.
LEMMA LeastNumber ==
    ASSUME NEW S \in SUBSET Nat, S # {}
    PROVE  \E m \in S : \A n \in S : m <= n
<1> DEFINE R == OpToRel(<, Nat)
<1>1. IsWellFoundedOn(R, Nat)
  BY NatLessThanWellFounded, Zenon
<1>2. \A x, y \in Nat : <<y, x>> \in R <=> y < x
  BY DEF OpToRel
<1> HIDE DEF R
<1>3. PICK m \in S : \A n \in S : ~(<<n, m>> \in R)
  BY <1>1, WFMin
<1>4. \A n \in S : ~(n < m)
  BY <1>2, <1>3
<1> QED
  BY <1>4, SMT

LEMMA ParentFacts ==
    ASSUME NEW b \in Blocks \ {Genesis}
    PROVE  /\ Parent[b] \in Blocks
           /\ Ancestors[b] = {Parent[b]} \cup Ancestors[Parent[b]]
           /\ Height[b] = Height[Parent[b]] + 1
           /\ Height[Parent[b]] < Height[b]
<1>1. Parent[b] \in Blocks /\ Height[b] = Height[Parent[b]] + 1 /\ Height[Parent[b]] \in Nat
  BY BlockAssumption
<1>2. Ancestors[b] = {Parent[b]} \cup Ancestors[Parent[b]]
  BY AncestorAssumption
<1> QED
  BY <1>1, <1>2, SMT

LEMMA AncestorFacts ==
    ASSUME NEW b \in Blocks, NEW a \in Ancestors[b]
    PROVE  /\ a \in Blocks /\ b \in Blocks \ {Genesis}
           /\ Ancestors[a] \subseteq Ancestors[b]
           /\ Height[a] < Height[b] /\ Height[a] \in Nat /\ Height[b] \in Nat
           /\ \A x \in Ancestors[b] : Height[x] = Height[a] => x = a
           /\ \E c \in Blocks \ {Genesis} : Parent[c] = a /\ (c = b \/ c \in Ancestors[b])
BY BlockAssumption, AncestorAssumption

LEMMA NotOwnAncestor ==
    ASSUME NEW b \in Blocks
    PROVE  /\ b \notin Ancestors[b]
           /\ \A a \in Ancestors[b] : b \notin Ancestors[a]
<1>1. \A a \in Ancestors[b] : Height[a] < Height[b] /\ Height[a] \in Nat /\ Height[b] \in Nat /\ a \in Blocks
  BY AncestorFacts
<1>2. \A a \in Ancestors[b] : b \in Ancestors[a] => Height[b] < Height[a]
  BY <1>1, AncestorFacts
<1> QED
  BY <1>1, <1>2, SMT

\* A set that goes on to the parent until it meets x holds x.
LEMMA UpTo ==
    ASSUME NEW S \in SUBSET Blocks, NEW x, \A y \in S : x \in Ancestors[y] => Parent[y] \in S,
           NEW b \in S, x \in Ancestors[b]
    PROVE  x \in S
<1> SUFFICES ASSUME x \notin S
             PROVE  FALSE
  OBVIOUS
<1> DEFINE below == {y \in S : x \in Ancestors[y]}
           heights == {Height[y] : y \in below}
<1>1. heights \in SUBSET Nat /\ heights # {}
  BY BlockAssumption, SMT
<1> HIDE DEF heights
<1>2. PICK h \in heights : \A n \in heights : h <= n
  BY <1>1, LeastNumber
<1>3. PICK y \in below : h = Height[y]
  BY <1>2 DEF heights
<1>4. y \in Blocks \ {Genesis} /\ Parent[y] \in S /\ x \in Ancestors[y]
  BY <1>3, AncestorFacts
<1>5. x \in Ancestors[Parent[y]]
  BY <1>4, ParentFacts
<1>6. Height[Parent[y]] \in heights
  BY <1>4, <1>5 DEF heights
<1>7. Height[y] <= Height[Parent[y]] /\ Height[Parent[y]] < Height[y] /\ Height[y] \in Nat /\ Height[Parent[y]] \in Nat
  BY <1>1, <1>2, <1>3, <1>4, <1>6, ParentFacts, BlockAssumption
<1> QED
  BY <1>7, SMT

\* Two ancestors of a block are on one chain.
LEMMA AncestorChain ==
    ASSUME NEW b \in Blocks, NEW a \in Ancestors[b], NEW x \in Ancestors[b], a # x
    PROVE  a \in Ancestors[x] \/ x \in Ancestors[a]
<1>1. /\ a \in Blocks /\ x \in Blocks /\ Height[a] \in Nat /\ Height[x] \in Nat /\ Height[a] # Height[x]
  BY AncestorFacts
<1>2. ASSUME NEW y \in Ancestors[b], NEW z \in Ancestors[b], Height[y] < Height[z]
      PROVE  y \in Ancestors[z]
  <2> DEFINE S == {w \in Blocks : y \in Ancestors[w]}
  <2>1. y \in Blocks /\ z \in Blocks /\ Height[y] \in Nat /\ Height[z] \in Nat
    BY AncestorFacts
  <2>2. ASSUME NEW w \in S, z \in Ancestors[w]
        PROVE  Parent[w] \in S
    <3>1. /\ w \in Blocks \ {Genesis} /\ Parent[w] \in Blocks
          /\ Ancestors[w] = {Parent[w]} \cup Ancestors[Parent[w]]
      BY <2>2, AncestorFacts, ParentFacts
    <3>2. y # Parent[w]
      <4>1. y = Parent[w] => z = y \/ z \in Ancestors[y]
        BY <2>2, <3>1
      <4>2. z = y \/ z \in Ancestors[y] => ~(Height[y] < Height[z])
        <5>1. z \in Ancestors[y] => Height[z] < Height[y]
          BY <2>1, AncestorFacts
        <5> QED
          BY <2>1, <5>1, SMT
      <4> QED
        BY <1>2, <4>1, <4>2
    <3> QED
      BY <3>1, <3>2
  <2>3. S \in SUBSET Blocks /\ b \in S
    OBVIOUS
  <2> HIDE DEF S
  <2>4. z \in S
    BY <2>2, <2>3, UpTo
  <2> QED
    BY <2>4 DEF S
<1>3. Height[a] < Height[x] \/ Height[x] < Height[a]
  BY <1>1, SMT
<1> QED
  BY <1>2, <1>3

-----------------------------------------------------------------------------
(* The tree of consensus *)

LEMMA TreeFacts ==
    ASSUME StateType, NEW b \in blocks
    PROVE  /\ b \in Blocks
           /\ b = head \/ head \in Ancestors[b]
           /\ b # head => /\ b \in Blocks \ {Genesis} /\ Parent[b] \in blocks /\ Parent[b] \in Ancestors[b]
                          /\ Ancestors[b] = {Parent[b]} \cup Ancestors[Parent[b]]
<1>1. b \in Blocks /\ (b # head => head \in Ancestors[b] /\ Parent[b] \in blocks)
  BY DEF StateType
<1>2. b # head => b \in Blocks \ {Genesis}
  BY <1>1, AncestorFacts
<1> QED
  BY <1>1, <1>2, ParentFacts

\* A subtree of it that is closed upwards holds what is between its blocks and head.
LEMMA Between ==
    ASSUME StateType, NEW S \in SUBSET blocks, \A y \in S \ {head} : Parent[y] \in S,
           NEW b \in S, NEW x \in Ancestors[b], x = head \/ head \in Ancestors[x]
    PROVE  x \in S
<1>1. S \in SUBSET Blocks /\ head \in Blocks
  BY DEF StateType
<1>2. x \notin Ancestors[head]
  BY <1>1, NotOwnAncestor
<1> QED
  BY <1>1, <1>2, UpTo

\* The child of b on the way to v.
LEMMA KidTowards ==
    ASSUME StateType, NEW b \in blocks, NEW v \in blocks, b \in Ancestors[v]
    PROVE  \E c \in Kids(b) : c = v \/ c \in Ancestors[v]
<1>1. v \in Blocks /\ b \in Blocks /\ (b = head \/ head \in Ancestors[b])
  BY TreeFacts
<1>2. PICK c \in Blocks \ {Genesis} : Parent[c] = b /\ (c = v \/ c \in Ancestors[v])
  BY <1>1, AncestorFacts
<1>3. head \in Ancestors[c]
  BY <1>1, <1>2, ParentFacts
<1>4. c # head
  BY <1>2, <1>3, NotOwnAncestor
<1>5. \A y \in blocks \ {head} : Parent[y] \in blocks
  BY DEF StateType
<1>6. c \in blocks
  BY <1>2, <1>3, <1>5, Between
<1> QED
  BY <1>2, <1>4, <1>6 DEF Kids

LEMMA KidFacts ==
    ASSUME StateType, NEW p \in blocks, NEW c \in Kids(p)
    PROVE  /\ c \in blocks \ {head} /\ c \in Blocks \ {Genesis} /\ Parent[c] = p /\ c # p
           /\ p \in Ancestors[c] /\ Height[c] = Height[p] + 1 /\ Height[p] \in Nat /\ Height[c] \in Nat
<1>1. c \in blocks \ {head} /\ Parent[c] = p /\ c \in Blocks \ {Genesis} /\ p \in Ancestors[c] /\ p \in Blocks
  BY TreeFacts DEF Kids
<1> QED
  BY <1>1, ParentFacts, AncestorFacts, NotOwnAncestor

\* There is only one.
LEMMA OneKid ==
    ASSUME StateType, NEW p \in blocks, NEW c \in Kids(p), NEW d \in Kids(p), NEW v \in Blocks,
           c = v \/ c \in Ancestors[v], d = v \/ d \in Ancestors[v]
    PROVE  c = d
<1>1. Height[c] = Height[d] /\ Height[c] \in Nat
  BY KidFacts
<1>2. c \in Ancestors[v] /\ d \in Ancestors[v] => c = d
  BY <1>1, AncestorFacts
<1>3. (c = v /\ d \in Ancestors[v]) \/ (d = v /\ c \in Ancestors[v]) => FALSE
  <2>1. c = v /\ d \in Ancestors[v] => Height[d] < Height[c]
    BY AncestorFacts
  <2>2. d = v /\ c \in Ancestors[v] => Height[c] < Height[d]
    BY AncestorFacts
  <2> QED
    BY <1>1, <2>1, <2>2, SMT
<1> QED
  BY <1>2, <1>3

LEMMA ValidFacts ==
    ASSUME StateType, NEW s \in Slots
    PROVE  /\ Valid[s] # None => Valid[s] \in blocks \ {head} /\ Valid[s] = votes[s]
           /\ votes[s] \in blocks \ {head} => Valid[s] = votes[s]
BY BlockAssumption DEF Valid, ValidVotes, StateType

-----------------------------------------------------------------------------
(* Sets of slots *)

LEMMA SlotSets ==
    ASSUME NEW S \in SUBSET Slots
    PROVE  IsFiniteSet(S) /\ Cardinality(S) \in Nat /\ Cardinality(S) <= K
<1>1. IsFiniteSet(Slots) /\ Cardinality(Slots) = K
  BY FS_Interval, ParameterAssumption, SMT DEF Slots
<1> QED
  BY <1>1, FS_Subset, FS_CardinalityType

LEMMA DisjointSlots ==
    ASSUME NEW S \in SUBSET Slots, NEW T \in SUBSET Slots, S \cap T = {}
    PROVE  Cardinality(S \cup T) = Cardinality(S) + Cardinality(T)
<1>1. IsFiniteSet(S) /\ IsFiniteSet(T) /\ Cardinality(S) \in Nat /\ Cardinality(T) \in Nat
  BY SlotSets
<1>2. Cardinality(S \cup T) = Cardinality(S) + Cardinality(T) - Cardinality(S \cap T)
  BY <1>1, FS_Union
<1>3. Cardinality(S \cap T) = 0
  BY FS_EmptySet
<1> QED
  BY <1>1, <1>2, <1>3, SMT

\* Two sets of alpha slots share one.
LEMMA Majorities ==
    ASSUME NEW S \in SUBSET Slots, NEW T \in SUBSET Slots,
           Cardinality(S) >= Alpha, Cardinality(T) >= Alpha
    PROVE  \E s \in Slots : s \in S /\ s \in T
<1> SUFFICES ASSUME S \cap T = {}
             PROVE  FALSE
  OBVIOUS
<1>1. S \cup T \in SUBSET Slots
  OBVIOUS
<1>2. /\ Cardinality(S) \in Nat /\ Cardinality(T) \in Nat
      /\ Cardinality(S) + Cardinality(T) <= K
  BY <1>1, DisjointSlots, SlotSets
<1> QED
  BY <1>2, ParameterAssumption, SMT DEF Verify

-----------------------------------------------------------------------------
(* A block that no open edge leads to *)

LEMMA OpenFacts ==
    ASSUME SeenInv, NEW p
    PROVE  /\ IsFiniteSet(OpenKids(p)) /\ Cardinality(OpenKids(p)) \in Nat
           /\ IsFiniteSet(TwiceKids(p)) /\ Cardinality(TwiceKids(p)) \in Nat
<1>1. IsFiniteSet(Seen) /\ OpenKids(p) \in SUBSET Seen /\ TwiceKids(p) \in SUBSET Seen
  BY DEF SeenInv, OpenKids, TwiceKids
<1> QED
  BY <1>1, FS_Subset, FS_CardinalityType

LEMMA NoOpenEdge ==
    ASSUME StateType, SeenInv, EdgeInv, pc # "climb", NEW b \in blocks, kahnNodes[b].inDegree = 0
    PROVE  OpenKids(b) = {} /\ TwiceKids(b) = {}
<1>1. 0 + 0 = Cardinality(OpenKids(b)) + Cardinality(TwiceKids(b))
  BY DEF EdgeInv
<1>2. Cardinality(OpenKids(b)) = 0 /\ Cardinality(TwiceKids(b)) = 0
  BY <1>1, OpenFacts, SMT
<1> QED
  BY <1>2, OpenFacts, FS_EmptySet

\* All blocks above the votes are keys.
LEMMA AllSeen ==
    ASSUME StateType, SeenInv, ReachInv, ~Counting
    PROVE  /\ \A x \in Seen, c \in blocks : c \in Ancestors[x] => c \in Seen
           /\ \A s \in Slots, c \in blocks : Valid[s] # None /\ c \in Ancestors[Valid[s]] => c \in Seen
<1>1. pc # "climb" /\ todo = {}
  BY DEF StateType, Counting
<1>2. Seen \in SUBSET blocks /\ \A y \in Seen \ {head} : Parent[y] \in Seen
  BY <1>1 DEF SeenInv
<1>3. ASSUME NEW x \in Seen, NEW c \in blocks, c \in Ancestors[x]
      PROVE  c \in Seen
  BY <1>2, <1>3, TreeFacts, Between
<1>4. ASSUME NEW s \in Slots, NEW c \in blocks, Valid[s] # None, c \in Ancestors[Valid[s]]
      PROVE  c \in Seen
  <2>1. Parent[Valid[s]] \in Seen
    BY <1>1, <1>4 DEF ReachInv
  <2>2. Valid[s] \in blocks \ {head}
    BY <1>4, ValidFacts
  <2>3. c = Parent[Valid[s]] \/ c \in Ancestors[Parent[Valid[s]]]
    BY <1>4, <2>2, TreeFacts
  <2> QED
    BY <1>3, <2>1, <2>3
<1> QED
  BY <1>3, <1>4

\* All votes below it have arrived, and nothing below it is left.
LEMMA AllArrived ==
    ASSUME StateType, SeenInv, EdgeInv, ReachInv, DoneInv, ~Counting,
           NEW b \in Seen, kahnNodes[b].inDegree = 0
    PROVE  /\ \A x \in Seen : b \in Ancestors[x] => x \in Done
           /\ \A n \in twice : b \notin Ancestors[n]
           /\ ArrivedAt(b) = VotesBelow(Valid, b)
           /\ \A c \in Blocks : Arrived(b, c) = IF c \in Kids(b) THEN VotesThrough(Valid, c) ELSE {}
<1>1. pc # "climb" /\ todo = {} /\ b \in blocks /\ Seen \subseteq blocks
  BY DEF StateType, Counting, SeenInv
<1>2. OpenKids(b) = {} /\ TwiceKids(b) = {}
  BY <1>1, NoOpenEdge
<1>3. \A c \in Kids(b) : c \in Seen => c \in Done
  BY <1>2 DEF OpenKids
<1>4. ASSUME NEW x \in Seen, b \in Ancestors[x]
      PROVE  x \in Done /\ x \notin twice
  <2>1. PICK c \in Kids(b) : c = x \/ c \in Ancestors[x]
    BY <1>1, <1>4, KidTowards
  <2>2. c \in blocks
    BY DEF Kids
  <2>3. c \in Seen
    BY <2>1, <2>2, AllSeen
  <2>4. c \in Done
    BY <1>3, <2>3
  <2> QED
    BY <1>2, <2>1, <2>4 DEF DoneInv, TwiceKids
<1>5. \A n \in twice : b \notin Ancestors[n]
  BY <1>4 DEF SeenInv
<1>6. ASSUME NEW c \in Kids(b)
      PROVE  Arrived(b, c) = VotesThrough(Valid, c)
  <2>1. c \in Blocks /\ c \in blocks
    BY <1>1, KidFacts
  <2>2. \A s \in VotesBelow(Valid, c) : c \in Done
    BY <1>3, <2>1, AllSeen DEF VotesBelow
  <2>3. \A s \in Slots : s \in Arrived(b, c) <=> Valid[s] = c \/ s \in VotesBelow(Valid, c)
    BY <1>1, <2>2 DEF Arrived
  <2> QED
    BY <2>3 DEF Arrived, VotesThrough, VotesBelow
<1>7. \A c \in Blocks : c \notin Kids(b) => Arrived(b, c) = {}
  BY DEF Arrived
<1>8. \A c \in Kids(b) : \A s \in VotesThrough(Valid, c) : s \in VotesBelow(Valid, b)
  <2> SUFFICES ASSUME NEW c \in Kids(b), NEW s \in VotesThrough(Valid, c)
               PROVE  s \in VotesBelow(Valid, b)
    OBVIOUS
  <2>1. c \in Blocks /\ b \in Ancestors[c] /\ c \in blocks
    BY <1>1, KidFacts
  <2>2. s \in Slots /\ Valid[s] # None /\ (Valid[s] = c \/ c \in Ancestors[Valid[s]])
    BY <2>1, BlockAssumption DEF VotesThrough, VotesBelow
  <2>3. Valid[s] \in Blocks
    BY <2>2, ValidFacts, TreeFacts
  <2>4. b \in Ancestors[Valid[s]]
    BY <2>1, <2>2, <2>3, AncestorFacts
  <2> QED
    BY <2>2, <2>4 DEF VotesBelow
<1>9. \A s \in VotesBelow(Valid, b) : \E c \in Kids(b) : s \in VotesThrough(Valid, c)
  <2> SUFFICES ASSUME NEW s \in VotesBelow(Valid, b)
               PROVE  \E c \in Kids(b) : s \in VotesThrough(Valid, c)
    OBVIOUS
  <2>1. s \in Slots /\ Valid[s] # None /\ b \in Ancestors[Valid[s]]
    BY DEF VotesBelow
  <2>2. Valid[s] \in blocks
    BY <2>1, ValidFacts
  <2>3. PICK c \in Kids(b) : c = Valid[s] \/ c \in Ancestors[Valid[s]]
    BY <1>1, <2>1, <2>2, KidTowards
  <2> QED
    BY <2>1, <2>3 DEF VotesThrough, VotesBelow
<1>10. ArrivedAt(b) = VotesBelow(Valid, b)
  <2>1. VotesBelow(Valid, b) \subseteq Slots /\ ArrivedAt(b) \subseteq Slots
    BY DEF VotesBelow, ArrivedAt
  <2>2. \A s \in Slots : s \in ArrivedAt(b) <=> s \in VotesBelow(Valid, b)
    BY <1>6, <1>8, <1>9 DEF ArrivedAt
  <2> QED
    BY <2>1, <2>2
<1> QED
  BY <1>4, <1>5, <1>6, <1>7, <1>10

-----------------------------------------------------------------------------
(* calculateInDegree *)

LEMMA SameVotes ==
    ASSUME UNCHANGED <<blocks, head, votes>>
    PROVE  Valid' = Valid /\ \A p : Kids(p)' = Kids(p)
BY DEF Valid, Kids

\* While votes are counted, no block was popped.
LEMMA CountingDone ==
    ASSUME Counting
    PROVE  /\ Done = {} /\ \A p : OpenKids(p) = {c \in Seen : c \in Kids(p)}
           /\ \A p, c : Arrived(p, c) = {s \in Slots : c \in Kids(p) /\ Valid[s] = c /\ c \notin todo}
BY DEF Done, OpenKids, Arrived

LEMMA CountingDoneNext ==
    ASSUME Counting'
    PROVE  /\ Done' = {} /\ \A p : OpenKids(p)' = {c \in Seen' : c \in Kids(p)'}
           /\ \A p, c : Arrived(p, c)' = {s \in Slots : c \in Kids(p)' /\ Valid'[s] = c /\ c \notin todo'}
BY DEF Done, OpenKids, Arrived

LEMMA CountingStack ==
    ASSUME StackInv, Counting, Counting', voteStack' = voteStack
    PROVE  DoneInv' /\ StackInv'
<1>1. Done = {} /\ Done' = {}
  BY CountingDone, CountingDoneNext
<1>2. \A i \in 1..Len(voteStack) : FALSE
  BY <1>1 DEF StackInv
<1> QED
  BY <1>1, <1>2 DEF DoneInv, StackInv

LEMMA DropVoteInv ==
    ASSUME Inv, pc = "count", NEW v \in todo, todo' = todo \ {v}, DropVote(v),
           UNCHANGED <<blocks, head, votes, voteStack, twice>>
    PROVE  Inv'
<1> USE DEF Inv
<1>1. UNCHANGED <<kahnNodes, leaves, pc, at>> /\ (v \notin blocks \/ v = head)
  BY DEF DropVote
<1>2. Valid' = Valid /\ \A p : Kids(p)' = Kids(p)
  BY SameVotes
<1>3. Counting /\ Counting' /\ Seen' = Seen
  BY <1>1 DEF Counting, Seen
<1>4. StateType'
  BY <1>1, <1>3 DEF StateType
<1>5. SeenInv'
  BY <1>1, <1>3 DEF SeenInv
<1>6. \A p : OpenKids(p)' = OpenKids(p) /\ TwiceKids(p)' = TwiceKids(p)
  BY <1>2, <1>3, CountingDone, CountingDoneNext DEF TwiceKids
<1>7. EdgeInv'
  BY <1>1, <1>6 DEF EdgeInv
<1>8. \A s \in Slots : Valid[s] # None => Valid[s] # v
  BY <1>1, ValidFacts
<1>9. ReachInv'
  BY <1>1, <1>2, <1>3, <1>8 DEF ReachInv
<1>10. \A p, c : Arrived(p, c)' = Arrived(p, c)
  <2>1. \A p : v \notin Kids(p)
    BY <1>1 DEF Kids
  <2>2. SUFFICES ASSUME NEW p, NEW c PROVE Arrived(p, c)' = Arrived(p, c)
    OBVIOUS
  <2>3. Arrived(p, c) = {s \in Slots : c \in Kids(p) /\ Valid[s] = c /\ c \notin todo}
    BY <1>3, CountingDone
  <2>4. Arrived(p, c)' = {s \in Slots : c \in Kids(p)' /\ Valid'[s] = c /\ c \notin todo'}
    BY <1>3, CountingDoneNext
  <2>5. c \in Kids(p) => (c \notin todo' <=> c \notin todo)
    BY <2>1
  <2> QED
    BY <1>2, <2>3, <2>4, <2>5
<1>11. \A p : ArrivedAt(p)' = ArrivedAt(p)
  BY <1>2, <1>10 DEF ArrivedAt
<1>12. BagInv'
  BY <1>1, <1>10, <1>11 DEF BagInv
<1> QED
  BY <1>3, <1>4, <1>5, <1>7, <1>9, <1>12, CountingStack

\* The node with another flag and another in-degree.
LEMMA NodeFields ==
    ASSUME NEW n \in Node, NEW seen \in BOOLEAN, NEW d \in Int
    PROVE  /\ [n EXCEPT !.seen = seen] = [seen |-> seen, inDegree |-> n.inDegree, votes |-> n.votes, size |-> n.size]
           /\ [n EXCEPT !.inDegree = d] = [seen |-> n.seen, inDegree |-> d, votes |-> n.votes, size |-> n.size]
           /\ [n EXCEPT !.seen = seen] \in Node /\ [n EXCEPT !.inDegree = d] \in Node
<1>1. n.votes \in [Blocks -> Nat] /\ n.size \in Nat /\ n.seen \in BOOLEAN /\ n.inDegree \in Int
  BY SMT DEF Node
<1>2. [n EXCEPT !.seen = seen] = [seen |-> seen, inDegree |-> n.inDegree, votes |-> n.votes, size |-> n.size]
  BY SMT DEF Node
<1>3. [n EXCEPT !.inDegree = d] = [seen |-> n.seen, inDegree |-> d, votes |-> n.votes, size |-> n.size]
  BY SMT DEF Node
<1> QED
  BY <1>1, <1>2, <1>3 DEF Node

LEMMA SeenFields ==
    ASSUME NEW n \in Node, NEW seen, NEW d
    PROVE  [[n EXCEPT !.seen = seen] EXCEPT !.inDegree = d]
             = [seen |-> seen, inDegree |-> d, votes |-> n.votes, size |-> n.size]
<1> DEFINE r == [n EXCEPT !.seen = seen]
<1>1. r = [seen |-> seen, inDegree |-> n.inDegree, votes |-> n.votes, size |-> n.size]
  BY SMT DEF Node
<1> HIDE DEF r
<1>2. [r EXCEPT !.inDegree = d] = [seen |-> seen, inDegree |-> d, votes |-> n.votes, size |-> n.size]
  BY <1>1, SMT
<1> QED
  BY <1>2 DEF r

LEMMA BagFields ==
    ASSUME NEW n \in Node, NEW f, NEW k
    PROVE  [n EXCEPT !.votes = f, !.size = k] = [seen |-> n.seen, inDegree |-> n.inDegree, votes |-> f, size |-> k]
<1> DEFINE r == [n EXCEPT !.votes = f]
<1>1. r = [seen |-> n.seen, inDegree |-> n.inDegree, votes |-> f, size |-> n.size]
  BY SMT DEF Node
<1>2. [n EXCEPT !.votes = f, !.size = k] = [r EXCEPT !.size = k]
  OBVIOUS
<1> HIDE DEF r
<1>3. [r EXCEPT !.size = k] = [seen |-> n.seen, inDegree |-> n.inDegree, votes |-> f, size |-> k]
  BY <1>1, SMT
<1> QED
  BY <1>2, <1>3

LEMMA AddCountFields ==
    ASSUME NEW n \in Node, NEW elt \in Blocks, NEW count \in Nat
    PROVE  /\ AddCount(n, elt, count) \in Node
           /\ AddCount(n, elt, count).seen = n.seen /\ AddCount(n, elt, count).inDegree = n.inDegree
           /\ AddCount(n, elt, count).size = n.size + count
           /\ \A c \in Blocks : AddCount(n, elt, count).votes[c]
                                    = IF c = elt THEN n.votes[elt] + count ELSE n.votes[c]
<1>1. n.votes \in [Blocks -> Nat] /\ n.size \in Nat /\ n.seen \in BOOLEAN /\ n.inDegree \in Int
  BY SMT DEF Node
<1>2. n.size + count \in Nat /\ n.votes[elt] + count \in Nat
  BY <1>1, SMT
<1> DEFINE f == [n.votes EXCEPT ![elt] = @ + count]
<1>3. /\ f \in [Blocks -> Nat]
      /\ \A c \in Blocks : f[c] = IF c = elt THEN n.votes[elt] + count ELSE n.votes[c]
  BY <1>1, <1>2
<1>4. AddCount(n, elt, count) = [n EXCEPT !.votes = f, !.size = n.size + count]
  BY DEF AddCount
<1> HIDE DEF f
<1>5. AddCount(n, elt, count)
        = [seen |-> n.seen, inDegree |-> n.inDegree, votes |-> f, size |-> n.size + count]
  BY <1>4, BagFields
<1> QED
  BY <1>1, <1>2, <1>3, <1>5, SMT DEF Node

LEMMA CountVoteFields ==
    ASSUME StateType, NEW v \in Blocks, CountVote(v), Parent[v] \in Blocks
    PROVE  /\ Count(v) \in Nat
           /\ kahnNodes' \in [Blocks -> Node]
           /\ \A q \in Blocks :
                 /\ kahnNodes'[q].seen = (q = Parent[v] \/ kahnNodes[q].seen)
                 /\ kahnNodes'[q].inDegree = kahnNodes[q].inDegree
                 /\ q # Parent[v] => kahnNodes'[q] = kahnNodes[q]
           /\ kahnNodes'[Parent[v]].size = kahnNodes[Parent[v]].size + Count(v)
           /\ \A c \in Blocks :
                 kahnNodes'[Parent[v]].votes[c]
                     = IF c = v THEN kahnNodes[Parent[v]].votes[v] + Count(v) ELSE kahnNodes[Parent[v]].votes[c]
<1> DEFINE p == Parent[v]
           n == kahnNodes[p]
           new == AddCount([n EXCEPT !.seen = TRUE], v, Count(v))
<1>1. Count(v) \in Nat
  BY SlotSets DEF Count
<1>2. kahnNodes' = [kahnNodes EXCEPT ![p] = new]
  BY DEF CountVote
<1>3. n \in Node /\ p \in Blocks
  BY DEF StateType
<1>4. /\ new \in Node /\ new.seen = TRUE /\ new.inDegree = n.inDegree /\ new.size = n.size + Count(v)
      /\ \A c \in Blocks : new.votes[c] = IF c = v THEN n.votes[v] + Count(v) ELSE n.votes[c]
  <2> DEFINE m == [n EXCEPT !.seen = TRUE]
  <2>1. n.votes \in [Blocks -> Nat] /\ TRUE \in BOOLEAN /\ 0 \in Int /\ 0 \in Nat
    BY <1>3, SMT DEF Node
  <2>2. m \in Node /\ m = [seen |-> TRUE, inDegree |-> n.inDegree, votes |-> n.votes, size |-> n.size]
    BY <1>3, <2>1, NodeFields
  <2>3. new = AddCount(m, v, Count(v))
    OBVIOUS
  <2> HIDE DEF m, new
  <2>4. m.seen = TRUE /\ m.inDegree = n.inDegree /\ m.votes = n.votes /\ m.size = n.size
    BY <2>2
  <2>5. /\ new \in Node /\ new.seen = m.seen /\ new.inDegree = m.inDegree /\ new.size = m.size + Count(v)
        /\ \A c \in Blocks : new.votes[c] = IF c = v THEN m.votes[v] + Count(v) ELSE m.votes[c]
    <3>1. m \in Node /\ v \in Blocks /\ Count(v) \in Nat
      BY <1>1, <2>2
    <3>2. /\ AddCount(m, v, Count(v)) \in Node
          /\ AddCount(m, v, Count(v)).seen = m.seen /\ AddCount(m, v, Count(v)).inDegree = m.inDegree
          /\ AddCount(m, v, Count(v)).size = m.size + Count(v)
          /\ \A c \in Blocks : AddCount(m, v, Count(v)).votes[c]
                                   = IF c = v THEN m.votes[v] + Count(v) ELSE m.votes[c]
      BY <3>1, AddCountFields
    <3> QED
      BY <2>3, <3>2
  <2> QED
    BY <2>4, <2>5
<1> HIDE DEF new
<1>5. kahnNodes \in [Blocks -> Node]
  BY DEF StateType
<1>6. kahnNodes' \in [Blocks -> Node] /\ kahnNodes'[p] = new /\ \A q \in Blocks : q # p => kahnNodes'[q] = kahnNodes[q]
  BY <1>2, <1>3, <1>4, <1>5
<1>7. \A q \in Blocks : kahnNodes[q].seen \in BOOLEAN
  BY <1>5, SMT DEF Node
<1> QED
  BY <1>1, <1>4, <1>6, <1>7

\* One more key keeps the keys a finite set of bounded height.
LEMMA MoreSeen ==
    ASSUME SeenInv, NEW p \in Blocks, Seen' = Seen \cup {p}
    PROVE  IsFiniteSet(Seen') /\ \E h \in Nat : \A b \in Seen' : Height[b] <= h
<1>1. IsFiniteSet(Seen')
  BY FS_AddElement DEF SeenInv
<1>2. PICK h \in Nat : \A b \in Seen : Height[b] <= h
  BY DEF SeenInv
<1>3. \A b \in Seen : Height[b] \in Nat
  BY BlockAssumption DEF Seen
<1>4. Height[p] \in Nat
  BY BlockAssumption
<1>5. CASE h >= Height[p]
  <2>1. \A b \in Seen \cup {p} : Height[b] <= h
    BY <1>2, <1>4, <1>5, SMT
  <2> QED
    BY <1>1, <2>1
<1>6. CASE ~(h >= Height[p])
  <2>1. \A b \in Seen \cup {p} : Height[b] <= Height[p]
    BY <1>2, <1>3, <1>4, <1>6, SMT
  <2> QED
    BY <1>1, <1>4, <2>1
<1> QED
  BY <1>5, <1>6

LEMMA CountVoteInv ==
    ASSUME Inv, pc = "count", NEW v \in todo, todo' = todo \ {v}, CountVote(v),
           UNCHANGED <<blocks, head, votes, voteStack, twice>>
    PROVE  Inv'
<1> USE DEF Inv
<1> DEFINE p == Parent[v]
<1>1. /\ v \in blocks \ {head} /\ v \in Blocks /\ p \in blocks /\ p \in Blocks
      /\ p \in Ancestors[v] /\ v \in Kids(p) /\ \A q : v \in Kids(q) => q = p
  <2>1. v \in blocks \ {head}
    BY DEF CountVote
  <2>2. v \in Blocks /\ p \in blocks /\ p \in Ancestors[v]
    BY <2>1, TreeFacts
  <2>3. p \in Blocks
    BY <2>2 DEF StateType
  <2> QED
    BY <2>1, <2>2, <2>3 DEF Kids
<1>2. /\ Count(v) \in Nat /\ kahnNodes' \in [Blocks -> Node]
      /\ \A q \in Blocks :
            /\ kahnNodes'[q].seen = (q = p \/ kahnNodes[q].seen)
            /\ kahnNodes'[q].inDegree = kahnNodes[q].inDegree
            /\ q # p => kahnNodes'[q] = kahnNodes[q]
      /\ kahnNodes'[p].size = kahnNodes[p].size + Count(v)
      /\ \A c \in Blocks : kahnNodes'[p].votes[c]
                             = IF c = v THEN kahnNodes[p].votes[v] + Count(v) ELSE kahnNodes[p].votes[c]
  BY <1>1, CountVoteFields
<1>3. Seen' = Seen \cup {p} /\ Seen \subseteq blocks /\ blocks \subseteq Blocks
  <2>1. Seen' = Seen \cup {p}
    BY <1>1, <1>2 DEF Seen
  <2> QED
    BY <2>1 DEF SeenInv, StateType
<1>4. /\ p \in Seen => UNCHANGED <<leaves, pc, at>>
      /\ p \notin Seen => /\ leaves' = leaves \cup {p}
                          /\ p = head => UNCHANGED <<pc, at>>
                          /\ p # head => pc' = "climb" /\ at' = p
  BY <1>1 DEF CountVote, Seen
<1>5. Counting /\ Counting'
  BY <1>4 DEF Counting
<1>6. Valid' = Valid /\ \A q : Kids(q)' = Kids(q)
  BY SameVotes
<1>7. StateType'
  <2>1. pc' \in {"count", "climb", "push", "done"} /\ pc' # "done" /\ (pc' = "climb" => at' \in Seen' \ {head})
    BY <1>3, <1>4 DEF StateType
  <2> QED
    BY <1>2, <1>5, <2>1 DEF StateType
<1>8. SeenInv'
  <2>1. \A b \in Seen' \ {head} : Parent[b] \in Seen' \/ (pc' = "climb" /\ at' = b)
    BY <1>3, <1>4 DEF SeenInv
  <2>2. leaves' \subseteq Seen' /\ twice' \subseteq Seen' \ {head}
    BY <1>3, <1>4 DEF SeenInv
  <2>3. p \notin Seen => kahnNodes[p].inDegree = 0
    BY <1>1 DEF SeenInv
  <2>4. \A b \in leaves' : kahnNodes'[b].inDegree = 0
    <3>1. \A b \in leaves' : b \in Blocks /\ kahnNodes[b].inDegree = 0
      BY <1>3, <1>4, <2>3, <1>1 DEF SeenInv
    <3> QED
      BY <1>2, <3>1
  <2>5. \A b \in blocks : kahnNodes'[b].inDegree # 0 => b \in Seen'
    BY <1>2, <1>3 DEF SeenInv
  <2>6. \A b \in Seen' : kahnNodes'[b].inDegree = 0 => b \in leaves'
    <3>1. \A b \in Seen' : b \in Blocks /\ (b \in Seen \/ b = p)
      BY <1>1, <1>3
    <3> QED
      BY <1>2, <1>4, <1>5, <3>1 DEF SeenInv
  <2>7. leaves' \cap twice' = {}
    BY <1>4, <1>5 DEF SeenInv
  <2>8. IsFiniteSet(Seen') /\ \E h \in Nat : \A b \in Seen' : Height[b] <= h
    BY <1>1, <1>3, MoreSeen
  <2>9. Seen' \subseteq blocks'
    BY <1>1, <1>3
  <2> QED
    BY <2>1, <2>2, <2>4, <2>5, <2>6, <2>7, <2>8, <2>9 DEF SeenInv
<1>9. EdgeInv'
  <2> SUFFICES ASSUME NEW q \in blocks
               PROVE  kahnNodes'[q].inDegree + (IF pc' = "climb" /\ Parent[at'] = q THEN 1 ELSE 0)
                        = Cardinality(OpenKids(q)') + Cardinality(TwiceKids(q)')
    BY DEF EdgeInv
  <2>1. kahnNodes'[q].inDegree = kahnNodes[q].inDegree /\ kahnNodes[q].inDegree \in Int
    BY <1>2, <1>3, SMT DEF StateType, Node
  <2>2. kahnNodes[q].inDegree + 0 = Cardinality(OpenKids(q)) + Cardinality(TwiceKids(q))
    BY DEF EdgeInv
  <2>3. TwiceKids(q)' = TwiceKids(q)
    BY <1>6 DEF TwiceKids
  <2>4. OpenKids(q) = {c \in Seen : c \in Kids(q)} /\ OpenKids(q)' = {c \in Seen' : c \in Kids(q)}
    BY <1>5, <1>6, CountingDone, CountingDoneNext
  <2>5. CASE p \notin Seen /\ p # head /\ Parent[p] = q
    <3>1. OpenKids(q)' = OpenKids(q) \cup {p} /\ p \notin OpenKids(q)
      <4>1. p \in Kids(q)
        BY <1>1, <2>5 DEF Kids
      <4>2. \A c : c \in OpenKids(q)' <=> c \in OpenKids(q) \/ c = p
        BY <1>3, <2>4, <4>1
      <4> QED
        BY <2>4, <2>5, <4>2
    <3>2. Cardinality(OpenKids(q)') = Cardinality(OpenKids(q)) + 1
      BY <3>1, OpenFacts, FS_AddElement
    <3>3. pc' = "climb" /\ Parent[at'] = q
      BY <1>4, <2>5
    <3>4. Cardinality(OpenKids(q)) \in Nat /\ Cardinality(TwiceKids(q)) \in Nat
      BY OpenFacts
    <3> QED
      BY <2>1, <2>2, <2>3, <3>2, <3>3, <3>4, SMT
  <2>6. CASE p \in Seen \/ p = head \/ Parent[p] # q
    <3>1. OpenKids(q)' = OpenKids(q)
      BY <1>3, <2>4, <2>6 DEF Kids
    <3>2. ~(pc' = "climb" /\ Parent[at'] = q)
      BY <1>4, <2>6
    <3> QED
      BY <2>1, <2>2, <2>3, <3>1, <3>2
  <2> QED
    BY <2>5, <2>6
<1>10. ReachInv'
  <2>1. PICK s \in Slots : votes[s] = v
    BY DEF ReachInv
  <2>2. Valid[s] = v /\ v # None
    BY <1>1, <2>1, ValidFacts, BlockAssumption
  <2>3. \A x \in todo' : \E t \in Slots : votes'[t] = x
    BY DEF ReachInv
  <2>4. \A t \in Slots : Valid[t] # None /\ Valid[t] \notin todo' => Parent[Valid[t]] \in Seen'
    BY <1>3 DEF ReachInv
  <2>5. \A b \in Seen' : \E t \in Slots : Valid[t] # None /\ b \in Ancestors[Valid[t]]
    BY <1>1, <1>3, <2>2 DEF ReachInv
  <2>6. \A b \in leaves' : \E t \in Slots : Valid[t] # None /\ Parent[Valid[t]] = b
    <3>1. \A b \in leaves : \E t \in Slots : Valid[t] # None /\ Parent[Valid[t]] = b
      BY <1>5 DEF ReachInv
    <3>2. \A b \in leaves' : b \in leaves \/ b = p
      BY <1>4
    <3>3. Valid[s] # None /\ Parent[Valid[s]] = p
      BY <2>2
    <3> QED
      BY <3>1, <3>2, <3>3
  <2> QED
    BY <1>6, <2>3, <2>4, <2>5, <2>6 DEF ReachInv
<1>11. BagInv'
  <2> DEFINE V == {s \in Slots : Valid[s] = v}
  <2>1. Count(v) = Cardinality(V)
    <3>1. \A s \in Slots : votes[s] = v <=> Valid[s] = v
      BY <1>1, ValidFacts, BlockAssumption
    <3>2. {s \in Slots : votes[s] = v} = V
      BY <3>1
    <3> QED
      BY <3>2 DEF Count
  <2>2. \A q, c : /\ Arrived(q, c) = {s \in Slots : c \in Kids(q) /\ Valid[s] = c /\ c \notin todo}
                  /\ Arrived(q, c)' = {s \in Slots : c \in Kids(q) /\ Valid[s] = c /\ c \notin todo'}
    <3> SUFFICES ASSUME NEW q, NEW c
                 PROVE  /\ Arrived(q, c) = {s \in Slots : c \in Kids(q) /\ Valid[s] = c /\ c \notin todo}
                        /\ Arrived(q, c)' = {s \in Slots : c \in Kids(q) /\ Valid[s] = c /\ c \notin todo'}
      OBVIOUS
    <3>1. Arrived(q, c) = {s \in Slots : c \in Kids(q) /\ Valid[s] = c /\ c \notin todo}
      BY <1>5, CountingDone
    <3>2. Arrived(q, c)' = {s \in Slots : c \in Kids(q)' /\ Valid'[s] = c /\ c \notin todo'}
      BY <1>5, CountingDoneNext
    <3> QED
      BY <1>6, <3>1, <3>2
  <2>3. \A q, c : c # v \/ q # p => Arrived(q, c)' = Arrived(q, c)
    <3> SUFFICES ASSUME NEW q, NEW c, c # v \/ q # p
                 PROVE  Arrived(q, c)' = Arrived(q, c)
      OBVIOUS
    <3>1. c \in Kids(q) => (c \notin todo' <=> c \notin todo)
      BY <1>1
    <3> QED
      BY <2>2, <3>1
  <2>4. Arrived(p, v) = {} /\ Arrived(p, v)' = V
    BY <1>1, <2>2
  <2>5. \A q : q # p => ArrivedAt(q)' = ArrivedAt(q)
    BY <1>6, <2>3 DEF ArrivedAt
  <2>6. ArrivedAt(p)' = ArrivedAt(p) \cup V /\ ArrivedAt(p) \cap V = {}
    <3>1. \A s \in Slots : s \in ArrivedAt(p)' <=> s \in ArrivedAt(p) \/ s \in V
      BY <1>1, <1>6, <2>3, <2>4 DEF ArrivedAt
    <3>2. \A s \in ArrivedAt(p) : Valid[s] # v
      BY <2>2 DEF ArrivedAt
    <3> QED
      BY <3>1, <3>2 DEF ArrivedAt
  <2>7. Cardinality(ArrivedAt(p)') = Cardinality(ArrivedAt(p)) + Cardinality(V)
    <3>1. ArrivedAt(p) \in SUBSET Slots /\ V \in SUBSET Slots
      BY DEF ArrivedAt
    <3> QED
      BY <2>6, <3>1, DisjointSlots
  <2>8. kahnNodes'[p].size = Cardinality(ArrivedAt(p)')
    BY <1>1, <1>2, <2>1, <2>7 DEF BagInv
  <2>9. \A c \in Blocks : kahnNodes'[p].votes[c] = Cardinality(Arrived(p, c)')
    <3>1. kahnNodes[p].votes[v] = 0
      BY <1>1, <2>4, FS_EmptySet DEF BagInv
    <3>2. kahnNodes'[p].votes[v] = Count(v)
      BY <1>1, <1>2, <3>1, SMT
    <3>3. \A c \in Blocks : c # v => kahnNodes'[p].votes[c] = kahnNodes[p].votes[c]
      BY <1>2
    <3>4. \A c \in Blocks : c # v => kahnNodes'[p].votes[c] = Cardinality(Arrived(p, c)')
      <4> SUFFICES ASSUME NEW c \in Blocks, c # v
                   PROVE  kahnNodes'[p].votes[c] = Cardinality(Arrived(p, c)')
        OBVIOUS
      <4>1. kahnNodes[p].votes[c] = Cardinality(Arrived(p, c))
        BY <1>1 DEF BagInv
      <4>2. Arrived(p, c)' = Arrived(p, c)
        BY <2>3
      <4> QED
        BY <3>3, <4>1, <4>2
    <3> QED
      BY <2>1, <2>4, <3>2, <3>4
  <2>10. \A q \in blocks : q # p => /\ kahnNodes'[q].size = Cardinality(ArrivedAt(q)')
                                    /\ \A c \in Blocks : kahnNodes'[q].votes[c] = Cardinality(Arrived(q, c)')
    <3> SUFFICES ASSUME NEW q \in blocks, q # p
                 PROVE  /\ kahnNodes'[q].size = Cardinality(ArrivedAt(q)')
                        /\ \A c \in Blocks : kahnNodes'[q].votes[c] = Cardinality(Arrived(q, c)')
      OBVIOUS
    <3>1. kahnNodes'[q] = kahnNodes[q]
      BY <1>2, <1>3
    <3>2. ArrivedAt(q)' = ArrivedAt(q) /\ \A c : Arrived(q, c)' = Arrived(q, c)
      BY <2>3, <2>5
    <3> QED
      BY <3>1, <3>2 DEF BagInv
  <2> QED
    BY <2>8, <2>9, <2>10 DEF BagInv
<1> QED
  BY <1>5, <1>7, <1>8, <1>9, <1>10, <1>11, CountingStack

LEMMA ClimbFields ==
    ASSUME StateType, Climb, Parent[at] \in Blocks
    PROVE  /\ kahnNodes' \in [Blocks -> Node]
           /\ \A q \in Blocks :
                 /\ kahnNodes'[q].seen = (q = Parent[at] \/ kahnNodes[q].seen)
                 /\ kahnNodes'[q].votes = kahnNodes[q].votes
                 /\ kahnNodes'[q].size = kahnNodes[q].size
                 /\ q # Parent[at] => kahnNodes'[q].inDegree = kahnNodes[q].inDegree
           /\ kahnNodes'[Parent[at]].inDegree = kahnNodes[Parent[at]].inDegree + 1
<1> DEFINE p == Parent[at]
           n == kahnNodes[p]
           new == [seen |-> TRUE, inDegree |-> n.inDegree + 1, votes |-> n.votes, size |-> n.size]
<1>1. kahnNodes \in [Blocks -> Node] /\ n \in Node /\ p \in Blocks
  BY DEF StateType
<1>2. /\ n.votes \in [Blocks -> Nat] /\ n.size \in Nat /\ n.inDegree \in Int /\ n.inDegree + 1 \in Int
      /\ \A q \in Blocks : kahnNodes[q].seen \in BOOLEAN
  BY <1>1, SMT DEF Node
<1>3. new \in Node
  BY <1>2 DEF Node
<1>4. kahnNodes' = [kahnNodes EXCEPT ![p] = new]
  <2>1. kahnNodes' = [kahnNodes EXCEPT ![p].seen = TRUE, ![p].inDegree = @ + 1]
    BY DEF Climb
  <2>2. [kahnNodes EXCEPT ![p].seen = TRUE, ![p].inDegree = @ + 1]
          = [kahnNodes EXCEPT ![p] = [[n EXCEPT !.seen = TRUE] EXCEPT !.inDegree = n.inDegree + 1]]
    BY <1>1, SMT DEF Node
  <2>3. [[n EXCEPT !.seen = TRUE] EXCEPT !.inDegree = n.inDegree + 1] = new
    BY <1>1, SeenFields
  <2> QED
    BY <2>1, <2>2, <2>3
<1>5. new.seen = TRUE /\ new.inDegree = n.inDegree + 1 /\ new.votes = n.votes /\ new.size = n.size
  OBVIOUS
<1> HIDE DEF new
<1>6. kahnNodes' \in [Blocks -> Node] /\ kahnNodes'[p] = new /\ \A q \in Blocks : q # p => kahnNodes'[q] = kahnNodes[q]
  BY <1>1, <1>3, <1>4
<1> QED
  BY <1>2, <1>5, <1>6

LEMMA ClimbInv ==
    ASSUME Inv, Climb
    PROVE  Inv'
<1> USE DEF Inv
<1> DEFINE p == Parent[at]
           d == kahnNodes[p].inDegree
<1>1. /\ pc = "climb" /\ at \in Seen \ {head} /\ Seen \subseteq blocks /\ blocks \subseteq Blocks
      /\ UNCHANGED <<blocks, head, votes, todo, voteStack>>
  BY DEF Climb, StateType, SeenInv
<1>2. p \in blocks /\ p \in Blocks /\ p \in Ancestors[at] /\ at \in Kids(p)
  <2>1. p \in blocks /\ p \in Ancestors[at]
    BY <1>1, TreeFacts
  <2> QED
    BY <1>1, <2>1 DEF Kids
<1>3. /\ kahnNodes' \in [Blocks -> Node]
      /\ \A q \in Blocks :
            /\ kahnNodes'[q].seen = (q = p \/ kahnNodes[q].seen)
            /\ kahnNodes'[q].votes = kahnNodes[q].votes
            /\ kahnNodes'[q].size = kahnNodes[q].size
            /\ q # p => kahnNodes'[q].inDegree = kahnNodes[q].inDegree
      /\ kahnNodes'[p].inDegree = d + 1
  BY <1>2, ClimbFields
<1>4. Seen' = Seen \cup {p}
  BY <1>2, <1>3 DEF Seen
<1>5. Counting
  BY <1>1 DEF Counting
<1>6. d \in Nat
  <2>1. d + 1 = Cardinality(OpenKids(p)) + Cardinality(TwiceKids(p))
    BY <1>1, <1>2 DEF EdgeInv
  <2>2. at \in OpenKids(p)
    BY <1>1, <1>2, <1>5, CountingDone
  <2>3. Cardinality(OpenKids(p)) # 0
    BY <2>2, OpenFacts, FS_EmptySet
  <2>4. d \in Int
    BY <1>2, SMT DEF StateType, Node
  <2> QED
    BY <2>1, <2>3, <2>4, OpenFacts, SMT
<1>7. /\ d # 0 => p \in Seen /\ p \notin leaves /\ pc' = "count" /\ at' = None /\ UNCHANGED <<leaves, twice>>
      /\ d = 0 => /\ leaves' = leaves \ {p} /\ (p \in Seen => p \in leaves /\ p \notin twice)
                  /\ p \in leaves /\ p # head => twice' = twice \cup {p}
                  /\ ~(p \in leaves /\ p # head) => twice' = twice
                  /\ p = head => pc' = "count" /\ at' = None
                  /\ p # head => pc' = "climb" /\ at' = p
  <2>1. d + 1 # 1 <=> d # 0
    BY <1>6, SMT
  <2>2. d # 0 => p \in Seen /\ p \notin leaves
    BY <1>2 DEF SeenInv
  <2>3. d = 0 /\ p \in Seen => p \in leaves /\ p \notin twice
    BY <1>5 DEF SeenInv
  <2>4. d # 0 => pc' = "count" /\ at' = None /\ UNCHANGED <<leaves, twice>>
    BY <1>3, <2>1 DEF Climb
  <2>5. d = 0 => /\ leaves' = leaves \ {p}
                 /\ twice' = IF p \in leaves /\ p # head THEN twice \cup {p} ELSE twice
                 /\ IF p = head THEN pc' = "count" /\ at' = None ELSE pc' = "climb" /\ at' = p
    BY <1>3, <2>1 DEF Climb
  <2> QED
    BY <2>2, <2>3, <2>4, <2>5
<1>8. Counting'
  BY <1>7 DEF Counting
<1>9. Valid' = Valid /\ \A q : Kids(q)' = Kids(q)
  BY <1>1, SameVotes
<1>10. StateType'
  <2>1. pc' \in {"count", "climb", "push", "done"} /\ pc' # "done" /\ (pc' = "climb" => at' \in Seen' \ {head})
    BY <1>4, <1>7 DEF StateType
  <2> QED
    BY <1>1, <1>3, <1>8, <2>1 DEF StateType
<1>11. SeenInv'
  <2>1. \A b \in Seen' \ {head} : Parent[b] \in Seen' \/ (pc' = "climb" /\ at' = b)
    <3>1. \A b \in Seen \ {head} : Parent[b] \in Seen'
      BY <1>1, <1>4 DEF SeenInv
    <3>2. p \notin Seen /\ p # head => pc' = "climb" /\ at' = p
      BY <1>7
    <3> QED
      BY <1>4, <3>1, <3>2
  <2>2. leaves' \subseteq leaves /\ p \notin leaves' /\ leaves \subseteq Seen
    BY <1>7 DEF SeenInv
  <2>3. twice' \subseteq Seen' \ {head}
    BY <1>2, <1>4, <1>7 DEF SeenInv
  <2>4. \A b \in leaves' : kahnNodes'[b].inDegree = 0
    <3>1. \A b \in leaves' : b \in Blocks /\ b # p /\ kahnNodes[b].inDegree = 0
      BY <1>1, <2>2 DEF SeenInv
    <3> QED
      BY <1>3, <3>1
  <2>5. \A b \in blocks : kahnNodes'[b].inDegree # 0 => b \in Seen'
    BY <1>1, <1>3, <1>4 DEF SeenInv
  <2>6. d + 1 # 0
    BY <1>6, SMT
  <2>7. \A b \in Seen' : kahnNodes'[b].inDegree = 0 => b \in leaves'
    <3> SUFFICES ASSUME NEW b \in Seen', kahnNodes'[b].inDegree = 0
                 PROVE  b \in leaves'
      OBVIOUS
    <3>1. b # p
      BY <1>3, <2>6
    <3>2. b \in Seen /\ b \in Blocks
      BY <1>1, <1>4, <3>1
    <3>3. b \in leaves
      BY <1>3, <1>5, <3>1, <3>2 DEF SeenInv
    <3> QED
      BY <1>7, <3>1, <3>3
  <2>8. leaves' \cap twice' = {}
    BY <1>5, <1>7 DEF SeenInv
  <2>9. IsFiniteSet(Seen') /\ \E h \in Nat : \A b \in Seen' : Height[b] <= h
    BY <1>2, <1>4, MoreSeen
  <2>10. Seen' \subseteq blocks' /\ leaves' \subseteq Seen'
    BY <1>1, <1>2, <1>4, <2>2
  <2> QED
    BY <1>1, <2>1, <2>3, <2>4, <2>5, <2>7, <2>8, <2>9, <2>10 DEF SeenInv
<1>12. EdgeInv'
  <2> SUFFICES ASSUME NEW q \in blocks
               PROVE  kahnNodes'[q].inDegree + (IF pc' = "climb" /\ Parent[at'] = q THEN 1 ELSE 0)
                        = Cardinality(OpenKids(q)') + Cardinality(TwiceKids(q)')
    BY <1>1 DEF EdgeInv
  <2> DEFINE e == kahnNodes[q].inDegree
             o == Cardinality(OpenKids(q))
             t == Cardinality(TwiceKids(q))
  <2>1. o \in Nat /\ t \in Nat /\ e \in Int
    <3>1. e \in Int
      BY <1>1, SMT DEF StateType, Node
    <3> QED
      BY <3>1, OpenFacts
  <2>2. IF q = p THEN e + 1 = o + t ELSE e + 0 = o + t
    BY <1>1 DEF EdgeInv
  <2>3. kahnNodes'[q].inDegree = o + t
    <3>1. kahnNodes'[q].inDegree = IF q = p THEN e + 1 ELSE e
      BY <1>1, <1>3
    <3> QED
      BY <2>1, <2>2, <3>1, SMT
  <2>4. OpenKids(q) = {c \in Seen : c \in Kids(q)} /\ OpenKids(q)' = {c \in Seen' : c \in Kids(q)}
    BY <1>5, <1>8, <1>9, CountingDone, CountingDoneNext
  <2>5. TwiceKids(q)' = {c \in twice' : c \in Kids(q)} /\ TwiceKids(q) = {c \in twice : c \in Kids(q)}
    BY <1>9 DEF TwiceKids
  <2>6. CASE d = 0 /\ p # head /\ Parent[p] = q
    <3>1. p \in Kids(q)
      BY <1>2, <2>6 DEF Kids
    <3>2. pc' = "climb" /\ Parent[at'] = q
      BY <1>7, <2>6
    <3>3. CASE p \in Seen
      <4>1. OpenKids(q)' = OpenKids(q)
        BY <1>4, <2>4, <3>3
      <4>2. \A c : c \in TwiceKids(q)' <=> c \in TwiceKids(q) \/ c = p
        BY <1>7, <2>5, <2>6, <3>1, <3>3
      <4>3. TwiceKids(q)' = TwiceKids(q) \cup {p} /\ p \notin TwiceKids(q)
        BY <1>7, <2>5, <2>6, <3>3, <4>2
      <4>4. Cardinality(TwiceKids(q)') = t + 1
        BY <4>3, OpenFacts, FS_AddElement
      <4> QED
        BY <2>1, <2>3, <3>2, <4>1, <4>4, SMT
    <3>4. CASE p \notin Seen
      <4>1. p \notin leaves
        BY <3>4 DEF SeenInv
      <4>2. TwiceKids(q)' = TwiceKids(q)
        BY <1>7, <2>5, <2>6, <4>1
      <4>3. \A c : c \in OpenKids(q)' <=> c \in OpenKids(q) \/ c = p
        BY <1>4, <2>4, <3>1
      <4>4. OpenKids(q)' = OpenKids(q) \cup {p} /\ p \notin OpenKids(q)
        BY <2>4, <3>4, <4>3
      <4>5. Cardinality(OpenKids(q)') = o + 1
        BY <4>4, OpenFacts, FS_AddElement
      <4> QED
        BY <2>1, <2>3, <3>2, <4>2, <4>5, SMT
    <3> QED
      BY <3>3, <3>4
  <2>7. CASE ~(d = 0 /\ p # head /\ Parent[p] = q)
    <3>1. d = 0 => p \notin Kids(q)
      BY <2>7 DEF Kids
    <3>2. OpenKids(q)' = OpenKids(q)
      BY <1>4, <1>7, <2>4, <3>1
    <3>3. TwiceKids(q)' = TwiceKids(q)
      BY <1>7, <2>5, <3>1
    <3>4. ~(pc' = "climb" /\ Parent[at'] = q)
      BY <1>7, <2>7
    <3>5. kahnNodes'[q].inDegree + 0 = o + t
      BY <2>1, <2>3, SMT
    <3> QED
      BY <3>2, <3>3, <3>4, <3>5
  <2> QED
    BY <2>6, <2>7
<1>13. ReachInv'
  <2>1. PICK s \in Slots : Valid[s] # None /\ at \in Ancestors[Valid[s]]
    BY <1>1 DEF ReachInv
  <2>2. Valid[s] \in blocks \ {head} /\ Valid[s] \in Blocks
    BY <1>1, <2>1, ValidFacts
  <2>3. p \in Ancestors[Valid[s]] /\ p \in Ancestors[Parent[Valid[s]]]
    <3>1. at = Parent[Valid[s]] \/ at \in Ancestors[Parent[Valid[s]]]
      BY <2>1, <2>2, TreeFacts
    <3>2. Parent[Valid[s]] \in Blocks
      BY <1>1, <2>2, TreeFacts
    <3>3. Ancestors[at] \subseteq Ancestors[Valid[s]]
      BY <2>1, <2>2, AncestorFacts
    <3>4. at \in Ancestors[Parent[Valid[s]]] => Ancestors[at] \subseteq Ancestors[Parent[Valid[s]]]
      BY <3>2, AncestorFacts
    <3> QED
      BY <1>2, <3>1, <3>3, <3>4
  <2>4. \A x \in todo' : \E t \in Slots : votes'[t] = x
    BY <1>1 DEF ReachInv
  <2>5. \A t \in Slots : Valid[t] # None /\ Valid[t] \notin todo' => Parent[Valid[t]] \in Seen'
    BY <1>1, <1>4 DEF ReachInv
  <2>6. \A b \in Seen' : \E t \in Slots : Valid[t] # None /\ b \in Ancestors[Valid[t]]
    BY <1>4, <2>1, <2>3 DEF ReachInv
  <2>7. \A b \in leaves : \E t \in Slots : Valid[t] # None /\ Parent[Valid[t]] = b
    BY <1>5 DEF ReachInv
  <2>8. leaves' \subseteq leaves
    BY <1>7
  <2>9. p \in leaves /\ p # head => p \in CountedTwice(Valid, blocks, head)
    BY <1>2, <2>1, <2>3, <2>7 DEF CountedTwice
  <2>10. twice' \subseteq CountedTwice(Valid, blocks, head)
    BY <1>7, <2>9 DEF ReachInv
  <2> QED
    BY <1>1, <1>9, <2>4, <2>5, <2>6, <2>7, <2>8, <2>10 DEF ReachInv
<1>14. BagInv'
  <2>1. \A q, c : Arrived(q, c)' = Arrived(q, c)
    <3> SUFFICES ASSUME NEW q, NEW c PROVE Arrived(q, c)' = Arrived(q, c)
      OBVIOUS
    <3>1. Arrived(q, c) = {s \in Slots : c \in Kids(q) /\ Valid[s] = c /\ c \notin todo}
      BY <1>5, CountingDone
    <3>2. Arrived(q, c)' = {s \in Slots : c \in Kids(q)' /\ Valid'[s] = c /\ c \notin todo'}
      BY <1>8, CountingDoneNext
    <3> QED
      BY <1>1, <1>9, <3>1, <3>2
  <2>2. \A q : ArrivedAt(q)' = ArrivedAt(q)
    BY <1>9, <2>1 DEF ArrivedAt
  <2>3. ASSUME NEW q \in blocks
        PROVE  /\ \A c \in Blocks : kahnNodes'[q].votes[c] = Cardinality(Arrived(q, c)')
               /\ kahnNodes'[q].size = Cardinality(ArrivedAt(q)')
    <3>1. kahnNodes'[q].votes = kahnNodes[q].votes /\ kahnNodes'[q].size = kahnNodes[q].size
      BY <1>1, <1>3
    <3> QED
      BY <2>1, <2>2, <3>1 DEF BagInv
  <2> QED
    BY <1>1, <2>3 DEF BagInv
<1> QED
  BY <1>1, <1>5, <1>8, <1>10, <1>11, <1>12, <1>13, <1>14, CountingStack

LEMMA CountedInv ==
    ASSUME Inv, Counted
    PROVE  Inv'
<1> USE DEF Inv
<1>1. /\ pc = "count" /\ todo = {} /\ pc' = "push"
      /\ UNCHANGED <<blocks, head, votes, todo, kahnNodes, leaves, voteStack, at, twice>>
  BY DEF Counted
<1>2. Counting /\ ~Counting' /\ Seen' = Seen
  BY <1>1 DEF Counting, Seen
<1>3. Done = {} /\ Done' = {}
  BY <1>1, <1>2 DEF Done, SeenInv
<1>4. Valid' = Valid /\ \A p : Kids(p)' = Kids(p)
  BY <1>1, SameVotes
<1>5. StateType'
  BY <1>1, <1>2 DEF StateType
<1>6. SeenInv'
  BY <1>1, <1>2 DEF SeenInv
<1>7. \A p : OpenKids(p)' = OpenKids(p) /\ TwiceKids(p)' = TwiceKids(p)
  BY <1>1, <1>2, <1>3, <1>4 DEF OpenKids, TwiceKids
<1>8. EdgeInv'
  BY <1>1, <1>7 DEF EdgeInv
<1>9. ReachInv'
  BY <1>1, <1>2, <1>4 DEF ReachInv
<1>10. \A p, c : Arrived(p, c)' = Arrived(p, c)
  BY <1>1, <1>3, <1>4 DEF Arrived
<1>11. \A p : ArrivedAt(p)' = ArrivedAt(p)
  BY <1>4, <1>10 DEF ArrivedAt
<1>12. BagInv'
  BY <1>1, <1>10, <1>11 DEF BagInv
<1>13. \A i \in 1..Len(voteStack) : FALSE
  BY <1>3 DEF StackInv
<1>14. DoneInv' /\ StackInv'
  BY <1>1, <1>3, <1>13 DEF DoneInv, StackInv
<1> QED
  BY <1>5, <1>6, <1>8, <1>9, <1>12, <1>14

-----------------------------------------------------------------------------
(* pushVotes *)

LEMMA SameVotesOf ==
    ASSUME UNCHANGED <<blocks, head>>, Valid' = Valid
    PROVE  \A x : VotesOf(x)' = VotesOf(x)
BY DEF VotesOf

LEMMA PushedInv ==
    ASSUME Inv, Pushed
    PROVE  Inv'
<1> USE DEF Inv
<1>1. /\ pc = "push" /\ leaves = {} /\ pc' = "done"
      /\ UNCHANGED <<blocks, head, votes, todo, kahnNodes, leaves, voteStack, at, twice>>
  BY DEF Pushed
<1>2. ~Counting /\ ~Counting' /\ Seen' = Seen
  BY <1>1 DEF Counting, Seen
<1>3. Done' = Done
  BY <1>1, <1>2 DEF Done
<1>4. Valid' = Valid /\ \A p : Kids(p)' = Kids(p)
  BY <1>1, SameVotes
<1>5. StateType'
  BY <1>1, <1>2 DEF StateType
<1>6. SeenInv'
  BY <1>1, <1>2 DEF SeenInv
<1>7. \A p : OpenKids(p)' = OpenKids(p) /\ TwiceKids(p)' = TwiceKids(p)
  BY <1>1, <1>2, <1>3, <1>4 DEF OpenKids, TwiceKids
<1>8. EdgeInv'
  BY <1>1, <1>7 DEF EdgeInv
<1>9. ReachInv'
  BY <1>1, <1>2, <1>4 DEF ReachInv
<1>10. \A p, c : Arrived(p, c)' = Arrived(p, c)
  BY <1>1, <1>3, <1>4 DEF Arrived
<1>11. \A p : ArrivedAt(p)' = ArrivedAt(p)
  BY <1>4, <1>10 DEF ArrivedAt
<1>12. BagInv'
  BY <1>1, <1>10, <1>11 DEF BagInv
<1>13. DoneInv'
  BY <1>1, <1>2, <1>3 DEF DoneInv
<1>14. StackInv'
  <2>1. \A x : VotesOf(x)' = VotesOf(x)
    BY <1>1, <1>4, SameVotesOf
  <2>2. StackIDs' = StackIDs
    BY <1>1 DEF StackIDs
  <2> QED
    BY <1>1, <1>3, <1>4, <2>1, <2>2 DEF StackInv
<1> QED
  BY <1>5, <1>6, <1>8, <1>9, <1>12, <1>13, <1>14

LEMMA PushNode ==
    ASSUME NEW n \in Node, NEW leaf \in Blocks, NEW k \in Nat
    PROVE  LET new == AddCount([n EXCEPT !.inDegree = @ - 1], leaf, k)
           IN  /\ new \in Node /\ new.seen = n.seen /\ new.inDegree = n.inDegree - 1 /\ new.size = n.size + k
               /\ \A c \in Blocks : new.votes[c] = IF c = leaf THEN n.votes[leaf] + k ELSE n.votes[c]
<1> DEFINE m == [n EXCEPT !.inDegree = n.inDegree - 1]
<1>1. n.inDegree - 1 \in Int /\ n.seen \in BOOLEAN
  BY SMT DEF Node
<1>2. m \in Node /\ m = [seen |-> n.seen, inDegree |-> n.inDegree - 1, votes |-> n.votes, size |-> n.size]
  BY <1>1, NodeFields
<1> HIDE DEF m
<1>3. m.seen = n.seen /\ m.inDegree = n.inDegree - 1 /\ m.votes = n.votes /\ m.size = n.size
  BY <1>2
<1>4. m \in Node
  BY <1>2
<1>5. /\ AddCount(m, leaf, k) \in Node
      /\ AddCount(m, leaf, k).seen = m.seen /\ AddCount(m, leaf, k).inDegree = m.inDegree
      /\ AddCount(m, leaf, k).size = m.size + k
      /\ \A c \in Blocks : AddCount(m, leaf, k).votes[c] = IF c = leaf THEN m.votes[leaf] + k ELSE m.votes[c]
  BY <1>4, AddCountFields
<1>6. /\ AddCount(m, leaf, k) \in Node
      /\ AddCount(m, leaf, k).seen = n.seen /\ AddCount(m, leaf, k).inDegree = n.inDegree - 1
      /\ AddCount(m, leaf, k).size = n.size + k
      /\ \A c \in Blocks : AddCount(m, leaf, k).votes[c] = IF c = leaf THEN n.votes[leaf] + k ELSE n.votes[c]
  BY <1>3, <1>5
<1> QED
  BY <1>6 DEF m

\* What pushing the votes of a leaf changes.
LEMMA PushFields ==
    ASSUME StateType, NEW leaf \in Blocks, NEW p \in Blocks,
           kahnNodes' = [kahnNodes EXCEPT ![p] =
                            AddCount([kahnNodes[p] EXCEPT !.inDegree = @ - 1], leaf, kahnNodes[leaf].size)]
    PROVE  /\ kahnNodes' \in [Blocks -> Node]
           /\ \A q \in Blocks : /\ kahnNodes'[q].seen = kahnNodes[q].seen
                                /\ q # p => kahnNodes'[q] = kahnNodes[q]
           /\ kahnNodes'[p].inDegree = kahnNodes[p].inDegree - 1
           /\ kahnNodes'[p].size = kahnNodes[p].size + kahnNodes[leaf].size
           /\ \A c \in Blocks :
                 kahnNodes'[p].votes[c] = IF c = leaf THEN kahnNodes[p].votes[leaf] + kahnNodes[leaf].size
                                                      ELSE kahnNodes[p].votes[c]
<1> DEFINE n == kahnNodes[p]
           k == kahnNodes[leaf].size
           new == AddCount([n EXCEPT !.inDegree = @ - 1], leaf, k)
<1>1. kahnNodes \in [Blocks -> Node] /\ n \in Node /\ k \in Nat
  <2>1. kahnNodes \in [Blocks -> Node] /\ n \in Node /\ kahnNodes[leaf] \in Node
    BY DEF StateType
  <2> QED
    BY <2>1, SMT DEF Node
<1>2. /\ new \in Node /\ new.seen = n.seen /\ new.inDegree = n.inDegree - 1 /\ new.size = n.size + k
      /\ \A c \in Blocks : new.votes[c] = IF c = leaf THEN n.votes[leaf] + k ELSE n.votes[c]
  <2> HIDE DEF n, k
  <2> QED
    BY <1>1, PushNode
<1>3. kahnNodes' = [kahnNodes EXCEPT ![p] = new]
  OBVIOUS
<1> HIDE DEF new
<1>4. kahnNodes' \in [Blocks -> Node] /\ kahnNodes'[p] = new /\ \A q \in Blocks : q # p => kahnNodes'[q] = kahnNodes[q]
  BY <1>1, <1>2, <1>3
<1> QED
  BY <1>2, <1>4

\* A leaf that is popped: its votes are all votes below it, and it becomes done.
LEMMA LeafFacts ==
    ASSUME Inv, pc = "push", NEW leaf \in leaves
    PROVE  /\ ~Counting /\ todo = {} /\ leaf \in Seen /\ leaf \in blocks /\ leaf \in Blocks
           /\ kahnNodes[leaf].inDegree = 0 /\ leaf \notin Done
           /\ kahnNodes[leaf].size = Cardinality(VotesBelow(Valid, leaf))
           /\ kahnNodes[leaf].votes = VotesOf(leaf)
           /\ leaf # head => /\ Parent[leaf] \in Seen /\ Parent[leaf] \in blocks /\ Parent[leaf] \in Blocks
                             /\ leaf \in Kids(Parent[leaf]) /\ leaf # Parent[leaf]
                             /\ kahnNodes[Parent[leaf]].inDegree # 0
                             /\ Parent[leaf] \notin leaves /\ Parent[leaf] \notin Done
<1> USE DEF Inv
<1>1. ~Counting /\ todo = {}
  BY DEF StateType, Counting
<1>2. leaf \in Seen /\ leaf \in blocks /\ leaf \in Blocks /\ kahnNodes[leaf].inDegree = 0 /\ leaf \notin Done
  BY DEF SeenInv, Seen, Done
<1>3. /\ ArrivedAt(leaf) = VotesBelow(Valid, leaf)
      /\ \A c \in Blocks : Arrived(leaf, c) = IF c \in Kids(leaf) THEN VotesThrough(Valid, c) ELSE {}
  BY <1>1, <1>2, AllArrived
<1>4. kahnNodes[leaf].size = Cardinality(VotesBelow(Valid, leaf))
  BY <1>2, <1>3 DEF BagInv
<1>5. kahnNodes[leaf].votes = VotesOf(leaf)
  <2>1. kahnNodes[leaf].votes \in [Blocks -> Nat]
    BY <1>2, SMT DEF StateType, Node
  <2>2. \A c \in Blocks : kahnNodes[leaf].votes[c] = IF c \in Kids(leaf) THEN Cardinality(VotesThrough(Valid, c)) ELSE 0
    <3> SUFFICES ASSUME NEW c \in Blocks
                 PROVE  kahnNodes[leaf].votes[c] = IF c \in Kids(leaf) THEN Cardinality(VotesThrough(Valid, c)) ELSE 0
      OBVIOUS
    <3>1. kahnNodes[leaf].votes[c] = Cardinality(Arrived(leaf, c))
      BY <1>2 DEF BagInv
    <3> QED
      BY <1>3, <3>1, FS_EmptySet
  <2>3. \A c \in Blocks : VotesOf(leaf)[c] = IF c \in Kids(leaf) THEN Cardinality(VotesThrough(Valid, c)) ELSE 0
    BY DEF VotesOf, Kids
  <2>4. \A c \in Blocks : kahnNodes[leaf].votes[c] = VotesOf(leaf)[c]
    BY <2>2, <2>3
  <2> QED
    BY <2>1, <2>4 DEF VotesOf
<1>6. ASSUME leaf # head
      PROVE  /\ Parent[leaf] \in Seen /\ Parent[leaf] \in blocks /\ Parent[leaf] \in Blocks
             /\ leaf \in Kids(Parent[leaf]) /\ leaf # Parent[leaf]
             /\ kahnNodes[Parent[leaf]].inDegree # 0
             /\ Parent[leaf] \notin leaves /\ Parent[leaf] \notin Done
  <2>1. Parent[leaf] \in Seen /\ Parent[leaf] \in blocks /\ Parent[leaf] \in Blocks
    BY <1>2, <1>6 DEF SeenInv, Seen
  <2>2. leaf \in Kids(Parent[leaf])
    BY <1>2, <1>6 DEF Kids
  <2>3. leaf \in OpenKids(Parent[leaf])
    BY <1>2, <2>2 DEF OpenKids
  <2>4. kahnNodes[Parent[leaf]].inDegree # 0
    BY <2>1, <2>3, NoOpenEdge
  <2>5. leaf # Parent[leaf]
    BY <2>1, <2>2, KidFacts
  <2> QED
    BY <2>1, <2>2, <2>4, <2>5 DEF SeenInv, Done
<1> QED
  BY <1>1, <1>2, <1>4, <1>5, <1>6

LEMMA PushFacts ==
    ASSUME Inv, pc = "push", NEW leaf \in leaves, Push(leaf), UNCHANGED <<blocks, head, votes, todo, pc, at, twice>>
    PROVE  /\ kahnNodes' \in [Blocks -> Node]
           /\ ~Counting' /\ Seen' = Seen /\ Done' = Done \cup {leaf}
           /\ Valid' = Valid /\ \A q : Kids(q)' = Kids(q)
           /\ SeenInv' /\ ReachInv'
<1> USE DEF Inv
<1>1. /\ ~Counting /\ todo = {} /\ leaf \in Seen /\ leaf \in blocks /\ leaf \in Blocks
      /\ kahnNodes[leaf].inDegree = 0 /\ leaf \notin Done
  BY LeafFacts
<1>2. ~Counting'
  BY <1>1 DEF Counting
<1>3. Valid' = Valid /\ \A q : Kids(q)' = Kids(q)
  BY SameVotes
<1>4. /\ kahnNodes' \in [Blocks -> Node] /\ Seen' = Seen /\ Done' = Done \cup {leaf}
      /\ leaves' \subseteq Seen /\ \A b \in leaves' : kahnNodes'[b].inDegree = 0
      /\ \A b \in blocks : kahnNodes'[b].inDegree # 0 => b \in Seen
  <2>1. CASE leaf = head
    <3>1. kahnNodes' = kahnNodes /\ leaves' = leaves \ {leaf}
      BY <2>1 DEF Push
    <3>2. Seen' = Seen
      BY <3>1 DEF Seen
    <3>3. Done' = Done \cup {leaf}
      BY <1>1, <1>2, <3>1, <3>2 DEF Done
    <3> QED
      BY <3>1, <3>2, <3>3 DEF StateType, SeenInv
  <2>2. CASE leaf # head
    <3> DEFINE p == Parent[leaf]
    <3>1. /\ p \in Seen /\ p \in blocks /\ p \in Blocks /\ leaf # p
          /\ kahnNodes[p].inDegree # 0 /\ p \notin leaves /\ p \notin Done
      BY <2>2, LeafFacts
    <3>2. /\ kahnNodes' = [kahnNodes EXCEPT ![p] =
                              AddCount([kahnNodes[p] EXCEPT !.inDegree = @ - 1], leaf, kahnNodes[leaf].size)]
          /\ leaves' = (leaves \ {leaf}) \cup (IF kahnNodes'[p].inDegree = 0 THEN {p} ELSE {})
      BY <2>2 DEF Push, IsLeaf
    <3>3. /\ kahnNodes' \in [Blocks -> Node]
          /\ \A q \in Blocks : /\ kahnNodes'[q].seen = kahnNodes[q].seen
                               /\ q # p => kahnNodes'[q] = kahnNodes[q]
      BY <1>1, <3>1, <3>2, PushFields
    <3>4. /\ kahnNodes'[p].inDegree = 0 => leaves' = (leaves \ {leaf}) \cup {p}
          /\ kahnNodes'[p].inDegree # 0 => leaves' = leaves \ {leaf}
      BY <3>2
    <3> HIDE <3>2 DEF p
    <3>5. Seen' = Seen
      BY <3>3 DEF Seen
    <3>6. \A b \in Seen : b \in Done' <=> b \in Done \cup {leaf}
      <4> SUFFICES ASSUME NEW b \in Seen PROVE b \in Done' <=> b \in Done \cup {leaf}
        OBVIOUS
      <4>1. b \in Done' <=> kahnNodes'[b].inDegree = 0 /\ b \notin leaves'
        BY <1>2, <3>5 DEF Done
      <4>2. b \in Done <=> kahnNodes[b].inDegree = 0 /\ b \notin leaves
        BY <1>1 DEF Done
      <4>3. b \in Blocks
        BY DEF Seen
      <4>4. CASE b = p
        BY <3>1, <3>4, <4>1, <4>4
      <4>5. CASE b # p
        <5>1. kahnNodes'[b] = kahnNodes[b] /\ (b \in leaves' <=> b \in leaves /\ b # leaf)
          BY <3>3, <3>4, <4>3, <4>5
        <5> QED
          BY <1>1, <4>1, <4>2, <5>1
      <4> QED
        BY <4>4, <4>5
    <3>7. Done' = Done \cup {leaf}
      <4>1. Done' \subseteq Seen /\ Done \cup {leaf} \subseteq Seen
        BY <1>1, <3>5 DEF Done
      <4> QED
        BY <3>6, <4>1
    <3>8. leaves' \subseteq Seen /\ \A b \in leaves' : kahnNodes'[b].inDegree = 0
      <4>1. \A b \in leaves : b \in Seen /\ b \in Blocks /\ kahnNodes[b].inDegree = 0
        BY DEF SeenInv, Seen
      <4> QED
        BY <3>1, <3>3, <3>4, <4>1
    <3>9. \A b \in blocks : kahnNodes'[b].inDegree # 0 => b \in Seen
      <4>1. blocks \subseteq Blocks
        BY DEF StateType
      <4> QED
        BY <3>1, <3>3, <4>1 DEF SeenInv
    <3> QED
      BY <3>3, <3>5, <3>7, <3>8, <3>9
  <2> QED
    BY <2>1, <2>2
<1>5. SeenInv'
  BY <1>2, <1>4 DEF SeenInv
<1>6. ReachInv'
  BY <1>2, <1>3, <1>4 DEF ReachInv
<1> QED
  BY <1>2, <1>3, <1>4, <1>5, <1>6

\* The nodes of the blocks: only the parent of the leaf changes.
LEMMA PushNodes ==
    ASSUME Inv, pc = "push", NEW leaf \in leaves, Push(leaf), UNCHANGED <<blocks, head, votes, todo, pc, at, twice>>
    PROVE  /\ \A q \in blocks : leaf \notin Kids(q) => kahnNodes'[q] = kahnNodes[q]
           /\ \A q \in blocks : leaf \in Kids(q) =>
                 /\ kahnNodes'[q].inDegree = kahnNodes[q].inDegree - 1
                 /\ kahnNodes'[q].size = kahnNodes[q].size + Cardinality(VotesBelow(Valid, leaf))
                 /\ \A c \in Blocks :
                       kahnNodes'[q].votes[c] = IF c = leaf
                                                THEN kahnNodes[q].votes[leaf] + Cardinality(VotesBelow(Valid, leaf))
                                                ELSE kahnNodes[q].votes[c]
<1>1. leaf \in Blocks /\ kahnNodes[leaf].size = Cardinality(VotesBelow(Valid, leaf)) /\ leaf \in blocks
  BY LeafFacts
<1>2. blocks \subseteq Blocks
  BY DEF Inv, StateType
<1>3. CASE leaf = head
  BY <1>3 DEF Push, Kids
<1>4. CASE leaf # head
  <2> DEFINE p == Parent[leaf]
  <2>1. p \in Blocks /\ \A q : leaf \in Kids(q) <=> q = p
    BY <1>1, <1>4, LeafFacts DEF Kids
  <2>2. kahnNodes' = [kahnNodes EXCEPT ![p] =
                         AddCount([kahnNodes[p] EXCEPT !.inDegree = @ - 1], leaf, kahnNodes[leaf].size)]
    BY <1>4 DEF Push
  <2>3. StateType
    BY DEF Inv
  <2>4. /\ \A q \in Blocks : q # p => kahnNodes'[q] = kahnNodes[q]
        /\ kahnNodes'[p].inDegree = kahnNodes[p].inDegree - 1
        /\ kahnNodes'[p].size = kahnNodes[p].size + kahnNodes[leaf].size
        /\ \A c \in Blocks :
              kahnNodes'[p].votes[c] = IF c = leaf THEN kahnNodes[p].votes[leaf] + kahnNodes[leaf].size
                                                   ELSE kahnNodes[p].votes[c]
    BY <1>1, <2>1, <2>2, <2>3, PushFields
  <2> HIDE <2>2 DEF p
  <2>5. \A q \in blocks : leaf \notin Kids(q) => kahnNodes'[q] = kahnNodes[q]
    BY <1>2, <2>1, <2>4
  <2>6. ASSUME NEW q \in blocks, leaf \in Kids(q)
        PROVE  /\ kahnNodes'[q].inDegree = kahnNodes[q].inDegree - 1
               /\ kahnNodes'[q].size = kahnNodes[q].size + Cardinality(VotesBelow(Valid, leaf))
               /\ \A c \in Blocks :
                     kahnNodes'[q].votes[c] = IF c = leaf
                                              THEN kahnNodes[q].votes[leaf] + Cardinality(VotesBelow(Valid, leaf))
                                              ELSE kahnNodes[q].votes[c]
    <3>1. q = p
      BY <2>1, <2>6
    <3> QED
      BY <1>1, <2>4, <3>1
  <2> QED
    BY <2>5, <2>6
<1> QED
  BY <1>3, <1>4

LEMMA PushEdge ==
    ASSUME Inv, pc = "push", NEW leaf \in leaves, Push(leaf), UNCHANGED <<blocks, head, votes, todo, pc, at, twice>>
    PROVE  EdgeInv'
<1> USE DEF Inv
<1> SUFFICES ASSUME NEW q \in blocks
             PROVE  kahnNodes'[q].inDegree + 0 = Cardinality(OpenKids(q)') + Cardinality(TwiceKids(q)')
  BY DEF EdgeInv
<1>1. leaf \in Seen /\ leaf \notin Done
  BY LeafFacts
<1>2. Seen' = Seen /\ Done' = Done \cup {leaf} /\ Kids(q)' = Kids(q)
  BY PushFacts
<1>3. TwiceKids(q)' = TwiceKids(q)
  BY <1>2 DEF TwiceKids
<1>4. OpenKids(q)' = OpenKids(q) \ {leaf}
  BY <1>2 DEF OpenKids
<1>5. kahnNodes[q].inDegree + 0 = Cardinality(OpenKids(q)) + Cardinality(TwiceKids(q))
  BY DEF EdgeInv
<1>6. CASE leaf \notin Kids(q)
  <2>1. OpenKids(q)' = OpenKids(q)
    BY <1>4, <1>6 DEF OpenKids
  <2>2. kahnNodes'[q] = kahnNodes[q]
    BY <1>6, PushNodes
  <2> QED
    BY <1>3, <1>5, <2>1, <2>2
<1>7. CASE leaf \in Kids(q)
  <2>1. leaf \in OpenKids(q)
    BY <1>1, <1>7 DEF OpenKids
  <2>2. Cardinality(OpenKids(q)') = Cardinality(OpenKids(q)) - 1
    BY <1>4, <2>1, OpenFacts, FS_RemoveElement
  <2>3. kahnNodes'[q].inDegree = kahnNodes[q].inDegree - 1
    BY <1>7, PushNodes
  <2>4. kahnNodes[q].inDegree \in Int
    BY SMT DEF StateType, Node
  <2>5. Cardinality(OpenKids(q)) \in Nat /\ Cardinality(TwiceKids(q)) \in Nat
    BY OpenFacts
  <2> QED
    BY <1>3, <1>5, <2>2, <2>3, <2>4, <2>5, SMT
<1> QED
  BY <1>6, <1>7

LEMMA PushBag ==
    ASSUME Inv, pc = "push", NEW leaf \in leaves, Push(leaf), UNCHANGED <<blocks, head, votes, todo, pc, at, twice>>
    PROVE  BagInv'
<1> USE DEF Inv
<1> DEFINE V == VotesBelow(Valid, leaf)
<1>1. leaf \notin Done /\ leaf \in Blocks /\ todo = {}
  BY LeafFacts
<1>2. Done' = Done \cup {leaf} /\ Valid' = Valid /\ \A q : Kids(q)' = Kids(q)
  BY PushFacts
<1>3. V \in SUBSET Slots
  BY DEF VotesBelow
<1>4. ASSUME NEW q, NEW c, c # leaf \/ leaf \notin Kids(q)
      PROVE  Arrived(q, c)' = Arrived(q, c)
  <2>1. c \in Kids(q) => (c \in Done' <=> c \in Done)
    BY <1>2, <1>4
  <2> QED
    BY <1>2, <2>1 DEF Arrived
<1>5. ASSUME NEW q \in blocks, leaf \notin Kids(q)
      PROVE  /\ \A c \in Blocks : kahnNodes'[q].votes[c] = Cardinality(Arrived(q, c)')
             /\ kahnNodes'[q].size = Cardinality(ArrivedAt(q)')
  <2>1. kahnNodes'[q] = kahnNodes[q]
    BY <1>5, PushNodes
  <2>2. \A c : Arrived(q, c)' = Arrived(q, c)
    BY <1>4, <1>5
  <2>3. ArrivedAt(q)' = ArrivedAt(q)
    BY <1>2, <2>2 DEF ArrivedAt
  <2> QED
    BY <2>1, <2>2, <2>3 DEF BagInv
<1>6. ASSUME NEW q \in blocks, leaf \in Kids(q)
      PROVE  /\ \A c \in Blocks : kahnNodes'[q].votes[c] = Cardinality(Arrived(q, c)')
             /\ kahnNodes'[q].size = Cardinality(ArrivedAt(q)')
  <2>1. /\ kahnNodes'[q].size = kahnNodes[q].size + Cardinality(V)
        /\ \A c \in Blocks : kahnNodes'[q].votes[c] = IF c = leaf THEN kahnNodes[q].votes[leaf] + Cardinality(V)
                                                                  ELSE kahnNodes[q].votes[c]
    BY <1>6, PushNodes
  <2>2. Arrived(q, leaf) \in SUBSET Slots /\ ArrivedAt(q) \in SUBSET Slots
    BY DEF Arrived, ArrivedAt
  <2>3. \A s : s \in Arrived(q, leaf) <=> s \in Slots /\ Valid[s] = leaf
    BY <1>1, <1>6 DEF Arrived
  <2>4. \A s : s \in Arrived(q, leaf)' <=> s \in Slots /\ (Valid[s] = leaf \/ s \in V)
    BY <1>1, <1>2, <1>6 DEF Arrived
  <2>5. Arrived(q, leaf)' = Arrived(q, leaf) \cup V
    <3> HIDE DEF V
    <3>1. \A s : s \in Arrived(q, leaf)' <=> s \in Arrived(q, leaf) \/ s \in V
      BY <1>3, <2>3, <2>4
    <3> QED
      BY <3>1
  <2>6. ArrivedAt(q)' = ArrivedAt(q) \cup V
    <3>1. \A s \in Slots : s \in ArrivedAt(q)' <=> \E c \in Kids(q) : s \in Arrived(q, c)'
      BY <1>2 DEF ArrivedAt
    <3>2. \A s \in Slots : s \in ArrivedAt(q) <=> \E c \in Kids(q) : s \in Arrived(q, c)
      BY DEF ArrivedAt
    <3>3. \A s \in Slots : s \in ArrivedAt(q)' <=> s \in ArrivedAt(q) \/ s \in V
      BY <1>4, <1>6, <2>5, <3>1, <3>2
    <3>4. ArrivedAt(q)' \subseteq Slots
      BY DEF ArrivedAt
    <3> QED
      BY <1>3, <2>2, <3>3, <3>4
  <2>7. ArrivedAt(q) \cap V = {}
    <3> SUFFICES ASSUME NEW s \in ArrivedAt(q), s \in V
                 PROVE  FALSE
      OBVIOUS
    <3>1. PICK c \in Kids(q) : s \in Arrived(q, c)
      BY DEF ArrivedAt
    <3>2. s \in Slots /\ Valid[s] # None /\ leaf \in Ancestors[Valid[s]]
      BY DEF VotesBelow
    <3>3. Valid[s] \in Blocks
      BY <3>2, ValidFacts, TreeFacts
    <3>4. Valid[s] = c \/ (c \in Done /\ c \in Ancestors[Valid[s]])
      BY <3>1 DEF Arrived, VotesBelow
    <3>5. c = leaf
      BY <1>6, <3>2, <3>3, <3>4, OneKid
    <3> QED
      BY <1>1, <3>2, <3>4, <3>5, NotOwnAncestor
  <2>8. Arrived(q, leaf) \subseteq ArrivedAt(q)
    BY <1>6, <2>2 DEF ArrivedAt
  <2>9. /\ Cardinality(Arrived(q, leaf)') = Cardinality(Arrived(q, leaf)) + Cardinality(V)
        /\ Cardinality(ArrivedAt(q)') = Cardinality(ArrivedAt(q)) + Cardinality(V)
    <3>1. Arrived(q, leaf) \cap V = {}
      BY <2>7, <2>8
    <3>2. Cardinality(Arrived(q, leaf)') = Cardinality(Arrived(q, leaf)) + Cardinality(V)
      BY <1>3, <2>2, <2>5, <3>1, DisjointSlots
    <3>3. Cardinality(ArrivedAt(q)') = Cardinality(ArrivedAt(q)) + Cardinality(V)
      BY <1>3, <2>2, <2>6, <2>7, DisjointSlots
    <3> QED
      BY <3>2, <3>3
  <2>10. kahnNodes'[q].size = Cardinality(ArrivedAt(q)')
    BY <2>1, <2>9 DEF BagInv
  <2>11. kahnNodes'[q].votes[leaf] = Cardinality(Arrived(q, leaf)')
    BY <1>1, <2>1, <2>9 DEF BagInv
  <2>12. \A c \in Blocks : c # leaf => kahnNodes'[q].votes[c] = Cardinality(Arrived(q, c)')
    <3> SUFFICES ASSUME NEW c \in Blocks, c # leaf
                 PROVE  kahnNodes'[q].votes[c] = Cardinality(Arrived(q, c)')
      OBVIOUS
    <3>1. kahnNodes'[q].votes[c] = kahnNodes[q].votes[c]
      BY <2>1
    <3>2. kahnNodes[q].votes[c] = Cardinality(Arrived(q, c))
      BY DEF BagInv
    <3> QED
      BY <1>4, <3>1, <3>2
  <2> QED
    BY <2>10, <2>11, <2>12
<1> QED
  BY <1>5, <1>6 DEF BagInv

\* The stack stays a chain: two blocks with alpha votes below them share a vote, so
\* one is above the other, and the one above is popped later.
LEMMA PushStack ==
    ASSUME Inv, pc = "push", NEW leaf \in leaves, Push(leaf), UNCHANGED <<blocks, head, votes, todo, pc, at, twice>>
    PROVE  /\ DoneInv' /\ StackInv'
           /\ voteStack' \in Seq([parentID : Blocks, votes : [Blocks -> Nat]])
<1> USE DEF Inv
<1> DEFINE Item == [parentID : Blocks, votes : [Blocks -> Nat]]
           item == [parentID |-> leaf, votes |-> kahnNodes[leaf].votes]
           Below(b) == Cardinality(VotesBelow(Valid, b))
<1>1. /\ ~Counting /\ leaf \in Seen /\ leaf \in Blocks /\ leaf \in blocks /\ kahnNodes[leaf].inDegree = 0
      /\ leaf \notin Done /\ kahnNodes[leaf].size = Below(leaf) /\ kahnNodes[leaf].votes = VotesOf(leaf)
  BY LeafFacts
<1>2. Seen' = Seen /\ Done' = Done \cup {leaf} /\ Valid' = Valid
  BY PushFacts
<1>3. (\A x \in Seen : leaf \in Ancestors[x] => x \in Done) /\ \A n \in twice : leaf \notin Ancestors[n]
  BY <1>1, AllArrived
<1>4. DoneInv'
  BY <1>2, <1>3 DEF DoneInv
<1>5. \A x : VotesOf(x)' = VotesOf(x)
  BY <1>2, SameVotesOf
<1>6. voteStack \in Seq(Item) /\ item \in Item
  <2>1. kahnNodes[leaf].votes \in [Blocks -> Nat]
    BY <1>1, SMT DEF StateType, Node
  <2> QED
    BY <1>1, <2>1 DEF StateType
<1>7. /\ \A i \in 1..Len(voteStack) :
            /\ voteStack[i].parentID \in Done
            /\ Below(voteStack[i].parentID) >= Alpha
            /\ voteStack[i].votes = VotesOf(voteStack[i].parentID)
            /\ \A j \in 1..(i - 1) : voteStack[i].parentID \in Ancestors[voteStack[j].parentID]
      /\ \A b \in Done : Below(b) >= Alpha => b \in StackIDs
  BY DEF StackInv
<1>8. CASE ~(Below(leaf) >= Alpha)
  <2>1. voteStack' = voteStack
    BY <1>1, <1>8 DEF Push
  <2>2. StackIDs' = StackIDs
    BY <2>1 DEF StackIDs
  <2>3. \A b \in Done' : Cardinality(VotesBelow(Valid', b)) >= Alpha => b \in StackIDs'
    BY <1>2, <1>7, <1>8, <2>2
  <2>4. \A i \in 1..Len(voteStack') :
            /\ voteStack'[i].parentID \in Done'
            /\ Cardinality(VotesBelow(Valid', voteStack'[i].parentID)) >= Alpha
            /\ voteStack'[i].votes = VotesOf(voteStack[i].parentID)
            /\ \A j \in 1..(i - 1) : voteStack'[i].parentID \in Ancestors[voteStack'[j].parentID]
    BY <1>2, <1>7, <2>1
  <2>5. StackInv'
    BY <1>5, <2>1, <2>3, <2>4 DEF StackInv
  <2> QED
    BY <1>4, <1>6, <2>1, <2>5
<1>9. CASE Below(leaf) >= Alpha
  <2> DEFINE N == Len(voteStack)
  <2>1. voteStack' = Append(voteStack, item)
    BY <1>1, <1>9 DEF Push
  <2>2. /\ voteStack' \in Seq(Item) /\ N \in Nat /\ Len(voteStack') = N + 1
        /\ \A i \in 1..N : voteStack'[i] = voteStack[i]
        /\ voteStack'[N + 1] = item
    BY <1>6, <2>1, SMT
  <2>3. item.parentID = leaf /\ item.votes = VotesOf(leaf)
    BY <1>1
  <2> HIDE DEF item, Item, N
  <2>4. \A i \in 1..(N + 1) : i \in 1..N \/ i = N + 1
    BY <2>2, SMT
  <2>5. \A i \in 1..N : \A j \in 1..(i - 1) : j \in 1..N
    BY <2>2, SMT
  <2>6. \A i \in 1..N : i \in 1..(N + 1)
    BY <2>2, SMT
  <2>7. \A j \in 1..((N + 1) - 1) : j \in 1..N
    BY <2>2, SMT
  <2>8. ASSUME NEW j \in 1..N
        PROVE  leaf \in Ancestors[voteStack[j].parentID]
    <3> DEFINE x == voteStack[j].parentID
    <3>1. x \in Done /\ Below(x) >= Alpha
      BY <1>7 DEF N
    <3>2. VotesBelow(Valid, x) \in SUBSET Slots /\ VotesBelow(Valid, leaf) \in SUBSET Slots
      BY DEF VotesBelow
    <3>3. PICK s \in Slots : s \in VotesBelow(Valid, x) /\ s \in VotesBelow(Valid, leaf)
      BY <1>9, <3>1, <3>2, Majorities
    <3>4. Valid[s] # None /\ x \in Ancestors[Valid[s]] /\ leaf \in Ancestors[Valid[s]]
      BY <3>3 DEF VotesBelow
    <3>5. Valid[s] \in Blocks
      BY <3>4, ValidFacts, TreeFacts
    <3>6. x # leaf
      BY <1>1, <3>1
    <3>7. leaf \in Ancestors[x] \/ x \in Ancestors[leaf]
      BY <3>4, <3>5, <3>6, AncestorChain
    <3>8. x \notin Ancestors[leaf]
      BY <1>1, <3>1 DEF DoneInv
    <3> QED
      BY <3>7, <3>8
  <2>9. ASSUME NEW i \in 1..Len(voteStack')
        PROVE  /\ voteStack'[i].parentID \in Done'
               /\ Cardinality(VotesBelow(Valid', voteStack'[i].parentID)) >= Alpha
               /\ voteStack'[i].votes = VotesOf(voteStack'[i].parentID)
               /\ \A j \in 1..(i - 1) : voteStack'[i].parentID \in Ancestors[voteStack'[j].parentID]
    <3>1. CASE i \in 1..N
      <4>1. voteStack'[i] = voteStack[i]
        BY <2>2, <3>1
      <4>2. i \in 1..Len(voteStack)
        BY <3>1 DEF N
      <4>3. \A j \in 1..(i - 1) : voteStack'[j] = voteStack[j]
        BY <2>2, <2>5, <3>1
      <4> QED
        BY <1>2, <1>7, <4>1, <4>2, <4>3
    <3>2. CASE i = N + 1
      <4>1. voteStack'[i].parentID = leaf /\ voteStack'[i].votes = VotesOf(leaf)
        BY <2>2, <2>3, <3>2
      <4>2. \A j \in 1..(i - 1) : voteStack'[j] = voteStack[j] /\ leaf \in Ancestors[voteStack[j].parentID]
        BY <2>2, <2>7, <2>8, <3>2
      <4> QED
        BY <1>2, <1>9, <4>1, <4>2
    <3> QED
      BY <2>2, <2>4, <3>1, <3>2
  <2>10. StackIDs' = StackIDs \cup {leaf}
    <3>1. StackIDs' = {voteStack'[i].parentID : i \in 1..(N + 1)}
      BY <2>2 DEF StackIDs
    <3>2. StackIDs = {voteStack[i].parentID : i \in 1..N}
      BY DEF StackIDs, N
    <3>3. N + 1 \in 1..(N + 1)
      BY <2>2, SMT
    <3>4. \A b : b \in StackIDs' <=> b \in StackIDs \/ b = leaf
      BY <2>2, <2>3, <2>4, <2>6, <3>1, <3>2, <3>3
    <3> QED
      BY <3>4
  <2>11. \A b \in Done' : Cardinality(VotesBelow(Valid', b)) >= Alpha => b \in StackIDs'
    BY <1>2, <1>7, <2>10
  <2>12. StackInv'
    BY <1>2, <1>5, <2>9, <2>11 DEF StackInv, VotesOf
  <2> QED
    BY <1>4, <2>2, <2>12 DEF Item
<1> QED
  BY <1>8, <1>9

LEMMA PushLeafInv ==
    ASSUME Inv, PushLeaf
    PROVE  Inv'
<1>1. PICK leaf \in leaves : Push(leaf)
  BY DEF PushLeaf
<1>2. pc = "push" /\ UNCHANGED <<blocks, head, votes, todo, pc, at, twice>>
  BY DEF PushLeaf
<1>3. /\ kahnNodes' \in [Blocks -> Node] /\ ~Counting' /\ SeenInv' /\ ReachInv'
  BY <1>1, <1>2, PushFacts
<1>4. EdgeInv' /\ BagInv'
  BY <1>1, <1>2, PushEdge, PushBag
<1>5. DoneInv' /\ StackInv' /\ voteStack' \in Seq([parentID : Blocks, votes : [Blocks -> Nat]])
  BY <1>1, <1>2, PushStack
<1>6. todo = {}
  BY <1>1, <1>2, LeafFacts
<1>7. StateType'
  BY <1>2, <1>3, <1>5, <1>6 DEF Inv, StateType
<1> QED
  BY <1>3, <1>4, <1>5, <1>7 DEF Inv

-----------------------------------------------------------------------------
(* Theorems *)

LEMMA InitInv ==
    ASSUME Init
    PROVE  Inv
<1>1. kahnNodes = [b \in Blocks |-> NewNode] /\ NewNode \in Node /\ NewNode.seen = FALSE /\ NewNode.inDegree = 0
      /\ NewNode.size = 0 /\ \A c \in Blocks : NewNode.votes[c] = 0
  BY SMT DEF Init, NewNode, Node
<1>2. /\ kahnNodes \in [Blocks -> Node]
      /\ \A b \in Blocks : /\ ~kahnNodes[b].seen /\ kahnNodes[b].inDegree = 0 /\ kahnNodes[b].size = 0
                           /\ \A c \in Blocks : kahnNodes[b].votes[c] = 0
  BY <1>1
<1>3. Seen = {} /\ Done = {} /\ Counting /\ leaves = {} /\ voteStack = <<>> /\ twice = {} /\ pc = "count"
  BY <1>2 DEF Init, Seen, Done, Counting
<1>4. head \in blocks /\ blocks \subseteq Blocks /\ \A b \in blocks \ {head} : head \in Ancestors[b] /\ Parent[b] \in blocks
  BY DEF Init
<1>5. Len(voteStack) = 0 /\ voteStack \in Seq([parentID : Blocks, votes : [Blocks -> Nat]]) /\ \A i \in 1..Len(voteStack) : FALSE
  BY <1>3, SMT
<1>6. StateType
  BY <1>2, <1>3, <1>4, <1>5 DEF Init, StateType
<1>7. SeenInv
  <2>1. IsFiniteSet(Seen) /\ 0 \in Nat
    BY <1>3, FS_EmptySet
  <2> QED
    BY <1>2, <1>3, <1>4, <2>1 DEF SeenInv
<1>8. EdgeInv
  <2>1. \A p : OpenKids(p) = {} /\ TwiceKids(p) = {}
    BY <1>3 DEF OpenKids, TwiceKids
  <2>2. Cardinality({}) = 0 /\ 0 + 0 = 0
    BY FS_EmptySet, SMT
  <2>3. pc # "climb"
    BY <1>3
  <2> QED
    BY <1>2, <1>4, <2>1, <2>2, <2>3 DEF EdgeInv
<1>9. \A s \in Slots : Valid[s] # None => Valid[s] \in todo
  <2>1. todo = {votes[s] : s \in Slots} \ {None}
    BY DEF Init
  <2> QED
    BY <1>6, <2>1, ValidFacts
<1>10. ReachInv
  BY <1>3, <1>9 DEF Init, ReachInv
<1>11. BagInv
  <2>1. \A p, c : Arrived(p, c) = {}
    <3>1. None \notin Blocks
      BY BlockAssumption
    <3>2. \A c \in blocks : c # None
      BY <1>4, <3>1
    <3> QED
      BY <1>3, <1>9, <3>2 DEF Arrived, Kids
  <2>2. \A p : ArrivedAt(p) = {}
    BY <2>1 DEF ArrivedAt
  <2> QED
    BY <1>2, <1>4, <2>1, <2>2, FS_EmptySet DEF BagInv
<1>12. DoneInv /\ StackInv
  BY <1>3, <1>5 DEF DoneInv, StackInv
<1> QED
  BY <1>6, <1>7, <1>8, <1>10, <1>11, <1>12 DEF Inv

LEMMA NextInv ==
    ASSUME Inv, [Next]_vars
    PROVE  Inv'
<1>1. CASE TakeVote
  <2>1. PICK v \in todo : todo' = todo \ {v} /\ (DropVote(v) \/ CountVote(v))
    BY <1>1 DEF TakeVote
  <2>2. pc = "count" /\ UNCHANGED <<blocks, head, votes, voteStack, twice>>
    BY <1>1 DEF TakeVote
  <2> QED
    BY <2>1, <2>2, DropVoteInv, CountVoteInv
<1>2. CASE Climb
  BY <1>2, ClimbInv
<1>3. CASE Counted
  BY <1>3, CountedInv
<1>4. CASE PushLeaf
  BY <1>4, PushLeafInv
<1>5. CASE Pushed
  BY <1>5, PushedInv
<1>6. CASE UNCHANGED vars
  <2> USE DEF Inv
  <2>1. UNCHANGED <<blocks, head, votes, todo, kahnNodes, leaves, voteStack, pc, at, twice>>
    BY <1>6 DEF vars
  <2>2. /\ Seen' = Seen /\ Done' = Done /\ (Counting' <=> Counting)
        /\ Valid' = Valid /\ \A p : Kids(p)' = Kids(p)
    BY <2>1, SameVotes DEF Seen, Done, Counting
  <2>3. StateType' /\ SeenInv'
    BY <2>1, <2>2 DEF StateType, SeenInv
  <2>4. \A p : OpenKids(p)' = OpenKids(p) /\ TwiceKids(p)' = TwiceKids(p)
    BY <2>1, <2>2 DEF OpenKids, TwiceKids
  <2>5. EdgeInv'
    BY <2>1, <2>4 DEF EdgeInv
  <2>6. ReachInv'
    BY <2>1, <2>2 DEF ReachInv
  <2>7. \A p, c : Arrived(p, c)' = Arrived(p, c)
    BY <2>1, <2>2 DEF Arrived
  <2>8. \A p : ArrivedAt(p)' = ArrivedAt(p)
    BY <2>2, <2>7 DEF ArrivedAt
  <2>9. BagInv' /\ DoneInv'
    BY <2>1, <2>2, <2>7, <2>8 DEF BagInv, DoneInv
  <2>10. (\A x : VotesOf(x)' = VotesOf(x)) /\ StackIDs' = StackIDs
    BY <2>1, <2>2, SameVotesOf DEF StackIDs
  <2>11. StackInv'
    BY <2>1, <2>2, <2>10 DEF StackInv
  <2> QED
    BY <2>3, <2>5, <2>6, <2>9, <2>11
<1> QED
  BY <1>1, <1>2, <1>3, <1>4, <1>5, <1>6 DEF Next

\* The inductive invariant: keys form a subtree, inDegree counts its open edges and
\* the edges counted twice, each bag holds the votes that arrived, and the stack is
\* a chain of popped blocks.
THEOREM InvAlways == Spec => []Inv
<1>1. Init => Inv
  BY InitInv
<1>2. Inv /\ [Next]_vars => Inv'
  BY NextInv
<1> QED
  BY <1>1, <1>2, PTL DEF Spec

\* When no leaf is left, a key that was not popped is above a block counted twice.
LEMMA LeftOver ==
    ASSUME Inv, pc = "done", NEW p \in Seen, \A n \in twice : p \notin Ancestors[n]
    PROVE  p \in Done
<1> USE DEF Inv
<1>1. ~Counting /\ leaves = {} /\ Seen \subseteq blocks /\ blocks \subseteq Blocks
  BY DEF StateType, Counting, SeenInv
<1> SUFFICES ASSUME p \notin Done PROVE FALSE
  OBVIOUS
<1> DEFINE S == {x \in Seen \ Done : x = p \/ p \in Ancestors[x]}
<1>2. PICK h \in Nat : \A b \in Seen : Height[b] <= h
  BY DEF SeenInv
<1>3. \A x \in S : x \in Blocks /\ x \in blocks /\ Height[x] \in Nat /\ Height[x] <= h
  BY <1>1, <1>2, BlockAssumption
<1> DEFINE D == {h - Height[x] : x \in S}
<1>4. p \in S
  OBVIOUS
<1> HIDE DEF S
<1>5. D \in SUBSET Nat
  BY <1>2, <1>3, SMT
<1>6. D # {}
  BY <1>4
<1>7. PICK m \in D : \A n \in D : m <= n
  BY <1>5, <1>6, LeastNumber
<1>8. PICK x \in S : m = h - Height[x]
  BY <1>7
<1>9. \A y \in S : h - Height[x] <= h - Height[y]
  BY <1>7, <1>8
<1>10. \A y \in S : Height[y] <= Height[x]
  BY <1>2, <1>3, <1>9, SMT
<1>11. x \in Seen \ Done /\ (x = p \/ p \in Ancestors[x]) /\ x \in blocks /\ x \in Blocks
  BY <1>3 DEF S
<1>12. kahnNodes[x].inDegree # 0
  BY <1>1, <1>11 DEF Done
<1>13. \E c : c \in OpenKids(x) \/ c \in TwiceKids(x)
  <2>1. SUFFICES ASSUME OpenKids(x) = {}, TwiceKids(x) = {} PROVE FALSE
    OBVIOUS
  <2>2. kahnNodes[x].inDegree + 0 = 0 + 0
    BY <1>11, <2>1, FS_EmptySet DEF EdgeInv
  <2>3. kahnNodes[x].inDegree \in Int
    BY <1>11, SMT DEF StateType, Node
  <2> QED
    BY <1>12, <2>2, <2>3, SMT
<1>14. PICK c : c \in OpenKids(x) \/ c \in TwiceKids(x)
  BY <1>13
<1>15. c \in Kids(x)
  BY <1>14 DEF OpenKids, TwiceKids
<1>16. c \in Blocks /\ x \in Ancestors[c] /\ Height[c] = Height[x] + 1
  BY <1>11, <1>15, KidFacts
<1>17. p \in Ancestors[c]
  BY <1>11, <1>16, AncestorFacts
<1>18. c \notin TwiceKids(x)
  BY <1>17 DEF TwiceKids
<1>19. c \in S
  BY <1>14, <1>17, <1>18 DEF OpenKids, S
<1>20. Height[c] <= Height[x] /\ Height[x] \in Nat
  BY <1>3, <1>10, <1>19
<1> QED
  BY <1>16, <1>20, SMT

\* The order in which a map yields the votes and the leaves does not matter but for
\* the edges counted twice: at the end voteStack holds exactly the blocks with alpha
\* votes below them and no block counted twice below them, descendants first, each
\* with the votes through each of its children.
THEOREM StackCorrect == Spec => []StackIsOnStack
<1>1. ASSUME Inv, pc = "done"
      PROVE  StackIDs = OnStack(Valid, blocks, twice)
  <2> USE <1>1 DEF Inv
  <2>1. ~Counting /\ Seen \subseteq blocks
    BY DEF StateType, Counting, SeenInv
  <2>2. ASSUME NEW b \in StackIDs
        PROVE  b \in OnStack(Valid, blocks, twice)
    <3>1. b \in Done /\ Cardinality(VotesBelow(Valid, b)) >= Alpha
      BY DEF StackIDs, StackInv
    <3>2. b \in blocks
      BY <2>1, <3>1 DEF Done
    <3> QED
      BY <3>1, <3>2 DEF OnStack, DoneInv
  <2>3. ASSUME NEW b \in OnStack(Valid, blocks, twice)
        PROVE  b \in StackIDs
    <3>1. b \in blocks /\ Cardinality(VotesBelow(Valid, b)) >= Alpha /\ \A n \in twice : b \notin Ancestors[n]
      BY DEF OnStack
    <3>2. VotesBelow(Valid, b) \in SUBSET Slots
      BY DEF VotesBelow
    <3>3. PICK s \in Slots : s \in VotesBelow(Valid, b)
      BY <3>1, <3>2, Majorities
    <3>4. b \in Seen
      BY <2>1, <3>1, <3>3, AllSeen DEF VotesBelow
    <3>5. b \in Done
      BY <3>1, <3>4, LeftOver
    <3> QED
      BY <3>1, <3>5 DEF StackInv
  <2> QED
    BY <2>2, <2>3
<1>2. Inv => StackIsOnStack
  BY <1>1 DEF StackIsOnStack, Inv, ReachInv, StackInv, VotesOf
<1> QED
  BY <1>2, InvAlways, PTL

\* While votes are pushed, a leaf holds all votes below it, every key is in the tree,
\* and no in-degree goes below zero.
THEOREM VotesKept == Spec => []VotesConserved
<1>1. Inv => VotesConserved
  <2> SUFFICES ASSUME Inv, pc = "push", NEW b \in Blocks
               PROVE  /\ kahnNodes[b].seen => b \in blocks /\ kahnNodes[b].inDegree >= 0
                      /\ b \in leaves => kahnNodes[b].size = Cardinality(VotesBelow(Valid, b))
    BY DEF VotesConserved
  <2>1. ASSUME kahnNodes[b].seen
        PROVE  b \in blocks /\ kahnNodes[b].inDegree >= 0
    <3>1. b \in blocks
      BY <2>1 DEF Inv, SeenInv, Seen
    <3>2. kahnNodes[b].inDegree + 0 = Cardinality(OpenKids(b)) + Cardinality(TwiceKids(b))
      BY <3>1 DEF Inv, EdgeInv
    <3>3. kahnNodes[b].inDegree \in Int
      BY SMT DEF Inv, StateType, Node
    <3>4. Cardinality(OpenKids(b)) \in Nat /\ Cardinality(TwiceKids(b)) \in Nat
      BY OpenFacts DEF Inv
    <3> QED
      BY <3>1, <3>2, <3>3, <3>4, SMT
  <2>2. b \in leaves => kahnNodes[b].size = Cardinality(VotesBelow(Valid, b))
    BY LeafFacts
  <2> QED
    BY <2>1, <2>2
<1> QED
  BY <1>1, InvAlways, PTL
=============================================================================
