------------------------ MODULE TransitiveInvariant -------------------------
(***************************************************************************)
(* The inductive invariant of Transitive: the types, the tree of consensus  *)
(* and the way of the votes, which every step keeps, what a step must do    *)
(* for the calls to come to keep theirs, and that the calls that release,   *)
(* deliver, abandon, vote and build do so; requests and the IDs of polls.   *)
(***************************************************************************)
EXTENDS Transitive, WellFoundedInduction, TLAPS

-----------------------------------------------------------------------------
(* Types *)

BlockCalls ==
    {"deliver", "fulfill", "abandon", "abandonIssuer", "addedOption", "droppedOption", "removeAny",
     "issueWithAncestors", "issueWithAncestorsByID"}
FromCalls == {"issueFrom", "issueFromByID"}

Issuers == [op : {"issuer"}, blk : Blocks \ {Genesis}]
Voters == [op : {"voter"}, node : Nodes, id : 1..MaxPolls, blk : Blocks \cup {None}]

Calls ==
    [op : BlockCalls, blk : Blocks]
    \cup [op : FromCalls, node : Nodes, blk : Blocks]
    \cup [op : {"chits"}, node : Nodes, id : 1..MaxPolls, blk : Blocks]
    \cup Voters
    \cup [op : {"record"}, votes : SUBSET Blocks]
    \cup [op : {"settle", "repoll", "query", "buildBlocks"}]

PollStates == [id : 1..MaxPolls, waiting : SUBSET Nodes, votes : SUBSET Blocks, done : BOOLEAN]

StateType ==
    /\ status \in [Blocks -> {"Processing", "Accepted", "Rejected"}]
    /\ processing \subseteq Blocks /\ lastAccepted \in Blocks
    /\ pending \subseteq Blocks \ {Genesis}
    /\ nonVerifieds \subseteq Blocks \ {Genesis} /\ nonVerifiedCache \subseteq Blocks \ {Genesis}
    /\ \A r \in blkReqs : r.blk \in Blocks
    /\ \A m \in gets : m.node \in Nodes
    /\ queries \subseteq [node : Nodes, id : 1..MaxPolls]
    /\ blocked \in [Blocks -> Seq(Issuers \cup Voters)]
    /\ polls \in Seq(PollStates)
    /\ stack \in Seq(Calls)
    /\ pendingBuildBlocks \in Nat /\ added \in BOOLEAN

-----------------------------------------------------------------------------
(* Consensus and the votes *)

\* b is in consensus or was accepted, or it conflicts with the last accepted block
\* and can never be.
Added(b) == b \in processing \/ status[b] = "Accepted"
Lost(b) == ~Added(b) /\ lastAccepted \notin Ancestors[b]
Gone(b) == Added(b) \/ Lost(b)

\* The processing blocks hang below the last accepted block, and a block is
\* accepted exactly when it is on the way to that one.  The ancestors of a block
\* were added before it.  A rejected block does not extend the last accepted one.
TreeInv ==
    /\ \A b \in processing :
          /\ status[b] = "Processing"
          /\ lastAccepted \in Ancestors[b]
          /\ \A x \in Ancestors[b] : Height[x] > Height[lastAccepted] => x \in processing
    /\ \A b \in Blocks : status[b] = "Accepted" <=> (b = lastAccepted \/ b \in Ancestors[lastAccepted])
    /\ \A b \in Blocks : Added(b) => \A x \in Ancestors[b] : Added(x)
    /\ \A b \in Blocks : status[b] = "Rejected" => Lost(b)

\* r is where a vote for b ends up: a block of consensus, and the blocks between
\* failed verification.
RootOf(b, r) ==
    /\ r \in Ancestors[b]
    /\ r \in processing \cup {lastAccepted}
    /\ \A x \in Ancestors[b] : Height[x] > Height[r] => x \in nonVerifieds

VoteInv == \A b \in nonVerifieds : b \notin processing /\ \E r \in Ancestors[b] : RootOf(b, r)
-----------------------------------------------------------------------------
(* The calls to come *)

ToCome(op, b) == Call(op, b) \in Range(stack)

\* The calls that abandon an issuer leads to: they release and vote, but neither
\* issue nor deliver.
QuietCalls == {"abandon", "abandonIssuer", "voter", "record", "settle", "repoll", "query"}

\* Only its parent holds an issuer back.
IssuerInv ==
    \A p \in Blocks : \A i \in DOMAIN blocked[p] :
        blocked[p][i].op = "issuer" => Parent[blocked[p][i].blk] = p

\* The loop of issueFrom is followed by nothing but the rest of Chits and by
\* buildBlocks.
LoopIsLast ==
    \A i \in DOMAIN stack :
        /\ stack[i].op = "chits" => i = Len(stack) - 1
        /\ stack[i].op \in FromCalls =>
              i = Len(stack) - 1 \/ (i = Len(stack) - 2 /\ stack[i + 1].op = "chits")

\* Where issueFrom stands, on the way up from the block b of the Chits at k.
LoopInv(k, b) ==
    LET x == stack[k - 1].blk
    IN  /\ x = b \/ x \in Ancestors[b]
        /\ \/ Added(x)
           \/ Lost(b)
           \/ k = 2 /\ ~Added(b) /\ (x = b \/ b \in pending)

\* What it returned: when it gives up, b has not been added and will be released,
\* unless b is lost.
ReturnInv(k, b) == added \/ Lost(b) \/ (k = 1 /\ ~Added(b) /\ (b \in pending \/ Requested(b)))

ChitsInv ==
    \A k \in DOMAIN stack :
        stack[k].op = "chits" =>
            IF k > 1 /\ stack[k - 1].op \in FromCalls
            THEN LoopInv(k, stack[k].blk) ELSE ReturnInv(k, stack[k].blk)

\* What waits for a block that was added is about to be released.
FulfillInv ==
    /\ \A b \in Blocks : ToCome("addedOption", b) => Gone(b)
    /\ \A b \in Blocks : Added(b) /\ blocked[b] # <<>> => ToCome("fulfill", b) \/ ToCome("addedOption", b)

\* A block of pending waits for its parent, or is lost, or a call to come takes it
\* out.
PendingInv ==
    \A b \in pending :
        \/ Queued(b) /\ ~Added(b)
        \/ Lost(b)
        \/ ToCome("deliver", b) /\ ~Added(b)
        \/ ToCome("abandonIssuer", b) /\ ~Added(b)
        \/ ToCome("addedOption", b)

\* What waits for a block waits for a block that is pending or requested or lost,
\* unless it is about to be released or the block to be looked up.
Looking(b) ==
    /\ stack # <<>>
    /\ stack[1].op \in {"issueFromByID", "issueWithAncestorsByID"} /\ stack[1].blk = b
WaitInv ==
    \A b \in Blocks :
        blocked[b] # <<>> =>
            \/ b \in pending \/ Requested(b) \/ Lost(b) \/ Looking(b)
            \/ \E op \in {"fulfill", "abandon", "addedOption", "droppedOption"} : ToCome(op, b)

\* A request is removed only after what waited for the block was released.
RemoveInv ==
    \A i \in DOMAIN stack :
        stack[i].op = "removeAny" =>
            LET b == stack[i].blk
            IN  \/ Gone(b)
                \/ /\ \A j \in 1..(i - 1) : stack[j].op \in QuietCalls
                   /\ blocked[b] = <<>> \/ \E j \in 1..(i - 1) : stack[j] = Call("abandon", b)

\* A node that a poll waits for has a query to answer or a vote to come, and the
\* oldest poll has not finished.
VoteOf(c, n, id) == c.op \in {"voter", "chits"} /\ c.node = n /\ c.id = id
VoteToCome(n, id) ==
    \/ [node |-> n, id |-> id] \in queries
    \/ \E c \in Range(stack) : VoteOf(c, n, id)
    \/ \E b \in Blocks : \E c \in Range(blocked[b]) : VoteOf(c, n, id)
PollInv ==
    /\ polls # <<>> => ~polls[1].done
    /\ \A i \in DOMAIN polls : \A n \in polls[i].waiting : VoteToCome(n, polls[i].id)

-----------------------------------------------------------------------------
(* The tree of all blocks *)

USE ZenonT(30)

\* A set of numbers has a least element.
LEMMA LeastNumber ==
    ASSUME NEW S \in SUBSET Nat, S # {}
    PROVE  \E m \in S : \A n \in S : m <= n
<1> DEFINE R == OpToRel(<, Nat)
<1>1. IsWellFoundedOn(R, Nat)
  BY NatLessThanWellFounded, Zenon
<1>2. \A x, y \in Nat : <<y, x>> \in R <=> y < x
  BY DEF OpToRel
<1> HIDE DEF R
<1>3. PICK m \in S : \A n \in S : <<n, m>> \notin R
  BY <1>1, WFMin
<1>4. \A n \in S : ~(n < m)
  BY <1>2, <1>3
<1> QED
  BY <1>4, SMT

\* The least number of a set of IDs is one of them.
LEMMA NextIDIn ==
    ASSUME NEW free \in SUBSET Nat, free # {}
    PROVE  NextID(free) \in free
BY LeastNumber DEF NextID

\* A block has a parent unless it is the genesis block; its ancestors are those
\* of its parent, and the parent.
LEMMA ParentFacts ==
    ASSUME NEW b \in Blocks \ {Genesis}
    PROVE  /\ Parent[b] \in Blocks
           /\ Ancestors[b] = {Parent[b]} \cup Ancestors[Parent[b]]
           /\ Height[b] = Height[Parent[b]] + 1
BY BlockAssumption, AncestorAssumption

LEMMA AncestorFacts ==
    ASSUME NEW b \in Blocks, NEW a \in Ancestors[b]
    PROVE  /\ a \in Blocks /\ b \in Blocks \ {Genesis}
           /\ Ancestors[a] \subseteq Ancestors[b]
           /\ Height[a] < Height[b]
           /\ \A x \in Ancestors[b] : Height[x] = Height[a] => x = a
BY BlockAssumption, AncestorAssumption

LEMMA HeightType == \A b \in Blocks : Height[b] \in Nat
BY BlockAssumption

\* The ancestors of a block are a chain.
LEMMA AncestorChain ==
    ASSUME NEW b \in Blocks, NEW a \in Ancestors[b], NEW x \in Ancestors[b], Height[a] < Height[x]
    PROVE  a \in Ancestors[x]
<1> DEFINE above == {y \in {b} \cup Ancestors[b] : a \in Ancestors[y] /\ Height[y] >= Height[x]}
           heights == {Height[y] : y \in above}
<1>1. /\ a \in Blocks /\ x \in Blocks /\ above \subseteq Blocks
      /\ Height[a] \in Nat /\ Height[x] \in Nat /\ Height[b] \in Nat /\ Height[x] < Height[b]
  BY AncestorFacts, HeightType
<1>2. b \in above
  BY <1>1, SMT
<1>3. heights \in SUBSET Nat /\ heights # {}
  BY <1>1, <1>2, HeightType
<1> HIDE DEF heights
<1>4. PICK h \in heights : \A n \in heights : h <= n
  BY <1>3, LeastNumber
<1>5. PICK y \in above : h = Height[y]
  BY <1>4 DEF heights
<1>6. \A z \in above : Height[y] <= Height[z]
  BY <1>4, <1>5 DEF heights
<1>7. y \in Blocks \ {Genesis} /\ y \in {b} \cup Ancestors[b] /\ a \in Ancestors[y] /\ Height[y] >= Height[x]
  BY <1>1, <1>5, AncestorFacts
<1>8. Height[y] = Height[x]
  <2> SUFFICES ASSUME Height[y] # Height[x]
               PROVE  FALSE
    OBVIOUS
  <2>1. /\ Parent[y] \in Blocks /\ Ancestors[y] = {Parent[y]} \cup Ancestors[Parent[y]]
        /\ Height[y] = Height[Parent[y]] + 1 /\ Height[Parent[y]] \in Nat
    BY <1>7, ParentFacts, HeightType
  <2>2. Height[Parent[y]] >= Height[x]
    BY <1>1, <1>7, <2>1, HeightType, SMT
  <2>3. a \in Ancestors[Parent[y]]
    <3>1. a # Parent[y]
      BY <1>1, <2>2, SMT
    <3> QED
      BY <1>7, <2>1, <3>1
  <2>4. Parent[y] \in Ancestors[b]
    BY <1>7, <2>1, AncestorFacts
  <2>5. Parent[y] \in above
    BY <2>2, <2>3, <2>4
  <2> QED
    BY <1>6, <2>1, <2>5, SMT
<1>9. y \in Ancestors[b]
  BY <1>1, <1>7, <1>8, SMT
<1> QED
  BY <1>7, <1>8, <1>9, AncestorFacts

\* An ancestor of b that is at most as high as the ancestor x is x or above it.
LEMMA AncestorsUpTo ==
    ASSUME NEW b \in Blocks, NEW a \in Ancestors[b], NEW x \in Ancestors[b], Height[a] <= Height[x]
    PROVE  a = x \/ a \in Ancestors[x]
<1>1. Height[a] \in Nat /\ Height[x] \in Nat
  BY AncestorFacts, HeightType
<1>2. Height[a] = Height[x] \/ Height[a] < Height[x]
  BY <1>1, SMT
<1> QED
  BY <1>2, AncestorChain, AncestorFacts

-----------------------------------------------------------------------------
(* Types *)

LEMMA CallsType ==
    /\ \A op \in BlockCalls, b \in Blocks : Call(op, b) \in Calls
    /\ \A op \in FromCalls, node \in Nodes, b \in Blocks : CallFrom(op, node, b) \in Calls
    /\ \A op \in {"settle", "repoll", "query", "buildBlocks"} : Do(op) \in Calls
    /\ \A node \in Nodes, id \in 1..MaxPolls, b \in Blocks \cup {None} : Voter(node, id, b) \in Voters
    /\ \A node \in Nodes, id \in 1..MaxPolls, b \in Blocks :
          [op |-> "chits", node |-> node, id |-> id, blk |-> b] \in Calls
    /\ \A votes \in SUBSET Blocks : [op |-> "record", votes |-> votes] \in Calls
    /\ Voters \subseteq Calls
    /\ \A b \in Blocks \ {Genesis} : Call("issuer", b) \in Issuers
BY SMT DEF Calls, Call, CallFrom, Do, Voter, Voters, Issuers

LEMMA CallFields ==
    ASSUME NEW c \in Calls
    PROVE  /\ c.op \in BlockCalls \cup FromCalls \cup {"chits"} => c.blk \in Blocks
           /\ c.op \in FromCalls \cup {"chits"} => c.node \in Nodes
           /\ c.op = "chits" => c.id \in 1..MaxPolls
           /\ c.op = "voter" => c \in Voters
           /\ c.op = "record" => c.votes \in SUBSET Blocks
<1>1. CASE c \in [op : BlockCalls, blk : Blocks]
  BY <1>1, SMT DEF BlockCalls, FromCalls
<1>2. CASE c \in [op : FromCalls, node : Nodes, blk : Blocks]
  BY <1>2, SMT DEF FromCalls
<1>3. CASE c \in [op : {"chits"}, node : Nodes, id : 1..MaxPolls, blk : Blocks]
  BY <1>3, SMT
<1>4. CASE c \in Voters
  BY <1>4, SMT DEF Voters, BlockCalls, FromCalls
<1>5. CASE c \in [op : {"record"}, votes : SUBSET Blocks]
  BY <1>5, SMT DEF BlockCalls, FromCalls
<1>6. CASE c \in [op : {"settle", "repoll", "query", "buildBlocks"}]
  BY <1>6, SMT DEF BlockCalls, FromCalls
<1> QED
  BY <1>1, <1>2, <1>3, <1>4, <1>5, <1>6 DEF Calls

LEMMA WaiterFields ==
    ASSUME NEW c \in Issuers \cup Voters
    PROVE  /\ c.op \in {"issuer", "voter"}
           /\ c.op = "issuer" => c.blk \in Blocks \ {Genesis}
           /\ c.op # "issuer" => c \in Voters
BY SMT DEF Issuers, Voters

\* Sequences with elements from S.
LEMMA SeqFacts ==
    ASSUME NEW S
    PROVE  /\ <<>> \in Seq(S)
           /\ \A e \in S : <<e>> \in Seq(S)
           /\ \A e, f \in S : <<e, f>> \in Seq(S)
           /\ \A s, t \in Seq(S) : s \o t \in Seq(S)
           /\ \A s \in Seq(S) : s # <<>> => Tail(s) \in Seq(S) /\ s[1] \in S /\ Len(s) \in Nat \ {0}
BY SMT

\* Sequences are functions.
LEMMA SeqIsFunction ==
    ASSUME NEW S
    PROVE  Seq(S) = UNION {[1..n -> S] : n \in Nat}
BY SMT

LEMMA SeqElement ==
    ASSUME NEW S, NEW s \in Seq(S), NEW i \in 1..Len(s)
    PROVE  s[i] \in S
BY SMT

LEMMA SeqAppend ==
    ASSUME NEW S, NEW s \in Seq(S), NEW e \in S
    PROVE  Append(s, e) \in Seq(S)
BY SMT

LEMMA SeqConcat ==
    ASSUME NEW S, NEW s \in Seq(S), NEW t \in Seq(S)
    PROVE  /\ s \o t \in Seq(S) /\ Len(s \o t) = Len(s) + Len(t)
           /\ \A i \in 1..(Len(s) + Len(t)) :
                 (s \o t)[i] = IF i <= Len(s) THEN s[i] ELSE t[i - Len(s)]
BY SMT

LEMMA FunctionIsSeq ==
    ASSUME NEW S, NEW n \in Int, NEW f \in [1..n -> S]
    PROVE  f \in Seq(S)
<1>1. PICK m \in Nat : 1..n = 1..m
  <2>1. CASE n >= 0
    BY <2>1, SMT
  <2>2. CASE n < 0
    <3>1. 1..n = 1..0
      BY <2>2, SMT
    <3> QED
      BY <3>1, SMT
  <2> QED
    BY <2>1, <2>2, SMT
<1> QED
  BY <1>1, SeqIsFunction, SMT

LEMMA ReturnType ==
    ASSUME stack \in Seq(Calls), stack # <<>>, NEW calls \in Seq(Calls), Return(calls)
    PROVE  stack' \in Seq(Calls)
BY SeqFacts DEF Return

\* The running call.
LEMMA RunningType ==
    ASSUME StateType, NEW op, Running(op)
    PROVE  stack # <<>> /\ stack[1] \in Calls /\ stack[1].op = op /\ stack \in Seq(Calls)
BY SeqFacts DEF StateType, Running

\* The genesis block is accepted from the start.
LEMMA GenesisIssued ==
    ASSUME StateType, TreeInv
    PROVE  /\ Added(Genesis) /\ Issued(Genesis)
           /\ \A b \in Blocks : ~Issued(b) => b \in Blocks \ {Genesis}
<1>1. lastAccepted \in Blocks /\ Genesis \in Blocks
  BY BlockAssumption DEF StateType
<1>2. Genesis = lastAccepted \/ Genesis \in Ancestors[lastAccepted]
  BY <1>1, AncestorAssumption
<1>3. status[Genesis] = "Accepted"
  BY <1>1, <1>2 DEF TreeInv
<1>4. status[Genesis] # "Processing"
  BY <1>3, SMT
<1> QED
  BY <1>3, <1>4 DEF Added, Issued, Decided

LEMMA IssueType ==
    ASSUME StateType, stack # <<>>, NEW b \in Blocks \ {Genesis}, NEW next \in Calls, Issue(b, next)
    PROVE  StateType'
<1>1. Parent[b] \in Blocks
  BY ParentFacts
<1>2. pending' \subseteq Blocks \ {Genesis} /\ (\A r \in blkReqs' : r.blk \in Blocks)
  BY DEF StateType, Issue, RemoveAny
<1>3. blocked' \in [Blocks -> Seq(Issuers \cup Voters)]
  <2>1. Call("issuer", b) \in Issuers \cup Voters
    BY CallsType
  <2>2. blocked[Parent[b]] \in Seq(Issuers \cup Voters)
    BY <1>1 DEF StateType
  <2>3. Append(blocked[Parent[b]], Call("issuer", b)) \in Seq(Issuers \cup Voters)
    BY <2>1, <2>2, SeqAppend
  <2> QED
    BY <2>3 DEF StateType, Issue
<1>4. stack' \in Seq(Calls)
  <2>1. Call("deliver", b) \in Calls
    BY CallsType DEF BlockCalls
  <2>2. <<next>> \in Seq(Calls) /\ <<Call("deliver", b), next>> \in Seq(Calls)
    BY <2>1, SeqFacts
  <2> QED
    BY <2>2, ReturnType DEF StateType, Issue
<1> QED
  BY <1>2, <1>3, <1>4 DEF StateType, Issue, consensusVars

LEMMA SendRequestType ==
    ASSUME StateType, stack # <<>>, NEW node \in Nodes, NEW b \in Blocks, SendRequest(node, b)
    PROVE  StateType'
<1>1. stack' \in Seq(Calls)
  BY SeqFacts, ReturnType DEF StateType, SendRequest
<1>2. (\A r \in blkReqs' : r.blk \in Blocks) /\ (\A m \in gets' : m.node \in Nodes)
  BY SMT DEF StateType, SendRequest
<1>3. added' \in BOOLEAN
  BY DEF SendRequest
<1> QED
  BY <1>1, <1>2, <1>3 DEF StateType, SendRequest, consensusVars

LEMMA IssueFromType ==
    ASSUME StateType, TreeInv, IssueFrom
    PROVE  StateType'
<1> DEFINE call == stack[1]
           b    == call.blk
<1>1. stack # <<>> /\ call \in Calls /\ call.op \in FromCalls
  BY RunningType DEF IssueFrom, FromCalls
<1>2. b \in Blocks /\ call.node \in Nodes
  BY <1>1, CallFields
<1>3. CASE SendRequest(call.node, b)
  BY <1>1, <1>2, <1>3, SendRequestType
<1>4. CASE ~WasIssued(b) /\ Issue(b, CallFrom("issueFromByID", call.node, Parent[b]))
  <2>1. b \in Blocks \ {Genesis}
    BY <1>2, <1>4, GenesisIssued DEF WasIssued
  <2>2. CallFrom("issueFromByID", call.node, Parent[b]) \in Calls
    BY <1>2, <2>1, ParentFacts, CallsType DEF FromCalls
  <2> QED
    BY <1>1, <1>4, <2>1, <2>2, IssueType
<1>5. CASE /\ RemoveAny(b)
           /\ added' = Issued(b)
           /\ Return(AbandonIssued(b))
           /\ UNCHANGED <<consensusVars, pending, nonVerifieds, nonVerifiedCache, blocked, polls,
                          pendingBuildBlocks, gets, queries>>
  <2>1. AbandonIssued(b) \in Seq(Calls)
    BY <1>2, CallsType, SeqFacts DEF AbandonIssued, BlockCalls
  <2>2. stack' \in Seq(Calls)
    BY <1>1, <1>5, <2>1, ReturnType DEF StateType
  <2>3. added' \in BOOLEAN
    BY <1>5 DEF Issued
  <2>4. \A r \in blkReqs' : r.blk \in Blocks
    BY <1>5 DEF RemoveAny, StateType
  <2> QED
    BY <1>5, <2>2, <2>3, <2>4 DEF StateType, consensusVars
<1> QED
  BY <1>3, <1>4, <1>5 DEF IssueFrom

LEMMA IssueWithAncestorsType ==
    ASSUME StateType, TreeInv, IssueWithAncestors
    PROVE  StateType'
<1> DEFINE call == stack[1]
           b    == call.blk
<1>1. stack # <<>> /\ call \in Calls /\ call.op \in BlockCalls
  BY RunningType DEF IssueWithAncestors, BlockCalls
<1>2. b \in Blocks
  BY <1>1, CallFields
<1>3. CASE ~WasIssued(b) /\ Issue(b, Call("issueWithAncestorsByID", Parent[b]))
  <2>1. b \in Blocks \ {Genesis}
    BY <1>2, <1>3, GenesisIssued DEF WasIssued
  <2>2. Call("issueWithAncestorsByID", Parent[b]) \in Calls
    BY <1>2, <2>1, ParentFacts, CallsType DEF BlockCalls
  <2> QED
    BY <1>1, <1>3, <2>1, <2>2, IssueType
<1>4. CASE /\ Return(<<>>) \/ Return(<<Call("abandon", b)>>)
           /\ UNCHANGED <<consensusVars, issueVars, polls, pendingBuildBlocks, added, gets, queries>>
  <2>1. <<>> \in Seq(Calls) /\ <<Call("abandon", b)>> \in Seq(Calls)
    BY <1>2, CallsType, SeqFacts DEF BlockCalls
  <2>2. stack' \in Seq(Calls)
    BY <1>1, <1>4, <2>1, ReturnType DEF StateType
  <2> QED
    BY <1>4, <2>2 DEF StateType, consensusVars, issueVars
<1> QED
  BY <1>3, <1>4 DEF IssueWithAncestors, AbandonUnrequested

LEMMA ReleaseType ==
    ASSUME StateType, stack # <<>>, NEW as \in BlockCalls, Release(as), stack[1].blk \in Blocks
    PROVE  StateType'
<1> DEFINE b == stack[1].blk
           ws == blocked[b]
           calls == [i \in DOMAIN ws |-> IF ws[i].op = "issuer" THEN Call(as, ws[i].blk) ELSE ws[i]]
<1>1. ws \in Seq(Issuers \cup Voters)
  BY DEF StateType
<1>2. DOMAIN ws = 1..Len(ws) /\ Len(ws) \in Nat /\ \A i \in DOMAIN ws : ws[i] \in Issuers \cup Voters
  BY <1>1, SMT
<1>3. \A i \in DOMAIN ws : calls[i] \in Calls
  BY <1>2, WaiterFields, CallsType
<1>4. calls \in [1..Len(ws) -> Calls]
  BY <1>2, <1>3
<1>5. calls \in Seq(Calls)
  <2> HIDE DEF calls
  <2> QED
    BY <1>2, <1>4, SeqIsFunction
<1>6. stack' \in Seq(Calls)
  BY <1>5, ReturnType DEF StateType, Release
<1>7. blocked' \in [Blocks -> Seq(Issuers \cup Voters)]
  <2>1. <<>> \in Seq(Issuers \cup Voters)
    BY SeqFacts
  <2> QED
    BY <2>1 DEF StateType, Release
<1> QED
  BY <1>6, <1>7 DEF StateType, Release, consensusVars

LEMMA AddToNonVerifiedsType ==
    ASSUME StateType, NEW bs \in SUBSET (Blocks \ {Genesis}), AddToNonVerifieds(bs)
    PROVE  nonVerifieds' \subseteq Blocks \ {Genesis} /\ nonVerifiedCache' \subseteq Blocks \ {Genesis}
<1>1. nonVerifieds' \subseteq Blocks \ {Genesis}
  BY DEF StateType, AddToNonVerifieds
<1>2. CASE bs = {}
  BY <1>1, <1>2 DEF StateType, AddToNonVerifieds
<1>3. CASE bs # {}
  BY <1>1, <1>3 DEF StateType, AddToNonVerifieds
<1> QED
  BY <1>2, <1>3

LEMMA AbandonIssuerType ==
    ASSUME StateType, TreeInv, AbandonIssuer
    PROVE  StateType'
<1> DEFINE b == stack[1].blk
           bs == IF KeepsParent(b) THEN {b} ELSE {}
<1>1. stack # <<>> /\ b \in Blocks
  BY RunningType, CallFields DEF AbandonIssuer, BlockCalls
<1>2. bs \in SUBSET (Blocks \ {Genesis})
  BY <1>1, GenesisIssued DEF KeepsParent
<1>3. nonVerifieds' \subseteq Blocks \ {Genesis} /\ nonVerifiedCache' \subseteq Blocks \ {Genesis}
  BY <1>2, AddToNonVerifiedsType DEF AbandonIssuer
<1>4. <<Call("abandon", b)>> \in Seq(Calls)
  BY <1>1, CallsType, SeqFacts DEF BlockCalls
<1>5. stack' \in Seq(Calls)
  BY <1>1, <1>4, ReturnType DEF StateType, AbandonIssuer
<1>6. pending' \subseteq Blocks \ {Genesis}
  BY DEF StateType, AbandonIssuer
<1> QED
  BY <1>3, <1>5, <1>6 DEF StateType, AbandonIssuer, consensusVars

\* The options of b are children of b.
LEMMA OptionFacts ==
    ASSUME NEW b \in Blocks
    PROVE  /\ Options[b] \in Seq(Blocks \ {Genesis})
           /\ Len(Options[b]) \in Nat /\ DOMAIN Options[b] = 1..Len(Options[b])
           /\ \A i \in 1..Len(Options[b]) : Options[b][i] \in Range(Options[b])
           /\ \A o \in Range(Options[b]) :
                 o \in Blocks \ {Genesis} /\ Parent[o] = b /\ \E i \in 1..Len(Options[b]) : o = Options[b][i]
<1>1. Options[b] \in Seq(Blocks \ {Genesis})
  BY EngineAssumption
<1>2. /\ Len(Options[b]) \in Nat /\ DOMAIN Options[b] = 1..Len(Options[b])
      /\ \A i \in 1..Len(Options[b]) : Options[b][i] \in Blocks \ {Genesis}
  BY <1>1, SMT
<1> QED
  BY <1>1, <1>2, EngineAssumption DEF Range

\* The loops over the options go through all of them.
LEMMA OrderFacts ==
    ASSUME NEW b \in Blocks, NEW bad, NEW order, order = AddedFirst(Options[b], bad)
    PROVE  /\ Len(order) \in Nat /\ DOMAIN order = 1..Len(order)
           /\ Range(order) = Range(Options[b])
           /\ \A i \in 1..Len(order) : order[i] \in Range(Options[b])
<1> DEFINE options == Options[b]
<1>1. options \in Seq(Blocks \ {Genesis}) /\ DOMAIN options = 1..Len(options) /\ Len(options) \in Nat
  BY OptionFacts
<1>2. CASE order = options
  BY <1>1, <1>2 DEF Range
<1>3. CASE options # <<>> /\ order = <<options[2], options[1]>>
  <2>1. Len(options) = 2
    <3>1. Len(options) \in {0, 2}
      BY EngineAssumption
    <3>2. Len(options) # 0
      BY <1>1, <1>3, SMT
    <3> QED
      BY <3>1, <3>2
  <2>2. DOMAIN options = {1, 2}
    BY <1>1, <2>1, SMT
  <2>3. Range(options) = {options[1], options[2]}
    BY <2>2 DEF Range
  <2>4. /\ Len(order) = 2 /\ DOMAIN order = 1..2 /\ 1..2 = {1, 2}
        /\ order[1] = options[2] /\ order[2] = options[1]
    BY <1>3, SMT
  <2>5. Range(order) = {options[1], options[2]}
    BY <2>4 DEF Range
  <2>6. 2 \in Nat
    BY SMT
  <2> QED
    BY <2>3, <2>4, <2>5, <2>6
<1> QED
  BY <1>2, <1>3 DEF AddedFirst

\* The calls that follow when a block is added.
OptionCalls(b, bad) ==
    LET order == AddedFirst(Options[b], bad)
    IN  [i \in DOMAIN order |-> Call(IF order[i] \in bad THEN "droppedOption" ELSE "addedOption", order[i])]
DeliverCalls(b, bad, preferred) ==
    (IF preferred THEN <<Do("query")>> ELSE <<>>) \o <<Call("fulfill", b)>> \o OptionCalls(b, bad)
    \o <<Do("repoll")>>

LEMMA DeliverCallsType ==
    ASSUME NEW b \in Blocks, NEW bad, NEW preferred \in BOOLEAN
    PROVE  OptionCalls(b, bad) \in Seq(Calls) /\ DeliverCalls(b, bad, preferred) \in Seq(Calls)
<1> DEFINE order == AddedFirst(Options[b], bad)
<1>1. /\ DOMAIN order = 1..Len(order) /\ Len(order) \in Nat
      /\ \A i \in 1..Len(order) : order[i] \in Blocks
  <2>1. /\ DOMAIN order = 1..Len(order) /\ Len(order) \in Nat
        /\ \A i \in 1..Len(order) : order[i] \in Range(Options[b])
    BY OrderFacts
  <2>2. Range(Options[b]) \subseteq Blocks
    BY OptionFacts
  <2> HIDE DEF order
  <2> QED
    BY <2>1, <2>2
<1>2. OptionCalls(b, bad) \in [1..Len(order) -> Calls]
  BY <1>1, CallsType DEF OptionCalls, BlockCalls
<1> HIDE DEF order
<1>3. OptionCalls(b, bad) \in Seq(Calls)
  BY <1>1, <1>2, SeqIsFunction, SMT
<1>4. Do("query") \in Calls /\ Do("repoll") \in Calls /\ Call("fulfill", b) \in Calls
  BY CallsType DEF BlockCalls
<1>5. /\ (IF preferred THEN <<Do("query")>> ELSE <<>>) \in Seq(Calls)
      /\ <<Call("fulfill", b)>> \in Seq(Calls) /\ <<Do("repoll")>> \in Seq(Calls)
  BY <1>4, SeqFacts
<1> QED
  BY <1>3, <1>5, SeqFacts DEF DeliverCalls

\* The outcomes of deliver.
DeliverIgnored(b) ==
    /\ Issued(b)
    /\ Return(<<>>)
    /\ UNCHANGED <<consensusVars, pending, nonVerifieds, nonVerifiedCache>>
DeliverDropped(b) ==
    /\ ~Issued(b)
    /\ pending' = pending \ {b}
    /\ Return(<<Call("abandon", b)>>)
    /\ \/ UNCHANGED <<nonVerifieds, nonVerifiedCache>>
       \/ Deliverable(b) /\ AddToNonVerifieds(IF KeepsParent(b) THEN {b} ELSE {})
    /\ UNCHANGED consensusVars
DeliverAdded(b, bad, preferred) ==
    /\ ~Issued(b) /\ Deliverable(b)
    /\ pending' = pending \ {b}
    /\ AddToConsensus(b, Range(Options[b]) \ bad, bad)
    /\ Return(DeliverCalls(b, bad, preferred))

LEMMA DeliverCases ==
    ASSUME StateType, Deliver
    PROVE  /\ stack # <<>> /\ stack[1] = Call("deliver", stack[1].blk) /\ stack[1].blk \in Blocks
           /\ \/ DeliverIgnored(stack[1].blk)
              \/ DeliverDropped(stack[1].blk)
              \/ \E bad \in SUBSET (Range(Options[stack[1].blk]) \cap Unreliable), preferred \in BOOLEAN :
                    DeliverAdded(stack[1].blk, bad, preferred)
           /\ UNCHANGED <<blkReqs, blocked, polls, pendingBuildBlocks, added, gets, queries>>
<1>1. stack # <<>> /\ stack[1] \in Calls /\ stack[1].op = "deliver"
  BY RunningType DEF Deliver
<1>2. stack[1].blk \in Blocks /\ stack[1] = Call("deliver", stack[1].blk)
  BY <1>1, SMT DEF Calls, Voters, Call, FromCalls
<1> QED
  BY <1>1, <1>2
     DEF Deliver, DeliverIgnored, DeliverDropped, DeliverAdded, DeliverCalls, OptionCalls

LEMMA DeliverType ==
    ASSUME StateType, TreeInv, Deliver
    PROVE  StateType'
<1> DEFINE b == stack[1].blk
<1>1. stack # <<>> /\ b \in Blocks /\ stack \in Seq(Calls)
      /\ UNCHANGED <<blkReqs, blocked, polls, pendingBuildBlocks, added, gets, queries>>
  BY DeliverCases DEF StateType
<1>2. CASE DeliverIgnored(b)
  <2>1. stack' \in Seq(Calls)
    BY <1>1, <1>2, SeqFacts, ReturnType DEF DeliverIgnored
  <2> QED
    BY <1>1, <1>2, <2>1 DEF DeliverIgnored, StateType, consensusVars
<1>3. CASE DeliverDropped(b)
  <2>1. stack' \in Seq(Calls)
    <3>1. <<Call("abandon", b)>> \in Seq(Calls)
      BY <1>1, CallsType, SeqFacts DEF BlockCalls
    <3> QED
      BY <1>1, <1>3, <3>1, ReturnType DEF DeliverDropped
  <2>2. (IF KeepsParent(b) THEN {b} ELSE {}) \in SUBSET (Blocks \ {Genesis})
    BY <1>1, GenesisIssued DEF KeepsParent
  <2>3. nonVerifieds' \subseteq Blocks \ {Genesis} /\ nonVerifiedCache' \subseteq Blocks \ {Genesis}
    BY <1>3, <2>2, AddToNonVerifiedsType DEF DeliverDropped, StateType
  <2> QED
    BY <1>1, <1>3, <2>1, <2>3 DEF DeliverDropped, StateType, consensusVars
<1>4. ASSUME NEW bad \in SUBSET (Range(Options[b]) \cap Unreliable), NEW preferred \in BOOLEAN,
             DeliverAdded(b, bad, preferred)
      PROVE  StateType'
  <2>1. stack' \in Seq(Calls)
    BY <1>1, <1>4, DeliverCallsType, ReturnType DEF DeliverAdded
  <2>2. b \in Blocks \ {Genesis} /\ Range(Options[b]) \subseteq Blocks \ {Genesis}
    BY <1>1, <1>4, GenesisIssued, OptionFacts DEF DeliverAdded
  <2>3. processing' \subseteq Blocks /\ lastAccepted' \in Blocks
    BY <1>4, <2>2 DEF DeliverAdded, AddToConsensus, StateType
  <2>4. status' \in [Blocks -> {"Processing", "Accepted", "Rejected"}]
    BY <1>4 DEF DeliverAdded, AddToConsensus, StateType
  <2>5. nonVerifieds' \subseteq Blocks \ {Genesis}
    BY <1>4, <2>2 DEF DeliverAdded, AddToConsensus, StateType
  <2>6. nonVerifiedCache' \subseteq Blocks \ {Genesis}
    <3>1. PICK c : nonVerifiedCache' = c \ ({b} \cup (Range(Options[b]) \ bad))
                   /\ (c = nonVerifiedCache \/ c \in SUBSET (nonVerifiedCache \cup bad))
      BY <1>4 DEF DeliverAdded, AddToConsensus
    <3> QED
      BY <1>4, <2>2, <3>1 DEF StateType
  <2>7. pending' \subseteq Blocks \ {Genesis}
    BY <1>4 DEF DeliverAdded, StateType
  <2> QED
    BY <1>1, <2>1, <2>3, <2>4, <2>5, <2>6, <2>7 DEF StateType
<1> QED
  BY <1>2, <1>3, <1>4, DeliverCases

LEMMA OptionType ==
    ASSUME StateType, Option
    PROVE  StateType'
<1> DEFINE b == stack[1].blk
<1>1. stack # <<>> /\ b \in Blocks /\ stack \in Seq(Calls)
  BY RunningType, CallFields DEF Option, BlockCalls
<1>2. /\ Call("fulfill", b) \in Calls /\ Call("removeAny", b) \in Calls /\ Call("abandon", b) \in Calls
      /\ Do("query") \in Calls
  BY <1>1, CallsType DEF BlockCalls
<1>3. /\ \A preferred \in BOOLEAN :
            (IF preferred THEN <<Do("query")>> ELSE <<>>) \o ReleaseOption(b) \in Seq(Calls)
      /\ <<Call("abandon", b), Call("removeAny", b)>> \in Seq(Calls)
  BY <1>2, SeqFacts DEF ReleaseOption
<1>4. stack' \in Seq(Calls)
  BY <1>1, <1>3, ReturnType DEF Option
<1>5. pending' \subseteq Blocks \ {Genesis}
  BY DEF Option, StateType
<1> QED
  BY <1>4, <1>5 DEF Option, StateType, consensusVars

LEMMA ChitsType ==
    ASSUME StateType, Chits
    PROVE  StateType'
<1> DEFINE call == stack[1]
           v    == Voter(call.node, call.id, call.blk)
<1>1. stack # <<>> /\ stack \in Seq(Calls)
      /\ call.blk \in Blocks /\ call.node \in Nodes /\ call.id \in 1..MaxPolls
  BY RunningType, CallFields DEF Chits
<1>2. v \in Voters /\ v \in Calls
  BY <1>1, CallsType
<1>3. stack' \in Seq(Calls)
  BY <1>1, <1>2, SeqFacts, ReturnType DEF Chits
<1>4. blocked' \in [Blocks -> Seq(Issuers \cup Voters)]
  <2>1. Append(blocked[call.blk], v) \in Seq(Issuers \cup Voters)
    BY <1>1, <1>2, SeqAppend DEF StateType
  <2> QED
    BY <2>1 DEF Chits, StateType
<1> QED
  BY <1>3, <1>4 DEF Chits, StateType, consensusVars

LEMMA FinishedType ==
    ASSUME NEW ps \in Seq(PollStates)
    PROVE  /\ Finished(ps) \in 0..Len(ps)
           /\ Finished(ps) # Len(ps) => ~ps[Finished(ps) + 1].done
<1> DEFINE open == {i \in DOMAIN ps : ~ps[i].done}
<1>1. Len(ps) \in Nat /\ DOMAIN ps = 1..Len(ps)
  BY SMT
<1>2. open \in SUBSET Nat /\ open \subseteq 1..Len(ps)
  BY <1>1, SMT
<1>3. CASE open = {}
  <2>1. Finished(ps) = Len(ps)
    BY <1>3 DEF Finished
  <2> QED
    BY <1>1, <2>1, SMT
<1>4. CASE open # {}
  <2> DEFINE first == CHOOSE i \in open : \A j \in open : i <= j
  <2>1. first \in open
    BY <1>2, <1>4, LeastNumber
  <2>2. Finished(ps) = first - 1
    BY <1>4 DEF Finished
  <2>3. first \in 1..Len(ps) /\ ~ps[first].done
    BY <1>2, <2>1
  <2> HIDE DEF first
  <2> QED
    BY <1>1, <2>2, <2>3, SMT
<1> QED
  BY <1>3, <1>4

LEMMA VoteType ==
    ASSUME StateType, Vote
    PROVE  /\ StateType'
           /\ \E calls \in Seq(Calls) :
                 Return(calls) /\ \A i \in DOMAIN calls : calls[i].op \in {"record", "settle"}
           /\ \E n \in Nat : \A i \in DOMAIN polls' :
                 /\ i + n \in DOMAIN polls /\ polls'[i].id = polls[i + n].id
                 /\ polls'[i].waiting \subseteq polls[i + n].waiting
                 /\ polls'[i].id = stack[1].id => stack[1].node \notin polls'[i].waiting
           /\ polls' # <<>> => ~polls'[1].done
<1> DEFINE v == stack[1]
           Of(p) == p.id = v.id /\ v.node \in p.waiting
           Counted(p, early) ==
               [p EXCEPT !.waiting = @ \ {v.node},
                         !.votes   = @ \cup ({v.blk} \ {None}),
                         !.done    = @ \/ early \/ p.waiting = {v.node}]
           Voted(early) == [i \in DOMAIN polls |->
                               IF Of(polls[i]) THEN Counted(polls[i], early) ELSE polls[i]]
           Results(ps) == [i \in 1..Finished(ps) |-> [op |-> "record", votes |-> ps[i].votes]]
           Made(ps) == IF Finished(ps) = 0 THEN <<>> ELSE Results(ps) \o <<Do("settle")>>
<1>1. stack # <<>> /\ stack \in Seq(Calls) /\ v \in Voters
  BY RunningType, CallFields DEF Vote
<1>2. v.blk \in Blocks \cup {None}
  BY <1>1, SMT DEF Voters
<1>3. PICK early \in BOOLEAN :
        /\ polls' = SubSeq(Voted(early), Finished(Voted(early)) + 1, Len(Voted(early)))
        /\ Return(Made(Voted(early)))
  BY DEF Vote
<1> DEFINE ps == Voted(early)
<1>4. /\ ps \in Seq(PollStates) /\ polls \in Seq(PollStates) /\ Len(ps) = Len(polls)
      /\ \A i \in DOMAIN polls :
            /\ ps[i].id = polls[i].id /\ ps[i].waiting \subseteq polls[i].waiting
            /\ ps[i].id = v.id => v.node \notin ps[i].waiting
  <2>1. polls \in Seq(PollStates) /\ Len(polls) \in Nat /\ DOMAIN polls = 1..Len(polls)
    BY SMT DEF StateType
  <2>2. \A p \in PollStates : Counted(p, early) \in PollStates
    <3> SUFFICES ASSUME NEW p \in PollStates
                 PROVE  Counted(p, early) \in PollStates
      OBVIOUS
    <3>1. p.waiting \ {v.node} \in SUBSET Nodes /\ p.votes \cup ({v.blk} \ {None}) \in SUBSET Blocks
      BY <1>2 DEF PollStates
    <3>2. (p.done \/ early \/ p.waiting = {v.node}) \in BOOLEAN
      OBVIOUS
    <3> QED
      BY <3>1, <3>2 DEF PollStates
  <2>3. \A i \in 1..Len(polls) : polls[i] \in PollStates
    BY <2>1, SMT
  <2>4. ps \in [1..Len(polls) -> PollStates]
    BY <2>1, <2>2, <2>3
  <2>5. \A p \in PollStates :
           /\ Counted(p, early).id = p.id /\ Counted(p, early).waiting = p.waiting \ {v.node}
    BY SMT DEF PollStates
  <2>6. \A i \in DOMAIN polls :
           /\ ps[i].id = polls[i].id /\ ps[i].waiting \subseteq polls[i].waiting
           /\ ps[i].id = v.id => v.node \notin ps[i].waiting
    <3> SUFFICES ASSUME NEW i \in DOMAIN polls
                 PROVE  /\ ps[i].id = polls[i].id /\ ps[i].waiting \subseteq polls[i].waiting
                        /\ ps[i].id = v.id => v.node \notin ps[i].waiting
      OBVIOUS
    <3>1. polls[i] \in PollStates
      BY <2>1, <2>3
    <3>2. CASE Of(polls[i])
      <4>1. ps[i] = Counted(polls[i], early)
        BY <3>2
      <4>2. ps[i].id = polls[i].id /\ ps[i].waiting = polls[i].waiting \ {v.node}
        BY <2>5, <3>1, <4>1
      <4> HIDE DEF ps
      <4> QED
        BY <4>2
    <3>3. CASE ~Of(polls[i])
      <4>1. ps[i] = polls[i]
        BY <3>3
      <4> HIDE DEF ps
      <4> QED
        BY <3>3, <4>1
    <3> QED
      BY <3>2, <3>3
  <2> HIDE DEF ps
  <2> QED
    BY <2>1, <2>4, <2>6, SeqIsFunction, SMT
<1> HIDE DEF ps
<1>5. /\ Finished(ps) \in 0..Len(ps) /\ Len(ps) \in Nat
      /\ Finished(ps) # Len(ps) => ~ps[Finished(ps) + 1].done
  <2>1. Len(ps) \in Nat
    BY <1>4, SMT
  <2> QED
    BY <1>4, <2>1, FinishedType
<1>6. polls' = SubSeq(ps, Finished(ps) + 1, Len(ps)) /\ Return(Made(ps))
  BY <1>3 DEF ps
<1>7. polls' \in Seq(PollStates)
  BY <1>4, <1>5, <1>6, SMT
<1>8. Results(ps) \in Seq(Calls) /\ \A i \in DOMAIN Results(ps) : Results(ps)[i].op = "record"
  <2>1. \A i \in 1..Finished(ps) : ps[i].votes \in SUBSET Blocks
    <3>1. \A i \in 1..Finished(ps) : ps[i] \in PollStates
      BY <1>4, <1>5, SMT
    <3> QED
      BY <3>1 DEF PollStates
  <2>2. Results(ps) \in [1..Finished(ps) -> Calls]
    BY <2>1, CallsType
  <2>3. \A i \in DOMAIN Results(ps) : Results(ps)[i].op = "record"
    OBVIOUS
  <2>4. Finished(ps) \in Nat
    BY <1>5, SMT
  <2> HIDE DEF Results
  <2> QED
    BY <2>2, <2>3, <2>4, SeqIsFunction, SMT
<1>9. Made(ps) \in Seq(Calls) /\ \A i \in DOMAIN Made(ps) : Made(ps)[i].op \in {"record", "settle"}
  <2>1. Do("settle") \in Calls /\ Do("settle").op = "settle"
    BY CallsType DEF Do
  <2> HIDE DEF Results
  <2>2. Results(ps) \o <<Do("settle")>> \in Seq(Calls)
    BY <1>8, <2>1, SeqFacts
  <2>3. \A i \in DOMAIN (Results(ps) \o <<Do("settle")>>) :
           (Results(ps) \o <<Do("settle")>>)[i].op \in {"record", "settle"}
    BY <1>8, <2>1, SMT
  <2> QED
    BY <2>2, <2>3, SeqFacts, SMT
<1> HIDE DEF Made
<1>10. stack' \in Seq(Calls)
  BY <1>1, <1>6, <1>9, ReturnType
<1>11. Finished(ps) \in Nat
  BY <1>5, SMT
<1>12. /\ \A i \in DOMAIN polls' : i + Finished(ps) \in DOMAIN polls /\ polls'[i] = ps[i + Finished(ps)]
       /\ polls' # <<>> => Finished(ps) # Len(ps) /\ polls'[1] = ps[Finished(ps) + 1]
  <2>1. \A n \in 0..Len(ps) :
           LET rest == SubSeq(ps, n + 1, Len(ps))
           IN  /\ \A i \in DOMAIN rest : i + n \in 1..Len(ps) /\ rest[i] = ps[i + n]
               /\ rest # <<>> => n # Len(ps) /\ 1 \in DOMAIN rest /\ 1 + n = n + 1
    BY <1>4, <1>5, SMT
  <2>2. DOMAIN polls = 1..Len(ps)
    BY <1>4, SMT
  <2> QED
    BY <1>5, <1>6, <2>1, <2>2
<1>13. \A i \in DOMAIN polls' :
          /\ i + Finished(ps) \in DOMAIN polls /\ polls'[i].id = polls[i + Finished(ps)].id
          /\ polls'[i].waiting \subseteq polls[i + Finished(ps)].waiting
          /\ polls'[i].id = v.id => v.node \notin polls'[i].waiting
  BY <1>4, <1>12
<1>14. polls' # <<>> => ~polls'[1].done
  BY <1>5, <1>12
<1> QED
  BY <1>6, <1>7, <1>9, <1>10, <1>11, <1>13, <1>14 DEF Vote, StateType, consensusVars, issueVars

LEMMA RecordType ==
    ASSUME StateType, Record
    PROVE  StateType'
<1>1. stack # <<>> /\ stack \in Seq(Calls)
  BY RunningType DEF Record
<1>2. stack' \in Seq(Calls)
  BY <1>1, SeqFacts, ReturnType DEF Record
<1>3. PICK last \in CanAccept(stack[1].votes) \cup {lastAccepted} :
        /\ lastAccepted' = last
        /\ processing' = processing \ (Accepted(last) \cup Conflicting(last))
        /\ status' = [x \in Blocks |-> CASE x \in Accepted(last)   -> "Accepted"
                                       [] x \in Conflicting(last) -> "Rejected"
                                       [] OTHER -> status[x]]
        /\ nonVerifieds' = nonVerifieds \ Forgotten(last)
  BY DEF Record
<1>4. lastAccepted' \in Blocks
  BY <1>3 DEF CanAccept, StateType
<1>5. status' \in [Blocks -> {"Processing", "Accepted", "Rejected"}]
  BY <1>3, SMT DEF StateType
<1>6. processing' \subseteq Blocks /\ nonVerifieds' \subseteq Blocks \ {Genesis}
  BY <1>3 DEF StateType
<1> QED
  BY <1>2, <1>4, <1>5, <1>6 DEF Record, StateType

LEMMA QueryType ==
    ASSUME StateType, Query
    PROVE  StateType'
<1>1. stack # <<>> /\ stack \in Seq(Calls)
  BY RunningType DEF Query
<1>2. stack' \in Seq(Calls)
  BY <1>1, SeqFacts, ReturnType DEF Query
<1>3. CASE UNCHANGED <<polls, queries>>
  BY <1>2, <1>3 DEF Query, StateType, consensusVars, issueVars
<1>4. ASSUME FreePolls # {}, NEW vdrs \in Samples,
             polls' = Append(polls, [id |-> NextID(FreePolls), waiting |-> vdrs, votes |-> {}, done |-> FALSE]),
             queries' = queries \cup {[node |-> n, id |-> NextID(FreePolls)] : n \in vdrs}
      PROVE  StateType'
  <2>1. FreePolls \in SUBSET (1..MaxPolls) /\ FreePolls \in SUBSET Nat
    BY SMT DEF FreePolls
  <2>2. NextID(FreePolls) \in 1..MaxPolls
    BY <1>4, <2>1, NextIDIn
  <2>3. vdrs \in SUBSET Nodes
    BY EngineAssumption
  <2>4. [id |-> NextID(FreePolls), waiting |-> vdrs, votes |-> {}, done |-> FALSE] \in PollStates
    BY <2>2, <2>3 DEF PollStates
  <2>5. polls' \in Seq(PollStates)
    BY <1>4, <2>4, SeqAppend DEF StateType
  <2>6. queries' \subseteq [node : Nodes, id : 1..MaxPolls]
    <3>1. \A n \in vdrs : [node |-> n, id |-> NextID(FreePolls)] \in [node : Nodes, id : 1..MaxPolls]
      BY <2>2, <2>3
    <3> QED
      BY <1>4, <3>1, SMT DEF StateType
  <2> QED
    BY <1>2, <2>5, <2>6 DEF Query, StateType, consensusVars, issueVars
<1> QED
  BY <1>3, <1>4 DEF Query

LEMMA RepollType ==
    ASSUME StateType, Repoll
    PROVE  /\ StateType'
           /\ \E calls \in Seq(Calls) : Return(calls) /\ \A i \in DOMAIN calls : calls[i].op = "query"
<1> DEFINE n == ConcurrentRepolls - Len(polls)
           calls == [i \in 1..n |-> Do("query")]
<1>1. stack # <<>> /\ stack \in Seq(Calls)
  BY RunningType DEF Repoll
<1>2. n \in Int
  BY EngineAssumption, SMT DEF StateType
<1>3. calls \in [1..n -> Calls] /\ \A i \in DOMAIN calls : calls[i].op = "query"
  BY CallsType DEF Do
<1>4. Return(calls)
  BY DEF Repoll
<1> HIDE DEF n, calls
<1>5. calls \in Seq(Calls)
  BY <1>2, <1>3, FunctionIsSeq
<1>6. stack' \in Seq(Calls)
  BY <1>1, <1>4, <1>5, ReturnType
<1> QED
  BY <1>3, <1>4, <1>5, <1>6 DEF Repoll, StateType, consensusVars, issueVars

LEMMA BuildBlocksType ==
    ASSUME StateType, BuildBlocks
    PROVE  StateType'
<1>1. stack # <<>> /\ stack \in Seq(Calls)
  BY RunningType DEF BuildBlocks
<1>2. \A b \in Blocks : <<Call("issueWithAncestors", b), Do("buildBlocks")>> \in Seq(Calls)
  BY CallsType, SeqFacts DEF BlockCalls
<1>3. stack' \in Seq(Calls)
  BY <1>1, <1>2, SeqFacts, ReturnType DEF BuildBlocks
<1>4. pendingBuildBlocks' \in Nat
  BY SMT DEF BuildBlocks, StateType
<1> QED
  BY <1>3, <1>4 DEF BuildBlocks, StateType, consensusVars, issueVars

LEMMA HandleType ==
    ASSUME StateType, NEW calls \in Seq(Calls), Handle(calls),
           \A r \in blkReqs' : r.blk \in Blocks, \A m \in gets' : m.node \in Nodes,
           queries' \subseteq queries, pendingBuildBlocks' \in Nat, added' = added
    PROVE  StateType'
<1>1. Do("buildBlocks") \in Calls
  BY CallsType
<1>2. stack' \in Seq(Calls)
  BY <1>1, SeqFacts DEF Handle
<1> QED
  BY <1>2 DEF Handle, StateType, consensusVars

LEMMA FailGetType ==
    ASSUME StateType, NEW r \in blkReqs, FailGet(r), gets' \subseteq gets,
           UNCHANGED <<pendingBuildBlocks, added, queries>>
    PROVE  StateType'
<1>1. <<Call("abandon", r.blk)>> \in Seq(Calls)
  BY CallsType, SeqFacts DEF StateType, BlockCalls
<1>2. \A q \in blkReqs' : q.blk \in Blocks
  BY DEF FailGet, StateType
<1>3. (\A m \in gets' : m.node \in Nodes) /\ pendingBuildBlocks' \in Nat
  BY DEF StateType
<1> QED
  BY <1>1, <1>2, <1>3, HandleType DEF FailGet

LEMMA AnswerGetType ==
    ASSUME StateType, NEW m \in gets, AnswerGet(m)
    PROVE  StateType'
<1>1. m.node \in Nodes
  BY DEF StateType
<1>2. CASE GetFailed(m)
  <2>1. gets' \subseteq gets /\ UNCHANGED <<pendingBuildBlocks, added, queries>>
    BY <1>2 DEF GetFailed
  <2>2. CASE \E r \in Expected(m) : FailGet(r)
    BY <2>1, <2>2, FailGetType DEF Expected
  <2>3. CASE UNCHANGED <<consensusVars, issueVars, polls, stack>>
    BY <2>1, <2>3 DEF StateType, consensusVars, issueVars
  <2> QED
    BY <1>2, <2>2, <2>3 DEF GetFailed
<1>3. CASE Put(m)
  <2>1. PICK b \in Blocks :
          /\ gets' = gets \ {m}
          /\ \/ \E r \in Expected(m) : r.blk # b /\ FailGet(r)
             \/ /\ \A r \in Expected(m) : r.blk = b
                /\ Handle(<<CallFrom("issueFrom", m.node, b)>>)
                /\ UNCHANGED blkReqs
          /\ UNCHANGED <<pendingBuildBlocks, added, queries>>
    BY <1>3 DEF Put
  <2>2. CASE \E r \in Expected(m) : r.blk # b /\ FailGet(r)
    BY <2>1, <2>2, FailGetType DEF Expected
  <2>3. CASE Handle(<<CallFrom("issueFrom", m.node, b)>>) /\ UNCHANGED blkReqs
    <3>1. <<CallFrom("issueFrom", m.node, b)>> \in Seq(Calls)
      BY <1>1, CallsType, SeqFacts DEF FromCalls
    <3> QED
      BY <2>1, <2>3, <3>1, HandleType DEF StateType
  <2> QED
    BY <2>1, <2>2, <2>3
<1> QED
  BY <1>2, <1>3 DEF AnswerGet

LEMMA HandlersType ==
    ASSUME StateType, PushQuery \/ PullQuery \/ Notify \/ \E m \in queries : AnswerQuery(m)
    PROVE  StateType'
<1>1. \A op \in FromCalls, node \in Nodes, b \in Blocks : <<CallFrom(op, node, b)>> \in Seq(Calls)
  BY CallsType, SeqFacts
<1>2. CASE PushQuery
  BY <1>1, <1>2, HandleType DEF PushQuery, StateType, FromCalls
<1>3. CASE PullQuery
  BY <1>1, <1>3, HandleType DEF PullQuery, StateType, FromCalls
<1>4. CASE Notify
  <2>1. pendingBuildBlocks' \in Nat
    BY <1>4, SMT DEF Notify, StateType
  <2>2. <<>> \in Seq(Calls)
    BY SeqFacts
  <2> QED
    BY <1>4, <2>1, <2>2, HandleType DEF Notify, StateType
<1>5. ASSUME NEW m \in queries, AnswerQuery(m)
      PROVE  StateType'
  <2>1. m.node \in Nodes /\ m.id \in 1..MaxPolls
    BY DEF StateType
  <2>2. queries' \subseteq queries /\ UNCHANGED <<blkReqs, pendingBuildBlocks, added, gets>>
    BY <1>5 DEF AnswerQuery
  <2>3. ASSUME NEW b \in Blocks, ChitsFor(m, b)
        PROVE  StateType'
    <3>1. <<CallFrom("issueFromByID", m.node, b),
            [op |-> "chits", node |-> m.node, id |-> m.id, blk |-> b]>> \in Seq(Calls)
      BY <2>1, CallsType, SeqFacts DEF FromCalls
    <3> QED
      BY <2>2, <2>3, <3>1, HandleType DEF ChitsFor, StateType
  <2>4. CASE Handle(<<Voter(m.node, m.id, None)>>)
    <3>1. <<Voter(m.node, m.id, None)>> \in Seq(Calls)
      BY <2>1, CallsType, SeqFacts
    <3> QED
      BY <2>2, <2>4, <3>1, HandleType DEF StateType
  <2> QED
    BY <1>5, <2>3, <2>4 DEF AnswerQuery
<1> QED
  BY <1>2, <1>3, <1>4, <1>5

LEMMA InitType ==
    ASSUME Init
    PROVE  StateType
<1>1. stack \in Seq(Calls)
  <2> DEFINE calls == [i \in 1..Len(Options[Genesis]) |-> [op |-> "deliver", blk |-> Options[Genesis][i]]]
  <2>1. Len(Options[Genesis]) \in Nat
    BY OptionFacts, BlockAssumption
  <2>2. \A i \in 1..Len(Options[Genesis]) : calls[i] \in Calls
    BY OptionFacts, BlockAssumption, CallsType DEF Call, BlockCalls
  <2>3. calls \in [1..Len(Options[Genesis]) -> Calls]
    BY <2>2
  <2> HIDE DEF calls
  <2>4. calls \in Seq(Calls)
    BY <2>1, <2>3, SeqIsFunction, SMT
  <2> QED
    BY <2>4 DEF Init, calls
<1>2. polls \in Seq(PollStates) /\ \A b \in Blocks : blocked[b] \in Seq(Issuers \cup Voters)
  BY SeqFacts DEF Init
<1>3. pendingBuildBlocks \in Nat
  BY SMT DEF Init
<1>4. /\ lastAccepted \in Blocks /\ status \in [Blocks -> {"Processing", "Accepted", "Rejected"}]
      /\ added \in BOOLEAN
  BY BlockAssumption DEF Init
<1> QED
  BY <1>1, <1>2, <1>3, <1>4 DEF Init, StateType

LEMMA NextType ==
    ASSUME StateType, TreeInv, Next
    PROVE  StateType'
<1>1. CASE Fulfill \/ Abandon
  <2>1. stack # <<>> /\ stack[1].blk \in Blocks
    BY <1>1, RunningType, CallFields DEF Fulfill, Abandon, BlockCalls
  <2>2. Release("deliver") \/ Release("abandonIssuer")
    BY <1>1 DEF Fulfill, Abandon
  <2> QED
    BY <2>1, <2>2, ReleaseType DEF BlockCalls
<1>2. CASE RemoveRequest
  <2>1. stack # <<>> /\ stack \in Seq(Calls)
    BY <1>2, RunningType DEF RemoveRequest
  <2>2. stack' \in Seq(Calls)
    BY <1>2, <2>1, SeqFacts, ReturnType DEF RemoveRequest
  <2> QED
    BY <1>2, <2>2 DEF RemoveRequest, RemoveAny, StateType, consensusVars
<1>3. CASE Settle
  <2>1. stack # <<>> /\ stack \in Seq(Calls)
    BY <1>3, RunningType DEF Settle
  <2>2. stack' \in Seq(Calls)
    BY <1>3, <2>1, CallsType, SeqFacts, ReturnType DEF Settle
  <2> QED
    BY <1>3, <2>2 DEF Settle, StateType, consensusVars, issueVars
<1>4. CASE \E m \in gets : AnswerGet(m)
  BY <1>4, AnswerGetType
<1>5. CASE PushQuery \/ PullQuery \/ Notify \/ \E m \in queries : AnswerQuery(m)
  BY <1>5, HandlersType
<1>6. CASE IssueFrom \/ IssueWithAncestors \/ Deliver \/ Option \/ AbandonIssuer
  BY <1>6, IssueFromType, IssueWithAncestorsType, DeliverType, OptionType, AbandonIssuerType
<1>7. CASE Chits \/ Vote \/ Record \/ Repoll \/ Query \/ BuildBlocks
  BY <1>7, ChitsType, VoteType, RecordType, RepollType, QueryType, BuildBlocksType
<1>8. CASE \E b \in Blocks : Forget(b)
  BY <1>8 DEF Forget, StateType, issueVars
<1> QED
  BY <1>1, <1>2, <1>3, <1>4, <1>5, <1>6, <1>7, <1>8 DEF Next, Step

-----------------------------------------------------------------------------
(* Consensus *)

\* A block in consensus or accepted was issued and is found.  A block that was
\* issued and is neither is lost.
LEMMA AddedFacts ==
    ASSUME StateType, TreeInv
    PROVE  /\ Added(lastAccepted)
           /\ \A b \in Blocks : Added(b) => Issued(b) /\ ~MayMiss(b)
           /\ \A b \in Blocks : Issued(b) => Gone(b)
           /\ \A b \in processing : Height[b] > Height[lastAccepted]
           /\ \A b \in processing : b # lastAccepted /\ ~Decided(b)
<1>1. status[lastAccepted] = "Accepted" /\ lastAccepted \in Blocks
  BY DEF TreeInv, StateType
<1>2. \A b \in processing :
        /\ b \in Blocks /\ status[b] = "Processing" /\ Height[lastAccepted] < Height[b]
        /\ Height[b] \in Nat /\ Height[lastAccepted] \in Nat
  BY AncestorFacts, HeightType DEF TreeInv, StateType
<1>3. \A b \in processing : Height[b] > Height[lastAccepted] /\ ~(Height[b] <= Height[lastAccepted])
  BY <1>2, SMT
<1>4. \A b \in processing : b # lastAccepted
  BY <1>1, <1>2, SMT
<1>5. Added(lastAccepted)
  BY <1>1, SMT DEF Added
<1>6. \A b \in Blocks : Added(b) => Issued(b) /\ ~MayMiss(b)
  <2>1. "Accepted" # "Processing"
    BY SMT
  <2> QED
    BY <2>1 DEF Added, Issued, Decided, MayMiss
<1>7. ASSUME NEW b \in Blocks, Issued(b), ~Added(b)
      PROVE  Lost(b)
  <2>1. CASE status[b] # "Processing"
    BY <1>7, <2>1 DEF Added, StateType, TreeInv
  <2>2. CASE Height[b] <= Height[lastAccepted]
    <3>1. Height[b] \in Nat /\ Height[lastAccepted] \in Nat
      BY <1>1, HeightType
    <3>2. ~(Height[lastAccepted] < Height[b])
      BY <2>2, <3>1, SMT
    <3>3. lastAccepted \notin Ancestors[b]
      BY <3>2, AncestorFacts
    <3> QED
      BY <1>7, <3>3 DEF Lost
  <2> QED
    BY <1>7, <2>1, <2>2 DEF Issued, Decided, Added
<1> QED
  BY <1>2, <1>3, <1>4, <1>5, <1>6, <1>7 DEF Gone, Decided

\* What is below a lost block is lost.
LEMMA LostBelow ==
    ASSUME StateType, TreeInv, NEW b \in Blocks, NEW x \in Ancestors[b], Lost(x)
    PROVE  Lost(b)
<1>1. x \in Blocks /\ lastAccepted \in Blocks /\ ~Added(x) /\ lastAccepted \notin Ancestors[x]
  BY AncestorFacts DEF StateType, Lost
<1>2. ~Added(b)
  BY <1>1 DEF TreeInv
<1>3. x # lastAccepted /\ x \notin Ancestors[lastAccepted]
  BY <1>1 DEF TreeInv, Added
<1>4. ASSUME lastAccepted \in Ancestors[b]
      PROVE  FALSE
  <2>1. Height[x] <= Height[lastAccepted] \/ Height[lastAccepted] <= Height[x]
    BY <1>1, HeightType, SMT
  <2> QED
    BY <1>1, <1>3, <1>4, <2>1, AncestorsUpTo
<1> QED
  BY <1>2, <1>4 DEF Lost

\* A block that deliver verifies extends consensus.
LEMMA DeliverableInTree ==
    ASSUME StateType, TreeInv, NEW b \in Blocks, ~Issued(b), Deliverable(b)
    PROVE  b \in Blocks \ {Genesis} /\ Parent[b] \in processing \cup {lastAccepted}
<1>1. b \in Blocks \ {Genesis}
  BY GenesisIssued
<1>2. CASE Parent[b] \in Ancestors[lastAccepted]
  <2>1. Height[Parent[b]] < Height[lastAccepted] /\ Height[b] = Height[Parent[b]] + 1
    BY <1>1, <1>2, AncestorFacts, ParentFacts DEF StateType
  <2>2. Height[Parent[b]] \in Nat /\ Height[lastAccepted] \in Nat
    BY <1>1, ParentFacts, HeightType DEF StateType
  <2>3. Height[b] <= Height[lastAccepted]
    BY <2>1, <2>2, SMT
  <2> QED
    BY <2>3 DEF Issued, Decided
<1> QED
  BY <1>1, <1>2, ParentFacts DEF Deliverable, TreeInv

New(b) == ~Added(b) /\ status[b] = "Processing" /\ lastAccepted \in Ancestors[b]

\* What deliver adds, and what it does not change.
Extended(b, bad) ==
    /\ b \in Blocks \ {Genesis} /\ Parent[b] \in processing \cup {lastAccepted} /\ New(b)
    /\ \A o \in Range(Options[b]) : o \in Blocks \ {Genesis} /\ Parent[o] = b /\ New(o)
    /\ processing' = processing \cup {b} \cup (Range(Options[b]) \ bad)
    /\ status' = status /\ lastAccepted' = lastAccepted
    /\ nonVerifieds' = (nonVerifieds \ ({b} \cup (Range(Options[b]) \ bad))) \cup bad

LEMMA DeliverAddedFacts ==
    ASSUME StateType, TreeInv, NEW b \in Blocks,
           NEW bad \in SUBSET (Range(Options[b]) \cap Unreliable), NEW preferred \in BOOLEAN,
           DeliverAdded(b, bad, preferred)
    PROVE  Extended(b, bad)
<1>1. b \in Blocks \ {Genesis} /\ Parent[b] \in processing \cup {lastAccepted}
  BY DeliverableInTree DEF DeliverAdded
<1>2. New(b)
  <2>1. ~Added(b) /\ status[b] = "Processing"
    BY AddedFacts DEF DeliverAdded, Issued, Decided
  <2>2. Ancestors[b] = {Parent[b]} \cup Ancestors[Parent[b]]
    BY <1>1, ParentFacts
  <2>3. Parent[b] \in processing => lastAccepted \in Ancestors[Parent[b]]
    BY DEF TreeInv
  <2> QED
    BY <1>1, <2>1, <2>2, <2>3 DEF New
<1>3. \A o \in Range(Options[b]) : o \in Blocks \ {Genesis} /\ Parent[o] = b /\ New(o)
  <2> SUFFICES ASSUME NEW o \in Range(Options[b])
               PROVE  o \in Blocks \ {Genesis} /\ Parent[o] = b /\ New(o)
    OBVIOUS
  <2>1. o \in Blocks \ {Genesis} /\ Parent[o] = b
    BY OptionFacts
  <2>2. Ancestors[o] = {b} \cup Ancestors[b]
    BY <2>1, ParentFacts
  <2>3. ~Added(o) /\ lastAccepted \in Ancestors[o]
    BY <1>2, <2>1, <2>2 DEF TreeInv, New
  <2>4. status[o] \notin {"Accepted", "Rejected"}
    BY <2>1, <2>3 DEF TreeInv, Added, Lost
  <2> QED
    BY <2>1, <2>3, <2>4 DEF New, StateType
<1>4. status' = status
  <2>1. status' = [x \in Blocks |-> status[x]]
    BY <1>1 DEF DeliverAdded, AddToConsensus
  <2>2. status = [x \in Blocks |-> status[x]]
    BY DEF StateType
  <2> QED
    BY <2>1, <2>2
<1> QED
  BY <1>1, <1>2, <1>3, <1>4 DEF DeliverAdded, AddToConsensus, Extended

LEMMA ExtendedTree ==
    ASSUME StateType, TreeInv, NEW b \in Blocks, NEW bad \in SUBSET Range(Options[b]), Extended(b, bad)
    PROVE  TreeInv'
<1> DEFINE good == Range(Options[b]) \ bad
           Below(c) == /\ status[c] = "Processing" /\ lastAccepted \in Ancestors[c]
                       /\ \A x \in Ancestors[c] : Height[x] > Height[lastAccepted] => x \in processing'
<1>1. /\ b \in Blocks \ {Genesis} /\ Parent[b] \in processing \cup {lastAccepted} /\ New(b)
      /\ \A o \in good : o \in Blocks \ {Genesis} /\ Parent[o] = b /\ New(o)
      /\ processing' = processing \cup {b} \cup good
      /\ status' = status /\ lastAccepted' = lastAccepted
  BY DEF Extended
<1> HIDE DEF good
<1>2. lastAccepted \in Blocks /\ processing \subseteq Blocks
  BY DEF StateType
<1>3. Ancestors[b] = {Parent[b]} \cup Ancestors[Parent[b]] /\ Parent[b] \in Blocks
  BY <1>1, ParentFacts
<1>4. Below(b)
  <2>1. status[b] = "Processing"
    BY <1>1 DEF New
  <2>2. CASE Parent[b] = lastAccepted
    <3>1. \A x \in Ancestors[b] : ~(Height[x] > Height[lastAccepted])
      <4> SUFFICES ASSUME NEW x \in Ancestors[b]
                   PROVE  ~(Height[x] > Height[lastAccepted])
        OBVIOUS
      <4>1. x = lastAccepted \/ Height[x] < Height[lastAccepted]
        BY <1>2, <1>3, <2>2, AncestorFacts
      <4>2. Height[x] \in Nat /\ Height[lastAccepted] \in Nat
        BY <1>1, <1>2, AncestorFacts, HeightType
      <4> QED
        BY <4>1, <4>2, SMT
    <3> QED
      BY <1>3, <2>1, <2>2, <3>1
  <2>3. CASE Parent[b] \in processing
    BY <1>1, <1>3, <2>1, <2>3 DEF TreeInv
  <2> QED
    BY <1>1, <2>2, <2>3
<1>5. \A o \in good : Below(o)
  <2> SUFFICES ASSUME NEW o \in good
               PROVE  Below(o)
    OBVIOUS
  <2>1. Ancestors[o] = {b} \cup Ancestors[b]
    BY <1>1, ParentFacts
  <2>2. status[o] = "Processing"
    BY <1>1 DEF New
  <2> QED
    BY <1>1, <1>4, <2>1, <2>2
<1>6. \A c \in processing : Below(c)
  BY <1>1 DEF TreeInv
<1>7. \A c \in Blocks : Added(c) => Added(c)'
  BY <1>1 DEF Added
<1>8. \A x \in Ancestors[b] : Added(x)
  <2>1. Added(Parent[b])
    BY <1>1, AddedFacts DEF Added
  <2> QED
    BY <1>3, <2>1 DEF TreeInv
<1>9. ASSUME NEW c \in Blocks, Added(c)', NEW x \in Ancestors[c]
      PROVE  Added(x)'
  <2>1. x \in Blocks
    BY AncestorFacts
  <2>2. CASE Added(c)
    BY <1>7, <2>1, <2>2 DEF TreeInv
  <2>3. CASE c = b
    BY <1>7, <1>8, <2>1, <2>3
  <2>4. CASE c \in good
    <3>1. Ancestors[c] = {b} \cup Ancestors[b]
      BY <1>1, <2>4, ParentFacts
    <3>2. Added(b)'
      BY <1>1 DEF Added
    <3> QED
      BY <1>7, <1>8, <2>1, <3>1, <3>2
  <2> QED
    BY <1>1, <1>9, <2>2, <2>3, <2>4 DEF Added
<1>10. \A c \in processing' : Below(c)
  BY <1>1, <1>4, <1>5, <1>6
<1>11. ASSUME NEW c \in Blocks, status[c] = "Rejected"
       PROVE  Lost(c)'
  <2>1. status[c] # "Processing"
    BY <1>11, SMT
  <2>2. Lost(c) /\ c \notin {b} \cup good
    BY <1>1, <1>11, <2>1 DEF TreeInv, New
  <2> QED
    BY <1>1, <2>2 DEF Lost, Added
<1> QED
  BY <1>1, <1>9, <1>10, <1>11 DEF TreeInv

\* b is added below a vote's root only in place of a block between, so that the
\* vote counts for b, or for its option, from then on.
LEMMA ExtendedVotes ==
    ASSUME StateType, TreeInv, VoteInv, NEW b \in Blocks, NEW bad \in SUBSET Range(Options[b]),
           Extended(b, bad)
    PROVE  VoteInv'
<1> DEFINE good == Range(Options[b]) \ bad
<1>1. /\ ~Added(b) /\ (\A o \in bad : o \in Blocks \ {Genesis} /\ Parent[o] = b /\ ~Added(o))
      /\ (\A o \in good : o \in Blocks \ {Genesis} /\ Parent[o] = b)
      /\ processing' = processing \cup {b} \cup good
      /\ lastAccepted' = lastAccepted
      /\ nonVerifieds' = (nonVerifieds \ ({b} \cup good)) \cup bad
      /\ bad \cap good = {}
  BY DEF Extended, New
<1> HIDE DEF good
<1>2. \A o \in bad \cup good : Height[o] = Height[b] + 1 /\ Ancestors[o] = {b} \cup Ancestors[b]
  BY <1>1, ParentFacts
<1>3. Height[b] \in Nat
  BY HeightType
<1>4. ASSUME NEW c \in bad
      PROVE  c \notin processing' /\ \E r \in Ancestors[c] : RootOf(c, r)'
  <2>1. c # b
    BY <1>2, <1>3, SMT
  <2>2. c \notin processing'
    BY <1>1, <2>1 DEF Added
  <2>3. \A x \in Ancestors[c] : ~(Height[x] > Height[b])
    <3>1. \A x \in Ancestors[b] : Height[x] < Height[b] /\ Height[x] \in Nat
      BY AncestorFacts, HeightType
    <3> QED
      BY <1>2, <1>3, <3>1, SMT
  <2>4. b \in Ancestors[c] /\ b \in processing'
    BY <1>1, <1>2
  <2>5. RootOf(c, b)'
    BY <2>3, <2>4 DEF RootOf
  <2> QED
    BY <2>2, <2>4, <2>5
<1>5. ASSUME NEW c \in nonVerifieds, c \notin {b} \cup good
      PROVE  c \notin processing' /\ \E r \in Ancestors[c] : RootOf(c, r)'
  <2>1. c \notin processing'
    BY <1>1, <1>5 DEF VoteInv
  <2>2. PICK r \in Ancestors[c] : RootOf(c, r)
    BY DEF VoteInv
  <2>3. c \in Blocks
    BY DEF StateType
  <2>4. \A x \in Ancestors[c] : x \in Blocks /\ Height[x] \in Nat
    BY <2>3, AncestorFacts, HeightType
  <2>5. \A x \in Ancestors[c] : Height[x] > Height[r] => x \in nonVerifieds
    BY <2>2 DEF RootOf
  <2>6. CASE \E g \in good : g \in Ancestors[c] /\ Height[g] > Height[r]
    <3>1. PICK g \in good : g \in Ancestors[c] /\ Height[g] > Height[r]
      BY <2>6
    <3>2. ASSUME NEW x \in Ancestors[c], Height[x] > Height[g]
          PROVE  x \in nonVerifieds'
      <4>1. Height[x] > Height[r]
        BY <2>4, <3>1, <3>2, SMT
      <4>2. x # b /\ x \notin good
        BY <1>2, <1>3, <2>4, <3>1, <3>2, SMT
      <4> QED
        BY <1>1, <2>5, <4>1, <4>2
    <3> QED
      BY <1>1, <2>1, <3>1, <3>2 DEF RootOf
  <2>7. CASE b \in Ancestors[c] /\ Height[b] > Height[r]
             /\ \A g \in good : ~(g \in Ancestors[c] /\ Height[g] > Height[r])
    <3>1. ASSUME NEW x \in Ancestors[c], Height[x] > Height[b]
          PROVE  x \in nonVerifieds'
      <4>1. Height[x] > Height[r] /\ x # b
        BY <2>4, <2>7, <3>1, SMT
      <4> QED
        BY <1>1, <2>5, <2>7, <4>1
    <3> QED
      BY <1>1, <2>1, <2>7, <3>1 DEF RootOf
  <2>8. CASE ~(b \in Ancestors[c] /\ Height[b] > Height[r])
             /\ \A g \in good : ~(g \in Ancestors[c] /\ Height[g] > Height[r])
    <3>1. ASSUME NEW x \in Ancestors[c], Height[x] > Height[r]
          PROVE  x \in nonVerifieds'
      BY <1>1, <2>5, <2>8, <3>1
    <3> QED
      BY <1>1, <2>1, <2>2, <3>1 DEF RootOf
  <2> QED
    BY <2>6, <2>7, <2>8
<1> QED
  BY <1>1, <1>4, <1>5 DEF VoteInv

\* A block that was not issued is remembered below a block that a vote passes.
LEMMA RememberedVotes ==
    ASSUME StateType, TreeInv, VoteInv, NEW b \in Blocks, UNCHANGED consensusVars,
           nonVerifieds' = nonVerifieds \cup (IF KeepsParent(b) THEN {b} ELSE {})
    PROVE  VoteInv'
<1>1. \A c, r : RootOf(c, r) => RootOf(c, r)'
  BY DEF RootOf, consensusVars
<1>2. \A c \in nonVerifieds : c \notin processing' /\ \E r \in Ancestors[c] : RootOf(c, r)'
  BY <1>1 DEF VoteInv, consensusVars
<1>3. CASE KeepsParent(b)
  <2>1. b \in Blocks \ {Genesis} /\ b \notin processing /\ Parent[b] \in nonVerifieds \cup processing
    BY <1>3, GenesisIssued DEF KeepsParent, Issued
  <2>2. Ancestors[b] = {Parent[b]} \cup Ancestors[Parent[b]] /\ Parent[b] \in Blocks
    BY <2>1, ParentFacts
  <2>3. CASE Parent[b] \in processing
    <3>1. \A x \in Ancestors[b] : ~(Height[x] > Height[Parent[b]])
      <4>1. \A x \in Ancestors[Parent[b]] : Height[x] < Height[Parent[b]] /\ Height[x] \in Nat
        BY <2>2, AncestorFacts, HeightType
      <4>2. Height[Parent[b]] \in Nat
        BY <2>2, HeightType
      <4> QED
        BY <2>2, <4>1, <4>2, SMT
    <3>2. RootOf(b, Parent[b])'
      BY <2>2, <2>3, <3>1 DEF RootOf, consensusVars
    <3> QED
      BY <1>2, <1>3, <2>1, <2>2, <3>2 DEF VoteInv, consensusVars
  <2>4. CASE Parent[b] \in nonVerifieds
    <3>1. PICK r \in Ancestors[Parent[b]] : RootOf(Parent[b], r)
      BY <2>4 DEF VoteInv
    <3>2. RootOf(b, r)'
      BY <2>2, <2>4, <3>1 DEF RootOf, consensusVars
    <3> QED
      BY <1>2, <1>3, <2>1, <2>2, <3>1, <3>2 DEF VoteInv, consensusVars
  <2> QED
    BY <2>1, <2>3, <2>4
<1>4. CASE ~KeepsParent(b)
  BY <1>2, <1>4 DEF VoteInv
<1> QED
  BY <1>3, <1>4

\* What a poll decides.
Decides(last) ==
    /\ lastAccepted' = last
    /\ processing' = processing \ (Accepted(last) \cup Conflicting(last))
    /\ status' = [x \in Blocks |-> CASE x \in Accepted(last)   -> "Accepted"
                                   [] x \in Conflicting(last) -> "Rejected"
                                   [] OTHER -> status[x]]
    /\ nonVerifieds' = nonVerifieds \ Forgotten(last)

LEMMA RecordCases ==
    ASSUME StateType, Record
    PROVE  Decides(lastAccepted) \/ \E last \in processing : Decides(last)
BY DEF Record, Decides, CanAccept

\* A poll that accepts nothing rejects nothing.
LEMMA DecidesNothing ==
    ASSUME StateType, TreeInv, Decides(lastAccepted)
    PROVE  UNCHANGED <<consensusVars, nonVerifieds>>
<1>1. Accepted(lastAccepted) = {}
  <2>1. \A x \in {lastAccepted} \cup Ancestors[lastAccepted] : ~(Height[x] > Height[lastAccepted])
    <3>1. Height[lastAccepted] \in Nat /\ lastAccepted \in Blocks
      BY HeightType DEF StateType
    <3>2. \A x \in Ancestors[lastAccepted] : Height[x] < Height[lastAccepted] /\ Height[x] \in Nat
      BY <3>1, AncestorFacts, HeightType
    <3> QED
      BY <3>1, <3>2, SMT
  <2> QED
    BY <2>1 DEF Accepted
<1>2. Conflicting(lastAccepted) = {}
  BY DEF Conflicting, TreeInv
<1>3. Forgotten(lastAccepted) = {}
  BY <1>1, <1>2 DEF Forgotten
<1>4. status' = [x \in Blocks |-> status[x]]
  <2>1. \A x \in Blocks : x \notin Accepted(lastAccepted) /\ x \notin Conflicting(lastAccepted)
    BY <1>1, <1>2
  <2> QED
    BY <2>1 DEF Decides
<1>5. status' = status
  BY <1>4 DEF StateType
<1> QED
  BY <1>1, <1>2, <1>3, <1>5 DEF Decides, consensusVars

\* The blocks on the way to last are accepted, and what stays processing is below
\* last.
Settles(last) ==
    /\ Accepted(last) \subseteq processing /\ Conflicting(last) \subseteq processing
    /\ Accepted(last) \cap Conflicting(last) = {}
    /\ last \in Accepted(last)
    /\ \A b \in processing' : last \in Ancestors[b]
    /\ \A x \in Accepted(last) : status'[x] = "Accepted"
    /\ \A x \in Conflicting(last) : status'[x] = "Rejected"
    /\ \A x \in Blocks \ (Accepted(last) \cup Conflicting(last)) : status'[x] = status[x]
    /\ \A x \in Blocks : Added(x)' <=> Added(x) /\ x \notin Conflicting(last)

LEMMA DecidesFacts ==
    ASSUME StateType, TreeInv, NEW last \in processing, Decides(last)
    PROVE  Settles(last)
<1>1. last \in Blocks /\ lastAccepted \in Ancestors[last] /\ processing \subseteq Blocks
  BY DEF StateType, TreeInv
<1>2. Accepted(last) \subseteq processing
  BY DEF Accepted, TreeInv
<1>3. Conflicting(last) \subseteq processing /\ Accepted(last) \cap Conflicting(last) = {}
  BY DEF Conflicting, Accepted
<1>4. last \in Accepted(last)
  BY AddedFacts DEF Accepted
<1>5. ASSUME NEW b \in processing'
      PROVE  last \in Ancestors[b]
  <2>1. b \in processing /\ b \notin Accepted(last) /\ b \notin Conflicting(last)
    BY <1>5 DEF Decides
  <2>2. Height[b] > Height[lastAccepted]
    BY <2>1, AddedFacts
  <2>3. b # last /\ b \notin Ancestors[last]
    BY <2>1, <2>2 DEF Accepted
  <2> QED
    BY <2>1, <2>3 DEF Conflicting
<1>6. /\ \A x \in Accepted(last) : status'[x] = "Accepted"
      /\ \A x \in Conflicting(last) : status'[x] = "Rejected"
      /\ \A x \in Blocks \ (Accepted(last) \cup Conflicting(last)) : status'[x] = status[x]
  <2>1. \A x \in Accepted(last) : x \in Blocks /\ x \notin Conflicting(last)
    BY <1>1, <1>2, <1>3
  <2>2. \A x \in Conflicting(last) : x \in Blocks /\ x \notin Accepted(last)
    BY <1>1, <1>3
  <2> QED
    BY <2>1, <2>2 DEF Decides
<1>7. ASSUME NEW x \in Blocks
      PROVE  Added(x)' <=> Added(x) /\ x \notin Conflicting(last)
  <2>1. CASE x \in Accepted(last)
    <3>1. status'[x] = "Accepted" /\ x \in processing /\ x \notin Conflicting(last)
      BY <1>2, <1>3, <1>6, <2>1
    <3> QED
      BY <3>1 DEF Added
  <2>2. CASE x \in Conflicting(last)
    <3>1. status'[x] = "Rejected" /\ x \notin processing'
      BY <1>3, <1>6, <2>2 DEF Decides
    <3>2. status'[x] # "Accepted"
      BY <3>1, SMT
    <3> QED
      BY <2>2, <3>1, <3>2 DEF Added
  <2>3. CASE x \notin Accepted(last) /\ x \notin Conflicting(last)
    <3>1. status'[x] = status[x]
      BY <1>6, <2>3
    <3>2. x \in processing <=> x \in processing'
      BY <2>3 DEF Decides
    <3> QED
      BY <2>3, <3>1, <3>2 DEF Added
  <2> QED
    BY <2>1, <2>2, <2>3
<1> QED
  BY <1>2, <1>3, <1>4, <1>5, <1>6, <1>7 DEF Settles

LEMMA DecidesTree ==
    ASSUME StateType, TreeInv, NEW last \in processing, Decides(last)
    PROVE  TreeInv'
<1>1. last \in Blocks /\ lastAccepted \in Ancestors[last] /\ processing \subseteq Blocks
  BY DEF StateType, TreeInv
<1>2. lastAccepted' = last /\ Settles(last)
  BY DecidesFacts DEF Decides
<1>3. Height[last] \in Nat /\ Height[lastAccepted] \in Nat /\ Height[lastAccepted] < Height[last]
  BY <1>1, AncestorFacts, HeightType
<1>4. ASSUME NEW b \in processing'
      PROVE  /\ status'[b] = "Processing" /\ last \in Ancestors[b]
             /\ \A x \in Ancestors[b] : Height[x] > Height[last] => x \in processing'
  <2>1. /\ b \in processing /\ b \notin Accepted(last) /\ b \notin Conflicting(last) /\ b \in Blocks
        /\ last \in Ancestors[b]
    BY <1>1, <1>2, <1>4 DEF Decides, Settles
  <2>2. status'[b] = "Processing"
    BY <1>2, <2>1 DEF Settles, TreeInv
  <2>3. ASSUME NEW x \in Ancestors[b], Height[x] > Height[last]
        PROVE  x \in processing'
    <3>1. x \in Blocks /\ Height[x] \in Nat
      BY <2>1, AncestorFacts, HeightType
    <3>2. Height[x] > Height[lastAccepted] /\ Height[last] < Height[x]
      BY <1>3, <2>3, <3>1, SMT
    <3>3. x \in processing
      BY <2>1, <3>2 DEF TreeInv
    <3>4. last \in Ancestors[x]
      BY <2>1, <3>2, AncestorChain
    <3>5. x # last /\ x \notin Ancestors[last]
      <4>1. ~(Height[x] < Height[last]) /\ x # last
        BY <1>3, <3>1, <3>2, SMT
      <4> QED
        BY <1>1, <4>1, AncestorFacts
    <3>6. x \notin Accepted(last) /\ x \notin Conflicting(last)
      BY <3>4, <3>5 DEF Accepted, Conflicting
    <3> QED
      BY <3>3, <3>6 DEF Decides
  <2> QED
    BY <2>1, <2>2, <2>3
<1>5. ASSUME NEW x \in Blocks
      PROVE  status'[x] = "Accepted" <=> (x = last \/ x \in Ancestors[last])
  <2>1. CASE x \in Accepted(last)
    BY <1>2, <2>1 DEF Settles, Accepted
  <2>2. CASE x \in Conflicting(last)
    <3>1. status'[x] = "Rejected"
      BY <1>2, <2>2 DEF Settles
    <3>2. status'[x] # "Accepted"
      BY <3>1, SMT
    <3> QED
      BY <2>2, <3>2 DEF Conflicting
  <2>3. CASE x \notin Accepted(last) /\ x \notin Conflicting(last)
    <3>1. status'[x] = status[x]
      BY <1>2, <2>3 DEF Settles
    <3>2. status[x] = "Accepted" => x \in Ancestors[last]
      BY <1>1, AncestorFacts DEF TreeInv
    <3>3. ASSUME x = last \/ x \in Ancestors[last]
          PROVE  status[x] = "Accepted"
      <4>1. Height[x] \in Nat /\ ~(Height[x] > Height[lastAccepted])
        BY <2>3, <3>3, HeightType DEF Accepted
      <4>2. Height[x] <= Height[lastAccepted] /\ x # last
        BY <1>3, <4>1, SMT
      <4>3. x = lastAccepted \/ x \in Ancestors[lastAccepted]
        BY <1>1, <3>3, <4>2, AncestorsUpTo
      <4> QED
        BY <4>3 DEF TreeInv
    <3> QED
      BY <3>1, <3>2, <3>3
  <2> QED
    BY <2>1, <2>2, <2>3
<1>6. ASSUME NEW b \in Blocks, Added(b)', NEW x \in Ancestors[b]
      PROVE  Added(x)'
  <2>1. x \in Blocks
    BY AncestorFacts
  <2>2. x = last \/ x \in Ancestors[last] => Added(x)'
    BY <1>5, <2>1 DEF Added
  <2>3. CASE status'[b] = "Accepted"
    BY <1>1, <1>5, <2>2, <2>3, AncestorFacts
  <2>4. CASE b \in processing'
    <3>1. Height[x] > Height[last] \/ Height[x] <= Height[last]
      BY <1>3, <2>1, HeightType, SMT
    <3>2. CASE Height[x] > Height[last]
      BY <1>4, <2>4, <3>2 DEF Added
    <3>3. CASE Height[x] <= Height[last]
      BY <1>4, <2>2, <2>4, <3>3, AncestorsUpTo
    <3> QED
      BY <3>1, <3>2, <3>3
  <2> QED
    BY <1>6, <2>3, <2>4 DEF Added
<1>7. ASSUME NEW b \in Blocks, status'[b] = "Rejected"
      PROVE  Lost(b)'
  <2>1. CASE b \in Conflicting(last)
    <3>1. ~Added(b)' /\ last \notin Ancestors[b]
      BY <1>2, <2>1 DEF Settles, Conflicting
    <3> QED
      BY <1>2, <3>1 DEF Lost
  <2>2. CASE b \notin Conflicting(last)
    <3>1. b \notin Accepted(last)
      <4>1. status'[b] # "Accepted"
        BY <1>7, SMT
      <4> QED
        BY <1>2, <4>1 DEF Settles
    <3>2. status[b] = "Rejected"
      BY <1>2, <1>7, <2>2, <3>1 DEF Settles
    <3>3. Lost(b)
      BY <3>2 DEF TreeInv
    <3>4. ~Added(b)' /\ last \notin Ancestors[b]
      BY <1>1, <1>2, <3>3, AncestorFacts DEF Settles, Lost
    <3> QED
      BY <1>2, <3>4 DEF Lost
  <2> QED
    BY <2>1, <2>2
<1> QED
  BY <1>2, <1>4, <1>5, <1>6, <1>7 DEF TreeInv

\* A vote whose root is accepted above last, or rejected, is forgotten with the
\* blocks between; no other vote loses a block.
LEMMA DecidesVotes ==
    ASSUME StateType, TreeInv, VoteInv, NEW last \in processing, Decides(last)
    PROVE  VoteInv'
<1>1. last \in Blocks /\ lastAccepted \in Ancestors[last] /\ processing \subseteq Blocks
  BY DEF StateType, TreeInv
<1>2. /\ lastAccepted' = last /\ Settles(last)
      /\ processing' = processing \ (Accepted(last) \cup Conflicting(last))
      /\ nonVerifieds' = nonVerifieds \ Forgotten(last)
  BY DecidesFacts DEF Decides
<1>3. Height[lastAccepted] \in Nat /\ lastAccepted \in Blocks
  BY HeightType DEF StateType
<1> SUFFICES ASSUME NEW c \in nonVerifieds'
             PROVE  c \notin processing' /\ \E r \in Ancestors[c] : RootOf(c, r)'
  BY DEF VoteInv
<1>4. c \in nonVerifieds /\ c \notin Forgotten(last) /\ c \in Blocks /\ c \notin processing
  BY <1>2 DEF StateType, VoteInv
<1>5. PICK r \in Ancestors[c] : RootOf(c, r)
  BY <1>4 DEF VoteInv
<1>6. r \in Blocks /\ Height[r] \in Nat
  BY <1>4, AncestorFacts, HeightType
<1>7. c \in Subtree(r)
  <2>1. ASSUME NEW m \in Ancestors[c], r \in Ancestors[m]
        PROVE  m \in nonVerifieds
    <3>1. m \in Blocks /\ Height[m] \in Nat /\ Height[r] < Height[m]
      BY <1>4, <2>1, AncestorFacts, HeightType
    <3>2. Height[m] > Height[r]
      BY <1>6, <3>1, SMT
    <3> QED
      BY <1>5, <3>2 DEF RootOf
  <2> QED
    BY <1>4, <2>1 DEF Subtree
<1>8. r \notin Conflicting(last)
  BY <1>4, <1>7 DEF Forgotten
<1>9. \A x \in Accepted(last) : Parent[x] # r
  BY <1>4, <1>7 DEF Forgotten
<1>10. r \notin Ancestors[last] \/ Height[r] < Height[lastAccepted]
  <2> SUFFICES ASSUME r \in Ancestors[last], ~(Height[r] < Height[lastAccepted])
               PROVE  FALSE
    OBVIOUS
  <2>1. PICK x \in Blocks \ {Genesis} : Parent[x] = r /\ (x = last \/ x \in Ancestors[last])
    BY <1>1, AncestorAssumption
  <2>2. Height[x] = Height[r] + 1
    BY <2>1, ParentFacts
  <2>3. Height[x] > Height[lastAccepted]
    BY <1>3, <1>6, <2>2, SMT
  <2> QED
    BY <1>9, <2>1, <2>3 DEF Accepted
<1>11. r = last \/ (r \in processing /\ r \notin Accepted(last))
  <2>1. CASE r = lastAccepted
    BY <1>1, <1>3, <1>10, <2>1, SMT
  <2>2. CASE r \in processing /\ r \in Accepted(last) /\ r # last
    <3>1. r \in Ancestors[last] /\ Height[r] > Height[lastAccepted]
      BY <2>2 DEF Accepted
    <3> QED
      BY <1>3, <1>6, <1>10, <3>1, SMT
  <2> QED
    BY <1>5, <2>1, <2>2 DEF RootOf
<1>12. r \in processing' \cup {lastAccepted'}
  BY <1>2, <1>8, <1>11
<1>13. ASSUME NEW m \in Ancestors[c], Height[m] > Height[r]
       PROVE  m \in nonVerifieds'
  <2>1. m \in nonVerifieds /\ m \in Blocks /\ Height[m] \in Nat
    BY <1>4, <1>5, <1>13, AncestorFacts, HeightType DEF RootOf
  <2>2. ASSUME NEW y \in Blocks, y \notin nonVerifieds, m \in Subtree(y)
        PROVE  c \in Subtree(y)
    <3>1. y \in Ancestors[m] /\ \A n \in Ancestors[m] : y \in Ancestors[n] => n \in nonVerifieds
      BY <2>1, <2>2 DEF Subtree
    <3>2. y \in Ancestors[c]
      BY <1>4, <3>1, AncestorFacts
    <3>3. ASSUME NEW n \in Ancestors[c], y \in Ancestors[n]
          PROVE  n \in nonVerifieds
      <4>1. Height[n] \in Nat
        BY <1>4, AncestorFacts, HeightType
      <4>2. Height[n] <= Height[m] \/ Height[n] > Height[m]
        BY <2>1, <4>1, SMT
      <4>3. CASE Height[n] <= Height[m]
        BY <1>4, <2>1, <3>1, <3>3, <4>3, AncestorsUpTo
      <4>4. CASE Height[n] > Height[m]
        <5>1. Height[n] > Height[r]
          BY <1>6, <1>13, <2>1, <4>1, <4>4, SMT
        <5> QED
          BY <1>5, <5>1 DEF RootOf
      <4> QED
        BY <4>2, <4>3, <4>4
    <3> QED
      BY <1>4, <3>2, <3>3 DEF Subtree
  <2>3. ASSUME NEW x \in Conflicting(last)
        PROVE  m \notin Subtree(x)
    <3>1. x \in Blocks /\ x \notin nonVerifieds
      BY <1>1 DEF Conflicting, VoteInv
    <3> QED
      BY <1>4, <2>2, <3>1 DEF Forgotten
  <2>4. ASSUME NEW x \in Accepted(last)
        PROVE  m \notin Subtree(Parent[x])
    <3>1. x \in processing /\ x \in Blocks /\ x # Genesis /\ lastAccepted \in Ancestors[x]
      BY <1>1, <1>2, AncestorAssumption DEF Settles, TreeInv
    <3>2. Parent[x] \in Blocks /\ Parent[x] \in Ancestors[x] /\ Height[x] = Height[Parent[x]] + 1
      BY <3>1, ParentFacts
    <3>3. Parent[x] = lastAccepted \/ Height[Parent[x]] > Height[lastAccepted]
      <4>1. Ancestors[x] = {Parent[x]} \cup Ancestors[Parent[x]]
        BY <3>1, ParentFacts
      <4>2. lastAccepted \in Ancestors[Parent[x]] => Height[lastAccepted] < Height[Parent[x]]
        BY <3>2, AncestorFacts
      <4>3. Height[Parent[x]] \in Nat
        BY <3>2, HeightType
      <4> QED
        BY <1>3, <3>1, <4>1, <4>2, <4>3, SMT
    <3>4. Parent[x] = lastAccepted \/ Parent[x] \in processing
      BY <3>1, <3>2, <3>3 DEF TreeInv
    <3>5. Parent[x] \notin nonVerifieds
      <4>1. lastAccepted \notin nonVerifieds
        <5> SUFFICES ASSUME lastAccepted \in nonVerifieds
                     PROVE  FALSE
          OBVIOUS
        <5>1. PICK q \in Ancestors[lastAccepted] : q \in processing \cup {lastAccepted}
          BY DEF VoteInv, RootOf
        <5>2. Height[q] < Height[lastAccepted] /\ Height[q] \in Nat
          BY <1>3, AncestorFacts, HeightType
        <5>3. Height[q] > Height[lastAccepted] \/ q = lastAccepted
          BY <5>1, AddedFacts
        <5> QED
          BY <1>3, <5>2, <5>3, SMT
      <4> QED
        BY <3>4, <4>1 DEF VoteInv
    <3> QED
      BY <1>4, <2>2, <3>2, <3>5 DEF Forgotten
  <2>5. m \notin Forgotten(last)
    BY <2>3, <2>4 DEF Forgotten
  <2> QED
    BY <1>2, <2>1, <2>5
<1>14. RootOf(c, r)'
  BY <1>12, <1>13 DEF RootOf
<1> QED
  BY <1>2, <1>4, <1>14

\* Only deliver, abandoned issuers and recorded polls touch consensus or the votes.
LEMMA SameTree ==
    ASSUME TreeInv, VoteInv, UNCHANGED <<consensusVars, nonVerifieds>>
    PROVE  TreeInv' /\ VoteInv' /\ DecidedWasProcessing
<1>1. \A b : (Added(b) <=> Added(b)') /\ (Lost(b) <=> Lost(b)')
  BY DEF Added, Lost, consensusVars
<1>2. TreeInv'
  BY <1>1 DEF TreeInv, consensusVars
<1>3. VoteInv'
  BY DEF VoteInv, RootOf, consensusVars
<1> QED
  BY <1>2, <1>3 DEF DecidedWasProcessing, consensusVars

LEMMA AbandonIssuerTree ==
    ASSUME StateType, TreeInv, VoteInv, AbandonIssuer
    PROVE  TreeInv' /\ VoteInv' /\ DecidedWasProcessing
<1> DEFINE b == stack[1].blk
<1>1. b \in Blocks
  BY RunningType, CallFields DEF AbandonIssuer, BlockCalls
<1>2. UNCHANGED consensusVars /\ nonVerifieds' = nonVerifieds \cup (IF KeepsParent(b) THEN {b} ELSE {})
  BY DEF AbandonIssuer, AddToNonVerifieds
<1>3. VoteInv'
  BY <1>1, <1>2, RememberedVotes
<1>4. \A x : (Added(x) <=> Added(x)') /\ (Lost(x) <=> Lost(x)')
  BY <1>2 DEF Added, Lost, consensusVars
<1> QED
  BY <1>2, <1>3, <1>4 DEF TreeInv, DecidedWasProcessing, consensusVars

LEMMA DeliverTree ==
    ASSUME StateType, TreeInv, VoteInv, Deliver
    PROVE  TreeInv' /\ VoteInv' /\ DecidedWasProcessing
<1> DEFINE b == stack[1].blk
<1>1. b \in Blocks
  BY DeliverCases
<1>2. CASE DeliverIgnored(b)
  BY <1>2, SameTree DEF DeliverIgnored
<1>3. CASE DeliverDropped(b)
  <2>1. CASE UNCHANGED nonVerifieds
    BY <1>3, <2>1, SameTree DEF DeliverDropped
  <2>2. CASE AddToNonVerifieds(IF KeepsParent(b) THEN {b} ELSE {})
    <3>1. UNCHANGED consensusVars
          /\ nonVerifieds' = nonVerifieds \cup (IF KeepsParent(b) THEN {b} ELSE {})
      BY <1>3, <2>2 DEF DeliverDropped, AddToNonVerifieds
    <3>2. VoteInv'
      BY <1>1, <3>1, RememberedVotes
    <3>3. \A x : (Added(x) <=> Added(x)') /\ (Lost(x) <=> Lost(x)')
      BY <3>1 DEF Added, Lost, consensusVars
    <3> QED
      BY <3>1, <3>2, <3>3 DEF TreeInv, DecidedWasProcessing, consensusVars
  <2> QED
    BY <1>3, <2>1, <2>2 DEF DeliverDropped
<1>4. ASSUME NEW bad \in SUBSET (Range(Options[b]) \cap Unreliable), NEW preferred \in BOOLEAN,
             DeliverAdded(b, bad, preferred)
      PROVE  TreeInv' /\ VoteInv' /\ DecidedWasProcessing
  <2>1. Extended(b, bad) /\ bad \in SUBSET Range(Options[b])
    BY <1>1, <1>4, DeliverAddedFacts
  <2>2. TreeInv' /\ VoteInv'
    BY <1>1, <2>1, ExtendedTree, ExtendedVotes
  <2> QED
    BY <2>1, <2>2 DEF Extended, DecidedWasProcessing
<1> QED
  BY <1>2, <1>3, <1>4, DeliverCases

LEMMA RecordTree ==
    ASSUME StateType, TreeInv, VoteInv, Record
    PROVE  TreeInv' /\ VoteInv' /\ DecidedWasProcessing
<1>1. CASE Decides(lastAccepted)
  BY <1>1, DecidesNothing, SameTree
<1>2. ASSUME NEW last \in processing, Decides(last)
      PROVE  TreeInv' /\ VoteInv' /\ DecidedWasProcessing
  <2>1. Settles(last)
    BY <1>2, DecidesFacts
  <2>2. \A x \in Blocks : status'[x] # status[x] => x \in processing
    BY <2>1 DEF Settles
  <2> QED
    BY <1>2, <2>2, DecidesTree, DecidesVotes DEF DecidedWasProcessing
<1> QED
  BY <1>1, <1>2, RecordCases

\* A block that the VM forgot to have rejected is still lost.
LEMMA ForgetTree ==
    ASSUME StateType, TreeInv, VoteInv, NEW b \in Blocks, Forget(b)
    PROVE  /\ TreeInv' /\ VoteInv' /\ DecidedWasProcessing
           /\ \A x \in Blocks : (Added(x) <=> Added(x)') /\ (Lost(x) <=> Lost(x)')
<1>1. /\ UNCHANGED <<processing, lastAccepted, nonVerifieds>>
      /\ status[b] = "Rejected" /\ status'[b] = "Processing"
      /\ \A x \in Blocks : x # b => status'[x] = status[x]
  BY DEF Forget, issueVars, StateType
<1>2. \A x \in Blocks : status'[x] = "Accepted" <=> status[x] = "Accepted"
  <2>1. "Rejected" # "Accepted" /\ "Processing" # "Accepted"
    BY SMT
  <2> QED
    BY <1>1, <2>1
<1>3. \A x \in Blocks : status'[x] = "Rejected" => status[x] = "Rejected"
  BY <1>1
<1>4. \A x \in Blocks : (Added(x) <=> Added(x)') /\ (Lost(x) <=> Lost(x)')
  BY <1>1, <1>2 DEF Added, Lost
<1>5. \A x \in processing : status'[x] = "Processing"
  BY <1>1 DEF TreeInv, StateType
<1>6. \A x \in Blocks : Added(x)' => \A y \in Ancestors[x] : Added(y)'
  BY <1>4, AncestorFacts DEF TreeInv
<1>7. TreeInv'
  BY <1>1, <1>2, <1>3, <1>4, <1>5, <1>6 DEF TreeInv
<1>8. VoteInv'
  BY <1>1 DEF VoteInv, RootOf
<1> QED
  BY <1>1, <1>4, <1>7, <1>8 DEF DecidedWasProcessing

LEMMA NextTree ==
    ASSUME StateType, TreeInv, VoteInv, Next
    PROVE  TreeInv' /\ VoteInv' /\ DecidedWasProcessing
<1>1. CASE IssueFrom \/ IssueWithAncestors
  <2>1. UNCHANGED <<consensusVars, nonVerifieds>>
    BY <1>1 DEF IssueFrom, IssueWithAncestors, Issue, SendRequest, issueVars
  <2> QED
    BY <2>1, SameTree
<1>2. CASE Option \/ RemoveRequest \/ Fulfill \/ Abandon \/ Chits
  <2>1. UNCHANGED <<consensusVars, nonVerifieds>>
    BY <1>2 DEF Option, RemoveRequest, Fulfill, Abandon, Release, Chits
  <2> QED
    BY <2>1, SameTree
<1>3. CASE Vote \/ Settle \/ Repoll \/ Query \/ BuildBlocks
  <2>1. UNCHANGED <<consensusVars, nonVerifieds>>
    BY <1>3 DEF Vote, Settle, Repoll, Query, BuildBlocks, issueVars
  <2> QED
    BY <2>1, SameTree
<1>4. CASE PushQuery \/ PullQuery \/ Notify \/ \E m \in queries : AnswerQuery(m)
  <2>1. UNCHANGED <<consensusVars, nonVerifieds>>
    BY <1>4 DEF PushQuery, PullQuery, Notify, AnswerQuery, ChitsFor, Handle
  <2> QED
    BY <2>1, SameTree
<1>5. CASE \E m \in gets : AnswerGet(m)
  <2>1. UNCHANGED <<consensusVars, nonVerifieds>>
    BY <1>5 DEF AnswerGet, GetFailed, Put, FailGet, Handle, issueVars
  <2> QED
    BY <2>1, SameTree
<1> QED
  BY <1>1, <1>2, <1>3, <1>4, <1>5, AbandonIssuerTree, DeliverTree, RecordTree, ForgetTree DEF Next, Step

LEMMA InitTree ==
    ASSUME Init
    PROVE  TreeInv /\ VoteInv
<1>1. \A b \in Blocks : status[b] = "Accepted" <=> b = Genesis
  BY SMT DEF Init
<1>2. \A b \in Blocks : (Added(b) <=> b = Genesis) /\ status[b] # "Rejected"
  BY SMT DEF Init, Added
<1> QED
  BY <1>1, <1>2, AncestorAssumption DEF Init, TreeInv, VoteInv

\* A vote for a block of nonVerifieds counts for its root.
LEMMA VotesReachRoot ==
    ASSUME StateType, TreeInv, VoteInv
    PROVE  VotesBubble
<1> SUFFICES ASSUME NEW b \in nonVerifieds
             PROVE  /\ b \notin processing
                    /\ lastAccepted \in Ancestors[b]
                    /\ Bubble(b) = LET above == Ancestors[b] \cap processing
                                   IN  {IF above = {} THEN None ELSE Nearest(above)}
  BY DEF VotesBubble
<1>1. b \in Blocks /\ b \notin processing /\ processing \subseteq Blocks /\ lastAccepted \in Blocks
  BY DEF StateType, VoteInv
<1>2. PICK r \in Ancestors[b] : RootOf(b, r)
  BY DEF VoteInv
<1>3. r \in Blocks /\ r \in processing \cup {lastAccepted}
  BY <1>1, <1>2, AncestorFacts DEF RootOf
<1>4. \A x \in Ancestors[b] : x \in Blocks /\ Height[x] \in Nat
  BY <1>1, AncestorFacts, HeightType
<1>5. lastAccepted \in Ancestors[b]
  BY <1>1, <1>2, <1>3, AncestorFacts DEF TreeInv
<1>6. r \notin nonVerifieds
  <2>1. ASSUME lastAccepted \in nonVerifieds
        PROVE  FALSE
    <3>1. PICK q \in Ancestors[lastAccepted] : q \in processing \cup {lastAccepted}
      BY <2>1 DEF VoteInv, RootOf
    <3>2. Height[q] < Height[lastAccepted] /\ Height[q] \in Nat /\ Height[lastAccepted] \in Nat
      BY <1>1, AncestorFacts, HeightType
    <3>3. Height[q] > Height[lastAccepted] \/ q = lastAccepted
      BY <3>1, AddedFacts
    <3> QED
      BY <3>2, <3>3, SMT
  <2> QED
    BY <1>3, <2>1 DEF VoteInv
<1>7. ASSUME NEW bs, r \in bs, bs \subseteq Ancestors[b], \A x \in bs : ~(Height[x] > Height[r])
      PROVE  Nearest(bs) = r
  <2>1. \A x \in bs : Height[x] <= Height[r]
    BY <1>4, <1>7, SMT
  <2>2. Nearest(bs) \in bs /\ \A x \in bs : Height[x] <= Height[Nearest(bs)]
    BY <1>7, <2>1 DEF Nearest
  <2>3. Height[Nearest(bs)] = Height[r]
    BY <1>4, <1>7, <2>1, <2>2, SMT
  <2> QED
    BY <1>1, <1>7, <2>2, <2>3, AncestorFacts
<1>8. GetRoot(b) = r
  <2> DEFINE bs == ({b} \cup Ancestors[b]) \ nonVerifieds
  <2>1. r \in bs /\ bs \subseteq Ancestors[b] /\ \A x \in bs : ~(Height[x] > Height[r])
    BY <1>2, <1>6 DEF RootOf
  <2> QED
    BY <1>7, <2>1 DEF GetRoot
<1>9. \A x \in {r} \cup Ancestors[r] : ~(Height[x] > Height[r])
  <2>1. \A x \in Ancestors[r] : Height[x] < Height[r] /\ Height[x] \in Nat
    BY <1>3, AncestorFacts, HeightType
  <2> QED
    BY <1>3, <2>1, HeightType, SMT
<1>10. Bubble(b) = {IF r \in processing THEN r ELSE None}
  <2> DEFINE way == {r} \cup Ancestors[r]
             issued == {x \in way : Issued(x)}
             missed == {y \in way : Height[y] > Height[r] /\ MayMiss(y)}
  <2>1. r \in issued
    BY <1>3, AddedFacts DEF Added
  <2>2. issued \subseteq Ancestors[b]
    BY <1>1, AncestorFacts
  <2>3. Nearest(issued) = r
    BY <1>7, <1>9, <2>1, <2>2
  <2>4. missed = {}
    BY <1>9
  <2>5. Bubble(b) = {IF r \in processing THEN r ELSE None} \cup {None : x \in missed}
    BY <1>8, <2>3 DEF Bubble
  <2> QED
    BY <2>4, <2>5
<1>11. \A x \in Ancestors[b] \cap processing : ~(Height[x] > Height[r])
  BY <1>2 DEF RootOf, VoteInv
<1>12. CASE r \in processing
  <2>1. Nearest(Ancestors[b] \cap processing) = r
    BY <1>7, <1>11, <1>12
  <2> QED
    BY <1>1, <1>5, <1>10, <1>12, <2>1
<1>13. CASE r \notin processing
  <2>1. Ancestors[b] \cap processing = {}
    BY <1>3, <1>11, <1>13, AddedFacts
  <2> QED
    BY <1>1, <1>5, <1>10, <1>13, <2>1
<1> QED
  BY <1>12, <1>13

-----------------------------------------------------------------------------
(* The calls to come *)

\* A call returns: calls takes the place of the first element of stack.
Shifted(calls, n, l) ==
    /\ stack \in Seq(Calls) /\ stack' \in Seq(Calls) /\ calls \in Seq(Calls)
    /\ n \in Nat /\ l \in Nat \ {0}
    /\ n = Len(calls) /\ l = Len(stack) /\ Len(stack') = n + l - 1
    /\ DOMAIN stack = 1..l /\ DOMAIN stack' = 1..(n + l - 1) /\ DOMAIN calls = 1..n
    /\ \A i \in 1..n : stack'[i] = calls[i]
    /\ \A i \in 2..l : stack'[i - 1 + n] = stack[i]
Returned(calls) == \E n \in Nat, l \in Nat \ {0} : Shifted(calls, n, l)

\* All of them are calls of ops.
Only(calls, ops) == \A i \in DOMAIN calls : calls[i].op \in ops

LEMMA Returns ==
    ASSUME stack \in Seq(Calls), stack # <<>>, NEW calls \in Seq(Calls), Return(calls)
    PROVE  Returned(calls)
<1>1. /\ Len(stack) \in Nat \ {0} /\ Len(calls) \in Nat
      /\ DOMAIN stack = 1..Len(stack) /\ DOMAIN calls = 1..Len(calls)
      /\ Tail(stack) \in Seq(Calls) /\ Len(Tail(stack)) = Len(stack) - 1
      /\ \A i \in 2..Len(stack) : Tail(stack)[i - 1] = stack[i]
  BY SMT
<1> DEFINE rest == Tail(stack)
<1>2. stack' = calls \o rest
  BY DEF Return
<1> HIDE DEF rest
<1>3. rest \in Seq(Calls) /\ Len(rest) = Len(stack) - 1 /\ \A i \in 2..Len(stack) : rest[i - 1] = stack[i]
  BY <1>1 DEF rest
<1>4. /\ calls \o rest \in Seq(Calls) /\ Len(calls \o rest) = Len(calls) + Len(rest)
      /\ \A i \in 1..Len(calls) : (calls \o rest)[i] = calls[i]
      /\ \A j \in 1..Len(rest) : (calls \o rest)[j + Len(calls)] = rest[j]
  <2>1. Len(rest) \in Nat
    BY <1>3, SMT
  <2>2. /\ calls \o rest \in Seq(Calls) /\ Len(calls \o rest) = Len(calls) + Len(rest)
        /\ \A i \in 1..(Len(calls) + Len(rest)) :
              (calls \o rest)[i] = IF i <= Len(calls) THEN calls[i] ELSE rest[i - Len(calls)]
    BY <1>3, SeqConcat
  <2>3. \A i \in 1..Len(calls) : (calls \o rest)[i] = calls[i]
    BY <1>1, <2>1, <2>2, SMT
  <2>4. ASSUME NEW j \in 1..Len(rest)
        PROVE  (calls \o rest)[j + Len(calls)] = rest[j]
    <3> DEFINE k == j + Len(calls)
    <3>1. k \in 1..(Len(calls) + Len(rest)) /\ ~(k <= Len(calls)) /\ k - Len(calls) = j
      BY <1>1, <2>1, SMT
    <3> HIDE DEF k
    <3>2. (calls \o rest)[k] = rest[k - Len(calls)]
      BY <2>2, <3>1
    <3> QED
      BY <3>1, <3>2 DEF k
  <2> QED
    BY <2>2, <2>3, <2>4
<1>5. ASSUME NEW i \in 2..Len(stack)
      PROVE  (calls \o rest)[i - 1 + Len(calls)] = stack[i]
  <2>1. i - 1 \in 1..Len(rest)
    BY <1>1, <1>3, SMT
  <2> QED
    BY <1>3, <1>4, <2>1
<1>6. Len(calls \o rest) = Len(calls) + Len(stack) - 1
  BY <1>1, <1>3, <1>4, SMT
<1>7. DOMAIN stack' = 1..(Len(calls) + Len(stack) - 1)
  BY <1>2, <1>4, <1>6, SMT
<1> QED
  BY <1>1, <1>2, <1>4, <1>5, <1>6, <1>7 DEF Returned, Shifted

\* Where a call to come was before the step.
LEMMA ShiftedFrom ==
    ASSUME NEW calls, NEW n, NEW l, Shifted(calls, n, l), NEW k \in 1..(n + l - 1)
    PROVE  \/ k \in 1..n /\ stack'[k] = calls[k]
           \/ \E i \in 2..l : k = i - 1 + n /\ stack'[k] = stack[i]
<1>1. n \in Nat /\ l \in Nat \ {0}
  BY DEF Shifted
<1>2. k \in 1..n \/ \E i \in 2..l : k = i - 1 + n
  <2>1. k <= n => k \in 1..n
    BY <1>1, SMT
  <2>2. k > n => k - n + 1 \in 2..l /\ k = (k - n + 1) - 1 + n
    BY <1>1, SMT
  <2>3. k <= n \/ k > n
    BY <1>1, SMT
  <2> QED
    BY <2>1, <2>2, <2>3
<1> QED
  BY <1>2 DEF Shifted

\* Where a call goes in the step.
LEMMA ShiftedTo ==
    ASSUME NEW calls, NEW n, NEW l, Shifted(calls, n, l), NEW i \in 2..l, NEW k, k = i - 1 + n
    PROVE  k \in 1..(n + l - 1) /\ stack'[k] = stack[i]
<1>1. n \in Nat /\ l \in Nat \ {0}
  BY DEF Shifted
<1>2. i - 1 + n \in 1..(n + l - 1)
  BY <1>1, SMT
<1> QED
  BY <1>2 DEF Shifted

\* Only the running call leaves.
LEMMA ReturnedRange ==
    ASSUME NEW calls, Returned(calls)
    PROVE  /\ \A c \in Range(stack) : c = stack[1] \/ c \in Range(stack')
           /\ \A c \in Range(stack') : c \in Range(calls) \/ c \in Range(stack)
           /\ \A c \in Range(calls) : c \in Range(stack')
           /\ stack[1] \in Range(stack)
<1>1. PICK n \in Nat, l \in Nat \ {0} : Shifted(calls, n, l)
  BY DEF Returned
<1>2. DOMAIN stack = 1..l /\ DOMAIN stack' = 1..(n + l - 1) /\ DOMAIN calls = 1..n
  BY <1>1 DEF Shifted
<1>3. ASSUME NEW c \in Range(stack), c # stack[1]
      PROVE  c \in Range(stack')
  <2>1. PICK i \in 1..l : c = stack[i]
    BY <1>2 DEF Range
  <2>2. i # 1
    BY <1>3, <2>1
  <2>3. i \in 2..l
    BY <2>2, SMT
  <2> QED
    BY <1>1, <1>2, <2>1, <2>3, ShiftedTo, SMT DEF Range
<1>4. ASSUME NEW c \in Range(stack')
      PROVE  c \in Range(calls) \/ c \in Range(stack)
  <2>1. PICK k \in 1..(n + l - 1) : c = stack'[k]
    BY <1>2, <1>4 DEF Range
  <2>2. CASE k \in 1..n /\ stack'[k] = calls[k]
    BY <1>2, <2>1, <2>2 DEF Range
  <2>3. ASSUME NEW i \in 2..l, stack'[k] = stack[i]
        PROVE  c \in Range(stack)
    <3>1. i \in 1..l
      BY SMT
    <3> QED
      BY <1>2, <2>1, <2>3, <3>1 DEF Range
  <2> QED
    BY <1>1, <2>2, <2>3, ShiftedFrom, SMT
<1>5. ASSUME NEW c \in Range(calls)
      PROVE  c \in Range(stack')
  <2>1. PICK i \in 1..n : c = calls[i]
    BY <1>2 DEF Range
  <2>2. i \in 1..(n + l - 1)
    BY SMT
  <2>3. stack'[i] = calls[i]
    BY <1>1 DEF Shifted
  <2> QED
    BY <1>2, <2>1, <2>2, <2>3 DEF Range
<1>6. 1 \in 1..l
  BY SMT
<1> QED
  BY <1>2, <1>3, <1>4, <1>5, <1>6 DEF Range

\* A step that neither starts nor ends the loop of issueFrom leaves it in place.
NoLoop(calls) == \A i \in DOMAIN calls : calls[i].op \notin FromCalls \cup {"chits"}

LEMMA LoopStaysLast ==
    ASSUME LoopIsLast, NEW calls, Returned(calls), NoLoop(calls)
    PROVE  LoopIsLast'
<1>1. PICK n \in Nat, l \in Nat \ {0} : Shifted(calls, n, l)
  BY DEF Returned
<1>2. n = Len(calls) /\ l = Len(stack)
  BY <1>1 DEF Shifted
<1>3. Len(stack') = n + l - 1 /\ DOMAIN stack = 1..l /\ DOMAIN stack' = 1..(n + l - 1) /\ DOMAIN calls = 1..n
  BY <1>1 DEF Shifted
<1> SUFFICES ASSUME NEW k \in DOMAIN stack', stack'[k].op \in FromCalls \cup {"chits"}
             PROVE  /\ stack'[k].op = "chits" => k = Len(stack') - 1
                    /\ stack'[k].op \in FromCalls =>
                          k = Len(stack') - 1 \/ (k = Len(stack') - 2 /\ stack'[k + 1].op = "chits")
  BY DEF LoopIsLast
<1>4. PICK i \in 2..l : k = i - 1 + n /\ stack'[k] = stack[i]
  BY <1>1, <1>3, ShiftedFrom, SMT DEF NoLoop
<1>5. i \in 1..l
  BY SMT
<1>6. CASE i = l - 1
  <2>1. k = (n + l - 1) - 1
    BY <1>4, <1>6, SMT
  <2> QED
    BY <1>3, <2>1
<1>7. CASE i = l - 2 /\ stack[i + 1].op = "chits" /\ stack[i].op # "chits"
  <2>1. PICK j \in 2..l : j = i + 1
    BY <1>7, SMT
  <2>2. k = (n + l - 1) - 2 /\ k + 1 = j - 1 + n
    BY <1>4, <1>7, <2>1, SMT
  <2>3. stack'[k + 1] = stack[j]
    BY <1>1, <2>2, ShiftedTo, SMT
  <2> QED
    BY <1>3, <1>4, <1>7, <2>1, <2>2, <2>3
<1> QED
  BY <1>2, <1>3, <1>4, <1>5, <1>6, <1>7 DEF LoopIsLast

\* How consensus goes on: a lost block stays lost, and a block is lost when one
\* above it is rejected.
Advances ==
    \A b \in Blocks :
        /\ Lost(b) => Lost(b)'
        /\ \A x \in {b} \cup Ancestors[b] : Added(x) => Added(x)' \/ Lost(b)'

LEMMA SameConsensus ==
    ASSUME UNCHANGED consensusVars
    PROVE  Advances /\ \A b : (Added(b) <=> Added(b)') /\ (Lost(b) <=> Lost(b)') /\ (Gone(b) <=> Gone(b)')
<1>1. \A b : (Added(b) <=> Added(b)') /\ (Lost(b) <=> Lost(b)')
  BY DEF Added, Lost, consensusVars
<1> QED
  BY <1>1 DEF Advances, Gone

LEMMA StaysGone ==
    ASSUME Advances
    PROVE  \A b \in Blocks : Gone(b) => Gone(b)'
BY DEF Advances, Gone

LEMMA ChitsKept ==
    ASSUME StateType, ChitsInv, NEW calls, Returned(calls), NoLoop(calls), Advances,
           stack[1].op \notin FromCalls \cup {"chits"}, added' = added
    PROVE  ChitsInv'
<1>1. PICK n \in Nat, l \in Nat \ {0} : Shifted(calls, n, l)
  BY DEF Returned
<1>2. l = Len(stack) /\ stack \in Seq(Calls)
  BY <1>1 DEF Shifted
<1>3. /\ DOMAIN stack = 1..l /\ DOMAIN stack' = 1..(n + l - 1) /\ DOMAIN calls = 1..n
      /\ \A j \in 1..n : stack'[j] = calls[j]
  BY <1>1 DEF Shifted
<1> SUFFICES ASSUME NEW k \in DOMAIN stack', stack'[k].op = "chits"
             PROVE  IF k > 1 /\ stack'[k - 1].op \in FromCalls
                    THEN LoopInv(k, stack[k].blk)' ELSE ReturnInv(k, stack[k].blk)'
  BY DEF ChitsInv
<1>4. PICK i \in 2..l : k = i - 1 + n /\ stack'[k] = stack[i]
  <2>1. ~(k \in 1..n /\ stack'[k] = calls[k])
    BY <1>3 DEF NoLoop
  <2>2. k \in 1..(n + l - 1)
    BY <1>3
  <2> QED
    BY <1>1, <2>1, <2>2, ShiftedFrom, SMT
<1>5. stack[i].op = "chits" /\ i \in 1..l /\ i > 1 /\ k \in Nat
  BY <1>4, SMT
<1>6. stack[i].blk \in Blocks
  <2>1. stack[i] \in Calls
    BY <1>2, <1>5, SeqElement
  <2> QED
    BY <1>5, <2>1, CallFields
<1>7. PICK b \in Blocks : b = stack[i].blk /\ b = stack'[k].blk
  BY <1>4, <1>6
<1>8. ~(i > 1 /\ stack[i - 1].op \in FromCalls) => added' \/ Lost(b)'
  <2>1. i # 1
    BY SMT
  <2> QED
    BY <1>3, <1>5, <1>7, <2>1 DEF ChitsInv, ReturnInv, Advances
<1>9. CASE i = 2
  <2>1. i - 1 = 1
    BY <1>9, SMT
  <2>2. ~(k > 1 /\ stack'[k - 1].op \in FromCalls)
    <3>1. k > 1 => k - 1 \in 1..n
      BY <1>4, <1>9, SMT
    <3> QED
      BY <1>3, <3>1 DEF NoLoop
  <2> QED
    BY <1>7, <1>8, <2>1, <2>2 DEF ReturnInv
<1>10. CASE i > 2
  <2>1. PICK h \in 2..l : h = i - 1
    BY <1>10, SMT
  <2>2. k - 1 = h - 1 + n /\ k > 1 /\ h \in 1..l
    BY <1>4, <1>10, <2>1, SMT
  <2>3. stack'[k - 1] = stack[i - 1]
    <3>1. stack'[k - 1] = stack[h]
      BY <1>1, <2>2, ShiftedTo, SMT
    <3> QED
      BY <2>1, <3>1
  <2>4. CASE stack[i - 1].op \notin FromCalls
    BY <1>7, <1>8, <2>3, <2>4 DEF ReturnInv
  <2>5. CASE stack[i - 1].op \in FromCalls
    <3>1. LoopInv(i, b)
      BY <1>3, <1>4, <1>5, <1>7, <2>5 DEF ChitsInv
    <3>2. PICK x : x = stack[i - 1].blk
      OBVIOUS
    <3>3. (x = b \/ x \in Ancestors[b]) /\ (Added(x) \/ Lost(b))
      <4>1. i # 2
        BY <1>10, SMT
      <4> QED
        BY <3>1, <3>2, <4>1 DEF LoopInv
    <3>4. Added(x)' \/ Lost(b)'
      BY <3>3 DEF Advances
    <3>5. stack'[k - 1].blk = x
      BY <2>3, <3>2
    <3> QED
      BY <1>7, <2>2, <2>3, <2>5, <3>3, <3>4, <3>5 DEF LoopInv
  <2> QED
    BY <2>4, <2>5
<1> QED
  BY <1>4, <1>9, <1>10, SMT

\* What a step has to keep for the requests that are removed later.
KeepsReleased(calls) ==
    stack[1].op \in QuietCalls =>
        /\ Only(calls, QuietCalls)
        /\ \A b \in Blocks : blocked[b] = <<>> \/ stack[1] = Call("abandon", b) => blocked'[b] = <<>>

LEMMA RemoveKept ==
    ASSUME StateType, RemoveInv, NEW calls, Returned(calls), KeepsReleased(calls),
           \A j \in DOMAIN calls : calls[j].op # "removeAny",
           Advances
    PROVE  RemoveInv'
<1>1. PICK n \in Nat, l \in Nat \ {0} : Shifted(calls, n, l)
  BY DEF Returned
<1>2. /\ DOMAIN stack = 1..l /\ DOMAIN stack' = 1..(n + l - 1) /\ DOMAIN calls = 1..n
      /\ \A j \in 1..n : stack'[j] = calls[j]
      /\ l = Len(stack) /\ stack \in Seq(Calls)
  BY <1>1 DEF Shifted
<1> SUFFICES ASSUME NEW k \in 1..(n + l - 1), stack'[k].op = "removeAny"
             PROVE  \/ Gone(stack[k].blk)'
                    \/ /\ \A j \in 1..(k - 1) : stack'[j].op \in QuietCalls
                       /\ \/ blocked'[stack'[k].blk] = <<>>
                          \/ \E j \in 1..(k - 1) : stack'[j] = Call("abandon", stack'[k].blk)
  BY <1>2 DEF RemoveInv
<1>3. ~(k \in 1..n /\ stack'[k] = calls[k])
  BY <1>2
<1>4. PICK i \in 2..l : k = i - 1 + n /\ stack'[k] = stack[i]
  BY <1>1, <1>3, ShiftedFrom, SMT
<1>5. i \in 1..l
  BY SMT
<1>6. stack[i].blk \in Blocks
  BY <1>2, <1>4, <1>5, SeqElement, CallFields DEF BlockCalls
<1>7. PICK b \in Blocks : b = stack[i].blk
  BY <1>6
<1>8. CASE Gone(b)
  <2>1. Gone(b)' /\ stack'[k].blk = b
    BY <1>4, <1>7, <1>8, StaysGone
  <2> QED
    BY <2>1
<1>9. CASE /\ \A j \in 1..(i - 1) : stack[j].op \in QuietCalls
           /\ blocked[b] = <<>> \/ \E j \in 1..(i - 1) : stack[j] = Call("abandon", b)
  <2>1. 1 \in 1..(i - 1)
    BY SMT
  <2>2. /\ Only(calls, QuietCalls)
        /\ blocked[b] = <<>> \/ stack[1] = Call("abandon", b) => blocked'[b] = <<>>
    BY <1>9, <2>1 DEF KeepsReleased
  <2>3. ASSUME NEW j \in 1..(k - 1)
        PROVE  stack'[j].op \in QuietCalls
    <3>1. j \in 1..(n + l - 1)
      BY <1>4, SMT
    <3>2. CASE j \in 1..n /\ stack'[j] = calls[j]
      BY <1>2, <2>2, <3>2 DEF Only
    <3>3. ASSUME NEW g \in 2..l, j = g - 1 + n, stack'[j] = stack[g]
          PROVE  stack'[j].op \in QuietCalls
      <4>1. g \in 1..(i - 1)
        BY <1>4, <3>3, SMT
      <4> QED
        BY <1>9, <3>3, <4>1
    <3> QED
      BY <1>1, <3>1, <3>2, <3>3, ShiftedFrom, SMT
  <2>4. CASE blocked[b] = <<>> \/ stack[1] = Call("abandon", b)
    BY <1>4, <1>7, <2>2, <2>3, <2>4
  <2>5. ASSUME NEW g \in 1..(i - 1), stack[g] = Call("abandon", b), g # 1
        PROVE  \E j \in 1..(k - 1) : stack'[j] = Call("abandon", b)
    <3>1. g \in 2..l /\ g - 1 + n \in 1..(k - 1)
      BY <1>4, <2>5, SMT
    <3>2. stack'[g - 1 + n] = stack[g]
      BY <1>1, <3>1 DEF Shifted
    <3> QED
      BY <2>5, <3>1, <3>2
  <2> QED
    BY <1>4, <1>7, <1>9, <2>3, <2>4, <2>5
<1> QED
  BY <1>2, <1>4, <1>5, <1>7, <1>8, <1>9 DEF RemoveInv

\* What a step has to keep of the calls that release, deliver or drop a block.
KeepsFulfill(calls) ==
    \A b \in Blocks :
        /\ Call("addedOption", b) \in Range(calls) => Gone(b)'
        /\ Added(b)' /\ blocked'[b] # <<>> =>
              \/ Call("fulfill", b) \in Range(calls) \/ Call("addedOption", b) \in Range(calls)
              \/ Added(b) /\ blocked[b] # <<>> /\ stack[1] \notin {Call("fulfill", b), Call("addedOption", b)}

LEMMA FulfillKept ==
    ASSUME FulfillInv, NEW calls, Returned(calls), Advances, KeepsFulfill(calls)
    PROVE  FulfillInv'
<1>1. ASSUME NEW b \in Blocks, ToCome("addedOption", b)'
      PROVE  Gone(b)'
  BY <1>1, StaysGone, ReturnedRange DEF ToCome, KeepsFulfill, FulfillInv
<1>2. ASSUME NEW b \in Blocks, Added(b)', blocked'[b] # <<>>
      PROVE  ToCome("fulfill", b)' \/ ToCome("addedOption", b)'
  <2>1. CASE Call("fulfill", b) \in Range(calls) \/ Call("addedOption", b) \in Range(calls)
    BY <2>1, ReturnedRange DEF ToCome
  <2>2. CASE Added(b) /\ blocked[b] # <<>> /\ stack[1] \notin {Call("fulfill", b), Call("addedOption", b)}
    <3>1. ToCome("fulfill", b) \/ ToCome("addedOption", b)
      BY <2>2 DEF FulfillInv
    <3> QED
      BY <2>2, <3>1, ReturnedRange DEF ToCome
  <2> QED
    BY <1>2, <2>1, <2>2 DEF KeepsFulfill
<1> QED
  BY <1>1, <1>2 DEF FulfillInv

TakingOut(b) == {Call("deliver", b), Call("abandonIssuer", b), Call("addedOption", b)}
KeepsPending(calls) ==
    \A b \in pending' :
        \/ Lost(b)'
        \/ Queued(b)' /\ ~Added(b)'
        \/ ~Added(b)' /\ \E op \in {"deliver", "abandonIssuer"} : Call(op, b) \in Range(calls)
        \/ Call("addedOption", b) \in Range(calls)
        \/ /\ b \in pending
           /\ Queued(b) /\ ~Added(b) => Queued(b)'
           /\ Added(b)' => Added(b)
           /\ stack[1] \notin TakingOut(b)

LEMMA PendingKept ==
    ASSUME StateType, PendingInv, NEW calls, Returned(calls), Advances, KeepsPending(calls)
    PROVE  PendingInv'
<1> SUFFICES ASSUME NEW b \in pending'
             PROVE  \/ Queued(b)' /\ ~Added(b)'
                    \/ Lost(b)'
                    \/ ToCome("deliver", b)' /\ ~Added(b)'
                    \/ ToCome("abandonIssuer", b)' /\ ~Added(b)'
                    \/ ToCome("addedOption", b)'
  BY DEF PendingInv
<1>1. \A op : Call(op, b) \in Range(calls) => ToCome(op, b)'
  BY ReturnedRange DEF ToCome
<1>2. \A op \in {"deliver", "abandonIssuer", "addedOption"} :
         stack[1] \notin TakingOut(b) /\ ToCome(op, b) => ToCome(op, b)'
  BY ReturnedRange DEF ToCome, TakingOut
<1>3. CASE /\ b \in pending
           /\ Queued(b) /\ ~Added(b) => Queued(b)'
           /\ Added(b)' => Added(b)
           /\ stack[1] \notin TakingOut(b)
  <2>1. Lost(b) => Lost(b)'
    BY <1>3 DEF StateType, Advances
  <2> QED
    BY <1>2, <1>3, <2>1 DEF PendingInv
<1> QED
  BY <1>1, <1>3 DEF KeepsPending

Releasing == {"fulfill", "abandon", "addedOption", "droppedOption"}
KeepsWait(calls) ==
    \A b \in Blocks :
        blocked'[b] # <<>> =>
            \/ b \in pending' \/ Requested(b)' \/ Lost(b)' \/ Looking(b)'
            \/ \E op \in Releasing : Call(op, b) \in Range(calls)
            \/ /\ blocked[b] # <<>> /\ (Looking(b) => Added(b))
               /\ b \in pending => b \in pending'
               /\ Requested(b) => Requested(b)'
               /\ \A op \in Releasing : stack[1] # Call(op, b)

LEMMA WaitKept ==
    ASSUME FulfillInv, WaitInv, NEW calls, Returned(calls), Advances, KeepsWait(calls)
    PROVE  WaitInv'
<1> SUFFICES ASSUME NEW b \in Blocks, blocked'[b] # <<>>
             PROVE  \/ b \in pending' \/ Requested(b)' \/ Lost(b)' \/ Looking(b)'
                    \/ \E op \in Releasing : ToCome(op, b)'
  BY DEF WaitInv, Releasing
<1>1. \A op : Call(op, b) \in Range(calls) => ToCome(op, b)'
  BY ReturnedRange DEF ToCome
<1>2. \A op \in Releasing : stack[1] # Call(op, b) /\ ToCome(op, b) => ToCome(op, b)'
  BY ReturnedRange DEF ToCome
<1>3. CASE /\ blocked[b] # <<>> /\ (Looking(b) => Added(b))
           /\ b \in pending => b \in pending'
           /\ Requested(b) => Requested(b)'
           /\ \A op \in Releasing : stack[1] # Call(op, b)
  <2>1. Added(b) => \E op \in Releasing : ToCome(op, b)
    BY <1>3 DEF FulfillInv, Releasing
  <2>2. b \in pending \/ Requested(b) \/ Lost(b) \/ \E op \in Releasing : ToCome(op, b)
    BY <1>3, <2>1 DEF WaitInv, Releasing
  <2> QED
    BY <1>2, <1>3, <2>2 DEF Advances
<1> QED
  BY <1>1, <1>3 DEF KeepsWait

StackInv ==
    IssuerInv /\ LoopIsLast /\ ChitsInv /\ FulfillInv /\ PendingInv /\ WaitInv /\ RemoveInv

LEMMA StackKept ==
    ASSUME StateType, StackInv, NEW calls, Returned(calls), IssuerInv',
           NoLoop(calls), stack[1].op \notin FromCalls \cup {"chits"}, added' = added, Advances,
           (KeepsReleased(calls) /\ \A j \in DOMAIN calls : calls[j].op # "removeAny") \/ RemoveInv',
           KeepsFulfill(calls), KeepsPending(calls) \/ PendingInv', KeepsWait(calls) \/ WaitInv'
    PROVE  StackInv'
<1>1. LoopIsLast' /\ ChitsInv'
  BY LoopStaysLast, ChitsKept DEF StackInv
<1>2. RemoveInv'
  BY RemoveKept DEF StackInv
<1>3. FulfillInv' /\ PendingInv' /\ WaitInv'
  BY FulfillKept, PendingKept, WaitKept DEF StackInv
<1> QED
  BY <1>1, <1>2, <1>3 DEF StackInv

LEMMA CallIs == \A op, b : Call(op, b).op = op /\ Call(op, b).blk = b
BY SMT DEF Call

LEMMA CallOf ==
    /\ \A c, op, b : c = Call(op, b) => c.op = op /\ c.blk = b
    /\ \A c, op, b, o, x : c = Call(op, b) /\ c = Call(o, x) => op = o /\ b = x
BY SMT DEF Call

LEMMA OtherCall ==
    ASSUME NEW c, NEW op, c.op # op
    PROVE  \A b : c # Call(op, b)
BY CallIs

LEMMA OnlyCalls ==
    ASSUME NEW calls, NEW ops, Only(calls, ops), NEW op, NEW b, Call(op, b) \in Range(calls)
    PROVE  op \in ops
BY CallIs DEF Only, Range

-----------------------------------------------------------------------------
(* Voting, releasing, delivering and abandoning *)

\* A step that starts polls, counts votes or builds a block changes nothing else.
VoteCalls == {"record", "settle", "repoll", "query"}

LEMMA IdleStack ==
    ASSUME StateType, StackInv, NEW calls, Returned(calls),
           \/ Only(calls, VoteCalls)
           \/ stack[1].op = "buildBlocks" /\ Only(calls, {"issueWithAncestors", "buildBlocks"}),
           stack[1].op \in {"voter", "settle", "repoll", "query", "buildBlocks"},
           UNCHANGED <<consensusVars, issueVars, added>>
    PROVE  StackInv'
<1>1. PICK op : op = stack[1].op
  OBVIOUS
<1>2. /\ op \notin FromCalls \cup {"chits"} /\ op \notin Releasing
      /\ op \notin {"deliver", "abandonIssuer", "addedOption", "abandon"}
      /\ op \notin {"issueFromByID", "issueWithAncestorsByID"}
      /\ op \in QuietCalls => op # "buildBlocks"
  BY <1>1, SMT DEF FromCalls, Releasing, QuietCalls
<1>3. /\ UNCHANGED <<status, processing, lastAccepted, pending, blkReqs, nonVerifieds>>
      /\ UNCHANGED <<nonVerifiedCache, blocked>>
      /\ added' = added
  BY DEF consensusVars, issueVars
<1>4. \A o \in VoteCalls \cup {"issueWithAncestors", "buildBlocks"} :
         o \notin FromCalls \cup {"chits"} /\ o # "removeAny" /\ o # "addedOption"
  BY SMT DEF VoteCalls, FromCalls
<1>5. NoLoop(calls) /\ \A j \in DOMAIN calls : calls[j].op # "removeAny"
  BY <1>4 DEF NoLoop, Only
<1>6. IssuerInv'
  BY <1>3 DEF StackInv, IssuerInv
<1>7. \A b \in Blocks : (Queued(b) <=> Queued(b)') /\ (Requested(b) <=> Requested(b)')
  BY <1>3 DEF Queued, Requested
<1>8. Advances /\ \A b : (Added(b) <=> Added(b)')
  BY SameConsensus
<1>9. KeepsReleased(calls)
  <2>1. \A b : stack[1] # Call("abandon", b)
    BY <1>1, <1>2, OtherCall
  <2>2. VoteCalls \subseteq QuietCalls
    BY DEF VoteCalls, QuietCalls
  <2> QED
    BY <1>1, <1>2, <1>3, <2>1, <2>2 DEF KeepsReleased, Only
<1>10. KeepsFulfill(calls)
  <2>1. \A b \in Blocks : Call("addedOption", b) \notin Range(calls)
    BY <1>4, OnlyCalls
  <2>2. \A b : stack[1] \notin {Call("fulfill", b), Call("addedOption", b)}
    BY <1>1, <1>2, OtherCall DEF Releasing
  <2> QED
    BY <1>3, <1>8, <2>1, <2>2 DEF KeepsFulfill
<1>11. KeepsPending(calls)
  <2>1. \A b : stack[1] \notin TakingOut(b)
    BY <1>1, <1>2, OtherCall DEF TakingOut
  <2>2. pending \subseteq Blocks
    BY DEF StateType
  <2> QED
    BY <1>3, <1>7, <1>8, <2>1, <2>2 DEF KeepsPending
<1>12. KeepsWait(calls)
  <2>1. \A b : \A o \in Releasing : stack[1] # Call(o, b)
    BY <1>1, <1>2, OtherCall
  <2>2. \A b : ~Looking(b)
    BY <1>1, <1>2 DEF Looking
  <2> QED
    BY <1>3, <1>7, <2>1, <2>2 DEF KeepsWait
<1> QED
  BY <1>1, <1>2, <1>3, <1>5, <1>6, <1>8, <1>9, <1>10, <1>11, <1>12, StackKept

LEMMA BlockCallIs ==
    ASSUME NEW c \in Calls, c.op \in BlockCalls
    PROVE  c.blk \in Blocks /\ c = Call(c.op, c.blk)
<1>1. c \in [op : BlockCalls, blk : Blocks]
  BY SMT DEF Calls, Voters, FromCalls, BlockCalls
<1> QED
  BY <1>1, SMT DEF Call

\* What waited for b runs: the votes, and the calls for the children of b.
ReleasedCalls(calls, how, b) ==
    /\ \A i \in DOMAIN calls :
          calls[i].op = "voter" \/ \E y \in Blocks \ {Genesis} : Parent[y] = b /\ calls[i] = Call(how, y)
    /\ \A y : Queued(y) /\ Parent[y] = b => Call(how, y) \in Range(calls)
    /\ \A w \in Range(blocked[b]) : w.op # "issuer" => w \in Range(calls)

LEMMA Released ==
    ASSUME StateType, IssuerInv, stack # <<>>, NEW b \in Blocks, b = stack[1].blk,
           NEW how \in BlockCalls, Release(how)
    PROVE  \E calls : Returned(calls) /\ ReleasedCalls(calls, how, b)
<1> DEFINE ws == blocked[b]
           calls == [i \in DOMAIN ws |-> IF ws[i].op = "issuer" THEN Call(how, ws[i].blk) ELSE ws[i]]
<1>1. ws \in Seq(Issuers \cup Voters)
  BY DEF StateType
<1>2. DOMAIN ws = 1..Len(ws) /\ Len(ws) \in Nat /\ \A i \in DOMAIN ws : ws[i] \in Issuers \cup Voters
  BY <1>1, SMT
<1>3. \A i \in DOMAIN ws : calls[i] \in Calls
  BY <1>2, WaiterFields, CallsType
<1>4. calls \in [1..Len(ws) -> Calls]
  BY <1>2, <1>3
<1>5. Return(calls)
  BY DEF Release
<1>6. ReleasedCalls(calls, how, b)
  <2>1. ASSUME NEW i \in DOMAIN calls
        PROVE  calls[i].op = "voter" \/ \E y \in Blocks \ {Genesis} : Parent[y] = b /\ calls[i] = Call(how, y)
    <3>1. i \in DOMAIN ws
      OBVIOUS
    <3>2. CASE ws[i].op = "issuer"
      BY <1>2, <3>1, <3>2, WaiterFields DEF IssuerInv
    <3>3. CASE ws[i].op # "issuer"
      BY <1>2, <3>1, <3>3, WaiterFields
    <3> QED
      BY <3>2, <3>3
  <2>2. ASSUME NEW y, Queued(y), Parent[y] = b
        PROVE  Call(how, y) \in Range(calls)
    <3>1. PICK i \in DOMAIN ws : ws[i] = Call("issuer", y)
      BY <2>2 DEF Queued
    <3>2. ws[i].op = "issuer" /\ ws[i].blk = y
      BY <3>1, CallIs
    <3>3. calls[i] = Call(how, y)
      BY <3>2
    <3> QED
      BY <3>1, <3>3 DEF Range
  <2>3. ASSUME NEW w \in Range(ws), w.op # "issuer"
        PROVE  w \in Range(calls)
    <3>1. PICK i \in DOMAIN ws : w = ws[i]
      BY DEF Range
    <3>2. i \in DOMAIN calls /\ calls[i] = w
      BY <2>3, <3>1
    <3> HIDE DEF calls
    <3> QED
      BY <3>2 DEF Range
  <2> QED
    BY <2>1, <2>2, <2>3 DEF ReleasedCalls
<1> HIDE DEF calls
<1>7. calls \in Seq(Calls)
  BY <1>2, <1>4, SeqIsFunction
<1>8. Returned(calls)
  BY <1>5, <1>7, Returns DEF StateType
<1> QED
  BY <1>6, <1>8

LEMMA ReleaseStack ==
    ASSUME StateType, StackInv, NEW op, NEW how, Running(op), Release(how),
           (op = "fulfill" /\ how = "deliver") \/ (op = "abandon" /\ how = "abandonIssuer")
    PROVE  StackInv'
<1>1. stack # <<>> /\ stack[1].op = op /\ stack[1].blk \in Blocks /\ stack[1] = Call(op, stack[1].blk)
  BY RunningType, BlockCallIs DEF BlockCalls
<1>2. PICK b \in Blocks : b = stack[1].blk
  BY <1>1
<1>3. stack[1] = Call(op, b) /\ how \in BlockCalls
  BY <1>1, <1>2 DEF BlockCalls
<1>4. PICK calls : Returned(calls) /\ ReleasedCalls(calls, how, b)
  BY <1>1, <1>2, <1>3, Released DEF StackInv
<1>5. /\ UNCHANGED <<status, processing, lastAccepted, pending, blkReqs, nonVerifiedCache>>
      /\ added' = added
      /\ blocked'[b] = <<>> /\ \A x \in Blocks : x # b => blocked'[x] = blocked[x]
  BY <1>2 DEF Release, consensusVars, StateType
<1>6. Only(calls, {how, "voter"})
  <2>1. \A i \in DOMAIN calls : \A y : calls[i] = Call(how, y) => calls[i].op = how
    BY CallOf
  <2> QED
    BY <1>4, <2>1 DEF Only, ReleasedCalls
<1>7. /\ op \notin FromCalls \cup {"chits"} /\ op # how
      /\ how \notin FromCalls \cup {"chits"} /\ how # "removeAny" /\ how \notin Releasing
      /\ op \notin {"deliver", "abandonIssuer", "addedOption", "droppedOption"}
      /\ op \notin {"issueFromByID", "issueWithAncestorsByID"}
      /\ how = "deliver" => op \notin QuietCalls
  <2>1. CASE op = "fulfill" /\ how = "deliver"
    BY <2>1, SMT DEF FromCalls, Releasing, QuietCalls
  <2>2. CASE op = "abandon" /\ how = "abandonIssuer"
    BY <2>2, SMT DEF FromCalls, Releasing, QuietCalls
  <2> QED
    BY <2>1, <2>2
<1>8. "voter" \notin FromCalls \cup {"chits"} /\ "voter" # "removeAny" /\ "voter" # "addedOption"
  BY SMT DEF FromCalls
<1>9. NoLoop(calls) /\ \A j \in DOMAIN calls : calls[j].op # "removeAny"
  BY <1>6, <1>7, <1>8 DEF NoLoop, Only
<1>10. IssuerInv'
  <2>1. DOMAIN <<>> = {}
    BY SMT
  <2> QED
    BY <1>5, <2>1 DEF StackInv, IssuerInv
<1>11. \A x \in Blocks : Requested(x) <=> Requested(x)'
  BY <1>5 DEF Requested
<1>12. Advances /\ \A x : (Added(x) <=> Added(x)')
  BY SameConsensus DEF Release
<1>13. KeepsReleased(calls)
  <2>1. \A x \in Blocks : blocked[x] = <<>> \/ stack[1] = Call("abandon", x) => blocked'[x] = <<>>
    <3>1. \A x : stack[1] = Call("abandon", x) => x = b
      BY <1>3, CallOf
    <3> QED
      BY <1>5, <3>1
  <2>2. how = "abandonIssuer" => Only(calls, QuietCalls)
    BY <1>6 DEF Only, QuietCalls
  <2> QED
    BY <1>1, <1>7, <2>1, <2>2 DEF KeepsReleased
<1>14. KeepsFulfill(calls)
  <2>1. \A x : Call("addedOption", x) \notin Range(calls)
    <3>1. "addedOption" \notin {how, "voter"}
      BY <1>7, <1>8 DEF Releasing
    <3> QED
      BY <1>6, <3>1, OnlyCalls
  <2>2. \A x \in Blocks : x # b => stack[1] \notin {Call("fulfill", x), Call("addedOption", x)}
    <3>1. ASSUME NEW x, NEW o, stack[1] = Call(o, x)
          PROVE  x = b
      BY <1>3, <3>1, SMT DEF Call
    <3> QED
      BY <3>1
  <2> QED
    BY <1>5, <1>12, <2>1, <2>2 DEF KeepsFulfill
<1>15. KeepsPending(calls)
  <2> SUFFICES ASSUME NEW y \in pending
               PROVE  \/ Queued(y)' /\ ~Added(y)'
                      \/ ~Added(y)' /\ \E o \in {"deliver", "abandonIssuer"} : Call(o, y) \in Range(calls)
                      \/ /\ y \in pending
                         /\ Queued(y) /\ ~Added(y) => Queued(y)'
                         /\ Added(y)' => Added(y)
                         /\ stack[1] \notin TakingOut(y)
    BY <1>5 DEF KeepsPending
  <2>1. y \in Blocks \ {Genesis} /\ Parent[y] \in Blocks
    BY ParentFacts DEF StateType
  <2>2. CASE Queued(y) /\ ~Added(y)
    <3>1. CASE Parent[y] = b
      <4>1. Call(how, y) \in Range(calls)
        BY <1>4, <2>2, <3>1 DEF ReleasedCalls
      <4> QED
        BY <1>12, <2>2, <4>1
    <3>2. CASE Parent[y] # b
      <4>1. Queued(y)'
        BY <1>5, <2>1, <2>2, <3>2 DEF Queued
      <4> QED
        BY <1>12, <2>2, <4>1
    <3> QED
      BY <3>1, <3>2
  <2>3. CASE ~(Queued(y) /\ ~Added(y))
    <3>1. stack[1] \notin TakingOut(y)
      BY <1>1, <1>7, OtherCall DEF TakingOut
    <3> QED
      BY <1>12, <2>3, <3>1
  <2> QED
    BY <2>2, <2>3
<1>16. KeepsWait(calls)
  <2>1. \A x \in Blocks : \A o \in Releasing : stack[1] = Call(o, x) => x = b
    BY <1>2, CallOf
  <2>2. \A x : ~Looking(x)
    BY <1>1, <1>7 DEF Looking
  <2> QED
    BY <1>5, <1>11, <2>1, <2>2 DEF KeepsWait
<1> QED
  BY <1>1, <1>4, <1>5, <1>7, <1>9, <1>10, <1>12, <1>13, <1>14, <1>15, <1>16, StackKept

LEMMA TupleFacts ==
    /\ DOMAIN <<>> = {} /\ Range(<<>>) = {}
    /\ \A c : DOMAIN <<c>> = {1} /\ <<c>>[1] = c /\ Range(<<c>>) = {c}
    /\ \A c, d : /\ DOMAIN <<c, d>> = {1, 2} /\ <<c, d>>[1] = c /\ <<c, d>>[2] = d
                 /\ Range(<<c, d>>) = {c, d}
<1>1. DOMAIN <<>> = {} /\ Range(<<>>) = {}
  BY SMT DEF Range
<1>2. ASSUME NEW c
      PROVE  DOMAIN <<c>> = {1} /\ <<c>>[1] = c
  BY SMT
<1>3. ASSUME NEW c, NEW d
      PROVE  DOMAIN <<c, d>> = {1, 2} /\ <<c, d>>[1] = c /\ <<c, d>>[2] = d
  BY SMT
<1>4. \A c : Range(<<c>>) = {c}
  BY <1>2 DEF Range
<1>5. ASSUME NEW c, NEW d
      PROVE  Range(<<c, d>>) = {c, d}
  <2> DEFINE t == <<c, d>>
  <2>1. DOMAIN t = {1, 2} /\ t[1] = c /\ t[2] = d
    BY <1>3
  <2> HIDE DEF t
  <2>2. Range(t) = {c, d}
    BY <2>1 DEF Range
  <2> QED
    BY <2>2 DEF t
<1> QED
  BY <1>1, <1>2, <1>3, <1>4, <1>5

LEMMA OnlyTuple ==
    ASSUME NEW ops
    PROVE  /\ Only(<<>>, ops)
           /\ \A c : c.op \in ops => Only(<<c>>, ops)
           /\ \A c, d : c.op \in ops /\ d.op \in ops => Only(<<c, d>>, ops)
<1>1. Only(<<>>, ops)
  BY TupleFacts DEF Only
<1>2. ASSUME NEW c, c.op \in ops
      PROVE  Only(<<c>>, ops)
  BY <1>2, SMT DEF Only
<1>3. ASSUME NEW c, NEW d, c.op \in ops, d.op \in ops
      PROVE  Only(<<c, d>>, ops)
  BY <1>3, SMT DEF Only
<1> QED
  BY <1>1, <1>2, <1>3

\* A block that is dropped is abandoned.
LEMMA DropStack ==
    ASSUME StateType, StackInv, stack # <<>>,
           NEW b \in Blocks, NEW op \in {"deliver", "abandonIssuer"}, stack[1] = Call(op, b),
           Return(<<Call("abandon", b)>>), pending' = pending \ {b},
           UNCHANGED <<consensusVars, blkReqs, blocked, added>>
    PROVE  StackInv'
<1> DEFINE calls == <<Call("abandon", b)>>
<1>1. stack[1].op = op /\ stack[1].blk = b
  BY CallOf
<1>2. Returned(calls)
  <2>1. Call("abandon", b) \in Calls
    BY CallsType DEF BlockCalls
  <2> QED
    BY <2>1, SeqFacts, Returns DEF StateType
<1>3. /\ DOMAIN calls = {1} /\ Range(calls) = {Call("abandon", b)}
      /\ calls[1].op = "abandon" /\ calls[1].blk = b
  BY TupleFacts, CallIs
<1> HIDE DEF calls
<1>4. /\ op \notin FromCalls \cup {"chits"} /\ op # "abandon" /\ op \notin Releasing
      /\ op \notin {"issueFromByID", "issueWithAncestorsByID"}
      /\ "abandon" \notin FromCalls \cup {"chits"} /\ "abandon" # "removeAny" /\ "abandon" # "addedOption"
  BY SMT DEF FromCalls, Releasing
<1>5. NoLoop(calls) /\ \A j \in DOMAIN calls : calls[j].op # "removeAny"
  BY <1>3, <1>4 DEF NoLoop
<1>6. UNCHANGED <<status, processing, lastAccepted, blkReqs, blocked>> /\ added' = added
  BY DEF consensusVars
<1>7. IssuerInv'
  BY <1>6 DEF StackInv, IssuerInv
<1>8. \A x \in Blocks : (Queued(x) <=> Queued(x)') /\ (Requested(x) <=> Requested(x)')
  BY <1>6 DEF Queued, Requested
<1>9. Advances /\ \A x : (Added(x) <=> Added(x)')
  BY SameConsensus
<1>10. KeepsReleased(calls)
  <2>1. \A x : stack[1] # Call("abandon", x)
    BY <1>1, <1>4, OtherCall
  <2> QED
    BY <1>3, <1>6, <2>1 DEF KeepsReleased, Only, QuietCalls
<1>11. KeepsFulfill(calls)
  <2>1. \A x : Call("addedOption", x) # Call("abandon", b)
    BY <1>4, CallOf
  <2>2. \A x : stack[1] \notin {Call("fulfill", x), Call("addedOption", x)}
    BY <1>1, <1>4, OtherCall DEF Releasing
  <2> QED
    BY <1>3, <1>6, <1>9, <2>1, <2>2 DEF KeepsFulfill
<1>12. KeepsPending(calls)
  <2>1. \A x : x # b => stack[1] \notin TakingOut(x)
    BY CallOf DEF TakingOut
  <2>2. pending \subseteq Blocks
    BY DEF StateType
  <2> QED
    BY <1>6, <1>8, <1>9, <2>1, <2>2 DEF KeepsPending
<1>13. KeepsWait(calls)
  <2>1. \A x : \A o \in Releasing : stack[1] # Call(o, x)
    BY <1>1, <1>4, OtherCall
  <2>2. \A x : ~Looking(x)
    BY <1>1, <1>4 DEF Looking
  <2>3. Call("abandon", b) \in Range(calls) /\ "abandon" \in Releasing
    BY <1>3 DEF Releasing
  <2> QED
    BY <1>6, <1>8, <2>1, <2>2, <2>3 DEF KeepsWait
<1> QED
  BY <1>1, <1>2, <1>4, <1>5, <1>6, <1>7, <1>9, <1>10, <1>11, <1>12, <1>13, StackKept

LEMMA AbandonIssuerStack ==
    ASSUME StateType, StackInv, AbandonIssuer
    PROVE  StackInv'
<1>1. stack # <<>> /\ stack[1].blk \in Blocks /\ stack[1] = Call("abandonIssuer", stack[1].blk)
  BY RunningType, BlockCallIs DEF AbandonIssuer, BlockCalls
<1>2. PICK b \in Blocks : b = stack[1].blk
  BY <1>1
<1> QED
  BY <1>1, <1>2, DropStack DEF AbandonIssuer

\* Nothing happens to a block that was issued meanwhile: a child of its parent
\* that consensus holds was an option of the parent.
LEMMA DeliverIgnoredStack ==
    ASSUME StateType, TreeInv, VoteInv, StackInv, stack # <<>>,
           NEW b \in Blocks, stack[1] = Call("deliver", b), DeliverIgnored(b),
           UNCHANGED <<blkReqs, blocked, added>>
    PROVE  StackInv'
<1> DEFINE calls == <<>>
<1>1. stack[1].op = "deliver" /\ stack[1].blk = b
  BY CallOf
<1>2. Returned(calls)
  BY SeqFacts, Returns DEF StateType, DeliverIgnored
<1>3. DOMAIN calls = {} /\ Range(calls) = {}
  BY TupleFacts
<1> HIDE DEF calls
<1>4. /\ "deliver" \notin FromCalls \cup {"chits"} /\ "deliver" \notin QuietCalls /\ "deliver" \notin Releasing
      /\ "deliver" \notin {"issueFromByID", "issueWithAncestorsByID"}
  BY SMT DEF FromCalls, Releasing, QuietCalls
<1>5. NoLoop(calls) /\ \A j \in DOMAIN calls : calls[j].op # "removeAny"
  BY <1>3 DEF NoLoop
<1>6. UNCHANGED <<status, processing, lastAccepted, pending, nonVerifiedCache, blkReqs, blocked>>
      /\ added' = added
  BY DEF consensusVars, DeliverIgnored
<1>7. IssuerInv'
  BY <1>6 DEF StackInv, IssuerInv
<1>8. /\ Advances /\ \A x : (Added(x) <=> Added(x)') /\ (Lost(x) <=> Lost(x)')
      /\ \A x \in Blocks : (Queued(x) <=> Queued(x)') /\ (Requested(x) <=> Requested(x)')
  BY <1>6, SameConsensus DEF Queued, Requested, DeliverIgnored
<1>9. KeepsReleased(calls)
  BY <1>1, <1>4 DEF KeepsReleased
<1>10. KeepsFulfill(calls)
  <2>1. \A x : stack[1] \notin {Call("fulfill", x), Call("addedOption", x)}
    BY <1>1, <1>4, OtherCall DEF Releasing
  <2> QED
    BY <1>3, <1>6, <1>8, <2>1 DEF KeepsFulfill
<1>11. PendingInv'
  <2> SUFFICES ASSUME NEW y \in pending
               PROVE  \/ Queued(y)' /\ ~Added(y)'
                      \/ Lost(y)'
                      \/ ToCome("deliver", y)' /\ ~Added(y)'
                      \/ ToCome("abandonIssuer", y)' /\ ~Added(y)'
                      \/ ToCome("addedOption", y)'
    BY <1>6 DEF PendingInv
  <2>1. y \in Blocks /\ PendingInv
    BY DEF StateType, StackInv
  <2>2. \A o \in {"abandonIssuer", "addedOption"} : ToCome(o, y) => ToCome(o, y)'
    <3>1. \A o \in {"abandonIssuer", "addedOption"} : stack[1] # Call(o, y)
      <4>1. \A o \in {"abandonIssuer", "addedOption"} : o # "deliver"
        BY SMT
      <4> QED
        BY <1>1, <4>1, OtherCall
    <3> QED
      BY <1>2, <3>1, ReturnedRange DEF ToCome
  <2>3. CASE y = b
    <3>1. Gone(y)
      BY <2>3, AddedFacts DEF DeliverIgnored
    <3> QED
      BY <1>8, <2>1, <2>2, <3>1 DEF PendingInv, Gone
  <2>4. CASE y # b
    <3>1. ToCome("deliver", y) => ToCome("deliver", y)'
      BY <1>2, <2>4, CallOf, ReturnedRange DEF ToCome
    <3> QED
      BY <1>8, <2>1, <2>2, <3>1 DEF PendingInv
  <2> QED
    BY <2>3, <2>4
<1>12. KeepsWait(calls)
  <2>1. \A x : \A o \in Releasing : stack[1] # Call(o, x)
    BY <1>1, <1>4, OtherCall
  <2>2. \A x : ~Looking(x)
    BY <1>1, <1>4 DEF Looking
  <2> QED
    BY <1>6, <1>8, <2>1, <2>2 DEF KeepsWait
<1> QED
  BY <1>1, <1>2, <1>4, <1>5, <1>6, <1>7, <1>8, <1>9, <1>10, <1>11, <1>12, StackKept

LEMMA RangeOfCalls ==
    ASSUME NEW s \in Seq(Calls), NEW t \in Seq(Calls)
    PROVE  s \o t \in Seq(Calls) /\ Range(s \o t) = Range(s) \cup Range(t)
<1>1. s \o t \in Seq(Calls)
  BY SeqFacts
<1>2. PICK m \in Nat, n \in Nat : m = Len(s) /\ n = Len(t)
  BY SMT
<1>3. /\ DOMAIN s = 1..m /\ DOMAIN t = 1..n /\ DOMAIN (s \o t) = 1..(m + n)
      /\ \A i \in 1..m : (s \o t)[i] = s[i]
      /\ \A i \in 1..n : (s \o t)[m + i] = t[i]
  BY <1>2, SMT
<1>4. /\ \A i \in 1..m : i \in 1..(m + n)
      /\ \A i \in 1..n : m + i \in 1..(m + n)
      /\ \A i \in 1..(m + n) : i \in 1..m \/ (i - m \in 1..n /\ m + (i - m) = i)
  BY SMT
<1>5. Range(s) \cup Range(t) \subseteq Range(s \o t)
  <2>1. \A i \in 1..m : s[i] \in Range(s \o t)
    BY <1>3, <1>4 DEF Range
  <2>2. \A i \in 1..n : t[i] \in Range(s \o t)
    BY <1>3, <1>4 DEF Range
  <2> QED
    BY <1>3, <2>1, <2>2 DEF Range
<1>6. Range(s \o t) \subseteq Range(s) \cup Range(t)
  <2> SUFFICES ASSUME NEW i \in 1..(m + n)
               PROVE  (s \o t)[i] \in Range(s) \cup Range(t)
    BY <1>3 DEF Range
  <2>1. CASE i \in 1..m
    BY <1>3, <2>1 DEF Range
  <2>2. CASE i - m \in 1..n /\ m + (i - m) = i
    <3>1. (s \o t)[i] = t[i - m]
      BY <1>3, <2>2
    <3> QED
      BY <1>3, <2>2, <3>1 DEF Range
  <2> QED
    BY <1>4, <2>1, <2>2
<1> QED
  BY <1>1, <1>5, <1>6

\* The calls that follow when b is added: b and its options release what waits for
\* them.
ReleasesVerified(calls, b, bad) ==
    /\ Call("fulfill", b) \in Range(calls)
    /\ \A o \in Range(Options[b]) \ bad : Call("addedOption", o) \in Range(calls)
    /\ \A c \in Range(calls) :
          \/ c \in {Do("query"), Do("repoll"), Call("fulfill", b)}
          \/ \E o \in Range(Options[b]) : c = Call("droppedOption", o)
          \/ \E o \in Range(Options[b]) \ bad : c = Call("addedOption", o)

LEMMA DeliverCallsRange ==
    ASSUME NEW b \in Blocks, NEW bad, NEW preferred \in BOOLEAN
    PROVE  ReleasesVerified(DeliverCalls(b, bad, preferred), b, bad)
<1> DEFINE first == IF preferred THEN <<Do("query")>> ELSE <<>>
           second == <<Call("fulfill", b)>>
           third == OptionCalls(b, bad)
           last == <<Do("repoll")>>
<1>1. Do("query") \in Calls /\ Do("repoll") \in Calls /\ Call("fulfill", b) \in Calls
  BY CallsType DEF BlockCalls
<1>2. first \in Seq(Calls) /\ second \in Seq(Calls) /\ third \in Seq(Calls) /\ last \in Seq(Calls)
  BY <1>1, SeqFacts, DeliverCallsType
<1>3. Range(first) \subseteq {Do("query")} /\ Range(second) = {Call("fulfill", b)} /\ Range(last) = {Do("repoll")}
  BY TupleFacts
<1>4. PICK order : order = AddedFirst(Options[b], bad)
  OBVIOUS
<1>5. /\ DOMAIN third = DOMAIN order /\ Range(order) = Range(Options[b])
      /\ \A i \in DOMAIN order :
            third[i] = IF order[i] \in bad THEN Call("droppedOption", order[i]) ELSE Call("addedOption", order[i])
  BY <1>4, OrderFacts DEF OptionCalls
<1> HIDE DEF first, second, third, last
<1>6. \A o \in Range(Options[b]) \ bad : Call("addedOption", o) \in Range(third)
  <2> SUFFICES ASSUME NEW o \in Range(Options[b]) \ bad
               PROVE  Call("addedOption", o) \in Range(third)
    OBVIOUS
  <2>1. PICK i \in DOMAIN order : o = order[i]
    BY <1>5 DEF Range
  <2>2. third[i] = Call("addedOption", o)
    BY <1>5, <2>1
  <2> QED
    BY <1>5, <2>2 DEF Range
<1>7. \A c \in Range(third) : \/ \E o \in Range(Options[b]) : c = Call("droppedOption", o)
                              \/ \E o \in Range(Options[b]) \ bad : c = Call("addedOption", o)
  <2> SUFFICES ASSUME NEW i \in DOMAIN order
               PROVE  \/ \E o \in Range(Options[b]) : third[i] = Call("droppedOption", o)
                      \/ \E o \in Range(Options[b]) \ bad : third[i] = Call("addedOption", o)
    BY <1>5 DEF Range
  <2>1. order[i] \in Range(Options[b])
    BY <1>5 DEF Range
  <2> QED
    BY <1>5, <2>1
<1>8. first \o second \in Seq(Calls) /\ Range(first \o second) = Range(first) \cup Range(second)
  BY <1>2, RangeOfCalls
<1>9. /\ (first \o second) \o third \in Seq(Calls)
      /\ Range((first \o second) \o third) = Range(first \o second) \cup Range(third)
  BY <1>2, <1>8, RangeOfCalls
<1>10. Range(((first \o second) \o third) \o last) = Range((first \o second) \o third) \cup Range(last)
  BY <1>2, <1>9, RangeOfCalls
<1>11. DeliverCalls(b, bad, preferred) = ((first \o second) \o third) \o last
  BY DEF DeliverCalls, first, second, third, last
<1>12. Range(DeliverCalls(b, bad, preferred))
       = Range(first) \cup Range(second) \cup Range(third) \cup Range(last)
  BY <1>8, <1>9, <1>10, <1>11
<1> QED
  BY <1>3, <1>6, <1>7, <1>12 DEF ReleasesVerified

LEMMA DeliverAddedStack ==
    ASSUME StateType, TreeInv, VoteInv, StackInv, stack # <<>>,
           NEW b \in Blocks, stack[1] = Call("deliver", b),
           NEW bad \in SUBSET (Range(Options[b]) \cap Unreliable), NEW preferred \in BOOLEAN,
           DeliverAdded(b, bad, preferred), UNCHANGED <<blkReqs, blocked, added>>
    PROVE  StackInv'
<1> DEFINE calls == DeliverCalls(b, bad, preferred)
           verified == {b} \cup (Range(Options[b]) \ bad)
<1>1. stack[1].op = "deliver" /\ stack[1].blk = b
  BY CallOf
<1>2. Returned(calls)
  BY DeliverCallsType, Returns DEF StateType, DeliverAdded
<1>3. ReleasesVerified(calls, b, bad)
  BY DeliverCallsRange
<1> HIDE DEF calls
<1>4. /\ "deliver" \notin FromCalls \cup {"chits"} /\ "deliver" \notin QuietCalls /\ "deliver" \notin Releasing
      /\ "deliver" \notin {"issueFromByID", "issueWithAncestorsByID"}
  BY SMT DEF FromCalls, Releasing, QuietCalls
<1>5. Only(calls, {"query", "repoll", "fulfill", "droppedOption", "addedOption"})
  <2>1. \A c \in Range(calls) : c.op \in {"query", "repoll", "fulfill", "droppedOption", "addedOption"}
    <3>1. Do("query").op = "query" /\ Do("repoll").op = "repoll"
      BY SMT DEF Do
    <3>2. \A c, o, op : c = Call(op, o) => c.op = op
      BY CallOf
    <3> QED
      BY <1>3, <3>1, <3>2 DEF ReleasesVerified
  <2> QED
    BY <2>1 DEF Only, Range
<1>6. NoLoop(calls) /\ \A j \in DOMAIN calls : calls[j].op # "removeAny"
  <2>1. \A op \in {"query", "repoll", "fulfill", "droppedOption", "addedOption"} :
           op \notin FromCalls \cup {"chits"} /\ op # "removeAny"
    BY SMT DEF FromCalls
  <2> QED
    BY <1>5, <2>1 DEF NoLoop, Only
<1>7. Extended(b, bad)
  BY DeliverAddedFacts
<1>8. /\ UNCHANGED <<status, lastAccepted, blkReqs, blocked>> /\ added' = added
      /\ processing' = processing \cup verified /\ pending' = pending \ {b}
  BY <1>7 DEF Extended, DeliverAdded
<1>9. IssuerInv'
  BY <1>8 DEF StackInv, IssuerInv
<1>10. /\ \A x \in Blocks : Added(x)' <=> (Added(x) \/ x \in verified)
       /\ \A x \in Blocks : (Queued(x) <=> Queued(x)') /\ (Requested(x) <=> Requested(x)')
  BY <1>8 DEF Added, Queued, Requested
<1>11. Advances
  <2>1. \A x \in verified : ~Lost(x)
    BY <1>7 DEF Extended, New, Lost
  <2>2. \A x \in Blocks : Lost(x) => Lost(x)'
    BY <1>8, <1>10, <2>1 DEF Lost
  <2>3. \A b1 \in Blocks : \A x \in {b1} \cup Ancestors[b1] : x \in Blocks
    BY AncestorFacts
  <2> QED
    BY <1>10, <2>2, <2>3 DEF Advances
<1>12. KeepsReleased(calls)
  BY <1>1, <1>4 DEF KeepsReleased
<1>13. KeepsFulfill(calls)
  <2>1. \A x : stack[1] \notin {Call("fulfill", x), Call("addedOption", x)}
    BY <1>1, <1>4, OtherCall DEF Releasing
  <2>2. ASSUME NEW x \in Blocks, Call("addedOption", x) \in Range(calls)
        PROVE  x \in verified
    <3>1. Call("addedOption", x) \notin {Do("query"), Do("repoll"), Call("fulfill", b)}
      BY SMT DEF Do, Call
    <3>2. \A o : Call("addedOption", x) # Call("droppedOption", o)
      BY SMT DEF Call
    <3>3. PICK o \in Range(Options[b]) \ bad : Call("addedOption", x) = Call("addedOption", o)
      BY <1>3, <2>2, <3>1, <3>2 DEF ReleasesVerified
    <3>4. o = x
      BY <3>3, SMT DEF Call
    <3> QED
      BY <3>3, <3>4
  <2>3. \A x \in verified : Call("fulfill", x) \in Range(calls) \/ Call("addedOption", x) \in Range(calls)
    BY <1>3 DEF ReleasesVerified
  <2> HIDE DEF verified
  <2> QED
    BY <1>8, <1>10, <2>1, <2>2, <2>3 DEF KeepsFulfill, Gone
<1>14. KeepsPending(calls)
  <2> SUFFICES ASSUME NEW y \in pending, y # b
               PROVE  \/ Call("addedOption", y) \in Range(calls)
                      \/ /\ y \in pending
                         /\ Queued(y) /\ ~Added(y) => Queued(y)'
                         /\ Added(y)' => Added(y)
                         /\ stack[1] \notin TakingOut(y)
    BY <1>8 DEF KeepsPending
  <2>1. stack[1] \notin TakingOut(y)
    BY SMT DEF TakingOut, Call
  <2>2. y \in Blocks
    BY DEF StateType
  <2> QED
    BY <1>3, <1>8, <1>10, <2>1, <2>2 DEF ReleasesVerified
<1>15. KeepsWait(calls)
  <2>1. \A x : \A o \in Releasing : stack[1] # Call(o, x)
    BY <1>1, <1>4, OtherCall
  <2>2. \A x : ~Looking(x)
    BY <1>1, <1>4 DEF Looking
  <2>3. Call("fulfill", b) \in Range(calls) /\ "fulfill" \in Releasing
    BY <1>3 DEF Releasing, ReleasesVerified
  <2> QED
    BY <1>8, <1>10, <2>1, <2>2, <2>3 DEF KeepsWait
<1> QED
  BY <1>1, <1>2, <1>4, <1>6, <1>8, <1>9, <1>11, <1>12, <1>13, <1>14, <1>15, StackKept

LEMMA DeliverStack ==
    ASSUME StateType, TreeInv, VoteInv, StackInv, Deliver
    PROVE  StackInv'
<1>1. /\ stack # <<>> /\ stack[1] = Call("deliver", stack[1].blk) /\ stack[1].blk \in Blocks
      /\ UNCHANGED <<blkReqs, blocked, added>>
  BY DeliverCases
<1>2. PICK b \in Blocks : b = stack[1].blk
  BY <1>1
<1>3. CASE DeliverIgnored(b)
  BY <1>1, <1>2, <1>3, DeliverIgnoredStack
<1>4. CASE DeliverDropped(b)
  BY <1>1, <1>2, <1>4, DropStack DEF DeliverDropped
<1>5. ASSUME NEW bad \in SUBSET (Range(Options[b]) \cap Unreliable), NEW preferred \in BOOLEAN,
             DeliverAdded(b, bad, preferred)
      PROVE  StackInv'
  BY <1>1, <1>2, <1>5, DeliverAddedStack
<1> QED
  BY <1>2, <1>3, <1>4, <1>5, DeliverCases

LEMMA OptionStack ==
    ASSUME StateType, StackInv, Option
    PROVE  StackInv'
<1>1. /\ stack # <<>> /\ stack[1].op \in {"addedOption", "droppedOption"}
      /\ stack[1].blk \in Blocks /\ stack[1] = Call(stack[1].op, stack[1].blk)
  BY RunningType, BlockCallIs DEF Option, BlockCalls
<1>2. PICK b \in Blocks, op \in {"addedOption", "droppedOption"} :
         b = stack[1].blk /\ op = stack[1].op /\ stack[1] = Call(op, b)
  BY <1>1
<1>3. "addedOption" # "droppedOption"
  BY SMT
<1>4. PICK released \in {Call("fulfill", b), Call("abandon", b)} :
          /\ op = "addedOption" => released = Call("fulfill", b)
          /\ op = "droppedOption" => released = Call("abandon", b)
  BY <1>3
<1>5. /\ Call("fulfill", b) \in Calls /\ Call("removeAny", b) \in Calls /\ Call("abandon", b) \in Calls
      /\ Do("query") \in Calls /\ released \in Calls
  BY <1>4, CallsType DEF BlockCalls
<1>6. \E calls \in Seq(Calls) :
         /\ Return(calls)
         /\ Range(calls) \subseteq {Do("query"), released, Call("removeAny", b)} /\ released \in Range(calls)
         /\ op = "droppedOption" => calls = <<released, Call("removeAny", b)>>
  <2>1. <<released, Call("removeAny", b)>> \in Seq(Calls) /\ <<Do("query")>> \in Seq(Calls) /\ <<>> \in Seq(Calls)
    BY <1>5, SeqFacts
  <2>2. CASE op = "droppedOption"
    <3> DEFINE calls == <<released, Call("removeAny", b)>>
    <3>1. Return(calls)
      BY <1>2, <1>3, <1>4, <2>2 DEF Option, Running
    <3>2. Range(calls) = {released, Call("removeAny", b)} /\ calls \in Seq(Calls)
      BY <2>1, TupleFacts
    <3> QED
      BY <3>1, <3>2
  <2>3. CASE op = "addedOption"
    <3> DEFINE rest == <<released, Call("removeAny", b)>>
    <3>1. PICK first \in {<<Do("query")>>, <<>>} : Return(first \o rest)
      BY <1>2, <1>3, <1>4, <2>3 DEF Option, Running, ReleaseOption
    <3>2. Range(rest) = {released, Call("removeAny", b)} /\ Range(first) \subseteq {Do("query")}
      BY TupleFacts
    <3>3. rest \in Seq(Calls) /\ first \in Seq(Calls)
      BY <2>1
    <3> HIDE DEF rest
    <3>4. first \o rest \in Seq(Calls) /\ Range(first \o rest) = Range(first) \cup Range(rest)
      BY <3>3, RangeOfCalls
    <3> QED
      BY <1>3, <2>3, <3>1, <3>2, <3>4
  <2> QED
    BY <2>2, <2>3
<1>7. PICK calls \in Seq(Calls) :
         /\ Return(calls)
         /\ Range(calls) \subseteq {Do("query"), released, Call("removeAny", b)} /\ released \in Range(calls)
         /\ op = "droppedOption" => calls = <<released, Call("removeAny", b)>>
  BY <1>6
<1>8. Returned(calls)
  BY <1>1, <1>7, Returns DEF StateType
<1>9. /\ UNCHANGED <<status, processing, lastAccepted, blkReqs, blocked, nonVerifiedCache>>
      /\ added' = added /\ pending' = pending \ {b}
  BY <1>2 DEF Option, consensusVars
<1>10. /\ op \notin FromCalls \cup {"chits"} /\ op \notin QuietCalls
      /\ op \notin {"issueFromByID", "issueWithAncestorsByID", "deliver", "abandonIssuer", "fulfill"}
      /\ op \notin {"deliver", "abandon", "abandonIssuer", "voter", "record", "settle", "repoll", "query"}
  BY SMT DEF FromCalls, QuietCalls
<1>11. \A c \in Range(calls) : c.op \in {"query", "fulfill", "abandon", "removeAny"}
  <2>1. Do("query").op = "query"
    BY SMT DEF Do
  <2>2. released.op \in {"fulfill", "abandon"} /\ Call("removeAny", b).op = "removeAny"
    BY <1>4, CallIs
  <2> QED
    BY <1>7, <2>1, <2>2
<1>12. NoLoop(calls)
  <2>1. \A o \in {"query", "fulfill", "abandon", "removeAny"} : o \notin FromCalls \cup {"chits"}
    BY SMT DEF FromCalls
  <2> QED
    BY <1>11, <2>1 DEF NoLoop, Range
<1>13. IssuerInv'
  BY <1>9 DEF StackInv, IssuerInv
<1>14. /\ Advances /\ \A x : (Added(x) <=> Added(x)') /\ (Gone(x) <=> Gone(x)')
       /\ \A x \in Blocks : (Queued(x) <=> Queued(x)') /\ (Requested(x) <=> Requested(x)')
  BY <1>9, SameConsensus DEF Queued, Requested, Option
<1>15. op = "addedOption" => Gone(b)
  <2>1. op = "addedOption" => ToCome("addedOption", b)
    BY <1>2, <1>8, ReturnedRange DEF ToCome
  <2> QED
    BY <2>1 DEF StackInv, FulfillInv
<1>17. KeepsFulfill(calls)
  <2>1. \A x : Call("addedOption", x) \notin Range(calls)
    <3>1. "addedOption" \notin {"query", "fulfill", "abandon", "removeAny"}
      BY SMT
    <3> QED
      BY <1>11, <3>1, CallIs
  <2>2. \A x : x # b => stack[1] \notin {Call("fulfill", x), Call("addedOption", x)}
    BY <1>2, SMT DEF Call
  <2>3. op = "droppedOption" => stack[1] \notin {Call("fulfill", b), Call("addedOption", b)}
    BY <1>2, SMT DEF Call
  <2> QED
    BY <1>4, <1>7, <1>9, <1>14, <2>1, <2>2, <2>3 DEF KeepsFulfill
<1>18. KeepsPending(calls)
  <2>1. \A x : x # b => stack[1] \notin TakingOut(x)
    BY <1>2, SMT DEF TakingOut, Call
  <2>2. pending \subseteq Blocks
    BY DEF StateType
  <2> QED
    BY <1>9, <1>14, <2>1, <2>2 DEF KeepsPending
<1>19. KeepsWait(calls)
  <2>1. \A x : x # b => \A o \in Releasing : stack[1] # Call(o, x)
    BY <1>2, SMT DEF Call
  <2>2. \A x : ~Looking(x)
    BY <1>2, <1>10 DEF Looking
  <2>3. \E o \in Releasing : Call(o, b) \in Range(calls)
    BY <1>4, <1>7 DEF Releasing
  <2> QED
    BY <1>9, <1>14, <2>1, <2>2, <2>3 DEF KeepsWait
<1>20. RemoveInv'
  <2>1. PICK n \in Nat, l \in Nat \ {0} : Shifted(calls, n, l)
    BY <1>8 DEF Returned
  <2>2. /\ DOMAIN stack = 1..l /\ DOMAIN stack' = 1..(n + l - 1) /\ DOMAIN calls = 1..n
        /\ l = Len(stack) /\ stack \in Seq(Calls)
    BY <2>1 DEF Shifted
  <2> SUFFICES ASSUME NEW k \in 1..(n + l - 1), stack'[k].op = "removeAny"
               PROVE  \/ Gone(stack[k].blk)'
                      \/ /\ \A j \in 1..(k - 1) : stack'[j].op \in QuietCalls
                         /\ \E j \in 1..(k - 1) : stack'[j] = Call("abandon", stack'[k].blk)
    BY <2>2 DEF RemoveInv
  <2>3. ASSUME NEW i \in 2..l, stack'[k] = stack[i]
        PROVE  Gone(stack[k].blk)'
    <3>1. i \in 1..l /\ 1 \in 1..(i - 1)
      BY SMT
    <3>2. stack[i].blk \in Blocks /\ stack[i].op = "removeAny"
      <4>1. stack[i].op = "removeAny" /\ stack[i] \in Calls
        BY <2>2, <2>3, <3>1, SeqElement
      <4> QED
        BY <4>1, CallFields DEF BlockCalls
    <3>3. PICK x \in Blocks : x = stack[i].blk
      BY <3>2
    <3>4. Gone(x)
      BY <1>2, <1>10, <2>2, <3>1, <3>2, <3>3 DEF StackInv, RemoveInv
    <3>5. Gone(x)' /\ stack'[k].blk = x
      BY <1>14, <2>3, <3>3, <3>4
    <3> QED
      BY <3>5
  <2>4. CASE k \in 1..n /\ stack'[k] = calls[k]
    <3>1. stack'[k] = Call("removeAny", b)
      <4>1. stack'[k] \in Range(calls)
        BY <2>2, <2>4 DEF Range
      <4>2. stack'[k] # Do("query") /\ stack'[k] # released
        BY <1>4, SMT DEF Do, Call
      <4> QED
        BY <1>7, <4>1, <4>2
    <3>2. stack'[k].blk = b
      BY <3>1, CallOf
    <3>3. CASE op = "addedOption"
      <4>1. Gone(b)'
        BY <1>14, <1>15, <3>3
      <4> QED
        BY <3>2, <4>1
    <3>4. CASE op = "droppedOption"
      <4>1. calls[1] = Call("abandon", b) /\ DOMAIN calls = {1, 2}
        <5>1. calls = <<Call("abandon", b), Call("removeAny", b)>>
          BY <1>4, <1>7, <3>4
        <5> QED
          BY <5>1, TupleFacts
      <4>2. k = 2
        <5>1. calls[1].op # "removeAny"
          <6>1. "abandon" # "removeAny"
            BY SMT
          <6> QED
            BY <4>1, <6>1, CallOf
        <5> QED
          BY <2>2, <2>4, <4>1, <5>1
      <4>3. 1..(k - 1) = {1} /\ 1 \in 1..n
        <5>1. 1..(k - 1) = {1}
          BY <4>2, SMT
        <5> QED
          BY <2>2, <4>1, <5>1
      <4>4. stack'[1] = Call("abandon", b)
        BY <2>1, <4>1, <4>3 DEF Shifted
      <4>5. stack'[1].op = "abandon"
        BY <4>4, CallOf
      <4> QED
        BY <3>2, <4>3, <4>4, <4>5 DEF QuietCalls
    <3> QED
      BY <3>3, <3>4
  <2>5. (k \in 1..n /\ stack'[k] = calls[k]) \/ \E i \in 2..l : stack'[k] = stack[i]
    BY <2>1, ShiftedFrom, SMT
  <2> QED
    BY <2>3, <2>4, <2>5
<1> QED
  BY <1>2, <1>8, <1>9, <1>10, <1>12, <1>13, <1>14, <1>17, <1>18, <1>19, <1>20, StackKept

LEMMA RemoveRequestStack ==
    ASSUME StateType, StackInv, RemoveRequest
    PROVE  StackInv'
<1> DEFINE calls == <<>>
<1>1. stack # <<>> /\ stack[1].op = "removeAny" /\ stack[1].blk \in Blocks /\ stack \in Seq(Calls)
  BY RunningType, CallFields DEF RemoveRequest, BlockCalls
<1>2. PICK b \in Blocks : b = stack[1].blk
  BY <1>1
<1>3. Returned(calls)
  BY <1>1, SeqFacts, Returns DEF RemoveRequest
<1>4. DOMAIN calls = {} /\ Range(calls) = {}
  BY TupleFacts
<1> HIDE DEF calls
<1>5. /\ "removeAny" \notin FromCalls \cup {"chits"} /\ "removeAny" \notin QuietCalls
      /\ "removeAny" \notin Releasing /\ "removeAny" \notin {"issueFromByID", "issueWithAncestorsByID"}
      /\ "removeAny" \notin {"deliver", "abandonIssuer", "addedOption"}
      /\ "removeAny" \notin {"deliver", "abandon", "abandonIssuer", "voter", "record", "settle", "repoll", "query"}
  BY SMT DEF FromCalls, Releasing, QuietCalls
<1>6. /\ UNCHANGED <<status, processing, lastAccepted, pending, nonVerifiedCache, blocked>>
      /\ added' = added /\ blkReqs' = {r \in blkReqs : r.blk # b}
  BY <1>2 DEF consensusVars, RemoveRequest, RemoveAny
<1>7. IssuerInv'
  BY <1>6 DEF StackInv, IssuerInv
<1>8. /\ Advances /\ \A x : (Added(x) <=> Added(x)') /\ (Lost(x) <=> Lost(x)')
      /\ \A x \in Blocks : /\ Queued(x) <=> Queued(x)'
                           /\ x # b => (Requested(x) => Requested(x)')
  BY <1>6, SameConsensus DEF Queued, Requested, RemoveRequest
<1>9. NoLoop(calls) /\ KeepsReleased(calls) /\ \A j \in DOMAIN calls : calls[j].op # "removeAny"
  BY <1>1, <1>4, <1>5 DEF NoLoop, KeepsReleased
<1>11. \A x : \A o \in Releasing : stack[1] # Call(o, x)
  BY <1>1, <1>5, OtherCall
<1>12. KeepsFulfill(calls)
  BY <1>4, <1>6, <1>8, <1>11 DEF KeepsFulfill, Releasing
<1>13. KeepsPending(calls)
  <2>1. \A x : stack[1] \notin TakingOut(x)
    BY <1>1, <1>5, OtherCall DEF TakingOut
  <2>2. pending \subseteq Blocks
    BY DEF StateType
  <2> QED
    BY <1>6, <1>8, <2>1, <2>2 DEF KeepsPending
<1>14. WaitInv'
  <2> SUFFICES ASSUME NEW x \in Blocks, blocked[x] # <<>>
               PROVE  \/ x \in pending' \/ Requested(x)' \/ Lost(x)'
                      \/ \E o \in Releasing : ToCome(o, x)'
    BY <1>6 DEF WaitInv, Releasing
  <2>1. \A o \in Releasing : ToCome(o, x) => ToCome(o, x)'
    BY <1>3, <1>11, ReturnedRange DEF ToCome
  <2>2. CASE x = b
    <3>1. 1 \in DOMAIN stack /\ 1..(1 - 1) = {}
      BY <1>1, SMT
    <3>2. Gone(b)
      BY <1>1, <1>2, <2>2, <3>1 DEF StackInv, RemoveInv
    <3>3. Added(b) => ToCome("fulfill", x) \/ ToCome("addedOption", x)
      BY <2>2 DEF StackInv, FulfillInv
    <3> QED
      BY <1>8, <2>1, <2>2, <3>2, <3>3 DEF Releasing, Gone
  <2>3. CASE x # b
    <3>1. ~Looking(x)
      BY <1>1, <1>5 DEF Looking
    <3> QED
      BY <1>6, <1>8, <2>1, <2>3, <3>1 DEF StackInv, WaitInv, Releasing
  <2> QED
    BY <2>2, <2>3
<1> QED
  BY <1>1, <1>3, <1>5, <1>6, <1>7, <1>8, <1>9, <1>12, <1>13, <1>14, StackKept

\* What a poll accepts was processing, and what conflicts with it is lost.
LEMMA RecordAdvances ==
    ASSUME StateType, TreeInv, Record
    PROVE  Advances /\ \A x \in Blocks : Added(x)' => Added(x)
<1>1. CASE Decides(lastAccepted)
  BY <1>1, DecidesNothing, SameConsensus
<1>2. ASSUME NEW last \in processing, Decides(last)
      PROVE  Advances /\ \A x \in Blocks : Added(x)' => Added(x)
  <2>1. /\ Settles(last) /\ TreeInv' /\ lastAccepted' = last
        /\ last \in Blocks /\ lastAccepted \in Ancestors[last]
    BY <1>2, DecidesFacts, DecidesTree DEF Decides, StateType, TreeInv
  <2>2. \A x \in Blocks : Added(x)' <=> Added(x) /\ x \notin Conflicting(last)
    BY <2>1 DEF Settles
  <2>3. \A b \in Blocks : Lost(b) => Lost(b)'
    BY <2>1, <2>2, AncestorFacts DEF Lost
  <2>4. ASSUME NEW b \in Blocks, NEW x \in {b} \cup Ancestors[b], Added(x), ~Added(x)'
        PROVE  Lost(b)'
    <3>1. x \in Blocks /\ x \in Conflicting(last)
      BY <2>2, <2>4, AncestorFacts
    <3>2. x # last /\ x \notin Ancestors[last] /\ last \notin Ancestors[x]
      BY <3>1 DEF Conflicting
    <3>3. ~Added(b)'
      BY <2>1, <2>4 DEF TreeInv
    <3>4. ASSUME last \in Ancestors[b], x \in Ancestors[b]
          PROVE  FALSE
      <4>1. Height[x] <= Height[last] \/ Height[last] <= Height[x]
        BY <2>1, <3>1, HeightType, SMT
      <4> QED
        BY <3>2, <3>4, <4>1, AncestorsUpTo
    <3> QED
      BY <2>1, <2>4, <3>2, <3>3, <3>4 DEF Lost
  <2> QED
    BY <2>2, <2>3, <2>4 DEF Advances
<1> QED
  BY <1>1, <1>2, RecordCases

LEMMA RecordStack ==
    ASSUME StateType, TreeInv, VoteInv, StackInv, Record
    PROVE  StackInv'
<1> DEFINE calls == <<>>
<1>1. stack # <<>> /\ stack[1].op = "record" /\ stack \in Seq(Calls)
  BY RunningType DEF Record
<1>2. Returned(calls) /\ DOMAIN calls = {} /\ Range(calls) = {}
  BY <1>1, SeqFacts, Returns, TupleFacts DEF Record
<1> HIDE DEF calls
<1>3. /\ "record" \notin FromCalls \cup {"chits"} /\ "record" # "abandon"
      /\ "record" \notin Releasing /\ "record" \notin {"issueFromByID", "issueWithAncestorsByID"}
      /\ "record" \notin {"deliver", "abandonIssuer", "addedOption"}
  BY SMT DEF FromCalls, Releasing
<1>4. UNCHANGED <<pending, nonVerifiedCache, blocked, blkReqs>> /\ added' = added
  BY DEF Record
<1>5. IssuerInv'
  BY <1>4 DEF StackInv, IssuerInv
<1>6. Advances /\ \A x \in Blocks : Added(x)' => Added(x)
  BY RecordAdvances
<1>7. \A x \in Blocks : (Queued(x) <=> Queued(x)') /\ (Requested(x) <=> Requested(x)')
  BY <1>4 DEF Queued, Requested
<1>8. NoLoop(calls) /\ \A j \in DOMAIN calls : calls[j].op # "removeAny"
  BY <1>2 DEF NoLoop
<1>9. KeepsReleased(calls)
  <2>1. \A x : stack[1] # Call("abandon", x)
    BY <1>1, <1>3, OtherCall
  <2> QED
    BY <1>2, <1>4, <2>1 DEF KeepsReleased, Only
<1>10. \A x : \A o \in Releasing : stack[1] # Call(o, x)
  BY <1>1, <1>3, OtherCall
<1>11. KeepsFulfill(calls)
  BY <1>2, <1>4, <1>6, <1>10 DEF KeepsFulfill, Releasing
<1>12. KeepsPending(calls)
  <2>1. \A x : stack[1] \notin TakingOut(x)
    BY <1>1, <1>3, OtherCall DEF TakingOut
  <2>2. pending \subseteq Blocks
    BY DEF StateType
  <2> QED
    BY <1>4, <1>6, <1>7, <2>1, <2>2 DEF KeepsPending
<1>13. KeepsWait(calls)
  <2>1. \A x : ~Looking(x)
    BY <1>1, <1>3 DEF Looking
  <2> QED
    BY <1>4, <1>7, <1>10, <2>1 DEF KeepsWait
<1> QED
  BY <1>1, <1>2, <1>3, <1>4, <1>5, <1>6, <1>8, <1>9, <1>11, <1>12, <1>13, StackKept

LEMMA ForgetStack ==
    ASSUME StateType, TreeInv, VoteInv, StackInv, NEW b \in Blocks, Forget(b)
    PROVE  StackInv'
<1>1. UNCHANGED <<pending, blkReqs, blocked, stack, added>>
  BY DEF Forget, issueVars
<1>2. \A x \in Blocks : (Added(x) <=> Added(x)') /\ (Lost(x) <=> Lost(x)')
  BY ForgetTree
<1>3. /\ \A x \in Blocks : (Gone(x) <=> Gone(x)') /\ (Queued(x) <=> Queued(x)')
      /\ \A x : /\ Requested(x) <=> Requested(x)'
                /\ Looking(x) <=> Looking(x)'
                /\ \A op : ToCome(op, x) <=> ToCome(op, x)'
  BY <1>1, <1>2 DEF Gone, Queued, Requested, Looking, ToCome
<1>4. IssuerInv' /\ LoopIsLast'
  BY <1>1 DEF StackInv, IssuerInv, LoopIsLast
<1>5. \A i \in DOMAIN stack : stack[i].op \in {"chits", "removeAny"} => stack[i].blk \in Blocks
  <2>1. \A i \in DOMAIN stack : stack[i] \in Calls
    BY SMT DEF StateType
  <2> QED
    BY <2>1, CallFields DEF BlockCalls
<1>6. ChitsInv'
  <2> SUFFICES ASSUME NEW k \in DOMAIN stack, stack[k].op = "chits", NEW c \in Blocks, c = stack[k].blk
               PROVE  IF k > 1 /\ stack[k - 1].op \in FromCalls THEN LoopInv(k, c)' ELSE ReturnInv(k, c)'
    BY <1>1, <1>5 DEF ChitsInv
  <2>1. CASE k > 1 /\ stack[k - 1].op \in FromCalls
    <3>1. LoopInv(k, c)
      BY <2>1 DEF StackInv, ChitsInv
    <3>2. PICK x : x = stack[k - 1].blk
      OBVIOUS
    <3>3. x = c \/ x \in Ancestors[c]
      BY <3>1, <3>2 DEF LoopInv
    <3>4. x \in Blocks
      BY <3>3, AncestorFacts
    <3> QED
      BY <1>1, <1>2, <2>1, <3>1, <3>2, <3>4 DEF LoopInv
  <2>2. CASE ~(k > 1 /\ stack[k - 1].op \in FromCalls)
    <3>1. ReturnInv(k, c)
      BY <2>2 DEF StackInv, ChitsInv
    <3> QED
      BY <1>1, <1>2, <1>3, <2>2, <3>1 DEF ReturnInv
  <2> QED
    BY <2>1, <2>2
<1>7. FulfillInv' /\ WaitInv'
  BY <1>1, <1>2, <1>3 DEF StackInv, FulfillInv, WaitInv
<1>8. PendingInv'
  BY <1>1, <1>2, <1>3 DEF StackInv, PendingInv, StateType
<1>9. RemoveInv'
  BY <1>1, <1>3, <1>5 DEF StackInv, RemoveInv
<1> QED
  BY <1>4, <1>6, <1>7, <1>8, <1>9 DEF StackInv

-----------------------------------------------------------------------------
(* Requests and the IDs of polls *)

\* A Get was just answered with the block r asked for, whose turn it is.
Answering(r) == stack # <<>> /\ stack[1].op = "issueFrom" /\ stack[1].blk = r.blk

\* A request is recorded while its Get is unanswered, and no longer than it takes to
\* look at the answer.
RequestInv ==
    /\ blkReqs \subseteq [node : Nodes, id : 1..MaxGets, blk : Blocks]
    /\ gets \subseteq [node : Nodes, id : 1..MaxGets]
    /\ \A r, q \in blkReqs : r.blk = q.blk \/ r.id = q.id => r = q
    /\ \A m, n \in gets : m.id = n.id => m = n
    /\ \A r \in blkReqs : Unanswered(r) \/ Answering(r)

PollsInv ==
    /\ \A i, j \in DOMAIN polls : polls[i].id = polls[j].id => i = j
    /\ pendingBuildBlocks <= MaxBuilds

LEMMA RequestFields ==
    ASSUME RequestInv
    PROVE  /\ \A r \in blkReqs : /\ r.node \in Nodes /\ r.id \in 1..MaxGets /\ r.blk \in Blocks
                                 /\ r = [node |-> r.node, id |-> r.id, blk |-> r.blk]
           /\ \A m \in gets : /\ m.node \in Nodes /\ m.id \in 1..MaxGets
                              /\ m = [node |-> m.node, id |-> m.id]
BY SMT DEF RequestInv

LEMMA RequestsKept ==
    ASSUME RequestInv, gets' \subseteq gets, blkReqs' \subseteq blkReqs,
           \A r \in blkReqs' : Unanswered(r)' \/ Answering(r)'
    PROVE  RequestInv'
BY DEF RequestInv

\* sendRequest takes an ID that no request has.
LEMMA SendRequestRequests ==
    ASSUME RequestInv, NEW node \in Nodes, NEW b \in Blocks, SendRequest(node, b),
           \A r \in blkReqs : Unanswered(r)
    PROVE  RequestInv'
<1>1. CASE Requested(b)
  <2>1. gets' = gets /\ blkReqs' = blkReqs
    BY <1>1 DEF SendRequest
  <2> QED
    BY <2>1, RequestsKept DEF Unanswered
<1>2. CASE ~Requested(b)
  <2> DEFINE id == NextID(FreeGets)
             new == [node |-> node, id |-> id, blk |-> b]
             get == [node |-> node, id |-> id]
  <2>1. FreeGets # {} /\ blkReqs' = blkReqs \cup {new} /\ gets' = gets \cup {get}
    BY <1>2 DEF SendRequest
  <2>2. FreeGets \in SUBSET Nat
    BY SMT, EngineAssumption DEF FreeGets
  <2>3. id \in FreeGets
    BY <2>1, <2>2, NextIDIn
  <2>4. id \in 1..MaxGets /\ (\A r \in blkReqs : r.id # id) /\ (\A m \in gets : m.id # id)
    BY <2>3 DEF FreeGets
  <2>5. \A r \in blkReqs : r.blk # b
    BY <1>2 DEF Requested
  <2> HIDE DEF id
  <2>6. /\ new \in [node : Nodes, id : 1..MaxGets, blk : Blocks] /\ get \in [node : Nodes, id : 1..MaxGets]
        /\ new.id = id /\ new.node = node /\ new.blk = b /\ get.id = id
    BY <2>4, SMT
  <2>7. \A r \in blkReqs' : Unanswered(r)'
    BY <2>1, <2>6 DEF Unanswered
  <2> HIDE DEF new, get
  <2>8. \A r, q \in blkReqs' : r.blk = q.blk \/ r.id = q.id => r = q
    BY <2>1, <2>4, <2>5, <2>6 DEF RequestInv
  <2>9. \A m, n \in gets' : m.id = n.id => m = n
    BY <2>1, <2>4, <2>6 DEF RequestInv
  <2> QED
    BY <2>1, <2>6, <2>7, <2>8, <2>9 DEF RequestInv
<1> QED
  BY <1>1, <1>2

LEMMA IssueFromRequests ==
    ASSUME StateType, RequestInv, IssueFrom
    PROVE  RequestInv'
<1> DEFINE b == stack[1].blk
<1>1. /\ stack # <<>> /\ b \in Blocks /\ stack[1].node \in Nodes
      /\ stack[1].op \in {"issueFrom", "issueFromByID"}
  BY RunningType, CallFields DEF IssueFrom, Running, FromCalls
<1>2. CASE stack[1].op = "issueFromByID" /\ SendRequest(stack[1].node, b)
  <2>1. \A r \in blkReqs : Unanswered(r)
    <3>1. stack[1].op # "issueFrom"
      BY <1>2, SMT
    <3> QED
      BY <3>1 DEF RequestInv, Answering
  <2> QED
    BY <1>1, <1>2, <2>1, SendRequestRequests
<1>3. CASE RemoveAny(b) /\ gets' = gets
  <2>1. \A r \in blkReqs' : r \in blkReqs /\ r.blk # b
    BY <1>3 DEF RemoveAny
  <2>2. \A r \in blkReqs' : Unanswered(r)'
    BY <1>3, <2>1 DEF RequestInv, Answering, Unanswered
  <2> QED
    BY <1>3, <2>1, <2>2, RequestsKept
<1> QED
  BY <1>2, <1>3 DEF IssueFrom, Issue

\* The other calls send nothing and look at no answer.
LEMMA StepRequests ==
    ASSUME RequestInv, Step, ~IssueFrom
    PROVE  RequestInv'
<1>1. stack # <<>> /\ stack[1].op # "issueFrom"
  <2>1. \/ Running("issueWithAncestors") \/ Running("issueWithAncestorsByID") \/ Running("deliver")
        \/ Running("addedOption") \/ Running("droppedOption") \/ Running("removeAny") \/ Running("fulfill")
        \/ Running("abandon") \/ Running("abandonIssuer") \/ Running("chits") \/ Running("voter")
        \/ Running("record") \/ Running("settle") \/ Running("repoll") \/ Running("query")
        \/ Running("buildBlocks")
    BY DEF Step, IssueWithAncestors, Deliver, Option, RemoveRequest, Fulfill, Abandon, AbandonIssuer, Chits,
           Vote, Record, Settle, Repoll, Query, BuildBlocks
  <2> QED
    BY <2>1, SMT DEF Running
<1>2. gets' = gets /\ blkReqs' \subseteq blkReqs
  <2>1. CASE IssueWithAncestors \/ RemoveRequest
    BY <2>1 DEF IssueWithAncestors, RemoveRequest, Issue, RemoveAny, issueVars
  <2>2. CASE Deliver \/ Option \/ Fulfill \/ Abandon \/ AbandonIssuer
    BY <2>2 DEF Deliver, Option, Fulfill, Abandon, Release, AbandonIssuer
  <2>3. CASE Chits \/ Vote \/ Record \/ Settle \/ Repoll \/ Query \/ BuildBlocks
    BY <2>3 DEF Chits, Vote, Record, Settle, Repoll, Query, BuildBlocks, issueVars
  <2> QED
    BY <2>1, <2>2, <2>3 DEF Step
<1>3. \A r \in blkReqs : Unanswered(r)
  BY <1>1 DEF RequestInv, Answering
<1>4. \A r \in blkReqs' : Unanswered(r)'
  BY <1>2, <1>3 DEF Unanswered
<1> QED
  BY <1>2, <1>4, RequestsKept

\* An answer ends the request it is for, which no other request shares its ID with.
LEMMA AnswerGetRequests ==
    ASSUME RequestInv, NEW m \in gets, AnswerGet(m)
    PROVE  RequestInv'
<1>1. stack = <<>> /\ gets' = gets \ {m}
  BY DEF AnswerGet, GetFailed, Put, FailGet, Handle
<1>2. \A r \in blkReqs : Unanswered(r)
  BY <1>1 DEF RequestInv, Answering
<1>3. \A r \in blkReqs : r \notin Expected(m) => Unanswered(r)'
  <2>1. \A r \in blkReqs : r \notin Expected(m) => [node |-> r.node, id |-> r.id] # m
    BY SMT DEF Expected
  <2> QED
    BY <1>1, <1>2, <2>1 DEF Unanswered
<1>4. ASSUME NEW r \in Expected(m), FailGet(r)
      PROVE  RequestInv'
  <2>1. \A q \in Expected(m) : q = r
    BY <1>4 DEF Expected, RequestInv
  <2>2. blkReqs' = blkReqs \ {r}
    BY <1>4 DEF FailGet
  <2> QED
    BY <1>1, <1>3, <2>1, <2>2, RequestsKept
<1>5. CASE Expected(m) = {} /\ UNCHANGED blkReqs
  BY <1>1, <1>3, <1>5, RequestsKept
<1>6. ASSUME NEW b \in Blocks, \A r \in Expected(m) : r.blk = b, UNCHANGED blkReqs,
             Handle(<<CallFrom("issueFrom", m.node, b)>>)
      PROVE  RequestInv'
  <2>1. stack' # <<>> /\ stack'[1] = CallFrom("issueFrom", m.node, b)
    BY <1>6, SMT DEF Handle, CallFrom, Do
  <2>2. stack'[1].op = "issueFrom" /\ stack'[1].blk = b
    BY <2>1, SMT DEF CallFrom
  <2>3. \A r \in Expected(m) : Answering(r)'
    BY <1>6, <2>1, <2>2 DEF Answering
  <2> QED
    BY <1>1, <1>3, <1>6, <2>3, RequestsKept
<1> QED
  BY <1>4, <1>5, <1>6 DEF AnswerGet, GetFailed, Put, issueVars

LEMMA NextRequests ==
    ASSUME StateType, RequestInv, Next
    PROVE  RequestInv'
<1>1. CASE PushQuery \/ PullQuery \/ Notify \/ \E m \in queries : AnswerQuery(m)
  <2>1. stack = <<>> /\ gets' = gets /\ blkReqs' = blkReqs
    BY <1>1 DEF PushQuery, PullQuery, Notify, AnswerQuery, ChitsFor, Handle
  <2>2. \A r \in blkReqs' : Unanswered(r)'
    BY <2>1 DEF RequestInv, Answering, Unanswered
  <2> QED
    BY <2>1, <2>2, RequestsKept
<1>2. CASE \E b \in Blocks : Forget(b)
  <2>1. UNCHANGED <<gets, blkReqs, stack>>
    BY <1>2 DEF Forget, issueVars
  <2> QED
    BY <2>1 DEF RequestInv, Unanswered, Answering
<1> QED
  BY <1>1, <1>2, IssueFromRequests, StepRequests, AnswerGetRequests DEF Next

\* The polls keep their IDs and their order, and a new one takes an ID that no poll has.
LEMMA NextPolls ==
    ASSUME StateType, PollsInv, Next
    PROVE  PollsInv'
<1>0. polls \in Seq(PollStates) /\ pendingBuildBlocks \in Nat
  BY DEF StateType
<1>1. CASE Vote
  <2>1. PICK n \in Nat : \A i \in DOMAIN polls' :
           i + n \in DOMAIN polls /\ polls'[i].id = polls[i + n].id
    BY <1>1, VoteType
  <2>2. ASSUME NEW i \in DOMAIN polls', NEW j \in DOMAIN polls', polls'[i].id = polls'[j].id
        PROVE  i + n = j + n
    <3>1. polls[i + n].id = polls[j + n].id
      BY <2>1, <2>2
    <3> QED
      BY <2>1, <3>1 DEF PollsInv
  <2>3. polls' \in Seq(PollStates)
    BY <1>1, VoteType DEF StateType
  <2>4. \A i, j \in DOMAIN polls' : i + n = j + n => i = j
    BY <2>3, SMT
  <2> QED
    BY <1>1, <2>2, <2>4 DEF PollsInv, Vote
<1>2. CASE Query
  <2>1. CASE polls' = polls
    BY <1>2, <2>1 DEF PollsInv, Query
  <2>2. CASE polls' # polls
    <3>1. PICK p : polls' = Append(polls, p) /\ p.id = NextID(FreePolls) /\ FreePolls # {}
      BY <1>2, <2>2 DEF Query
    <3>2. FreePolls \in SUBSET Nat
      BY SMT DEF FreePolls
    <3>3. \A i \in DOMAIN polls : polls[i].id # p.id
      BY <3>1, <3>2, NextIDIn DEF FreePolls
    <3>4. \A i, j \in DOMAIN polls' : polls'[i].id = polls'[j].id => i = j
      BY <1>0, <3>1, <3>3, SMT DEF PollsInv
    <3> QED
      BY <1>2, <3>4 DEF PollsInv, Query
  <2> QED
    BY <2>1, <2>2
<1>3. CASE BuildBlocks \/ Notify
  <2>1. polls' = polls
    BY <1>3 DEF BuildBlocks, Notify, Handle
  <2>2. pendingBuildBlocks' <= MaxBuilds
    BY <1>0, <1>3, EngineAssumption, SMT DEF BuildBlocks, Notify, PollsInv
  <2> QED
    BY <2>1, <2>2 DEF PollsInv
<1>4. CASE \/ IssueFrom \/ IssueWithAncestors \/ Deliver \/ Option \/ RemoveRequest
           \/ Fulfill \/ Abandon \/ AbandonIssuer \/ Chits \/ Record \/ Settle \/ Repoll
  <2>1. CASE IssueFrom \/ IssueWithAncestors \/ RemoveRequest
    BY <2>1 DEF IssueFrom, IssueWithAncestors, RemoveRequest, Issue, SendRequest, PollsInv
  <2>2. CASE Deliver \/ Option \/ Fulfill \/ Abandon \/ AbandonIssuer
    BY <2>2 DEF Deliver, Option, Fulfill, Abandon, Release, AbandonIssuer, PollsInv
  <2>3. CASE Chits \/ Record \/ Settle \/ Repoll
    BY <2>3 DEF Chits, Record, Settle, Repoll, PollsInv
  <2> QED
    BY <1>4, <2>1, <2>2, <2>3
<1>5. CASE (\E m \in gets : AnswerGet(m)) \/ PushQuery \/ PullQuery \/ \E m \in queries : AnswerQuery(m)
  BY <1>5 DEF AnswerGet, GetFailed, Put, FailGet, PushQuery, PullQuery, AnswerQuery, ChitsFor, Handle, PollsInv
<1>6. CASE \E b \in Blocks : Forget(b)
  BY <1>6 DEF Forget, PollsInv
<1> QED
  BY <1>1, <1>2, <1>3, <1>4, <1>5, <1>6 DEF Next, Step
=============================================================================
