-------------------------- MODULE TransitiveProofs --------------------------
(***************************************************************************)
(* What is proved of Transitive, for every tree of blocks, every set of     *)
(* nodes and every assignment of options: the loops that issue a block with *)
(* its ancestors, the rest of Chits and the handlers keep the invariant,    *)
(* and the theorems.                                                        *)
(***************************************************************************)
EXTENDS TransitiveInvariant

USE ZenonT(30)

-----------------------------------------------------------------------------
(* Issuing a block with its ancestors *)

\* One iteration of issueFrom or issueWithAncestors, apart from what it means for
\* the rest of Chits.
LookCalls == {"issueFrom", "issueFromByID", "issueWithAncestors", "issueWithAncestorsByID"}
LookKept(calls) ==
    /\ Returned(calls)
    /\ IssuerInv' /\ FulfillInv' /\ PendingInv' /\ WaitInv' /\ RemoveInv'

LEMMA LookStack ==
    ASSUME StateType, StackInv, NEW calls, Returned(calls), stack[1].op \in LookCalls,
           UNCHANGED consensusVars, Only(calls, {"deliver", "abandon"} \cup LookCalls), IssuerInv',
           \A x \in Blocks : Added(x) /\ blocked'[x] # <<>> => blocked[x] # <<>>,
           KeepsPending(calls), KeepsWait(calls)
    PROVE  LookKept(calls)
<1>1. PICK op \in LookCalls : op = stack[1].op
  OBVIOUS
<1>2. /\ op \notin QuietCalls /\ op \notin {"fulfill", "addedOption"}
      /\ op \notin {"deliver", "abandon", "abandonIssuer", "voter", "record", "settle", "repoll", "query"}
      /\ \A o \in {"deliver", "abandon"} \cup LookCalls : o # "removeAny" /\ o # "addedOption"
  BY SMT DEF QuietCalls, LookCalls
<1>3. Advances /\ \A x : Added(x) <=> Added(x)'
  BY SameConsensus
<1>4. KeepsFulfill(calls)
  <2>1. \A x : Call("addedOption", x) \notin Range(calls)
    BY <1>2, OnlyCalls
  <2>2. \A x : stack[1] \notin {Call("fulfill", x), Call("addedOption", x)}
    BY <1>1, <1>2, OtherCall
  <2> QED
    BY <1>3, <2>1, <2>2 DEF KeepsFulfill
<1>5. RemoveInv'
  <2>1. KeepsReleased(calls) /\ \A j \in DOMAIN calls : calls[j].op # "removeAny"
    BY <1>1, <1>2 DEF KeepsReleased, Only
  <2> QED
    BY <1>3, <2>1, RemoveKept DEF StackInv
<1> QED
  BY <1>3, <1>4, <1>5, FulfillKept, PendingKept, WaitKept DEF StackInv, LookKept

\* The calls of issue.
IssueCalls(b, next) ==
    {<<next>>} \cup {<<Call("deliver", b), next>> : x \in {p \in {Parent[b]} : Issued(p)}}

LEMMA IssueStack ==
    ASSUME StateType, TreeInv, StackInv, stack # <<>>,
           NEW b \in Blocks \ {Genesis}, stack[1].blk = b, stack[1].op \in LookCalls, ~WasIssued(b),
           NEW next \in Calls, next.op \in {"issueFromByID", "issueWithAncestorsByID"},
           next.blk = Parent[b], Issue(b, next)
    PROVE  \E calls \in IssueCalls(b, next) : LookKept(calls)
<1>1. PICK p \in Blocks : p = Parent[b]
  BY ParentFacts
<1>2. p # b
  <2>1. p \in Ancestors[b]
    BY <1>1, ParentFacts
  <2>2. Height[p] < Height[b] /\ Height[b] \in Nat
    BY <2>1, AncestorFacts, HeightType
  <2> QED
    BY <2>2, SMT
<1>3. /\ UNCHANGED <<status, processing, lastAccepted, nonVerifiedCache, added>>
      /\ pending' = pending \cup {b} /\ blkReqs' = {r \in blkReqs : r.blk # b}
      /\ UNCHANGED consensusVars
  BY DEF Issue, consensusVars, RemoveAny
<1>4. ~Added(b)
  BY AddedFacts DEF WasIssued
<1>5. \A calls \in Seq(Calls) : Return(calls) => Returned(calls)
  BY Returns DEF StateType
<1>6. PICK op \in LookCalls : op = stack[1].op
  OBVIOUS
<1>7. /\ op \notin Releasing /\ op \notin {"deliver", "abandonIssuer", "addedOption"}
      /\ {"issueFromByID", "issueWithAncestorsByID"} \subseteq LookCalls
  BY SMT DEF Releasing, LookCalls
<1>8. \A x \in Blocks : /\ Decided(x) <=> Decided(x)'
                        /\ x # b => (Requested(x) => Requested(x)')
  BY <1>3 DEF Decided, Requested
<1>9. \A x : \A o \in Releasing : stack[1] # Call(o, x)
  BY <1>6, <1>7, OtherCall
<1>10. \A x : stack[1] \notin TakingOut(x)
  BY <1>6, <1>7, OtherCall DEF TakingOut
<1>11. \A x : x # b => ~Looking(x)
  BY DEF Looking
<1>12. \A x : Added(x) <=> Added(x)'
  BY <1>3, SameConsensus
<1>13. pending \subseteq Blocks \ {Genesis}
  BY DEF StateType
<1>14. ASSUME MayMiss(p) \/ ~Issued(p), Return(<<next>>),
              blocked' = [blocked EXCEPT ![p] = Append(@, Call("issuer", b))]
       PROVE  LookKept(<<next>>)
  <2>1. PICK calls \in Seq(Calls) : calls = <<next>> /\ Returned(calls)
    BY <1>5, <1>14, SeqFacts
  <2>2. DOMAIN calls = {1} /\ calls[1] = next
    BY <2>1, TupleFacts
  <2>3. Only(calls, {"deliver", "abandon"} \cup LookCalls)
    BY <1>7, <2>2 DEF Only
  <2>4. /\ blocked'[p] = Append(blocked[p], Call("issuer", b))
        /\ \A x \in Blocks : x # p => blocked'[x] = blocked[x]
    BY <1>14 DEF StateType
  <2>5. PICK m \in Nat : /\ DOMAIN blocked[p] = 1..m /\ DOMAIN blocked'[p] = 1..(m + 1)
                         /\ \A i \in 1..m : blocked'[p][i] = blocked[p][i]
                         /\ blocked'[p][m + 1] = Call("issuer", b)
    <3>1. blocked[p] \in Seq(Issuers \cup Voters)
      BY DEF StateType
    <3>2. PICK m \in Nat : m = Len(blocked[p])
      BY <3>1, SMT
    <3>3. /\ DOMAIN Append(blocked[p], Call("issuer", b)) = 1..(m + 1) /\ DOMAIN blocked[p] = 1..m
          /\ \A i \in 1..m : Append(blocked[p], Call("issuer", b))[i] = blocked[p][i]
          /\ Append(blocked[p], Call("issuer", b))[m + 1] = Call("issuer", b)
      BY <3>1, <3>2, SMT
    <3> QED
      BY <2>4, <3>3
  <2>6. m + 1 \in 1..(m + 1) /\ 1..m \subseteq 1..(m + 1) /\ \A i \in 1..(m + 1) : i \in 1..m \/ i = m + 1
    BY SMT
  <2>7. IssuerInv'
    <3> SUFFICES ASSUME NEW x \in Blocks, NEW i \in DOMAIN blocked'[x], blocked'[x][i].op = "issuer"
                 PROVE  Parent[blocked'[x][i].blk] = x
      BY DEF IssuerInv
    <3>1. CASE x # p
      <4>1. blocked'[x] = blocked[x]
        BY <2>4, <3>1
      <4>2. i \in DOMAIN blocked[x] /\ blocked[x][i].op = "issuer"
        BY <4>1
      <4>3. Parent[blocked[x][i].blk] = x
        BY <4>2 DEF StackInv, IssuerInv
      <4> QED
        BY <4>1, <4>3
    <3>2. CASE x = p /\ i \in 1..m
      <4>1. blocked'[x][i] = blocked[x][i] /\ i \in DOMAIN blocked[x]
        BY <2>5, <3>2
      <4>2. Parent[blocked[x][i].blk] = x
        BY <4>1 DEF StackInv, IssuerInv
      <4> QED
        BY <4>1, <4>2
    <3>3. CASE x = p /\ i = m + 1
      <4>1. blocked'[x][i].blk = b
        <5>1. blocked'[x][i] = Call("issuer", b)
          BY <2>5, <3>3
        <5>2. Call("issuer", b).blk = b
          BY SMT DEF Call
        <5> QED
          BY <5>1, <5>2
      <4> QED
        BY <1>1, <3>3, <4>1
    <3> QED
      BY <2>5, <2>6, <3>1, <3>2, <3>3
  <2>8. ~Added(p)
    BY <1>14, AddedFacts
  <2>9. \A x \in Blocks : Added(x) /\ blocked'[x] # <<>> => blocked[x] # <<>>
    BY <2>4, <2>8
  <2>10. Queued(b)'
    BY <1>1, <2>5, <2>6 DEF Queued
  <2>11. \A y \in Blocks \ {Genesis} : Queued(y) => Queued(y)'
    <3> SUFFICES ASSUME NEW y \in Blocks \ {Genesis}, Queued(y)
                 PROVE  Queued(y)'
      OBVIOUS
    <3>1. Parent[y] \in Blocks
      BY ParentFacts
    <3>2. CASE Parent[y] = p
      BY <2>5, <2>6, <3>2 DEF Queued
    <3>3. CASE Parent[y] # p
      BY <2>4, <3>1, <3>3 DEF Queued
    <3> QED
      BY <3>2, <3>3
  <2>12. KeepsPending(calls)
    BY <1>3, <1>4, <1>10, <1>12, <1>13, <2>10, <2>11 DEF KeepsPending
  <2>13. Looking(p)'
    <3>1. 1 \in DOMAIN stack' /\ stack'[1] = calls[1]
      <4>1. PICK n \in Nat, l \in Nat \ {0} : Shifted(calls, n, l)
        BY <2>1 DEF Returned
      <4>2. DOMAIN stack' = 1..(n + l - 1) /\ DOMAIN calls = 1..n /\ \A i \in 1..n : stack'[i] = calls[i]
        BY <4>1 DEF Shifted
      <4>3. 1 \in 1..n
        BY <2>2, <4>2
      <4>4. 1 \in 1..(n + l - 1)
        BY <4>3, SMT
      <4> QED
        BY <4>2, <4>3, <4>4
    <3>2. stack' # <<>> /\ stack'[1] = next
      BY <2>2, <3>1, TupleFacts
    <3> QED
      BY <1>1, <3>2 DEF Looking
  <2>14. KeepsWait(calls)
    BY <1>3, <1>8, <1>9, <1>11, <2>4, <2>13 DEF KeepsWait
  <2> QED
    BY <1>3, <2>1, <2>3, <2>7, <2>9, <2>12, <2>14, LookStack
<1>15. ASSUME Return(<<Call("deliver", b), next>>), UNCHANGED blocked
       PROVE  LookKept(<<Call("deliver", b), next>>)
  <2>1. PICK calls \in Seq(Calls) : calls = <<Call("deliver", b), next>> /\ Returned(calls)
    BY <1>5, <1>15, SeqFacts, CallsType DEF BlockCalls
  <2>2. DOMAIN calls = {1, 2} /\ calls[1] = Call("deliver", b) /\ calls[2] = next
        /\ Call("deliver", b) \in Range(calls)
    <3>1. DOMAIN calls = {1, 2} /\ calls[1] = Call("deliver", b) /\ calls[2] = next
      BY <2>1, TupleFacts
    <3> QED
      BY <3>1 DEF Range
  <2>3. Only(calls, {"deliver", "abandon"} \cup LookCalls)
    <3>1. calls[1] = Call("deliver", b) /\ Call("deliver", b).op = "deliver"
      BY <2>2, CallIs
    <3> QED
      BY <1>7, <2>2, <3>1 DEF Only
  <2>4. blocked' = blocked
    BY <1>15
  <2>5. IssuerInv' /\ \A x \in Blocks : Added(x) /\ blocked'[x] # <<>> => blocked[x] # <<>>
    BY <2>4 DEF StackInv, IssuerInv
  <2>6. \A y : Queued(y) <=> Queued(y)'
    BY <2>4 DEF Queued
  <2>7. KeepsPending(calls)
    BY <1>3, <1>4, <1>10, <1>12, <1>13, <2>2, <2>6 DEF KeepsPending
  <2>8. KeepsWait(calls)
    BY <1>3, <1>8, <1>9, <1>11, <2>4 DEF KeepsWait
  <2> QED
    BY <1>3, <2>1, <2>3, <2>5, <2>7, <2>8, LookStack
<1> QED
  BY <1>1, <1>14, <1>15 DEF Issue, IssueCalls

LEMMA IssueWithAncestorsStack ==
    ASSUME StateType, TreeInv, StackInv, IssueWithAncestors
    PROVE  StackInv'
<1>1. /\ stack # <<>> /\ stack \in Seq(Calls) /\ stack[1].blk \in Blocks
      /\ stack[1].op \in {"issueWithAncestors", "issueWithAncestorsByID"}
  BY RunningType, CallFields DEF IssueWithAncestors, BlockCalls
<1>2. PICK b \in Blocks, op \in {"issueWithAncestors", "issueWithAncestorsByID"} :
         b = stack[1].blk /\ op = stack[1].op
  BY <1>1
<1>3. /\ op \in LookCalls /\ op \notin FromCalls \cup {"chits"} /\ op \notin Releasing
      /\ op \notin {"deliver", "abandonIssuer", "addedOption"}
      /\ \A o \in {"deliver", "abandon", "issueWithAncestorsByID"} : o \notin FromCalls \cup {"chits"}
  BY SMT DEF LookCalls, FromCalls, Releasing
<1>4. \A calls : LookKept(calls) /\ Only(calls, {"deliver", "abandon", "issueWithAncestorsByID"})
                    /\ UNCHANGED <<consensusVars, added>> => StackInv'
  <2> SUFFICES ASSUME NEW calls, LookKept(calls), UNCHANGED <<consensusVars, added>>,
                      Only(calls, {"deliver", "abandon", "issueWithAncestorsByID"})
               PROVE  StackInv'
    OBVIOUS
  <2>1. NoLoop(calls) /\ Returned(calls)
    BY <1>3 DEF NoLoop, Only, LookKept
  <2>2. Advances
    BY SameConsensus
  <2>3. LoopIsLast' /\ ChitsInv'
    BY <1>2, <1>3, <2>1, <2>2, LoopStaysLast, ChitsKept DEF StackInv
  <2> QED
    BY <2>3 DEF StackInv, LookKept
<1>5. CASE ~WasIssued(b) /\ Issue(b, Call("issueWithAncestorsByID", Parent[b]))
  <2>1. b \in Blocks \ {Genesis} /\ Parent[b] \in Blocks
    BY <1>5, GenesisIssued, ParentFacts DEF WasIssued
  <2>2. PICK next \in Calls : next = Call("issueWithAncestorsByID", Parent[b])
    BY <2>1, CallsType DEF BlockCalls
  <2>3. next.op = "issueWithAncestorsByID" /\ next.blk = Parent[b]
    BY <2>2, CallOf
  <2>4. PICK calls \in IssueCalls(b, next) : LookKept(calls)
    BY <1>1, <1>2, <1>3, <1>5, <2>1, <2>2, <2>3, IssueStack
  <2>5. Only(calls, {"deliver", "abandon", "issueWithAncestorsByID"})
    <3>1. Call("deliver", b).op = "deliver"
      BY SMT DEF Call
    <3>2. CASE calls = <<next>>
      <4>1. Only(<<next>>, {"deliver", "abandon", "issueWithAncestorsByID"})
        BY <2>3, SMT DEF Only
      <4> QED
        BY <3>2, <4>1
    <3>3. CASE calls = <<Call("deliver", b), next>>
      BY <2>3, <3>1, <3>3, OnlyTuple
    <3> QED
      BY <2>4, <3>2, <3>3 DEF IssueCalls
  <2>6. UNCHANGED <<consensusVars, added>>
    BY <1>5 DEF Issue
  <2> QED
    BY <1>4, <2>4, <2>5, <2>6
<1>6. ASSUME NEW calls \in {<<>>, <<Call("abandon", b)>>}, Return(calls),
             UNCHANGED <<consensusVars, issueVars, added>>,
             calls = <<>> => Requested(b) \/ Issued(b)
      PROVE  StackInv'
  <2>1. Only(calls, {"abandon"})
    <3>1. Call("abandon", b).op = "abandon"
      BY SMT DEF Call
    <3>2. Only(<<Call("abandon", b)>>, {"abandon"})
      BY <3>1, SMT DEF Only
    <3>3. Only(<<>>, {"abandon"})
      BY OnlyTuple
    <3> QED
      BY <3>2, <3>3
  <2>2. Returned(calls)
    <3>1. calls \in Seq(Calls)
      BY CallsType, SeqFacts DEF BlockCalls
    <3> QED
      BY <1>1, <1>6, <3>1, Returns
  <2>3. UNCHANGED <<status, processing, lastAccepted, pending, blkReqs, blocked>>
    BY <1>6 DEF consensusVars, issueVars
  <2>4. \A x : /\ Queued(x) <=> Queued(x)'
               /\ Requested(x) <=> Requested(x)'
               /\ Added(x) <=> Added(x)'
               /\ Lost(x) <=> Lost(x)'
    BY <2>3, SameConsensus DEF Queued, Requested, consensusVars
  <2>5. KeepsPending(calls)
    <3>1. \A x : stack[1] \notin TakingOut(x)
      BY <1>2, <1>3, OtherCall DEF TakingOut
    <3> QED
      BY <2>3, <2>4, <3>1 DEF KeepsPending
  <2>6. KeepsWait(calls)
    <3>1. \A x : \A o \in Releasing : stack[1] # Call(o, x)
      BY <1>2, <1>3, OtherCall
    <3>2. \A x : x # b => ~Looking(x)
      BY <1>2 DEF Looking
    <3>3. calls # <<>> => Call("abandon", b) \in Range(calls) /\ "abandon" \in Releasing
      <4>1. Range(<<Call("abandon", b)>>) = {Call("abandon", b)}
        BY TupleFacts
      <4> QED
        BY <1>6, <4>1 DEF Releasing
    <3>4. Issued(b) => Added(b) \/ Lost(b)
      BY AddedFacts DEF Gone
    <3> QED
      BY <1>6, <2>3, <2>4, <3>1, <3>2, <3>3, <3>4 DEF KeepsWait
  <2>7. IssuerInv' /\ \A x \in Blocks : Added(x) /\ blocked'[x] # <<>> => blocked[x] # <<>>
    BY <2>3 DEF StackInv, IssuerInv
  <2>8. LookKept(calls)
    <3>1. Only(calls, {"deliver", "abandon"} \cup LookCalls)
      BY <2>1 DEF Only
    <3> QED
      BY <1>2, <1>3, <1>6, <2>2, <2>5, <2>6, <2>7, <3>1, LookStack
  <2>9. Only(calls, {"deliver", "abandon", "issueWithAncestorsByID"})
    BY <2>1 DEF Only
  <2> QED
    BY <1>4, <1>6, <2>8, <2>9
<1>7. CASE /\ \/ Return(IF Issued(b) THEN <<>> ELSE AbandonUnrequested(b))
              \/ Return(AbandonUnrequested(b))
           /\ UNCHANGED <<consensusVars, issueVars, added>>
  <2>1. <<Call("abandon", b)>> # <<>>
    BY SMT
  <2>2. CASE Return(<<>>) /\ (Requested(b) \/ Issued(b))
    BY <1>6, <1>7, <2>2
  <2>3. CASE Return(<<Call("abandon", b)>>)
    BY <1>6, <1>7, <2>1, <2>3
  <2> QED
    BY <1>7, <2>2, <2>3 DEF AbandonUnrequested
<1> QED
  BY <1>2, <1>5, <1>7 DEF IssueWithAncestors

\* The rest of Chits for b follows the running iteration of issueFrom, which looks
\* at x.
Following(x, b) ==
    /\ b \in Blocks /\ (x = b \/ x \in Ancestors[b])
    /\ Added(x) \/ Lost(b) \/ (~Added(b) /\ (x = b \/ b \in pending))

\* After an iteration the rest of Chits comes next, or right after the next
\* iteration.
LEMMA LoopMoves ==
    ASSUME StateType, StackInv, NEW calls, Returned(calls), stack[1].op \in FromCalls,
           NEW n \in Nat, DOMAIN calls = 1..n,
           \A j \in 1..n : calls[j].op # "chits" /\ (calls[j].op \in FromCalls => j = n)
    PROVE  /\ LoopIsLast'
           /\ \A j \in 1..n : stack'[j] = calls[j]
           /\ \A k \in DOMAIN stack' :
                 stack'[k].op = "chits" => k = n + 1 /\ Following(stack[1].blk, stack'[k].blk)
<1>1. PICK l \in Nat \ {0} : Shifted(calls, n, l)
  <2>1. PICK m \in Nat, l \in Nat \ {0} : Shifted(calls, m, l)
    BY DEF Returned
  <2>2. DOMAIN calls = 1..m
    BY <2>1 DEF Shifted
  <2>3. m = n
    BY <2>2, SMT
  <2> QED
    BY <2>1, <2>3
<1>2. /\ Len(stack') = n + l - 1 /\ DOMAIN stack = 1..l /\ DOMAIN stack' = 1..(n + l - 1)
      /\ l = Len(stack) /\ stack \in Seq(Calls) /\ \A j \in 1..n : stack'[j] = calls[j]
  BY <1>1 DEF Shifted
<1>3. "chits" \notin FromCalls
  BY SMT DEF FromCalls
<1>4. l = 2 \/ (l = 3 /\ stack[2].op = "chits")
  <2>1. 1 \in 1..l
    BY SMT
  <2>2. 1 = l - 1 \/ (1 = l - 2 /\ stack[1 + 1].op = "chits")
    BY <1>2, <2>1 DEF StackInv, LoopIsLast
  <2>3. 1 = l - 1 => l = 2
    BY SMT
  <2>4. 1 = l - 2 => l = 3
    BY SMT
  <2>5. 1 + 1 = 2
    BY SMT
  <2> QED
    BY <2>2, <2>3, <2>4, <2>5
<1>5. ASSUME NEW i \in 2..l, stack[i].op \in FromCalls \cup {"chits"}
      PROVE  l = 3 /\ i = 2 /\ stack[2].op = "chits"
  <2>1. i \in 1..l
    BY SMT
  <2>2. i = l - 1 \/ i = l - 2
    BY <1>2, <1>5, <2>1 DEF StackInv, LoopIsLast
  <2>3. l = 3 /\ i = 2
    <3>1. l = 2 => FALSE
      BY <2>2, SMT
    <3>2. l = 3 => i = 2
      BY <2>2, SMT
    <3> QED
      BY <1>4, <3>1, <3>2
  <2>4. l # 2
    BY <2>3, SMT
  <2> QED
    BY <1>4, <2>3, <2>4
<1>6. ASSUME NEW k \in DOMAIN stack', stack'[k].op \in FromCalls \cup {"chits"}
      PROVE  \/ k = n /\ n \in 1..n /\ stack'[k].op \in FromCalls
             \/ l = 3 /\ k = n + 1 /\ stack'[k] = stack[2] /\ stack[2].op = "chits"
  <2>1. CASE k \in 1..n /\ stack'[k] = calls[k]
    BY <1>6, <2>1
  <2>2. ASSUME NEW i \in 2..l, k = i - 1 + n, stack'[k] = stack[i]
        PROVE  l = 3 /\ k = n + 1 /\ stack'[k] = stack[2] /\ stack[2].op = "chits"
    <3>1. l = 3 /\ i = 2 /\ stack[2].op = "chits"
      BY <1>5, <1>6, <2>2
    <3>2. k = n + 1
      BY <2>2, <3>1, SMT
    <3> QED
      BY <2>2, <3>1, <3>2
  <2>3. CASE ~(k \in 1..n /\ stack'[k] = calls[k])
    <3>1. k \in 1..(n + l - 1)
      BY <1>2
    <3>2. PICK i \in 2..l : k = i - 1 + n /\ stack'[k] = stack[i]
      <4>1. k \notin 1..n
        BY <1>2, <2>3
      <4>2. k - n + 1 \in 2..l /\ k = (k - n + 1) - 1 + n
        BY <3>1, <4>1, SMT
      <4>3. stack'[(k - n + 1) - 1 + n] = stack[k - n + 1]
        BY <1>1, <4>2 DEF Shifted
      <4> QED
        BY <4>2, <4>3
    <3> QED
      BY <2>2, <3>2
  <2> QED
    BY <2>1, <2>3
<1>7. l = 3 => stack'[n + 1] = stack[2]
  <2> SUFFICES ASSUME l = 3
               PROVE  stack'[n + 1] = stack[2]
    OBVIOUS
  <2>1. 2 \in 2..l /\ n + 1 = 2 - 1 + n
    BY SMT
  <2> QED
    BY <1>1, <2>1, ShiftedTo, SMT
<1>8. LoopIsLast'
  <2> SUFFICES ASSUME NEW k \in DOMAIN stack', stack'[k].op \in FromCalls \cup {"chits"}
               PROVE  /\ stack'[k].op = "chits" => k = Len(stack') - 1
                      /\ stack'[k].op \in FromCalls =>
                            k = Len(stack') - 1 \/ (k = Len(stack') - 2 /\ stack'[k + 1].op = "chits")
    BY DEF LoopIsLast
  <2>1. CASE k = n /\ stack'[k].op \in FromCalls
    <3>1. l = 2 => k = (n + l - 1) - 1
      BY <2>1, SMT
    <3>2. l = 3 => k = (n + l - 1) - 2
      BY <2>1, SMT
    <3> QED
      BY <1>2, <1>3, <1>4, <1>7, <2>1, <3>1, <3>2
  <2>2. CASE l = 3 /\ k = n + 1 /\ stack'[k].op = "chits"
    <3>1. k = (n + l - 1) - 1
      BY <2>2, SMT
    <3> QED
      BY <1>2, <1>3, <2>2, <3>1
  <2> QED
    BY <1>6, <2>1, <2>2
<1>9. ASSUME NEW k \in DOMAIN stack', stack'[k].op = "chits"
      PROVE  k = n + 1 /\ Following(stack[1].blk, stack'[k].blk)
  <2>1. l = 3 /\ k = n + 1 /\ stack'[k] = stack[2] /\ stack[2].op = "chits"
    BY <1>3, <1>6, <1>9
  <2>2. 2 \in 1..l /\ 2 > 1 /\ 2 - 1 = 1
    BY <2>1, SMT
  <2>3. LoopInv(2, stack[2].blk)
    BY <1>2, <2>1, <2>2 DEF StackInv, ChitsInv
  <2>4. stack[2].blk \in Blocks
    BY <1>2, <2>1, <2>2, SeqElement, CallFields
  <2> QED
    BY <2>1, <2>2, <2>3, <2>4 DEF LoopInv, Following
<1> QED
  BY <1>2, <1>8, <1>9

LEMMA IssueFromStack ==
    ASSUME StateType, TreeInv, StackInv, IssueFrom
    PROVE  StackInv'
<1>1. /\ stack # <<>> /\ stack \in Seq(Calls) /\ stack[1].blk \in Blocks /\ stack[1].op \in FromCalls
      /\ stack[1].node \in Nodes
  BY RunningType, CallFields DEF IssueFrom, FromCalls
<1>2. PICK x \in Blocks, op \in FromCalls, node \in Nodes :
         x = stack[1].blk /\ op = stack[1].op /\ node = stack[1].node
  BY <1>1
<1>3. /\ op \in LookCalls /\ op \notin Releasing /\ op \notin {"deliver", "abandonIssuer", "addedOption"}
      /\ "abandon" \notin FromCalls \cup {"chits"} /\ "deliver" \notin FromCalls \cup {"chits"}
      /\ "chits" \notin FromCalls /\ "issueFromByID" \in FromCalls
  BY SMT DEF LookCalls, FromCalls, Releasing
<1>4. \A y : \A o \in Releasing : stack[1] # Call(o, y)
  BY <1>2, <1>3, OtherCall
<1>5. \A y : stack[1] \notin TakingOut(y)
  BY <1>2, <1>3, OtherCall DEF TakingOut
<1>6. \A y : y # x => ~Looking(y)
  BY <1>2 DEF Looking
<1>7. ASSUME MayMiss(x), SendRequest(node, x)
      PROVE  StackInv'
  <2> DEFINE calls == <<>>
  <2>1. DOMAIN calls = 1..0 /\ Range(calls) = {} /\ Only(calls, {"deliver", "abandon"} \cup LookCalls)
    <3>1. 1..0 = {}
      BY SMT
    <3> QED
      BY <3>1, TupleFacts, OnlyTuple
  <2>2. Returned(calls)
    BY <1>1, <1>7, SeqFacts, Returns DEF SendRequest
  <2> HIDE DEF calls
  <2>3. /\ UNCHANGED <<status, processing, lastAccepted, pending, nonVerifiedCache, blocked>>
        /\ UNCHANGED consensusVars /\ added' = FALSE
        /\ blkReqs \subseteq blkReqs' /\ Requested(x)'
    <3>1. blkReqs \subseteq blkReqs' /\ Requested(x)'
      <4>1. CASE Requested(x)
        BY <1>7, <4>1 DEF SendRequest, Requested
      <4>2. CASE ~Requested(x)
        <5>1. PICK id : blkReqs' = blkReqs \cup {[node |-> node, id |-> id, blk |-> x]}
          BY <1>7, <4>2 DEF SendRequest
        <5>2. [node |-> node, id |-> id, blk |-> x].blk = x
          BY SMT
        <5> QED
          BY <5>1, <5>2 DEF Requested
      <4> QED
        BY <4>1, <4>2
    <3> QED
      BY <1>7, <3>1 DEF SendRequest, consensusVars
  <2>4. \A y : /\ Queued(y) <=> Queued(y)'
               /\ Requested(y) => Requested(y)'
               /\ Added(y) <=> Added(y)'
               /\ Lost(y) <=> Lost(y)'
    BY <2>3, SameConsensus DEF Queued, Requested
  <2>5. KeepsPending(calls)
    BY <1>5, <2>3, <2>4 DEF KeepsPending
  <2>6. KeepsWait(calls)
    BY <1>4, <1>6, <2>3, <2>4 DEF KeepsWait
  <2>7. LookKept(calls)
    <3>1. IssuerInv' /\ \A y \in Blocks : Added(y) /\ blocked'[y] # <<>> => blocked[y] # <<>>
      BY <2>3 DEF StackInv, IssuerInv
    <3> QED
      BY <1>2, <1>3, <2>1, <2>2, <2>3, <2>5, <2>6, <3>1, LookStack
  <2>8. \A j \in 1..0 : calls[j].op # "chits" /\ (calls[j].op \in FromCalls => j = 0)
    BY SMT
  <2>9. /\ LoopIsLast'
        /\ \A k \in DOMAIN stack' : stack'[k].op = "chits" => k = 0 + 1 /\ Following(x, stack'[k].blk)
    <3>1. 0 \in Nat
      BY SMT
    <3> QED
      BY <1>1, <1>2, <2>1, <2>2, <2>8, <3>1, LoopMoves
  <2>10. ChitsInv'
    <3> SUFFICES ASSUME NEW k \in DOMAIN stack', stack'[k].op = "chits"
                 PROVE  ~(k > 1) /\ ReturnInv(k, stack[k].blk)'
      BY DEF ChitsInv
    <3>1. PICK b \in Blocks : b = stack'[k].blk /\ Following(x, b)
      BY <2>9 DEF Following
    <3>2. ~Added(x)
      BY <1>7, AddedFacts
    <3>3. Lost(b)' \/ (~Added(b)' /\ (b \in pending' \/ Requested(b)'))
      BY <2>3, <2>4, <3>1, <3>2 DEF Following
    <3>4. k = 1 /\ ~(k > 1)
      BY <2>9, SMT
    <3> QED
      BY <3>1, <3>3, <3>4 DEF ReturnInv
  <2> QED
    BY <2>7, <2>9, <2>10 DEF StackInv, LookKept
<1>8. ASSUME ~WasIssued(x), Issue(x, CallFrom("issueFromByID", node, Parent[x]))
      PROVE  StackInv'
  <2>1. x \in Blocks \ {Genesis} /\ Parent[x] \in Blocks
    BY <1>8, GenesisIssued, ParentFacts DEF WasIssued
  <2>2. PICK next \in Calls : next = CallFrom("issueFromByID", node, Parent[x])
    BY <1>3, <2>1, CallsType
  <2>3. next.op = "issueFromByID" /\ next.blk = Parent[x]
    BY <2>2, SMT DEF CallFrom
  <2>4. PICK calls \in IssueCalls(x, next) : LookKept(calls)
    BY <1>1, <1>2, <1>3, <1>8, <2>1, <2>2, <2>3, IssueStack
  <2>5. Returned(calls)
    BY <2>4 DEF LookKept
  <2>6. PICK p \in Blocks : p = Parent[x]
    BY <2>1
  <2>7. /\ UNCHANGED <<status, processing, lastAccepted, nonVerifiedCache>>
        /\ pending' = pending \cup {x} /\ UNCHANGED consensusVars
    BY <1>8 DEF Issue, consensusVars
  <2>8. \A y : (Added(y) <=> Added(y)') /\ (Lost(y) <=> Lost(y)')
    BY <2>7, SameConsensus
  <2>9. ~Added(x)
    BY <1>8, AddedFacts DEF WasIssued
  <2>10. \A b : Following(x, b) => (Lost(b)' \/ (~Added(b)' /\ b \in pending')) /\ p \in Ancestors[b]
    <3> SUFFICES ASSUME NEW b, Following(x, b)
                 PROVE  (Lost(b)' \/ (~Added(b)' /\ b \in pending')) /\ p \in Ancestors[b]
      OBVIOUS
    <3>1. Lost(b)' \/ (~Added(b)' /\ b \in pending')
      BY <2>7, <2>8, <2>9 DEF Following
    <3>2. p \in Ancestors[x]
      BY <2>1, <2>6, ParentFacts
    <3>3. x = b \/ Ancestors[x] \subseteq Ancestors[b]
      BY AncestorFacts DEF Following
    <3> QED
      BY <3>1, <3>2, <3>3
  <2>11. CASE calls = <<next>>
    <3>2. DOMAIN calls = 1..1 /\ calls[1] = next
      <4>1. 1..1 = {1}
        BY SMT
      <4> QED
        BY <2>11, <4>1, TupleFacts
    <3>3. \A j \in 1..1 : calls[j].op # "chits" /\ (calls[j].op \in FromCalls => j = 1)
      BY <1>3, <2>3, <3>2, SMT
    <3>4. /\ LoopIsLast' /\ stack'[1] = next
          /\ \A k \in DOMAIN stack' : stack'[k].op = "chits" => k = 1 + 1 /\ Following(x, stack'[k].blk)
      <4>1. 1 \in Nat /\ 1 \in 1..1
        BY SMT
      <4>2. /\ LoopIsLast' /\ \A j \in 1..1 : stack'[j] = calls[j]
            /\ \A k \in DOMAIN stack' : stack'[k].op = "chits" => k = 1 + 1 /\ Following(x, stack'[k].blk)
        BY <1>1, <1>2, <2>5, <3>2, <3>3, <4>1, LoopMoves
      <4> QED
        BY <3>2, <4>1, <4>2
    <3>5. ChitsInv'
      <4> SUFFICES ASSUME NEW k \in DOMAIN stack', stack'[k].op = "chits"
                   PROVE  k > 1 /\ stack'[k - 1].op \in FromCalls /\ LoopInv(k, stack[k].blk)'
        BY DEF ChitsInv
      <4>1. PICK b \in Blocks : b = stack'[k].blk /\ Following(x, b)
        BY <3>4 DEF Following
      <4>2. k = 2 /\ k > 1 /\ k - 1 = 1
        BY <3>4, SMT
      <4>3. stack'[k - 1] = next /\ stack'[k - 1].blk = p /\ stack'[k - 1].op \in FromCalls
        BY <1>3, <2>3, <2>6, <3>4, <4>2
      <4> QED
        BY <2>10, <4>1, <4>2, <4>3 DEF LoopInv
    <3> QED
      BY <2>4, <3>4, <3>5 DEF StackInv, LookKept
  <2>12. CASE Issued(p) /\ calls = <<Call("deliver", x), next>>
    <3>2. DOMAIN calls = 1..2 /\ calls[1] = Call("deliver", x) /\ calls[2] = next
      <4>1. 1..2 = {1, 2}
        BY SMT
      <4> QED
        BY <2>12, <4>1, TupleFacts
    <3>3. Call("deliver", x).op = "deliver" /\ Call("deliver", x).blk = x
      BY SMT DEF Call
    <3>4. \A j \in 1..2 : calls[j].op # "chits" /\ (calls[j].op \in FromCalls => j = 2)
      <4>1. 1..2 = {1, 2}
        BY SMT
      <4> QED
        BY <1>3, <2>3, <3>2, <3>3, <4>1
    <3>5. /\ LoopIsLast' /\ stack'[1] = Call("deliver", x) /\ stack'[2] = next
          /\ \A k \in DOMAIN stack' : stack'[k].op = "chits" => k = 2 + 1 /\ Following(x, stack'[k].blk)
      <4>1. 2 \in Nat /\ 1 \in 1..2 /\ 2 \in 1..2
        BY SMT
      <4>2. /\ LoopIsLast' /\ \A j \in 1..2 : stack'[j] = calls[j]
            /\ \A k \in DOMAIN stack' : stack'[k].op = "chits" => k = 2 + 1 /\ Following(x, stack'[k].blk)
        BY <1>1, <1>2, <2>5, <3>2, <3>4, <4>1, LoopMoves
      <4> QED
        BY <3>2, <4>1, <4>2
    <3>6. Added(p)' \/ Lost(p)
      BY <2>8, <2>12, AddedFacts DEF Gone
    <3>7. ChitsInv'
      <4> SUFFICES ASSUME NEW k \in DOMAIN stack', stack'[k].op = "chits"
                   PROVE  k > 1 /\ stack'[k - 1].op \in FromCalls /\ LoopInv(k, stack[k].blk)'
        BY DEF ChitsInv
      <4>1. PICK b \in Blocks : b = stack'[k].blk /\ Following(x, b)
        BY <3>5 DEF Following
      <4>2. k = 3 /\ k > 1 /\ k - 1 = 2
        BY <3>5, SMT
      <4>3. stack'[k - 1] = next /\ stack'[k - 1].blk = p /\ stack'[k - 1].op \in FromCalls
        BY <1>3, <2>3, <2>6, <3>5, <4>2
      <4>4. p \in Ancestors[b] /\ (Added(p)' \/ Lost(b)')
        BY <2>8, <2>10, <3>6, <4>1, LostBelow
      <4> QED
        BY <4>1, <4>2, <4>3, <4>4 DEF LoopInv
    <3> QED
      BY <2>4, <3>5, <3>7 DEF StackInv, LookKept
  <2> QED
    BY <2>4, <2>6, <2>11, <2>12 DEF IssueCalls
<1>9. ASSUME WasIssued(x), RemoveAny(x), added' = Issued(x),
             Return(AbandonIssued(x)),
             UNCHANGED <<consensusVars, pending, nonVerifieds, nonVerifiedCache, blocked>>
      PROVE  StackInv'
  <2>1. PICK calls \in {<<>>, <<Call("abandon", x)>>} : calls = AbandonIssued(x) /\ Return(calls)
    BY <1>9 DEF AbandonIssued
  <2>2. Call("abandon", x).op = "abandon" /\ Call("abandon", x) \in Calls
    BY CallIs, CallsType DEF BlockCalls
  <2>3. Returned(calls)
    <3>1. calls \in Seq(Calls)
      BY <2>2, SeqFacts
    <3> QED
      BY <1>1, <2>1, <3>1, Returns
  <2>4. Only(calls, {"abandon"})
    <3>1. Only(<<Call("abandon", x)>>, {"abandon"})
      BY <2>2, SMT DEF Only
    <3> QED
      BY <3>1, OnlyTuple
  <2>5. UNCHANGED <<status, processing, lastAccepted, pending, nonVerifiedCache, blocked>>
    BY <1>9 DEF consensusVars
  <2>6. \A y : /\ Queued(y) <=> Queued(y)'
               /\ Added(y) <=> Added(y)'
               /\ Lost(y) <=> Lost(y)'
               /\ y # x => (Requested(y) => Requested(y)')
    BY <1>9, <2>5, SameConsensus DEF Queued, Requested, RemoveAny
  <2>7. KeepsPending(calls)
    BY <1>5, <2>5, <2>6 DEF KeepsPending
  <2>8. KeepsWait(calls)
    <3>1. CASE Issued(x)
      <4>1. Range(calls) = {Call("abandon", x)} /\ "abandon" \in Releasing
        BY <2>1, <3>1, TupleFacts DEF AbandonIssued, Releasing
      <4> QED
        BY <1>4, <1>6, <2>5, <2>6, <4>1 DEF KeepsWait
    <3>2. CASE x \in pending
      BY <1>4, <1>6, <2>5, <2>6, <3>2 DEF KeepsWait
    <3> QED
      BY <1>9, <3>1, <3>2 DEF WasIssued
  <2>9. LookKept(calls)
    <3>1. IssuerInv' /\ \A y \in Blocks : Added(y) /\ blocked'[y] # <<>> => blocked[y] # <<>>
      BY <2>5 DEF StackInv, IssuerInv
    <3>2. Only(calls, {"deliver", "abandon"} \cup LookCalls)
      BY <2>4 DEF Only
    <3> QED
      BY <1>2, <1>3, <1>9, <2>3, <2>7, <2>8, <3>1, <3>2, LookStack
  <2>10. CASE Issued(x)
    <3>1. added'
      BY <1>9, <2>10
    <3>2. /\ LoopIsLast' /\ stack'[1] = Call("abandon", x)
          /\ \A k \in DOMAIN stack' : stack'[k].op = "chits" => k = 1 + 1
      <4>1. 1..1 = {1} /\ 1 \in Nat /\ 1 \in 1..1
        BY SMT
      <4>2. DOMAIN calls = 1..1 /\ calls[1] = Call("abandon", x)
        BY <2>1, <2>10, <4>1, TupleFacts DEF AbandonIssued
      <4>3. \A j \in 1..1 : calls[j].op # "chits" /\ (calls[j].op \in FromCalls => j = 1)
        BY <1>3, <2>4, <4>1, <4>2 DEF Only
      <4> QED
        BY <1>1, <2>3, <4>1, <4>2, <4>3, LoopMoves
    <3>3. ChitsInv'
      <4> SUFFICES ASSUME NEW k \in DOMAIN stack', stack'[k].op = "chits"
                   PROVE  stack'[k - 1].op \notin FromCalls /\ ReturnInv(k, stack[k].blk)'
        BY DEF ChitsInv
      <4>1. k - 1 = 1
        BY <3>2, SMT
      <4> QED
        BY <1>3, <2>2, <3>1, <3>2, <4>1 DEF ReturnInv
    <3> QED
      BY <2>9, <3>2, <3>3 DEF StackInv, LookKept
  <2>11. CASE ~Issued(x)
    <3>1. x \in pending /\ ~Added(x)
      BY <1>9, <2>11, AddedFacts DEF WasIssued
    <3>2. /\ LoopIsLast'
          /\ \A k \in DOMAIN stack' : stack'[k].op = "chits" => k = 0 + 1 /\ Following(x, stack'[k].blk)
      <4>1. 0 \in Nat /\ 1..0 = {}
        BY SMT
      <4>2. DOMAIN calls = 1..0
        BY <2>1, <2>11, <4>1, TupleFacts DEF AbandonIssued
      <4>3. \A j \in 1..0 : calls[j].op # "chits" /\ (calls[j].op \in FromCalls => j = 0)
        BY <4>1
      <4> QED
        BY <1>1, <1>2, <2>3, <4>1, <4>2, <4>3, LoopMoves
    <3>3. ChitsInv'
      <4> SUFFICES ASSUME NEW k \in DOMAIN stack', stack'[k].op = "chits"
                   PROVE  ~(k > 1) /\ ReturnInv(k, stack[k].blk)'
        BY DEF ChitsInv
      <4>1. PICK b \in Blocks : b = stack'[k].blk /\ Following(x, b)
        BY <3>2 DEF Following
      <4>2. Lost(b)' \/ (~Added(b)' /\ b \in pending')
        BY <2>5, <2>6, <3>1, <4>1 DEF Following
      <4>3. k = 1 /\ ~(k > 1)
        BY <3>2, SMT
      <4> QED
        BY <4>1, <4>2, <4>3 DEF ReturnInv
    <3> QED
      BY <2>9, <3>2, <3>3 DEF StackInv, LookKept
  <2> QED
    BY <2>10, <2>11
<1> QED
  BY <1>2, <1>7, <1>8, <1>9 DEF IssueFrom

LEMMA ChitsStack ==
    ASSUME StateType, TreeInv, StackInv, Chits
    PROVE  StackInv'
<1>1. /\ stack # <<>> /\ stack \in Seq(Calls) /\ stack[1].op = "chits" /\ stack[1].blk \in Blocks
      /\ Voter(stack[1].node, stack[1].id, stack[1].blk) \in Voters
      /\ Running("chits")
  BY RunningType, CallFields, CallsType DEF Chits
<1>2. PICK b \in Blocks, v \in Voters :
         b = stack[1].blk /\ v = Voter(stack[1].node, stack[1].id, stack[1].blk)
  BY <1>1
<1>3. v.op = "voter" /\ "voter" # "issuer" /\ v \in Calls
  BY <1>2, CallsType, SMT DEF Voter
<1>4. /\ UNCHANGED <<status, processing, lastAccepted, pending, blkReqs, nonVerifiedCache, added>>
      /\ UNCHANGED consensusVars
  BY DEF Chits, consensusVars
<1>5. PICK calls \in {<<>>, <<v>>} :
         /\ Returned(calls)
         /\ \/ UNCHANGED blocked
            \/ ~added /\ blocked' = [blocked EXCEPT ![b] = Append(@, v)]
  <2>1. <<>> \in Seq(Calls) /\ <<v>> \in Seq(Calls)
    BY <1>3, SeqFacts
  <2>2. PICK calls \in {<<>>, <<v>>} :
           /\ Return(calls)
           /\ \/ UNCHANGED blocked
              \/ ~added /\ blocked' = [blocked EXCEPT ![b] = Append(@, v)]
    BY <1>2 DEF Chits
  <2> QED
    BY <1>1, <2>1, <2>2, Returns
<1>6. Only(calls, {"voter"})
  <2>1. Only(<<v>>, {"voter"})
    BY <1>3, SMT DEF Only
  <2> QED
    BY <2>1, OnlyTuple
<1>7. PICK l \in Nat \ {0}, n \in Nat : Shifted(calls, n, l)
  BY <1>5 DEF Returned
<1>8. /\ DOMAIN stack = 1..l /\ DOMAIN stack' = 1..(n + l - 1) /\ DOMAIN calls = 1..n /\ l = Len(stack)
      /\ \A j \in 1..n : stack'[j] = calls[j]
  BY <1>7 DEF Shifted
<1>9. l = 2
  <2>1. 1 \in 1..l
    BY SMT
  <2>2. 1 = l - 1
    BY <1>1, <1>8, <2>1 DEF StackInv, LoopIsLast
  <2> QED
    BY <2>2, SMT
\* Nothing but buildBlocks is left of the calls below.
<1>10. stack[2].op \notin FromCalls \cup {"chits"}
  <2>1. 2 \in 1..l /\ 2 # l - 1 /\ 2 # l - 2
    BY <1>9, SMT
  <2> QED
    BY <1>8, <2>1 DEF StackInv, LoopIsLast
<1>11. \A k \in DOMAIN stack' : stack'[k].op \notin FromCalls \cup {"chits"}
  <2> SUFFICES ASSUME NEW k \in DOMAIN stack'
               PROVE  stack'[k].op \notin FromCalls \cup {"chits"}
    OBVIOUS
  <2>1. CASE k \in 1..n
    <3>1. "voter" \notin FromCalls \cup {"chits"}
      BY SMT DEF FromCalls
    <3> QED
      BY <1>6, <1>8, <2>1, <3>1 DEF Only
  <2>2. CASE k \notin 1..n
    <3>1. k \in 1..(n + l - 1)
      BY <1>8
    <3>2. k = 2 - 1 + n /\ 2 \in 2..l
      BY <1>9, <2>2, <3>1, SMT
    <3>3. stack'[2 - 1 + n] = stack[2]
      BY <1>7, <3>2 DEF Shifted
    <3> QED
      BY <1>10, <3>2, <3>3
  <2> QED
    BY <2>1, <2>2
<1>12. LoopIsLast' /\ ChitsInv'
  BY <1>11 DEF LoopIsLast, ChitsInv
<1>13. ~added => ~Added(b) /\ (b \in pending \/ Requested(b) \/ Lost(b))
  <2>1. 1 \in 1..l /\ ~(1 > 1)
    BY SMT
  <2>2. ReturnInv(1, stack[1].blk)
    BY <1>1, <1>8, <2>1 DEF StackInv, ChitsInv
  <2> QED
    BY <1>2, <2>2 DEF ReturnInv, Lost
<1>14. /\ Advances
       /\ \A x : (Added(x) <=> Added(x)') /\ (Lost(x) <=> Lost(x)') /\ (Requested(x) <=> Requested(x)')
  BY <1>4, SameConsensus DEF Requested
<1>15. /\ "chits" \notin Releasing /\ "chits" \notin {"deliver", "abandonIssuer", "addedOption", "fulfill"}
       /\ "chits" \notin QuietCalls /\ "chits" \notin {"issueFromByID", "issueWithAncestorsByID"}
       /\ "addedOption" \notin {"voter"} /\ "voter" # "removeAny"
  BY SMT DEF Releasing, QuietCalls
<1>16. \A x : \A o \in Releasing : stack[1] # Call(o, x)
  BY <1>1, <1>15, OtherCall
<1>17. \A x : stack[1] \notin TakingOut(x) /\ stack[1] \notin {Call("fulfill", x), Call("addedOption", x)}
  BY <1>1, <1>15, OtherCall DEF TakingOut
<1>18. \A x : ~Looking(x)
  BY <1>1, <1>15 DEF Looking
<1>19. RemoveInv'
  <2>1. KeepsReleased(calls)
    BY <1>1, <1>15 DEF KeepsReleased
  <2>2. \A j \in DOMAIN calls : calls[j].op # "removeAny"
    BY <1>6, <1>15 DEF Only
  <2> QED
    BY <1>5, <1>14, <2>1, <2>2, RemoveKept DEF StackInv
<1>20. \A x : Call("addedOption", x) \notin Range(calls)
  BY <1>6, <1>15, OnlyCalls
<1>21. CASE UNCHANGED blocked
  <2>1. IssuerInv' /\ \A x : Queued(x) <=> Queued(x)'
    BY <1>21 DEF StackInv, IssuerInv, Queued
  <2>2. KeepsFulfill(calls)
    BY <1>14, <1>17, <1>20, <1>21 DEF KeepsFulfill
  <2>3. KeepsPending(calls)
    BY <1>4, <1>14, <1>17, <2>1 DEF KeepsPending
  <2>4. KeepsWait(calls)
    BY <1>4, <1>14, <1>16, <1>18, <1>21 DEF KeepsWait
  <2> QED
    BY <1>5, <1>12, <1>14, <1>19, <2>1, <2>2, <2>3, <2>4, FulfillKept, PendingKept, WaitKept DEF StackInv
<1>22. CASE ~added /\ blocked' = [blocked EXCEPT ![b] = Append(@, v)]
  <2>1. /\ blocked'[b] = Append(blocked[b], v)
        /\ \A x \in Blocks : x # b => blocked'[x] = blocked[x]
    BY <1>22 DEF StateType
  <2>2. PICK m \in Nat : /\ DOMAIN blocked[b] = 1..m /\ DOMAIN blocked'[b] = 1..(m + 1)
                         /\ \A i \in 1..m : blocked'[b][i] = blocked[b][i]
                         /\ blocked'[b][m + 1] = v
    <3>1. blocked[b] \in Seq(Issuers \cup Voters)
      BY DEF StateType
    <3>2. PICK m \in Nat : m = Len(blocked[b])
      BY <3>1, SMT
    <3>3. /\ DOMAIN Append(blocked[b], v) = 1..(m + 1) /\ DOMAIN blocked[b] = 1..m
          /\ \A i \in 1..m : Append(blocked[b], v)[i] = blocked[b][i]
          /\ Append(blocked[b], v)[m + 1] = v
      BY <3>1, <3>2, SMT
    <3> QED
      BY <2>1, <3>3
  <2>3. 1..m \subseteq 1..(m + 1) /\ \A i \in 1..(m + 1) : i \in 1..m \/ i = m + 1
    BY SMT
  <2>4. IssuerInv'
    <3> SUFFICES ASSUME NEW x \in Blocks, NEW i \in DOMAIN blocked'[x], blocked'[x][i].op = "issuer"
                 PROVE  Parent[blocked'[x][i].blk] = x
      BY DEF IssuerInv
    <3>1. i \in DOMAIN blocked[x] /\ blocked'[x][i] = blocked[x][i]
      <4>1. CASE x # b
        BY <2>1, <4>1
      <4>2. CASE x = b
        BY <1>3, <2>2, <2>3, <4>2
      <4> QED
        BY <4>1, <4>2
    <3>2. Parent[blocked[x][i].blk] = x
      BY <3>1 DEF StackInv, IssuerInv
    <3> QED
      BY <3>1, <3>2
  <2>5. \A y \in Blocks \ {Genesis} : Queued(y) => Queued(y)'
    <3> SUFFICES ASSUME NEW y \in Blocks \ {Genesis}, Queued(y)
                 PROVE  Queued(y)'
      OBVIOUS
    <3>1. Parent[y] \in Blocks
      BY ParentFacts
    <3>2. CASE Parent[y] = b
      BY <2>2, <2>3, <3>2 DEF Queued
    <3>3. CASE Parent[y] # b
      BY <2>1, <3>1, <3>3 DEF Queued
    <3> QED
      BY <3>2, <3>3
  <2>6. KeepsFulfill(calls)
    BY <1>13, <1>14, <1>17, <1>20, <1>22, <2>1 DEF KeepsFulfill
  <2>7. KeepsPending(calls)
    <3>1. pending \subseteq Blocks \ {Genesis}
      BY DEF StateType
    <3> QED
      BY <1>4, <1>14, <1>17, <2>5, <3>1 DEF KeepsPending
  <2>8. KeepsWait(calls)
    BY <1>4, <1>13, <1>14, <1>16, <1>18, <1>22, <2>1 DEF KeepsWait
  <2> QED
    BY <1>5, <1>12, <1>14, <1>19, <2>4, <2>6, <2>7, <2>8, FulfillKept, PendingKept, WaitKept DEF StackInv
<1> QED
  BY <1>5, <1>21, <1>22

LEMMA IdleStepsStack ==
    ASSUME StateType, StackInv, Vote \/ Settle \/ Repoll \/ Query \/ BuildBlocks
    PROVE  StackInv'
<1>1. CASE Vote
  <2>1. PICK calls \in Seq(Calls) : Return(calls) /\ \A i \in DOMAIN calls : calls[i].op \in {"record", "settle"}
    BY <1>1, VoteType
  <2>2. Only(calls, VoteCalls)
    BY <2>1 DEF Only, VoteCalls
  <2>3. stack # <<>> /\ stack \in Seq(Calls) /\ stack[1].op = "voter"
    BY <1>1, RunningType DEF Vote
  <2>4. UNCHANGED <<consensusVars, issueVars, added>>
    BY <1>1 DEF Vote
  <2>5. Returned(calls)
    BY <2>1, <2>3, Returns
  <2> QED
    BY <2>2, <2>3, <2>4, <2>5, IdleStack
<1>2. CASE Settle
  <2>1. PICK calls \in {<<>>, <<Do("repoll")>>} : Return(calls)
    BY <1>2 DEF Settle
  <2>2. Only(calls, VoteCalls) /\ calls \in Seq(Calls)
    <3>1. Only(<<Do("repoll")>>, VoteCalls)
      BY SMT DEF Only, VoteCalls, Do
    <3>2. Only(<<>>, VoteCalls)
      BY OnlyTuple
    <3>3. <<>> \in Seq(Calls) /\ <<Do("repoll")>> \in Seq(Calls)
      BY CallsType, SeqFacts
    <3> QED
      BY <3>1, <3>2, <3>3
  <2>3. stack # <<>> /\ stack \in Seq(Calls) /\ stack[1].op = "settle"
    BY <1>2, RunningType DEF Settle
  <2>4. UNCHANGED <<consensusVars, issueVars, added>>
    BY <1>2 DEF Settle
  <2>5. Returned(calls)
    BY <2>1, <2>2, <2>3, Returns
  <2> QED
    BY <2>2, <2>3, <2>4, <2>5, IdleStack
<1>3. CASE Repoll
  <2>1. PICK calls \in Seq(Calls) : Return(calls) /\ \A i \in DOMAIN calls : calls[i].op = "query"
    BY <1>3, RepollType
  <2>2. Only(calls, VoteCalls)
    BY <2>1 DEF Only, VoteCalls
  <2>3. stack # <<>> /\ stack \in Seq(Calls) /\ stack[1].op = "repoll"
    BY <1>3, RunningType DEF Repoll
  <2>4. UNCHANGED <<consensusVars, issueVars, added>>
    BY <1>3 DEF Repoll
  <2>5. Returned(calls)
    BY <2>1, <2>3, Returns
  <2> QED
    BY <2>2, <2>3, <2>4, <2>5, IdleStack
<1>4. CASE Query
  <2>1. stack # <<>> /\ stack \in Seq(Calls) /\ stack[1].op = "query"
    BY <1>4, RunningType DEF Query
  <2>2. UNCHANGED <<consensusVars, issueVars, added>> /\ Return(<<>>)
    BY <1>4 DEF Query
  <2>3. Returned(<<>>)
    BY <2>1, <2>2, SeqFacts, Returns
  <2>4. Only(<<>>, VoteCalls)
    BY OnlyTuple
  <2> QED
    BY <2>1, <2>2, <2>3, <2>4, IdleStack
<1>5. CASE BuildBlocks
  <2>1. stack # <<>> /\ stack \in Seq(Calls) /\ stack[1].op = "buildBlocks"
    BY <1>5, RunningType DEF BuildBlocks
  <2>2. UNCHANGED <<consensusVars, issueVars, added>>
    BY <1>5 DEF BuildBlocks
  <2>3. CASE Return(<<>>)
    <3>1. Returned(<<>>)
      BY <2>1, <2>3, SeqFacts, Returns
    <3>2. Only(<<>>, VoteCalls)
      BY OnlyTuple
    <3> QED
      BY <2>1, <2>2, <3>1, <3>2, IdleStack
  <2>4. ASSUME NEW b \in Blocks, Return(<<Call("issueWithAncestors", b), Do("buildBlocks")>>)
        PROVE  StackInv'
    <3>1. <<Call("issueWithAncestors", b), Do("buildBlocks")>> \in Seq(Calls)
      BY CallsType, SeqFacts DEF BlockCalls
    <3>2. Returned(<<Call("issueWithAncestors", b), Do("buildBlocks")>>)
      BY <2>1, <2>4, <3>1, Returns
    <3>3. Call("issueWithAncestors", b).op = "issueWithAncestors" /\ Do("buildBlocks").op = "buildBlocks"
      BY SMT DEF Call, Do
    <3>4. Only(<<Call("issueWithAncestors", b), Do("buildBlocks")>>, {"issueWithAncestors", "buildBlocks"})
      BY <3>3, OnlyTuple
    <3> QED
      BY <2>1, <2>2, <3>2, <3>4, IdleStack
  <2> QED
    BY <1>5, <2>3, <2>4 DEF BuildBlocks
<1> QED
  BY <1>1, <1>2, <1>3, <1>4, <1>5

-----------------------------------------------------------------------------
(* Handlers *)

\* The stack that a handler starts with.
HandlerCalls == {"abandon", "issueFrom", "issueFromByID", "chits", "voter"}
Begun(calls, n) ==
    /\ Len(stack') = n + 1 /\ DOMAIN stack' = 1..(n + 1) /\ DOMAIN calls = 1..n
    /\ \A i \in 1..n : stack'[i] = calls[i]
    /\ stack'[n + 1].op = "buildBlocks"

LEMMA Begins ==
    ASSUME NEW calls \in Seq(Calls), Handle(calls)
    PROVE  \E n \in Nat : Begun(calls, n)
<1>1. PICK n \in Nat : n = Len(calls)
  BY SMT
<1>2. PICK c : c = Do("buildBlocks") /\ c.op = "buildBlocks" /\ c \in Calls
  <2>1. Do("buildBlocks").op = "buildBlocks"
    BY SMT DEF Do
  <2> QED
    BY <2>1, CallsType
<1>3. /\ DOMAIN (calls \o <<c>>) = 1..(n + 1) /\ Len(calls \o <<c>>) = n + 1
      /\ \A i \in 1..n : (calls \o <<c>>)[i] = calls[i]
      /\ (calls \o <<c>>)[n + 1] = c /\ DOMAIN calls = 1..n
  BY <1>1, <1>2, SMT
<1>4. stack' = calls \o <<c>>
  BY <1>2 DEF Handle
<1> QED
  BY <1>2, <1>3, <1>4 DEF Begun

LEMMA HandleStack ==
    ASSUME StateType, StackInv, NEW calls \in Seq(Calls), Handle(calls), Only(calls, HandlerCalls),
           LoopIsLast', ChitsInv',
           \A b \in Blocks : Requested(b) => Requested(b)' \/ Call("abandon", b) \in Range(calls)
    PROVE  StackInv'
<1>1. UNCHANGED <<consensusVars, pending, blocked>> /\ stack = <<>>
  BY DEF Handle
<1>2. \A x : (Added(x) <=> Added(x)') /\ (Lost(x) <=> Lost(x)') /\ (Queued(x) <=> Queued(x)')
  BY <1>1, SameConsensus DEF Queued
<1>3. \A op, x : ~ToCome(op, x)
  BY <1>1, TupleFacts DEF ToCome
<1>4. PICK n \in Nat : Begun(calls, n)
  BY Begins
<1>5. \A i \in DOMAIN stack' : stack'[i].op \in HandlerCalls \cup {"buildBlocks"}
  <2>1. \A i \in 1..(n + 1) : i \in 1..n \/ i = n + 1
    BY SMT
  <2> QED
    BY <1>4, <2>1 DEF Begun, Only
<1>6. IssuerInv'
  BY <1>1 DEF StackInv, IssuerInv
<1>7. FulfillInv'
  <2>1. \A b : ~ToCome("addedOption", b)'
    <3>1. "addedOption" \notin HandlerCalls \cup {"buildBlocks"}
      BY SMT DEF HandlerCalls
    <3>2. \A b : \A i \in DOMAIN stack' : stack'[i] # Call("addedOption", b)
      BY <1>5, <3>1, CallIs
    <3> QED
      BY <3>2 DEF ToCome, Range
  <2> QED
    BY <1>1, <1>2, <1>3, <2>1 DEF StackInv, FulfillInv
<1>8. PendingInv'
  BY <1>1, <1>2, <1>3 DEF StackInv, PendingInv
<1>9. WaitInv'
  <2> SUFFICES ASSUME NEW b \in Blocks, blocked'[b] # <<>>
               PROVE  b \in pending' \/ Requested(b)' \/ Lost(b)' \/ ToCome("abandon", b)'
    BY DEF WaitInv
  <2>1. b \in pending \/ Requested(b) \/ Lost(b)
    BY <1>1, <1>3 DEF StackInv, WaitInv, Looking
  <2>2. Call("abandon", b) \in Range(calls) => ToCome("abandon", b)'
    <3>1. 1..n \subseteq 1..(n + 1)
      BY SMT
    <3> QED
      BY <1>4, <3>1 DEF Begun, ToCome, Range
  <2> QED
    BY <1>1, <1>2, <2>1, <2>2
<1>10. RemoveInv'
  <2>1. "removeAny" \notin HandlerCalls \cup {"buildBlocks"}
    BY SMT DEF HandlerCalls
  <2> QED
    BY <1>5, <2>1 DEF RemoveInv
<1> QED
  BY <1>6, <1>7, <1>8, <1>9, <1>10 DEF StackInv

\* A handler that calls neither issueFrom nor the rest of Chits.
LEMMA HandleQuietly ==
    ASSUME NEW calls \in Seq(Calls), Handle(calls), Only(calls, {"abandon", "voter"})
    PROVE  LoopIsLast' /\ ChitsInv' /\ Only(calls, HandlerCalls)
<1>1. PICK n \in Nat : Begun(calls, n)
  BY Begins
<1>2. \A i \in 1..(n + 1) : i \in 1..n \/ i = n + 1
  BY SMT
<1>3. /\ \A op \in {"abandon", "voter", "buildBlocks"} : op \notin FromCalls \cup {"chits"}
      /\ {"abandon", "voter"} \subseteq HandlerCalls
  BY SMT DEF FromCalls, HandlerCalls
<1>4. \A i \in DOMAIN stack' : stack'[i].op \notin FromCalls \cup {"chits"}
  BY <1>1, <1>2, <1>3 DEF Begun, Only
<1> QED
  BY <1>3, <1>4 DEF LoopIsLast, ChitsInv, Only

LEMMA HandleIssue ==
    ASSUME NEW c \in Calls, c.op \in FromCalls, Handle(<<c>>)
    PROVE  LoopIsLast' /\ ChitsInv' /\ Only(<<c>>, HandlerCalls)
<1>1. PICK n \in Nat : Begun(<<c>>, n)
  BY SeqFacts, Begins
<1>2. DOMAIN <<c>> = {1} /\ <<c>>[1] = c /\ 1..n = {1}
  BY <1>1, TupleFacts DEF Begun
<1>3. n = 1
  BY <1>2, SMT
<1>4. Len(stack') = 2 /\ DOMAIN stack' = {1, 2} /\ stack'[1] = c /\ stack'[2].op = "buildBlocks"
  <2>1. 1 + 1 = 2 /\ 1..2 = {1, 2}
    BY SMT
  <2>2. Len(stack') = 1 + 1 /\ DOMAIN stack' = 1..(1 + 1) /\ stack'[1] = c /\ stack'[1 + 1].op = "buildBlocks"
    BY <1>1, <1>2, <1>3 DEF Begun
  <2> QED
    BY <2>1, <2>2
<1>5. /\ FromCalls \subseteq HandlerCalls /\ "chits" \notin FromCalls
      /\ "buildBlocks" \notin FromCalls \cup {"chits"} /\ 1 = 2 - 1
  BY SMT DEF FromCalls, HandlerCalls
<1>6. LoopIsLast'
  BY <1>4, <1>5 DEF LoopIsLast
<1>7. ChitsInv'
  BY <1>4, <1>5 DEF ChitsInv
<1> QED
  BY <1>2, <1>5, <1>6, <1>7 DEF Only

LEMMA HandleChits ==
    ASSUME NEW c \in Calls, c.op \in FromCalls, NEW d \in Calls, d.op = "chits", c.blk = d.blk,
           Handle(<<c, d>>)
    PROVE  LoopIsLast' /\ ChitsInv' /\ Only(<<c, d>>, HandlerCalls)
<1>1. PICK n \in Nat : Begun(<<c, d>>, n)
  BY SeqFacts, Begins
<1>2. DOMAIN <<c, d>> = {1, 2} /\ <<c, d>>[1] = c /\ <<c, d>>[2] = d /\ 1..n = {1, 2}
  BY <1>1, TupleFacts DEF Begun
<1>3. n = 2
  BY <1>2, SMT
<1>4. /\ Len(stack') = 3 /\ DOMAIN stack' = {1, 2, 3} /\ stack'[1] = c /\ stack'[2] = d
      /\ stack'[3].op = "buildBlocks"
  <2>1. 2 + 1 = 3 /\ 1..3 = {1, 2, 3}
    BY SMT
  <2>2. Len(stack') = 2 + 1 /\ DOMAIN stack' = 1..(2 + 1) /\ stack'[2 + 1].op = "buildBlocks"
    BY <1>1, <1>3 DEF Begun
  <2>3. stack'[1] = c /\ stack'[2] = d
    BY <1>1, <1>2 DEF Begun
  <2> QED
    BY <2>1, <2>2, <2>3
<1>5. /\ FromCalls \subseteq HandlerCalls /\ "chits" \notin FromCalls /\ "chits" \in HandlerCalls
      /\ "buildBlocks" \notin FromCalls \cup {"chits"}
      /\ 2 = 3 - 1 /\ 1 = 3 - 2 /\ 1 + 1 = 2 /\ 2 - 1 = 1 /\ 2 > 1
  BY SMT DEF FromCalls, HandlerCalls
<1>6. LoopIsLast'
  <2>1. /\ stack'[1].op \in FromCalls /\ stack'[1].op # "chits" /\ 1 = Len(stack') - 2
        /\ stack'[1 + 1].op = "chits"
    BY <1>4, <1>5
  <2>2. stack'[2].op \notin FromCalls /\ 2 = Len(stack') - 1
    BY <1>4, <1>5
  <2>3. stack'[3].op \notin FromCalls \cup {"chits"}
    BY <1>4, <1>5
  <2> QED
    BY <1>4, <2>1, <2>2, <2>3 DEF LoopIsLast
<1>7. ChitsInv'
  <2> SUFFICES ASSUME NEW k \in DOMAIN stack', stack'[k].op = "chits"
               PROVE  k > 1 /\ stack'[k - 1].op \in FromCalls /\ LoopInv(k, stack[k].blk)'
    BY DEF ChitsInv
  <2>1. k = 2
    BY <1>4, <1>5
  <2>2. k > 1 /\ k - 1 = 1
    BY <1>5, <2>1
  <2>3. stack'[k - 1] = c /\ stack'[k] = d
    BY <1>4, <2>1, <2>2
  <2>4. PICK x : x = stack'[k].blk /\ x = stack'[k - 1].blk
    BY <2>3
  <2> QED
    BY <2>1, <2>2, <2>3, <2>4 DEF LoopInv
<1>8. Only(<<c, d>>, HandlerCalls)
  BY <1>5, OnlyTuple
<1> QED
  BY <1>6, <1>7, <1>8

LEMMA SameStack ==
    ASSUME StackInv, UNCHANGED <<consensusVars, issueVars, stack, added>>
    PROVE  StackInv'
<1>1. UNCHANGED <<pending, blkReqs, blocked, stack, added>>
  BY DEF issueVars
<1>2. \A x : /\ Added(x) <=> Added(x)'
             /\ Lost(x) <=> Lost(x)'
             /\ Gone(x) <=> Gone(x)'
             /\ Queued(x) <=> Queued(x)'
             /\ Requested(x) <=> Requested(x)'
  BY <1>1, SameConsensus DEF Queued, Requested
<1>3. IssuerInv' /\ LoopIsLast'
  BY <1>1 DEF StackInv, IssuerInv, LoopIsLast
<1>4. ChitsInv'
  <2>1. \A k, b : LoopInv(k, b) => LoopInv(k, b)'
    BY <1>1, <1>2 DEF LoopInv
  <2>2. \A k, b : ReturnInv(k, b) => ReturnInv(k, b)'
    <3>1. added => added'
      BY <1>1, SMT
    <3> QED
      BY <1>1, <1>2, <3>1 DEF ReturnInv
  <2> QED
    BY <1>1, <2>1, <2>2 DEF StackInv, ChitsInv
<1>5. FulfillInv' /\ PendingInv'
  BY <1>1, <1>2 DEF StackInv, FulfillInv, PendingInv, ToCome
<1>6. WaitInv'
  BY <1>1, <1>2 DEF StackInv, WaitInv, ToCome, Looking
<1>7. RemoveInv'
  BY <1>1, <1>2 DEF StackInv, RemoveInv
<1> QED
  BY <1>3, <1>4, <1>5, <1>6, <1>7 DEF StackInv

LEMMA FailGetStack ==
    ASSUME StateType, StackInv, NEW r \in blkReqs, FailGet(r)
    PROVE  StackInv'
<1>1. r.blk \in Blocks
  BY DEF StateType
<1>2. PICK b \in Blocks : b = r.blk
  BY <1>1
<1>3. PICK c \in Calls : c = Call("abandon", b)
  BY CallsType DEF BlockCalls
<1>4. <<c>> \in Seq(Calls) /\ Handle(<<c>>) /\ Range(<<c>>) = {c}
  BY <1>2, <1>3, SeqFacts, TupleFacts DEF FailGet
<1>5. Only(<<c>>, {"abandon", "voter"})
  <2>1. c.op = "abandon"
    BY <1>3, CallOf
  <2> QED
    BY <2>1, SMT DEF Only
<1>6. \A x \in Blocks : Requested(x) => Requested(x)' \/ Call("abandon", x) \in Range(<<c>>)
  <2>1. blkReqs' = blkReqs \ {r}
    BY DEF FailGet
  <2> QED
    BY <1>2, <1>3, <1>4, <2>1 DEF Requested
<1> QED
  BY <1>4, <1>5, <1>6, HandleQuietly, HandleStack

LEMMA AnswerGetStack ==
    ASSUME StateType, StackInv, NEW m \in gets, AnswerGet(m)
    PROVE  StackInv'
<1>1. CASE \E r \in Expected(m) : FailGet(r)
  BY <1>1, FailGetStack DEF Expected
<1>2. CASE UNCHANGED <<consensusVars, issueVars, polls, stack>> /\ UNCHANGED added
  BY <1>2, SameStack
<1>3. ASSUME NEW b \in Blocks, Handle(<<CallFrom("issueFrom", m.node, b)>>), UNCHANGED blkReqs
      PROVE  StackInv'
  <2>1. PICK c \in Calls : c = CallFrom("issueFrom", m.node, b)
    BY CallsType DEF StateType, FromCalls
  <2>2. c.op \in FromCalls
    BY <2>1, SMT DEF CallFrom, FromCalls
  <2>3. <<c>> \in Seq(Calls) /\ Handle(<<c>>)
    BY <1>3, <2>1, SeqFacts
  <2>4. \A x \in Blocks : Requested(x) => Requested(x)'
    BY <1>3 DEF Requested
  <2> QED
    BY <2>2, <2>3, <2>4, HandleIssue, HandleStack
<1> QED
  BY <1>1, <1>2, <1>3 DEF AnswerGet, GetFailed, Put

LEMMA HandlersStack ==
    ASSUME StateType, StackInv, PushQuery \/ PullQuery \/ Notify \/ \E m \in queries : AnswerQuery(m)
    PROVE  StackInv'
<1>1. UNCHANGED blkReqs
  BY DEF PushQuery, PullQuery, Notify, AnswerQuery
<1>2. \A x \in Blocks : Requested(x) => Requested(x)'
  BY <1>1 DEF Requested
<1>3. ASSUME NEW op \in FromCalls, NEW node \in Nodes, NEW b \in Blocks, Handle(<<CallFrom(op, node, b)>>)
      PROVE  StackInv'
  <2>1. PICK c \in Calls : c = CallFrom(op, node, b)
    BY CallsType
  <2>2. c.op \in FromCalls
    BY <2>1, SMT DEF CallFrom
  <2>3. <<c>> \in Seq(Calls) /\ Handle(<<c>>)
    BY <1>3, <2>1, SeqFacts
  <2> QED
    BY <1>2, <2>2, <2>3, HandleIssue, HandleStack
<1>4. ASSUME NEW m \in queries, NEW b \in Blocks, ChitsFor(m, b)
      PROVE  StackInv'
  <2>1. m.node \in Nodes /\ m.id \in 1..MaxPolls
    BY DEF StateType
  <2>2. PICK c \in Calls : c = CallFrom("issueFromByID", m.node, b)
    BY <2>1, CallsType DEF FromCalls
  <2>3. PICK d \in Calls : d = [op |-> "chits", node |-> m.node, id |-> m.id, blk |-> b]
    BY <2>1, CallsType
  <2>4. c.op \in FromCalls /\ d.op = "chits" /\ c.blk = d.blk
    BY <2>2, <2>3, SMT DEF CallFrom, FromCalls
  <2>5. <<c, d>> \in Seq(Calls) /\ Handle(<<c, d>>)
    BY <1>4, <2>2, <2>3, SeqFacts DEF ChitsFor
  <2> QED
    BY <1>2, <2>4, <2>5, HandleChits, HandleStack
<1>5. ASSUME NEW m \in queries, Handle(<<Voter(m.node, m.id, None)>>)
      PROVE  StackInv'
  <2>1. m.node \in Nodes /\ m.id \in 1..MaxPolls
    BY DEF StateType
  <2>2. PICK v \in Calls : v = Voter(m.node, m.id, None)
    BY <2>1, CallsType
  <2>3. <<v>> \in Seq(Calls) /\ Handle(<<v>>)
    BY <1>5, <2>2, SeqFacts
  <2>4. Only(<<v>>, {"abandon", "voter"})
    BY <2>2, SMT DEF Only, Voter
  <2> QED
    BY <1>2, <2>3, <2>4, HandleQuietly, HandleStack
<1>6. CASE Handle(<<>>)
  <2>1. <<>> \in Seq(Calls) /\ Only(<<>>, {"abandon", "voter"})
    BY SeqFacts, OnlyTuple
  <2> QED
    BY <1>2, <1>6, <2>1, HandleQuietly, HandleStack
<1>7. "issueFrom" \in FromCalls /\ "issueFromByID" \in FromCalls
  BY DEF FromCalls
<1> QED
  BY <1>3, <1>4, <1>5, <1>6, <1>7 DEF PushQuery, PullQuery, Notify, AnswerQuery

LEMMA NextStack ==
    ASSUME StateType, TreeInv, VoteInv, StackInv, Next
    PROVE  StackInv'
<1>1. CASE IssueFrom
  BY <1>1, IssueFromStack
<1>2. CASE IssueWithAncestors
  BY <1>2, IssueWithAncestorsStack
<1>3. CASE Deliver
  BY <1>3, DeliverStack
<1>4. CASE Option
  BY <1>4, OptionStack
<1>5. CASE RemoveRequest
  BY <1>5, RemoveRequestStack
<1>6. CASE Fulfill
  BY <1>6, ReleaseStack DEF Fulfill
<1>7. CASE Abandon
  BY <1>7, ReleaseStack DEF Abandon
<1>8. CASE AbandonIssuer
  BY <1>8, AbandonIssuerStack
<1>9. CASE Chits
  BY <1>9, ChitsStack
<1>10. CASE Record
  BY <1>10, RecordStack
<1>11. CASE Vote \/ Settle \/ Repoll \/ Query \/ BuildBlocks
  BY <1>11, IdleStepsStack
<1>12. CASE \E m \in gets : AnswerGet(m)
  BY <1>12, AnswerGetStack
<1>13. CASE PushQuery \/ PullQuery \/ Notify \/ \E m \in queries : AnswerQuery(m)
  BY <1>13, HandlersStack
<1>14. CASE \E b \in Blocks : Forget(b)
  BY <1>14, ForgetStack
<1> QED
  BY <1>1, <1>2, <1>3, <1>4, <1>5, <1>6, <1>7, <1>8, <1>9, <1>10, <1>11, <1>12, <1>13, <1>14 DEF Next, Step

LEMMA InitStack ==
    ASSUME Init
    PROVE  StackInv
<1>1. \A i \in DOMAIN stack : stack[i].op = "deliver"
  <2>1. stack = [i \in 1..Len(Options[Genesis]) |-> [op |-> "deliver", blk |-> Options[Genesis][i]]]
    BY DEF Init
  <2>2. \A b : [op |-> "deliver", blk |-> b].op = "deliver"
    BY SMT
  <2> QED
    BY <2>1, <2>2
<1>2. /\ pending = {} /\ \A b \in Blocks : blocked[b] = <<>>
      /\ DOMAIN <<>> = {}
  BY TupleFacts DEF Init
<1>3. "deliver" \notin FromCalls \cup {"chits"} /\ "deliver" # "addedOption" /\ "deliver" # "removeAny"
  BY SMT DEF FromCalls
<1>4. \A b : ~ToCome("addedOption", b)
  BY <1>1, <1>3, CallIs DEF ToCome, Range
<1>5. LoopIsLast /\ ChitsInv /\ RemoveInv
  BY <1>1, <1>3 DEF LoopIsLast, ChitsInv, RemoveInv
<1> QED
  BY <1>2, <1>4, <1>5 DEF StackInv, IssuerInv, FulfillInv, PendingInv, WaitInv

-----------------------------------------------------------------------------
(* The votes to come *)

LEMMA PollsWait ==
    ASSUME PollInv, polls' = polls, \A n, id : VoteToCome(n, id) => VoteToCome(n, id)'
    PROVE  PollInv'
BY DEF PollInv

\* A step keeps the votes that it does not cast: they stay on the stack, or wait for
\* the same block, or are released.
KeepsWaiters(calls) ==
    \A b \in Blocks : \A w \in Range(blocked[b]) :
        w.op # "issuer" => w \in Range(blocked'[b]) \/ w \in Range(calls)

LEMMA VotesKept ==
    ASSUME NEW calls, Returned(calls), KeepsWaiters(calls), queries \subseteq queries',
           NEW n, NEW id, VoteToCome(n, id), ~VoteOf(stack[1], n, id)
    PROVE  VoteToCome(n, id)'
<1>1. CASE \E c \in Range(stack) : VoteOf(c, n, id)
  BY <1>1, ReturnedRange DEF VoteToCome
<1>2. ASSUME NEW b \in Blocks, NEW w \in Range(blocked[b]), VoteOf(w, n, id)
      PROVE  VoteToCome(n, id)'
  <2>1. w.op # "issuer"
    BY <1>2, SMT DEF VoteOf
  <2>2. w \in Range(blocked'[b]) \/ w \in Range(stack')
    BY <2>1, ReturnedRange DEF KeepsWaiters
  <2> QED
    BY <1>2, <2>2 DEF VoteToCome
<1> QED
  BY <1>1, <1>2 DEF VoteToCome

\* Most calls cast no vote and start no poll.
LEMMA StepVotes ==
    ASSUME StateType, PollInv, NEW calls \in Seq(Calls), Return(calls), stack # <<>>,
           stack[1].op \notin {"voter", "chits"}, KeepsWaiters(calls), UNCHANGED <<polls, queries>>
    PROVE  PollInv'
<1>1. Returned(calls)
  BY Returns DEF StateType
<1>2. \A n, id : ~VoteOf(stack[1], n, id)
  BY DEF VoteOf
<1> QED
  BY <1>1, <1>2, VotesKept, PollsWait

LEMMA SameWaiters ==
    ASSUME UNCHANGED blocked
    PROVE  \A calls : KeepsWaiters(calls)
BY DEF KeepsWaiters

\* A waiter is added behind the others.
LEMMA WaiterAdded ==
    ASSUME StateType, NEW b \in Blocks, NEW v \in Issuers \cup Voters,
           blocked' = [blocked EXCEPT ![b] = Append(@, v)]
    PROVE  v \in Range(blocked'[b]) /\ \A calls : KeepsWaiters(calls)
<1>1. blocked'[b] = Append(blocked[b], v) /\ \A x \in Blocks : x # b => blocked'[x] = blocked[x]
  BY DEF StateType
<1>2. blocked[b] \in Seq(Issuers \cup Voters)
  BY DEF StateType
<1>3. /\ \E i \in DOMAIN Append(blocked[b], v) : Append(blocked[b], v)[i] = v
      /\ \A i \in DOMAIN blocked[b] : i \in DOMAIN Append(blocked[b], v) /\ Append(blocked[b], v)[i] = blocked[b][i]
  <2>1. PICK m \in Nat : m = Len(blocked[b])
    BY <1>2, SMT
  <2>2. /\ DOMAIN Append(blocked[b], v) = 1..(m + 1) /\ DOMAIN blocked[b] = 1..m
        /\ \A i \in 1..m : Append(blocked[b], v)[i] = blocked[b][i]
        /\ Append(blocked[b], v)[m + 1] = v
    BY <1>2, <2>1, SMT
  <2>3. m + 1 \in 1..(m + 1) /\ 1..m \subseteq 1..(m + 1)
    BY SMT
  <2> QED
    BY <2>2, <2>3
<1>4. v \in Range(blocked'[b]) /\ \A w \in Range(blocked[b]) : w \in Range(blocked'[b])
  BY <1>1, <1>3 DEF Range
<1> QED
  BY <1>1, <1>4 DEF KeepsWaiters

LEMMA IssueVotes ==
    ASSUME StateType, PollInv, stack # <<>>, stack[1].op \in LookCalls,
           NEW b \in Blocks \ {Genesis}, NEW next \in Calls, Issue(b, next)
    PROVE  PollInv'
<1>1. Parent[b] \in Blocks /\ Call("issuer", b) \in Issuers /\ stack[1].op \notin {"voter", "chits"}
  <2>1. \A op \in LookCalls : op \notin {"voter", "chits"}
    BY SMT DEF LookCalls
  <2> QED
    BY <2>1, ParentFacts, CallsType
<1>2. <<next>> \in Seq(Calls) /\ <<Call("deliver", b), next>> \in Seq(Calls)
  BY SeqFacts, CallsType DEF BlockCalls
<1>3. UNCHANGED <<polls, queries>>
  BY DEF Issue
<1>4. \A calls : KeepsWaiters(calls)
  BY <1>1, SameWaiters, WaiterAdded DEF Issue
<1> QED
  BY <1>1, <1>2, <1>3, <1>4, StepVotes DEF Issue

LEMMA IssueFromVotes ==
    ASSUME StateType, TreeInv, PollInv, IssueFrom
    PROVE  PollInv'
<1>1. PICK b : b = stack[1].blk
  OBVIOUS
<1>2. /\ stack # <<>> /\ b \in Blocks /\ stack[1].op \in LookCalls /\ stack[1].node \in Nodes
      /\ stack[1].op \notin {"voter", "chits"}
  <2>1. stack # <<>> /\ stack[1] \in Calls /\ stack[1].op \in FromCalls
    BY RunningType DEF IssueFrom, FromCalls
  <2>2. FromCalls \subseteq LookCalls /\ \A op \in FromCalls : op \notin {"voter", "chits"}
    BY SMT DEF FromCalls, LookCalls
  <2> QED
    BY <1>1, <2>1, <2>2, CallFields
<1>3. CASE ~WasIssued(b) /\ Issue(b, CallFrom("issueFromByID", stack[1].node, Parent[b]))
  <2>1. b \in Blocks \ {Genesis} /\ Parent[b] \in Blocks
    BY <1>2, <1>3, GenesisIssued, ParentFacts DEF WasIssued
  <2>2. CallFrom("issueFromByID", stack[1].node, Parent[b]) \in Calls
    BY <1>2, <2>1, CallsType DEF FromCalls
  <2> QED
    BY <1>2, <1>3, <2>1, <2>2, IssueVotes
<1>4. ASSUME NEW calls \in {<<>>, <<Call("abandon", b)>>}, Return(calls), UNCHANGED <<blocked, polls, queries>>
      PROVE  PollInv'
  <2>1. Call("abandon", b) \in Calls
    BY <1>2, CallsType DEF BlockCalls
  <2>2. calls \in Seq(Calls)
    BY <2>1, SeqFacts
  <2> QED
    BY <1>2, <1>4, <2>2, SameWaiters, StepVotes
<1>5. CASE SendRequest(stack[1].node, b)
  BY <1>4, <1>5 DEF SendRequest
<1> QED
  BY <1>1, <1>3, <1>4, <1>5 DEF IssueFrom, AbandonIssued

LEMMA IssueWithAncestorsVotes ==
    ASSUME StateType, TreeInv, PollInv, IssueWithAncestors
    PROVE  PollInv'
<1>1. PICK b : b = stack[1].blk
  OBVIOUS
<1>2. /\ stack # <<>> /\ b \in Blocks /\ stack[1].op \in LookCalls
      /\ stack[1].op \notin {"voter", "chits"}
  <2>1. /\ stack # <<>> /\ stack[1] \in Calls
        /\ stack[1].op \in {"issueWithAncestors", "issueWithAncestorsByID"}
    BY RunningType DEF IssueWithAncestors
  <2>2. \A op \in {"issueWithAncestors", "issueWithAncestorsByID"} :
           op \in LookCalls /\ op \in BlockCalls /\ op \notin {"voter", "chits"}
    BY SMT DEF BlockCalls, LookCalls
  <2> QED
    BY <1>1, <2>1, <2>2, CallFields
<1>3. CASE ~WasIssued(b) /\ Issue(b, Call("issueWithAncestorsByID", Parent[b]))
  <2>1. b \in Blocks \ {Genesis} /\ Parent[b] \in Blocks
    BY <1>2, <1>3, GenesisIssued, ParentFacts DEF WasIssued
  <2>2. Call("issueWithAncestorsByID", Parent[b]) \in Calls
    BY <2>1, CallsType DEF BlockCalls
  <2> QED
    BY <1>2, <1>3, <2>1, <2>2, IssueVotes
<1>4. ASSUME NEW calls \in {<<>>, <<Call("abandon", b)>>}, Return(calls), UNCHANGED <<blocked, polls, queries>>
      PROVE  PollInv'
  <2>1. Call("abandon", b) \in Calls
    BY <1>2, CallsType DEF BlockCalls
  <2>2. calls \in Seq(Calls)
    BY <2>1, SeqFacts
  <2> QED
    BY <1>2, <1>4, <2>2, SameWaiters, StepVotes
<1> QED
  BY <1>1, <1>3, <1>4 DEF IssueWithAncestors, AbandonUnrequested, issueVars

LEMMA DeliverVotes ==
    ASSUME StateType, PollInv, Deliver \/ Option \/ RemoveRequest \/ AbandonIssuer
    PROVE  PollInv'
<1>1. PICK b : b = stack[1].blk
  OBVIOUS
<1>2. stack # <<>> /\ b \in Blocks /\ stack[1].op \notin {"voter", "chits"}
  <2>1. /\ stack # <<>> /\ stack[1] \in Calls
        /\ stack[1].op \in {"deliver", "addedOption", "droppedOption", "removeAny", "abandonIssuer"}
    BY RunningType DEF Deliver, Option, RemoveRequest, AbandonIssuer
  <2>2. \A op \in {"deliver", "addedOption", "droppedOption", "removeAny", "abandonIssuer"} :
           op \in BlockCalls /\ op \notin {"voter", "chits"}
    BY SMT DEF BlockCalls
  <2> QED
    BY <1>1, <2>1, <2>2, CallFields
<1>3. UNCHANGED <<blocked, polls, queries>>
  BY DEF Deliver, Option, RemoveRequest, AbandonIssuer
<1>4. /\ Call("fulfill", b) \in Calls /\ Call("removeAny", b) \in Calls /\ Call("abandon", b) \in Calls
      /\ Do("query") \in Calls
  BY <1>2, CallsType DEF BlockCalls
<1>5. \E calls \in Seq(Calls) : Return(calls)
  <2>1. CASE Deliver
    <3>1. <<>> \in Seq(Calls) /\ <<Call("abandon", b)>> \in Seq(Calls)
      BY <1>4, SeqFacts
    <3> QED
      BY <1>1, <1>2, <2>1, <3>1, DeliverCases, DeliverCallsType
         DEF DeliverIgnored, DeliverDropped, DeliverAdded
  <2>2. CASE Option
    <3>1. /\ \A preferred \in BOOLEAN :
                (IF preferred THEN <<Do("query")>> ELSE <<>>) \o ReleaseOption(b) \in Seq(Calls)
          /\ <<Call("abandon", b), Call("removeAny", b)>> \in Seq(Calls)
      BY <1>4, SeqFacts DEF ReleaseOption
    <3> QED
      BY <1>1, <2>2, <3>1 DEF Option
  <2>3. CASE RemoveRequest \/ AbandonIssuer
    <3>1. <<>> \in Seq(Calls) /\ <<Call("abandon", b)>> \in Seq(Calls)
      BY <1>4, SeqFacts
    <3> QED
      BY <1>1, <2>3, <3>1 DEF RemoveRequest, AbandonIssuer
  <2> QED
    BY <2>1, <2>2, <2>3
<1> QED
  BY <1>2, <1>3, <1>5, SameWaiters, StepVotes

LEMMA ReleaseVotes ==
    ASSUME StateType, StackInv, PollInv, Fulfill \/ Abandon
    PROVE  PollInv'
<1>1. PICK b : b = stack[1].blk
  OBVIOUS
<1>2. PICK op \in {"fulfill", "abandon"}, how \in {"deliver", "abandonIssuer"} : Running(op) /\ Release(how)
  BY DEF Fulfill, Abandon
<1>3. stack # <<>> /\ b \in Blocks /\ stack[1].op \notin {"voter", "chits"} /\ how \in BlockCalls
  <2>1. stack # <<>> /\ stack[1] \in Calls /\ stack[1].op = op
    BY <1>2, RunningType
  <2>2. op \in BlockCalls /\ op \notin {"voter", "chits"}
    BY SMT DEF BlockCalls
  <2>3. how \in BlockCalls
    BY DEF BlockCalls
  <2> QED
    BY <1>1, <2>1, <2>2, <2>3, CallFields
<1>4. PICK calls : Returned(calls) /\ ReleasedCalls(calls, how, b)
  BY <1>1, <1>2, <1>3, Released DEF StackInv
<1>5. UNCHANGED <<polls, queries>> /\ \A x \in Blocks : x # b => blocked'[x] = blocked[x]
  BY <1>1, <1>2 DEF Release, StateType
<1>6. KeepsWaiters(calls)
  BY <1>4, <1>5 DEF KeepsWaiters, ReleasedCalls
<1>7. \A n, id : ~VoteOf(stack[1], n, id)
  BY <1>3 DEF VoteOf
<1> QED
  BY <1>4, <1>5, <1>6, <1>7, VotesKept, PollsWait

\* The vote of Chits is cast next, or waits for its block.
LEMMA ChitsVotes ==
    ASSUME StateType, PollInv, Chits
    PROVE  PollInv'
<1>1. /\ stack # <<>> /\ stack \in Seq(Calls) /\ stack[1].op = "chits" /\ stack[1].blk \in Blocks
      /\ Voter(stack[1].node, stack[1].id, stack[1].blk) \in Voters
  <2>1. stack # <<>> /\ stack \in Seq(Calls) /\ stack[1] \in Calls /\ stack[1].op = "chits"
    BY RunningType DEF Chits
  <2>2. stack[1].blk \in Blocks /\ stack[1].node \in Nodes /\ stack[1].id \in 1..MaxPolls
    BY <2>1, CallFields
  <2> QED
    BY <2>1, <2>2, CallsType
<1>2. PICK b \in Blocks, v \in Voters :
         b = stack[1].blk /\ v = Voter(stack[1].node, stack[1].id, stack[1].blk)
  BY <1>1
<1>3. v \in Calls /\ \A n, id : VoteOf(stack[1], n, id) => VoteOf(v, n, id)
  <2>1. v.op = "voter" /\ v.node = stack[1].node /\ v.id = stack[1].id
    BY <1>2, SMT DEF Voter
  <2> QED
    BY <2>1, CallsType DEF VoteOf
<1>4. UNCHANGED <<polls, queries>>
  BY DEF Chits
<1>5. CASE Return(<<v>>) /\ UNCHANGED blocked
  <2>1. Returned(<<v>>)
    BY <1>1, <1>3, <1>5, SeqFacts, Returns
  <2>2. v \in Range(stack')
    <3>1. v \in Range(<<v>>)
      BY TupleFacts
    <3> QED
      BY <2>1, <3>1, ReturnedRange
  <2>3. ASSUME NEW n, NEW id, VoteToCome(n, id)
        PROVE  VoteToCome(n, id)'
    <3>1. CASE VoteOf(stack[1], n, id)
      BY <1>3, <2>2, <3>1 DEF VoteToCome
    <3>2. CASE ~VoteOf(stack[1], n, id)
      BY <1>4, <1>5, <2>1, <2>3, <3>2, SameWaiters, VotesKept
    <3> QED
      BY <3>1, <3>2
  <2> QED
    BY <1>4, <2>3, PollsWait
<1>6. CASE Return(<<>>) /\ blocked' = [blocked EXCEPT ![b] = Append(@, v)]
  <2>1. Returned(<<>>)
    BY <1>1, <1>6, SeqFacts, Returns
  <2>2. v \in Range(blocked'[b]) /\ KeepsWaiters(<<>>)
    BY <1>6, WaiterAdded
  <2>3. ASSUME NEW n, NEW id, VoteToCome(n, id)
        PROVE  VoteToCome(n, id)'
    <3>1. CASE VoteOf(stack[1], n, id)
      BY <1>3, <2>2, <3>1 DEF VoteToCome
    <3>2. CASE ~VoteOf(stack[1], n, id)
      BY <1>4, <2>1, <2>2, <2>3, <3>2, VotesKept
    <3> QED
      BY <3>1, <3>2
  <2> QED
    BY <1>4, <2>3, PollsWait
<1> QED
  BY <1>2, <1>5, <1>6 DEF Chits

\* A vote that is cast is waited for no longer.
LEMMA VoteVotes ==
    ASSUME StateType, PollInv, Vote
    PROVE  PollInv'
<1>1. PICK calls \in Seq(Calls) : Return(calls)
  BY VoteType
<1>2. stack # <<>> /\ stack \in Seq(Calls) /\ UNCHANGED <<blocked, queries>>
  BY RunningType DEF Vote, issueVars
<1>3. Returned(calls) /\ KeepsWaiters(calls)
  BY <1>1, <1>2, Returns, SameWaiters
<1>4. PICK n \in Nat : \A i \in DOMAIN polls' :
         /\ i + n \in DOMAIN polls /\ polls'[i].id = polls[i + n].id
         /\ polls'[i].waiting \subseteq polls[i + n].waiting
         /\ polls'[i].id = stack[1].id => stack[1].node \notin polls'[i].waiting
  BY VoteType
<1>5. polls' # <<>> => ~polls'[1].done
  BY VoteType
<1>6. ASSUME NEW i \in DOMAIN polls', NEW m \in polls'[i].waiting
      PROVE  VoteToCome(m, polls[i].id)'
  <2>1. PICK id : id = polls'[i].id
    OBVIOUS
  <2>2. VoteToCome(m, id)
    BY <1>4, <2>1 DEF PollInv
  <2>3. ~VoteOf(stack[1], m, id)
    BY <1>4, <2>1 DEF VoteOf
  <2>4. VoteToCome(m, id)'
    BY <1>2, <1>3, <2>2, <2>3, VotesKept
  <2> QED
    BY <2>1, <2>4 DEF VoteToCome
<1> QED
  BY <1>5, <1>6 DEF PollInv

\* A new poll waits for the nodes it queries.
LEMMA QueryVotes ==
    ASSUME StateType, PollInv, Query
    PROVE  PollInv'
<1>1. stack # <<>> /\ stack \in Seq(Calls) /\ stack[1].op = "query" /\ Return(<<>>) /\ UNCHANGED blocked
  BY RunningType DEF Query, issueVars
<1>2. Returned(<<>>) /\ KeepsWaiters(<<>>)
  BY <1>1, SeqFacts, Returns, SameWaiters
<1>3. \A n, id : ~VoteOf(stack[1], n, id)
  BY <1>1, SMT DEF VoteOf
<1>4. queries \subseteq queries'
  BY DEF Query
<1>5. \A n, id : VoteToCome(n, id) => VoteToCome(n, id)'
  BY <1>2, <1>3, <1>4, VotesKept
<1>6. CASE UNCHANGED polls
  BY <1>5, <1>6, PollsWait
<1>7. CASE ~UNCHANGED polls
  <2>1. PICK vdrs, id :
           /\ polls' = Append(polls, [id |-> id, waiting |-> vdrs, votes |-> {}, done |-> FALSE])
           /\ queries' = queries \cup {[node |-> n, id |-> id] : n \in vdrs}
    BY <1>7 DEF Query
  <2> DEFINE p == [id |-> id, waiting |-> vdrs, votes |-> {}, done |-> FALSE]
  <2>2. p.id = id /\ p.waiting = vdrs /\ ~p.done
    OBVIOUS
  <2>3. polls' = Append(polls, p) /\ polls \in Seq(PollStates)
    BY <2>1 DEF StateType
  <2> HIDE DEF p
  <2>4. /\ \A i \in DOMAIN polls' : (i \in DOMAIN polls /\ polls'[i] = polls[i]) \/ polls'[i] = p
        /\ polls = <<>> => polls'[1] = p
        /\ polls # <<>> => polls'[1] = polls[1]
    BY <2>3, SMT
  <2>5. ~polls'[1].done
    BY <2>2, <2>4 DEF PollInv
  <2>6. ASSUME NEW i \in DOMAIN polls', NEW m \in polls'[i].waiting
        PROVE  VoteToCome(m, polls[i].id)'
    <3>1. CASE i \in DOMAIN polls /\ polls'[i] = polls[i]
      <4>1. PICK j : j = polls[i].id /\ j = polls'[i].id
        BY <3>1
      <4>2. VoteToCome(m, j)
        BY <2>6, <3>1, <4>1 DEF PollInv
      <4>3. VoteToCome(m, j)'
        BY <1>5, <4>2
      <4> QED
        BY <4>1, <4>3 DEF VoteToCome
    <3>2. CASE polls'[i] = p
      <4>1. m \in vdrs /\ polls'[i].id = id
        BY <2>2, <2>6, <3>2
      <4>2. [node |-> m, id |-> id] \in queries'
        BY <2>1, <4>1
      <4> QED
        BY <4>1, <4>2 DEF VoteToCome
    <3> QED
      BY <2>4, <3>1, <3>2
  <2> QED
    BY <2>5, <2>6 DEF PollInv
<1> QED
  BY <1>6, <1>7

LEMMA OtherVotes ==
    ASSUME StateType, PollInv, Record \/ Settle \/ Repoll \/ BuildBlocks
    PROVE  PollInv'
<1>1. stack # <<>> /\ stack[1].op \notin {"voter", "chits"}
  <2>1. stack # <<>> /\ stack[1].op \in {"record", "settle", "repoll", "buildBlocks"}
    BY RunningType DEF Record, Settle, Repoll, BuildBlocks
  <2>2. \A op \in {"record", "settle", "repoll", "buildBlocks"} : op \notin {"voter", "chits"}
    BY SMT
  <2> QED
    BY <2>1, <2>2
<1>2. UNCHANGED <<blocked, polls, queries>>
  BY DEF Record, Settle, Repoll, BuildBlocks, issueVars
<1>3. \E calls \in Seq(Calls) : Return(calls)
  <2>1. <<>> \in Seq(Calls) /\ <<Do("repoll")>> \in Seq(Calls)
        /\ \A b \in Blocks : <<Call("issueWithAncestors", b), Do("buildBlocks")>> \in Seq(Calls)
    BY CallsType, SeqFacts DEF BlockCalls
  <2>2. CASE Repoll
    BY <2>2, RepollType
  <2>3. CASE Record \/ Settle \/ BuildBlocks
    BY <2>1, <2>3 DEF Record, Settle, BuildBlocks
  <2> QED
    BY <2>2, <2>3
<1> QED
  BY <1>1, <1>2, <1>3, SameWaiters, StepVotes

\* A handler finds no calls to come.  The vote of the node that answers is the last
\* call before buildBlocks.
LEMMA HandlersVotes ==
    ASSUME StateType, PollInv,
           \/ PushQuery \/ PullQuery \/ Notify
           \/ \E m \in queries : AnswerQuery(m)
           \/ \E m \in gets : AnswerGet(m)
    PROVE  PollInv'
<1>1. stack = <<>> /\ UNCHANGED <<blocked, polls>>
  BY DEF PushQuery, PullQuery, Notify, AnswerQuery, ChitsFor, AnswerGet, GetFailed, Put, FailGet, Handle, issueVars
<1>2. Range(stack) = {}
  BY <1>1, TupleFacts
<1>3. CASE queries' = queries
  <2>1. \A n, id : VoteToCome(n, id) => VoteToCome(n, id)'
    BY <1>1, <1>2, <1>3 DEF VoteToCome
  <2> QED
    BY <1>1, <2>1, PollsWait
<1>4. ASSUME NEW m \in queries, AnswerQuery(m)
      PROVE  PollInv'
  <2>1. m.node \in Nodes /\ m.id \in 1..MaxPolls /\ m = [node |-> m.node, id |-> m.id]
    BY SMT DEF StateType
  <2>2. \E c \in Range(stack') : VoteOf(c, m.node, m.id)
    <3>1. ASSUME NEW b \in Blocks, ChitsFor(m, b)
          PROVE  \E c \in Range(stack') : VoteOf(c, m.node, m.id)
      <4> DEFINE c == CallFrom("issueFromByID", m.node, b)
                 d == [op |-> "chits", node |-> m.node, id |-> m.id, blk |-> b]
      <4>1. c \in Calls /\ d \in Calls /\ VoteOf(d, m.node, m.id)
        BY <2>1, CallsType, SMT DEF FromCalls, VoteOf
      <4>2. Handle(<<c, d>>)
        BY <3>1 DEF ChitsFor
      <4> HIDE DEF c, d
      <4>3. PICK n \in Nat : Begun(<<c, d>>, n)
        BY <4>1, <4>2, SeqFacts, Begins
      <4>4. d \in Range(stack')
        <5>1. DOMAIN <<c, d>> = {1, 2} /\ <<c, d>>[2] = d /\ 1..n = {1, 2}
          BY <4>3, TupleFacts DEF Begun
        <5>2. 2 \in 1..(n + 1)
          BY <5>1, SMT
        <5> QED
          BY <4>3, <5>1, <5>2 DEF Begun, Range
      <4> QED
        BY <4>1, <4>4
    <3>2. ASSUME Handle(<<Voter(m.node, m.id, None)>>)
          PROVE  \E c \in Range(stack') : VoteOf(c, m.node, m.id)
      <4> DEFINE v == Voter(m.node, m.id, None)
      <4>1. v \in Calls /\ VoteOf(v, m.node, m.id)
        BY <2>1, CallsType, SMT DEF Voter, VoteOf
      <4> HIDE DEF v
      <4>2. PICK n \in Nat : Begun(<<v>>, n)
        BY <3>2, <4>1, SeqFacts, Begins DEF v
      <4>3. v \in Range(stack')
        <5>1. 1 \in 1..n /\ <<v>>[1] = v
          BY <4>2, TupleFacts DEF Begun
        <5>2. 1 \in 1..(n + 1)
          BY <5>1, SMT
        <5> QED
          BY <4>2, <5>1, <5>2 DEF Begun, Range
      <4> QED
        BY <4>1, <4>3
    <3> QED
      BY <1>4, <3>1, <3>2 DEF AnswerQuery
  <2>3. queries' = queries \ {m}
    BY <1>4 DEF AnswerQuery
  <2>4. ASSUME NEW n, NEW id, VoteToCome(n, id)
        PROVE  VoteToCome(n, id)'
    <3>1. CASE [node |-> n, id |-> id] = m
      <4>1. m.node = n /\ m.id = id
        BY <3>1, SMT
      <4> QED
        BY <2>2, <4>1 DEF VoteToCome
    <3>2. CASE [node |-> n, id |-> id] # m
      BY <1>1, <1>2, <2>3, <2>4, <3>2 DEF VoteToCome
    <3> QED
      BY <3>1, <3>2
  <2> QED
    BY <1>1, <2>4, PollsWait
<1> QED
  BY <1>3, <1>4 DEF PushQuery, PullQuery, Notify, AnswerGet, GetFailed, Put, FailGet

LEMMA NextVotes ==
    ASSUME StateType, TreeInv, StackInv, PollInv, Next
    PROVE  PollInv'
<1>1. CASE \E b \in Blocks : Forget(b)
  <2>1. UNCHANGED <<blocked, polls, stack, queries>>
    BY <1>1 DEF Forget, issueVars
  <2>2. \A n, id : VoteToCome(n, id) => VoteToCome(n, id)'
    BY <2>1 DEF VoteToCome
  <2> QED
    BY <2>1, <2>2, PollsWait
<1> QED
  BY <1>1, IssueFromVotes, IssueWithAncestorsVotes, DeliverVotes, ReleaseVotes, ChitsVotes, VoteVotes,
     QueryVotes, OtherVotes, HandlersVotes DEF Next, Step

-----------------------------------------------------------------------------
(* The theorems *)

\* The inductive invariant of the engine.
EngineInv == StateType /\ TreeInv /\ VoteInv /\ StackInv /\ RequestInv /\ PollsInv /\ PollInv

LEMMA InitEngine == Init => EngineInv
<1> SUFFICES ASSUME Init PROVE EngineInv
  OBVIOUS
<1>1. RequestInv
  BY DEF Init, RequestInv
<1>2. PollsInv
  BY TupleFacts, EngineAssumption, SMT DEF Init, PollsInv
<1>3. PollInv
  BY TupleFacts DEF Init, PollInv
<1> QED
  BY <1>1, <1>2, <1>3, InitType, InitTree, InitStack DEF EngineInv

LEMMA NextEngine == EngineInv /\ [Next]_vars => EngineInv' /\ [DecidedWasProcessing]_vars
<1> SUFFICES ASSUME StateType, TreeInv, VoteInv, StackInv, RequestInv, PollsInv, PollInv, [Next]_vars
             PROVE  EngineInv' /\ [DecidedWasProcessing]_vars
  BY DEF EngineInv
<1>1. CASE Next
  BY <1>1, NextType, NextTree, NextStack, NextRequests, NextPolls, NextVotes DEF EngineInv
<1>2. CASE UNCHANGED vars
  <2>1. /\ UNCHANGED <<consensusVars, issueVars, stack, added>> /\ UNCHANGED <<consensusVars, nonVerifieds>>
    BY <1>2 DEF vars, issueVars
  <2>2. StateType'
    BY <1>2 DEF vars, StateType, consensusVars, issueVars
  <2>3. RequestInv'
    BY <1>2 DEF vars, issueVars, RequestInv, Answering, Unanswered
  <2>4. PollsInv'
    BY <1>2 DEF vars, PollsInv
  <2>5. PollInv'
    BY <1>2 DEF vars, issueVars, PollInv, VoteToCome
  <2> QED
    BY <1>2, <2>1, <2>2, <2>3, <2>4, <2>5, SameTree, SameStack DEF EngineInv
<1> QED
  BY <1>1, <1>2

\* The state is well formed: a block is requested once at a time, as Requests assumes,
\* request IDs are not shared, and the blocks of consensus are undecided.
THEOREM TypeCorrect == Spec => []TypeOK
<1>1. EngineInv => TypeOK
  <2> SUFFICES ASSUME StateType, TreeInv, RequestInv, PollsInv
               PROVE  TypeOK
    BY DEF EngineInv
  <2>1. status[lastAccepted] = "Accepted"
    BY DEF TreeInv, StateType
  <2>2. \A b \in Blocks : \A i \in DOMAIN blocked[b] : blocked[b][i].op \in {"issuer", "voter"}
    <3> SUFFICES ASSUME NEW b \in Blocks, NEW i \in DOMAIN blocked[b]
                 PROVE  blocked[b][i].op \in {"issuer", "voter"}
      OBVIOUS
    <3>1. blocked[b] \in Seq(Issuers \cup Voters)
      BY DEF StateType
    <3>2. blocked[b][i] \in Issuers \cup Voters
      BY <3>1, SMT
    <3> QED
      BY <3>2, WaiterFields
  <2>3. pendingBuildBlocks \in 0..MaxBuilds
    BY EngineAssumption, SMT DEF StateType, PollsInv
  <2> QED
    BY <2>1, <2>2, <2>3 DEF TypeOK, StateType, TreeInv, RequestInv, PollsInv
<1> QED
  BY <1>1, InitEngine, NextEngine, PTL DEF Spec

\* Consensus decides only blocks that were processing: deliver verifies a block only
\* when its parent was accepted or is processing, so that no block is rejected as it
\* arrives, however issuers, voters and polls interleave, for any tree of blocks, any
\* nodes and any options.
THEOREM VerifyIsAllowed == Spec => VerifyAllowed
<1>1. EngineInv /\ [Next]_vars => [DecidedWasProcessing]_vars
  BY NextEngine
<1>2. Spec => [][DecidedWasProcessing]_vars
  BY <1>1, InitEngine, NextEngine, PTL DEF Spec
<1> QED
  BY <1>2 DEF VerifyAllowed

\* bubbleVotes finds the nearest ancestor in consensus of a block that failed
\* verification: AncestorTree never loses a block on the way, while blocks are added,
\* accepted and rejected.
THEOREM VotesAlwaysBubble == Spec => []VotesBubble
<1>1. EngineInv => VotesBubble
  BY VotesReachRoot DEF EngineInv
<1> QED
  BY <1>1, InitEngine, NextEngine, PTL DEF Spec

\* When a handler has returned, no issuer or voter waits for a block that was accepted
\* or is processing, as the comment in issueFrom relies on: whatever order the callbacks
\* of Fulfill and Abandon run in, a block that enters consensus releases what waits for
\* it, and nothing is registered with it later.
THEOREM IssuedReleases == Spec => []NothingWaitsForIssued
<1>1. EngineInv => NothingWaitsForIssued
  <2> SUFFICES ASSUME StateType, StackInv, stack = <<>>,
                      NEW b \in Blocks, b \in processing \/ status[b] = "Accepted"
               PROVE  blocked[b] = <<>>
    BY DEF EngineInv, NothingWaitsForIssued
  <2>1. \A op : ~ToCome(op, b)
    BY TupleFacts DEF ToCome
  <2>2. Added(b)
    BY DEF Added
  <2> QED
    BY <2>1, <2>2 DEF StackInv, FulfillInv
<1> QED
  BY <1>1, InitEngine, NextEngine, PTL DEF Spec

\* When a handler has returned, what waits for a block that may still be accepted will
\* be released: the block is registered with the Blocker for its parent, or its Get is
\* still to be answered, although the VM may lose any block that it did not accept.
THEOREM NoneDangling == Spec => []NoDanglingDependency
<1>1. EngineInv => NoDanglingDependency
  <2> SUFFICES ASSUME StateType, StackInv, RequestInv, stack = <<>>, NEW b \in Blocks, Viable(b)
               PROVE  /\ blocked[b] # <<>> => b \in pending \/ \E r \in blkReqs : r.blk = b /\ Unanswered(r)
                      /\ b \in pending => Queued(b)
    BY DEF EngineInv, NoDanglingDependency
  <2>1. \A op : ~ToCome(op, b)
    BY TupleFacts DEF ToCome
  <2>2. ~Lost(b)
    BY DEF Lost, Viable
  <2>3. blocked[b] # <<>> => b \in pending \/ \E r \in blkReqs : r.blk = b
    BY <2>1, <2>2 DEF StackInv, WaitInv, Looking, Requested
  <2>4. \A r \in blkReqs : Unanswered(r)
    BY DEF RequestInv, Answering
  <2>5. b \in pending => Queued(b)
    BY <2>1, <2>2 DEF StackInv, PendingInv
  <2> QED
    BY <2>3, <2>4, <2>5
<1> QED
  BY <1>1, InitEngine, NextEngine, PTL DEF Spec

\* No vote gets lost: when a handler has returned, a node that a poll waits for has a
\* query to answer, or its vote is registered with the Blocker, and the oldest poll is
\* not finished, whatever happens to the blocks that the votes wait for.
THEOREM VotesCome == Spec => []EveryVoteComes
<1>1. EngineInv => EveryVoteComes
  <2> SUFFICES ASSUME StateType, PollInv, stack = <<>>
               PROVE  /\ polls # <<>> => ~Head(polls).done
                      /\ \A p \in Range(polls) : \A n \in p.waiting :
                            [node |-> n, id |-> p.id] \in queries \/ VoteWaits(n, p.id)
    BY DEF EngineInv, EveryVoteComes
  <2>1. polls # <<>> => Head(polls) = polls[1]
    BY SMT DEF StateType
  <2>2. Range(stack) = {}
    BY TupleFacts
  <2>3. ASSUME NEW b \in Blocks, NEW w \in Range(blocked[b]), NEW n, NEW id, VoteOf(w, n, id)
        PROVE  w.op = "voter"
    <3>1. blocked[b] \in Seq(Issuers \cup Voters)
      BY DEF StateType
    <3>2. w \in Issuers \cup Voters
      BY <3>1, SMT DEF Range
    <3>3. w.op \in {"issuer", "voter"} /\ w.op \in {"voter", "chits"}
      BY <2>3, <3>2, WaiterFields DEF VoteOf
    <3> QED
      BY <3>3, SMT
  <2>4. ASSUME NEW p \in Range(polls), NEW n \in p.waiting
        PROVE  [node |-> n, id |-> p.id] \in queries \/ VoteWaits(n, p.id)
    <3>1. PICK i \in DOMAIN polls : p = polls[i]
      BY DEF Range
    <3>2. VoteToCome(n, p.id)
      BY <3>1 DEF PollInv
    <3> QED
      BY <2>2, <2>3, <3>2 DEF VoteToCome, VoteWaits, VoteOf
  <2> QED
    BY <2>1, <2>4 DEF PollInv
<1> QED
  BY <1>1, InitEngine, NextEngine, PTL DEF Spec
=============================================================================
