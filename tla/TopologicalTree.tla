-------------------------- MODULE TopologicalTree ---------------------------
(***************************************************************************)
(* Topological, and the reference that puts off no falter, with the         *)
(* snowball instances the code uses: a snowball Tree per block, over the    *)
(* bits of the block IDs.                                                   *)
(***************************************************************************)
EXTENDS TopologicalEager, SnowballTreeNodes

TreePolls(t, v) == {TreeRecordPoll(t, w).tree : w \in {v}}
TreePreference(t) == Preference(t.node)
TreeFinalized(t) == Finalized(t.node)

\* Two trees behave alike if they are equal once the resets that they put off are
\* done.
RECURSIVE DoResets(_, _)
DoResets(n, reset) ==
    LET sb0 == IF reset THEN Unsuccessful(n.snowball) ELSE n.snowball
    IN  CASE n = Nil -> Nil
          [] n.kind = "unary" ->
                [n EXCEPT !.snowball = sb0, !.shouldReset = FALSE,
                          !.child = DoResets(@, reset \/ n.shouldReset)]
          [] n.kind = "binary" ->
                [n EXCEPT !.snowball = sb0, !.shouldReset = [b \in {0, 1} |-> FALSE],
                          !.children = [b \in {0, 1} |->
                                           DoResets(n.children[b], reset \/ n.shouldReset[b])]]
TreeSame(s, t) == DoResets(s.node, s.shouldReset) = DoResets(t.node, t.shouldReset)

\* The engine polls again while blocks are processing (Transitive.repoll), and
\* RecordPoll terminates.  Unanimity of the polls that remain once the stray
\* ones are used up is the assumption on the network.  This is weak fairness of
\* UnanimousPoll, which is enabled exactly when pc is idle, and of Continue,
\* enabled exactly when it is not.
FairSpecTree ==
    /\ SpecEager
    /\ []<>(pc # "idle") \/ []<><<UnanimousPoll>>_allVars
    /\ []<>(pc = "idle") \/ []<><<Continue>>_allVars

-----------------------------------------------------------------------------
(* Properties *)

\* The snowball trees keep the promises of the Consensus interface that Topological
\* relies on: whatever the order of new children, polls and deferred falters, an
\* instance prefers a child and never goes back on a decision.
Instance(b) == INSTANCE SnowballContract WITH
    Choices <- Blocks, choices <- children[b],
    preference <- SbPreference(sb[b]), finalized <- SbFinalized(sb[b])
InstancesKeepContract ==
    [][\A b \in blocks : sb[b] # NoSb /\ sb'[b] # NoSb /\ sb'[b] # sb[b] => Instance(b)!Next]_allVars

\* Once the polls agree, every block in the tree is decided.
EventuallyDecided ==
    \A b \in Blocks : (b \in blocks) ~> (status[b] # "Processing")
=============================================================================
