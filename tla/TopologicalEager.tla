-------------------------- MODULE TopologicalEager --------------------------
(***************************************************************************)
(* Topological beside a reference that does at once what the code puts off  *)
(* with shouldFalter: in every poll, each block with alpha votes below it   *)
(* records the poll and every other block an unsuccessful one.              *)
(***************************************************************************)
EXTENDS Topological

CONSTANT MaxPolls      \* bound on the number of polls with arbitrary votes

VARIABLES eager,    \* the reference: block -> instance
          polls     \* number of polls with arbitrary votes

allVars == <<vars, eager, polls>>

InitEager == Init /\ eager = sb /\ polls = 0

AddEager(b) ==
    /\ Add(b)
    /\ eager' = [eager EXCEPT ![Parent[b]] =
                    IF Parent[b] \notin blocks THEN @
                    ELSE IF @ = NoSb THEN SbNew(b) ELSE SbAdd(@, b)]
    /\ UNCHANGED polls

EagerPoll(b, vs) ==
    IF b \notin blocks \/ eager[b] = NoSb THEN NoSb
    ELSE IF Cardinality(VotesBelow(vs, b)) >= Alpha
         THEN CHOOSE s \in SbPolls(eager[b], VoteBag(vs, b)) : TRUE
         ELSE SbFalter(eager[b])

Poll(vs) ==
    /\ RecordPoll(vs, {})
    /\ eager' = [b \in Blocks |-> EagerPoll(b, vs)]

\* A poll with any votes.
StrayPoll ==
    /\ polls < MaxPolls
    /\ polls' = polls + 1
    /\ \E vs \in AnyVotes : Poll(vs)

\* A poll in which everyone prefers what this node prefers.
UnanimousPoll ==
    /\ \E vs \in {ValidVotes([s \in Slots |-> tail], blocks, head)} : Poll(vs)
    /\ UNCHANGED polls

\* The rest of RecordPoll.
Continue == (Vote \/ VoteBreak \/ Settle) /\ UNCHANGED <<eager, polls>>

NextEager ==
    \/ \E b \in Blocks : AddEager(b)
    \/ StrayPoll
    \/ UnanimousPoll
    \/ Continue

SpecEager == InitEager /\ [][NextEager]_allVars

-----------------------------------------------------------------------------
(* Properties *)

\* Putting off the falters changes nothing: between polls every instance in the
\* tree has the preference and the decision it would have if each block without
\* alpha votes had recorded every unsuccessful poll at once.
FalterDeferred ==
    pc = "idle" => \A b \in blocks :
        /\ sb[b] = NoSb <=> eager[b] = NoSb
        /\ sb[b] # NoSb =>
              /\ SbPreference(sb[b]) = SbPreference(eager[b])
              /\ SbFinalized(sb[b]) = SbFinalized(eager[b])
=============================================================================
