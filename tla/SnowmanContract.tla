-------------------------- MODULE SnowmanContract ---------------------------
(***************************************************************************)
(* What consensus promises to the engine that issues blocks to it and       *)
(* records polls on it (the Consensus interface of                          *)
(* snow/consensus/snowman/consensus.go), whatever decides inside it:        *)
(*  - a block that extends a processing block or the last accepted one      *)
(*    becomes processing, and any other is rejected,                        *)
(*  - blocks are decided only while a poll is recorded, one after the other *)
(*    from the last accepted block, and only while the poll has a vote for  *)
(*    a block above it,                                                     *)
(*  - exactly what conflicts with an accepted block is rejected, with it,   *)
(*  - nothing that was decided is decided again or forgotten.               *)
(* Transitive relies on this: it adds a block and its options in one step,  *)
(* and accepts all that a poll accepts in one step.                         *)
(***************************************************************************)
CONSTANTS Blocks, Genesis, Parent, Ancestors

VARIABLES
    status,         \* the status of each block
    processing,     \* the blocks that Processing holds of
    lastAccepted,   \* LastAccepted()
    votes           \* the blocks the poll that is being recorded has votes for

Init ==
    /\ status = [b \in Blocks |-> IF b = Genesis THEN "Accepted" ELSE "Processing"]
    /\ processing = {} /\ lastAccepted = Genesis
    /\ votes = {}

\* The parent was added before: it is in the tree or decided.
Add(b) ==
    /\ status[b] = "Processing" /\ b \notin processing
    /\ \/ /\ Parent[b] \in processing \cup {lastAccepted}
          /\ processing' = processing \cup {b}
          /\ UNCHANGED status
       \/ /\ Parent[b] \notin processing \cup {lastAccepted}
          /\ status[Parent[b]] # "Processing"
          /\ status' = [status EXCEPT ![b] = "Rejected"]
          /\ UNCHANGED processing
    /\ UNCHANGED <<lastAccepted, votes>>

\* RecordPoll starts, with votes for blocks that are processing, or is done with
\* its votes.
RecordPoll ==
    /\ votes' \subseteq processing
    /\ UNCHANGED <<status, processing, lastAccepted>>

Conflicting(b) ==
    {x \in processing : x # b /\ x \notin Ancestors[b] /\ b \notin Ancestors[x]}

\* RecordPoll accepts b, and may be done with its votes.
Accept(b) ==
    /\ b \in processing /\ Parent[b] = lastAccepted
    /\ \E v \in votes : lastAccepted \in Ancestors[v]
    /\ lastAccepted' = b
    /\ processing' = processing \ ({b} \cup Conflicting(b))
    /\ status' = [x \in Blocks |-> IF x = b THEN "Accepted"
                                   ELSE IF x \in Conflicting(b) THEN "Rejected" ELSE status[x]]
    /\ votes' \in {votes, {}}

Next ==
    \/ \E b \in Blocks \ {Genesis} : Add(b) \/ Accept(b)
    \/ RecordPoll

Spec == Init /\ [][Next]_<<status, processing, lastAccepted, votes>>
=============================================================================
