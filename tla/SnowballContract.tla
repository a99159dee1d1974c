-------------------------- MODULE SnowballContract --------------------------
(***************************************************************************)
(* What a multi-choice snowball instance promises to the consensus that     *)
(* uses it (the Consensus interface of snow/consensus/snowball/consensus.go)*)
(* whatever is inside it:                                                   *)
(*  - it only ever prefers a choice that was added to it,                   *)
(*  - adding a choice does not change its preference,                       *)
(*  - a poll may move the preference and may finalize the instance,         *)
(*  - once finalized it stays finalized and keeps its preference.           *)
(* Topological consensus relies on nothing else.                            *)
(***************************************************************************)
CONSTANT Choices

VARIABLES choices,      \* the choices added so far
          preference,   \* Preference()
          finalized     \* Finalized()

Init ==
    \E c \in Choices :
        /\ choices = {c}
        /\ preference = c
        /\ finalized = FALSE

Add(c) ==
    /\ choices' = choices \cup {c}
    /\ UNCHANGED <<preference, finalized>>

RecordPoll ==
    /\ ~finalized
    /\ preference' \in choices
    /\ finalized' \in BOOLEAN
    /\ UNCHANGED choices

Next == (\E c \in Choices : Add(c)) \/ RecordPoll

Spec == Init /\ [][Next]_<<choices, preference, finalized>>
=============================================================================
