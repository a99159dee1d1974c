----------------------------- MODULE MCPollSet -----------------------------
(* Instances of PollSet for TLC. *)
EXTENDS PollSet

CONSTANTS v1, v2, v3, a, b, c

\* b is a child of a, c a sibling of a.
MCDescends ==
    {<<a, a>>, <<b, b>>, <<c, c>>, <<b, a>>} \cap (Blocks \X Blocks)

\* Three distinct validators, or one of them drawn twice.
MCSamples == {<<v1, v2, v3>>, <<v1, v1, v2>>}
=============================================================================
