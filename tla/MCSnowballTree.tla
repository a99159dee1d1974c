--------------------------- MODULE MCSnowballTree ---------------------------
(* Instances of SnowballTree for TLC. *)
EXTENDS SnowballTree

\* Splits on the first, an interior and the last bit of a unary node, on a node
\* of a single bit, and twice below the same branch.
MCChoices == {<<0, 0, 0>>, <<0, 0, 1>>, <<0, 1, 0>>, <<1, 0, 0>>}
=============================================================================
