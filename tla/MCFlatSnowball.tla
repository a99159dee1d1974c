--------------------------- MODULE MCFlatSnowball ---------------------------
(* Instances of FlatSnowball for TLC. *)
EXTENDS FlatSnowball
=============================================================================
