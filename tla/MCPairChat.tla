----------------------------- MODULE MCPairChat -----------------------------
(* Instances of PairChat small enough for TLC. *)
EXTENDS PairChat

FourAndOne == <<4, 1>>
=============================================================================
