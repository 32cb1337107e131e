---------------------------- MODULE MCFloatGuards ----------------------------
(* Instances of FloatGuards for TLC. *)
EXTENDS FloatGuards, TLC
CONSTANTS l1, l2
MCSymmetry == Permutations(Leaf)
=============================================================================
