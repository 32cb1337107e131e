---------------------------- MODULE MCSimulation ----------------------------
(* Instances of Simulation for TLC. *)
EXTENDS Simulation

CONSTANTS r1, r2, r3

TwoRanks == {r1, r2}
ThreeRanks == {r1, r2, r3}

Both(pairs) == pairs \cup {<<p[2], p[1]>> : p \in pairs}

\* The two ranks touch, or a repartition leaves one of them apart.
TwoAdjacencies == {Both({<<r1, r2>>}), {}}

\* A chain of three ranks, with either of two ranks in the middle.
Chain == Both({<<r1, r2>>, <<r2, r3>>})
ThreeAdjacencies == {Chain, Both({<<r1, r2>>, <<r1, r3>>})}

ShortSteps == {1}
MixedSteps == {1, 2}
=============================================================================
