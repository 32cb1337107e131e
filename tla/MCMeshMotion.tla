---------------------------- MODULE MCMeshMotion ----------------------------
(* Instances of MeshMotion for TLC. *)
EXTENDS MeshMotion

Quarter(k) == Child(Cell(0, 0, 0), k)
Refined(C, F) == (F \ C) \cup UNION {Children(c) : c \in C}
Uniform == {Quarter(k) : k \in 1..4}

\* Any quarters of the domain are refined once.
TwoLevels ==
  {Refined({Quarter(k) : k \in S}, Uniform) : S \in SUBSET (1..4)}
\* The lower quarters, one of them, or none, are.
TwoBelow ==
  {Refined({Quarter(k) : k \in S}, Uniform) : S \in SUBSET {1, 2}}

\* Three levels, 16 leaves: two coarse leaves on the left, and on the right
\* two quarters, each refined once and then in one of its children.
SixteenLeaves ==
  {Refined({Child(Quarter(2), 4), Child(Quarter(4), 4)},
           Refined({Quarter(2), Quarter(4)}, Uniform))}

\* The gas is at rest, is carried along, is sheared, or moves at some points:
\* the centre, the middle of the edge between two quarters.
Still(v) == [p \in Points |-> v]
Sheared == [p \in Points |-> 8 * p[1]]
MovingAt(S) == [p \in Points |-> IF p \in S THEN 4 ELSE 0]
Centre == <<2 ^ (Depth - 1), 2 ^ (Depth - 1)>>
Between == <<2 ^ (Depth - 1), 2 ^ (Depth - 2)>>

Several ==
  {Still(4), Sheared, MovingAt({Centre}), MovingAt({Between}),
   MovingAt({Centre, Between})}
Moving == {Still(0), MovingAt({Between})}
Carried == {Still(4)}
=============================================================================
