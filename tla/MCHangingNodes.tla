--------------------------- MODULE MCHangingNodes ---------------------------
(* Instances of HangingNodes for TLC. *)
EXTENDS HangingNodes

Quarter(k) == Child(Cell(0, 0, 0), k)
Refined(C, F) == (F \ C) \cup UNION {Children(c) : c \in C}
Uniform == {Quarter(k) : k \in 1..4}

\* Any quarters of the domain are refined once.
TwoLevels ==
  {Refined({Quarter(k) : k \in S}, Uniform) : S \in SUBSET (1..4)}

\* Three levels, 16 leaves: two coarse leaves on the left, and on the right
\* two quarters, each refined once and then in one of its children.
SixteenLeaves ==
  {Refined({Child(Quarter(2), 4), Child(Quarter(4), 4)},
           Refined({Quarter(2), Quarter(4)}, Uniform))}
=============================================================================
