---------------------------- MODULE MCCornerStage ----------------------------
(* Instances of CornerStage for TLC. *)
EXTENDS CornerStage

Quarter(k) == Child(Cell(0, 0, 0), k)
Refined(C, F) == (F \ C) \cup UNION {Children(c) : c \in C}
Uniform == {Quarter(k) : k \in 1..4}
\* Any quarters refined once, and 16 leaves of three levels.
MCForests ==
  {Refined({Quarter(k) : k \in S}, Uniform) : S \in SUBSET (1..4)}
    \cup {Refined({Child(Quarter(2), 4), Child(Quarter(4), 4)},
                  Refined({Quarter(2), Quarter(4)}, Uniform))}

Walls(F) == [f \in Face |-> IF f \in F THEN "wall" ELSE "free"]
Gas(d, s, u, v) == [density |-> d, sound |-> s, velocity |-> <<u, v>>]
TwoDimRiemann ==
  [boundary |-> Walls(Face),
   gas |-> <<Gas(11, 13, 9, 9), Gas(5, 7, 0, 9), Gas(5, 7, 9, 0), Gas(11, 13, 0, 0)>>]
SedovCartesian ==
  [boundary |-> Walls({"LEFT", "BOTTOM"}),
   gas |-> <<Gas(10, 99, 0, 0), Gas(10, 3, 0, 0), Gas(10, 3, 0, 0), Gas(10, 3, 0, 0)>>]
Sedov1DCartesian ==
  [boundary |-> Walls(Face),
   gas |-> <<Gas(10, 99, 0, 0), Gas(10, 3, 0, 0), Gas(10, 99, 0, 0), Gas(10, 3, 0, 0)>>]
MCProblems == {TwoDimRiemann, SedovCartesian, Sedov1DCartesian}
MCGamma == 7 \oslash 5
=============================================================================
