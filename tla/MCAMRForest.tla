---------------------------- MODULE MCAMRForest ----------------------------
(* Instances of AMRForest for TLC. *)
EXTENDS AMRForest

\* A leaf of the lowest level holds a power of 5 and the last of four children
\* twice what each other one holds, so that all amounts stay whole numbers.
LastChild(c, l) ==     \* is the square of level l around c the last of its family
  LET s == 2 ^ (MaxLevel - l)
  IN  (c.x \div s) % 2 = 1 /\ (c.y \div s) % 2 = 1
MassTable ==
  [c \in Cells |->
     5 ^ (MaxLevel - c.level + 1)
       * 2 ^ Cardinality({l \in (MinLevel + 1)..c.level : LastChild(c, l)})]
Masses(c) == MassTable[c]
Energies ==
  [c \in LevelCells(MinLevel) |-> 5 ^ (MaxLevel - MinLevel + 1 + MaxPasses)]

Square(i, j) == Cell(MaxLevel, i, j)
Middle == 2 ^ (MaxLevel - 1)

\* What a leaf of the lowest level holds more than any leaf of the next.
HalfALeaf == 5 ^ (MaxLevel - MinLevel + 1 + MaxPasses) \div 5

\* No steep gradient, or one at a place: in a corner, on either side of the
\* middle of the domain, in the middle of its lower left quarter.
Corner == Square(0, 0)
BesideMiddle == Square(Middle - 1, Middle - 1)
AcrossMiddle == Square(Middle, Middle - 1)
InQuarter == Square(Middle \div 2, Middle \div 2 - 1)
Moving ==
  {{}, {Corner}, {AcrossMiddle}, {InQuarter}}
Crossing == {{}, {BesideMiddle}, {AcrossMiddle}}

\* Energy flows between two siblings that are smaller than the lowest level
\* allows.
Quarter == Cell(MinLevel, 0, 0)
Siblings == {<<Child(Quarter, 4), Child(Quarter, 3)>>}
=============================================================================
