------------------------------ MODULE Quadtree ------------------------------
(***************************************************************************)
(* The squares of a p4est quadtree on the unit square.  Coordinates count  *)
(* squares of the deepest level, Depth, from the lower left corner, as     *)
(* p4est's quadrant coordinates do with its own deepest level.             *)
(***************************************************************************)
EXTENDS Integers, FiniteSets

CONSTANT Depth
ASSUME DepthAssumption == Depth \in Nat

Cell(l, x, y) == [level |-> l, x |-> x, y |-> y]

\* P4EST_QUADRANT_LEN.
PowerOfTwo[n \in 0..Depth] == IF n = 0 THEN 1 ELSE 2 * PowerOfTwo[n - 1]
Side(c) == PowerOfTwo[Depth - c.level]

\* Child 1 is LEFTBOTTOM, 2 RIGHTBOTTOM, 3 LEFTUP, 4 RIGHTUP.
Child(c, k) ==
  LET h == PowerOfTwo[Depth - c.level - 1]
  IN  Cell(c.level + 1, c.x + h * ((k - 1) % 2), c.y + h * ((k - 1) \div 2))
Children(c) == {Child(c, k) : k \in 1..4}

ChildId(c) == 1 + ((c.x \div Side(c)) % 2) + 2 * ((c.y \div Side(c)) % 2)
ParentOf(c) ==
  LET s == 2 * Side(c)
  IN  Cell(c.level - 1, c.x - (c.x % s), c.y - (c.y % s))

\* The squares of one level, and of all levels.
LevelCells(l) ==
  LET s == PowerOfTwo[Depth - l]
      n == PowerOfTwo[l]
  IN  {Cell(l, s * i, s * j) : i, j \in 0..(n - 1)}
Cells == UNION {LevelCells(l) : l \in 0..Depth}

Meet(a, la, b, lb) == a <= b + lb /\ b <= a + la       \* closed intervals
Cross(a, la, b, lb) == a < b + lb /\ b < a + la        \* their interiors

\* Two squares share a corner, part of an edge, or more: P4EST_CONNECT_FULL.
Touch(a, b) ==
  /\ Meet(a.x, Side(a), b.x, Side(b))
  /\ Meet(a.y, Side(a), b.y, Side(b))
\* They share part of an edge, or more: P4EST_CONNECT_FACE.
TouchAlongEdge(a, b) ==
  /\ Touch(a, b)
  /\ Cross(a.x, Side(a), b.x, Side(b)) \/ Cross(a.y, Side(a), b.y, Side(b))
Overlap(a, b) ==
  /\ Cross(a.x, Side(a), b.x, Side(b))
  /\ Cross(a.y, Side(a), b.y, Side(b))

\* A forest: squares that cover the domain, each part of it once.
Tiling(leaves) ==
  /\ leaves \subseteq Cells
  /\ \A c, d \in leaves : c # d => ~Overlap(c, d)
  /\ \A q \in LevelCells(Depth) : \E c \in leaves : Overlap(c, q)

\* The place of a square in the order of a set of squares, its quadid: p4est's
\* Morton order, the bits of x and y in turn.
Spread[n \in 0..PowerOfTwo[Depth]] ==
  IF n = 0 THEN 0 ELSE (n % 2) + 4 * Spread[n \div 2]
ZOrder(c) == Spread[c.x] + 2 * Spread[c.y]
Index(c, S) == Cardinality({d \in S : ZOrder(d) < ZOrder(c)})

\* Parents all of whose children are leaves: what p4est_coarsen_ext looks at.
Families(leaves) ==
  {p \in {ParentOf(c) : c \in {d \in leaves : d.level > 0}} :
     Children(p) \subseteq leaves}
\* A family whose members are not all on one rank.
Cut(p, owner) == \E c \in Children(p) : owner[c] # owner[Child(p, 1)]

\* The 2:1 rule, over corners.
CornerBalanced(leaves) ==
  \A a, b \in leaves : Touch(a, b) => a.level - b.level <= 1
=============================================================================
