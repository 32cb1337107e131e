----------------------- MODULE PartitionedForest_proofs -----------------------
(***************************************************************************)
(* Facts about the hanging edges of module PartitionedForest, for any      *)
(* balanced forest: across such an edge there are exactly two leaves, half *)
(* as large, the children of one square (HangingPair); a corner hangs on   *)
(* at most one edge (OneHangingPlace); the ends of a hanging edge do not   *)
(* hang (EndsDoNotHang).                                                   *)
(***************************************************************************)
EXTENDS PartitionedForest, Quadtree_proofs

\* Square n lies across edge f of square c and is as large.
NextTo(c, f, n) ==
  /\ n.level = c.level
  /\ CASE f = "LEFT"   -> n.x + Side(c) = c.x /\ n.y = c.y
       [] f = "RIGHT"  -> n.x = c.x + Side(c) /\ n.y = c.y
       [] f = "BOTTOM" -> n.y + Side(c) = c.y /\ n.x = c.x
       [] f = "UP"     -> n.y = c.y + Side(c) /\ n.x = c.x
\* Its children along that edge, in the direction of the axis.
LowChild == [LEFT |-> 2, RIGHT |-> 1, BOTTOM |-> 3, UP |-> 1]
HighChild == [LEFT |-> 4, RIGHT |-> 3, BOTTOM |-> 4, UP |-> 2]

-----------------------------------------------------------------------------
(* Across an edge. *)

\* Two grids, one twice as fine: where the fine squares of a coarse one, at n,
\* may lie beside another coarse one, at p.
LEMMA TwoGrids ==
  ASSUME NEW h \in Nat \ {0}, NEW p \in Nat, NEW n \in Nat, NEW d \in Nat,
         \E i \in Nat : p = (2 * h) * i, \E u \in Nat : n = (2 * h) * u,
         d = n \/ d = n + h
  PROVE  /\ p + 2 * h = d => d = n
         /\ d + h = p => d = n + h
         /\ Cross(p, 2 * h, d, h) => p = n
<1> PICK i \in Nat : p = (2 * h) * i
  OBVIOUS
<1> PICK u \in Nat : n = (2 * h) * u
  OBVIOUS
<1>1. ASSUME p + 2 * h = d PROVE d = n
  <2> SUFFICES ASSUME d = n + h PROVE FALSE
    OBVIOUS
  <2> DEFINE e == (2 * i + 2) - (2 * u + 1)
  <2>1. h * e = 0
    BY <1>1
  <2>2. e \in Int /\ e # 0
    OBVIOUS
  <2> HIDE DEF e
  <2> QED BY <2>1, <2>2
<1>2. ASSUME d + h = p PROVE d = n + h
  <2> SUFFICES ASSUME d = n PROVE FALSE
    OBVIOUS
  <2> DEFINE e == (2 * u + 1) - 2 * i
  <2>1. h * e = 0
    BY <1>2
  <2>2. e \in Int /\ e # 0
    OBVIOUS
  <2> HIDE DEF e
  <2> QED BY <2>1, <2>2
<1>3. ASSUME Cross(p, 2 * h, d, h) PROVE p = n
  <2> DEFINE s == 2 * h
  <2>1. s \in Nat \ {0} /\ p = s * i /\ n = s * u
    OBVIOUS
  <2>2. p < n + s /\ n < p + s
    BY <1>3 DEF Cross
  <2> HIDE DEF s
  <2>3. s * (u + 1 - i) > 0 /\ s * (i + 1 - u) > 0
    BY <2>1, <2>2
  <2> DEFINE v == u + 1 - i
             w == i + 1 - u
  <2>4. v \in Int /\ w \in Int
    OBVIOUS
  <2> HIDE DEF v, w
  <2>5. v > 0 /\ w > 0
    <3>1. s * v > 0 /\ s * w > 0
      BY <2>3 DEF v, w
    <3> QED BY <2>1, <2>4, <3>1
  <2>6. i = u
    BY <2>5 DEF v, w
  <2> QED BY <2>1, <2>6
<1> QED BY <1>1, <1>2, <1>3

\* A square half as large across an edge is one of two children of the square
\* next to it.
LEMMA AcrossHalf ==
  ASSUME NEW p \in Cells, NEW d \in Cells, NEW f \in Face,
         Across(p, f, d), d.level = p.level + 1
  PROVE  LET n == ParentOf(d)
         IN  /\ n \in Cells /\ NextTo(p, f, n)
             /\ d \in {Child(n, LowChild[f]), Child(n, HighChild[f])}
<1> DEFINE n == ParentOf(d)
           h == Side(d)
<1>1. p.level \in 0..Depth /\ d.level \in 0..Depth /\ d.level > 0 /\ p.level < Depth
  BY CellParts, DepthAssumption
<1>2. PICK k \in 1..4 : n \in Cells /\ n.level = p.level /\ d = Child(n, k)
  BY <1>1, ParentPlace
<1>3. /\ h \in Nat \ {0} /\ Side(p) = 2 * h /\ Side(n) = 2 * h
      /\ h = PowerOfTwo[Depth - n.level - 1]
  BY <1>1, <1>2, HalfSide, ChildPlace
<1> DEFINE a == IF k \in {2, 4} THEN h ELSE 0
           b == IF k \in {3, 4} THEN h ELSE 0
<1>4. d.x = n.x + a /\ d.y = n.y + b
  BY <1>1, <1>2, <1>3, ChildPlace
<1>5. \A c \in Cells :
        /\ c.x \in Nat /\ c.y \in Nat
        /\ \E i \in Nat : c.x = Side(c) * i
        /\ \E i \in Nat : c.y = Side(c) * i
  BY CellParts
<1>6. /\ p.x \in Nat /\ p.y \in Nat /\ n.x \in Nat /\ n.y \in Nat
      /\ \E i \in Nat : p.x = (2 * h) * i
      /\ \E i \in Nat : p.y = (2 * h) * i
      /\ \E i \in Nat : n.x = (2 * h) * i
      /\ \E i \in Nat : n.y = (2 * h) * i
  BY <1>2, <1>3, <1>5
<1>7. /\ d.x = n.x \/ d.x = n.x + h
      /\ d.y = n.y \/ d.y = n.y + h
      /\ d.x = n.x => k \in {1, 3}
      /\ d.x = n.x + h => k \in {2, 4}
      /\ d.y = n.y => k \in {1, 2}
      /\ d.y = n.y + h => k \in {3, 4}
      /\ d.x \in Nat /\ d.y \in Nat
  BY <1>2, <1>3, <1>4, <1>6
<1>8. Side(d) = h
  OBVIOUS
<1> HIDE DEF n, h, a, b
<1>9. /\ p.x + 2 * h = d.x => d.x = n.x
      /\ d.x + h = p.x => d.x = n.x + h
      /\ Cross(p.x, 2 * h, d.x, h) => p.x = n.x
  BY <1>3, <1>6, <1>7, TwoGrids, Zenon
<1>10. /\ p.y + 2 * h = d.y => d.y = n.y
       /\ d.y + h = p.y => d.y = n.y + h
       /\ Cross(p.y, 2 * h, d.y, h) => p.y = n.y
  BY <1>3, <1>6, <1>7, TwoGrids, Zenon
<1>11. CASE f = "LEFT"
  <2>1. d.x + h = p.x /\ Cross(p.y, 2 * h, d.y, h)
    BY <1>3, <1>8, <1>11 DEF Across
  <2>2. d.x = n.x + h /\ p.y = n.y
    BY <1>9, <1>10, <2>1
  <2>3. n.x + 2 * h = p.x
    BY <1>3, <1>6, <2>1, <2>2
  <2> QED BY <1>2, <1>3, <1>7, <1>11, <2>2, <2>3 DEF NextTo, LowChild, HighChild, n
<1>12. CASE f = "RIGHT"
  <2>1. p.x + 2 * h = d.x /\ Cross(p.y, 2 * h, d.y, h)
    BY <1>3, <1>8, <1>12 DEF Across
  <2>2. d.x = n.x /\ p.y = n.y
    BY <1>9, <1>10, <2>1
  <2>3. p.x + 2 * h = n.x
    BY <1>3, <1>6, <2>1, <2>2
  <2> QED BY <1>2, <1>3, <1>7, <1>12, <2>2, <2>3 DEF NextTo, LowChild, HighChild, n
<1>13. CASE f = "BOTTOM"
  <2>1. d.y + h = p.y /\ Cross(p.x, 2 * h, d.x, h)
    BY <1>3, <1>8, <1>13 DEF Across
  <2>2. d.y = n.y + h /\ p.x = n.x
    BY <1>9, <1>10, <2>1
  <2>3. n.y + 2 * h = p.y
    BY <1>3, <1>6, <2>1, <2>2
  <2> QED BY <1>2, <1>3, <1>7, <1>13, <2>2, <2>3 DEF NextTo, LowChild, HighChild, n
<1>14. CASE f = "UP"
  <2>1. p.y + 2 * h = d.y /\ Cross(p.x, 2 * h, d.x, h)
    BY <1>3, <1>8, <1>14 DEF Across
  <2>2. d.y = n.y /\ p.x = n.x
    BY <1>9, <1>10, <2>1
  <2>3. p.y + 2 * h = n.y
    BY <1>3, <1>6, <2>1, <2>2
  <2> QED BY <1>2, <1>3, <1>7, <1>14, <2>2, <2>3 DEF NextTo, LowChild, HighChild, n
<1> QED BY <1>11, <1>12, <1>13, <1>14 DEF Face

\* And these two children lie across it, the low one first in z-order.
LEMMA HalvesAcross ==
  ASSUME NEW p \in Cells, NEW n \in Cells, NEW f \in Face, p.level < Depth, NextTo(p, f, n)
  PROVE  LET a == Child(n, LowChild[f])
             b == Child(n, HighChild[f])
         IN  /\ n.level = p.level
             /\ LowChild[f] \in 1..4 /\ HighChild[f] \in 1..4
             /\ Across(p, f, a) /\ Across(p, f, b) /\ Touch(a, p) /\ Touch(b, p)
             /\ ZOrder(a) < ZOrder(b)
<1> DEFINE a == Child(n, LowChild[f])
           b == Child(n, HighChild[f])
           h == PowerOfTwo[Depth - p.level - 1]
<1>1. n.level = p.level
  BY DEF NextTo
<1>2. h \in Nat \ {0} /\ Side(p) = 2 * h /\ Side(n) = 2 * h
  BY <1>1, HalfSide
<1>3. LowChild[f] \in 1..4 /\ HighChild[f] \in 1..4 /\ LowChild[f] < HighChild[f]
  BY DEF Face, LowChild, HighChild
<1>4. ZOrder(a) < ZOrder(b)
  BY <1>1, <1>3, ChildrenInOrder
<1>5. /\ Side(a) = h /\ Side(b) = h
      /\ a.x = n.x + (IF LowChild[f] \in {2, 4} THEN h ELSE 0)
      /\ a.y = n.y + (IF LowChild[f] \in {3, 4} THEN h ELSE 0)
      /\ b.x = n.x + (IF HighChild[f] \in {2, 4} THEN h ELSE 0)
      /\ b.y = n.y + (IF HighChild[f] \in {3, 4} THEN h ELSE 0)
  BY <1>1, <1>3, ChildPlace
<1>6. p.x \in Nat /\ p.y \in Nat /\ n.x \in Nat /\ n.y \in Nat
  BY CellParts
<1> HIDE DEF a, b, h
<1>7. Across(p, f, a) /\ Across(p, f, b) /\ Touch(a, p) /\ Touch(b, p)
  <2>1. CASE f = "LEFT"
    BY <1>2, <1>5, <1>6, <2>1 DEF NextTo, LowChild, HighChild, Across, Touch, Meet, Cross
  <2>2. CASE f = "RIGHT"
    BY <1>2, <1>5, <1>6, <2>2 DEF NextTo, LowChild, HighChild, Across, Touch, Meet, Cross
  <2>3. CASE f = "BOTTOM"
    BY <1>2, <1>5, <1>6, <2>3 DEF NextTo, LowChild, HighChild, Across, Touch, Meet, Cross
  <2>4. CASE f = "UP"
    BY <1>2, <1>5, <1>6, <2>4 DEF NextTo, LowChild, HighChild, Across, Touch, Meet, Cross
  <2> QED BY <2>1, <2>2, <2>3, <2>4 DEF Face
<1> QED BY <1>1, <1>3, <1>4, <1>7 DEF a, b

\* What lies across an edge of a square overlaps the square next to it there.
LEMMA AcrossOverlaps ==
  ASSUME NEW p \in Cells, NEW n \in Cells, NEW d \in Cells, NEW f \in Face,
         NextTo(p, f, n), Across(p, f, d)
  PROVE  Overlap(d, n) /\ Touch(d, p)
<1>1. n.level = p.level /\ Side(n) = Side(p)
  BY DEF NextTo, Side
<1>2. /\ p.x \in Nat /\ p.y \in Nat /\ Side(p) \in Nat \ {0}
      /\ d.x \in Nat /\ d.y \in Nat /\ Side(d) \in Nat \ {0}
      /\ n.x \in Nat /\ n.y \in Nat
  BY CellParts
<1>3. CASE f = "LEFT"
  BY <1>1, <1>2, <1>3 DEF NextTo, Across, Overlap, Touch, Meet, Cross
<1>4. CASE f = "RIGHT"
  BY <1>1, <1>2, <1>4 DEF NextTo, Across, Overlap, Touch, Meet, Cross
<1>5. CASE f = "BOTTOM"
  BY <1>1, <1>2, <1>5 DEF NextTo, Across, Overlap, Touch, Meet, Cross
<1>6. CASE f = "UP"
  BY <1>1, <1>2, <1>6 DEF NextTo, Across, Overlap, Touch, Meet, Cross
<1> QED BY <1>3, <1>4, <1>5, <1>6 DEF Face

\* A square across an edge touches it.
LEMMA AcrossTouches ==
  ASSUME NEW p \in Cells, NEW d \in Cells, NEW f \in Face, Across(p, f, d)
  PROVE  Touch(d, p)
<1>1. /\ p.x \in Nat /\ p.y \in Nat /\ Side(p) \in Nat \ {0}
      /\ d.x \in Nat /\ d.y \in Nat /\ Side(d) \in Nat \ {0}
  BY CellParts
<1>2. CASE f = "LEFT"
  BY <1>1, <1>2 DEF Across, Touch, Meet, Cross
<1>3. CASE f = "RIGHT"
  BY <1>1, <1>3 DEF Across, Touch, Meet, Cross
<1>4. CASE f = "BOTTOM"
  BY <1>1, <1>4 DEF Across, Touch, Meet, Cross
<1>5. CASE f = "UP"
  BY <1>1, <1>5 DEF Across, Touch, Meet, Cross
<1> QED BY <1>2, <1>3, <1>4, <1>5 DEF Face

\* One square lies next to another across an edge.
LEMMA NextToIsOne ==
  ASSUME NEW p \in Cells, NEW m \in Cells, NEW n \in Cells, NEW f \in Face,
         NextTo(p, f, m), NextTo(p, f, n)
  PROVE  m = n
<1>1. /\ m = Cell(m.level, m.x, m.y) /\ n = Cell(n.level, n.x, n.y)
      /\ p.x \in Nat /\ p.y \in Nat /\ Side(p) \in Nat
      /\ m.x \in Nat /\ m.y \in Nat /\ n.x \in Nat /\ n.y \in Nat
  BY CellParts
<1>2. m.level = n.level /\ m.x = n.x /\ m.y = n.y
  <2>1. CASE f = "LEFT"
    BY <1>1, <2>1 DEF NextTo
  <2>2. CASE f = "RIGHT"
    BY <1>1, <2>2 DEF NextTo
  <2>3. CASE f = "BOTTOM"
    BY <1>1, <2>3 DEF NextTo
  <2>4. CASE f = "UP"
    BY <1>1, <2>4 DEF NextTo
  <2> QED BY <2>1, <2>2, <2>3, <2>4 DEF Face
<1> QED BY <1>1, <1>2

\* In a balanced forest, exactly two leaves lie across an edge where a smaller
\* one does: they are children of one square, half as large.
LEMMA HangingPair ==
  ASSUME NEW F, Tiling(F), CornerBalanced(F), NEW p \in F, NEW f \in Face,
         NEW d \in F, Across(p, f, d), d.level > p.level
  PROVE  LET n == ParentOf(d)
         IN  /\ p.level < Depth /\ n \in Cells /\ NextTo(p, f, n)
             /\ {e \in F : Across(p, f, e)}
                  = {Child(n, LowChild[f]), Child(n, HighChild[f])}
<1> DEFINE n == ParentOf(d)
           a == Child(n, LowChild[f])
           b == Child(n, HighChild[f])
<1>1. F \subseteq Cells /\ \A u, v \in F : Overlap(u, v) => u = v
  BY DEF Tiling
<1>2. Touch(d, p)
  BY <1>1, AcrossTouches
<1>3. d.level = p.level + 1 /\ p.level \in 0..Depth /\ d.level \in 0..Depth
  <2>1. p.level \in 0..Depth /\ d.level \in 0..Depth
    BY <1>1, CellParts
  <2>2. d.level - p.level <= 1
    BY <1>2 DEF CornerBalanced
  <2> QED BY <2>1, <2>2, DepthAssumption
<1>4. p.level < Depth
  BY <1>3, DepthAssumption
<1>5. n \in Cells /\ NextTo(p, f, n) /\ d \in {a, b}
  BY <1>1, <1>3, AcrossHalf
<1>6. /\ n.level = p.level
      /\ LowChild[f] \in 1..4 /\ HighChild[f] \in 1..4
      /\ Across(p, f, a) /\ Across(p, f, b) /\ Touch(a, p) /\ Touch(b, p)
  BY <1>1, <1>4, <1>5, HalvesAcross
<1>7. /\ a \in Cells /\ a.level = p.level + 1 /\ Inside(a, n)
      /\ b \in Cells /\ b.level = p.level + 1 /\ Inside(b, n)
  BY <1>4, <1>5, <1>6, ChildPlace, ChildrenFill
<1> HIDE DEF n, a, b
<1>8. Inside(d, n)
  BY <1>5, <1>7
\* A leaf that overlaps n and touches p is as small as d.
<1>9. ASSUME NEW c \in F, Overlap(c, n), Touch(c, p) PROVE c.level = p.level + 1
  <2>1. c \in Cells /\ c.level \in 0..Depth
    BY <1>1, CellParts
  <2>2. c.level - p.level <= 1
    BY <1>9 DEF CornerBalanced
  <2>3. ASSUME c.level <= p.level PROVE FALSE
    <3>1. Inside(n, c)
      BY <1>5, <1>6, <1>9, <2>1, <2>3, Nesting, OverlapOfSquares
    <3>2. Overlap(d, c)
      BY <1>1, <1>5, <1>8, <2>1, <3>1, WholeMeets, OverlapOfSquares
    <3>3. c = d
      BY <1>1, <3>2
    <3> QED BY <1>3, <2>1, <2>3, <3>3
  <2> QED BY <1>3, <2>1, <2>2, <2>3
<1>10. ASSUME NEW e \in {a, b} PROVE e \in F
  <2>1. e \in Cells /\ e.level = p.level + 1 /\ Inside(e, n) /\ Touch(p, e)
    BY <1>1, <1>6, <1>7, OverlapOfSquares
  <2>2. PICK c \in F : Overlap(c, e) /\ Touch(c, p)
    BY <1>1, <2>1, LeafThere
  <2>3. Overlap(c, n)
    BY <1>1, <1>5, <2>1, <2>2, WholeMeets, OverlapOfSquares
  <2>4. c.level = p.level + 1
    BY <1>9, <2>2, <2>3
  <2>5. c = e
    BY <1>1, <2>1, <2>2, <2>4, SameLevel
  <2> QED BY <2>5
<1>11. ASSUME NEW e \in F, Across(p, f, e) PROVE e \in {a, b}
  <2>1. e \in Cells /\ Overlap(e, n) /\ Touch(e, p)
    BY <1>1, <1>5, <1>11, AcrossOverlaps
  <2>2. e.level = p.level + 1
    BY <1>9, <2>1
  <2> DEFINE m == ParentOf(e)
  <2>3. /\ m \in Cells /\ NextTo(p, f, m)
        /\ e \in {Child(m, LowChild[f]), Child(m, HighChild[f])}
    BY <1>1, <1>11, <2>1, <2>2, AcrossHalf
  <2> HIDE DEF m
  <2>4. m = n
    BY <1>1, <1>5, <2>3, NextToIsOne
  <2> QED BY <2>3, <2>4 DEF a, b
<1>12. {e \in F : Across(p, f, e)} = {a, b}
  BY <1>6, <1>10, <1>11
<1> QED BY <1>4, <1>5, <1>12 DEF a, b, n

\* In z-order, which of two leaves is the first and which the second.
LEMMA TwoInOrder ==
  ASSUME NEW a, NEW b, ZOrder(a) \in Int, ZOrder(b) \in Int, ZOrder(a) < ZOrder(b)
  PROVE  /\ (CHOOSE d \in {a, b} : Index(d, {a, b}) = 0) = a
         /\ (CHOOSE d \in {a, b} : Index(d, {a, b}) = 1) = b
<1>1. {d \in {a, b} : ZOrder(d) < ZOrder(a)} = {}
  OBVIOUS
<1>2. {d \in {a, b} : ZOrder(d) < ZOrder(b)} = {a}
  OBVIOUS
<1>3. Index(a, {a, b}) = 0 /\ Index(b, {a, b}) = 1
  BY <1>1, <1>2, FS_EmptySet, FS_Singleton DEF Index
<1> QED BY <1>3

-----------------------------------------------------------------------------
(* Hanging edges. *)

\* A balanced forest is a forest.
LEMMA BalancedForest ==
  ASSUME NEW F \in BalancedForests
  PROVE  /\ Tiling(F) /\ CornerBalanced(F) /\ F \subseteq Cells
         /\ \A u, v \in F : Overlap(u, v) => u = v
BY ForestsAssumption DEF BalancedForests, Tiling

\* What a hanging edge is made of.
LEMMA HangingEdgeParts ==
  ASSUME NEW F \in BalancedForests, NEW h \in HangingEdges[F]
  PROVE  /\ h.parent \in F /\ h.parent \in Cells /\ h.parent.level < Depth
         /\ h.face \in Face
         /\ h.child[1] \in F /\ h.child[2] \in F
         /\ h.child[1] \in Cells /\ h.child[2] \in Cells
         /\ \E n \in Cells :
              /\ NextTo(h.parent, h.face, n)
              /\ h.child[1] = Child(n, LowChild[h.face])
              /\ h.child[2] = Child(n, HighChild[h.face])
<1>1. F \subseteq Cells /\ Tiling(F) /\ CornerBalanced(F)
  BY BalancedForest
<1> DEFINE cs(p, f) == {d \in F : Across(p, f, d)}
           edge(p, f) == [parent |-> p, face |-> f,
                          child |-> <<CHOOSE d \in cs(p, f) : Index(d, cs(p, f)) = 0,
                                      CHOOSE d \in cs(p, f) : Index(d, cs(p, f)) = 1>>]
<1>2. PICK q \in F \X Face :
        /\ \E d \in F : Across(q[1], q[2], d) /\ d.level > q[1].level
        /\ h = edge(q[1], q[2])
  BY DEF HangingEdges
<1> DEFINE p == q[1]
           f == q[2]
<1>3. p \in F /\ f \in Face /\ p \in Cells
  BY <1>1
<1>4. PICK d \in F : Across(p, f, d) /\ d.level > p.level
  BY <1>2
<1> DEFINE n == ParentOf(d)
           a == Child(n, LowChild[f])
           b == Child(n, HighChild[f])
<1>5. p.level < Depth /\ n \in Cells /\ NextTo(p, f, n) /\ cs(p, f) = {a, b}
  <2> HIDE DEF p, f
  <2> QED BY <1>1, <1>3, <1>4, HangingPair
<1>6. /\ n.level = p.level /\ LowChild[f] \in 1..4 /\ HighChild[f] \in 1..4
      /\ ZOrder(a) < ZOrder(b)
  <2> HIDE DEF p, f, n
  <2> QED BY <1>3, <1>5, HalvesAcross
<1>7. ZOrder(a) \in Int /\ ZOrder(b) \in Int /\ a \in F /\ b \in F
  <2>1. ZOrder(a) \in Int /\ ZOrder(b) \in Int
    <3> HIDE DEF p, f, n
    <3> QED BY <1>5, <1>6, ZOrderOfChild
  <2>2. a \in cs(p, f) /\ b \in cs(p, f)
    <3> HIDE DEF a, b, cs
    <3> QED BY <1>5
  <2> QED BY <2>1, <2>2
<1> HIDE DEF a, b
<1>8. /\ (CHOOSE e \in cs(p, f) : Index(e, cs(p, f)) = 0) = a
      /\ (CHOOSE e \in cs(p, f) : Index(e, cs(p, f)) = 1) = b
  <2>1. /\ (CHOOSE e \in {a, b} : Index(e, {a, b}) = 0) = a
        /\ (CHOOSE e \in {a, b} : Index(e, {a, b}) = 1) = b
    BY <1>6, <1>7, TwoInOrder
  <2> HIDE DEF cs
  <2> QED BY <1>5, <2>1
<1>9. h.parent = p /\ h.face = f /\ h.child[1] = a /\ h.child[2] = b
  <2>1. h = edge(p, f)
    BY <1>2
  <2> HIDE DEF cs, p, f
  <2> QED BY <1>8, <2>1
<1> HIDE DEF cs, p, f, n
<1> QED BY <1>1, <1>3, <1>5, <1>7, <1>9 DEF a, b

\* An edge of a leaf hangs once.
LEMMA OneHangingEdge ==
  ASSUME NEW F \in BalancedForests, NEW g \in HangingEdges[F], NEW h \in HangingEdges[F],
         g.parent = h.parent, g.face = h.face
  PROVE  g = h
<1> DEFINE cs(p, f) == {d \in F : Across(p, f, d)}
           edge(p, f) == [parent |-> p, face |-> f,
                          child |-> <<CHOOSE d \in cs(p, f) : Index(d, cs(p, f)) = 0,
                                      CHOOSE d \in cs(p, f) : Index(d, cs(p, f)) = 1>>]
<1>1. \A e \in HangingEdges[F] : \E q \in F \X Face : e = edge(q[1], q[2])
  BY DEF HangingEdges
<1> HIDE DEF cs
<1>2. \A e \in HangingEdges[F] : e = edge(e.parent, e.face)
  BY <1>1
<1> HIDE DEF edge
<1> QED BY <1>2

\* Where the two small leaves lie beside the large one.
LEMMA HangingPlace ==
  ASSUME NEW F \in BalancedForests, NEW h \in HangingEdges[F]
  PROVE  LET p == h.parent
             a == h.child[1]
             b == h.child[2]
             s == Side(a)
         IN  /\ s \in Nat \ {0} /\ Side(b) = s /\ Side(p) = 2 * s
             /\ p.x \in Nat /\ p.y \in Nat
             /\ a.x \in Nat /\ a.y \in Nat /\ b.x \in Nat /\ b.y \in Nat
             /\ a.level = p.level + 1 /\ b.level = p.level + 1
             /\ h.face = "LEFT" =>
                  a.x + s = p.x /\ b.x + s = p.x /\ a.y = p.y /\ b.y = p.y + s
             /\ h.face = "RIGHT" =>
                  a.x = p.x + 2 * s /\ b.x = p.x + 2 * s /\ a.y = p.y /\ b.y = p.y + s
             /\ h.face = "BOTTOM" =>
                  a.y + s = p.y /\ b.y + s = p.y /\ a.x = p.x /\ b.x = p.x + s
             /\ h.face = "UP" =>
                  a.y = p.y + 2 * s /\ b.y = p.y + 2 * s /\ a.x = p.x /\ b.x = p.x + s
<1> DEFINE p == h.parent
           a == h.child[1]
           b == h.child[2]
           s == PowerOfTwo[Depth - p.level - 1]
<1>1. /\ p \in Cells /\ p.level < Depth /\ h.face \in Face /\ a \in Cells /\ b \in Cells
      /\ \E n \in Cells : /\ NextTo(p, h.face, n)
                          /\ a = Child(n, LowChild[h.face])
                          /\ b = Child(n, HighChild[h.face])
  BY HangingEdgeParts
<1> HIDE DEF p, a, b
<1>2. PICK n \in Cells : /\ NextTo(p, h.face, n)
                         /\ a = Child(n, LowChild[h.face])
                         /\ b = Child(n, HighChild[h.face])
  BY <1>1
<1>3. n.level = p.level /\ LowChild[h.face] \in 1..4 /\ HighChild[h.face] \in 1..4
  BY <1>1, <1>2, HalvesAcross
<1>4. /\ s \in Nat \ {0} /\ Side(p) = 2 * s
      /\ Side(a) = s /\ a.level = p.level + 1
      /\ a.x = n.x + (IF LowChild[h.face] \in {2, 4} THEN s ELSE 0)
      /\ a.y = n.y + (IF LowChild[h.face] \in {3, 4} THEN s ELSE 0)
      /\ Side(b) = s /\ b.level = p.level + 1
      /\ b.x = n.x + (IF HighChild[h.face] \in {2, 4} THEN s ELSE 0)
      /\ b.y = n.y + (IF HighChild[h.face] \in {3, 4} THEN s ELSE 0)
  BY <1>1, <1>2, <1>3, HalfSide, ChildPlace
<1>5. /\ p.x \in Nat /\ p.y \in Nat /\ n.x \in Nat /\ n.y \in Nat
      /\ a.x \in Nat /\ a.y \in Nat /\ b.x \in Nat /\ b.y \in Nat
  BY <1>1, CellParts
<1> HIDE DEF s
<1>6. h.face = "LEFT" =>
        a.x + s = p.x /\ b.x + s = p.x /\ a.y = p.y /\ b.y = p.y + s
  BY <1>2, <1>4, <1>5 DEF NextTo, LowChild, HighChild
<1>7. h.face = "RIGHT" =>
        a.x = p.x + 2 * s /\ b.x = p.x + 2 * s /\ a.y = p.y /\ b.y = p.y + s
  BY <1>2, <1>4, <1>5 DEF NextTo, LowChild, HighChild
<1>8. h.face = "BOTTOM" =>
        a.y + s = p.y /\ b.y + s = p.y /\ a.x = p.x /\ b.x = p.x + s
  BY <1>2, <1>4, <1>5 DEF NextTo, LowChild, HighChild
<1>9. h.face = "UP" =>
        a.y = p.y + 2 * s /\ b.y = p.y + 2 * s /\ a.x = p.x /\ b.x = p.x + s
  BY <1>2, <1>4, <1>5 DEF NextTo, LowChild, HighChild
<1> QED BY <1>4, <1>5, <1>6, <1>7, <1>8, <1>9 DEF p, a, b

\* The first child is the one at the low end of the edge.
LEMMA FirstIsLow ==
  ASSUME NEW F \in BalancedForests, NEW h \in HangingEdges[F]
  PROVE  ~ Ahead(h, 1) /\ Ahead(h, 2)
<1> DEFINE p == h.parent
           a == h.child[1]
           b == h.child[2]
           s == Side(a)
<1>1. /\ s \in Nat \ {0} /\ Side(b) = s /\ p.x \in Nat /\ p.y \in Nat
      /\ h.face = "LEFT" => a.y = p.y /\ b.y = p.y + s
      /\ h.face = "RIGHT" => a.y = p.y /\ b.y = p.y + s
      /\ h.face = "BOTTOM" => a.x = p.x /\ b.x = p.x + s
      /\ h.face = "UP" => a.x = p.x /\ b.x = p.x + s
  BY HangingPlace
<1>2. h.face \in Face
  BY HangingEdgeParts
<1>3. CASE h.face \in {"LEFT", "RIGHT"}
  <2>1. a.y = p.y /\ b.y = p.y + s
    BY <1>1, <1>3
  <2>2. (Ahead(h, 1) <=> a.y = b.y + s) /\ (Ahead(h, 2) <=> b.y = a.y + s)
    BY <1>1, <1>3 DEF Ahead
  <2> HIDE DEF p, a, b, s
  <2> QED BY <1>1, <2>1, <2>2
<1>4. CASE h.face \in {"BOTTOM", "UP"}
  <2>1. a.x = p.x /\ b.x = p.x + s
    BY <1>1, <1>4
  <2>2. (Ahead(h, 1) <=> a.x = b.x + s) /\ (Ahead(h, 2) <=> b.x = a.x + s)
    BY <1>1, <1>4 DEF Ahead
  <2> HIDE DEF p, a, b, s
  <2> QED BY <1>1, <2>1, <2>2
<1> QED BY <1>2, <1>3, <1>4 DEF Face

\* The corners and halves the table of hanging edges gives.
LEMMA HangingTable ==
  ASSUME NEW F \in BalancedForests, NEW h \in HangingEdges[F]
  PROVE  LET f == Opposite[h.face]
         IN  /\ WhichCorner(h, 1) = HighEnd[f] /\ MasterCorner(h, 1) = LowEnd[f]
             /\ WhichCorner(h, 2) = LowEnd[f] /\ MasterCorner(h, 2) = HighEnd[f]
             /\ WhichSide(h, 1) = OtherHalf[LowHalf[f]] /\ WhichSide(h, 2) = LowHalf[f]
BY FirstIsLow DEF WhichCorner, MasterCorner, WhichSide

\* The middle of the edge of the large leaf, and its ends.
LEMMA HangingPoints ==
  ASSUME NEW F \in BalancedForests, NEW h \in HangingEdges[F]
  PROVE  LET p == h.parent
             a == h.child[1]
             b == h.child[2]
             s == Side(a)
             m == Point(a, WhichCorner(h, 1))
             low == Point(p, LowEnd[h.face])
             high == Point(p, HighEnd[h.face])
         IN  /\ s \in Nat \ {0} /\ Side(p) = 2 * s
             /\ m[1] \in Nat /\ m[2] \in Nat
             /\ Point(b, WhichCorner(h, 2)) = m
             /\ Point(a, MasterCorner(h, 1)) = low
             /\ Point(b, MasterCorner(h, 2)) = high
             /\ h.face \in {"LEFT", "RIGHT"} =>
                  low = <<m[1], m[2] - s>> /\ high = <<m[1], m[2] + s>>
             /\ h.face \in {"BOTTOM", "UP"} =>
                  low = <<m[1] - s, m[2]>> /\ high = <<m[1] + s, m[2]>>
<1> DEFINE p == h.parent
           a == h.child[1]
           b == h.child[2]
           s == Side(a)
           m == Point(a, WhichCorner(h, 1))
           low == Point(p, LowEnd[h.face])
           high == Point(p, HighEnd[h.face])
<1>1. /\ s \in Nat \ {0} /\ Side(b) = s /\ Side(p) = 2 * s
      /\ p.x \in Nat /\ p.y \in Nat
      /\ a.x \in Nat /\ a.y \in Nat /\ b.x \in Nat /\ b.y \in Nat
  BY HangingPlace
<1>2. /\ h.face = "LEFT" =>
           a.x + s = p.x /\ b.x + s = p.x /\ a.y = p.y /\ b.y = p.y + s
      /\ h.face = "RIGHT" =>
           a.x = p.x + 2 * s /\ b.x = p.x + 2 * s /\ a.y = p.y /\ b.y = p.y + s
      /\ h.face = "BOTTOM" =>
           a.y + s = p.y /\ b.y + s = p.y /\ a.x = p.x /\ b.x = p.x + s
      /\ h.face = "UP" =>
           a.y = p.y + 2 * s /\ b.y = p.y + 2 * s /\ a.x = p.x /\ b.x = p.x + s
  BY HangingPlace
<1>3. LET f == Opposite[h.face]
      IN  /\ WhichCorner(h, 1) = HighEnd[f] /\ MasterCorner(h, 1) = LowEnd[f]
          /\ WhichCorner(h, 2) = LowEnd[f] /\ MasterCorner(h, 2) = HighEnd[f]
  BY HangingTable
<1>4. h.face \in Face
  BY HangingEdgeParts
<1>5. ASSUME NEW c, Side(c) \in Nat, c.x \in Nat, c.y \in Nat
      PROVE  /\ Point(c, "LEFTBOTTOM") = <<c.x, c.y>>
             /\ Point(c, "RIGHTBOTTOM") = <<c.x + Side(c), c.y>>
             /\ Point(c, "LEFTUP") = <<c.x, c.y + Side(c)>>
             /\ Point(c, "RIGHTUP") = <<c.x + Side(c), c.y + Side(c)>>
  BY <1>5 DEF Point
<1> DEFINE Goal == /\ m[1] \in Nat /\ m[2] \in Nat
                   /\ Point(b, WhichCorner(h, 2)) = m
                   /\ Point(a, MasterCorner(h, 1)) = low
                   /\ Point(b, MasterCorner(h, 2)) = high
                   /\ h.face \in {"LEFT", "RIGHT"} =>
                        low = <<m[1], m[2] - s>> /\ high = <<m[1], m[2] + s>>
                   /\ h.face \in {"BOTTOM", "UP"} =>
                        low = <<m[1] - s, m[2]>> /\ high = <<m[1] + s, m[2]>>
<1>6. /\ Point(a, "LEFTBOTTOM") = <<a.x, a.y>>
      /\ Point(a, "RIGHTBOTTOM") = <<a.x + s, a.y>>
      /\ Point(a, "LEFTUP") = <<a.x, a.y + s>>
      /\ Point(a, "RIGHTUP") = <<a.x + s, a.y + s>>
  BY <1>1, <1>5
<1>7. /\ Point(b, "LEFTBOTTOM") = <<b.x, b.y>>
      /\ Point(b, "RIGHTBOTTOM") = <<b.x + s, b.y>>
      /\ Point(b, "LEFTUP") = <<b.x, b.y + s>>
      /\ Point(b, "RIGHTUP") = <<b.x + s, b.y + s>>
  BY <1>1, <1>5
<1>8. /\ Point(p, "LEFTBOTTOM") = <<p.x, p.y>>
      /\ Point(p, "RIGHTBOTTOM") = <<p.x + 2 * s, p.y>>
      /\ Point(p, "LEFTUP") = <<p.x, p.y + 2 * s>>
      /\ Point(p, "RIGHTUP") = <<p.x + 2 * s, p.y + 2 * s>>
  BY <1>1, <1>5
<1> HIDE DEF p, a, b, s
<1>9. ASSUME h.face = "LEFT" PROVE Goal
  <2>1. /\ WhichCorner(h, 1) = "RIGHTUP" /\ MasterCorner(h, 1) = "RIGHTBOTTOM"
        /\ WhichCorner(h, 2) = "RIGHTBOTTOM" /\ MasterCorner(h, 2) = "RIGHTUP"
        /\ LowEnd[h.face] = "LEFTBOTTOM" /\ HighEnd[h.face] = "LEFTUP"
    BY <1>3, <1>9 DEF Opposite, LowEnd, HighEnd
  <2> QED BY <1>1, <1>2, <1>6, <1>7, <1>8, <1>9, <2>1
<1>10. ASSUME h.face = "RIGHT" PROVE Goal
  <2>1. /\ WhichCorner(h, 1) = "LEFTUP" /\ MasterCorner(h, 1) = "LEFTBOTTOM"
        /\ WhichCorner(h, 2) = "LEFTBOTTOM" /\ MasterCorner(h, 2) = "LEFTUP"
        /\ LowEnd[h.face] = "RIGHTBOTTOM" /\ HighEnd[h.face] = "RIGHTUP"
    BY <1>3, <1>10 DEF Opposite, LowEnd, HighEnd
  <2> QED BY <1>1, <1>2, <1>6, <1>7, <1>8, <1>10, <2>1
<1>11. ASSUME h.face = "BOTTOM" PROVE Goal
  <2>1. /\ WhichCorner(h, 1) = "RIGHTUP" /\ MasterCorner(h, 1) = "LEFTUP"
        /\ WhichCorner(h, 2) = "LEFTUP" /\ MasterCorner(h, 2) = "RIGHTUP"
        /\ LowEnd[h.face] = "LEFTBOTTOM" /\ HighEnd[h.face] = "RIGHTBOTTOM"
    BY <1>3, <1>11 DEF Opposite, LowEnd, HighEnd
  <2> QED BY <1>1, <1>2, <1>6, <1>7, <1>8, <1>11, <2>1
<1>12. ASSUME h.face = "UP" PROVE Goal
  <2>1. /\ WhichCorner(h, 1) = "RIGHTBOTTOM" /\ MasterCorner(h, 1) = "LEFTBOTTOM"
        /\ WhichCorner(h, 2) = "LEFTBOTTOM" /\ MasterCorner(h, 2) = "RIGHTBOTTOM"
        /\ LowEnd[h.face] = "LEFTUP" /\ HighEnd[h.face] = "RIGHTUP"
    BY <1>3, <1>12 DEF Opposite, LowEnd, HighEnd
  <2> QED BY <1>1, <1>2, <1>6, <1>7, <1>8, <1>12, <2>1
<1>13. Goal
  BY <1>4, <1>9, <1>10, <1>11, <1>12 DEF Face
<1> QED BY <1>1, <1>13 DEF p, a, b, s

-----------------------------------------------------------------------------
(* Corners. *)

\* A point of a square, its border included.
Holds(c, pt) ==
  /\ c.x <= pt[1] /\ pt[1] <= c.x + Side(c)
  /\ c.y <= pt[2] /\ pt[2] <= c.y + Side(c)

\* The corners of a square are points of it.
LEMMA CornerHeld ==
  ASSUME NEW c \in Cells, NEW k
  PROVE  Holds(c, Point(c, k)) /\ Point(c, k)[1] \in Nat /\ Point(c, k)[2] \in Nat
BY CellParts DEF Holds, Point

\* Squares with a point in common touch.
LEMMA HeldTouch ==
  ASSUME NEW a \in Cells, NEW b \in Cells, NEW pt, pt[1] \in Nat, pt[2] \in Nat,
         Holds(a, pt), Holds(b, pt)
  PROVE  Touch(a, b)
BY CellParts DEF Holds, Touch, Meet

\* The hanging point is a point of the large leaf.
LEMMA MiddleHeld ==
  ASSUME NEW F \in BalancedForests, NEW h \in HangingEdges[F], NEW i \in {1, 2}
  PROVE  Holds(h.parent, Point(h.child[i], WhichCorner(h, i)))
<1> DEFINE m == Point(h.child[1], WhichCorner(h, 1))
           low == Point(h.parent, LowEnd[h.face])
           high == Point(h.parent, HighEnd[h.face])
           s == Side(h.child[1])
<1>1. /\ h.parent \in Cells /\ h.face \in Face
  BY HangingEdgeParts
<1>2. /\ s \in Nat \ {0} /\ m[1] \in Nat /\ m[2] \in Nat
      /\ Point(h.child[i], WhichCorner(h, i)) = m
      /\ h.face \in {"LEFT", "RIGHT"} => low = <<m[1], m[2] - s>> /\ high = <<m[1], m[2] + s>>
      /\ h.face \in {"BOTTOM", "UP"} => low = <<m[1] - s, m[2]>> /\ high = <<m[1] + s, m[2]>>
  BY HangingPoints
<1>3. /\ Holds(h.parent, low) /\ Holds(h.parent, high)
      /\ h.parent.x \in Nat /\ h.parent.y \in Nat /\ Side(h.parent) \in Nat
  BY <1>1, CornerHeld, CellParts
<1> HIDE DEF m, low, high, s
<1>4. Holds(h.parent, m)
  <2>1. CASE h.face \in {"LEFT", "RIGHT"}
    BY <1>2, <1>3, <2>1 DEF Holds
  <2>2. CASE h.face \in {"BOTTOM", "UP"}
    BY <1>2, <1>3, <2>2 DEF Holds
  <2> QED BY <1>1, <2>1, <2>2 DEF Face
<1> QED BY <1>2, <1>4

\* The ends of a hanging edge do not hang: the forest is balanced over corners.
LEMMA EndsDoNotHang ==
  ASSUME NEW F \in BalancedForests, NEW h \in HangingEdges[F],
         NEW k \in {LowEnd[h.face], HighEnd[h.face]}
  PROVE  HangingPlaces(F, h.parent, k) = {}
<1> SUFFICES ASSUME NEW q \in HangingPlaces(F, h.parent, k) PROVE FALSE
  OBVIOUS
<1> DEFINE g == q[1]
           i == q[2]
<1>1. g \in HangingEdges[F] /\ i \in {1, 2} /\ g.child[i] = h.parent /\ WhichCorner(g, i) = k
  BY DEF HangingPlaces
<1> HIDE DEF g, i
<1>2. Holds(g.parent, Point(h.parent, k))
  BY <1>1, MiddleHeld
<1>3. PICK e \in {1, 2} : Point(h.child[e], MasterCorner(h, e)) = Point(h.parent, k)
  BY HangingPoints
<1>4. /\ h.parent \in Cells /\ h.child[e] \in Cells /\ h.child[e] \in F
      /\ g.parent \in Cells /\ g.parent \in F
  BY <1>1, HangingEdgeParts
<1>5. Touch(h.child[e], g.parent)
  BY <1>2, <1>3, <1>4, CornerHeld, HeldTouch
<1>6. h.child[e].level = h.parent.level + 1 /\ h.parent.level = g.parent.level + 1
  BY <1>1, HangingPlace
<1>7. g.parent.level \in Nat
  BY <1>4, CellParts
<1>8. h.child[e].level - g.parent.level <= 1
  BY <1>4, <1>5, BalancedForest DEF CornerBalanced
<1> QED BY <1>6, <1>7, <1>8

\* Two squares lie next to each other.
LEMMA NextToBack ==
  ASSUME NEW p \in Cells, NEW n \in Cells, NEW f \in Face, NextTo(p, f, n)
  PROVE  NextTo(n, Opposite[f], p)
<1>1. /\ p.x \in Nat /\ p.y \in Nat /\ n.x \in Nat /\ n.y \in Nat
      /\ Side(p) \in Nat /\ Side(n) = Side(p) /\ p.level = n.level
  BY CellParts DEF NextTo, Side
<1>2. CASE f = "LEFT"
  BY <1>1, <1>2 DEF NextTo, Opposite
<1>3. CASE f = "RIGHT"
  BY <1>1, <1>3 DEF NextTo, Opposite
<1>4. CASE f = "BOTTOM"
  BY <1>1, <1>4 DEF NextTo, Opposite
<1>5. CASE f = "UP"
  BY <1>1, <1>5 DEF NextTo, Opposite
<1> QED BY <1>2, <1>3, <1>4, <1>5 DEF Face

\* A corner hangs on one edge at most, as one of its children.
LEMMA OneHangingPlace ==
  ASSUME NEW F \in BalancedForests, NEW c, NEW k,
         NEW q \in HangingPlaces(F, c, k), NEW r \in HangingPlaces(F, c, k)
  PROVE  q = r
<1>1. ASSUME NEW t \in HangingPlaces(F, c, k)
      PROVE  /\ t = <<t[1], t[2]>> /\ t[1] \in HangingEdges[F] /\ t[2] \in {1, 2}
             /\ t[1].child[t[2]] = c /\ WhichCorner(t[1], t[2]) = k
  BY DEF HangingPlaces
<1>2. ASSUME NEW h \in HangingEdges[F], NEW i \in {1, 2}, h.child[i] = c, WhichCorner(h, i) = k
      PROVE  /\ h.face \in Face /\ h.parent \in Cells
             /\ ParentOf(c) \in Cells /\ NextTo(h.parent, h.face, ParentOf(c))
             /\ ChildId(c) = IF i = 1 THEN LowChild[h.face] ELSE HighChild[h.face]
             /\ k = IF i = 1 THEN HighEnd[Opposite[h.face]] ELSE LowEnd[Opposite[h.face]]
  <2>1. /\ h.parent \in Cells /\ h.parent.level < Depth /\ h.face \in Face
        /\ \E n \in Cells : /\ NextTo(h.parent, h.face, n)
                            /\ h.child[1] = Child(n, LowChild[h.face])
                            /\ h.child[2] = Child(n, HighChild[h.face])
    BY HangingEdgeParts
  <2>2. PICK n \in Cells : /\ NextTo(h.parent, h.face, n)
                           /\ h.child[1] = Child(n, LowChild[h.face])
                           /\ h.child[2] = Child(n, HighChild[h.face])
    BY <2>1
  <2>3. n.level < Depth /\ LowChild[h.face] \in 1..4 /\ HighChild[h.face] \in 1..4
    BY <2>1, <2>2, HalvesAcross
  <2>4. /\ ParentOf(h.child[1]) = n /\ ChildId(h.child[1]) = LowChild[h.face]
        /\ ParentOf(h.child[2]) = n /\ ChildId(h.child[2]) = HighChild[h.face]
    BY <2>2, <2>3, ChildUnique
  <2>5. k = IF i = 1 THEN HighEnd[Opposite[h.face]] ELSE LowEnd[Opposite[h.face]]
    BY <1>2, HangingTable
  <2> QED BY <1>2, <2>1, <2>2, <2>4, <2>5
<1> DEFINE h == q[1]
           i == q[2]
           g == r[1]
           j == r[2]
           n == ParentOf(c)
<1>3. /\ q = <<h, i>> /\ h \in HangingEdges[F] /\ i \in {1, 2}
      /\ r = <<g, j>> /\ g \in HangingEdges[F] /\ j \in {1, 2}
      /\ h.face \in Face /\ h.parent \in Cells /\ n \in Cells /\ NextTo(h.parent, h.face, n)
      /\ g.face \in Face /\ g.parent \in Cells /\ NextTo(g.parent, g.face, n)
      /\ ChildId(c) = IF i = 1 THEN LowChild[h.face] ELSE HighChild[h.face]
      /\ ChildId(c) = IF j = 1 THEN LowChild[g.face] ELSE HighChild[g.face]
      /\ k = IF i = 1 THEN HighEnd[Opposite[h.face]] ELSE LowEnd[Opposite[h.face]]
      /\ k = IF j = 1 THEN HighEnd[Opposite[g.face]] ELSE LowEnd[Opposite[g.face]]
  BY <1>1, <1>2
<1> HIDE DEF h, i, g, j, n
<1> DEFINE id(f, l) == IF l = 1 THEN LowChild[f] ELSE HighChild[f]
           at(f, l) == IF l = 1 THEN HighEnd[Opposite[f]] ELSE LowEnd[Opposite[f]]
<1>4. \A e, f \in Face : \A l, m \in {1, 2} :
        id(e, l) = id(f, m) /\ at(e, l) = at(f, m) => e = f /\ l = m
  BY DEF Face, LowChild, HighChild, HighEnd, LowEnd, Opposite
<1>5. h.face = g.face /\ i = j
  BY <1>3, <1>4
<1>6. h.parent = g.parent
  <2>1. Opposite[h.face] \in Face
    BY <1>3 DEF Face, Opposite
  <2> QED BY <1>3, <1>5, <2>1, NextToBack, NextToIsOne
<1>7. h = g
  BY <1>3, <1>5, <1>6, OneHangingEdge
<1> QED BY <1>3, <1>5, <1>7
=============================================================================
