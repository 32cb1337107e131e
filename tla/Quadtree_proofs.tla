-------------------------- MODULE Quadtree_proofs --------------------------
(***************************************************************************)
(* Facts about the squares of module Quadtree, for any Depth: how a square *)
(* and its children lie, that two squares which overlap are nested, what   *)
(* refining some leaves of a forest, or putting families together, makes   *)
(* of it, and that a family's members follow one another in z-order.       *)
(*                                                                         *)
(* Induction is over sets of numbers: the library's theorems take the      *)
(* induction hypothesis as an operator, which no prover can instantiate,   *)
(* but that every set of numbers has a least element says the same.        *)
(***************************************************************************)
EXTENDS Quadtree, FiniteSetsExt, WellFoundedInduction, FiniteSetTheorems, TLAPS

-----------------------------------------------------------------------------
(* Induction. *)

\* Every set of natural numbers has a least element.
LEMMA LeastNumber ==
  ASSUME NEW T, T \subseteq Nat, T # {}
  PROVE  \E n \in T : \A m \in T : n <= m
<1> DEFINE R == OpToRel(<, Nat)
<1>1. IsWellFoundedOn(R, Nat)
  BY NatLessThanWellFounded
<1>2. \A x, y \in Nat : <<y, x>> \in R <=> y < x
  BY DEF OpToRel
<1> HIDE DEF R
<1>3. \E x \in T : \A y \in T : ~ (<<y, x>> \in R)
  <2>1. \A S : S \subseteq Nat /\ S # {} => \E x \in S : \A y \in S : ~ (<<y, x>> \in R)
    BY <1>1, WFMin
  <2> QED BY <2>1
<1>4. \A x, y \in Nat : ~ (y < x) => x <= y
  OBVIOUS
<1> QED BY <1>2, <1>3, <1>4

\* Induction, the hypothesis given as a set.
LEMMA SetInduction ==
  ASSUME NEW S, 0 \in S, \A n \in Nat : n \in S => n + 1 \in S
  PROVE  Nat \subseteq S
<1> DEFINE T == {n \in Nat : n \notin S}
<1> SUFFICES ASSUME T # {} PROVE FALSE
  OBVIOUS
<1>1. PICK n \in T : \A m \in T : n <= m
  <2>1. T \subseteq Nat
    OBVIOUS
  <2> HIDE DEF T
  <2> QED BY <2>1, LeastNumber
<1>2. n \in Nat /\ n # 0 /\ n - 1 \in Nat
  OBVIOUS
<1>3. n - 1 \notin T
  BY <1>1, <1>2
<1> QED BY <1>2, <1>3

-----------------------------------------------------------------------------
(* Lengths. *)

\* The recursion defines a function.
LEMMA PowerOfTwoDef ==
  PowerOfTwo = [n \in 0..Depth |-> IF n = 0 THEN 1 ELSE 2 * PowerOfTwo[n - 1]]
<1> DEFINE P(d) == \E f : f = [n \in 0..d |-> IF n = 0 THEN 1 ELSE 2 * f[n - 1]]
           S == {d \in Nat : P(d)}
<1>1. P(0)
  <2> DEFINE f == [n \in 0..0 |-> 1]
  <2>1. f = [n \in 0..0 |-> IF n = 0 THEN 1 ELSE 2 * f[n - 1]]
    OBVIOUS
  <2> HIDE DEF f
  <2> QED BY <2>1
<1>2. ASSUME NEW d \in Nat, P(d) PROVE P(d + 1)
  <2>1. PICK f : f = [n \in 0..d |-> IF n = 0 THEN 1 ELSE 2 * f[n - 1]]
    BY <1>2
  <2> DEFINE g == [n \in 0..(d + 1) |-> IF n = d + 1 THEN 2 * f[d] ELSE f[n]]
  <2>2. ASSUME NEW n \in 0..(d + 1)
        PROVE  g[n] = IF n = 0 THEN 1 ELSE 2 * g[n - 1]
    <3>1. CASE n = d + 1
      BY <3>1
    <3>2. CASE n # d + 1
      <4>1. n \in 0..d /\ g[n] = f[n] /\ (n # 0 => n - 1 \in 0..d /\ g[n - 1] = f[n - 1])
        BY <3>2
      <4> HIDE DEF g
      <4> QED BY <4>1, <2>1
    <3> QED BY <3>1, <3>2
  <2>3. g = [n \in 0..(d + 1) |-> g[n]]
    OBVIOUS
  <2> HIDE DEF g
  <2>4. g = [n \in 0..(d + 1) |-> IF n = 0 THEN 1 ELSE 2 * g[n - 1]]
    BY <2>2, <2>3
  <2> QED BY <2>4
<1> HIDE DEF P
<1>3. Depth \in S
  <2> HIDE DEF S
  <2>1. 0 \in S /\ \A d \in Nat : d \in S => d + 1 \in S
    BY <1>1, <1>2 DEF S
  <2> QED BY <2>1, SetInduction, DepthAssumption
<1>4. \E f : f = [n \in 0..Depth |-> IF n = 0 THEN 1 ELSE 2 * f[n - 1]]
  BY <1>3 DEF P
<1> QED BY <1>4 DEF PowerOfTwo

\* What PowerOfTwo is: its recursive definition as an equation.
LEMMA PowerOfTwoStep ==
  /\ PowerOfTwo[0] = 1
  /\ \A n \in 1..Depth : PowerOfTwo[n] = 2 * PowerOfTwo[n - 1]
<1> DEFINE F(f) == [n \in 0..Depth |-> IF n = 0 THEN 1 ELSE 2 * f[n - 1]]
<1>1. PowerOfTwo = F(PowerOfTwo)
  BY PowerOfTwoDef
<1>2. \A n \in 0..Depth :
        F(PowerOfTwo)[n] = IF n = 0 THEN 1 ELSE 2 * PowerOfTwo[n - 1]
  OBVIOUS
<1> HIDE DEF F
<1> QED BY <1>1, <1>2, DepthAssumption

\* Powers of two are positive numbers.
LEMMA PowerOfTwoType == \A n \in 0..Depth : PowerOfTwo[n] \in Nat \ {0}
<1> DEFINE S == {n \in Nat : n <= Depth => PowerOfTwo[n] \in Nat \ {0}}
<1>1. 0 \in S
  BY PowerOfTwoStep
<1>2. ASSUME NEW n \in Nat, n \in S PROVE n + 1 \in S
  <2> SUFFICES ASSUME n + 1 <= Depth PROVE PowerOfTwo[n + 1] \in Nat \ {0}
    OBVIOUS
  <2>1. PowerOfTwo[n] \in Nat \ {0}
    BY <1>2, DepthAssumption
  <2>2. PowerOfTwo[n + 1] = 2 * PowerOfTwo[n]
    BY PowerOfTwoStep, DepthAssumption
  <2> QED BY <2>1, <2>2
<1> HIDE DEF S
<1>3. Nat \subseteq S
  BY <1>1, <1>2, SetInduction
<1> QED BY <1>3, DepthAssumption DEF S

\* The power of a sum is the product of the powers.
LEMMA PowerOfTwoSum ==
  ASSUME NEW m \in Nat, NEW n \in Nat, m + n <= Depth
  PROVE  PowerOfTwo[m + n] = PowerOfTwo[m] * PowerOfTwo[n]
<1> DEFINE S == {i \in Nat : m + i <= Depth => PowerOfTwo[m + i] = PowerOfTwo[m] * PowerOfTwo[i]}
<1>1. 0 \in S
  BY PowerOfTwoStep, PowerOfTwoType, DepthAssumption
<1>2. ASSUME NEW i \in Nat, i \in S PROVE i + 1 \in S
  <2> SUFFICES ASSUME m + (i + 1) <= Depth
               PROVE  PowerOfTwo[m + (i + 1)] = PowerOfTwo[m] * PowerOfTwo[i + 1]
    OBVIOUS
  <2>1. PowerOfTwo[m + i] = PowerOfTwo[m] * PowerOfTwo[i]
    BY <1>2, DepthAssumption
  <2>2. PowerOfTwo[i + 1] = 2 * PowerOfTwo[i]
    BY PowerOfTwoStep, DepthAssumption
  <2>3. PowerOfTwo[m + (i + 1)] = 2 * PowerOfTwo[m + i]
    <3>1. m + (i + 1) \in 1..Depth /\ (m + (i + 1)) - 1 = m + i
      BY DepthAssumption
    <3> QED BY <3>1, PowerOfTwoStep
  <2>4. PowerOfTwo[m] \in Nat /\ PowerOfTwo[i] \in Nat
    BY PowerOfTwoType, DepthAssumption
  <2> QED BY <2>1, <2>2, <2>3, <2>4
<1> HIDE DEF S
<1>3. Nat \subseteq S
  BY <1>1, <1>2, SetInduction
<1> QED BY <1>3 DEF S

-----------------------------------------------------------------------------
(* Squares. *)

\* A length of the grid: the squares of a level lie at multiples of it.
LEMMA SideType ==
  ASSUME NEW c, c.level \in 0..Depth
  PROVE  Side(c) \in Nat \ {0}
BY PowerOfTwoType, DepthAssumption DEF Side

\* A square lies within the domain, at a multiple of its side.
LEMMA CellParts ==
  ASSUME NEW c \in Cells
  PROVE  /\ c.level \in 0..Depth
         /\ c.x \in Nat /\ c.y \in Nat /\ Side(c) \in Nat \ {0}
         /\ c = Cell(c.level, c.x, c.y)
         /\ \E i, j \in 0..(PowerOfTwo[c.level] - 1) : c.x = Side(c) * i /\ c.y = Side(c) * j
<1>1. PICK l \in 0..Depth : c \in LevelCells(l)
  BY DEF Cells
<1>2. PICK i \in 0..(PowerOfTwo[l] - 1), j \in 0..(PowerOfTwo[l] - 1) :
        c = Cell(l, PowerOfTwo[Depth - l] * i, PowerOfTwo[Depth - l] * j)
  BY <1>1 DEF LevelCells
<1>3. c.level = l /\ c.x = PowerOfTwo[Depth - l] * i /\ c.y = PowerOfTwo[Depth - l] * j
  BY <1>2 DEF Cell
<1>4. PowerOfTwo[Depth - l] \in Nat \ {0} /\ PowerOfTwo[l] \in Nat
  BY PowerOfTwoType, DepthAssumption
<1> HIDE DEF Cell
<1>5. c.x \in Nat /\ c.y \in Nat
  BY <1>3, <1>4
<1> QED BY <1>2, <1>3, <1>4, <1>5 DEF Side

\* Multiples of the side, as many as there are, make a square.
LEMMA CellIs ==
  ASSUME NEW l \in 0..Depth, NEW i \in 0..(PowerOfTwo[l] - 1), NEW j \in 0..(PowerOfTwo[l] - 1)
  PROVE  Cell(l, PowerOfTwo[Depth - l] * i, PowerOfTwo[Depth - l] * j) \in LevelCells(l)
BY DEF LevelCells

\* The squares of a level are squares, of that level.
LEMMA LevelCellsAreCells ==
  ASSUME NEW l \in 0..Depth, NEW c \in LevelCells(l)
  PROVE  c \in Cells /\ c.level = l
BY DEF Cells, LevelCells, Cell

\* A square is one of those of its level.
LEMMA CellOfLevel ==
  ASSUME NEW c \in Cells
  PROVE  c \in LevelCells(c.level)
BY DEF Cells, LevelCells, Cell

\* A square as large as two of its level below.
LEMMA HalfSide ==
  ASSUME NEW c \in Cells, c.level < Depth
  PROVE  /\ PowerOfTwo[Depth - c.level - 1] \in Nat \ {0}
         /\ Side(c) = 2 * PowerOfTwo[Depth - c.level - 1]
BY CellParts, PowerOfTwoStep, PowerOfTwoType, DepthAssumption DEF Side

\* Where a child lies.
LEMMA ChildPlace ==
  ASSUME NEW c \in Cells, c.level < Depth, NEW k \in 1..4
  PROVE  LET d == Child(c, k)
             h == PowerOfTwo[Depth - c.level - 1]
         IN  /\ d \in Cells
             /\ d.level = c.level + 1
             /\ Side(d) = h
             /\ d.x = c.x + (IF k \in {2, 4} THEN h ELSE 0)
             /\ d.y = c.y + (IF k \in {3, 4} THEN h ELSE 0)
<1> DEFINE d == Child(c, k)
           h == PowerOfTwo[Depth - c.level - 1]
           a == (k - 1) % 2
           b == (k - 1) \div 2
<1>1. /\ a = IF k \in {2, 4} THEN 1 ELSE 0
      /\ b = IF k \in {3, 4} THEN 1 ELSE 0
  OBVIOUS
<1>2. h \in Nat \ {0} /\ Side(c) = 2 * h
  BY HalfSide
<1>3. d = Cell(c.level + 1, c.x + h * a, c.y + h * b)
  BY DEF Child
<1> HIDE DEF a, b, d, h
<1>4. d.level = c.level + 1 /\ d.x = c.x + h * a /\ d.y = c.y + h * b
  BY <1>3 DEF Cell
<1>5. d.x = c.x + (IF k \in {2, 4} THEN h ELSE 0) /\ d.y = c.y + (IF k \in {3, 4} THEN h ELSE 0)
  BY <1>1, <1>2, <1>4
<1>6. Side(d) = h
  BY <1>4, CellParts, DepthAssumption DEF Side, h
<1>7. d \in LevelCells(c.level + 1)
  <2>1. PICK i \in 0..(PowerOfTwo[c.level] - 1), j \in 0..(PowerOfTwo[c.level] - 1) :
          c.x = Side(c) * i /\ c.y = Side(c) * j
    BY CellParts
  <2>2. c.level + 1 \in 0..Depth /\ PowerOfTwo[c.level + 1] = 2 * PowerOfTwo[c.level]
        /\ PowerOfTwo[c.level] \in Nat /\ a \in 0..1 /\ b \in 0..1
    BY <1>1, CellParts, PowerOfTwoStep, PowerOfTwoType, DepthAssumption
  <2>3. 2 * i + a \in 0..(PowerOfTwo[c.level + 1] - 1) /\ 2 * j + b \in 0..(PowerOfTwo[c.level + 1] - 1)
    BY <2>1, <2>2
  <2>4. d.x = h * (2 * i + a) /\ d.y = h * (2 * j + b)
    BY <2>1, <2>2, <1>2, <1>4
  <2>5. h = PowerOfTwo[Depth - (c.level + 1)]
    BY CellParts, DepthAssumption DEF h
  <2>6. d = Cell(c.level + 1, d.x, d.y)
    BY <1>3, <1>4
  <2> QED BY <2>2, <2>3, <2>4, <2>5, <2>6, CellIs
<1>8. d \in Cells
  BY <1>7, LevelCellsAreCells, CellParts, DepthAssumption
<1> QED BY <1>4, <1>5, <1>6, <1>8 DEF d, h

\* Division with remainder.
LEMMA Division ==
  ASSUME NEW s \in Nat \ {0}, NEW q \in Nat, NEW r \in 0..(s - 1)
  PROVE  (s * q + r) % s = r /\ (s * q + r) \div s = q
<1> DEFINE n == s * q + r
           d == n \div s
           m == n % s
<1>1. n \in Nat /\ d \in Int /\ m \in 0..(s - 1) /\ n = s * d + m
  OBVIOUS
<1>2. n = s * q + r
  OBVIOUS
<1> HIDE DEF n, d, m
<1>3. s * d + m = s * q + r
  BY <1>1, <1>2
<1>4. s * (d - q) = r - m
  BY <1>1, <1>3
<1>5. d = q
  <2>1. ASSUME d - q >= 1 PROVE FALSE
    <3>1. s * (d - q) >= s
      BY <1>1, <2>1
    <3> QED BY <1>1, <1>4, <3>1
  <2>2. ASSUME d - q <= -1 PROVE FALSE
    <3>1. s * (d - q) <= -s
      BY <1>1, <2>2
    <3> QED BY <1>1, <1>4, <3>1
  <2> QED BY <1>1, <2>1, <2>2
<1>6. r = m
  BY <1>1, <1>4, <1>5
<1> QED BY <1>5, <1>6 DEF d, m, n

\* A multiple of an even number and a remainder.
LEMMA HalvedMultiple ==
  ASSUME NEW n \in Int, NEW u \in Int, NEW a \in Int
  PROVE  n * (2 * u + a) = (2 * n) * u + n * a
OBVIOUS

\* A square is a child of its parent.
LEMMA ParentPlace ==
  ASSUME NEW c \in Cells, c.level > 0
  PROVE  LET p == ParentOf(c)
         IN  p \in Cells /\ p.level = c.level - 1 /\ \E k \in 1..4 : c = Child(p, k)
<1> DEFINE p == ParentOf(c)
           h == Side(c)
<1>1. PICK i \in 0..(PowerOfTwo[c.level] - 1), j \in 0..(PowerOfTwo[c.level] - 1) :
        c.x = h * i /\ c.y = h * j
  BY CellParts
<1> DEFINE u == i \div 2
           a == i % 2
           v == j \div 2
           b == j % 2
<1>2. /\ u \in Nat /\ a \in 0..1 /\ i = 2 * u + a
      /\ v \in Nat /\ b \in 0..1 /\ j = 2 * v + b
  <2>1. i \in Nat /\ j \in Nat
    BY PowerOfTwoType, CellParts
  <2> QED BY <2>1
<1> HIDE DEF u, a, v, b
<1>3. h \in Nat \ {0} /\ 2 * h \in Nat \ {0} /\ c.level - 1 \in 0..Depth
  BY CellParts, DepthAssumption
<1>4. PowerOfTwo[c.level] = 2 * PowerOfTwo[c.level - 1] /\ PowerOfTwo[c.level - 1] \in Nat
  BY CellParts, PowerOfTwoStep, PowerOfTwoType, DepthAssumption
<1>5. u \in 0..(PowerOfTwo[c.level - 1] - 1) /\ v \in 0..(PowerOfTwo[c.level - 1] - 1)
  BY <1>2, <1>4
<1>6. PowerOfTwo[Depth - (c.level - 1)] = 2 * h
  <2>1. Depth - (c.level - 1) \in 1..Depth /\ (Depth - (c.level - 1)) - 1 = Depth - c.level
    BY CellParts, DepthAssumption
  <2> QED BY <2>1, PowerOfTwoStep DEF Side
<1>7. c.x = (2 * h) * u + h * a /\ c.y = (2 * h) * v + h * b
  <2>1. h \in Int /\ u \in Int /\ a \in Int /\ v \in Int /\ b \in Int
    BY <1>2, <1>3
  <2>2. /\ h * (2 * u + a) = (2 * h) * u + h * a
        /\ h * (2 * v + b) = (2 * h) * v + h * b
    BY <2>1, HalvedMultiple
  <2>3. c.x = h * (2 * u + a) /\ c.y = h * (2 * v + b)
    BY <1>1, <1>2
  <2> QED BY <2>2, <2>3
<1>8. h * a \in 0..(2 * h - 1) /\ h * b \in 0..(2 * h - 1)
  <2>1. (a = 0 \/ a = 1) /\ (b = 0 \/ b = 1)
    BY <1>2
  <2> QED BY <1>3, <2>1
<1>9. c.x % (2 * h) = h * a /\ c.y % (2 * h) = h * b
  <2> DEFINE s == 2 * h
  <2> HIDE DEF s
  <2>1. \A q \in Nat, r \in 0..(s - 1) : (s * q + r) % s = r
    BY <1>3, Division DEF s
  <2>2. c.x = s * u + h * a /\ c.y = s * v + h * b /\ h * a \in 0..(s - 1) /\ h * b \in 0..(s - 1)
    BY <1>7, <1>8 DEF s
  <2>3. c.x % s = h * a /\ c.y % s = h * b
    BY <1>2, <2>1, <2>2
  <2> QED BY <2>3 DEF s
<1>10. p = Cell(c.level - 1, (2 * h) * u, (2 * h) * v)
  <2>1. c.x - (c.x % (2 * h)) = (2 * h) * u /\ c.y - (c.y % (2 * h)) = (2 * h) * v
    BY <1>2, <1>3, <1>7, <1>9
  <2> QED BY <2>1 DEF ParentOf
<1>11. p \in Cells /\ p.level = c.level - 1
  <2>1. Cell(c.level - 1, PowerOfTwo[Depth - (c.level - 1)] * u,
                          PowerOfTwo[Depth - (c.level - 1)] * v) \in LevelCells(c.level - 1)
    BY <1>3, <1>5, CellIs
  <2>2. p \in LevelCells(c.level - 1)
    BY <2>1, <1>6, <1>10
  <2> QED BY <1>3, <2>2, LevelCellsAreCells
<1>12. p.x = (2 * h) * u /\ p.y = (2 * h) * v
  BY <1>10 DEF Cell
<1> DEFINE k == 1 + a + 2 * b
<1>13. k \in 1..4 /\ (k - 1) % 2 = a /\ (k - 1) \div 2 = b
  <2>1. (a = 0 \/ a = 1) /\ (b = 0 \/ b = 1)
    BY <1>2
  <2> QED BY <2>1
<1>14. c = Child(p, k)
  <2>1. Depth - p.level - 1 = Depth - c.level /\ p.level + 1 = c.level
    BY <1>11, CellParts, DepthAssumption
  <2> HIDE DEF k, p
  <2>2. Child(p, k) = Cell(c.level, p.x + h * a, p.y + h * b)
    BY <1>13, <2>1 DEF Child, Side
  <2>3. p.x + h * a = c.x /\ p.y + h * b = c.y
    BY <1>7, <1>12
  <2> QED BY <2>2, <2>3, CellParts
<1> QED BY <1>11, <1>13, <1>14

\* No two squares have a child in common, and no square has one twice.
LEMMA ChildUnique ==
  ASSUME NEW c \in Cells, c.level < Depth, NEW k \in 1..4
  PROVE  ParentOf(Child(c, k)) = c /\ ChildId(Child(c, k)) = k
<1> DEFINE d == Child(c, k)
           h == PowerOfTwo[Depth - c.level - 1]
           a == IF k \in {2, 4} THEN 1 ELSE 0
           b == IF k \in {3, 4} THEN 1 ELSE 0
<1>1. h \in Nat \ {0} /\ Side(c) = 2 * h
  BY HalfSide
<1>2. /\ d.level = c.level + 1 /\ Side(d) = h
      /\ d.x = c.x + (IF k \in {2, 4} THEN h ELSE 0)
      /\ d.y = c.y + (IF k \in {3, 4} THEN h ELSE 0)
  BY ChildPlace
<1>3. a \in 0..1 /\ b \in 0..1 /\ k = 1 + a + 2 * b
  OBVIOUS
<1>4. d.x = c.x + h * a /\ d.y = c.y + h * b
  BY <1>1, <1>2, CellParts
<1> HIDE DEF d, h, a, b
<1>5. PICK i \in Nat, j \in Nat : c.x = (2 * h) * i /\ c.y = (2 * h) * j
  <2>1. PICK i \in 0..(PowerOfTwo[c.level] - 1), j \in 0..(PowerOfTwo[c.level] - 1) :
          c.x = Side(c) * i /\ c.y = Side(c) * j
    BY CellParts
  <2>2. i \in Nat /\ j \in Nat
    BY PowerOfTwoType, CellParts
  <2> QED BY <1>1, <2>1, <2>2
<1>6. h * a \in 0..(2 * h - 1) /\ h * b \in 0..(2 * h - 1)
  <2>1. (a = 0 \/ a = 1) /\ (b = 0 \/ b = 1)
    BY <1>3
  <2> QED BY <1>1, <2>1
<1>7. d.x % (2 * h) = h * a /\ d.y % (2 * h) = h * b
  <2> DEFINE s == 2 * h
  <2> HIDE DEF s
  <2>1. s \in Nat \ {0} /\ \A q \in Nat, r \in 0..(s - 1) : (s * q + r) % s = r
    BY <1>1, Division DEF s
  <2>2. d.x = s * i + h * a /\ d.y = s * j + h * b /\ h * a \in 0..(s - 1) /\ h * b \in 0..(s - 1)
    BY <1>4, <1>5, <1>6 DEF s
  <2>3. d.x % s = h * a /\ d.y % s = h * b
    BY <2>1, <2>2
  <2> QED BY <2>3 DEF s
<1>8. ParentOf(d) = c
  <2>1. d.x - (d.x % (2 * h)) = c.x /\ d.y - (d.y % (2 * h)) = c.y /\ d.level - 1 = c.level
    <3>1. \A m \in Nat, n \in Nat : (m + n) - n = m
      OBVIOUS
    <3>2. c.x \in Nat /\ c.y \in Nat /\ h * a \in Nat /\ h * b \in Nat /\ c.level \in Nat
      BY <1>1, <1>6, CellParts
    <3> QED BY <1>2, <1>4, <1>7, <3>1, <3>2
  <2> QED BY <1>2, <2>1, CellParts DEF ParentOf
<1>9. d.x \div h = 2 * i + a /\ d.y \div h = 2 * j + b
  <2>1. \A q \in Nat : (h * q + 0) \div h = q
    BY <1>1, Division
  <2>2. d.x = h * (2 * i + a) + 0 /\ d.y = h * (2 * j + b) + 0
        /\ 2 * i + a \in Nat /\ 2 * j + b \in Nat
    BY <1>1, <1>3, <1>4, <1>5
  <2> QED BY <2>1, <2>2
<1>10. ChildId(d) = k
  <2>1. (2 * i + a) % 2 = a /\ (2 * j + b) % 2 = b
    BY <1>3
  <2> QED BY <1>2, <1>3, <1>9, <2>1 DEF ChildId
<1> QED BY <1>8, <1>10 DEF d

-----------------------------------------------------------------------------
(* How squares lie to each other. *)

\* Square a is part of square b.
Inside(a, b) ==
  /\ b.x <= a.x /\ a.x + Side(a) <= b.x + Side(b)
  /\ b.y <= a.y /\ a.y + Side(a) <= b.y + Side(b)

\* Intervals of a grid and of a coarser one do not overlap by halves.
LEMMA GridIntervals ==
  ASSUME NEW s \in Nat \ {0}, NEW m \in Nat \ {0}, NEW i \in Nat, NEW u \in Nat,
         Cross(s * i, s, (s * m) * u, s * m)
  PROVE  (s * m) * u <= s * i /\ s * i + s <= (s * m) * u + s * m
<1> DEFINE w == m * u
<1>1. w \in Nat /\ (s * m) * u = s * w /\ s * w + s * m = s * (w + m) /\ s * i + s = s * (i + 1)
  OBVIOUS
<1>2. s * i < s * (w + m) /\ s * w < s * (i + 1)
  BY <1>1 DEF Cross
<1> HIDE DEF w
<1>3. \A a, b \in Nat : s * a < s * b => a < b
  <2> SUFFICES ASSUME NEW a \in Nat, NEW b \in Nat, b <= a PROVE s * b <= s * a
    OBVIOUS
  <2>1. a - b \in Nat /\ s * (a - b) >= 0 /\ s * a = s * b + s * (a - b)
    OBVIOUS
  <2> QED BY <2>1
<1>4. i < w + m /\ w < i + 1
  BY <1>1, <1>2, <1>3
<1>5. \A a, b \in Nat : a <= b => s * a <= s * b
  <2> SUFFICES ASSUME NEW a \in Nat, NEW b \in Nat, a <= b PROVE s * a <= s * b
    OBVIOUS
  <2>1. b - a \in Nat /\ s * (b - a) >= 0 /\ s * b = s * a + s * (b - a)
    OBVIOUS
  <2> QED BY <2>1
<1>6. s * w <= s * i /\ s * (i + 1) <= s * (w + m)
  BY <1>1, <1>4, <1>5
<1> QED BY <1>1, <1>6

\* Squares that overlap are nested.
LEMMA Nesting ==
  ASSUME NEW a \in Cells, NEW b \in Cells, Overlap(a, b), b.level <= a.level
  PROVE  Inside(a, b)
<1> DEFINE s == Side(a)
           m == PowerOfTwo[a.level - b.level]
<1>1. a.level - b.level \in 0..Depth /\ Depth - a.level \in 0..Depth
      /\ Depth - b.level = (Depth - a.level) + (a.level - b.level)
  BY CellParts, DepthAssumption
<1>2. s \in Nat \ {0} /\ m \in Nat \ {0}
  BY <1>1, CellParts, PowerOfTwoType
<1>3. Side(b) = s * m
  BY <1>1, PowerOfTwoSum, CellParts, DepthAssumption DEF Side
<1>4. PICK i \in Nat, j \in Nat : a.x = s * i /\ a.y = s * j
  BY CellParts, PowerOfTwoType
<1>5. PICK u \in Nat, v \in Nat : b.x = (s * m) * u /\ b.y = (s * m) * v
  BY <1>3, CellParts, PowerOfTwoType
<1> HIDE DEF s, m
<1>6. Cross(s * i, s, (s * m) * u, s * m) /\ Cross(s * j, s, (s * m) * v, s * m)
  BY <1>3, <1>4, <1>5 DEF Overlap, s
<1>7. /\ (s * m) * u <= s * i /\ s * i + s <= (s * m) * u + s * m
      /\ (s * m) * v <= s * j /\ s * j + s <= (s * m) * v + s * m
  BY <1>2, <1>6, GridIntervals
<1> QED BY <1>3, <1>4, <1>5, <1>7 DEF Inside, s

\* Touching and overlapping are symmetric; an inner square overlaps the outer.
LEMMA OverlapOfSquares ==
  ASSUME NEW a \in Cells, NEW b \in Cells
  PROVE  /\ Overlap(a, a)
         /\ Overlap(a, b) <=> Overlap(b, a)
         /\ Touch(a, b) <=> Touch(b, a)
         /\ Overlap(a, b) => Touch(a, b)
         /\ Inside(a, b) => Overlap(a, b)
BY CellParts DEF Overlap, Touch, Cross, Meet, Inside

\* Squares of one level overlap only when they are the same.
LEMMA SameLevel ==
  ASSUME NEW a \in Cells, NEW b \in Cells, Overlap(a, b), a.level = b.level
  PROVE  a = b
<1>1. Inside(a, b) /\ Inside(b, a)
  <2>1. b.level <= a.level /\ a.level <= b.level
    BY CellParts
  <2> QED BY <2>1, Nesting, OverlapOfSquares
<1>2. a.x = b.x /\ a.y = b.y
  BY <1>1, CellParts DEF Inside
<1> QED BY <1>2, CellParts

\* What meets a part meets the whole.
LEMMA WholeMeets ==
  ASSUME NEW a \in Cells, NEW b \in Cells, NEW c \in Cells, Inside(a, b)
  PROVE  /\ Touch(a, c) => Touch(b, c)
         /\ Overlap(a, c) => Overlap(b, c)
         /\ Inside(c, a) => Inside(c, b)
BY CellParts DEF Overlap, Touch, Cross, Meet, Inside

\* A square is made of its children.
LEMMA ChildrenFill ==
  ASSUME NEW c \in Cells, c.level < Depth, NEW a \in Cells
  PROVE  /\ \A k \in 1..4 : Inside(Child(c, k), c)
         /\ Touch(a, c) => \E k \in 1..4 : Touch(a, Child(c, k))
         /\ Overlap(a, c) => \E k \in 1..4 : Overlap(a, Child(c, k))
<1> DEFINE h == PowerOfTwo[Depth - c.level - 1]
<1>1. /\ h \in Nat \ {0} /\ Side(c) = 2 * h
      /\ c.x \in Nat /\ c.y \in Nat /\ a.x \in Nat /\ a.y \in Nat /\ Side(a) \in Nat \ {0}
  BY HalfSide, CellParts
<1>2. \A k \in 1..4 : /\ Side(Child(c, k)) = h
                      /\ Child(c, k).x = c.x + (IF k \in {2, 4} THEN h ELSE 0)
                      /\ Child(c, k).y = c.y + (IF k \in {3, 4} THEN h ELSE 0)
  BY ChildPlace
<1> HIDE DEF h
<1>3. \A k \in 1..4 : Inside(Child(c, k), c)
  BY <1>1, <1>2 DEF Inside
<1>4. /\ Side(Child(c, 1)) = h /\ Child(c, 1).x = c.x /\ Child(c, 1).y = c.y
      /\ Side(Child(c, 2)) = h /\ Child(c, 2).x = c.x + h /\ Child(c, 2).y = c.y
      /\ Side(Child(c, 3)) = h /\ Child(c, 3).x = c.x /\ Child(c, 3).y = c.y + h
      /\ Side(Child(c, 4)) = h /\ Child(c, 4).x = c.x + h /\ Child(c, 4).y = c.y + h
  BY <1>1, <1>2
<1>5. ASSUME Touch(a, c)
      PROVE  \E k \in {1, 2, 3, 4} : Touch(a, Child(c, k))
  BY <1>1, <1>4, <1>5 DEF Touch, Meet
<1>6. ASSUME Overlap(a, c)
      PROVE  \E k \in {1, 2, 3, 4} : Overlap(a, Child(c, k))
  BY <1>1, <1>4, <1>6 DEF Overlap, Cross
<1>7. {1, 2, 3, 4} \subseteq 1..4
  OBVIOUS
<1> QED BY <1>3, <1>5, <1>6, <1>7

\* The children of a square touch one another and do not overlap.
LEMMA ChildrenApart ==
  ASSUME NEW c \in Cells, c.level < Depth, NEW j \in 1..4, NEW k \in 1..4, j # k
  PROVE  Touch(Child(c, j), Child(c, k)) /\ ~ Overlap(Child(c, j), Child(c, k))
<1> DEFINE h == PowerOfTwo[Depth - c.level - 1]
<1>1. h \in Nat \ {0} /\ c.x \in Nat /\ c.y \in Nat
  BY HalfSide, CellParts
<1>2. \A i \in 1..4 : /\ Side(Child(c, i)) = h
                      /\ Child(c, i).x = c.x + (IF i \in {2, 4} THEN h ELSE 0)
                      /\ Child(c, i).y = c.y + (IF i \in {3, 4} THEN h ELSE 0)
  BY ChildPlace
<1> HIDE DEF h
<1> QED BY <1>1, <1>2 DEF Touch, Meet, Overlap, Cross

\* A square is not larger than one it is part of.
LEMMA LargerOutside ==
  ASSUME NEW a \in Cells, NEW b \in Cells, Inside(a, b)
  PROVE  b.level <= a.level
<1> SUFFICES ASSUME a.level < b.level PROVE FALSE
  BY CellParts
<1>1. Overlap(a, b) /\ a.level < Depth /\ a.level <= b.level
  BY OverlapOfSquares, CellParts, DepthAssumption
<1>2. PICK j \in 1..4 : Overlap(b, Child(a, j))
  BY <1>1, ChildrenFill, OverlapOfSquares
<1> DEFINE d == Child(a, j)
<1>3. d \in Cells /\ d.level = a.level + 1 /\ Side(a) = 2 * Side(d)
  <2>1. d \in Cells /\ d.level = a.level + 1 /\ Side(d) = PowerOfTwo[Depth - a.level - 1]
    BY <1>1, ChildPlace
  <2> QED BY <1>1, <2>1, HalfSide
<1> HIDE DEF d
<1>4. d.level <= b.level
  BY <1>3, CellParts
<1>5. Inside(b, d)
  BY <1>2, <1>3, <1>4, Nesting DEF d
<1>6. /\ a.x \in Nat /\ b.x \in Nat /\ d.x \in Nat /\ Side(a) \in Nat \ {0}
      /\ Side(b) \in Nat \ {0} /\ Side(d) \in Nat \ {0}
  BY <1>3, CellParts
<1>7. b.x <= a.x /\ a.x + Side(a) <= b.x + Side(b) /\ d.x <= b.x /\ b.x + Side(b) <= d.x + Side(d)
  BY <1>5 DEF Inside
<1> QED BY <1>3, <1>6, <1>7

-----------------------------------------------------------------------------
(* Forests. *)

\* The domain ends where a square of level 0 does.
LEMMA CellInDomain ==
  ASSUME NEW c \in Cells
  PROVE  c.x + Side(c) <= PowerOfTwo[Depth] /\ c.y + Side(c) <= PowerOfTwo[Depth]
<1> DEFINE s == Side(c)
           n == PowerOfTwo[c.level]
<1>1. PICK i \in 0..(n - 1), j \in 0..(n - 1) : c.x = s * i /\ c.y = s * j
  BY CellParts
<1>2. s \in Nat \ {0} /\ n \in Nat \ {0}
  BY CellParts, PowerOfTwoType
<1>3. s * n = PowerOfTwo[Depth]
  <2>1. Depth - c.level \in Nat /\ c.level \in Nat /\ (Depth - c.level) + c.level = Depth
    BY CellParts, DepthAssumption
  <2> QED BY <2>1, PowerOfTwoSum, DepthAssumption DEF Side
<1> HIDE DEF s, n
<1>4. ASSUME NEW k \in 0..(n - 1) PROVE s * k + s <= s * n
  <2>1. n - (k + 1) \in Nat /\ s * (n - (k + 1)) >= 0 /\ s * n = (s * k + s) + s * (n - (k + 1))
    BY <1>2
  <2> QED BY <1>2, <2>1
<1> QED BY <1>1, <1>3, <1>4 DEF s

\* The smallest squares.
LEMMA SmallestCell ==
  ASSUME NEW x \in 0..(PowerOfTwo[Depth] - 1), NEW y \in 0..(PowerOfTwo[Depth] - 1)
  PROVE  LET q == Cell(Depth, x, y)
         IN  q \in LevelCells(Depth) /\ q \in Cells /\ q.x = x /\ q.y = y /\ Side(q) = 1
<1> DEFINE q == Cell(Depth, x, y)
<1>1. PowerOfTwo[Depth - Depth] = 1
  BY PowerOfTwoStep, DepthAssumption
<1>2. q \in LevelCells(Depth)
  <2>1. Cell(Depth, 1 * x, 1 * y) \in LevelCells(Depth)
    BY <1>1, CellIs, DepthAssumption
  <2>2. 1 * x = x /\ 1 * y = y
    BY PowerOfTwoType, DepthAssumption
  <2> QED BY <2>1, <2>2
<1>3. q.level = Depth /\ q.x = x /\ q.y = y
  BY DEF Cell
<1> QED BY <1>1, <1>2, <1>3, LevelCellsAreCells, DepthAssumption DEF Side

\* A forest has a leaf wherever there is a square, and one that touches what
\* touches the square.
LEMMA LeafThere ==
  ASSUME NEW L, Tiling(L), NEW e \in Cells, NEW d \in Cells, Touch(d, e)
  PROVE  \E c \in L : Overlap(c, e) /\ Touch(c, d)
<1> DEFINE near(a, b, s) == IF a <= b THEN b ELSE IF a <= b + s - 1 THEN a ELSE b + s - 1
           q == Cell(Depth, near(d.x, e.x, Side(e)), near(d.y, e.y, Side(e)))
<1>1. /\ d.x \in Nat /\ d.y \in Nat /\ Side(d) \in Nat \ {0}
      /\ e.x \in Nat /\ e.y \in Nat /\ Side(e) \in Nat \ {0}
      /\ e.x + Side(e) <= PowerOfTwo[Depth] /\ e.y + Side(e) <= PowerOfTwo[Depth]
      /\ PowerOfTwo[Depth] \in Nat
  BY CellParts, CellInDomain, PowerOfTwoType, DepthAssumption
<1>2. /\ near(d.x, e.x, Side(e)) \in 0..(PowerOfTwo[Depth] - 1)
      /\ near(d.y, e.y, Side(e)) \in 0..(PowerOfTwo[Depth] - 1)
  BY <1>1
<1>3. /\ q \in LevelCells(Depth) /\ q \in Cells /\ Side(q) = 1
      /\ q.x = near(d.x, e.x, Side(e)) /\ q.y = near(d.y, e.y, Side(e))
  BY <1>2, SmallestCell
<1> HIDE DEF q
<1>4. Inside(q, e) /\ Touch(q, d)
  BY <1>1, <1>3 DEF Inside, Touch, Meet
<1>5. PICK c \in L : Overlap(c, q)
  BY <1>3 DEF Tiling
<1>6. c \in Cells /\ q.level >= c.level
  <2>1. c \in Cells
    BY DEF Tiling
  <2>2. q.level = Depth
    BY <1>3, LevelCellsAreCells, DepthAssumption
  <2> QED BY <2>1, <2>2, CellParts, DepthAssumption
<1>7. Inside(q, c)
  BY <1>3, <1>5, <1>6, Nesting, OverlapOfSquares
<1>8. Touch(c, d)
  BY <1>3, <1>4, <1>6, <1>7, WholeMeets
<1>9. Overlap(c, e)
  <2>1. Overlap(q, c)
    BY <1>3, <1>5, <1>6, OverlapOfSquares
  <2>2. Overlap(e, c)
    BY <1>3, <1>4, <1>6, <2>1, WholeMeets
  <2> QED BY <1>6, <2>2, OverlapOfSquares
<1> QED BY <1>8, <1>9

\* A level is a forest.
LEMMA LevelTiling ==
  ASSUME NEW l \in 0..Depth
  PROVE  Tiling(LevelCells(l))
<1> DEFINE s == PowerOfTwo[Depth - l]
           n == PowerOfTwo[l]
<1>1. s \in Nat \ {0} /\ n \in Nat \ {0} /\ s * n = PowerOfTwo[Depth]
  <2>1. Depth - l \in Nat /\ l \in Nat /\ (Depth - l) + l = Depth
    BY DepthAssumption
  <2> QED BY <2>1, PowerOfTwoSum, PowerOfTwoType, DepthAssumption
<1>2. \A c \in LevelCells(l) : c \in Cells /\ c.level = l
  BY LevelCellsAreCells
<1>3. \A c, d \in LevelCells(l) : c # d => ~ Overlap(c, d)
  BY <1>2, SameLevel
<1>4. ASSUME NEW q \in LevelCells(Depth) PROVE \E c \in LevelCells(l) : Overlap(c, q)
  <2>1. /\ q \in Cells /\ q.level = Depth /\ q.x \in Nat /\ q.y \in Nat /\ Side(q) = 1
        /\ q.x + Side(q) <= PowerOfTwo[Depth] /\ q.y + Side(q) <= PowerOfTwo[Depth]
    BY LevelCellsAreCells, CellParts, CellInDomain, PowerOfTwoStep, DepthAssumption DEF Side
  <2> DEFINE i == q.x \div s
             j == q.y \div s
             c == Cell(l, s * i, s * j)
  <2>2. /\ i \in Nat /\ s * i <= q.x /\ q.x < s * i + s
        /\ j \in Nat /\ s * j <= q.y /\ q.y < s * j + s
    BY <1>1, <2>1
  <2> HIDE DEF i, j, s, n
  <2>3. ASSUME NEW k \in Nat, s * k < s * n PROVE k < n
    <3>1. ASSUME n <= k PROVE FALSE
      <4>1. k - n \in Nat /\ s * (k - n) >= 0 /\ s * k = s * n + s * (k - n)
        BY <1>1, <3>1
      <4>2. s * k \in Int /\ s * n \in Int /\ s * (k - n) \in Int
        BY <1>1
      <4> QED BY <2>3, <4>1, <4>2
    <3> QED BY <1>1, <3>1
  <2>4. s * i < s * n /\ s * j < s * n
    BY <1>1, <2>1, <2>2
  <2>5. i \in 0..(n - 1) /\ j \in 0..(n - 1)
    BY <1>1, <2>2, <2>3, <2>4
  <2>6. c \in LevelCells(l)
    BY <2>5, CellIs DEF s, n
  <2>7. c.x = s * i /\ c.y = s * j /\ Side(c) = s
    BY DEF Cell, Side, s
  <2> HIDE DEF c
  <2>8. Overlap(c, q)
    BY <1>1, <2>1, <2>2, <2>7 DEF Overlap, Cross
  <2> QED BY <2>6, <2>8
<1> QED BY <1>2, <1>3, <1>4 DEF Tiling

\* A forest in which some leaves are refined.
Split(L, R) == (L \ R) \cup UNION {Children(p) : p \in R}

\* Refining leaves of a forest leaves a forest.
LEMMA SplitTiling ==
  ASSUME NEW L, Tiling(L), NEW R, R \subseteq L, \A p \in R : p.level < Depth
  PROVE  Tiling(Split(L, R))
<1>1. \A c \in L : c \in Cells
  BY DEF Tiling
<1>2. \A c, d \in L : Overlap(c, d) => c = d
  BY DEF Tiling
<1>3. ASSUME NEW p \in R, NEW c \in Children(p)
      PROVE  c \in Cells /\ Inside(c, p) /\ \E k \in 1..4 : c = Child(p, k)
  BY <1>1, ChildPlace, ChildrenFill DEF Children
<1>4. \A c \in Split(L, R) : c \in Cells
  BY <1>1, <1>3 DEF Split
<1>5. ASSUME NEW p \in R, NEW c \in Children(p), NEW d \in Cells, Overlap(c, d)
      PROVE  Overlap(p, d)
  BY <1>1, <1>3, <1>5, WholeMeets
<1>6. ASSUME NEW c \in Split(L, R), NEW d \in Split(L, R), Overlap(c, d)
      PROVE  c = d
  <2>1. CASE c \in L \ R /\ d \in L \ R
    BY <1>2, <1>6, <2>1
  <2>2. CASE c \in L \ R /\ \E q \in R : d \in Children(q)
    <3>1. PICK q \in R : d \in Children(q)
      BY <2>2
    <3>2. Overlap(q, c)
      BY <1>4, <1>5, <1>6, <3>1, OverlapOfSquares
    <3> QED BY <1>2, <2>2, <3>2
  <2>3. CASE d \in L \ R /\ \E p \in R : c \in Children(p)
    <3>1. PICK p \in R : c \in Children(p)
      BY <2>3
    <3>2. Overlap(p, d)
      BY <1>4, <1>5, <1>6, <3>1
    <3> QED BY <1>2, <2>3, <3>2
  <2>4. CASE (\E p \in R : c \in Children(p)) /\ \E q \in R : d \in Children(q)
    <3>1. PICK p \in R, q \in R : c \in Children(p) /\ d \in Children(q)
      BY <2>4
    <3>2. Overlap(p, d) /\ Overlap(q, p)
      <4>1. Overlap(p, d)
        BY <1>4, <1>5, <1>6, <3>1
      <4>2. Overlap(d, p)
        BY <1>1, <1>4, <4>1, OverlapOfSquares
      <4> QED BY <1>1, <1>5, <3>1, <4>1, <4>2
    <3>3. q = p
      BY <1>2, <3>2
    <3>4. PICK j \in 1..4, k \in 1..4 : c = Child(p, j) /\ d = Child(p, k)
      BY <1>3, <3>1, <3>3
    <3> QED BY <1>1, <1>6, <3>4, ChildrenApart
  <2> QED BY <2>1, <2>2, <2>3, <2>4 DEF Split
<1>7. ASSUME NEW q \in LevelCells(Depth) PROVE \E c \in Split(L, R) : Overlap(c, q)
  <2>1. PICK p \in L : Overlap(p, q)
    BY DEF Tiling
  <2>2. CASE p \notin R
    BY <2>1, <2>2 DEF Split
  <2>3. CASE p \in R
    <3>1. q \in Cells
      BY LevelCellsAreCells, DepthAssumption
    <3>2. PICK k \in 1..4 : Overlap(q, Child(p, k))
      BY <1>1, <2>1, <2>3, <3>1, ChildrenFill, OverlapOfSquares
    <3>3. Child(p, k) \in Split(L, R) /\ Overlap(Child(p, k), q)
      BY <1>1, <2>3, <3>1, <3>2, ChildPlace, OverlapOfSquares DEF Split, Children
    <3> QED BY <3>3
  <2> QED BY <2>2, <2>3
<1> QED BY <1>4, <1>6, <1>7 DEF Tiling

\* A forest in which some families are put together.
Join(L, P) == (L \ UNION {Children(p) : p \in P}) \cup P

\* The parent of a family of a forest is a square above the deepest level.
LEMMA FamilyParent ==
  ASSUME NEW L, Tiling(L), NEW p \in Families(L)
  PROVE  p \in Cells /\ p.level < Depth /\ Children(p) \subseteq L
<1>1. PICK c \in L : c.level > 0 /\ p = ParentOf(c)
  BY DEF Families
<1>2. c \in Cells /\ c.level \in 0..Depth
  BY CellParts DEF Tiling
<1>3. p \in Cells /\ p.level = c.level - 1
  BY <1>1, <1>2, ParentPlace
<1> QED BY <1>2, <1>3, DepthAssumption DEF Families

\* Putting families of a forest together leaves a forest.
LEMMA JoinTiling ==
  ASSUME NEW L, Tiling(L), NEW P, P \subseteq Families(L)
  PROVE  Tiling(Join(L, P))
<1>1. \A c \in L : c \in Cells
  BY DEF Tiling
<1>2. \A c, d \in L : Overlap(c, d) => c = d
  BY DEF Tiling
<1>3. \A p \in P : p \in Cells /\ p.level < Depth /\ Children(p) \subseteq L
  BY FamilyParent
<1>4. \A c \in Join(L, P) : c \in Cells
  BY <1>1, <1>3 DEF Join
<1>6. ASSUME NEW p \in P, NEW q \in P, Overlap(p, q), q.level <= p.level
      PROVE  p = q
  <2>1. PICK k \in 1..4 : Overlap(p, Child(q, k))
    BY <1>3, <1>6, ChildrenFill
  <2>2. Child(q, k) \in L /\ Child(q, k) \in Cells /\ Child(q, k).level = q.level + 1
    BY <1>3, ChildPlace DEF Children
  <2>3. PICK j \in 1..4 : Overlap(Child(q, k), Child(p, j))
    BY <1>3, <2>1, <2>2, ChildrenFill, OverlapOfSquares
  <2>4. Child(p, j) \in L /\ Child(p, j) \in Cells /\ Child(p, j).level = p.level + 1
    BY <1>3, ChildPlace DEF Children
  <2>5. Child(q, k) = Child(p, j)
    BY <1>2, <2>2, <2>3, <2>4
  <2> QED BY <1>3, <2>5, ChildUnique
<1>7. ASSUME NEW c \in Join(L, P), NEW d \in Join(L, P), Overlap(c, d)
      PROVE  c = d
  <2>0. c \in Cells /\ d \in Cells /\ Overlap(d, c)
    BY <1>4, <1>7, OverlapOfSquares
  <2>1. ASSUME NEW p \in P, NEW e \in L, e \notin UNION {Children(q) : q \in P}
        PROVE  ~ Overlap(p, e)
    <3> SUFFICES ASSUME Overlap(p, e) PROVE FALSE
      OBVIOUS
    <3>1. e \in Cells /\ p \in Cells
      BY <1>1, <1>3
    <3>2. PICK k \in 1..4 : Overlap(e, Child(p, k))
      BY <1>3, <3>1, ChildrenFill, OverlapOfSquares
    <3>3. Child(p, k) \in Children(p) /\ Child(p, k) \in L
      BY <1>3 DEF Children
    <3>4. e = Child(p, k)
      BY <1>2, <3>2, <3>3
    <3> QED BY <2>1, <3>3, <3>4
  <2>2. CASE c \notin P /\ d \notin P
    BY <1>2, <1>7, <2>2 DEF Join
  <2>3. CASE c \in P /\ d \notin P
    BY <1>7, <2>1, <2>3 DEF Join
  <2>4. CASE c \notin P /\ d \in P
    BY <2>0, <2>1, <2>4 DEF Join
  <2>5. CASE c \in P /\ d \in P
    <3>1. d.level <= c.level \/ c.level <= d.level
      BY <2>0, CellParts
    <3> QED BY <1>6, <1>7, <2>0, <2>5, <3>1
  <2> QED BY <2>2, <2>3, <2>4, <2>5
<1>8. ASSUME NEW q \in LevelCells(Depth) PROVE \E c \in Join(L, P) : Overlap(c, q)
  <2>1. PICK c \in L : Overlap(c, q)
    BY DEF Tiling
  <2>2. CASE c \notin UNION {Children(p) : p \in P}
    BY <2>1, <2>2 DEF Join
  <2>3. CASE c \in UNION {Children(p) : p \in P}
    <3>1. PICK p \in P : c \in Children(p)
      BY <2>3
    <3>2. q \in Cells
      BY LevelCellsAreCells, DepthAssumption
    <3>3. Inside(c, p)
      BY <1>3, <3>1, <3>2, ChildrenFill DEF Children
    <3>4. Overlap(p, q)
      BY <1>1, <1>3, <2>1, <3>2, <3>3, WholeMeets
    <3> QED BY <3>4 DEF Join
  <2> QED BY <2>2, <2>3
<1> QED BY <1>4, <1>7, <1>8 DEF Tiling

-----------------------------------------------------------------------------
(* The z-order. *)

\* The recursion defines a function.
LEMMA SpreadDef ==
  Spread = [n \in 0..PowerOfTwo[Depth] |->
              IF n = 0 THEN 0 ELSE (n % 2) + 4 * Spread[n \div 2]]
<1> DEFINE P(d) == \E f : f = [n \in 0..d |->
                                 IF n = 0 THEN 0 ELSE (n % 2) + 4 * f[n \div 2]]
           S == {d \in Nat : P(d)}
<1>1. P(0)
  <2> DEFINE f == [n \in 0..0 |-> 0]
  <2>1. f = [n \in 0..0 |-> IF n = 0 THEN 0 ELSE (n % 2) + 4 * f[n \div 2]]
    OBVIOUS
  <2> HIDE DEF f
  <2> QED BY <2>1
<1>2. ASSUME NEW d \in Nat, P(d) PROVE P(d + 1)
  <2>1. PICK f : f = [n \in 0..d |-> IF n = 0 THEN 0 ELSE (n % 2) + 4 * f[n \div 2]]
    BY <1>2
  <2> DEFINE last == ((d + 1) % 2) + 4 * f[(d + 1) \div 2]
             g == [n \in 0..(d + 1) |-> IF n = d + 1 THEN last ELSE f[n]]
  <2>2. ASSUME NEW n \in 0..(d + 1)
        PROVE  g[n] = IF n = 0 THEN 0 ELSE (n % 2) + 4 * g[n \div 2]
    <3>1. n # 0 => n \div 2 \in 0..d /\ n \div 2 \in 0..(d + 1) /\ n \div 2 # d + 1
      OBVIOUS
    <3>2. CASE n = d + 1
      <4>1. g[n] = last /\ g[n \div 2] = f[n \div 2] /\ n # 0
        BY <3>1, <3>2
      <4> HIDE DEF g
      <4> QED BY <3>2, <4>1
    <3>3. CASE n # d + 1
      <4>1. n \in 0..d /\ g[n] = f[n] /\ (n # 0 => g[n \div 2] = f[n \div 2])
        BY <3>1, <3>3
      <4> HIDE DEF g
      <4> QED BY <4>1, <2>1
    <3> QED BY <3>2, <3>3
  <2>3. g = [n \in 0..(d + 1) |-> g[n]]
    OBVIOUS
  <2> HIDE DEF g
  <2>4. g = [n \in 0..(d + 1) |-> IF n = 0 THEN 0 ELSE (n % 2) + 4 * g[n \div 2]]
    BY <2>2, <2>3
  <2> QED BY <2>4
<1> HIDE DEF P
<1>3. PowerOfTwo[Depth] \in S
  <2> HIDE DEF S
  <2>1. 0 \in S /\ \A d \in Nat : d \in S => d + 1 \in S
    BY <1>1, <1>2 DEF S
  <2> QED BY <2>1, SetInduction, PowerOfTwoType, DepthAssumption
<1>4. \E f : f = [n \in 0..PowerOfTwo[Depth] |->
                    IF n = 0 THEN 0 ELSE (n % 2) + 4 * f[n \div 2]]
  BY <1>3 DEF P
<1> QED BY <1>4 DEF Spread

\* One bit of a coordinate.
LEMMA SpreadStep ==
  /\ Spread[0] = 0
  /\ \A n \in 0..PowerOfTwo[Depth] : Spread[n] = (n % 2) + 4 * Spread[n \div 2]
<1> DEFINE F(f) == [n \in 0..PowerOfTwo[Depth] |->
                      IF n = 0 THEN 0 ELSE (n % 2) + 4 * f[n \div 2]]
           D == 0..PowerOfTwo[Depth]
<1>1. Spread = F(Spread)
  BY SpreadDef
<1>2. \A n \in D : F(Spread)[n] = IF n = 0 THEN 0 ELSE (n % 2) + 4 * Spread[n \div 2]
  OBVIOUS
<1>3. \A n \in D : Spread[n] = IF n = 0 THEN 0 ELSE (n % 2) + 4 * Spread[n \div 2]
  <2> HIDE DEF F
  <2> QED BY <1>1, <1>2
<1>4. 0 \in D
  BY PowerOfTwoType, DepthAssumption
<1>5. Spread[0] = 0
  BY <1>3, <1>4
<1>6. 0 % 2 = 0 /\ 0 \div 2 = 0
  OBVIOUS
<1> HIDE DEF D
<1>7. \A n \in D : Spread[n] = (n % 2) + 4 * Spread[n \div 2]
  BY <1>3, <1>5, <1>6
<1> QED BY <1>5, <1>7 DEF D

\* Lengths grow with the level.
LEMMA PowerOfTwoGrows ==
  ASSUME NEW k \in 0..Depth
  PROVE  PowerOfTwo[k] <= PowerOfTwo[Depth]
<1>1. Depth - k \in 0..Depth /\ k + (Depth - k) = Depth
  BY DepthAssumption
<1>2. PowerOfTwo[Depth] = PowerOfTwo[k] * PowerOfTwo[Depth - k]
  BY <1>1, PowerOfTwoSum
<1>3. PowerOfTwo[k] \in Nat \ {0} /\ PowerOfTwo[Depth - k] \in Nat \ {0}
  BY <1>1, PowerOfTwoType
<1>4. \A a, b \in Nat \ {0} : a <= a * b
  <2> SUFFICES ASSUME NEW a \in Nat \ {0}, NEW b \in Nat \ {0} PROVE a <= a * b
    OBVIOUS
  <2>1. b - 1 \in Nat /\ a * (b - 1) >= 0 /\ a * b = a + a * (b - 1)
    OBVIOUS
  <2> QED BY <2>1
<1> QED BY <1>2, <1>3, <1>4

\* The bits of a coordinate below a length leave two thirds of the place free,
\* so that those of the other coordinate fit.
LEMMA SpreadBound ==
  ASSUME NEW k \in 0..Depth, NEW n \in 0..(PowerOfTwo[k] - 1)
  PROVE  Spread[n] \in Nat /\ 3 * Spread[n] < PowerOfTwo[k] * PowerOfTwo[k]
<1> DEFINE S == {i \in Nat : i <= Depth =>
                   \A m \in 0..(PowerOfTwo[i] - 1) :
                     Spread[m] \in Nat /\ 3 * Spread[m] < PowerOfTwo[i] * PowerOfTwo[i]}
<1>1. 0 \in S
  BY PowerOfTwoStep, SpreadStep
<1>2. ASSUME NEW i \in Nat, i \in S PROVE i + 1 \in S
  <2> SUFFICES ASSUME i + 1 <= Depth, NEW m \in 0..(PowerOfTwo[i + 1] - 1)
               PROVE  Spread[m] \in Nat
                      /\ 3 * Spread[m] < PowerOfTwo[i + 1] * PowerOfTwo[i + 1]
    OBVIOUS
  <2> DEFINE h == PowerOfTwo[i]
  <2>1. i \in 0..Depth /\ i + 1 \in 1..Depth /\ (i + 1) - 1 = i
    BY DepthAssumption
  <2>2. h \in Nat \ {0} /\ PowerOfTwo[i + 1] = 2 * h
    BY <2>1, PowerOfTwoType, PowerOfTwoStep
  <2>3. \A u \in 0..(h - 1) : Spread[u] \in Nat /\ 3 * Spread[u] < h * h
    BY <1>2, <2>1
  <2> HIDE DEF h
  <2>4. m \div 2 \in 0..(h - 1) /\ m % 2 \in 0..1
    BY <2>2
  <2>5. m \in 0..PowerOfTwo[Depth]
    <3>1. PowerOfTwo[i + 1] <= PowerOfTwo[Depth] /\ PowerOfTwo[Depth] \in Nat
      BY <2>1, PowerOfTwoGrows, PowerOfTwoType, DepthAssumption
    <3> QED BY <2>2, <3>1
  <2>6. Spread[m] = (m % 2) + 4 * Spread[m \div 2]
    BY <2>5, SpreadStep
  <2>7. (2 * h) * (2 * h) = 4 * (h * h) /\ h * h \in Nat
    BY <2>2
  <2>8. Spread[m \div 2] \in Nat /\ 3 * Spread[m \div 2] < h * h
    BY <2>3, <2>4
  <2> DEFINE q == h * h
             z == Spread[m \div 2]
             b == m % 2
  <2>9. q \in Nat /\ z \in Nat /\ b \in 0..1 /\ 3 * z < q
    BY <2>4, <2>7, <2>8
  <2>10. Spread[m] = b + 4 * z /\ PowerOfTwo[i + 1] * PowerOfTwo[i + 1] = 4 * q
    BY <2>2, <2>6, <2>7
  <2> HIDE DEF q, z, b
  <2> QED BY <2>9, <2>10
<1> HIDE DEF S
<1>3. Nat \subseteq S
  BY <1>1, <1>2, SetInduction
<1> QED BY <1>3, DepthAssumption DEF S

\* The bits of a coordinate above a length and those below it.
LEMMA SpreadShift ==
  ASSUME NEW k \in 0..Depth, NEW a \in Nat, NEW b \in 0..(PowerOfTwo[k] - 1),
         PowerOfTwo[k] * a + b < PowerOfTwo[Depth]
  PROVE  Spread[PowerOfTwo[k] * a + b]
           = (PowerOfTwo[k] * PowerOfTwo[k]) * Spread[a] + Spread[b]
<1> DEFINE S == {i \in Nat : i <= Depth =>
                   \A c \in 0..(PowerOfTwo[i] - 1) :
                     PowerOfTwo[i] * a + c < PowerOfTwo[Depth] =>
                       Spread[PowerOfTwo[i] * a + c]
                         = (PowerOfTwo[i] * PowerOfTwo[i]) * Spread[a] + Spread[c]}
<1>0. a < PowerOfTwo[Depth] /\ Spread[a] \in Nat
  <2>1. PowerOfTwo[k] \in Nat \ {0} /\ PowerOfTwo[Depth] \in Nat
    BY PowerOfTwoType, DepthAssumption
  <2>2. \A s \in Nat \ {0} : s * a >= a
    <3> SUFFICES ASSUME NEW s \in Nat \ {0} PROVE s * a >= a
      OBVIOUS
    <3>1. s - 1 \in Nat /\ (s - 1) * a >= 0 /\ s * a = a + (s - 1) * a
      OBVIOUS
    <3> QED BY <3>1
  <2>3. PowerOfTwo[k] * a \in Nat /\ b \in Nat
    BY <2>1
  <2>4. a < PowerOfTwo[Depth]
    BY <2>1, <2>2, <2>3
  <2>5. a \in 0..(PowerOfTwo[Depth] - 1) /\ Depth \in 0..Depth
    BY <2>1, <2>4, DepthAssumption
  <2> QED BY <2>4, <2>5, SpreadBound
<1>1. 0 \in S
  BY <1>0, PowerOfTwoStep, SpreadStep
<1>2. ASSUME NEW i \in Nat, i \in S PROVE i + 1 \in S
  <2> SUFFICES ASSUME i + 1 <= Depth, NEW c \in 0..(PowerOfTwo[i + 1] - 1),
                      PowerOfTwo[i + 1] * a + c < PowerOfTwo[Depth]
               PROVE  Spread[PowerOfTwo[i + 1] * a + c]
                        = (PowerOfTwo[i + 1] * PowerOfTwo[i + 1]) * Spread[a] + Spread[c]
    OBVIOUS
  <2> DEFINE h == PowerOfTwo[i]
             n == PowerOfTwo[i + 1] * a + c
             u == c \div 2
             v == c % 2
  <2>1. i \in 0..Depth /\ i + 1 \in 1..Depth /\ (i + 1) - 1 = i /\ i <= Depth
    BY DepthAssumption
  <2>2. h \in Nat \ {0} /\ PowerOfTwo[i + 1] = 2 * h /\ PowerOfTwo[Depth] \in Nat
    BY <2>1, PowerOfTwoType, PowerOfTwoStep, DepthAssumption
  <2>3. h * a \in Nat
    BY <2>2
  <2>4. c \in Nat /\ u \in 0..(h - 1) /\ v \in 0..1 /\ c = 2 * u + v
    BY <2>2
  <2>5. n = 2 * (h * a + u) + v /\ n \in 0..PowerOfTwo[Depth] /\ c \in 0..PowerOfTwo[Depth]
    <3>1. (2 * h) * a = 2 * (h * a)
      BY <2>2
    <3>2. n = 2 * (h * a) + c
      BY <2>2, <3>1
    <3> QED BY <2>2, <2>3, <2>4, <3>2
  <2>6. h * a + u < PowerOfTwo[Depth]
    BY <2>2, <2>3, <2>4, <2>5
  <2>7. Spread[h * a + u] = (h * h) * Spread[a] + Spread[u]
    BY <1>2, <2>1, <2>4, <2>6
  <2>8. n \div 2 = h * a + u /\ n % 2 = v
    <3>1. \A m \in Nat : (2 * m + v) \div 2 = m /\ (2 * m + v) % 2 = v
      BY <2>4
    <3>2. h * a + u \in Nat
      BY <2>3, <2>4
    <3> HIDE DEF n, u, v
    <3> QED BY <2>5, <3>1, <3>2
  <2>9. Spread[n] = (n % 2) + 4 * Spread[n \div 2] /\ Spread[c] = v + 4 * Spread[u]
    BY <2>5, SpreadStep
  <2>10. Spread[u] \in Nat /\ h * h \in Nat
    <3>1. Spread[u] \in Nat
      BY <2>1, <2>4, SpreadBound
    <3> QED BY <2>2, <3>1
  <2>11. (PowerOfTwo[i + 1] * PowerOfTwo[i + 1]) * Spread[a] = 4 * ((h * h) * Spread[a])
    BY <1>0, <2>2
  <2> DEFINE w == (h * h) * Spread[a]
  <2>12. w \in Nat
    BY <1>0, <2>10
  <2> HIDE DEF w, n, u, v, h
  <2>13. Spread[n] = v + 4 * (w + Spread[u])
    BY <2>7, <2>8, <2>9 DEF w
  <2>14. Spread[n] = 4 * w + Spread[c]
    BY <2>4, <2>9, <2>10, <2>12, <2>13
  <2> QED BY <2>11, <2>14 DEF w, n
<1> HIDE DEF S
<1>3. Nat \subseteq S
  BY <1>1, <1>2, SetInduction
<1> QED BY <1>3, DepthAssumption DEF S

\* The place in the z-order determines both coordinates.
LEMMA SpreadUnique ==
  ASSUME NEW a \in 0..(PowerOfTwo[Depth] - 1), NEW b \in 0..(PowerOfTwo[Depth] - 1),
         NEW c \in 0..(PowerOfTwo[Depth] - 1), NEW d \in 0..(PowerOfTwo[Depth] - 1),
         Spread[a] + 2 * Spread[b] = Spread[c] + 2 * Spread[d]
  PROVE  a = c /\ b = d
<1> DEFINE Same(n) == \A i, j, u, v \in 0..(n - 1) :
                        Spread[i] + 2 * Spread[j] = Spread[u] + 2 * Spread[v] => i = u /\ j = v
           S == {k \in Nat : k <= Depth => Same(PowerOfTwo[k])}
<1>1. 0 \in S
  BY PowerOfTwoStep
<1>2. ASSUME NEW k \in Nat, k \in S PROVE k + 1 \in S
  <2> SUFFICES ASSUME k + 1 <= Depth,
                      NEW i \in 0..(PowerOfTwo[k + 1] - 1), NEW j \in 0..(PowerOfTwo[k + 1] - 1),
                      NEW u \in 0..(PowerOfTwo[k + 1] - 1), NEW v \in 0..(PowerOfTwo[k + 1] - 1),
                      Spread[i] + 2 * Spread[j] = Spread[u] + 2 * Spread[v]
               PROVE  i = u /\ j = v
    OBVIOUS
  <2> DEFINE h == PowerOfTwo[k]
  <2>1. k \in 0..Depth /\ k + 1 \in 1..Depth /\ (k + 1) - 1 = k /\ k <= Depth
    BY DepthAssumption
  <2>2. h \in Nat \ {0} /\ PowerOfTwo[k + 1] = 2 * h
    BY <2>1, PowerOfTwoType, PowerOfTwoStep
  <2>3. PowerOfTwo[k + 1] <= PowerOfTwo[Depth] /\ PowerOfTwo[Depth] \in Nat
    BY <2>1, PowerOfTwoGrows, PowerOfTwoType, DepthAssumption
  <2>4. ASSUME NEW n \in 0..(PowerOfTwo[k + 1] - 1)
        PROVE  /\ n \div 2 \in 0..(h - 1) /\ n % 2 \in 0..1 /\ n = 2 * (n \div 2) + (n % 2)
               /\ Spread[n \div 2] \in Nat
               /\ Spread[n] = (n % 2) + 4 * Spread[n \div 2]
    <3>1. n \div 2 \in 0..(h - 1) /\ n % 2 \in 0..1 /\ n = 2 * (n \div 2) + (n % 2)
      BY <2>2
    <3>2. n \in 0..PowerOfTwo[Depth]
      BY <2>2, <2>3
    <3>3. Spread[n] = (n % 2) + 4 * Spread[n \div 2]
      BY <3>2, SpreadStep
    <3>4. Spread[n \div 2] \in Nat
      BY <2>1, <3>1, SpreadBound
    <3> QED BY <3>1, <3>3, <3>4
  <2>5. /\ Spread[i \div 2] + 2 * Spread[j \div 2] = Spread[u \div 2] + 2 * Spread[v \div 2]
        /\ i % 2 = u % 2 /\ j % 2 = v % 2
    <3> DEFINE i0 == i % 2
               j0 == j % 2
               u0 == u % 2
               v0 == v % 2
               i1 == Spread[i \div 2]
               j1 == Spread[j \div 2]
               u1 == Spread[u \div 2]
               v1 == Spread[v \div 2]
    <3>1. /\ i0 \in 0..1 /\ j0 \in 0..1 /\ u0 \in 0..1 /\ v0 \in 0..1
          /\ i1 \in Nat /\ j1 \in Nat /\ u1 \in Nat /\ v1 \in Nat
      BY <2>4
    <3>2. (i0 + 4 * i1) + 2 * (j0 + 4 * j1) = (u0 + 4 * u1) + 2 * (v0 + 4 * v1)
      <4>1. Spread[i] = i0 + 4 * i1 /\ Spread[j] = j0 + 4 * j1
        BY <2>4
      <4>2. Spread[u] = u0 + 4 * u1 /\ Spread[v] = v0 + 4 * v1
        BY <2>4
      <4> QED BY <4>1, <4>2
    <3> HIDE DEF i0, j0, u0, v0, i1, j1, u1, v1
    <3>3. i1 + 2 * j1 = u1 + 2 * v1 /\ i0 = u0 /\ j0 = v0
      BY <3>1, <3>2
    <3> QED BY <3>3 DEF i0, j0, u0, v0, i1, j1, u1, v1
  <2>6. i \div 2 = u \div 2 /\ j \div 2 = v \div 2
    BY <1>2, <2>1, <2>4, <2>5
  <2> QED BY <2>4, <2>5, <2>6
<1> HIDE DEF S
<1>3. Nat \subseteq S
  BY <1>1, <1>2, SetInduction
<1> QED BY <1>3, DepthAssumption DEF S

\* In the square (i, j) of side 2^k, the place (a, b) follows the squares before.
Parcels(k, i, j, a, b) ==
  /\ Spread[PowerOfTwo[k] * i + a] + 2 * Spread[PowerOfTwo[k] * j + b]
       = (PowerOfTwo[k] * PowerOfTwo[k]) * (Spread[i] + 2 * Spread[j])
           + (Spread[a] + 2 * Spread[b])
  /\ Spread[a] + 2 * Spread[b] \in 0..(PowerOfTwo[k] * PowerOfTwo[k] - 1)
  /\ PowerOfTwo[k] * PowerOfTwo[k] \in Nat \ {0}
  /\ Spread[i] \in Nat /\ Spread[j] \in Nat
  /\ i \in 0..(PowerOfTwo[Depth] - 1) /\ j \in 0..(PowerOfTwo[Depth] - 1)

\* The place of a square in the z-order: that of its level, and where in it.
LEMMA ZOrderParts ==
  ASSUME NEW k \in 0..Depth, NEW i \in Nat, NEW j \in Nat,
         NEW a \in 0..(PowerOfTwo[k] - 1), NEW b \in 0..(PowerOfTwo[k] - 1),
         PowerOfTwo[k] * i + a < PowerOfTwo[Depth],
         PowerOfTwo[k] * j + b < PowerOfTwo[Depth]
  PROVE  Parcels(k, i, j, a, b)
<1> DEFINE h == PowerOfTwo[k]
           s == h * h
           x == h * i + a
           y == h * j + b
<1>1. h \in Nat \ {0} /\ s \in Nat \ {0} /\ PowerOfTwo[Depth] \in Nat
  <2>1. h \in Nat \ {0} /\ PowerOfTwo[Depth] \in Nat
    BY PowerOfTwoType, DepthAssumption
  <2>2. \A m \in Nat \ {0} : m * m \in Nat \ {0}
    OBVIOUS
  <2> QED BY <2>1, <2>2
<1>2. Spread[x] = s * Spread[i] + Spread[a] /\ Spread[y] = s * Spread[j] + Spread[b]
  BY SpreadShift
<1>3. /\ Spread[a] \in Nat /\ 3 * Spread[a] < s
      /\ Spread[b] \in Nat /\ 3 * Spread[b] < s
  BY SpreadBound
<1>4. ASSUME NEW m \in Nat, NEW n \in 0..(h - 1), h * m + n < PowerOfTwo[Depth]
      PROVE  m \in 0..(PowerOfTwo[Depth] - 1)
  <2>1. (h - 1) * m >= 0 /\ h * m = m + (h - 1) * m /\ h * m \in Nat
    BY <1>1
  <2> QED BY <1>1, <1>4, <2>1
<1>9. x < PowerOfTwo[Depth] /\ y < PowerOfTwo[Depth]
  OBVIOUS
<1>5. i \in 0..(PowerOfTwo[Depth] - 1) /\ j \in 0..(PowerOfTwo[Depth] - 1)
  BY <1>4, <1>9
<1>6. Spread[i] \in Nat /\ Spread[j] \in Nat
  <2>1. Depth \in 0..Depth
    BY DepthAssumption
  <2> QED BY <1>5, <2>1, SpreadBound
<1> HIDE DEF s
<1>7. Spread[a] + 2 * Spread[b] \in 0..(s - 1)
  BY <1>1, <1>3
<1>8. Spread[x] + 2 * Spread[y] = s * (Spread[i] + 2 * Spread[j]) + (Spread[a] + 2 * Spread[b])
  <2>1. s * (Spread[i] + 2 * Spread[j]) = s * Spread[i] + 2 * (s * Spread[j])
    BY <1>1, <1>6
  <2>2. s * Spread[i] \in Nat /\ s * Spread[j] \in Nat
    BY <1>1, <1>6
  <2>3. Spread[x] + 2 * Spread[y] = (s * Spread[i] + Spread[a]) + 2 * (s * Spread[j] + Spread[b])
    BY <1>2
  <2> HIDE DEF h, x, y
  <2> QED BY <1>3, <2>1, <2>2, <2>3
<1> QED BY <1>1, <1>5, <1>6, <1>7, <1>8 DEF s, Parcels

\* A square that lies in the z-order where another does has its corner there.
LEMMA ZOrderInside ==
  ASSUME NEW p \in Cells, NEW c \in Cells,
         LET s == Side(p) * Side(p) IN ZOrder(p) <= ZOrder(c) /\ ZOrder(c) < ZOrder(p) + s
  PROVE  Overlap(c, p)
<1> DEFINE k == Depth - p.level
           h == PowerOfTwo[k]
           s == h * h
<1>1. k \in 0..Depth /\ h \in Nat \ {0} /\ Side(p) = h /\ h = PowerOfTwo[k] /\ s = h * h
  BY CellParts, PowerOfTwoType, DepthAssumption DEF Side
<1> HIDE DEF k
<1>2. PICK u \in Nat, v \in Nat : p.x = h * u /\ p.y = h * v
  <2>1. PICK u \in 0..(PowerOfTwo[p.level] - 1), v \in 0..(PowerOfTwo[p.level] - 1) :
          p.x = h * u /\ p.y = h * v
    BY <1>1, CellParts
  <2>2. u \in Nat /\ v \in Nat
    BY CellParts, PowerOfTwoType
  <2> QED BY <2>1, <2>2
<1>3. /\ c.x \in Nat /\ c.y \in Nat /\ p.x \in Nat /\ p.y \in Nat
      /\ Side(c) \in Nat \ {0} /\ PowerOfTwo[Depth] \in Nat
      /\ c.x < PowerOfTwo[Depth] /\ c.y < PowerOfTwo[Depth]
      /\ p.x < PowerOfTwo[Depth] /\ p.y < PowerOfTwo[Depth]
      /\ c.x \in 0..(PowerOfTwo[Depth] - 1) /\ c.y \in 0..(PowerOfTwo[Depth] - 1)
      /\ p.x \in 0..(PowerOfTwo[Depth] - 1) /\ p.y \in 0..(PowerOfTwo[Depth] - 1)
  <2>1. /\ c.x \in Nat /\ c.y \in Nat /\ p.x \in Nat /\ p.y \in Nat
        /\ Side(c) \in Nat \ {0} /\ Side(p) \in Nat \ {0} /\ PowerOfTwo[Depth] \in Nat
    BY CellParts, PowerOfTwoType, DepthAssumption
  <2>2. /\ c.x + Side(c) <= PowerOfTwo[Depth] /\ c.y + Side(c) <= PowerOfTwo[Depth]
        /\ p.x + Side(p) <= PowerOfTwo[Depth] /\ p.y + Side(p) <= PowerOfTwo[Depth]
    BY CellInDomain
  <2> QED BY <2>1, <2>2
<1> DEFINE i == c.x \div h
           j == c.y \div h
           a == c.x % h
           b == c.y % h
<1>4. /\ i \in Nat /\ j \in Nat /\ a \in 0..(h - 1) /\ b \in 0..(h - 1)
      /\ c.x = h * i + a /\ c.y = h * j + b
  <2>1. \A n \in Nat, m \in Nat \ {0} :
          n \div m \in Nat /\ n % m \in 0..(m - 1) /\ n = m * (n \div m) + (n % m)
    OBVIOUS
  <2> QED BY <1>1, <1>3, <2>1
<1>5. p.x = h * u + 0 /\ p.y = h * v + 0 /\ 0 \in 0..(h - 1)
  BY <1>1, <1>2
<1> HIDE DEF i, j, a, b
<1> DEFINE Z(m, n) == Spread[m] + 2 * Spread[n]
<1>6. /\ ZOrder(c) = s * Z(i, j) + Z(a, b) /\ Z(a, b) \in 0..(s - 1) /\ s \in Nat \ {0}
      /\ Z(i, j) \in Nat
      /\ i \in 0..(PowerOfTwo[Depth] - 1) /\ j \in 0..(PowerOfTwo[Depth] - 1)
  <2>1. /\ ZOrder(c) = s * Z(i, j) + Z(a, b) /\ Z(a, b) \in 0..(s - 1) /\ s \in Nat \ {0}
        /\ Spread[i] \in Nat /\ Spread[j] \in Nat
        /\ i \in 0..(PowerOfTwo[Depth] - 1) /\ j \in 0..(PowerOfTwo[Depth] - 1)
    <3>1. h * i + a < PowerOfTwo[Depth] /\ h * j + b < PowerOfTwo[Depth]
      BY <1>3, <1>4
    <3>2. /\ Spread[h * i + a] + 2 * Spread[h * j + b] = s * Z(i, j) + Z(a, b)
          /\ Z(a, b) \in 0..(s - 1) /\ s \in Nat \ {0}
          /\ Spread[i] \in Nat /\ Spread[j] \in Nat
          /\ i \in 0..(PowerOfTwo[Depth] - 1) /\ j \in 0..(PowerOfTwo[Depth] - 1)
      <4>1. Parcels(k, i, j, a, b)
        BY <1>1, <1>4, <3>1, ZOrderParts
      <4> QED BY <4>1 DEF Parcels
    <3> QED BY <1>4, <3>2 DEF ZOrder
  <2> QED BY <2>1
<1>7. /\ ZOrder(p) = s * Z(u, v) /\ Z(u, v) \in Nat
      /\ u \in 0..(PowerOfTwo[Depth] - 1) /\ v \in 0..(PowerOfTwo[Depth] - 1)
  <2>1. /\ ZOrder(p) = s * Z(u, v) + Z(0, 0) /\ Spread[u] \in Nat /\ Spread[v] \in Nat
        /\ u \in 0..(PowerOfTwo[Depth] - 1) /\ v \in 0..(PowerOfTwo[Depth] - 1)
    <3>1. h * u + 0 < PowerOfTwo[Depth] /\ h * v + 0 < PowerOfTwo[Depth]
      BY <1>3, <1>5
    <3>2. /\ Spread[h * u + 0] + 2 * Spread[h * v + 0] = s * Z(u, v) + Z(0, 0)
          /\ Spread[u] \in Nat /\ Spread[v] \in Nat
          /\ u \in 0..(PowerOfTwo[Depth] - 1) /\ v \in 0..(PowerOfTwo[Depth] - 1)
      <4>1. Parcels(k, u, v, 0, 0)
        BY <1>1, <1>5, <3>1, ZOrderParts
      <4> QED BY <1>5, <4>1 DEF Parcels
    <3> QED BY <1>5, <3>2 DEF ZOrder
  <2>2. Z(0, 0) = 0
    BY SpreadStep
  <2>3. Z(u, v) \in Nat
    BY <2>1
  <2>4. s * Z(u, v) \in Nat
    BY <1>6, <2>3
  <2> HIDE DEF Z
  <2> QED BY <2>1, <2>2, <2>3, <2>4
<1>8. ZOrder(p) <= ZOrder(c) /\ ZOrder(c) < ZOrder(p) + s
  BY <1>1
<1>9. Z(i, j) = Z(u, v)
  <2> DEFINE m == Z(i, j)
             n == Z(u, v)
             r == Z(a, b)
  <2> HIDE DEF m, n, r, s
  <2>1. m \in Nat /\ n \in Nat /\ r \in 0..(s - 1) /\ s \in Nat \ {0}
    BY <1>6, <1>7 DEF m, n, r
  <2>2. s * n <= s * m + r /\ s * m + r < s * n + s
    BY <1>6, <1>7, <1>8 DEF m, n, r
  <2>3. (s * m + r) \div s = m
    BY <2>1, Division
  <2> DEFINE t == s * m + r - s * n
  <2>5. t \in 0..(s - 1) /\ s * m + r = s * n + t
    BY <2>1, <2>2
  <2>6. (s * n + t) \div s = n
    <3> HIDE DEF t
    <3> QED BY <2>1, <2>5, Division
  <2>7. m = n
    BY <2>3, <2>5, <2>6
  <2> QED BY <2>7 DEF m, n
<1>10. i = u /\ j = v
  BY <1>6, <1>7, <1>9, SpreadUnique
<1>11. /\ p.x <= c.x /\ c.x < p.x + Side(p)
       /\ p.y <= c.y /\ c.y < p.y + Side(p)
  <2>1. h * u \in Nat /\ h * v \in Nat
    BY <1>1
  <2> QED BY <1>1, <1>2, <1>4, <1>10, <2>1
<1>12. Side(p) \in Nat \ {0}
  BY <1>1
<1>13. /\ c.x < p.x + Side(p) /\ p.x < c.x + Side(c)
       /\ c.y < p.y + Side(p) /\ p.y < c.y + Side(c)
  <2>1. c.x \in Nat /\ c.y \in Nat /\ p.x \in Nat /\ p.y \in Nat /\ Side(c) \in Nat \ {0}
    BY <1>3
  <2> QED BY <1>11, <2>1
<1> QED BY <1>13, Zenon DEF Overlap, Cross

\* Where a child lies in the z-order.
LEMMA ZOrderOfChild ==
  ASSUME NEW p \in Cells, p.level < Depth, NEW k \in 1..4
  PROVE  /\ ZOrder(p) \in Nat /\ ZOrder(Child(p, k)) \in Nat
         /\ ZOrder(Child(p, 1)) = ZOrder(p)
         /\ ZOrder(p) <= ZOrder(Child(p, k))
         /\ ZOrder(Child(p, k)) < ZOrder(p) + Side(p) * Side(p)
<1> DEFINE n == Depth - p.level
           s == PowerOfTwo[n]
           h == PowerOfTwo[n - 1]
<1>1. /\ n \in 0..Depth /\ s \in Nat \ {0}
      /\ Side(p) = s /\ h \in Nat \ {0} /\ s = 2 * h /\ h = PowerOfTwo[Depth - p.level - 1]
  BY CellParts, PowerOfTwoType, PowerOfTwoStep, DepthAssumption DEF Side
<1>2. PICK u \in Nat, v \in Nat : p.x = s * u /\ p.y = s * v
  <2>1. PICK u \in 0..(PowerOfTwo[p.level] - 1), v \in 0..(PowerOfTwo[p.level] - 1) :
          p.x = s * u /\ p.y = s * v
    BY <1>1, CellParts
  <2>2. u \in Nat /\ v \in Nat
    BY CellParts, PowerOfTwoType
  <2> QED BY <2>1, <2>2
<1> HIDE DEF n, h
<1>3. ASSUME NEW c, NEW a \in 0..(s - 1), NEW b \in 0..(s - 1),
             c \in Cells, c.x = s * u + a, c.y = s * v + b
      PROVE  /\ ZOrder(c) = (s * s) * (Spread[u] + 2 * Spread[v]) + (Spread[a] + 2 * Spread[b])
             /\ Spread[a] + 2 * Spread[b] \in 0..(s * s - 1) /\ s * s \in Nat \ {0}
             /\ Spread[u] \in Nat /\ Spread[v] \in Nat
  <2>1. c.x \in 0..(PowerOfTwo[Depth] - 1) /\ c.y \in 0..(PowerOfTwo[Depth] - 1)
    <3>1. /\ c.x \in Nat /\ c.y \in Nat /\ Side(c) \in Nat \ {0} /\ PowerOfTwo[Depth] \in Nat
          /\ c.x + Side(c) <= PowerOfTwo[Depth] /\ c.y + Side(c) <= PowerOfTwo[Depth]
      BY <1>3, CellParts, CellInDomain, PowerOfTwoType, DepthAssumption
    <3> QED BY <3>1
  <2>2. s * u + a < PowerOfTwo[Depth] /\ s * v + b < PowerOfTwo[Depth]
    <3>1. c.x < PowerOfTwo[Depth] /\ c.y < PowerOfTwo[Depth]
      BY <2>1, PowerOfTwoType, DepthAssumption
    <3> QED BY <1>3, <3>1
  <2>3. /\ Spread[s * u + a] + 2 * Spread[s * v + b]
              = (s * s) * (Spread[u] + 2 * Spread[v])
                  + (Spread[a] + 2 * Spread[b])
        /\ Spread[a] + 2 * Spread[b] \in 0..(s * s - 1)
        /\ s * s \in Nat \ {0}
        /\ Spread[u] \in Nat /\ Spread[v] \in Nat
    <3>1. n \in 0..Depth /\ s \in Nat \ {0} /\ a \in 0..(s - 1) /\ b \in 0..(s - 1)
      BY <1>1
    <3> QED BY <2>2, <3>1, ZOrderParts DEF Parcels
  <2> QED BY <1>3, <2>3 DEF ZOrder
<1> DEFINE base == (s * s) * (Spread[u] + 2 * Spread[v])
<1>4. ZOrder(p) = base /\ base \in Nat /\ s * s \in Nat \ {0}
  <2>1. p.x = s * u + 0 /\ p.y = s * v + 0 /\ 0 \in 0..(s - 1)
    BY <1>1, <1>2
  <2>2. /\ ZOrder(p) = base + (Spread[0] + 2 * Spread[0]) /\ s * s \in Nat \ {0}
        /\ Spread[u] \in Nat /\ Spread[v] \in Nat
    BY <1>3, <2>1
  <2>3. Spread[0] + 2 * Spread[0] = 0
    BY SpreadStep
  <2>4. Spread[u] + 2 * Spread[v] \in Nat
    BY <2>2
  <2>5. base \in Nat
    BY <2>2, <2>4
  <2> HIDE DEF base
  <2> QED BY <2>2, <2>3, <2>5
<1>5. ASSUME NEW m \in 1..4
      PROVE  \E r \in 0..(s * s - 1) : ZOrder(Child(p, m)) = base + r /\ (m = 1 => r = 0)
  <2> DEFINE a == IF m \in {2, 4} THEN h ELSE 0
             b == IF m \in {3, 4} THEN h ELSE 0
             c == Child(p, m)
  <2>1. a \in 0..(s - 1) /\ b \in 0..(s - 1) /\ (m = 1 => a = 0 /\ b = 0)
    BY <1>1
  <2>2. c \in Cells /\ c.x = p.x + a /\ c.y = p.y + b
    BY <1>1, ChildPlace
  <2> HIDE DEF a, b, c
  <2>3. /\ ZOrder(c) = base + (Spread[a] + 2 * Spread[b])
        /\ Spread[a] + 2 * Spread[b] \in 0..(s * s - 1)
    BY <1>2, <1>3, <2>1, <2>2
  <2>4. m = 1 => Spread[a] + 2 * Spread[b] = 0
    BY <2>1, SpreadStep
  <2> QED BY <2>3, <2>4 DEF c
<1> HIDE DEF base
<1>6. PICK r \in 0..(s * s - 1) : ZOrder(Child(p, k)) = base + r
  BY <1>5
<1>7. ZOrder(Child(p, 1)) = base
  BY <1>4, <1>5
<1> DEFINE q == s * s
<1>8. q \in Nat \ {0} /\ r \in 0..(q - 1) /\ Side(p) * Side(p) = q
  BY <1>1, <1>4
<1> HIDE DEF q
<1> QED BY <1>4, <1>6, <1>7, <1>8

\* The children of a square follow one another in z-order.
LEMMA ChildrenInOrder ==
  ASSUME NEW p \in Cells, p.level < Depth, NEW j \in 1..4, NEW k \in 1..4, j < k
  PROVE  ZOrder(Child(p, j)) < ZOrder(Child(p, k))
<1> DEFINE n == Depth - p.level - 1
           h == PowerOfTwo[n]
<1>1. /\ n \in 0..Depth /\ h \in Nat \ {0} /\ Side(p) = 2 * h
      /\ h = PowerOfTwo[Depth - p.level - 1]
  BY HalfSide, CellParts, DepthAssumption
<1>2. PICK u \in Nat, v \in Nat : p.x = (2 * h) * u /\ p.y = (2 * h) * v
  <2>1. \E u \in Nat, v \in Nat : p.x = Side(p) * u /\ p.y = Side(p) * v
    BY CellParts
  <2> QED BY <1>1, <2>1
<1> HIDE DEF n
<1>3. ASSUME NEW m \in 1..4, NEW a \in {0, 1}, NEW b \in {0, 1}, m = 1 + a + 2 * b
      PROVE  /\ ZOrder(Child(p, m)) = (h * h) * (4 * (Spread[u] + 2 * Spread[v]) + (m - 1))
             /\ Spread[u] \in Nat /\ Spread[v] \in Nat
  <2> DEFINE c == Child(p, m)
             i == 2 * u + a
             w == 2 * v + b
  <2>1. c.x = h * i + 0 /\ c.y = h * w + 0 /\ c \in Cells
    <3>1. /\ c.x = p.x + (IF m \in {2, 4} THEN h ELSE 0)
          /\ c.y = p.y + (IF m \in {3, 4} THEN h ELSE 0)
          /\ c \in Cells
      BY <1>1, ChildPlace
    <3>2. /\ (IF m \in {2, 4} THEN h ELSE 0) = h * a
          /\ (IF m \in {3, 4} THEN h ELSE 0) = h * b
      BY <1>1, <1>3
    <3>3. (2 * h) * u + h * a = h * i + 0 /\ (2 * h) * v + h * b = h * w + 0
      BY <1>1
    <3> QED BY <1>2, <3>1, <3>2, <3>3
  <2>2. c.x \in 0..(PowerOfTwo[Depth] - 1) /\ c.y \in 0..(PowerOfTwo[Depth] - 1)
    <3>1. /\ c.x \in Nat /\ c.y \in Nat /\ Side(c) \in Nat \ {0} /\ PowerOfTwo[Depth] \in Nat
          /\ c.x + Side(c) <= PowerOfTwo[Depth] /\ c.y + Side(c) <= PowerOfTwo[Depth]
      BY <2>1, CellParts, CellInDomain, PowerOfTwoType, DepthAssumption
    <3> QED BY <3>1
  <2>3. i \in 0..PowerOfTwo[Depth] /\ w \in 0..PowerOfTwo[Depth]
    <3> HIDE DEF i, w
    <3>1. i \in Nat /\ w \in Nat /\ h * i >= i /\ h * w >= w
      BY <1>1 DEF i, w
    <3>2. c.x = h * i /\ c.y = h * w
      BY <1>1, <2>1, <3>1
    <3> HIDE DEF c, h
    <3>3. i <= c.x /\ w <= c.y
      BY <3>1, <3>2
    <3> QED BY <2>2, <3>1, <3>3, PowerOfTwoType, DepthAssumption
  <2>4. Spread[i] = a + 4 * Spread[u] /\ Spread[w] = b + 4 * Spread[v]
    <3>1. i % 2 = a /\ i \div 2 = u /\ w % 2 = b /\ w \div 2 = v
      OBVIOUS
    <3> HIDE DEF i, w
    <3> QED BY <2>3, <3>1, SpreadStep
  <2>5. Spread[u] \in Nat /\ Spread[v] \in Nat
    <3>1. u \in 0..(PowerOfTwo[Depth] - 1) /\ v \in 0..(PowerOfTwo[Depth] - 1)
      <4>1. u <= p.x /\ v <= p.y
        BY <1>1, <1>2
      <4>2. /\ p.x \in Nat /\ p.y \in Nat /\ Side(p) \in Nat \ {0} /\ PowerOfTwo[Depth] \in Nat
            /\ p.x + Side(p) <= PowerOfTwo[Depth] /\ p.y + Side(p) <= PowerOfTwo[Depth]
        BY CellParts, CellInDomain, PowerOfTwoType, DepthAssumption
      <4> QED BY <4>1, <4>2
    <3> QED BY <3>1, SpreadBound, DepthAssumption
  <2>6. Spread[h * i + 0] + 2 * Spread[h * w + 0]
          = (h * h) * (Spread[i] + 2 * Spread[w]) + (Spread[0] + 2 * Spread[0])
    <3>1. h * i + 0 < PowerOfTwo[Depth] /\ h * w + 0 < PowerOfTwo[Depth]
      <4> HIDE DEF i, w, c
      <4> QED BY <2>1, <2>2, PowerOfTwoType, DepthAssumption
    <3>2. i \in Nat /\ w \in Nat /\ 0 \in 0..(h - 1) /\ n \in 0..Depth
      BY <1>1
    <3> HIDE DEF i, w, c
    <3> QED BY <3>1, <3>2, ZOrderParts DEF Parcels
  <2>7. Spread[i] + 2 * Spread[w] = 4 * (Spread[u] + 2 * Spread[v]) + (m - 1)
    BY <1>3, <2>4, <2>5
  <2>8. ZOrder(c) = (h * h) * (Spread[i] + 2 * Spread[w]) + 0
    <3> HIDE DEF i, w, c, h
    <3>1. ZOrder(c) = Spread[h * i + 0] + 2 * Spread[h * w + 0]
      BY <2>1 DEF ZOrder
    <3>2. Spread[0] + 2 * Spread[0] = 0
      BY SpreadStep
    <3> QED BY <2>6, <3>1, <3>2
  <2>9. (h * h) * (Spread[i] + 2 * Spread[w]) \in Int
    <3>1. Spread[i] + 2 * Spread[w] \in Int
      BY <2>4, <2>5
    <3> QED BY <1>1, <3>1
  <2> HIDE DEF i, w, h
  <2> QED BY <2>5, <2>7, <2>8, <2>9
<1> HIDE DEF h
<1>4. ASSUME NEW m \in 1..4
      PROVE  /\ ZOrder(Child(p, m)) = (h * h) * (4 * (Spread[u] + 2 * Spread[v]) + (m - 1))
             /\ Spread[u] \in Nat /\ Spread[v] \in Nat
  <2>1. m = 1 \/ m = 2 \/ m = 3 \/ m = 4
    OBVIOUS
  <2>2. \E a \in {0, 1}, b \in {0, 1} : m = 1 + a + 2 * b
    BY <2>1
  <2> QED BY <1>3, <2>2
<1> DEFINE g == h * h
           y == 4 * (Spread[u] + 2 * Spread[v])
<1>5. g \in Nat \ {0} /\ y \in Nat
  <2>1. Spread[u] \in Nat /\ Spread[v] \in Nat
    BY <1>4
  <2> QED BY <1>1, <2>1
<1>6. ZOrder(Child(p, j)) = g * (y + (j - 1)) /\ ZOrder(Child(p, k)) = g * (y + (k - 1))
  BY <1>4
<1> HIDE DEF g, y
<1>7. g * (y + (j - 1)) < g * (y + (k - 1))
  <2> DEFINE a == y + (j - 1)
             e == k - j
  <2>1. a \in Int /\ e \in Nat \ {0} /\ y + (k - 1) = a + e
    BY <1>5
  <2> HIDE DEF a, e
  <2>2. g * (a + e) = g * a + g * e /\ g * e > 0 /\ g * a \in Int
    BY <1>5, <2>1
  <2>3. g * a < g * (y + (k - 1))
    <3>1. g * a < g * (a + e)
      BY <1>5, <2>1, <2>2
    <3> QED BY <2>1, <3>1
  <2> QED BY <2>3 DEF a
<1> QED BY <1>6, <1>7

\* A forest has finitely many leaves.
LEMMA FiniteForest ==
  ASSUME NEW L, Tiling(L)
  PROVE  IsFiniteSet(L)
<1> DEFINE B == PowerOfTwo[Depth] * PowerOfTwo[Depth]
           f == [c \in L |-> ZOrder(c)]
<1>1. ASSUME NEW c \in L
      PROVE  /\ c \in Cells /\ c.x \in 0..(PowerOfTwo[Depth] - 1)
             /\ c.y \in 0..(PowerOfTwo[Depth] - 1) /\ Side(c) \in Nat \ {0}
  <2>1. c \in Cells
    BY DEF Tiling
  <2>2. /\ c.x \in Nat /\ c.y \in Nat /\ Side(c) \in Nat \ {0} /\ PowerOfTwo[Depth] \in Nat
        /\ c.x + Side(c) <= PowerOfTwo[Depth] /\ c.y + Side(c) <= PowerOfTwo[Depth]
    BY <2>1, CellParts, CellInDomain, PowerOfTwoType, DepthAssumption
  <2> QED BY <2>1, <2>2
<1>2. \A c \in L : ZOrder(c) \in 0..B
  <2> SUFFICES ASSUME NEW c \in L PROVE ZOrder(c) \in 0..B
    OBVIOUS
  <2>1. /\ Spread[c.x] \in Nat /\ 3 * Spread[c.x] < B
        /\ Spread[c.y] \in Nat /\ 3 * Spread[c.y] < B
    BY <1>1, SpreadBound, DepthAssumption
  <2>2. B \in Nat
    BY PowerOfTwoType, DepthAssumption
  <2> HIDE DEF B
  <2> QED BY <2>1, <2>2 DEF ZOrder
<1>3. \A c, d \in L : ZOrder(c) = ZOrder(d) => c = d
  <2> SUFFICES ASSUME NEW c \in L, NEW d \in L, ZOrder(c) = ZOrder(d) PROVE c = d
    OBVIOUS
  <2>1. c.x = d.x /\ c.y = d.y
    BY <1>1, SpreadUnique DEF ZOrder
  <2>2. Overlap(c, d)
    BY <1>1, <2>1 DEF Overlap, Cross
  <2> QED BY <2>2 DEF Tiling
<1>4. IsFiniteSet(0..B)
  <2>1. 0 \in Int /\ B \in Int
    BY PowerOfTwoType, DepthAssumption
  <2> QED BY <2>1, FS_Interval
<1>5. f \in Injection(L, 0..B)
  <2>1. f \in [L -> 0..B]
    BY <1>2
  <2>2. \A a, b \in L : f[a] = f[b] => a = b
    BY <1>3
  <2> HIDE DEF f, B
  <2> QED BY <2>1, <2>2 DEF Injection, IsInjective
<1> HIDE DEF f, B
<1> QED BY <1>4, <1>5, FS_Injection

\* A family lies together in the order of the leaves.
LEMMA FamilyPlaces ==
  ASSUME NEW L, Tiling(L), NEW p \in Families(L), NEW k \in 1..4
  PROVE  LET before(c) == {d \in L : ZOrder(d) < ZOrder(c)}
         IN  /\ Cardinality(before(Child(p, 1))) \in Nat
             /\ Cardinality(before(Child(p, k))) - Cardinality(before(Child(p, 1))) \in 0..3
<1> DEFINE before(c) == {d \in L : ZOrder(d) < ZOrder(c)}
           A == before(Child(p, 1))
           B == before(Child(p, k))
           F == {Child(p, 1), Child(p, 2), Child(p, 3), Child(p, 4)}
           C == F \ {Child(p, k)}
<1>1. p \in Cells /\ p.level < Depth /\ Children(p) \subseteq L
  BY FamilyParent
<1>2. ZOrder(p) \in Nat /\ ZOrder(Child(p, 1)) = ZOrder(p)
      /\ ZOrder(Child(p, k)) \in Nat /\ ZOrder(p) <= ZOrder(Child(p, k))
      /\ ZOrder(Child(p, k)) < ZOrder(p) + Side(p) * Side(p)
  BY <1>1, ZOrderOfChild
<1>3. \A d \in L : ZOrder(d) \in Nat
  <2> SUFFICES ASSUME NEW d \in L PROVE ZOrder(d) \in Nat
    OBVIOUS
  <2>1. d.x \in 0..(PowerOfTwo[Depth] - 1) /\ d.y \in 0..(PowerOfTwo[Depth] - 1)
    <3>1. d \in Cells
      BY DEF Tiling
    <3>2. /\ d.x \in Nat /\ d.y \in Nat /\ Side(d) \in Nat \ {0} /\ PowerOfTwo[Depth] \in Nat
          /\ d.x + Side(d) <= PowerOfTwo[Depth] /\ d.y + Side(d) <= PowerOfTwo[Depth]
      BY <3>1, CellParts, CellInDomain, PowerOfTwoType, DepthAssumption
    <3> QED BY <3>2
  <2>2. Spread[d.x] \in Nat /\ Spread[d.y] \in Nat
    BY <2>1, SpreadBound, DepthAssumption
  <2> QED BY <2>2 DEF ZOrder
<1>4. A \subseteq B /\ B \subseteq L
  BY <1>2, <1>3
<1>5. B \ A \subseteq C
  <2> SUFFICES ASSUME NEW d \in L, ZOrder(d) < ZOrder(Child(p, k)),
                      ~ (ZOrder(d) < ZOrder(Child(p, 1)))
               PROVE  d \in C
    OBVIOUS
  <2>1. d \in Cells /\ ZOrder(d) \in Nat
    BY <1>3 DEF Tiling
  <2>2. Side(p) * Side(p) \in Nat
    BY <1>1, CellParts
  <2>3. ZOrder(p) <= ZOrder(d) /\ ZOrder(d) < ZOrder(p) + Side(p) * Side(p)
    BY <1>2, <2>1, <2>2
  <2>4. Overlap(d, p)
    BY <1>1, <2>1, <2>3, ZOrderInside
  <2>5. PICK i \in 1..4 : Overlap(d, Child(p, i))
    BY <1>1, <2>1, <2>4, ChildrenFill
  <2>6. Child(p, i) \in L
    BY <1>1 DEF Children
  <2>7. d = Child(p, i)
    BY <2>5, <2>6 DEF Tiling
  <2>8. d # Child(p, k)
    BY <1>2, <2>1
  <2> QED BY <2>7, <2>8
<1>6. IsFiniteSet(L)
  BY FiniteForest
<1>7. IsFiniteSet(A) /\ Cardinality(A) \in Nat /\ IsFiniteSet(B) /\ Cardinality(B) \in Nat
  <2>1. A \in SUBSET L /\ B \in SUBSET L
    OBVIOUS
  <2> HIDE DEF A, B
  <2> QED BY <1>6, <2>1, FS_Subset, FS_CardinalityType
<1>8. IsFiniteSet(C) /\ Cardinality(C) \in 0..3
  <2>1. \A x, y, z : IsFiniteSet({x, y, z}) /\ Cardinality({x, y, z}) \in 0..3
    <3> SUFFICES ASSUME NEW x, NEW y, NEW z
                 PROVE  IsFiniteSet({x, y, z}) /\ Cardinality({x, y, z}) \in 0..3
      OBVIOUS
    <3>1. IsFiniteSet({x}) /\ Cardinality({x}) = 1
      BY FS_Singleton
    <3>2. {x, y} = {x} \cup {y} /\ {x, y, z} = {x, y} \cup {z}
      OBVIOUS
    <3>3. IsFiniteSet({x, y}) /\ Cardinality({x, y}) \in 1..2
      BY <3>1, <3>2, FS_AddElement
    <3>4. IsFiniteSet({x, y} \cup {z}) /\ Cardinality({x, y} \cup {z}) \in 1..3
      BY <3>3, FS_AddElement
    <3> QED BY <3>2, <3>4
  <2>2. \E x, y, z : C \subseteq {x, y, z}
    <3>1. k = 1 \/ k = 2 \/ k = 3 \/ k = 4
      OBVIOUS
    <3> QED BY <3>1
  <2>3. PICK x, y, z : C \subseteq {x, y, z}
    BY <2>2
  <2>4. C \in SUBSET {x, y, z} /\ IsFiniteSet({x, y, z}) /\ Cardinality({x, y, z}) \in 0..3
    BY <2>1, <2>3
  <2> HIDE DEF C
  <2>5. IsFiniteSet(C) /\ Cardinality(C) <= Cardinality({x, y, z})
    BY <2>4, FS_Subset
  <2>6. Cardinality(C) \in Nat
    BY <2>5, FS_CardinalityType
  <2> QED BY <2>4, <2>5, <2>6
<1> HIDE DEF A, B, C
<1>9. Cardinality(A) <= Cardinality(B)
  <2>1. A \in SUBSET B
    BY <1>4
  <2> QED BY <1>7, <2>1, FS_Subset
<1>10. Cardinality(B) <= Cardinality(A) + 3
  <2>1. B \in SUBSET (A \cup C)
    BY <1>5
  <2>2. IsFiniteSet(A \cup C)
        /\ Cardinality(A \cup C) = Cardinality(A) + Cardinality(C) - Cardinality(A \cap C)
    BY <1>7, <1>8, FS_Union
  <2>3. Cardinality(A \cap C) \in Nat
    BY <1>7, FS_Intersection, FS_CardinalityType
  <2>4. Cardinality(B) <= Cardinality(A \cup C)
    BY <2>1, <2>2, FS_Subset
  <2> QED BY <1>7, <1>8, <2>2, <2>3, <2>4
<1> QED BY <1>7, <1>9, <1>10 DEF A, B

-----------------------------------------------------------------------------
(* Sums over finite sets. *)

\* What the recursion of a sum asks of the sums it of F over the subsets of S.
Summing(F, S, it) ==
  it = [s \in SUBSET S |->
          IF s = {} THEN 0
          ELSE LET x == CHOOSE y \in s : TRUE IN F[x] + it[s \ {x}]]
SumOver(F, S) == (CHOOSE it : Summing(F, S, it))[S]

\* A set without one of its elements.
LEMMA OneLess ==
  ASSUME NEW s, IsFiniteSet(s), NEW x \in s
  PROVE  /\ IsFiniteSet(s \ {x}) /\ Cardinality(s) \in Nat \ {0}
         /\ Cardinality(s \ {x}) = Cardinality(s) - 1
<1>1. Cardinality(s) \in Nat /\ Cardinality(s) # 0
  BY FS_CardinalityType, FS_EmptySet
<1> QED BY <1>1, FS_RemoveElement

\* Induction over the finite subsets of a set, the hypothesis given as a set.
LEMMA SubsetInduction ==
  ASSUME NEW S, IsFiniteSet(S), NEW Q, {} \in Q,
         \A s \in SUBSET S : s # {} /\ (\A x \in s : s \ {x} \in Q) => s \in Q
  PROVE  SUBSET S \subseteq Q
<1> DEFINE N == {n \in Nat : \A s \in SUBSET S : Cardinality(s) = n => s \in Q}
<1>1. \A s \in SUBSET S : IsFiniteSet(s) /\ Cardinality(s) \in Nat
  BY FS_Subset, FS_CardinalityType
<1>2. 0 \in N
  BY <1>1, FS_EmptySet
<1>3. ASSUME NEW n \in Nat, n \in N PROVE n + 1 \in N
  <2>1. ASSUME NEW s \in SUBSET S, Cardinality(s) = n + 1 PROVE s \in Q
    <3>1. s # {}
      BY <1>1, <2>1, FS_EmptySet
    <3>2. ASSUME NEW x \in s PROVE s \ {x} \in Q
      <4>1. s \ {x} \in SUBSET S /\ Cardinality(s \ {x}) = n
        BY <1>1, <2>1, OneLess
      <4> QED BY <1>3, <4>1
    <3> QED BY <3>1, <3>2
  <2> QED BY <2>1
<1> HIDE DEF N
<1>4. Nat \subseteq N
  BY <1>2, <1>3, SetInduction
<1> QED BY <1>1, <1>4 DEF N

\* The recursion defines the sums.
LEMMA SumDefined ==
  ASSUME NEW F, NEW S, IsFiniteSet(S)
  PROVE  \E it : Summing(F, S, it)
<1> DEFINE Small(n) == {s \in SUBSET S : Cardinality(s) <= n}
           Value(it, s) == IF s = {} THEN 0
                           ELSE LET x == CHOOSE y \in s : TRUE IN F[x] + it[s \ {x}]
           P(n) == \E it : it = [s \in Small(n) |-> Value(it, s)]
           N == {n \in Nat : P(n)}
<1>1. \A s \in SUBSET S : IsFiniteSet(s) /\ Cardinality(s) \in Nat
  BY FS_Subset, FS_CardinalityType
<1>2. P(0)
  <2> DEFINE f == [s \in Small(0) |-> 0]
  <2>1. \A s \in Small(0) : s = {}
    BY <1>1, FS_EmptySet
  <2>2. f = [s \in Small(0) |-> Value(f, s)]
    BY <2>1
  <2> QED BY <2>2
<1>3. ASSUME NEW n \in Nat, P(n) PROVE P(n + 1)
  <2>1. PICK f : f = [s \in Small(n) |-> Value(f, s)]
    BY <1>3
  <2> DEFINE g == [s \in Small(n + 1) |-> Value(f, s)]
  <2>2. \A s \in Small(n) : s \in Small(n + 1) /\ g[s] = f[s]
    <3>1. \A s \in Small(n) : s \in Small(n + 1)
      BY <1>1
    <3>2. \A s \in Small(n) : f[s] = Value(f, s)
      BY <2>1
    <3> HIDE DEF Small, Value
    <3> QED BY <3>1, <3>2
  <2>3. ASSUME NEW s \in Small(n + 1) PROVE Value(f, s) = Value(g, s)
    <3>1. CASE s = {}
      BY <3>1
    <3>2. CASE s # {}
      <4> DEFINE x == CHOOSE y \in s : TRUE
      <4>1. x \in s
        BY <3>2
      <4> HIDE DEF x
      <4>2. s \ {x} \in Small(n)
        BY <1>1, <4>1, OneLess
      <4>3. f[s \ {x}] = g[s \ {x}]
        BY <2>2, <4>2
      <4> QED BY <4>3 DEF x
    <3> QED BY <3>1, <3>2
  <2>4. g = [s \in Small(n + 1) |-> Value(g, s)]
    <3> HIDE DEF Small, Value
    <3> QED BY <2>3
  <2> QED BY <2>4
<1>4. Nat \subseteq N
  <2> HIDE DEF P
  <2>1. 0 \in N /\ \A n \in Nat : n \in N => n + 1 \in N
    BY <1>2, <1>3
  <2> HIDE DEF N
  <2> QED BY <2>1, SetInduction
<1>5. Cardinality(S) \in Nat /\ Small(Cardinality(S)) = SUBSET S
  <2>1. \A s \in SUBSET S : Cardinality(s) <= Cardinality(S)
    BY FS_Subset
  <2> QED BY <1>1, <2>1
<1>6. P(Cardinality(S))
  <2> HIDE DEF P
  <2> QED BY <1>4, <1>5
<1>7. PICK it : it = [s \in Small(Cardinality(S)) |-> Value(it, s)]
  BY <1>6
<1>8. it = [s \in SUBSET S |-> Value(it, s)]
  <2> HIDE DEF Value, Small
  <2> QED BY <1>5, <1>7
<1> QED BY <1>8 DEF Summing

\* One step of the recursion.
LEMMA SummingStep ==
  ASSUME NEW F, NEW S, NEW it, Summing(F, S, it), NEW s \in SUBSET S
  PROVE  /\ s = {} => it[s] = 0
         /\ s # {} => it[s] = F[CHOOSE y \in s : TRUE] + it[s \ {CHOOSE y \in s : TRUE}]
<1> DEFINE Value(r) == IF r = {} THEN 0
                       ELSE LET x == CHOOSE y \in r : TRUE IN F[x] + it[r \ {x}]
<1>1. it = [r \in SUBSET S |-> Value(r)]
  BY DEF Summing
<1>2. it[s] = Value(s)
  <2> HIDE DEF Value
  <2> QED BY <1>1
<1> QED BY <1>2

LEMMA SummingNone ==
  ASSUME NEW F, NEW S, NEW it, Summing(F, S, it)
  PROVE  it[{}] = 0
<1> DEFINE e == {}
<1>1. e \in SUBSET S /\ e = {}
  OBVIOUS
<1> HIDE DEF e
<1>2. it[e] = 0
  BY <1>1, SummingStep
<1> QED BY <1>1, <1>2

\* In whichever sets they are taken, the sums of one set are one.
LEMMA SumIsOne ==
  ASSUME NEW F, NEW G, NEW S, NEW T, IsFiniteSet(S), \A x \in S \cap T : F[x] = G[x],
         NEW it, Summing(F, S, it), NEW ju, Summing(G, T, ju)
  PROVE  \A s \in SUBSET (S \cap T) : it[s] = ju[s]
<1> DEFINE R == S \cap T
           Q == {s \in SUBSET R : it[s] = ju[s]}
<1>1. IsFiniteSet(R)
  BY FS_Subset
<1>2. {} \in Q
  <2>1. {} \in SUBSET S /\ {} \in SUBSET T /\ {} \in SUBSET R
    OBVIOUS
  <2>2. it[{}] = 0
    BY SummingNone
  <2>3. ju[{}] = 0
    BY SummingNone
  <2> QED BY <2>1, <2>2, <2>3
<1>3. ASSUME NEW s \in SUBSET R, s # {}, \A x \in s : s \ {x} \in Q
      PROVE  s \in Q
  <2> DEFINE x == CHOOSE y \in s : TRUE
  <2>1. x \in s
    BY <1>3
  <2>0. s \in SUBSET S /\ s \in SUBSET T /\ s \in SUBSET R
    OBVIOUS
  <2>2. it[s] = F[x] + it[s \ {x}]
    BY <1>3, <2>0, SummingStep
  <2>3. ju[s] = G[x] + ju[s \ {x}]
    BY <1>3, <2>0, SummingStep
  <2> HIDE DEF x
  <2>4. s \ {x} \in Q
    BY <1>3, <2>1
  <2>5. it[s \ {x}] = ju[s \ {x}]
    BY <2>4
  <2>6. F[x] = G[x]
    BY <2>0, <2>1
  <2>7. it[s] = ju[s]
    BY <2>2, <2>3, <2>5, <2>6
  <2> QED BY <2>0, <2>7
<1> HIDE DEF Q
<1>4. SUBSET R \subseteq Q
  BY <1>1, <1>2, <1>3, SubsetInduction
<1> QED BY <1>4 DEF Q

\* SumOver is what any recursion over a larger set finds.
LEMMA SumOverIs ==
  ASSUME NEW F, NEW G, NEW S, IsFiniteSet(S), NEW s \in SUBSET S, \A x \in s : F[x] = G[x],
         NEW it, Summing(F, S, it)
  PROVE  it[s] = SumOver(G, s)
<1>1. IsFiniteSet(s) /\ s \cap S = s
  BY FS_Subset
<1> DEFINE ju == CHOOSE i : Summing(G, s, i)
<1>2. Summing(G, s, ju)
  BY <1>1, SumDefined
<1> HIDE DEF ju
<1>4. IsFiniteSet(s) /\ s \in SUBSET (S \cap s) /\ \A x \in S \cap s : F[x] = G[x]
  BY <1>1
<1>3. it[s] = ju[s]
  BY <1>2, <1>4, SumIsOne
<1> QED BY <1>3 DEF SumOver, ju

\* No terms, and one term more: in any order.
LEMMA SumOfNone ==
  ASSUME NEW F
  PROVE  SumOver(F, {}) = 0
<1> DEFINE it == CHOOSE i : Summing(F, {}, i)
<1>1. Summing(F, {}, it)
  BY SumDefined, FS_EmptySet
<1> HIDE DEF it
<1>2. it[{}] = 0
  BY <1>1, SummingNone
<1> QED BY <1>2 DEF SumOver, it

LEMMA SumsAreNumbers ==
  ASSUME NEW F, NEW S, IsFiniteSet(S), \A x \in S : F[x] \in Int,
         NEW it, Summing(F, S, it)
  PROVE  \A s \in SUBSET S : it[s] \in Int
<1> DEFINE Q == {s \in SUBSET S : it[s] \in Int}
<1>1. {} \in Q
  <2>1. {} \in SUBSET S
    OBVIOUS
  <2>2. it[{}] = 0
    BY SummingNone
  <2> QED BY <2>1, <2>2
<1>2. ASSUME NEW s \in SUBSET S, s # {}, \A x \in s : s \ {x} \in Q
      PROVE  s \in Q
  <2> DEFINE x == CHOOSE y \in s : TRUE
  <2>1. x \in s
    BY <1>2
  <2>2. it[s] = F[x] + it[s \ {x}]
    BY <1>2, SummingStep
  <2> HIDE DEF x
  <2>3. s \ {x} \in Q /\ F[x] \in Int
    BY <1>2, <2>1
  <2>4. it[s \ {x}] \in Int
    BY <2>3
  <2>5. it[s] \in Int
    BY <2>2, <2>3, <2>4
  <2> QED BY <2>5
<1> HIDE DEF Q
<1>3. SUBSET S \subseteq Q
  BY <1>1, <1>2, SubsetInduction
<1> QED BY <1>3 DEF Q

LEMMA SumStep ==
  ASSUME NEW F, NEW S, IsFiniteSet(S), \A x \in S : F[x] \in Int
  PROVE  /\ SumOver(F, S) \in Int
         /\ \A y \in S : SumOver(F, S) = F[y] + SumOver(F, S \ {y})
<1> DEFINE it == CHOOSE i : Summing(F, S, i)
<1>1. Summing(F, S, it)
  BY SumDefined
<1> HIDE DEF it
<1>5. \A s \in SUBSET S : it[s] \in Int
  BY <1>1, SumsAreNumbers
<1> DEFINE P(s) == it[s] \in Int /\ \A y \in s : it[s] = F[y] + it[s \ {y}]
           Q == {s \in SUBSET S : P(s)}
<1>2. {} \in Q
  <2>1. {} \in SUBSET S
    OBVIOUS
  <2>2. it[{}] = 0
    BY <1>1, SummingNone
  <2>3. it[{}] \in Int
    BY <2>2
  <2> QED BY <2>1, <2>3
<1>3. ASSUME NEW s \in SUBSET S, s # {}, \A x \in s : s \ {x} \in Q
      PROVE  s \in Q
  <2> DEFINE x == CHOOSE y \in s : TRUE
  <2>1. x \in s
    BY <1>3
  <2>2. it[s] = F[x] + it[s \ {x}]
    <3>1. s \in SUBSET S /\ s # {}
      BY <1>3
    <3> HIDE DEF P, Q
    <3> QED BY <1>1, <3>1, SummingStep
  <2> HIDE DEF x
  <2>3. \A y \in s : P(s \ {y}) /\ F[y] \in Int
    BY <1>3
  <2>4. ASSUME NEW y \in s PROVE it[s] = F[y] + it[s \ {y}]
    <3>1. CASE y = x
      BY <2>2, <3>1
    <3>2. CASE y # x
      <4> DEFINE b == it[(s \ {x}) \ {y}]
      <4>1. (s \ {y}) \ {x} = (s \ {x}) \ {y} /\ y \in s \ {x} /\ x \in s \ {y}
        BY <2>1, <3>2
      <4>2. it[s \ {x}] = F[y] + b /\ it[s \ {x}] \in Int
        BY <2>1, <2>3, <4>1
      <4>3. it[s \ {y}] = F[x] + b /\ it[s \ {y}] \in Int
        BY <2>1, <2>3, <4>1
      <4>4. F[x] \in Int /\ F[y] \in Int
        BY <2>1, <2>3
      <4>5. b \in Int
        <5>1. (s \ {x}) \ {y} \in SUBSET S
          OBVIOUS
        <5>2. P(s \ {x})
          BY <2>1, <2>3
        <5> QED BY <1>5, <5>1
      <4> HIDE DEF b
      <4> QED BY <2>2, <4>2, <4>3, <4>4, <4>5
    <3> QED BY <3>1, <3>2
  <2>5. it[s] \in Int
    BY <1>5
  <2>6. P(s)
    BY <2>4, <2>5
  <2> HIDE DEF P
  <2> QED BY <2>6
<1>6. IsFiniteSet(S)
  OBVIOUS
<1> HIDE DEF P, Q
<1>4. SUBSET S \subseteq Q
  BY <1>2, <1>3, SubsetInduction
<1>7. P(S)
  <2>1. S \in SUBSET S
    OBVIOUS
  <2>2. S \in Q
    BY <1>4, <2>1
  <2> QED BY <2>2 DEF Q
<1>8. \A s \in SUBSET S : it[s] = SumOver(F, s)
  BY <1>1, SumOverIs
<1> QED BY <1>7, <1>8 DEF P

\* The sum over two sets without a common element.
LEMMA SumOfTwo ==
  ASSUME NEW F, NEW S, NEW T, IsFiniteSet(S), IsFiniteSet(T), S \cap T = {},
         \A x \in S \cup T : F[x] \in Int
  PROVE  SumOver(F, S \cup T) = SumOver(F, S) + SumOver(F, T)
<1> DEFINE Q == {s \in SUBSET S : SumOver(F, s \cup T) = SumOver(F, s) + SumOver(F, T)}
<1>1. {} \in Q
  <2>1. {} \cup T = T /\ {} \in SUBSET S /\ SumOver(F, T) \in Int
    BY SumStep
  <2>2. SumOver(F, {} \cup T) = SumOver(F, {}) + SumOver(F, T)
    BY <2>1, SumOfNone
  <2> QED BY <2>1, <2>2
<1>2. ASSUME NEW s \in SUBSET S, s # {}, \A x \in s : s \ {x} \in Q
      PROVE  s \in Q
  <2>1. PICK x : x \in s
    BY <1>2
  <2>2. IsFiniteSet(s) /\ IsFiniteSet(s \cup T) /\ x \in s \cup T
    BY <2>1, FS_Subset, FS_Union
  <2>3. SumOver(F, s \cup T) = F[x] + SumOver(F, (s \cup T) \ {x})
    BY <2>2, SumStep
  <2>4. SumOver(F, s) = F[x] + SumOver(F, s \ {x})
    BY <2>1, <2>2, SumStep
  <2>5. (s \cup T) \ {x} = (s \ {x}) \cup T
    BY <2>1
  <2>9. s \ {x} \in Q
    BY <1>2, <2>1
  <2>6. SumOver(F, (s \ {x}) \cup T) = SumOver(F, s \ {x}) + SumOver(F, T)
    BY <2>9
  <2>7. F[x] \in Int /\ SumOver(F, s \ {x}) \in Int /\ SumOver(F, T) \in Int
    <3>1. IsFiniteSet(s \ {x})
      BY <2>2, FS_Subset
    <3> QED BY <2>1, <3>1, SumStep
  <2>8. SumOver(F, s \cup T) = SumOver(F, s) + SumOver(F, T)
    <3> DEFINE a == SumOver(F, s \cup T)
               b == SumOver(F, s)
               c == SumOver(F, s \ {x})
               d == SumOver(F, T)
               e == F[x]
    <3>1. a = e + (c + d) /\ b = e + c /\ e \in Int /\ c \in Int /\ d \in Int
      BY <2>3, <2>4, <2>5, <2>6, <2>7
    <3> HIDE DEF a, b, c, d, e
    <3>2. a = b + d
      BY <3>1
    <3> QED BY <3>2 DEF a, b, d
  <2> QED BY <2>8
<1> HIDE DEF Q
<1>3. SUBSET S \subseteq Q
  BY <1>1, <1>2, SubsetInduction
<1>4. S \in Q
  <2>1. S \in SUBSET S
    OBVIOUS
  <2> QED BY <1>3, <2>1
<1> QED BY <1>4 DEF Q

\* The sum depends on the terms only.
LEMMA SameTerms ==
  ASSUME NEW F, NEW G, NEW S, IsFiniteSet(S), \A x \in S : F[x] = G[x]
  PROVE  SumOver(F, S) = SumOver(G, S)
<1> DEFINE it == CHOOSE i : Summing(F, S, i)
<1>1. Summing(F, S, it)
  BY SumDefined
<1> HIDE DEF it
<1>2. S \in SUBSET S
  OBVIOUS
<1>3. it[S] = SumOver(G, S)
  BY <1>1, <1>2, SumOverIs
<1> QED BY <1>3 DEF SumOver, it

\* What the sum of a function's values is.
LEMMA SumFunctionIs ==
  ASSUME NEW F
  PROVE  SumFunction(F) = SumOver(F, DOMAIN F)
<1>1. SumFunction(F) = (CHOOSE it : Summing(F, DOMAIN F, it))[DOMAIN F]
  BY DEF SumFunction, SumFunctionOnSet, FoldFunctionOnSet, MapThenFoldSet, Summing
<1> QED BY <1>1 DEF SumOver

\* Four terms taken out of a sum.
LEMMA SumWithoutFour ==
  ASSUME NEW F, NEW S, IsFiniteSet(S), \A x \in S : F[x] \in Int,
         NEW a \in S, NEW b \in S, NEW c \in S, NEW d \in S,
         a # b, a # c, a # d, b # c, b # d, c # d
  PROVE  SumOver(F, S) = F[a] + F[b] + F[c] + F[d] + SumOver(F, S \ {a, b, c, d})
<1> DEFINE A == S \ {a}
           B == A \ {b}
           C == B \ {c}
           D == C \ {d}
<1>1. IsFiniteSet(A) /\ IsFiniteSet(B) /\ IsFiniteSet(C) /\ IsFiniteSet(D)
  BY FS_Subset
<1>2. b \in A /\ c \in B /\ d \in C
  OBVIOUS
<1>3. /\ SumOver(F, S) = F[a] + SumOver(F, A)
      /\ SumOver(F, A) = F[b] + SumOver(F, B)
      /\ SumOver(F, B) = F[c] + SumOver(F, C)
      /\ SumOver(F, C) = F[d] + SumOver(F, D)
  <2>1. \A x \in A : F[x] \in Int
    OBVIOUS
  <2>2. \A x \in B : F[x] \in Int
    OBVIOUS
  <2>3. \A x \in C : F[x] \in Int
    OBVIOUS
  <2>4. SumOver(F, S) = F[a] + SumOver(F, A)
    BY SumStep
  <2> HIDE DEF A
  <2>5. SumOver(F, A) = F[b] + SumOver(F, B)
    BY <1>1, <1>2, <2>1, SumStep
  <2> HIDE DEF B
  <2>6. SumOver(F, B) = F[c] + SumOver(F, C)
    BY <1>1, <1>2, <2>2, SumStep
  <2> HIDE DEF C
  <2>7. SumOver(F, C) = F[d] + SumOver(F, D)
    BY <1>1, <1>2, <2>3, SumStep
  <2> QED BY <2>4, <2>5, <2>6, <2>7
<1>4. D = S \ {a, b, c, d}
  OBVIOUS
<1>5. SumOver(F, D) \in Int /\ F[a] \in Int /\ F[b] \in Int /\ F[c] \in Int /\ F[d] \in Int
  BY <1>1, SumStep
<1> HIDE DEF A, B, C, D
<1>6. SumOver(F, S) = F[a] + F[b] + F[c] + F[d] + SumOver(F, D)
  BY <1>3, <1>5
<1> QED BY <1>4, <1>6
=============================================================================
