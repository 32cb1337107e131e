-------------------------- MODULE AMRForest_proofs --------------------------
(***************************************************************************)
(* Theorems about module AMRForest, for every pair of levels, every        *)
(* gradient field, every number of ranks and passes.                       *)
(***************************************************************************)
EXTENDS AMRForest, Quadtree_proofs, FiniteSetTheorems

-----------------------------------------------------------------------------
(* Levels of a forest. *)

\* Every leaf lies between the configured levels.
Levelled(L) == \A c \in L : c.level \in MinLevel..MaxLevel

\* Leaves that touch are at most n levels apart.
Gap(L, n) == \A c, d \in L : Touch(c, d) => d.level - c.level <= n

\* Where S has a leaf, L is from lo levels coarser to hi levels finer.
Drift(S, L, lo, hi) ==
  \A c \in S, d \in L : Overlap(c, d) => d.level - c.level \in lo..hi

\* Depth is the deepest level.
LEMMA Levels == MaxLevel = Depth /\ MinLevel \in Nat /\ MaxLevel \in Nat /\ MinLevel <= MaxLevel
BY LevelAssumption, DepthAssumption DEF MaxLevel

\* The leaves of a forest are squares.
LEMMA LeafIsCell ==
  ASSUME NEW L, Tiling(L), NEW c \in L
  PROVE  c \in Cells /\ c.level \in Nat
BY CellParts DEF Tiling

\* A leaf after refining was there before or is a child of a leaf.
LEMMA SplitLeaf ==
  ASSUME NEW L, Tiling(L), NEW R, R \subseteq L, \A p \in R : p.level < Depth,
         NEW c \in Split(L, R)
  PROVE  /\ c \in Cells
         /\ \/ c \in L \ R
            \/ \E p \in R, k \in 1..4 :
                 c = Child(p, k) /\ c.level = p.level + 1 /\ Inside(c, p)
<1>1. CASE c \in L \ R
  BY <1>1, LeafIsCell
<1>2. CASE c \in UNION {Children(p) : p \in R}
  <2>1. PICK p \in R, k \in 1..4 : c = Child(p, k)
    BY <1>2 DEF Children
  <2>2. p \in Cells /\ p.level < Depth
    BY LeafIsCell
  <2>3. c \in Cells /\ c.level = p.level + 1
    BY <2>1, <2>2, ChildPlace
  <2>4. Inside(c, p)
    BY <2>1, <2>2, <2>3, ChildrenFill
  <2> QED BY <2>1, <2>3, <2>4
<1> QED BY <1>1, <1>2 DEF Split

\* A leaf after coarsening was there before or is the parent of a family.
LEMMA JoinLeaf ==
  ASSUME NEW L, Tiling(L), NEW P, P \subseteq Families(L), NEW c \in Join(L, P)
  PROVE  /\ c \in Cells
         /\ \/ c \in L
            \/ c \in P /\ c.level < Depth /\ Children(c) \subseteq L
<1>1. CASE c \in P
  BY <1>1, FamilyParent
<1>2. CASE c \in L
  BY <1>2, LeafIsCell
<1> QED BY <1>1, <1>2 DEF Join

-----------------------------------------------------------------------------
(* One pass, seen as sets of leaves. *)

\* Refining once opens a gap of two levels at most.
LEMMA RefineGap ==
  ASSUME NEW L, Tiling(L), NEW R, R \subseteq L, \A p \in R : p.level < Depth, Gap(L, 1)
  PROVE  Gap(Split(L, R), 2) /\ Drift(L, Split(L, R), 0, 1)
<1>1. ASSUME NEW c \in Split(L, R)
      PROVE  \E p \in L : p \in Cells /\ c \in Cells /\ Inside(c, p) /\ c.level - p.level \in 0..1
                          /\ c.level \in Int /\ p.level \in Int
  <2>1. c \in Cells /\ c.level \in Nat
    BY SplitLeaf, CellParts
  <2>2. CASE c \in L \ R
    <3>1. Inside(c, c)
      BY <2>1, CellParts DEF Inside
    <3> QED BY <2>1, <2>2, <3>1
  <2>3. CASE \E p \in R, k \in 1..4 : c = Child(p, k) /\ c.level = p.level + 1 /\ Inside(c, p)
    <3>1. PICK p \in R : c.level = p.level + 1 /\ Inside(c, p)
      BY <2>3
    <3>2. p \in Cells /\ p.level \in Nat
      BY LeafIsCell
    <3> QED BY <2>1, <3>1, <3>2
  <2> QED BY <2>2, <2>3, SplitLeaf
<1>2. ASSUME NEW c \in Split(L, R), NEW d \in Split(L, R), Touch(c, d)
      PROVE  d.level - c.level <= 2
  <2>1. PICK p \in L : p \in Cells /\ c \in Cells /\ Inside(c, p) /\ c.level - p.level \in 0..1
                       /\ c.level \in Int /\ p.level \in Int
    BY <1>1
  <2>2. PICK q \in L : q \in Cells /\ d \in Cells /\ Inside(d, q) /\ d.level - q.level \in 0..1
                       /\ d.level \in Int /\ q.level \in Int
    BY <1>1
  <2>3. Touch(p, d)
    BY <1>2, <2>1, <2>2, WholeMeets
  <2>4. Touch(p, q)
    BY <2>1, <2>2, <2>3, WholeMeets, OverlapOfSquares
  <2>5. q.level - p.level <= 1
    BY <2>4 DEF Gap
  <2> QED BY <2>1, <2>2, <2>5
<1>3. ASSUME NEW c \in L, NEW d \in Split(L, R), Overlap(c, d)
      PROVE  d.level - c.level \in 0..1
  <2>1. PICK p \in L : p \in Cells /\ d \in Cells /\ Inside(d, p) /\ d.level - p.level \in 0..1
    BY <1>1
  <2>2. c \in Cells
    BY LeafIsCell
  <2>3. Overlap(p, c)
    BY <1>3, <2>1, <2>2, WholeMeets, OverlapOfSquares
  <2>4. p = c
    BY <2>3 DEF Tiling
  <2> QED BY <2>1, <2>4
<1> QED BY <1>2, <1>3 DEF Gap, Drift

\* Coarsening families none of whose members has a neighbour two levels finer
\* leaves gaps of two levels at most.
LEMMA CoarsenGap ==
  ASSUME NEW L, Tiling(L), Gap(L, 2), NEW P, P \subseteq Families(L),
         \A p \in P : Children(p) \cap TooCoarse(L) = {}
  PROVE  Gap(Join(L, P), 2)
<1> SUFFICES ASSUME NEW c \in Join(L, P), NEW d \in Join(L, P), Touch(c, d)
             PROVE  d.level - c.level <= 2
  BY DEF Gap
<1>1. c \in Cells /\ d \in Cells /\ c.level \in Nat /\ d.level \in Nat
  BY JoinLeaf, CellParts
<1>2. \E e \in L : e \in Cells /\ Touch(c, e) /\ e.level - d.level \in 0..1 /\ e.level \in Nat
  <2>1. CASE d \in L
    BY <1>1, <2>1
  <2>2. CASE d \in P /\ d.level < Depth /\ Children(d) \subseteq L
    <3>1. PICK k \in 1..4 : Touch(c, Child(d, k))
      BY <1>1, <2>2, ChildrenFill
    <3>2. Child(d, k) \in Cells /\ Child(d, k).level = d.level + 1 /\ Child(d, k) \in L
      BY <1>1, <2>2, ChildPlace DEF Children
    <3> QED BY <1>1, <3>1, <3>2
  <2> QED BY <2>1, <2>2, JoinLeaf
<1>3. PICK e \in L : e \in Cells /\ Touch(c, e) /\ e.level - d.level \in 0..1 /\ e.level \in Nat
  BY <1>2
<1>4. CASE c \in L
  <2>1. e.level - c.level <= 2
    BY <1>3, <1>4 DEF Gap
  <2> QED BY <1>1, <1>3, <2>1
<1>5. CASE c \in P /\ c.level < Depth /\ Children(c) \subseteq L
  <2>1. PICK k \in 1..4 : Touch(e, Child(c, k))
    BY <1>1, <1>3, <1>5, ChildrenFill, OverlapOfSquares
  <2>2. Child(c, k) \in Cells /\ Child(c, k).level = c.level + 1 /\ Child(c, k) \in Children(c)
    BY <1>1, <1>5, ChildPlace DEF Children
  <2>3. Child(c, k) \in L /\ Child(c, k) \notin TooCoarse(L)
    BY <1>5, <2>2
  <2>4. Touch(Child(c, k), e)
    BY <1>3, <2>1, <2>2, OverlapOfSquares
  <2>5. ~ (e.level - Child(c, k).level > 1)
    BY <2>3, <2>4 DEF TooCoarse
  <2> QED BY <1>1, <1>3, <2>2, <2>5
<1> QED BY <1>4, <1>5, JoinLeaf

\* Refining and coarsening in one pass move the level at a point by one.
LEMMA CoarsenDrift ==
  ASSUME NEW S, Tiling(S), NEW L, Tiling(L), Drift(S, L, 0, 1),
         NEW P, P \subseteq Families(L)
  PROVE  Drift(S, Join(L, P), -1, 1)
<1> SUFFICES ASSUME NEW s \in S, NEW d \in Join(L, P), Overlap(s, d)
             PROVE  d.level - s.level \in -1..1
  BY DEF Drift
<1>1. s \in Cells /\ d \in Cells /\ s.level \in Nat /\ d.level \in Nat
  BY LeafIsCell, JoinLeaf, CellParts
<1>2. CASE d \in L
  BY <1>1, <1>2 DEF Drift
<1>3. CASE d \in P /\ d.level < Depth /\ Children(d) \subseteq L
  <2>1. PICK k \in 1..4 : Overlap(s, Child(d, k))
    BY <1>1, <1>3, ChildrenFill
  <2>2. Child(d, k).level = d.level + 1 /\ Child(d, k) \in L
    BY <1>1, <1>3, ChildPlace DEF Children
  <2>3. Child(d, k).level - s.level \in 0..1
    BY <2>1, <2>2 DEF Drift
  <2> QED BY <1>1, <2>2, <2>3
<1> QED BY <1>2, <1>3, JoinLeaf

-----------------------------------------------------------------------------
(* Balancing. *)

\* What every round of balancing finds of the forest L: leaves that touch are
\* two levels apart at most, and the smaller of two that are, is larger with
\* each round; where the pass began, at S, the level has changed by one at most.
Round(S, L, i) ==
  /\ Tiling(L)
  /\ Levelled(L)
  /\ Gap(L, 2)
  /\ \A c, d \in L : Touch(c, d) /\ d.level - c.level = 2 => d.level <= Depth - i
  /\ Drift(S, L, -1, 1)

\* A leaf that is too coarse touches one two levels finer.
LEMMA TooCoarseLeaf ==
  ASSUME NEW L, Tiling(L), Levelled(L), Gap(L, 2), NEW c \in TooCoarse(L)
  PROVE  /\ c \in L /\ c \in Cells /\ c.level < Depth
         /\ \E d \in L : d \in Cells /\ Touch(c, d) /\ d.level = c.level + 2
<1>1. PICK d \in L : d.level - c.level > 1 /\ Touch(c, d) /\ c \in L
  BY DEF TooCoarse
<1>2. c \in Cells /\ d \in Cells /\ c.level \in Nat /\ d.level \in Nat /\ d.level <= Depth
  BY <1>1, LeafIsCell, Levels DEF Levelled
<1>3. d.level - c.level <= 2
  BY <1>1 DEF Gap
<1> QED BY <1>1, <1>2, <1>3, DepthAssumption

\* A leaf next to which a leaf is two levels finer has not been refined in this
\* pass, when the pass began with a balanced forest.
LEMMA TooCoarseIsOld ==
  ASSUME NEW S, Tiling(S), Gap(S, 1), NEW L, NEW i, Round(S, L, i),
         NEW c \in TooCoarse(L), NEW s \in S, Overlap(s, c)
  PROVE  c.level <= s.level
<1> SUFFICES ASSUME s.level < c.level PROVE FALSE
  BY LeafIsCell, TooCoarseLeaf, CellParts DEF Round
<1>1. PICK d \in L : c \in L /\ c \in Cells /\ d \in Cells /\ Touch(c, d) /\ d.level = c.level + 2
  BY TooCoarseLeaf DEF Round
<1>2. s \in Cells /\ s.level \in Nat /\ c.level \in Nat /\ d.level \in Nat
  BY <1>1, LeafIsCell, CellParts
<1>3. Touch(s, d)
  <2>1. Inside(c, s)
    BY <1>1, <1>2, Nesting, OverlapOfSquares
  <2> QED BY <1>1, <1>2, <2>1, WholeMeets
<1>4. PICK t \in S : Overlap(t, d) /\ Touch(t, s)
  BY <1>1, <1>2, <1>3, LeafThere
<1>5. t.level \in Nat /\ t.level - s.level <= 1
  BY <1>2, <1>4, LeafIsCell, OverlapOfSquares DEF Gap
<1>6. d.level - t.level \in -1..1
  BY <1>1, <1>4 DEF Round, Drift
<1> QED BY <1>1, <1>2, <1>5, <1>6

\* One round of balancing.
LEMMA BalanceRound ==
  ASSUME NEW S, Tiling(S), Gap(S, 1), NEW L, NEW i \in Nat, Round(S, L, i)
  PROVE  Round(S, Split(L, TooCoarse(L)), i + 1)
<1> DEFINE R == TooCoarse(L)
           N == Split(L, R)
<1>1. Tiling(L) /\ Levelled(L) /\ Gap(L, 2) /\ Drift(S, L, -1, 1)
  BY DEF Round
<1>2. R \subseteq L /\ \A p \in R : p \in Cells /\ p.level < Depth /\ p.level \in Nat
  BY <1>1, TooCoarseLeaf, CellParts
<1>3. \A c \in R : \E e \in L : Touch(c, e) /\ e.level = c.level + 2 /\ e.level <= Depth - i
  <2> SUFFICES ASSUME NEW c \in R
               PROVE  \E e \in L : Touch(c, e) /\ e.level = c.level + 2 /\ e.level <= Depth - i
    OBVIOUS
  <2>1. PICK e \in L : c \in L /\ Touch(c, e) /\ e.level = c.level + 2
    BY <1>1, TooCoarseLeaf
  <2>2. e.level - c.level = 2
    BY <1>2, <2>1
  <2> QED BY <2>1, <2>2 DEF Round
<1>4. \A c \in L \ R, d \in L : Touch(c, d) => d.level - c.level <= 1
  <2> SUFFICES ASSUME NEW c \in L \ R, NEW d \in L, Touch(c, d) PROVE d.level - c.level <= 1
    OBVIOUS
  <2>1. c.level \in Nat /\ d.level \in Nat
    BY <1>1, LeafIsCell
  <2> QED BY <2>1 DEF TooCoarse
<1>5. Tiling(N)
  BY <1>1, <1>2, SplitTiling
<1>6. \A c \in N : \/ c \in L \ R
                   \/ \E p \in R : c \in Cells /\ p \in L /\ c.level = p.level + 1 /\ Inside(c, p)
  <2> HIDE DEF R, N
  <2> SUFFICES ASSUME NEW c \in N, c \notin L \ R
               PROVE  \E p \in R : c \in Cells /\ p \in L /\ c.level = p.level + 1 /\ Inside(c, p)
    OBVIOUS
  <2> QED BY <1>1, <1>2, SplitLeaf DEF N
<1> HIDE DEF R, N
<1>7. Levelled(N)
  BY <1>1, <1>2, <1>6, Levels DEF Levelled
<1>8. ASSUME NEW c \in N, NEW d \in N, Touch(c, d)
      PROVE  d.level - c.level <= 2 /\ (d.level - c.level = 2 => d.level <= Depth - (i + 1))
  <2>1. c \in Cells /\ d \in Cells /\ c.level \in Nat /\ d.level \in Nat /\ Depth \in Nat
    BY <1>5, LeafIsCell, DepthAssumption
  <2>2. CASE c \in L \ R /\ d \in L \ R
    BY <1>4, <1>8, <2>1, <2>2
  <2>3. CASE c \in L \ R /\ d \notin L \ R
    <3>1. PICK q \in R : q \in L /\ d.level = q.level + 1 /\ Inside(d, q)
      BY <1>6, <2>3
    <3>2. Touch(c, q)
      BY <1>2, <1>8, <2>1, <3>1, WholeMeets, OverlapOfSquares
    <3>3. q.level - c.level <= 1
      BY <1>4, <2>3, <3>1, <3>2
    <3>4. PICK e \in L : e.level = q.level + 2 /\ e.level <= Depth - i
      BY <1>3
    <3> QED BY <1>2, <2>1, <3>1, <3>3, <3>4
  <2>4. CASE c \notin L \ R /\ d \in L \ R
    <3>1. PICK p \in R : p \in L /\ c.level = p.level + 1 /\ Inside(c, p)
      BY <1>6, <2>4
    <3>2. Touch(p, d)
      BY <1>2, <1>8, <2>1, <3>1, WholeMeets
    <3>3. d.level - p.level <= 2
      BY <1>1, <2>4, <3>1, <3>2 DEF Gap
    <3> QED BY <1>2, <2>1, <3>1, <3>3
  <2>5. CASE c \notin L \ R /\ d \notin L \ R
    <3>1. PICK p \in R : p \in L /\ c.level = p.level + 1 /\ Inside(c, p)
      BY <1>6, <2>5
    <3>2. PICK q \in R : q \in L /\ d.level = q.level + 1 /\ Inside(d, q)
      BY <1>6, <2>5
    <3>3. Touch(p, d)
      BY <1>2, <1>8, <2>1, <3>1, WholeMeets
    <3>4. Touch(p, q)
      BY <1>2, <2>1, <3>2, <3>3, WholeMeets, OverlapOfSquares
    <3>5. q.level - p.level <= 2
      BY <1>1, <3>1, <3>2, <3>4 DEF Gap
    <3>6. PICK e \in L : e.level = q.level + 2 /\ e.level <= Depth - i
      BY <1>3
    <3> QED BY <1>2, <2>1, <3>1, <3>2, <3>5, <3>6
  <2> QED BY <2>2, <2>3, <2>4, <2>5
<1>9. ASSUME NEW s \in S, NEW d \in N, Overlap(s, d)
      PROVE  d.level - s.level \in -1..1
  <2>1. CASE d \in L \ R
    BY <1>1, <1>9, <2>1 DEF Drift
  <2>2. CASE d \notin L \ R
    <3>1. PICK q \in R : q \in L /\ d \in Cells /\ d.level = q.level + 1 /\ Inside(d, q)
      BY <1>6, <2>2
    <3>2. s \in Cells /\ s.level \in Nat /\ q \in Cells /\ q.level \in Nat
      BY <1>2, LeafIsCell
    <3>3. Overlap(s, q)
      BY <1>9, <3>1, <3>2, WholeMeets, OverlapOfSquares
    <3>4. q.level - s.level \in -1..1
      BY <1>1, <3>1, <3>3 DEF Drift
    <3>5. q.level <= s.level
      BY <3>3, TooCoarseIsOld DEF R
    <3> QED BY <3>1, <3>2, <3>4, <3>5
  <2> QED BY <2>1, <2>2
<1>10. Round(S, N, i + 1)
  BY <1>5, <1>7, <1>8, <1>9 DEF Round, Gap, Drift
<1> QED BY <1>10 DEF N, R

\* What balancing leaves when all rounds are done.
LEMMA LastRound ==
  ASSUME NEW S, NEW L, Round(S, L, 2 * MaxLevel)
  PROVE  Gap(L, 1)
<1> SUFFICES ASSUME NEW c \in L, NEW d \in L, Touch(c, d), d.level - c.level > 1
             PROVE  FALSE
  <2>1. \A c \in L : c.level \in Nat
    BY LeafIsCell DEF Round
  <2> QED BY <2>1 DEF Gap
<1>1. c.level \in Nat /\ d.level \in Nat
  BY LeafIsCell DEF Round
<1>2. d.level - c.level <= 2
  BY DEF Round, Gap
<1>3. d.level - c.level = 2
  BY <1>1, <1>2
<1>4. d.level <= Depth - 2 * MaxLevel
  BY <1>3 DEF Round
<1> QED BY <1>1, <1>3, <1>4, Levels

-----------------------------------------------------------------------------
(* Leaf data. *)

\* What the leaf of a square holds: the gas of the square, amounts of energy,
\* and for each child the gas of its square.
LeafParts(c) ==
  IF c.level = MaxLevel THEN {<<>>}
  ELSE {q \in [1..4 -> [mass : Nat \ {0}, internal : Nat]] :
          \A k \in 1..4 : q[k].mass = Mass(Child(c, k))}
LeafData(c) ==
  [mass : {Mass(c)}, total : Nat, internal : Nat, parts : LeafParts(c),
   indicator : {Unset, 0, 1, 2}, coarsening : {Unset, Allowed, NotAllowed}]
Holds(f) == \A c \in DOMAIN f : f[c] \in LeafData(c)

\* The gas of a square is that of its children.
LEMMA MassOfChildren ==
  ASSUME NEW c \in Cells, c.level \in MinLevel..MaxLevel
  PROVE  /\ Mass(c) \in Nat \ {0}
         /\ c.level < MaxLevel =>
              /\ \A k \in 1..4 : Mass(Child(c, k)) \in Nat \ {0}
              /\ Mass(c) = Mass(Child(c, 1)) + Mass(Child(c, 2))
                             + Mass(Child(c, 3)) + Mass(Child(c, 4))
<1>1. c \in LevelCells(c.level)
  BY CellOfLevel
<1>2. ASSUME c.level < MaxLevel, NEW k \in 1..4
      PROVE  Mass(Child(c, k)) \in Nat \ {0}
  <2>1. Child(c, k) \in Cells /\ Child(c, k).level = c.level + 1
    BY <1>2, Levels, ChildPlace
  <2>2. Child(c, k) \in LevelCells(c.level + 1) /\ c.level + 1 \in MinLevel..MaxLevel
    BY <1>2, <2>1, CellOfLevel, Levels
  <2> QED BY <2>2, InitialAssumption
<1> QED BY <1>1, <1>2, InitialAssumption

\* The parts a leaf makes.
LEMMA PartsType ==
  ASSUME NEW c \in Cells, c.level \in MinLevel..MaxLevel,
         NEW d, d.mass \in Nat \ {0}, d.internal \in Nat
  PROVE  Parts(c, d) \in LeafParts(c)
<1>1. CASE c.level = MaxLevel
  BY <1>1 DEF Parts, LeafParts
<1>2. CASE c.level # MaxLevel
  <2>1. \A k \in 1..4 : Mass(Child(c, k)) \in Nat \ {0}
    BY <1>2, MassOfChildren, Levels
  <2>2. \A k \in 1..4 : (d.internal * Mass(Child(c, k))) \div d.mass \in Nat
    <3>1. \A m \in Nat, n \in Nat \ {0} : (d.internal * m) \div n \in Nat
      <4> SUFFICES ASSUME NEW m \in Nat, NEW n \in Nat \ {0}
                   PROVE  (d.internal * m) \div n \in Nat
        OBVIOUS
      <4>1. d.internal * m \in Nat
        OBVIOUS
      <4>2. \A i \in Nat : i \div n \in Nat
        OBVIOUS
      <4> QED BY <4>1, <4>2
    <3> QED BY <2>1, <3>1
  <2> QED BY <1>2, <2>1, <2>2 DEF Parts, LeafParts
<1> QED BY <1>1, <1>2

\* A leaf that makes its parts.
LEMMA LeafWithParts ==
  ASSUME NEW c \in Cells, c.level \in MinLevel..MaxLevel, NEW P,
         NEW d \in [mass : {Mass(c)}, total : Nat, internal : Nat, parts : P,
                    indicator : {Unset, 0, 1, 2},
                    coarsening : {Unset, Allowed, NotAllowed}]
  PROVE  WithParts(c, d) \in LeafData(c)
<1>1. d.mass \in Nat \ {0} /\ d.internal \in Nat
  BY MassOfChildren
<1>2. Parts(c, d) \in LeafParts(c)
  BY <1>1, PartsType
<1> HIDE DEF LeafParts, Parts
<1> QED BY <1>2 DEF WithParts, LeafData

\* A child gets its data from the leaf that is refined.
LEMMA RefinedLeaf ==
  ASSUME NEW f, NEW p \in Cells, p.level \in MinLevel..MaxLevel, p.level < MaxLevel,
         f[p] \in LeafData(p), NEW k \in 1..4
  PROVE  /\ RefinedChild(f, Child(p, k)) \in LeafData(Child(p, k))
         /\ RefinedChild(f, Child(p, k)).indicator = f[p].indicator
<1> DEFINE c == Child(p, k)
           d == [f[p] EXCEPT !.mass = f[p].parts[k].mass, !.internal = f[p].parts[k].internal,
                             !.total = (f[p].total * f[p].parts[k].mass) \div f[p].mass]
<1>1. ParentOf(c) = p /\ ChildId(c) = k
  BY ChildUnique, Levels
<1>2. c \in Cells /\ c.level \in MinLevel..MaxLevel
  BY ChildPlace, Levels
<1>3. f[p].parts[k].mass = Mass(c) /\ f[p].parts[k].internal \in Nat /\ Mass(c) \in Nat \ {0}
  <2>1. f[p].parts \in LeafParts(p)
    BY DEF LeafData
  <2>2. f[p].parts \in [1..4 -> [mass : Nat \ {0}, internal : Nat]]
        /\ \A i \in 1..4 : f[p].parts[i].mass = Mass(Child(p, i))
    BY <2>1 DEF LeafParts
  <2>3. f[p].parts[k] \in [mass : Nat \ {0}, internal : Nat]
    BY <2>2
  <2>4. Mass(c) \in Nat \ {0}
    BY <1>2, MassOfChildren
  <2> QED BY <2>2, <2>3, <2>4
<1>4. (f[p].total * f[p].parts[k].mass) \div f[p].mass \in Nat
  <2>1. f[p].total \in Nat /\ f[p].mass \in Nat \ {0}
    BY MassOfChildren DEF LeafData
  <2>2. \A a \in Nat, m \in Nat : a * m \in Nat
    OBVIOUS
  <2>3. \A i \in Nat, n \in Nat \ {0} : i \div n \in Nat
    OBVIOUS
  <2> QED BY <1>3, <2>1, <2>2, <2>3
<1>5. d \in [mass : {Mass(c)}, total : Nat, internal : Nat, parts : LeafParts(p),
             indicator : {Unset, 0, 1, 2}, coarsening : {Unset, Allowed, NotAllowed}]
      /\ d.indicator = f[p].indicator
  <2> HIDE DEF c, LeafParts
  <2>1. f[p] \in [mass : {Mass(p)}, total : Nat, internal : Nat, parts : LeafParts(p),
                  indicator : {Unset, 0, 1, 2}, coarsening : {Unset, Allowed, NotAllowed}]
    BY DEF LeafData
  <2> QED BY <1>3, <1>4, <2>1
<1>6. RefinedChild(f, c) = WithParts(c, d)
  BY <1>1 DEF RefinedChild
<1> HIDE DEF c, d
<1>7. WithParts(c, d) \in LeafData(c)
  BY <1>2, <1>5, LeafWithParts
<1>8. WithParts(c, d).indicator = d.indicator
  <2> HIDE DEF Parts, LeafParts
  <2> QED BY <1>5 DEF WithParts
<1> QED BY <1>5, <1>6, <1>7, <1>8 DEF c

\* A family's parent gets its data from the children.
LEMMA CoarsenedLeaf ==
  ASSUME NEW f, Holds(f), NEW p \in Cells, p.level \in MinLevel..MaxLevel, p.level < MaxLevel,
         Children(p) \subseteq DOMAIN f
  PROVE  CoarsenedParent(f, p) \in LeafData(p)
<1>1. \A k \in 1..4 : /\ f[Child(p, k)].mass = Mass(Child(p, k))
                      /\ f[Child(p, k)].mass \in Nat \ {0}
                      /\ f[Child(p, k)].total \in Nat /\ f[Child(p, k)].internal \in Nat
  <2> SUFFICES ASSUME NEW k \in 1..4
               PROVE  /\ f[Child(p, k)].mass = Mass(Child(p, k))
                      /\ f[Child(p, k)].mass \in Nat \ {0}
                      /\ f[Child(p, k)].total \in Nat /\ f[Child(p, k)].internal \in Nat
    OBVIOUS
  <2>1. Child(p, k) \in DOMAIN f
    BY DEF Children
  <2>2. f[Child(p, k)] \in LeafData(Child(p, k))
    BY <2>1 DEF Holds
  <2>3. Mass(Child(p, k)) \in Nat \ {0}
    BY MassOfChildren
  <2> HIDE DEF LeafParts
  <2> QED BY <2>2, <2>3 DEF LeafData
<1> DEFINE m == f[Child(p, 1)].mass + f[Child(p, 2)].mass + f[Child(p, 3)].mass + f[Child(p, 4)].mass
           t == f[Child(p, 1)].total + f[Child(p, 2)].total
                  + f[Child(p, 3)].total + f[Child(p, 4)].total
           q == [k \in 1..4 |-> [mass |-> f[Child(p, k)].mass,
                                 internal |-> f[Child(p, k)].internal]]
<1>2. m = Mass(p) /\ t \in Nat
  <2>1. Mass(p) = Mass(Child(p, 1)) + Mass(Child(p, 2)) + Mass(Child(p, 3)) + Mass(Child(p, 4))
    BY MassOfChildren
  <2>2. /\ f[Child(p, 1)].mass = Mass(Child(p, 1)) /\ f[Child(p, 1)].total \in Nat
        /\ f[Child(p, 2)].mass = Mass(Child(p, 2)) /\ f[Child(p, 2)].total \in Nat
        /\ f[Child(p, 3)].mass = Mass(Child(p, 3)) /\ f[Child(p, 3)].total \in Nat
        /\ f[Child(p, 4)].mass = Mass(Child(p, 4)) /\ f[Child(p, 4)].total \in Nat
    BY <1>1
  <2>3. m = Mass(p)
    BY <2>1, <2>2
  <2>4. t \in Nat
    BY <2>2
  <2> QED BY <2>3, <2>4
<1>3. q \in LeafParts(p)
  <2>1. p.level # MaxLevel
    BY Levels
  <2>2. q \in [1..4 -> [mass : Nat \ {0}, internal : Nat]]
        /\ \A k \in 1..4 : q[k].mass = Mass(Child(p, k))
    BY <1>1
  <2> HIDE DEF q
  <2> QED BY <2>1, <2>2 DEF LeafParts
<1>4. CoarsenedParent(f, p) = [mass |-> m, total |-> t, internal |-> t, parts |-> q,
                               indicator |-> Unset, coarsening |-> Unset]
  BY DEF CoarsenedParent, OverChildren
<1> HIDE DEF m, t, q, LeafParts
<1> QED BY <1>2, <1>3, <1>4 DEF LeafData

\* Refining some leaves of a forest.
LEMMA RefinedForest ==
  ASSUME NEW f, Tiling(DOMAIN f), Levelled(DOMAIN f), Holds(f),
         NEW R, R \subseteq DOMAIN f, \A p \in R : p.level < MaxLevel
  PROVE  LET g == RefineLeaves(f, R)
         IN  /\ DOMAIN g = Split(DOMAIN f, R)
             /\ Tiling(DOMAIN g) /\ Levelled(DOMAIN g) /\ Holds(g)
             /\ \A c \in DOMAIN f \ R : g[c] = f[c]
             /\ \A p \in R : \A c \in Children(p) : g[c].indicator = f[p].indicator
<1> DEFINE g == RefineLeaves(f, R)
<1>1. DOMAIN g = Split(DOMAIN f, R)
  BY DEF RefineLeaves, Split
<1>2. \A c \in DOMAIN g : g[c] = IF c \in DOMAIN f THEN f[c] ELSE RefinedChild(f, c)
  BY DEF RefineLeaves
<1> HIDE DEF g
<1>3. Tiling(DOMAIN g)
  BY <1>1, SplitTiling, Levels
<1>4. \A p \in R : p \in Cells /\ p \in DOMAIN f /\ p.level \in MinLevel..MaxLevel /\ p.level < MaxLevel
  BY LeafIsCell DEF Levelled
<1>5. ASSUME NEW p \in R, NEW k \in 1..4
      PROVE  /\ Child(p, k) \in DOMAIN g /\ Child(p, k) \notin DOMAIN f
             /\ g[Child(p, k)] \in LeafData(Child(p, k))
             /\ g[Child(p, k)].indicator = f[p].indicator
  <2>1. Child(p, k) \in DOMAIN g
    BY <1>1 DEF Split, Children
  <2>2. Child(p, k) \notin DOMAIN f
    <3>1. Overlap(Child(p, k), p) /\ Child(p, k).level = p.level + 1 /\ p.level \in Nat
      BY <1>4, ChildPlace, ChildrenFill, OverlapOfSquares, Levels, CellParts
    <3>2. Child(p, k) # p
      BY <3>1
    <3> QED BY <1>4, <3>1, <3>2 DEF Tiling
  <2>3. f[p] \in LeafData(p)
    BY <1>4 DEF Holds
  <2> QED BY <1>2, <1>4, <2>1, <2>2, <2>3, RefinedLeaf
<1>6. Levelled(DOMAIN g)
  <2> SUFFICES ASSUME NEW c \in DOMAIN g PROVE c.level \in MinLevel..MaxLevel
    BY DEF Levelled
  <2>1. CASE c \in DOMAIN f
    BY <2>1 DEF Levelled
  <2>2. CASE \E p \in R, k \in 1..4 : c = Child(p, k) /\ c.level = p.level + 1 /\ Inside(c, p)
    BY <1>4, <2>2, Levels
  <2> QED BY <1>1, <2>1, <2>2, SplitLeaf, Levels
<1>7. Holds(g)
  <2> SUFFICES ASSUME NEW c \in DOMAIN g PROVE g[c] \in LeafData(c)
    BY DEF Holds
  <2>1. CASE c \in DOMAIN f
    BY <1>2, <2>1 DEF Holds
  <2>2. CASE \E p \in R, k \in 1..4 : c = Child(p, k)
    BY <1>5, <2>2
  <2> QED BY <1>1, <2>1, <2>2, SplitLeaf, Levels
<1>8. \A c \in DOMAIN f \ R : g[c] = f[c]
  BY <1>1, <1>2 DEF Split
<1>9. \A p \in R : \A c \in Children(p) : g[c].indicator = f[p].indicator
  BY <1>5 DEF Children
<1> QED BY <1>1, <1>3, <1>6, <1>7, <1>8, <1>9 DEF g

\* Putting some families of a forest together.
LEMMA CoarsenedForest ==
  ASSUME NEW f, Tiling(DOMAIN f), Levelled(DOMAIN f), Holds(f),
         NEW P, P \subseteq Families(DOMAIN f), \A p \in P : \A c \in Children(p) : c.level > MinLevel
  PROVE  LET g == CoarsenFamilies(f, P)
         IN  /\ DOMAIN g = Join(DOMAIN f, P)
             /\ Tiling(DOMAIN g) /\ Levelled(DOMAIN g) /\ Holds(g)
<1> DEFINE g == CoarsenFamilies(f, P)
<1>1. DOMAIN g = Join(DOMAIN f, P)
  BY DEF CoarsenFamilies, Join
<1>2. \A c \in DOMAIN g : g[c] = IF c \in P THEN CoarsenedParent(f, c) ELSE f[c]
  BY DEF CoarsenFamilies
<1> HIDE DEF g
<1>3. Tiling(DOMAIN g)
  BY <1>1, JoinTiling
<1>4. ASSUME NEW p \in P
      PROVE  p \in Cells /\ p.level \in MinLevel..MaxLevel /\ p.level < MaxLevel
             /\ Children(p) \subseteq DOMAIN f
  <2>1. p \in Cells /\ p.level < Depth /\ Children(p) \subseteq DOMAIN f
    BY FamilyParent
  <2>2. Child(p, 1).level = p.level + 1 /\ Child(p, 1) \in Children(p) /\ p.level \in Nat
    BY <2>1, ChildPlace, CellParts DEF Children
  <2> QED BY <2>1, <2>2, Levels
<1>5. Levelled(DOMAIN g)
  BY <1>1, <1>4, JoinLeaf DEF Levelled
<1>6. Holds(g)
  <2> SUFFICES ASSUME NEW c \in DOMAIN g PROVE g[c] \in LeafData(c)
    BY DEF Holds
  <2>1. CASE c \in P
    BY <1>2, <1>4, <2>1, CoarsenedLeaf
  <2>2. CASE c \notin P
    BY <1>1, <1>2, <2>2 DEF Holds, Join
  <2> QED BY <2>1, <2>2
<1> QED BY <1>1, <1>3, <1>5, <1>6 DEF g

-----------------------------------------------------------------------------
(* What coarsening keeps for the balancing. *)

\* r is the forest after the refinement of the pass.  A leaf of r that is a leaf
\* of f has its mass and internal energy, one that was put together with its
\* siblings is in its parent's parts, and none was put together twice.
Kept(r, f) ==
  /\ \A c \in DOMAIN r \cap DOMAIN f :
       f[c].mass = r[c].mass /\ f[c].internal = r[c].internal
  /\ \A c \in DOMAIN r, p \in DOMAIN f : Inside(c, p) => c.level <= p.level + 1
  /\ \A p \in DOMAIN f, k \in 1..4 :
       Child(p, k) \in DOMAIN r =>
         /\ f[p].parts[k].mass = r[Child(p, k)].mass
         /\ f[p].parts[k].internal = r[Child(p, k)].internal

\* A leaf and its child are not both in a forest.
LEMMA NotWithChild ==
  ASSUME NEW L, Tiling(L), NEW p \in L, NEW k \in 1..4
  PROVE  Child(p, k) \notin L
<1> SUFFICES ASSUME Child(p, k) \in L PROVE FALSE
  OBVIOUS
<1>1. p \in Cells /\ Child(p, k) \in Cells /\ p.level \in Nat
  BY LeafIsCell
<1>2. Child(p, k).level = p.level + 1
  BY DEF Child, Cell
<1>3. p.level < Depth
  BY <1>1, <1>2, CellParts, DepthAssumption
<1>4. Overlap(Child(p, k), p)
  BY <1>1, <1>3, ChildrenFill, OverlapOfSquares
<1> QED BY <1>1, <1>2, <1>4 DEF Tiling

\* A leaf that lies in a leaf of the same forest is that leaf.
LEMMA InsideItself ==
  ASSUME NEW L, Tiling(L), NEW c \in L, NEW p \in L, Inside(c, p)
  PROVE  c = p
BY LeafIsCell, OverlapOfSquares DEF Tiling

\* After refining, nothing has been put together.
LEMMA KeptAtFirst ==
  ASSUME NEW r, NEW f, DOMAIN r = DOMAIN f, Tiling(DOMAIN f),
         \A c \in DOMAIN f : f[c].mass = r[c].mass /\ f[c].internal = r[c].internal
  PROVE  Kept(r, f)
<1>1. \A c \in DOMAIN r, p \in DOMAIN f : Inside(c, p) => c.level <= p.level + 1
  <2> SUFFICES ASSUME NEW c \in DOMAIN f, NEW p \in DOMAIN f, Inside(c, p)
               PROVE  c.level <= p.level + 1
    OBVIOUS
  <2> QED BY InsideItself, LeafIsCell
<1> QED BY <1>1, NotWithChild DEF Kept

\* Families that are put together leave their members in the parent's parts.
LEMMA CoarseningKeeps ==
  ASSUME NEW r, NEW f, DOMAIN r = DOMAIN f, Tiling(DOMAIN f), Kept(r, f),
         NEW P, P \subseteq Families(DOMAIN f)
  PROVE  Kept(r, CoarsenFamilies(f, P))
<1> DEFINE g == CoarsenFamilies(f, P)
<1>1. DOMAIN g = Join(DOMAIN f, P)
  BY DEF CoarsenFamilies, Join
<1>2. \A c \in DOMAIN g : g[c] = IF c \in P THEN CoarsenedParent(f, c) ELSE f[c]
  BY DEF CoarsenFamilies
<1> HIDE DEF g
<1>3. \A p \in P : p \in Cells /\ p.level < Depth /\ p.level \in Nat /\ Children(p) \subseteq DOMAIN f
  BY FamilyParent, CellParts
<1>4. \A p \in P : p \notin DOMAIN f
  <2> SUFFICES ASSUME NEW p \in P, p \in DOMAIN f PROVE FALSE
    OBVIOUS
  <2>1. Child(p, 1) \in DOMAIN f
    BY <1>3 DEF Children
  <2> QED BY <2>1, NotWithChild
<1>5. \A c \in DOMAIN g : c \notin P => c \in DOMAIN f
  BY <1>1 DEF Join
<1>6. \A c \in DOMAIN r \cap DOMAIN g : g[c].mass = r[c].mass /\ g[c].internal = r[c].internal
  BY <1>2, <1>4 DEF Kept
<1>7. ASSUME NEW c \in DOMAIN r, NEW p \in DOMAIN g, Inside(c, p)
      PROVE  c.level <= p.level + 1
  <2>1. CASE p \notin P
    BY <1>5, <1>7, <2>1 DEF Kept
  <2>2. CASE p \in P
    <3>1. c \in Cells /\ c \in DOMAIN f
      BY LeafIsCell
    <3>2. PICK k \in 1..4 : Overlap(c, Child(p, k))
      BY <1>3, <1>7, <2>2, <3>1, ChildrenFill, OverlapOfSquares
    <3>3. Child(p, k) \in DOMAIN f /\ Child(p, k).level = p.level + 1
      BY <1>3, <2>2, ChildPlace DEF Children
    <3>4. c = Child(p, k)
      BY <3>1, <3>2, <3>3 DEF Tiling
    <3> QED BY <1>3, <2>2, <3>3, <3>4
  <2> QED BY <2>1, <2>2
<1>8. ASSUME NEW p \in DOMAIN g, NEW k \in 1..4, Child(p, k) \in DOMAIN r
      PROVE  /\ g[p].parts[k].mass = r[Child(p, k)].mass
             /\ g[p].parts[k].internal = r[Child(p, k)].internal
  <2>1. p \in P
    BY <1>5, <1>8, NotWithChild
  <2>2. g[p] = CoarsenedParent(f, p)
    BY <1>2, <2>1
  <2>3. g[p].parts[k] = [mass |-> f[Child(p, k)].mass, internal |-> f[Child(p, k)].internal]
    BY <2>2 DEF CoarsenedParent
  <2>4. f[Child(p, k)].mass = r[Child(p, k)].mass /\ f[Child(p, k)].internal = r[Child(p, k)].internal
    BY <1>8 DEF Kept
  <2> QED BY <2>3, <2>4
<1>9. Kept(r, g)
  BY <1>6, <1>7, <1>8 DEF Kept
<1> QED BY <1>9 DEF g

\* A parent that is refined again gives each child what it had.
LEMMA RefiningKeeps ==
  ASSUME NEW r, Tiling(DOMAIN r), NEW f, Tiling(DOMAIN f), Levelled(DOMAIN f), Holds(f), Kept(r, f),
         NEW R, R \subseteq DOMAIN f, \A p \in R : p.level < MaxLevel
  PROVE  Kept(r, RefineLeaves(f, R))
<1> DEFINE g == RefineLeaves(f, R)
<1>1. DOMAIN g = Split(DOMAIN f, R)
  BY DEF RefineLeaves, Split
<1>2. \A c \in DOMAIN g : g[c] = IF c \in DOMAIN f THEN f[c] ELSE RefinedChild(f, c)
  BY DEF RefineLeaves
<1> HIDE DEF g
<1>3. \A c \in DOMAIN g : c \notin DOMAIN f =>
        \E p \in R, k \in 1..4 : /\ c = Child(p, k) /\ c \in Cells /\ c.level = p.level + 1
                                 /\ Inside(c, p) /\ p \in Cells /\ p.level \in Nat /\ p.level < Depth
  <2> SUFFICES ASSUME NEW c \in Split(DOMAIN f, R), c \notin DOMAIN f
               PROVE  \E p \in R, k \in 1..4 :
                        /\ c = Child(p, k) /\ c \in Cells /\ c.level = p.level + 1
                        /\ Inside(c, p) /\ p \in Cells /\ p.level \in Nat /\ p.level < Depth
    BY <1>1
  <2>1. c \in Cells /\ \E p \in R, k \in 1..4 : c = Child(p, k) /\ c.level = p.level + 1 /\ Inside(c, p)
    BY SplitLeaf, Levels
  <2> QED BY <2>1, LeafIsCell, Levels
<1>4. ASSUME NEW c \in DOMAIN r, c \in DOMAIN g
      PROVE  g[c].mass = r[c].mass /\ g[c].internal = r[c].internal
  <2>1. CASE c \in DOMAIN f
    BY <1>2, <1>4, <2>1 DEF Kept
  <2>2. CASE c \notin DOMAIN f
    <3>1. PICK p \in R, k \in 1..4 : c = Child(p, k) /\ p \in Cells /\ p.level < Depth
      BY <1>3, <1>4, <2>2
    <3>2. ParentOf(c) = p /\ ChildId(c) = k
      BY <3>1, ChildUnique
    <3> DEFINE d == [f[p] EXCEPT !.mass = f[p].parts[k].mass, !.internal = f[p].parts[k].internal,
                                 !.total = (f[p].total * f[p].parts[k].mass) \div f[p].mass]
    <3>3. g[c] = WithParts(c, d)
      BY <1>2, <1>4, <2>2, <3>2 DEF RefinedChild
    <3>4. f[p] \in LeafData(p)
      BY DEF Holds
    <3>5. d.mass = f[p].parts[k].mass /\ d.internal = f[p].parts[k].internal
          /\ DOMAIN d = {"mass", "total", "internal", "parts", "indicator", "coarsening"}
      <4> HIDE DEF LeafParts
      <4> QED BY <3>4 DEF LeafData
    <3>6. WithParts(c, d).mass = d.mass /\ WithParts(c, d).internal = d.internal
      <4> HIDE DEF d, Parts
      <4> QED BY <3>5 DEF WithParts
    <3>7. f[p].parts[k].mass = r[c].mass /\ f[p].parts[k].internal = r[c].internal
      BY <3>1 DEF Kept
    <3> QED BY <3>3, <3>5, <3>6, <3>7
  <2> QED BY <2>1, <2>2
<1>5. ASSUME NEW c \in DOMAIN r, NEW p \in DOMAIN g, Inside(c, p)
      PROVE  c.level <= p.level + 1
  <2>1. CASE p \in DOMAIN f
    BY <1>5, <2>1 DEF Kept
  <2>2. CASE p \notin DOMAIN f
    <3>1. PICK q \in R : p \in Cells /\ p.level = q.level + 1 /\ Inside(p, q) /\ q \in Cells /\ q.level \in Nat
      BY <1>3, <2>2
    <3>2. c \in Cells /\ c.level \in Nat
      BY LeafIsCell
    <3>3. Inside(c, q)
      BY <1>5, <3>1, <3>2, WholeMeets
    <3>4. c.level <= q.level + 1
      BY <3>3 DEF Kept
    <3> QED BY <3>1, <3>2, <3>4
  <2> QED BY <2>1, <2>2
<1>6. ASSUME NEW p \in DOMAIN g, NEW k \in 1..4, Child(p, k) \in DOMAIN r
      PROVE  /\ g[p].parts[k].mass = r[Child(p, k)].mass
             /\ g[p].parts[k].internal = r[Child(p, k)].internal
  <2>1. p \in DOMAIN f
    <3> SUFFICES ASSUME p \notin DOMAIN f PROVE FALSE
      OBVIOUS
    <3>1. PICK q \in R : p \in Cells /\ p.level = q.level + 1 /\ Inside(p, q) /\ q \in Cells /\ q.level \in Nat
      BY <1>3
    <3>2. Child(p, k) \in Cells /\ Child(p, k).level = p.level + 1
      <4>1. Child(p, k).level = p.level + 1
        BY DEF Child, Cell
      <4> QED BY <1>6, <4>1, LeafIsCell
    <3>3. p.level < Depth
      BY <3>1, <3>2, CellParts, DepthAssumption
    <3>4. Inside(Child(p, k), q)
      BY <3>1, <3>2, <3>3, ChildrenFill, WholeMeets
    <3>5. Child(p, k).level <= q.level + 1
      BY <1>6, <3>4 DEF Kept
    <3> QED BY <3>1, <3>2, <3>5
  <2> QED BY <1>2, <1>6, <2>1 DEF Kept
<1>7. Kept(r, g)
  BY <1>4, <1>5, <1>6 DEF Kept
<1> QED BY <1>7 DEF g

-----------------------------------------------------------------------------
(* Balancing, with the data. *)

\* The rounds of balancing are defined.
BalanceStep(f, g) ==
  [i \in 0..2 * MaxLevel |->
     IF i = 0 THEN f ELSE RefineLeaves(g[i - 1], TooCoarse(DOMAIN g[i - 1]))]

\* The recursive definition of BalancedForest is met by some function.
LEMMA RoundsDefined ==
  ASSUME NEW f
  PROVE  \E g : g = BalanceStep(f, g) /\ BalancedForest(f) = g[2 * MaxLevel]
<1> DEFINE N(h) == RefineLeaves(h, TooCoarse(DOMAIN h))
           P(d) == \E g : g = [i \in 0..d |-> IF i = 0 THEN f ELSE N(g[i - 1])]
           S == {d \in Nat : P(d)}
<1> HIDE DEF N
<1>1. P(0)
  <2> DEFINE g == [i \in 0..0 |-> f]
  <2>1. g = [i \in 0..0 |-> IF i = 0 THEN f ELSE N(g[i - 1])]
    OBVIOUS
  <2> HIDE DEF g
  <2> QED BY <2>1
<1>2. ASSUME NEW d \in Nat, P(d) PROVE P(d + 1)
  <2>1. PICK g : g = [i \in 0..d |-> IF i = 0 THEN f ELSE N(g[i - 1])]
    BY <1>2
  <2> DEFINE h == [i \in 0..(d + 1) |-> IF i = d + 1 THEN N(g[d]) ELSE g[i]]
  <2>2. ASSUME NEW i \in 0..(d + 1)
        PROVE  h[i] = IF i = 0 THEN f ELSE N(h[i - 1])
    <3>1. CASE i = d + 1
      BY <3>1
    <3>2. CASE i # d + 1
      <4>1. i \in 0..d /\ h[i] = g[i] /\ (i # 0 => i - 1 \in 0..d /\ h[i - 1] = g[i - 1])
        BY <3>2
      <4> HIDE DEF h
      <4> QED BY <4>1, <2>1
    <3> QED BY <3>1, <3>2
  <2>3. h = [i \in 0..(d + 1) |-> h[i]]
    OBVIOUS
  <2> HIDE DEF h
  <2>4. h = [i \in 0..(d + 1) |-> IF i = 0 THEN f ELSE N(h[i - 1])]
    BY <2>2, <2>3
  <2> QED BY <2>4
<1> HIDE DEF P
<1>3. 2 * MaxLevel \in S
  <2> HIDE DEF S
  <2>1. 0 \in S /\ \A d \in Nat : d \in S => d + 1 \in S
    BY <1>1, <1>2 DEF S
  <2> QED BY <2>1, SetInduction, Levels
<1>4. \E g : g = [i \in 0..2 * MaxLevel |-> IF i = 0 THEN f ELSE N(g[i - 1])]
  BY <1>3 DEF P
<1>5. \E g : g = BalanceStep(f, g)
  BY <1>4 DEF BalanceStep, N
<1>6. BalancedForest(f) = (CHOOSE g : g = BalanceStep(f, g))[2 * MaxLevel]
  BY DEF BalancedForest, BalanceStep
<1> HIDE DEF BalanceStep
<1> QED BY <1>5, <1>6

\* Every leaf of N lies in a leaf of L.
Finer(N, L) == \A c \in N : \E p \in L : Inside(c, p)

\* The rounds of balancing a forest with gaps of two levels, after a pass over a
\* balanced one.
LEMMA BalanceRounds ==
  ASSUME NEW S, Tiling(S), Gap(S, 1),
         NEW f, Tiling(DOMAIN f), Levelled(DOMAIN f), Holds(f),
         Gap(DOMAIN f, 2), Drift(S, DOMAIN f, -1, 1),
         NEW before, Tiling(DOMAIN before), Kept(before, f)
  PROVE  \E r : /\ r[0] = f /\ BalancedForest(f) = r[2 * MaxLevel]
                /\ \A i \in Nat : i + 1 <= 2 * MaxLevel =>
                     r[i + 1] = RefineLeaves(r[i], TooCoarse(DOMAIN r[i]))
                /\ \A i \in 0..2 * MaxLevel :
                     /\ Round(S, DOMAIN r[i], i) /\ Holds(r[i])
                     /\ Finer(DOMAIN r[i], DOMAIN f) /\ Kept(before, r[i])
<1>1. PICK r : r = BalanceStep(f, r) /\ BalancedForest(f) = r[2 * MaxLevel]
  BY RoundsDefined
<1>2. /\ r[0] = f
      /\ \A i \in Nat : i + 1 <= 2 * MaxLevel =>
           r[i + 1] = RefineLeaves(r[i], TooCoarse(DOMAIN r[i]))
  <2>1. \A i \in 0..2 * MaxLevel :
          BalanceStep(f, r)[i] =
            IF i = 0 THEN f ELSE RefineLeaves(r[i - 1], TooCoarse(DOMAIN r[i - 1]))
    BY DEF BalanceStep
  <2>2. \A i \in 0..2 * MaxLevel :
          r[i] = IF i = 0 THEN f ELSE RefineLeaves(r[i - 1], TooCoarse(DOMAIN r[i - 1]))
    <3> HIDE DEF BalanceStep
    <3> QED BY <1>1, <2>1
  <2>3. r[0] = f
    BY <2>2, Levels
  <2>4. ASSUME NEW i \in Nat, i + 1 <= 2 * MaxLevel
        PROVE  r[i + 1] = RefineLeaves(r[i], TooCoarse(DOMAIN r[i]))
    <3>1. i + 1 \in 0..2 * MaxLevel /\ i + 1 # 0 /\ (i + 1) - 1 = i
      BY <2>4, Levels
    <3> QED BY <2>2, <3>1
  <2> QED BY <2>3, <2>4
<1> DEFINE Good(i) == /\ Round(S, DOMAIN r[i], i) /\ Holds(r[i])
                      /\ Finer(DOMAIN r[i], DOMAIN f) /\ Kept(before, r[i])
           T == {i \in Nat : i <= 2 * MaxLevel => Good(i)}
<1>3. 0 \in T
  <2>1. Round(S, DOMAIN f, 0)
    <3>1. \A c, d \in DOMAIN f : Touch(c, d) /\ d.level - c.level = 2 => d.level <= Depth - 0
      BY Levels DEF Levelled
    <3> QED BY <3>1 DEF Round
  <2>2. Finer(DOMAIN f, DOMAIN f)
    <3> SUFFICES ASSUME NEW c \in DOMAIN f PROVE Inside(c, c)
      BY DEF Finer
    <3> QED BY LeafIsCell, CellParts DEF Inside
  <2> QED BY <1>2, <2>1, <2>2
<1>4. ASSUME NEW i \in Nat, i \in T PROVE i + 1 \in T
  <2> SUFFICES ASSUME i + 1 <= 2 * MaxLevel PROVE Good(i + 1)
    OBVIOUS
  <2> DEFINE L == DOMAIN r[i]
             R == TooCoarse(L)
  <2>1. Round(S, L, i) /\ Holds(r[i]) /\ Finer(L, DOMAIN f) /\ Kept(before, r[i])
    BY <1>4, Levels
  <2>2. r[i + 1] = RefineLeaves(r[i], R)
    BY <1>2
  <2>3. Tiling(L) /\ Levelled(L) /\ Gap(L, 2)
    BY <2>1 DEF Round
  <2> HIDE DEF R
  <2>4. R \subseteq L /\ \A p \in R : p.level < MaxLevel
    BY <2>3, TooCoarseLeaf, Levels DEF R
  <2>5. DOMAIN r[i + 1] = Split(L, R) /\ Holds(r[i + 1])
    BY <2>1, <2>2, <2>3, <2>4, RefinedForest
  <2>6. Round(S, Split(L, R), i + 1)
    BY <2>1, BalanceRound DEF R
  <2>7. Finer(Split(L, R), DOMAIN f)
    <3> SUFFICES ASSUME NEW c \in Split(L, R) PROVE \E p \in DOMAIN f : Inside(c, p)
      BY DEF Finer
    <3>1. CASE c \in L
      BY <2>1, <3>1 DEF Finer
    <3>2. CASE \E q \in R : Inside(c, q)
      <4>1. PICK q \in R : Inside(c, q)
        BY <3>2
      <4>2. PICK p \in DOMAIN f : Inside(q, p)
        BY <2>1, <2>4, <4>1 DEF Finer
      <4>3. c \in Cells /\ q \in Cells /\ p \in Cells
        BY <2>3, <2>4, <4>1, <4>2, SplitLeaf, LeafIsCell, Levels
      <4> QED BY <4>1, <4>2, <4>3, WholeMeets
    <3> QED BY <2>3, <2>4, <3>1, <3>2, SplitLeaf, Levels
  <2>8. Kept(before, r[i + 1])
    BY <2>1, <2>2, <2>3, <2>4, RefiningKeeps
  <2> QED BY <2>5, <2>6, <2>7, <2>8
<1>5. \A i \in 0..2 * MaxLevel : Good(i)
  <2> HIDE DEF T
  <2>1. Nat \subseteq T
    BY <1>3, <1>4, SetInduction
  <2> SUFFICES ASSUME NEW i \in 0..2 * MaxLevel PROVE Good(i)
    OBVIOUS
  <2>2. i \in T /\ i <= 2 * MaxLevel
    BY <2>1, Levels
  <2> USE DEF T
  <2> HIDE DEF Good
  <2> QED BY <2>2
<1> HIDE DEF T
<1> QED BY <1>1, <1>2, <1>5

\* What balancing such a forest makes of it.
LEMMA BalancedResult ==
  ASSUME NEW S, Tiling(S), Gap(S, 1),
         NEW f, Tiling(DOMAIN f), Levelled(DOMAIN f), Holds(f),
         Gap(DOMAIN f, 2), Drift(S, DOMAIN f, -1, 1),
         NEW before, Tiling(DOMAIN before), Kept(before, f)
  PROVE  LET g == BalancedForest(f)
         IN  /\ Tiling(DOMAIN g) /\ Levelled(DOMAIN g) /\ Holds(g)
             /\ Gap(DOMAIN g, 1) /\ Drift(S, DOMAIN g, -1, 1)
             /\ Finer(DOMAIN g, DOMAIN f) /\ Kept(before, g)
<1>1. PICK r : /\ BalancedForest(f) = r[2 * MaxLevel]
               /\ \A i \in 0..2 * MaxLevel :
                    /\ Round(S, DOMAIN r[i], i) /\ Holds(r[i])
                    /\ Finer(DOMAIN r[i], DOMAIN f) /\ Kept(before, r[i])
  BY BalanceRounds
<1>2. 2 * MaxLevel \in 0..2 * MaxLevel
  BY Levels
<1>3. Gap(DOMAIN r[2 * MaxLevel], 1)
  BY <1>1, <1>2, LastRound
<1> QED BY <1>1, <1>2, <1>3 DEF Round

-----------------------------------------------------------------------------
(* The ranks. *)

\* A new leaf lies where the leaf lies that it is part of.
LEMMA InheritedOwner ==
  ASSUME Tiling(DOMAIN forest), owner \in [DOMAIN forest -> 0..(NumRanks - 1)],
         NEW g, Tiling(DOMAIN g)
  PROVE  /\ Inherited(g) \in [DOMAIN g -> 0..(NumRanks - 1)]
         /\ \A c \in DOMAIN g \cap DOMAIN forest : Inherited(g)[c] = owner[c]
         /\ \A c \in DOMAIN g, p \in DOMAIN forest :
              Inside(c, p) => Inherited(g)[c] = owner[p]
<1> DEFINE from(c) == CHOOSE d \in DOMAIN owner : Overlap(c, d)
<1>1. DOMAIN owner = DOMAIN forest
  OBVIOUS
<1>2. \A c \in DOMAIN g : c \in Cells
  BY LeafIsCell
<1>3. ASSUME NEW c \in DOMAIN g
      PROVE  from(c) \in DOMAIN forest /\ Overlap(c, from(c))
  <2>1. Touch(c, c)
    BY <1>2, OverlapOfSquares
  <2>2. PICK d \in DOMAIN forest : Overlap(d, c)
    BY <1>2, <2>1, LeafThere
  <2>3. Overlap(c, d)
    BY <1>2, <2>2, LeafIsCell, OverlapOfSquares
  <2> QED BY <1>1, <2>3
<1>4. \A c \in DOMAIN g : Inherited(g)[c] = IF c \in DOMAIN owner THEN owner[c] ELSE owner[from(c)]
  BY DEF Inherited
<1>5. DOMAIN Inherited(g) = DOMAIN g
      /\ Inherited(g) = [c \in DOMAIN g |-> IF c \in DOMAIN owner THEN owner[c] ELSE owner[from(c)]]
  BY DEF Inherited
<1> HIDE DEF from
<1>6. \A c \in DOMAIN g : Inherited(g)[c] \in 0..(NumRanks - 1)
  BY <1>1, <1>3, <1>4
<1>7. Inherited(g) \in [DOMAIN g -> 0..(NumRanks - 1)]
  BY <1>1, <1>3, <1>5
<1>8. ASSUME NEW c \in DOMAIN g, NEW p \in DOMAIN forest, Inside(c, p)
      PROVE  Inherited(g)[c] = owner[p]
  <2>1. c \in Cells /\ p \in Cells /\ Overlap(c, p)
    BY <1>2, <1>8, LeafIsCell, OverlapOfSquares
  <2>2. CASE c \in DOMAIN forest
    <3>1. c = p
      BY <2>1, <2>2 DEF Tiling
    <3> QED BY <1>1, <1>4, <2>2, <3>1
  <2>3. CASE c \notin DOMAIN forest
    <3>1. from(c) \in Cells /\ from(c) \in DOMAIN forest /\ Overlap(c, from(c))
      BY <1>3, LeafIsCell
    <3>2. Overlap(p, from(c))
      BY <1>8, <2>1, <3>1, WholeMeets
    <3>3. from(c) = p
      BY <3>1, <3>2 DEF Tiling
    <3> QED BY <1>1, <1>4, <2>3, <3>3
  <2> QED BY <2>2, <2>3
<1> QED BY <1>1, <1>4, <1>7, <1>8

\* A cut family was there before, unless one of its members was put together.
LEMMA CutIsOld ==
  ASSUME Tiling(DOMAIN forest), owner \in [DOMAIN forest -> 0..(NumRanks - 1)],
         NEW g, Tiling(DOMAIN g), NEW P,
         \A c \in DOMAIN g : c \notin P => \E q \in DOMAIN forest : Inside(c, q),
         NEW p \in Families(DOMAIN g), Cut(p, Inherited(g)), Children(p) \cap P = {}
  PROVE  /\ p \in Families(DOMAIN forest) /\ Cut(p, owner)
         /\ Children(p) \subseteq DOMAIN g \cap DOMAIN forest
<1>1. p \in Cells /\ p.level < Depth /\ Children(p) \subseteq DOMAIN g
  BY FamilyParent
<1>2. \A k \in 1..4 : /\ Child(p, k) \in Cells /\ Child(p, k) \in DOMAIN g /\ Child(p, k) \notin P
                      /\ Child(p, k).level = p.level + 1 /\ Inside(Child(p, k), p)
                      /\ ParentOf(Child(p, k)) = p
  BY <1>1, ChildPlace, ChildrenFill, ChildUnique DEF Children
<1>3. ASSUME NEW k \in 1..4, NEW q \in DOMAIN forest, Inside(Child(p, k), q), q # Child(p, k)
      PROVE  FALSE
  <2>1. q \in Cells /\ q.level \in Nat /\ p.level \in Nat
    BY <1>1, LeafIsCell, CellParts
  <2>2. Overlap(Child(p, k), q)
    BY <1>2, <1>3, <2>1, OverlapOfSquares
  <2>3. q.level <= p.level
    <3> SUFFICES ASSUME p.level + 1 <= q.level PROVE FALSE
      BY <2>1
    <3>1. q.level <= Child(p, k).level
      BY <1>2, <1>3, <2>1, LargerOutside
    <3>2. q.level = Child(p, k).level
      BY <1>2, <2>1, <3>1
    <3> QED BY <1>2, <1>3, <2>1, <2>2, <3>2, SameLevel
  <2>4. Inside(p, q)
    <3>1. Overlap(p, q)
      BY <1>1, <1>2, <2>1, <2>2, WholeMeets
    <3> QED BY <1>1, <2>1, <2>3, <3>1, Nesting
  <2>5. \A j \in 1..4 : Inside(Child(p, j), q)
    BY <1>1, <1>2, <2>1, <2>4, WholeMeets
  <2>6. \A j \in 1..4 : Inherited(g)[Child(p, j)] = owner[q]
    BY <1>2, <2>5, InheritedOwner
  <2> QED BY <2>6 DEF Cut, Children
<1>4. \A k \in 1..4 : Child(p, k) \in DOMAIN forest
  BY <1>2, <1>3
<1>5. \A k \in 1..4 : Inherited(g)[Child(p, k)] = owner[Child(p, k)]
  BY <1>2, <1>4, InheritedOwner
<1>6. p \in Families(DOMAIN forest)
  <2>1. Child(p, 1) \in DOMAIN forest /\ Child(p, 1).level > 0 /\ p = ParentOf(Child(p, 1))
    BY <1>1, <1>2, <1>4, CellParts
  <2>2. Children(p) \subseteq DOMAIN forest
    BY <1>4 DEF Children
  <2> QED BY <2>1, <2>2 DEF Families
<1>7. Cut(p, owner)
  BY <1>5 DEF Cut, Children
<1> QED BY <1>1, <1>4, <1>6, <1>7 DEF Children

\* A repartition leaves every family on one rank.
LEMMA PartitionCutsNoFamily ==
  ASSUME NEW L, Tiling(L), NEW o \in Partitions(L)
  PROVE  /\ o \in [L -> 0..(NumRanks - 1)]
         /\ \A p \in Families(L) : ~ Cut(p, o)
<1> DEFINE place == Places(L)
           even == [i \in 1..(NumRanks - 1) |-> (i * Cardinality(L)) \div NumRanks]
           inside(p) == {place[Child(p, 1)] + i : i \in 1..3}
           clear == (0..Cardinality(L)) \ UNION {inside(p) : p \in Families(L)}
           far(b, i) == IF b < even[i] THEN even[i] - b ELSE b - even[i]
           near == [i \in DOMAIN even |->
                      {b \in clear : \A e \in even[i] - 2..even[i] + 2 :
                         e \in clear => far(b, i) <= far(e, i)}]
           upto(b, c) == {i \in DOMAIN even : b[i] <= place[c]}
<1>1. PICK border \in [DOMAIN even -> UNION {near[i] : i \in DOMAIN even}] :
        /\ \A i \in DOMAIN even : border[i] \in near[i]
        /\ o = [c \in L |-> Cardinality(upto(border, c))]
  BY DEF Partitions
<1>2. DOMAIN even = 1..(NumRanks - 1)
  OBVIOUS
<1>3. \A i \in DOMAIN even : border[i] \in clear
  BY <1>1
<1> HIDE DEF even, near, far
<1>4. \A c \in L : Cardinality(upto(border, c)) \in 0..(NumRanks - 1)
  <2> SUFFICES ASSUME NEW c \in L PROVE Cardinality(upto(border, c)) \in 0..(NumRanks - 1)
    OBVIOUS
  <2>1. IsFiniteSet(1..(NumRanks - 1)) /\ Cardinality(1..(NumRanks - 1)) = NumRanks - 1
    <3>1. 1 \in Int /\ NumRanks - 1 \in Int /\ NumRanks - 1 >= 0
      BY RanksAssumption
    <3> QED BY <3>1, FS_Interval
  <2>2. upto(border, c) \in SUBSET (1..(NumRanks - 1))
    BY <1>2
  <2> HIDE DEF upto
  <2>3. IsFiniteSet(upto(border, c)) /\ Cardinality(upto(border, c)) <= NumRanks - 1
    BY <2>1, <2>2, FS_Subset
  <2>4. Cardinality(upto(border, c)) \in Nat
    BY <2>3, FS_CardinalityType
  <2> QED BY <2>3, <2>4, RanksAssumption
<1>5. o \in [L -> 0..(NumRanks - 1)]
  <2> HIDE DEF upto
  <2> QED BY <1>1, <1>4
<1>6. ASSUME NEW p \in Families(L), NEW k \in 1..4
      PROVE  o[Child(p, k)] = o[Child(p, 1)]
  <2>1. \A j \in 1..4 : Child(p, j) \in L
    BY FamilyParent DEF Children
  <2>2. \A c \in L : place[c] = Cardinality({d \in L : ZOrder(d) < ZOrder(c)})
    BY DEF Places
  <2>3. place[Child(p, 1)] \in Nat /\ place[Child(p, k)] - place[Child(p, 1)] \in 0..3
        /\ place[Child(p, k)] \in Nat
    <3>1. /\ Cardinality({d \in L : ZOrder(d) < ZOrder(Child(p, 1))}) \in Nat
          /\ Cardinality({d \in L : ZOrder(d) < ZOrder(Child(p, k))})
               - Cardinality({d \in L : ZOrder(d) < ZOrder(Child(p, 1))}) \in 0..3
      BY FamilyPlaces
    <3>2. Cardinality({d \in L : ZOrder(d) < ZOrder(Child(p, k))}) \in Nat
      <4>1. {d \in L : ZOrder(d) < ZOrder(Child(p, k))} \in SUBSET L
        OBVIOUS
      <4> QED BY <4>1, FiniteForest, FS_Subset, FS_CardinalityType
    <3>3. Child(p, 1) \in L /\ Child(p, k) \in L
      BY <2>1
    <3> HIDE DEF place
    <3> QED BY <2>2, <3>1, <3>2, <3>3
  <2>4. upto(border, Child(p, k)) = upto(border, Child(p, 1))
    <3>1. ASSUME NEW i \in DOMAIN even, border[i] <= place[Child(p, k)]
          PROVE  border[i] <= place[Child(p, 1)]
      <4>1. border[i] \in 0..Cardinality(L) /\ border[i] \notin inside(p)
        BY <1>3
      <4>2. border[i] \in Nat
        <5>1. Cardinality(L) \in Nat
          BY FiniteForest, FS_CardinalityType
        <5> QED BY <4>1, <5>1
      <4>3. \A j \in 1..3 : border[i] # place[Child(p, 1)] + j
        BY <4>1
      <4> HIDE DEF place
      <4> DEFINE j == border[i] - place[Child(p, 1)]
      <4>4. j \in Int /\ border[i] = place[Child(p, 1)] + j /\ j <= 3
        BY <2>3, <3>1, <4>2
      <4>5. j \notin 1..3
        BY <4>3, <4>4
      <4> QED BY <2>3, <4>2, <4>4, <4>5
    <3>2. ASSUME NEW i \in DOMAIN even, border[i] <= place[Child(p, 1)]
          PROVE  border[i] <= place[Child(p, k)]
      <4>1. border[i] \in Nat
        <5>1. Cardinality(L) \in Nat
          BY FiniteForest, FS_CardinalityType
        <5>2. border[i] \in 0..Cardinality(L)
          BY <1>3
        <5> QED BY <5>1, <5>2
      <4> HIDE DEF place
      <4> QED BY <2>3, <3>2, <4>1
    <3> QED BY <3>1, <3>2
  <2> HIDE DEF upto
  <2> QED BY <1>1, <2>1, <2>4
<1> QED BY <1>5, <1>6 DEF Cut, Children

-----------------------------------------------------------------------------
(* The invariant. *)

\* The leaves at the start of the pass, and now.
Start == DOMAIN trail.start
Now == DOMAIN forest

\* Types, and the data of every leaf.
DataInv ==
  /\ criterion \in Criteria
  /\ owner \in [Now -> 0..(NumRanks - 1)]
  /\ merged \subseteq Now
  /\ phase \in Phase
  /\ passes \in 0..MaxPasses /\ transfers \in 0..MaxTransfers
  /\ phase = "refine" => passes < MaxPasses
  /\ DOMAIN trail = {"start", "refined"}
  /\ Holds(forest)

\* The leaves at the start of a pass and now are forests; the pass began with
\* a balanced one.
ShapeInv ==
  /\ Tiling(Now) /\ Levelled(Now)
  /\ Tiling(Start) /\ Gap(Start, 1)

\* How far the pass has come.
PassInv ==
  /\ phase \in {"preprocess", "aborted", "partition", "stage"} => Gap(Now, 1)
  /\ phase = "refine" => Start = Now
  /\ phase \in {"tag", "coarsen"} =>
       /\ DOMAIN trail.refined = Now
       /\ Gap(Now, 2)
       /\ Drift(Start, Now, 0, 1)
       /\ \A p \in Start \ Now :
            /\ Children(p) \subseteq Now
            /\ \A c \in Children(p) : forest[c].indicator > RefineError
  /\ phase = "coarsen" =>
       \A c \in TooCoarse(Now) : forest[c].coarsening = NotAllowed
  /\ phase = "balance" => Gap(Now, 2)
  /\ phase \in {"balance", "partition", "stage"} => Drift(Start, Now, -1, 1)
  /\ phase \in {"tag", "coarsen", "balance", "partition", "stage"} =>
       Tiling(DOMAIN trail.refined) /\ Kept(trail.refined, forest)

Inv == DataInv /\ ShapeInv /\ PassInv /\ NoFlap /\ CutFamiliesAreNew

-----------------------------------------------------------------------------
(* The mass of a forest. *)

\* The gas of every square, as a function.
GasOf == [c \in Cells |-> Mass(c)]

\* The deepest leaves of a forest come in families.
LEMMA DeepestFamily ==
  ASSUME NEW L, Tiling(L), NEW c \in L, c.level > 0, \A d \in L : d.level <= c.level
  PROVE  ParentOf(c) \in Families(L)
<1> DEFINE p == ParentOf(c)
<1>1. c \in Cells /\ c.level \in Nat /\ c.level <= Depth
  BY LeafIsCell, CellParts
<1>2. p \in Cells /\ p.level = c.level - 1 /\ p.level < Depth
  <2>1. p \in Cells /\ p.level = c.level - 1
    BY <1>1, ParentPlace
  <2> HIDE DEF p
  <2> QED BY <1>1, <2>1, DepthAssumption
<1>3. PICK j \in 1..4 : c = Child(p, j)
  BY <1>1, ParentPlace
<1> HIDE DEF p
<1>4. ASSUME NEW k \in 1..4 PROVE Child(p, k) \in L
  <2> DEFINE e == Child(p, k)
  <2>1. e \in Cells /\ e.level = c.level
    BY <1>1, <1>2, ChildPlace
  <2>2. Inside(e, p) /\ Inside(c, p)
    BY <1>1, <1>2, <1>3, ChildrenFill
  <2> HIDE DEF e
  <2>3. Touch(e, e)
    BY <2>1, OverlapOfSquares
  <2>4. PICK d \in L : Overlap(d, e)
    BY <2>1, <2>3, LeafThere
  <2>5. d \in Cells /\ d.level \in Nat /\ d.level <= e.level
    BY <2>1, LeafIsCell
  <2>6. Inside(e, d)
    BY <2>1, <2>4, <2>5, Nesting, OverlapOfSquares
  <2>7. CASE d.level = e.level
    <3>1. d = e
      BY <2>1, <2>4, <2>5, <2>7, SameLevel
    <3> QED BY <3>1 DEF e
  <2>8. CASE d.level < e.level
    <3>1. Overlap(p, d)
      BY <1>2, <2>1, <2>2, <2>4, <2>5, WholeMeets, OverlapOfSquares
    <3>2. d.level <= p.level
      BY <1>1, <1>2, <2>1, <2>5, <2>8
    <3>3. Inside(p, d)
      BY <1>2, <2>5, <3>1, <3>2, Nesting
    <3>4. Inside(c, d)
      BY <1>1, <1>2, <2>2, <2>5, <3>3, WholeMeets
    <3>5. Overlap(c, d)
      BY <1>1, <2>5, <3>4, OverlapOfSquares
    <3>6. c = d
      BY <3>5 DEF Tiling
    <3>7. FALSE
      BY <1>1, <2>1, <2>8, <3>6
    <3> QED BY <3>7
  <2>9. d.level = e.level \/ d.level < e.level
    BY <1>1, <2>1, <2>5
  <2> QED BY <2>7, <2>8, <2>9
<1> QED BY <1>4 DEF Families, Children, p

\* Putting one family together keeps the mass, and leaves fewer leaves.
LEMMA JoinMass ==
  ASSUME NEW L, Tiling(L), Levelled(L), NEW p \in Families(L), p.level \in MinLevel..MaxLevel
  PROVE  /\ SumOver(GasOf, Join(L, {p})) = SumOver(GasOf, L)
         /\ Cardinality(Join(L, {p})) \in Nat /\ Cardinality(L) \in Nat
         /\ Cardinality(Join(L, {p})) < Cardinality(L)
<1> DEFINE M == Join(L, {p})
           K == L \ Children(p)
<1>1. p \in Cells /\ p.level < Depth /\ Children(p) \subseteq L
  BY FamilyParent
<1>2. Tiling(M)
  BY JoinTiling
<1>3. IsFiniteSet(L) /\ IsFiniteSet(M) /\ IsFiniteSet(K)
  BY <1>2, FiniteForest, FS_Subset
<1>4. L \subseteq Cells
  BY DEF Tiling
<1>5. \A c \in L : GasOf[c] \in Int
  BY <1>4, MassOfChildren DEF GasOf, Levelled
<1>6. /\ \A k \in 1..4 : Child(p, k) \in L /\ Child(p, k) \in Cells
      /\ \A j, k \in 1..4 : j # k => Child(p, j) # Child(p, k)
  <2>1. \A k \in 1..4 : Child(p, k) \in L /\ Child(p, k) \in Cells
    BY <1>1, <1>4 DEF Children
  <2>2. \A k \in 1..4 : ChildId(Child(p, k)) = k
    BY <1>1, ChildUnique
  <2> QED BY <2>1, <2>2
<1> DEFINE a == Child(p, 1)
           b == Child(p, 2)
           c == Child(p, 3)
           d == Child(p, 4)
<1>7. Children(p) = {a, b, c, d}
  <2>1. 1..4 = {1, 2, 3, 4}
    OBVIOUS
  <2> QED BY <2>1 DEF Children
<1>8. /\ a \in L /\ b \in L /\ c \in L /\ d \in L
      /\ a # b /\ a # c /\ a # d /\ b # c /\ b # d /\ c # d
  <2>1. 1 \in 1..4 /\ 2 \in 1..4 /\ 3 \in 1..4 /\ 4 \in 1..4
    OBVIOUS
  <2> QED BY <1>6, <2>1
<1>9. GasOf[p] = GasOf[a] + GasOf[b] + GasOf[c] + GasOf[d]
  <2>1. Mass(p) = Mass(a) + Mass(b) + Mass(c) + Mass(d)
    BY <1>1, MassOfChildren, Levels
  <2> HIDE DEF a, b, c, d
  <2> QED BY <1>1, <1>4, <1>8, <2>1 DEF GasOf
<1> HIDE DEF a, b, c, d
<1>10. SumOver(GasOf, L) = GasOf[a] + GasOf[b] + GasOf[c] + GasOf[d] + SumOver(GasOf, K)
  BY <1>3, <1>5, <1>7, <1>8, SumWithoutFour
<1>11. p \notin L
  <2>1. Inside(a, p) /\ a \in Cells
    BY <1>1, <1>6, ChildrenFill DEF a
  <2>2. Overlap(a, p)
    BY <1>1, <2>1, OverlapOfSquares
  <2>3. a # p
    BY <1>1, ChildPlace, CellParts DEF a
  <2> QED BY <1>8, <2>2, <2>3 DEF Tiling
<1>12. M = K \cup {p} /\ M \ {p} = K
  BY <1>11 DEF Join
<1>13. GasOf[p] \in Int /\ \A x \in M : GasOf[x] \in Int
  <2>1. GasOf[p] \in Int
    BY <1>1, MassOfChildren DEF GasOf
  <2>2. \A x \in M : x \in L \/ x = p
    BY <1>12
  <2> HIDE DEF M
  <2> QED BY <1>5, <2>1, <2>2
<1>14. SumOver(GasOf, M) = GasOf[p] + SumOver(GasOf, K)
  <2>1. p \in M
    BY <1>12
  <2> HIDE DEF M, K
  <2>2. SumOver(GasOf, M) = GasOf[p] + SumOver(GasOf, M \ {p})
    BY <1>3, <1>13, <2>1, SumStep
  <2> QED BY <1>12, <2>2
<1>15. SumOver(GasOf, K) \in Int
  BY <1>3, <1>5, SumStep
<1>16. SumOver(GasOf, M) = SumOver(GasOf, L)
  BY <1>5, <1>8, <1>9, <1>10, <1>14, <1>15
<1>17. Cardinality(M) \in Nat /\ Cardinality(L) \in Nat /\ Cardinality(M) < Cardinality(L)
  <2>1. K \subseteq (L \ {a}) \ {b}
    BY <1>7
  <2>2. IsFiniteSet(L \ {a}) /\ IsFiniteSet((L \ {a}) \ {b}) /\ b \in L \ {a}
    BY <1>3, <1>8, FS_Subset
  <2>3. /\ Cardinality(L) \in Nat /\ Cardinality(L \ {a}) = Cardinality(L) - 1
        /\ Cardinality((L \ {a}) \ {b}) = Cardinality(L \ {a}) - 1
    BY <1>3, <1>8, <2>2, OneLess
  <2>4. Cardinality(K) \in Nat /\ Cardinality(K) <= Cardinality((L \ {a}) \ {b})
    BY <1>3, <2>1, <2>2, FS_Subset, FS_CardinalityType
  <2>5. p \in M
    BY <1>12
  <2> HIDE DEF M, K
  <2>6. Cardinality(M \ {p}) = Cardinality(M) - 1 /\ Cardinality(M) \in Nat
    BY <1>3, <2>5, OneLess
  <2>7. Cardinality(K) = Cardinality(M) - 1
    BY <1>12, <2>6
  <2>8. Cardinality(K) <= Cardinality(L) - 2
    BY <2>3, <2>4
  <2> QED BY <2>3, <2>6, <2>7, <2>8
<1> QED BY <1>16, <1>17

\* The gas of the domain.
WholeMass == SumOver(GasOf, LevelCells(MinLevel))

\* A forest whose leaves are all of the lowest level is that level.
LEMMA LowestForest ==
  ASSUME NEW L, Tiling(L), \A c \in L : c.level = MinLevel
  PROVE  L = LevelCells(MinLevel)
<1>1. MinLevel \in 0..Depth
  BY Levels
<1>2. L \subseteq LevelCells(MinLevel)
  BY LeafIsCell, CellOfLevel
<1>3. ASSUME NEW e \in LevelCells(MinLevel) PROVE e \in L
  <2>1. e \in Cells /\ e.level = MinLevel
    BY <1>1, LevelCellsAreCells
  <2>2. PICK c \in L : Overlap(c, e)
    BY <2>1, OverlapOfSquares, LeafThere
  <2>3. c = e
    BY <2>1, <2>2, LeafIsCell, SameLevel
  <2> QED BY <2>3
<1> QED BY <1>2, <1>3

\* Among finitely many leaves there is a deepest.
LEMMA DeepestLeaf ==
  ASSUME NEW L, Tiling(L), Levelled(L), L # {}
  PROVE  \E c \in L : \A d \in L : d.level <= c.level
<1> DEFINE T == {n \in Nat : \E c \in L : n = MaxLevel - c.level}
<1>1. \A c \in L : c.level \in Nat /\ MaxLevel - c.level \in T
  BY Levels DEF Levelled
<1>2. T \subseteq Nat /\ T # {}
  BY <1>1
<1>3. PICK n \in T : \A m \in T : n <= m
  BY <1>2, LeastNumber
<1>4. PICK c \in L : n = MaxLevel - c.level
  BY <1>3
<1>5. ASSUME NEW d \in L PROVE d.level <= c.level
  <2>1. n <= MaxLevel - d.level
    BY <1>1, <1>3
  <2> QED BY <1>1, <1>4, <2>1, Levels
<1> QED BY <1>5

\* Every forest between the levels holds the same mass.
LEMMA MassOfForest ==
  ASSUME NEW L, Tiling(L), Levelled(L)
  PROVE  SumOver(GasOf, L) = WholeMass
<1> DEFINE Odd(F) == Tiling(F) /\ Levelled(F) /\ SumOver(GasOf, F) # WholeMass
           T == {n \in Nat : \E F \in SUBSET Cells : Odd(F) /\ Cardinality(F) = n}
<1>1. SUFFICES ASSUME Odd(L) PROVE FALSE
  OBVIOUS
<1>2. T # {}
  <2>1. L \in SUBSET Cells
    BY DEF Tiling
  <2>2. Cardinality(L) \in Nat
    BY FiniteForest, FS_CardinalityType
  <2> QED BY <1>1, <2>1, <2>2
<1>3. PICK n \in T : \A m \in T : n <= m
  <2>1. T \subseteq Nat
    OBVIOUS
  <2> HIDE DEF T
  <2> QED BY <1>2, <2>1, LeastNumber
<1>4. PICK F \in SUBSET Cells : Odd(F) /\ Cardinality(F) = n
  BY <1>3
<1>5. F # LevelCells(MinLevel)
  BY <1>4 DEF WholeMass
<1>6. PICK c \in F : c.level # MinLevel
  BY <1>4, <1>5, LowestForest
<1>7. PICK d \in F : \A e \in F : e.level <= d.level
  BY <1>4, <1>6, DeepestLeaf
<1>8. d \in Cells /\ d.level \in (MinLevel + 1)..MaxLevel
  <2>1. c.level \in MinLevel..MaxLevel /\ d.level \in MinLevel..MaxLevel /\ c.level <= d.level
    BY <1>4, <1>7 DEF Levelled
  <2> QED BY <1>6, <2>1, Levels
<1> DEFINE p == ParentOf(d)
           M == Join(F, {p})
<1>9. p \in Families(F) /\ p \in Cells /\ p.level = d.level - 1
  BY <1>4, <1>7, <1>8, DeepestFamily, ParentPlace, Levels
<1> HIDE DEF p
<1>10. p.level \in MinLevel..MaxLevel
  BY <1>8, <1>9, Levels
<1>11. /\ SumOver(GasOf, M) = SumOver(GasOf, F) /\ Cardinality(M) \in Nat
       /\ Cardinality(M) < n
  BY <1>4, <1>9, <1>10, JoinMass
<1>12. Tiling(M)
  BY <1>4, <1>9, JoinTiling
<1>13. Levelled(M) /\ M \in SUBSET Cells
  BY <1>4, <1>9, <1>10 DEF Levelled, Join
<1> HIDE DEF M
<1>14. Cardinality(M) \in T
  BY <1>4, <1>11, <1>12, <1>13
<1>15. n \in Nat /\ n <= Cardinality(M)
  BY <1>3, <1>14
<1> HIDE DEF T, Odd
<1> QED BY <1>11, <1>15

-----------------------------------------------------------------------------
(* Steps. *)

\* A forest has not drifted from itself.
LEMMA NoDrift ==
  ASSUME NEW L, Tiling(L)
  PROVE  Drift(L, L, -1, 1)
<1> SUFFICES ASSUME NEW c \in L, NEW d \in L, Overlap(c, d) PROVE d.level - c.level \in -1..1
  BY DEF Drift
<1>1. c = d /\ c.level \in Nat
  BY LeafIsCell DEF Tiling
<1> QED BY <1>1

\* The initial forest: one level.
LEMMA InitInv == Init => Inv
<1> SUFFICES ASSUME Init PROVE Inv
  OBVIOUS
<1> USE DEF Init
<1> DEFINE L == LevelCells(MinLevel)
<1>1. MinLevel \in 0..Depth /\ MinLevel \in MinLevel..MaxLevel
  BY Levels
<1>2. Tiling(L) /\ (\A c \in L : c \in Cells /\ c.level = MinLevel)
  BY <1>1, LevelTiling, LevelCellsAreCells
<1>3. Now = L /\ Start = L /\ DOMAIN trail = {"start", "refined"}
  BY DEF Now, Start, Remember
<1>4. Levelled(L) /\ Gap(L, 1)
  BY <1>1, <1>2 DEF Levelled, Gap
<1>5. Holds(forest)
  <2> SUFFICES ASSUME NEW c \in L PROVE forest[c] \in LeafData(c)
    BY <1>3 DEF Holds, Now
  <2> DEFINE d == [mass |-> Mass(c), total |-> InitialEnergy[c], internal |-> InitialEnergy[c],
                   parts |-> <<>>, indicator |-> Unset, coarsening |-> Unset]
  <2>1. c \in Cells /\ c.level \in MinLevel..MaxLevel
    BY <1>1, <1>2
  <2>2. InitialEnergy[c] \in Nat
    BY InitialAssumption
  <2>3. d \in [mass : {Mass(c)}, total : Nat, internal : Nat, parts : {<<>>},
               indicator : {Unset, 0, 1, 2}, coarsening : {Unset, Allowed, NotAllowed}]
    BY <2>2
  <2>4. forest[c] = WithParts(c, d)
    OBVIOUS
  <2> HIDE DEF d, L
  <2> QED BY <2>1, <2>3, <2>4, LeafWithParts
<1>6. owner \in [L -> 0..(NumRanks - 1)] /\ \A p \in Families(L) : ~ Cut(p, owner)
  BY <1>2, PartitionCutsNoFamily
<1> HIDE DEF L
<1>7. DataInv
  BY <1>3, <1>5, <1>6, BoundAssumption DEF DataInv, Phase
<1>8. ShapeInv
  BY <1>2, <1>3, <1>4 DEF ShapeInv
<1>9. PassInv
  BY <1>3, <1>4 DEF PassInv
<1>10. NoFlap
  BY DEF NoFlap
<1>11. CutFamiliesAreNew
  BY <1>3, <1>6 DEF CutFamiliesAreNew, Now
<1> QED BY <1>7, <1>8, <1>9, <1>10, <1>11 DEF Inv

\* Gradients and default tags change no leaf, and a pass begins with them.
LEMMA PreProcessInv == Inv /\ PreProcess => Inv'
<1> SUFFICES ASSUME Inv, PreProcess PROVE Inv'
  OBVIOUS
<1> USE DEF PreProcess, shares
<1>1. PICK front \in Fronts :
        forest' = [c \in DOMAIN forest |->
                     [forest[c] EXCEPT !.indicator = Steepness(c, front), !.coarsening = Allowed]]
  OBVIOUS
<1>2. Now' = Now /\ Start' = Now /\ DOMAIN trail' = {"start", "refined"}
  BY <1>1 DEF Now, Start, Remember
<1>3. /\ Tiling(Now) /\ Levelled(Now) /\ Gap(Now, 1) /\ Holds(forest)
  BY DEF Inv, ShapeInv, PassInv, DataInv
<1>4. Holds(forest')
  <2> SUFFICES ASSUME NEW c \in DOMAIN forest
               PROVE  forest'[c] \in LeafData(c)
    BY <1>1 DEF Holds
  <2>1. forest[c] \in LeafData(c)
    BY <1>3 DEF Holds
  <2>2. forest'[c] = [forest[c] EXCEPT !.indicator = Steepness(c, front), !.coarsening = Allowed]
    BY <1>1
  <2>3. Steepness(c, front) \in {Unset, 0, 1, 2}
    BY DEF Steepness
  <2> HIDE DEF PreProcess, LeafParts
  <2> QED BY <2>1, <2>2, <2>3 DEF LeafData
<1>5. phase = "preprocess" /\ phase' \in {"refine", "partition", "stage"}
  OBVIOUS
<1>6. DataInv'
  BY <1>2, <1>4, <1>5 DEF Inv, DataInv, Now, Phase
<1>7. ShapeInv'
  BY <1>2, <1>3 DEF ShapeInv
<1>8. PassInv'
  <2>1. trail'.refined = forest' /\ DOMAIN forest' = Now
    BY <1>1 DEF Now, Remember
  <2>2. Kept(forest', forest')
    BY <1>3, <2>1, KeptAtFirst
  <2> QED BY <1>2, <1>3, <1>5, <2>1, <2>2, NoDrift DEF PassInv
<1>9. NoFlap'
  BY <1>5 DEF NoFlap
<1>10. CutFamiliesAreNew'
  BY <1>2 DEF Inv, CutFamiliesAreNew, Now
<1> QED BY <1>6, <1>7, <1>8, <1>9, <1>10 DEF Inv

\* Families that are cut after refining were cut before.
LEMMA CarriedFamilies ==
  ASSUME Inv, NEW g, Tiling(DOMAIN g),
         \A c \in DOMAIN g : \E q \in DOMAIN forest : Inside(c, q),
         NEW p \in Families(DOMAIN g), Cut(p, Inherited(g))
  PROVE  Children(p) \cap (merged \cap DOMAIN g) # {}
<1>1. Tiling(DOMAIN forest) /\ owner \in [DOMAIN forest -> 0..(NumRanks - 1)]
  BY DEF Inv, ShapeInv, DataInv, Now
<1>2. /\ p \in Families(DOMAIN forest) /\ Cut(p, owner)
      /\ Children(p) \subseteq DOMAIN g \cap DOMAIN forest
  <2> DEFINE P == {}
  <2>1. /\ \A c \in DOMAIN g : c \notin P => \E q \in DOMAIN forest : Inside(c, q)
        /\ Children(p) \cap P = {}
    OBVIOUS
  <2> HIDE DEF P
  <2> QED BY <1>1, <2>1, CutIsOld
<1>3. Children(p) \cap merged # {}
  BY <1>2 DEF Inv, CutFamiliesAreNew
<1> QED BY <1>2, <1>3

\* Refining: a leaf with a steep gradient hands it to its children.
LEMMA RefineInv == Inv /\ Refine => Inv'
<1> SUFFICES ASSUME Inv, Refine PROVE Inv'
  OBVIOUS
<1> DEFINE R == {c \in DOMAIN forest : RefineErrorEstimate(forest, c)}
<1>1. /\ phase = "refine" /\ phase' = "tag"
      /\ forest' = RefineLeaves(forest, R)
      /\ owner' = Inherited(forest') /\ merged' = merged \cap DOMAIN forest'
      /\ trail' = [trail EXCEPT !.refined = forest']
      /\ passes' = passes + 1 /\ UNCHANGED <<criterion, transfers>>
  BY DEF Refine, Carry
<1>2. /\ Tiling(Now) /\ Levelled(Now) /\ Gap(Now, 1) /\ Holds(forest) /\ Start = Now
  BY <1>1 DEF Inv, ShapeInv, PassInv, DataInv
<1>3. \A p \in R : p \in Now /\ p.level < MaxLevel /\ forest[p].indicator > RefineError
  <2> SUFFICES ASSUME NEW p \in R
               PROVE  p \in Now /\ p.level < MaxLevel /\ forest[p].indicator > RefineError
    OBVIOUS
  <2>1. p \in Now /\ p.level \in MinLevel..MaxLevel
    BY <1>2 DEF Now, Levelled
  <2> QED BY <2>1, Levels DEF RefineErrorEstimate
<1> HIDE DEF R
<1>4. /\ DOMAIN forest' = Split(Now, R)
      /\ Tiling(DOMAIN forest') /\ Levelled(DOMAIN forest') /\ Holds(forest')
      /\ \A p \in R : \A c \in Children(p) : forest'[c].indicator = forest[p].indicator
  <2>1. R \subseteq DOMAIN forest /\ \A p \in R : p.level < MaxLevel
    BY <1>3 DEF Now
  <2> QED BY <1>1, <1>2, <2>1, RefinedForest DEF Now
<1>5. Now' = Split(Now, R) /\ Start' = Now /\ DOMAIN trail' = {"start", "refined"}
      /\ trail'.refined = forest'
  BY <1>1, <1>2, <1>4 DEF Now, Start, Inv, DataInv
<1>6. DataInv'
  <2>1. owner' \in [Now' -> 0..(NumRanks - 1)]
    BY <1>1, <1>2, <1>4, InheritedOwner DEF Inv, DataInv, Now
  <2>2. passes' \in 0..MaxPasses
    <3>1. passes \in Nat /\ passes < MaxPasses /\ MaxPasses \in Nat
      BY <1>1, BoundAssumption DEF Inv, DataInv
    <3> QED BY <1>1, <3>1
  <2> QED BY <1>1, <1>4, <1>5, <2>1, <2>2 DEF Inv, DataInv, Phase, Now
<1>7. ShapeInv'
  BY <1>2, <1>4, <1>5 DEF ShapeInv, Now
<1>8. PassInv'
  <2>1. Gap(Now', 2) /\ Drift(Now, Now', 0, 1)
    <3>1. \A p \in R : p.level < Depth
      BY <1>3, Levels
    <3>2. R \subseteq Now
      BY <1>3
    <3> QED BY <1>2, <1>5, <3>1, <3>2, RefineGap
  <2>2. \A p \in Start' \ Now' :
          /\ Children(p) \subseteq Now'
          /\ \A c \in Children(p) : forest'[c].indicator > RefineError
    <3>1. \A p \in Now \ Now' : p \in R
      BY <1>5 DEF Split
    <3>2. \A p \in R : Children(p) \subseteq Now'
      BY <1>5 DEF Split
    <3> QED BY <1>3, <1>4, <1>5, <3>1, <3>2
  <2>3. Kept(forest', forest')
    BY <1>4, KeptAtFirst
  <2> QED BY <1>1, <1>4, <1>5, <2>1, <2>2, <2>3 DEF PassInv, Now
<1>9. NoFlap'
  BY <1>1 DEF NoFlap
<1>10. CutFamiliesAreNew'
  <2> SUFFICES ASSUME NEW p \in Families(DOMAIN forest'), Cut(p, owner')
               PROVE  Children(p) \cap merged' # {}
    BY DEF CutFamiliesAreNew
  <2>1. \A c \in DOMAIN forest' : \E q \in DOMAIN forest : Inside(c, q)
    <3> SUFFICES ASSUME NEW c \in Split(Now, R) PROVE \E q \in Now : Inside(c, q)
      BY <1>4 DEF Now
    <3>1. CASE c \in Now
      BY <1>2, <3>1, LeafIsCell, CellParts DEF Inside
    <3>2. CASE \E q \in R : Inside(c, q)
      BY <1>3, <3>2
    <3> QED BY <1>2, <1>3, <3>1, <3>2, SplitLeaf, Levels
  <2> QED BY <1>1, <1>4, <2>1, CarriedFamilies
<1> QED BY <1>6, <1>7, <1>8, <1>9, <1>10 DEF Inv

\* The driver stops.
LEMMA UnsupportedInv == Inv /\ Unsupported => Inv'
BY DEF Inv, Unsupported, DataInv, ShapeInv, PassInv, NoFlap, CutFamiliesAreNew, Now, Start,
       Phase, shares

\* The tags.
LEMMA TagCoarseningInv == Inv /\ TagCoarsening => Inv'
<1> SUFFICES ASSUME Inv, TagCoarsening PROVE Inv'
  OBVIOUS
<1>1. /\ phase = "tag" /\ phase' = "coarsen"
      /\ forest' = [c \in DOMAIN forest |->
                      IF c \in TooCoarse(DOMAIN forest)
                        THEN [forest[c] EXCEPT !.coarsening = NotAllowed]
                        ELSE forest[c]]
      /\ UNCHANGED <<criterion, owner, merged, passes, transfers, trail>>
  BY DEF TagCoarsening, shares
<1>2. Now' = Now /\ Start' = Start
  BY <1>1 DEF Now, Start
<1>3. \A c \in Now : /\ forest[c] \in LeafData(c)
                     /\ forest'[c] \in LeafData(c)
                     /\ forest'[c].indicator = forest[c].indicator
                     /\ forest'[c].mass = forest[c].mass
                     /\ forest'[c].internal = forest[c].internal
                     /\ c \in TooCoarse(Now) => forest'[c].coarsening = NotAllowed
  <2> SUFFICES ASSUME NEW c \in Now
               PROVE  /\ forest[c] \in LeafData(c)
                      /\ forest'[c] \in LeafData(c)
                      /\ forest'[c].indicator = forest[c].indicator
                      /\ forest'[c].mass = forest[c].mass
                      /\ forest'[c].internal = forest[c].internal
                      /\ c \in TooCoarse(Now) => forest'[c].coarsening = NotAllowed
    OBVIOUS
  <2>1. forest[c] \in LeafData(c)
    BY DEF Inv, DataInv, Holds, Now
  <2>2. forest'[c] = IF c \in TooCoarse(Now) THEN [forest[c] EXCEPT !.coarsening = NotAllowed]
                                             ELSE forest[c]
    BY <1>1 DEF Now
  <2> HIDE DEF LeafParts
  <2> QED BY <2>1, <2>2 DEF LeafData
<1>4. DataInv'
  <2>1. Holds(forest)'
    BY <1>1, <1>3 DEF Holds, Now
  <2> QED BY <1>1, <1>2, <2>1 DEF Inv, DataInv, Phase
<1>5. ShapeInv'
  BY <1>2 DEF Inv, ShapeInv
<1>6. PassInv'
  <2>1. /\ DOMAIN trail.refined = Now /\ Gap(Now, 2) /\ Drift(Start, Now, 0, 1)
        /\ \A p \in Start \ Now :
             /\ Children(p) \subseteq Now
             /\ \A c \in Children(p) : forest[c].indicator > RefineError
    BY <1>1 DEF Inv, PassInv
  <2>2. \A p \in Start \ Now : \A c \in Children(p) : forest'[c].indicator > RefineError
    BY <1>3, <2>1
  <2>3. \A c \in TooCoarse(Now) : c \in Now
    BY DEF TooCoarse
  <2>4. Tiling(DOMAIN trail.refined) /\ Kept(trail.refined, forest')
    <3>1. DOMAIN forest' = Now /\ Tiling(Now) /\ Kept(trail.refined, forest) /\ DOMAIN forest = Now
      BY <1>1 DEF Inv, ShapeInv, PassInv, Now
    <3>2. \A c \in Now : /\ forest'[c].mass = trail.refined[c].mass
                         /\ forest'[c].internal = trail.refined[c].internal
      BY <1>3, <2>1, <3>1 DEF Kept
    <3> QED BY <2>1, <3>1, <3>2, KeptAtFirst
  <2> QED BY <1>1, <1>2, <1>3, <2>1, <2>2, <2>3, <2>4 DEF PassInv
<1>7. NoFlap'
  BY <1>1 DEF NoFlap
<1>8. CutFamiliesAreNew'
  BY <1>1, <1>2 DEF Inv, CutFamiliesAreNew, Now
<1> QED BY <1>4, <1>5, <1>6, <1>7, <1>8 DEF Inv

\* Coarsening: the tags leave gaps of two levels, the gradients of the
\* children keep what was refined in this pass.
LEMMA CoarsenInv == Inv /\ Coarsen => Inv'
<1> SUFFICES ASSUME Inv, Coarsen PROVE Inv'
  OBVIOUS
<1> DEFINE P == {p \in Families(DOMAIN forest) :
                   ~Cut(p, owner) /\ CoarsenErrorEstimate(forest, Children(p))}
<1>1. /\ phase = "coarsen" /\ phase' = "balance"
      /\ forest' = CoarsenFamilies(forest, P)
      /\ owner' = Inherited(forest') /\ merged' = (merged \cap DOMAIN forest') \cup P
      /\ UNCHANGED <<criterion, passes, transfers, trail>>
  BY DEF Coarsen
<1>2. /\ Tiling(Now) /\ Levelled(Now) /\ Holds(forest) /\ Gap(Now, 2)
      /\ Tiling(Start) /\ Gap(Start, 1) /\ Drift(Start, Now, 0, 1)
      /\ DOMAIN trail.refined = Now
      /\ owner \in [Now -> 0..(NumRanks - 1)]
  BY <1>1 DEF Inv, ShapeInv, PassInv, DataInv
<1>3. P \subseteq Families(Now)
  BY DEF Now
<1>4. \A p \in P : /\ \A c \in Children(p) : c.level > MinLevel
                   /\ Children(p) \cap TooCoarse(Now) = {}
                   /\ CoarsenErrorEstimate(forest, Children(p))
  <2> SUFFICES ASSUME NEW p \in P
               PROVE  /\ \A c \in Children(p) : c.level > MinLevel
                      /\ Children(p) \cap TooCoarse(Now) = {}
    OBVIOUS
  <2>1. \A c \in Children(p) : forest[c].coarsening # NotAllowed /\ c.level > MinLevel
    BY DEF CoarsenErrorEstimate
  <2>2. \A c \in TooCoarse(Now) : forest[c].coarsening = NotAllowed
    BY <1>1 DEF Inv, PassInv
  <2> QED BY <2>1, <2>2
<1> HIDE DEF P
<1>5. /\ DOMAIN forest' = Join(Now, P)
      /\ Tiling(DOMAIN forest') /\ Levelled(DOMAIN forest') /\ Holds(forest')
  <2>1. P \subseteq Families(DOMAIN forest) /\ \A p \in P : \A c \in Children(p) : c.level > MinLevel
    BY <1>3, <1>4 DEF Now
  <2> QED BY <1>1, <1>2, <2>1, CoarsenedForest DEF Now
<1>6. Now' = Join(Now, P) /\ Start' = Start /\ P \subseteq Now'
  BY <1>1, <1>5 DEF Now, Start, Join
<1>7. DataInv'
  <2>1. owner' \in [Now' -> 0..(NumRanks - 1)]
    BY <1>1, <1>2, <1>5, InheritedOwner DEF Now
  <2> QED BY <1>1, <1>5, <1>6, <2>1 DEF Inv, DataInv, Phase, Now
<1>8. ShapeInv'
  BY <1>2, <1>5, <1>6 DEF ShapeInv, Now
<1>9. PassInv'
  <2>1. Gap(Now', 2)
    BY <1>2, <1>3, <1>4, <1>6, CoarsenGap
  <2>2. Drift(Start, Now', -1, 1)
    BY <1>2, <1>3, <1>6, CoarsenDrift
  <2>3. Kept(trail.refined, forest')
    <3>1. Kept(trail.refined, forest) /\ DOMAIN trail.refined = DOMAIN forest /\ Tiling(DOMAIN forest)
      BY <1>1, <1>2 DEF Inv, PassInv, Now
    <3> QED BY <1>1, <1>3, <3>1, CoarseningKeeps DEF Now
  <2> QED BY <1>1, <1>2, <1>6, <2>1, <2>2, <2>3 DEF PassInv
<1>10. NoFlap'
  <2> SUFFICES ASSUME CoarsenError <= RefineError, NEW p \in Start, p \notin Now, p \in Now'
               PROVE  FALSE
    BY <1>1, <1>2 DEF NoFlap, Start, Now
  <2>1. p \in P
    BY <1>6 DEF Join
  <2>2. PICK c \in Children(p) : forest[c].indicator < CoarsenError
    <3>1. ~ \E c \in Children(p) : c.level > MaxLevel
      <4>1. Children(p) \subseteq Now
        BY <1>3, <2>1 DEF Families
      <4>2. \A c \in Now : c.level \in Nat /\ c.level <= MaxLevel
        BY <1>2, Levels DEF Levelled
      <4> QED BY <4>1, <4>2, Levels
    <3> QED BY <1>4, <2>1, <3>1 DEF CoarsenErrorEstimate
  <2>3. forest[c].indicator > RefineError /\ c \in Now
    BY <1>1 DEF Inv, PassInv
  <2>4. forest[c].indicator \in Int
    <3>1. forest[c] \in LeafData(c)
      BY <1>2, <2>3 DEF Holds, Now
    <3> HIDE DEF LeafParts
    <3> QED BY <3>1 DEF LeafData, Unset
  <2> QED BY <2>2, <2>3, <2>4, ThresholdAssumption
<1>11. CutFamiliesAreNew'
  <2> SUFFICES ASSUME NEW p \in Families(DOMAIN forest'), Cut(p, owner')
               PROVE  Children(p) \cap merged' # {}
    BY DEF CutFamiliesAreNew
  <2>1. CASE Children(p) \cap P # {}
    BY <1>1, <2>1
  <2>2. CASE Children(p) \cap P = {}
    <3>1. \A c \in DOMAIN forest' : c \notin P => \E q \in DOMAIN forest : Inside(c, q)
      <4> SUFFICES ASSUME NEW c \in Join(Now, P), c \notin P PROVE \E q \in Now : Inside(c, q)
        BY <1>5 DEF Now
      <4>1. c \in Now /\ c \in Cells
        BY <1>2, <1>3, JoinLeaf
      <4>2. Inside(c, c)
        BY <4>1, CellParts DEF Inside
      <4> QED BY <4>1, <4>2
    <3>2. /\ p \in Families(DOMAIN forest) /\ Cut(p, owner)
          /\ Children(p) \subseteq DOMAIN forest' \cap DOMAIN forest
      <4>1. Tiling(DOMAIN forest) /\ owner \in [DOMAIN forest -> 0..(NumRanks - 1)]
        BY <1>2 DEF Now
      <4> QED BY <1>1, <1>5, <2>2, <3>1, <4>1, CutIsOld
    <3>3. Children(p) \cap merged # {}
      BY <3>2 DEF Inv, CutFamiliesAreNew
    <3> QED BY <1>1, <3>2, <3>3
  <2> QED BY <2>1, <2>2
<1> QED BY <1>7, <1>8, <1>9, <1>10, <1>11 DEF Inv

\* Balancing: each round halves the largest leaf next to a gap of two levels,
\* and refines nothing that was refined in this pass.
LEMMA BalanceInv == Inv /\ Balance => Inv'
<1> SUFFICES ASSUME Inv, Balance PROVE Inv'
  OBVIOUS
<1>1. /\ phase = "balance" /\ phase' \in {"partition", "stage"}
      /\ forest' = BalancedForest(forest)
      /\ owner' = Inherited(forest') /\ merged' = merged \cap DOMAIN forest'
      /\ UNCHANGED <<criterion, passes, transfers, trail>>
  BY DEF Balance, Carry
<1>2. /\ Tiling(DOMAIN forest) /\ Levelled(DOMAIN forest) /\ Holds(forest) /\ Gap(DOMAIN forest, 2)
      /\ Tiling(Start) /\ Gap(Start, 1) /\ Drift(Start, DOMAIN forest, -1, 1)
      /\ Tiling(DOMAIN trail.refined) /\ Kept(trail.refined, forest)
      /\ owner \in [DOMAIN forest -> 0..(NumRanks - 1)]
  BY <1>1 DEF Inv, ShapeInv, PassInv, DataInv, Now
<1>3. /\ Tiling(DOMAIN forest') /\ Levelled(DOMAIN forest') /\ Holds(forest')
      /\ Gap(DOMAIN forest', 1) /\ Drift(Start, DOMAIN forest', -1, 1)
      /\ Finer(DOMAIN forest', DOMAIN forest) /\ Kept(trail.refined, forest')
  BY <1>1, <1>2, BalancedResult
<1>4. Now' = DOMAIN forest' /\ Start' = Start
  BY <1>1 DEF Now, Start
<1>5. DataInv'
  <2>1. owner' \in [DOMAIN forest' -> 0..(NumRanks - 1)]
    BY <1>1, <1>2, <1>3, InheritedOwner
  <2> QED BY <1>1, <1>3, <1>4, <2>1 DEF Inv, DataInv, Phase
<1>6. ShapeInv'
  BY <1>2, <1>3, <1>4 DEF ShapeInv
<1>7. PassInv'
  BY <1>1, <1>2, <1>3, <1>4 DEF PassInv
<1>8. NoFlap'
  BY <1>1 DEF NoFlap
<1>9. CutFamiliesAreNew'
  <2> SUFFICES ASSUME NEW p \in Families(DOMAIN forest'), Cut(p, owner')
               PROVE  Children(p) \cap merged' # {}
    BY DEF CutFamiliesAreNew
  <2> QED BY <1>1, <1>3, CarriedFamilies DEF Finer
<1> QED BY <1>5, <1>6, <1>7, <1>8, <1>9 DEF Inv

\* The repartition moves leaves between ranks, and cuts no family.
LEMMA PartitionInv == Inv /\ Partition => Inv'
<1> SUFFICES ASSUME Inv, Partition PROVE Inv'
  OBVIOUS
<1>1. /\ phase = "partition" /\ phase' = "stage"
      /\ owner' \in Partitions(Now) /\ merged' = {}
      /\ UNCHANGED <<criterion, forest, passes, transfers, trail>>
  BY DEF Partition, Now
<1>2. Now' = Now /\ Start' = Start
  BY <1>1 DEF Now, Start
<1>3. Tiling(Now)
  BY DEF Inv, ShapeInv
<1>4. owner' \in [Now -> 0..(NumRanks - 1)] /\ \A p \in Families(Now) : ~ Cut(p, owner')
  BY <1>1, <1>3, PartitionCutsNoFamily
<1>5. DataInv'
  BY <1>1, <1>2, <1>4 DEF Inv, DataInv, Phase
<1>6. ShapeInv'
  BY <1>2 DEF Inv, ShapeInv
<1>7. PassInv'
  BY <1>1, <1>2 DEF Inv, PassInv
<1>8. NoFlap'
  BY <1>1 DEF NoFlap
<1>9. CutFamiliesAreNew'
  BY <1>1, <1>4 DEF CutFamiliesAreNew, Now
<1> QED BY <1>5, <1>6, <1>7, <1>8, <1>9 DEF Inv

\* The stage changes energies: no leaf and no mass.
LEMMA StagedForest ==
  ASSUME Inv, Stage
  PROVE  DOMAIN forest' = DOMAIN forest /\ Holds(forest')
<1>1. \A c \in DOMAIN forest :
        /\ c \in Cells /\ c.level \in MinLevel..MaxLevel /\ forest[c] \in LeafData(c)
  <2>1. \A c \in Now : c \in Cells
    BY LeafIsCell DEF Inv, ShapeInv
  <2> QED BY <2>1 DEF Inv, ShapeInv, DataInv, Holds, Levelled, Now
<1> DEFINE Kind(c) == [mass : {Mass(c)}, total : Nat, internal : Nat, parts : LeafParts(c),
                       indicator : {Unset, 0, 1, 2}, coarsening : {Unset, Allowed, NotAllowed}]
<1>2. CASE forest' = [c \in DOMAIN forest |-> WithParts(c, forest[c])]
  <2>1. \A c \in DOMAIN forest : forest[c] \in Kind(c)
    BY <1>1 DEF LeafData
  <2> QED BY <1>1, <1>2, <2>1, LeafWithParts DEF Holds
<1>3. ASSUME NEW a \in DOMAIN forest, NEW b \in DOMAIN forest, a # b,
             forest[a].total > Quantum, forest[a].internal > Quantum, forest' = Flow(a, b)
      PROVE  DOMAIN forest' = DOMAIN forest /\ Holds(forest')
  <2> DEFINE gain(c) == CASE c = b -> Quantum [] c = a -> -Quantum [] OTHER -> 0
             d(c) == [forest[c] EXCEPT !.total = @ + gain(c), !.internal = @ + gain(c)]
  <2>1. forest' = [c \in DOMAIN forest |-> WithParts(c, d(c))]
    BY <1>3 DEF Flow
  <2>2. ASSUME NEW c \in DOMAIN forest PROVE d(c) \in Kind(c)
    <3>1. forest[c] \in Kind(c)
      BY <1>1 DEF LeafData
    <3>2. forest[c].total + gain(c) \in Nat /\ forest[c].internal + gain(c) \in Nat
      <4>1. forest[c].total \in Nat /\ forest[c].internal \in Nat /\ Quantum \in Nat
        BY <3>1, BoundAssumption
      <4>2. CASE c = b
        BY <1>3, <4>1, <4>2
      <4>3. CASE c = a
        BY <1>3, <4>1, <4>3
      <4>4. CASE c # a /\ c # b
        BY <4>1, <4>4
      <4> QED BY <4>2, <4>3, <4>4
    <3> HIDE DEF gain, LeafParts
    <3> QED BY <3>1, <3>2
  <2> HIDE DEF d
  <2> QED BY <1>1, <2>1, <2>2, LeafWithParts DEF Holds
<1> HIDE DEF Kind
<1> QED BY <1>2, <1>3 DEF Stage

\* The stage.
LEMMA StageInv == Inv /\ Stage => Inv'
<1> SUFFICES ASSUME Inv, Stage PROVE Inv'
  OBVIOUS
<1>1. /\ phase = "stage" /\ phase' = "preprocess" /\ trail' = Remember(forest')
      /\ UNCHANGED <<criterion, owner, merged, passes>>
  BY DEF Stage, shares
<1>2. transfers' \in 0..MaxTransfers
  <2>1. transfers \in Nat /\ transfers <= MaxTransfers /\ MaxTransfers \in Nat
    BY BoundAssumption DEF Inv, DataInv
  <2> QED BY <2>1 DEF Stage
<1>3. Now' = Now /\ Start' = Now /\ DOMAIN trail' = {"start", "refined"} /\ Holds(forest')
  BY <1>1, StagedForest DEF Now, Start, Remember
<1>4. DataInv'
  BY <1>1, <1>2, <1>3 DEF Inv, DataInv, Phase
<1>5. ShapeInv'
  BY <1>1, <1>3 DEF Inv, ShapeInv, PassInv
<1>6. PassInv'
  BY <1>1, <1>3 DEF Inv, PassInv
<1>7. NoFlap'
  BY <1>1 DEF NoFlap
<1>8. CutFamiliesAreNew'
  BY <1>1, <1>3 DEF Inv, CutFamiliesAreNew, Now
<1> QED BY <1>4, <1>5, <1>6, <1>7, <1>8 DEF Inv

-----------------------------------------------------------------------------
(* Theorems. *)

\* Every step.
LEMMA StepInv == Inv /\ [Next]_vars => Inv'
<1> SUFFICES ASSUME Inv, [Next]_vars PROVE Inv'
  OBVIOUS
<1>1. CASE UNCHANGED vars
  BY <1>1 DEF Inv, DataInv, ShapeInv, PassInv, NoFlap, CutFamiliesAreNew, Now, Start, vars, shares
<1> QED BY <1>1, PreProcessInv, UnsupportedInv, RefineInv, TagCoarseningInv, CoarsenInv,
           BalanceInv, PartitionInv, StageInv DEF Next

\* The invariant holds in every behaviour.
THEOREM Invariance == Spec => []Inv
BY InitInv, StepInv, PTL DEF Spec

\* Types: every leaf has the members its level calls for, every rank is one.
THEOREM Types == Spec => []TypeOK
<1>1. Inv => TypeOK
  <2> SUFFICES ASSUME Inv, NEW c \in DOMAIN forest
               PROVE  /\ forest[c].mass \in Nat \ {0}
                      /\ forest[c].total \in Nat /\ forest[c].internal \in Nat
                      /\ c.level < MaxLevel => DOMAIN forest[c].parts = 1..4
                      /\ forest[c].indicator \in {Unset, 0, 1, 2}
                      /\ forest[c].coarsening \in {Unset, Allowed, NotAllowed}
    BY DEF Inv, DataInv, TypeOK, Now
  <2>1. forest[c] \in LeafData(c) /\ c \in Cells /\ c.level \in MinLevel..MaxLevel
    BY LeafIsCell DEF Inv, DataInv, ShapeInv, Holds, Levelled, Now
  <2>2. Mass(c) \in Nat \ {0}
    BY <2>1, MassOfChildren
  <2>3. c.level < MaxLevel => DOMAIN forest[c].parts = 1..4
    <3>1. forest[c].parts \in LeafParts(c)
      BY <2>1 DEF LeafData
    <3> QED BY <3>1, Levels DEF LeafParts
  <2> HIDE DEF LeafParts
  <2> QED BY <2>1, <2>2, <2>3 DEF LeafData
<1> QED BY <1>1, Invariance, PTL

\* However often leaves are refined, put together and balanced, no leaf leaves
\* the configured levels, and the leaves cover the square once.
THEOREM LevelBounds == Spec => []LevelsBounded
<1>1. Inv => LevelsBounded
  BY DEF Inv, ShapeInv, Levelled, Now, LevelsBounded
<1> QED BY <1>1, Invariance, PTL

\* Gradients and stage see a forest balanced across corners.
THEOREM Balanced == Spec => []BalancedWhenUsed
<1>1. Inv => BalancedWhenUsed
  <2> SUFFICES ASSUME Inv, phase \in {"preprocess", "stage"},
                      NEW a \in Now, NEW b \in Now, Touch(a, b)
               PROVE  a.level - b.level <= 1
    BY DEF BalancedWhenUsed, CornerBalanced, Now
  <2>1. Gap(Now, 1)
    BY DEF Inv, PassInv
  <2>2. Touch(b, a)
    BY LeafIsCell, OverlapOfSquares DEF Inv, ShapeInv
  <2> QED BY <2>1, <2>2 DEF Gap
<1> QED BY <1>1, Invariance, PTL

\* A pass changes the level at a point by at most one.
THEOREM OneLevel == Spec => []OneLevelPerPass
<1>1. Inv => OneLevelPerPass
  <2> SUFFICES ASSUME Inv, phase = "stage", NEW c \in Start, NEW d \in Now, Overlap(c, d)
               PROVE  c.level - d.level \in -1..1
    BY DEF OneLevelPerPass, Start, Now
  <2>1. d.level - c.level \in -1..1
    BY DEF Inv, PassInv, Drift
  <2>2. c.level \in Nat /\ d.level \in Nat
    BY LeafIsCell DEF Inv, ShapeInv
  <2> QED BY <2>1, <2>2
<1> QED BY <1>1, Invariance, PTL

\* A leaf refined in a pass is not put together again in it, when the
\* coarsening threshold is not above the refining one.
THEOREM NoFlapping == Spec => []NoFlap
<1>1. Inv => NoFlap
  BY DEF Inv
<1> QED BY <1>1, Invariance, PTL

\* Coarsening leaves gaps of two levels at most for the balancing.
THEOREM Gaps == Spec => []GapsOfTwo
<1>1. Inv => GapsOfTwo
  <2> SUFFICES ASSUME Inv, phase = "balance", NEW c \in Now, NEW d \in Now, Touch(c, d)
               PROVE  c.level - d.level <= 2
    BY DEF GapsOfTwo, Now
  <2>1. Gap(Now, 2)
    BY DEF Inv, PassInv
  <2>2. Touch(d, c)
    BY LeafIsCell, OverlapOfSquares DEF Inv, ShapeInv
  <2> QED BY <2>1, <2>2 DEF Gap
<1> QED BY <1>1, Invariance, PTL

\* With a repartition that cuts no family, on any number of ranks: a family on
\* two ranks has a member that was put together since.
THEOREM CutFamilies == Spec => []CutFamiliesAreNew
<1>1. Inv => CutFamiliesAreNew
  BY DEF Inv
<1> QED BY <1>1, Invariance, PTL

\* Whatever was put together and taken apart again in a pass, the leaves that are
\* there after it and were there before the coarsening have their own mass and
\* internal energy, not the family's average: the part of RestoredByBalance in
\* which nothing is rounded.
Restored ==
  phase = "stage" =>
    \A c \in DOMAIN trail.refined \cap DOMAIN forest :
      /\ forest[c].mass = trail.refined[c].mass
      /\ forest[c].internal = trail.refined[c].internal

THEOREM ChildrenRestored == Spec => []Restored
<1>1. Inv => Restored
  BY DEF Inv, PassInv, Kept, Restored
<1> QED BY <1>1, Invariance, PTL

\* Leaves hold the gas of their squares: the mesh moves with it, and nothing that
\* refining, coarsening and balancing hand over changes it.
MassInPlace == \A c \in DOMAIN forest : forest[c].mass = Mass(c)

THEOREM MassStays == Spec => []MassInPlace
<1>1. Inv => MassInPlace
  <2> HIDE DEF LeafParts
  <2> QED BY DEF Inv, DataInv, Holds, LeafData, MassInPlace
<1> QED BY <1>1, Invariance, PTL

\* No mass is lost or gained, however many passes refine, put together and balance
\* whatever leaves, and the parts of a leaf are its own mass.
THEOREM MassIsConserved == Spec => []MassConserved
<1>1. Inv => MassConserved
  <2> SUFFICES ASSUME Inv PROVE MassConserved
    OBVIOUS
  <2>1. Tiling(Now) /\ Levelled(Now) /\ Holds(forest)
    BY DEF Inv, ShapeInv, DataInv
  <2>2. IsFiniteSet(Now) /\ Now \subseteq Cells
    BY <2>1, FiniteForest DEF Tiling
  <2>3. Sum(forest, MassOf) = WholeMass
    <3> DEFINE F == [c \in Now |-> forest[c].mass]
    <3>1. Sum(forest, MassOf) = SumOver(F, Now)
      BY SumFunctionIs DEF Sum, MassOf, Now
    <3>2. \A c \in Now : F[c] = GasOf[c]
      <4> HIDE DEF LeafParts
      <4> QED BY <2>1, <2>2 DEF Holds, LeafData, GasOf, Now
    <3> HIDE DEF F
    <3> QED BY <2>1, <2>2, <3>1, <3>2, SameTerms, MassOfForest
  <2>4. SumFunction([c \in LevelCells(MinLevel) |-> Mass(c)]) = WholeMass
    <3> DEFINE G == [c \in LevelCells(MinLevel) |-> Mass(c)]
    <3>1. SumFunction(G) = SumOver(G, LevelCells(MinLevel))
      BY SumFunctionIs
    <3>2. IsFiniteSet(LevelCells(MinLevel)) /\ LevelCells(MinLevel) \subseteq Cells
      BY Levels, LevelTiling, FiniteForest DEF Tiling
    <3>3. \A c \in LevelCells(MinLevel) : G[c] = GasOf[c]
      BY <3>2 DEF GasOf
    <3> HIDE DEF G
    <3>4. SumFunction(G) = WholeMass
      BY <3>1, <3>2, <3>3, SameTerms DEF WholeMass
    <3> QED BY <3>4 DEF G
  <2>5. ASSUME NEW c \in Now, c.level < MaxLevel
        PROVE  Sum(forest[c].parts, MassOf) = forest[c].mass
    <3> DEFINE q == forest[c].parts
               F == [k \in 1..4 |-> q[k].mass]
    <3>1. forest[c].mass = Mass(c) /\ q \in LeafParts(c)
      <4> HIDE DEF LeafParts
      <4> QED BY <2>1 DEF Holds, LeafData, Now
    <3>2. DOMAIN q = 1..4 /\ \A k \in 1..4 : q[k].mass = Mass(Child(c, k))
      BY <2>5, <3>1, Levels DEF LeafParts
    <3> HIDE DEF q
    <3>3. Sum(q, MassOf) = SumOver(F, 1..4)
      BY <3>2, SumFunctionIs DEF Sum, MassOf
    <3>4. c \in Cells /\ c.level \in MinLevel..MaxLevel
      BY <2>1, <2>2 DEF Levelled
    <3>5. /\ \A k \in 1..4 : F[k] \in Int
          /\ Mass(c) = F[1] + F[2] + F[3] + F[4]
      BY <2>5, <3>2, <3>4, MassOfChildren
    <3> HIDE DEF F
    <3>6. IsFiniteSet(1..4) /\ 1 \in 1..4 /\ 2 \in 1..4 /\ 3 \in 1..4 /\ 4 \in 1..4
      <4>1. 1 \in Int /\ 4 \in Int
        OBVIOUS
      <4>2. IsFiniteSet(1..4)
        BY <4>1, FS_Interval
      <4> QED BY <4>2
    <3>7. SumOver(F, 1..4) = F[1] + F[2] + F[3] + F[4] + SumOver(F, (1..4) \ {1, 2, 3, 4})
      BY <3>5, <3>6, SumWithoutFour
    <3>8. (1..4) \ {1, 2, 3, 4} = {}
      OBVIOUS
    <3>9. SumOver(F, 1..4) = Mass(c)
      <4> DEFINE e == SumOver(F, (1..4) \ {1, 2, 3, 4})
                 w == F[1]
                 x == F[2]
                 y == F[3]
                 z == F[4]
      <4>1. e = 0
        BY <3>8, SumOfNone
      <4>2. w \in Int /\ x \in Int /\ y \in Int /\ z \in Int
        BY <3>5, <3>6
      <4>3. SumOver(F, 1..4) = w + x + y + z + e /\ Mass(c) = w + x + y + z
        BY <3>5, <3>7
      <4> HIDE DEF e, w, x, y, z
      <4> QED BY <4>1, <4>2, <4>3
    <3> QED BY <3>1, <3>3, <3>9 DEF q
  <2> QED BY <2>3, <2>4, <2>5 DEF MassConserved, Now
<1> QED BY <1>1, Invariance, PTL

-----------------------------------------------------------------------------
(* Energies of a forest, where nothing is rounded. *)

\* A common factor.
LEMMA Cancel ==
  ASSUME NEW m \in Nat \ {0}, NEW a \in Int, NEW b \in Int, m * a = m * b
  PROVE  a = b
<1>1. ASSUME NEW u \in Int, NEW v \in Int, u < v PROVE m * u < m * v
  <2>1. v - u \in Nat \ {0} /\ v = u + (v - u)
    BY <1>1
  <2> DEFINE d == v - u
  <2> HIDE DEF d
  <2>2. d \in Nat \ {0} /\ v = u + d
    BY <2>1 DEF d
  <2>3. m * v = m * u + m * d
    BY <2>2
  <2>4. m * d \in Nat \ {0}
    BY <2>2
  <2>5. m * u \in Int
    OBVIOUS
  <2> DEFINE x == m * u
             y == m * d
             z == m * v
  <2> HIDE DEF x, y, z
  <2>6. x < z
    <3>1. z = x + y /\ y \in Nat \ {0} /\ x \in Int
      BY <2>3, <2>4, <2>5 DEF x, y, z
    <3> QED BY <3>1
  <2> QED BY <2>6 DEF x, z
<1>2. m * a \in Int /\ m * b \in Int
  OBVIOUS
<1>3. ~ (a < b)
  <2> SUFFICES ASSUME a < b PROVE FALSE
    OBVIOUS
  <2>1. m * a < m * b
    BY <1>1
  <2> QED BY <1>2, <2>1
<1>4. ~ (b < a)
  <2> SUFFICES ASSUME b < a PROVE FALSE
    OBVIOUS
  <2>1. m * b < m * a
    BY <1>1
  <2> QED BY <1>2, <2>1
<1> QED BY <1>3, <1>4

\* A quotient without a remainder.
LEMMA Quotient ==
  ASSUME NEW a \in Nat, NEW m \in Nat \ {0}, a % m = 0
  PROVE  a \div m \in Nat /\ m * (a \div m) = a
OBVIOUS

\* A whole share.
LEMMA Share ==
  ASSUME NEW t \in Nat, NEW m \in Nat \ {0}, NEW n \in Nat, (t * n) % m = 0
  PROVE  (t * n) \div m \in Nat /\ m * ((t * n) \div m) = t * n
<1>1. t * n \in Nat
  OBVIOUS
<1> QED BY <1>1, Quotient

\* A whole share of a whole share.
LEMMA ShareOfShare ==
  ASSUME NEW t \in Nat, NEW m \in Nat \ {0}, NEW k \in Nat \ {0}, NEW e \in Nat,
         (t * k) % m = 0, (t * e) % m = 0
  PROVE  (((t * k) \div m) * e) % k = 0
<1> DEFINE a == (t * k) \div m
           b == (t * e) \div m
<1>1. t * k \in Nat /\ t * e \in Nat
  OBVIOUS
<1>2. a \in Nat /\ m * a = t * k /\ b \in Nat /\ m * b = t * e
  BY <1>1, Quotient
<1> HIDE DEF a, b
<1>3. m * (a * e) = m * (k * b)
  <2>1. m * (a * e) = (m * a) * e
    BY <1>2
  <2>2. m * (k * b) = k * (m * b)
    BY <1>2
  <2>3. (t * k) * e = k * (t * e)
    OBVIOUS
  <2> QED BY <1>2, <2>1, <2>2, <2>3
<1>4. a * e = k * b
  <2>1. a * e \in Int /\ k * b \in Int
    BY <1>2
  <2> QED BY <1>3, <2>1, Cancel
<1>5. (k * b) % k = 0
  <2>1. 0 \in 0..(k - 1)
    OBVIOUS
  <2>2. (k * b + 0) % k = 0
    BY <1>2, <2>1, Division
  <2> QED BY <1>2, <2>2
<1> QED BY <1>4, <1>5 DEF a

\* A square is not inside its child, and lies with it inside what it is inside of.
LEMMA WithinChild ==
  ASSUME NEW c \in Cells, c.level < Depth, NEW k \in 1..4
  PROVE  Child(c, k) \in Within[c] /\ Within[Child(c, k)] \subseteq Within[c]
<1> DEFINE d == Child(c, k)
<1>1. d \in Cells /\ d.level = c.level + 1 /\ c.level \in Nat
  BY ChildPlace, CellParts
<1>2. Inside(d, c) /\ Overlap(c, d)
  BY <1>1, ChildrenFill, OverlapOfSquares
<1> HIDE DEF d
<1>3. ASSUME NEW e \in Within[d] PROVE e \in Within[c]
  <2>1. e \in Cells /\ Overlap(d, e) /\ e.level >= d.level /\ e.level \in Nat
    BY <1>1, CellParts DEF Within
  <2>2. Overlap(c, e)
    BY <1>1, <1>2, <2>1, WholeMeets
  <2> QED BY <1>1, <2>1, <2>2 DEF Within
<1>4. d \in Within[c]
  BY <1>1, <1>2 DEF Within
<1> QED BY <1>3, <1>4 DEF d

\* A sum over the four members of a family.
LEMMA SumOfFamily ==
  ASSUME NEW F, NEW p \in Cells, p.level < Depth, \A k \in 1..4 : F[Child(p, k)] \in Int
  PROVE  /\ IsFiniteSet(Children(p))
         /\ \A c \in Children(p) : F[c] \in Int
         /\ SumOver(F, Children(p)) = F[Child(p, 1)] + F[Child(p, 2)] + F[Child(p, 3)] + F[Child(p, 4)]
<1> DEFINE a == Child(p, 1)
           b == Child(p, 2)
           c == Child(p, 3)
           d == Child(p, 4)
           C == Children(p)
<1>1. 1..4 = {1, 2, 3, 4}
  OBVIOUS
<1>2. C = {a, b, c, d}
  BY <1>1 DEF Children
<1>3. a # b /\ a # c /\ a # d /\ b # c /\ b # d /\ c # d
  <2>1. ChildId(a) = 1 /\ ChildId(b) = 2 /\ ChildId(c) = 3 /\ ChildId(d) = 4
    BY ChildUnique
  <2> HIDE DEF a, b, c, d
  <2> QED BY <2>1
<1>4. F[a] \in Int /\ F[b] \in Int /\ F[c] \in Int /\ F[d] \in Int
  OBVIOUS
<1> HIDE DEF a, b, c, d, C
<1>5. IsFiniteSet({a, b, c, d})
  <2>1. IsFiniteSet({a}) /\ IsFiniteSet({b}) /\ IsFiniteSet({c}) /\ IsFiniteSet({d})
    BY FS_Singleton
  <2>2. IsFiniteSet({a} \cup {b}) /\ IsFiniteSet({c} \cup {d})
    BY <2>1, FS_Union
  <2>3. IsFiniteSet(({a} \cup {b}) \cup ({c} \cup {d}))
    BY <2>2, FS_Union
  <2>4. ({a} \cup {b}) \cup ({c} \cup {d}) = {a, b, c, d}
    OBVIOUS
  <2> QED BY <2>3, <2>4
<1>6. IsFiniteSet(C) /\ \A x \in C : F[x] \in Int
  BY <1>2, <1>4, <1>5
<1>7. SumOver(F, C) = F[a] + F[b] + F[c] + F[d] + SumOver(F, C \ {a, b, c, d})
  <2>1. a \in C /\ b \in C /\ c \in C /\ d \in C
    BY <1>2
  <2> QED BY <1>3, <1>6, <2>1, SumWithoutFour
<1>8. SumOver(F, C \ {a, b, c, d}) = 0
  <2>1. C \ {a, b, c, d} = {}
    BY <1>2
  <2> QED BY <2>1, SumOfNone
<1>9. SumOver(F, C) = F[a] + F[b] + F[c] + F[d]
  <2> DEFINE s == SumOver(F, C)
             e == SumOver(F, C \ {a, b, c, d})
             w == F[a]
             x == F[b]
             y == F[c]
             z == F[d]
  <2>1. s = w + x + y + z + e /\ e = 0 /\ w \in Int /\ x \in Int /\ y \in Int /\ z \in Int
    BY <1>4, <1>7, <1>8
  <2> HIDE DEF s, e, w, x, y, z
  <2>2. s = w + x + y + z
    BY <2>1
  <2> QED BY <2>2 DEF s, w, x, y, z
<1> QED BY <1>6, <1>9 DEF a, b, c, d, C

\* The members of the families below the quadrants of R.
Offspring(R) == UNION {Children(p) : p \in R}

\* The sum over the members of some families is the sum over their parents.
LEMMA SumOfFamilies ==
  ASSUME NEW F, NEW G, NEW R, IsFiniteSet(R), R \subseteq Cells, \A p \in R : p.level < Depth,
         \A p \in R : \A k \in 1..4 : F[Child(p, k)] \in Int,
         \A p \in R : G[p] = F[Child(p, 1)] + F[Child(p, 2)] + F[Child(p, 3)] + F[Child(p, 4)]
  PROVE  /\ IsFiniteSet(Offspring(R)) /\ \A c \in Offspring(R) : F[c] \in Int
         /\ SumOver(F, Offspring(R)) = SumOver(G, R) /\ \A p \in R : G[p] \in Int
<1> DEFINE U(s) == UNION {Children(p) : p \in s}
           Good(s) == IsFiniteSet(U(s)) /\ SumOver(F, U(s)) = SumOver(G, s)
           Q == {s \in SUBSET R : Good(s)}
<1>1. \A p \in R : /\ G[p] \in Int
                   /\ IsFiniteSet(Children(p)) /\ \A c \in Children(p) : F[c] \in Int
                   /\ SumOver(F, Children(p)) = G[p]
  <2> SUFFICES ASSUME NEW p \in R
               PROVE  /\ G[p] \in Int
                      /\ IsFiniteSet(Children(p)) /\ \A c \in Children(p) : F[c] \in Int
                      /\ SumOver(F, Children(p)) = G[p]
    OBVIOUS
  <2>1. p \in Cells /\ p.level < Depth /\ \A k \in 1..4 : F[Child(p, k)] \in Int
    OBVIOUS
  <2>2. 1 \in 1..4 /\ 2 \in 1..4 /\ 3 \in 1..4 /\ 4 \in 1..4
    OBVIOUS
  <2>3. G[p] \in Int
    <3>1. /\ F[Child(p, 1)] \in Int /\ F[Child(p, 2)] \in Int
          /\ F[Child(p, 3)] \in Int /\ F[Child(p, 4)] \in Int
      BY <2>1, <2>2
    <3>2. G[p] = F[Child(p, 1)] + F[Child(p, 2)] + F[Child(p, 3)] + F[Child(p, 4)]
      OBVIOUS
    <3> QED BY <3>1, <3>2
  <2> QED BY <2>1, <2>3, SumOfFamily
<1>2. \A s \in SUBSET R : \A c \in U(s) : F[c] \in Int
  BY <1>1
<1>3. {} \in Q
  <2>1. U({}) = {} /\ {} \in SUBSET R
    OBVIOUS
  <2>2. Good({})
    BY <2>1, SumOfNone, FS_EmptySet
  <2> HIDE DEF Good
  <2> QED BY <2>1, <2>2
<1>4. ASSUME NEW s \in SUBSET R, s # {}, \A x \in s : s \ {x} \in Q
      PROVE  s \in Q
  <2>1. PICK x : x \in s
    BY <1>4
  <2> DEFINE r == s \ {x}
             C == Children(x)
  <2>2. r \in SUBSET R /\ Good(r)
    BY <1>4, <2>1
  <2>3. U(s) = U(r) \cup C
    BY <2>1
  <2>4. U(r) \cap C = {}
    <3> SUFFICES ASSUME NEW c \in C, c \in U(r) PROVE FALSE
      OBVIOUS
    <3>1. PICK p \in r : c \in Children(p)
      OBVIOUS
    <3>2. p \in Cells /\ p.level < Depth /\ x \in Cells /\ x.level < Depth /\ p # x
      BY <2>1, <2>2
    <3>3. ParentOf(c) = x
      BY <3>2, ChildUnique DEF Children
    <3>4. ParentOf(c) = p
      BY <3>1, <3>2, ChildUnique DEF Children
    <3> QED BY <3>2, <3>3, <3>4
  <2>5. x \in R /\ IsFiniteSet(C) /\ SumOver(F, C) = G[x]
    BY <1>1, <2>1
  <2>6. IsFiniteSet(U(r)) /\ IsFiniteSet(U(s))
    <3>1. IsFiniteSet(U(r))
      BY <2>2
    <3> HIDE DEF U, C
    <3> QED BY <2>3, <2>5, <3>1, FS_Union
  <2>7. \A c \in U(r) \cup C : F[c] \in Int
    BY <1>2, <2>3
  <2>8. SumOver(F, U(s)) = SumOver(F, U(r)) + SumOver(F, C)
    <3>1. IsFiniteSet(U(r)) /\ IsFiniteSet(C)
      BY <2>5, <2>6
    <3> HIDE DEF U, C, r
    <3>2. SumOver(F, U(r) \cup C) = SumOver(F, U(r)) + SumOver(F, C)
      BY ONLY <2>4, <2>7, <3>1, SumOfTwo, SMTT(60)
    <3> QED BY ONLY <2>3, <3>2
  <2>9. SumOver(G, s) = G[x] + SumOver(G, r)
    <3>1. IsFiniteSet(s) /\ \A y \in s : G[y] \in Int
      BY <1>1, FS_Subset
    <3> QED BY <2>1, <3>1, SumStep
  <2>10. SumOver(G, r) \in Int /\ G[x] \in Int
    <3>1. IsFiniteSet(r) /\ \A y \in r : G[y] \in Int
      BY <1>1, <2>2, FS_Subset
    <3> HIDE DEF r
    <3> QED BY <1>1, <2>5, <3>1, SumStep
  <2>11. SumOver(F, U(s)) = SumOver(G, s)
    <3> DEFINE a == SumOver(F, U(s))
               b == SumOver(G, s)
               d == SumOver(G, r)
               g == G[x]
    <3>1. a = d + g /\ b = g + d /\ d \in Int /\ g \in Int
      BY <2>2, <2>5, <2>8, <2>9, <2>10
    <3> HIDE DEF a, b, d, g
    <3>2. a = b
      BY <3>1
    <3> QED BY <3>2 DEF a, b
  <2> QED BY <2>6, <2>11
<1>5. SUBSET R \subseteq Q
  <2> HIDE DEF Q
  <2> QED BY <1>3, <1>4, SubsetInduction
<1>6. R \in Q
  <2>1. R \in SUBSET R
    OBVIOUS
  <2> HIDE DEF Q
  <2> QED BY <1>5, <2>1
<1> QED BY <1>1, <1>2, <1>6 DEF Offspring

\* The total energy of a forest.
EnergyIn(f) == SumOver([c \in DOMAIN f |-> f[c].total], DOMAIN f)

\* The two halves of NothingRounded, for any forest.
WholeTotals(f) ==
  \A c \in DOMAIN f : \A e \in Within[c] : (f[c].total * Mass(e)) % Mass(c) = 0
WholeInternals(f) ==
  \A c \in DOMAIN f : \A e \in Within[c] : (f[c].internal * Mass(e)) % Mass(c) = 0

\* The parts of every leaf are those of its own energy.
FreshParts(f) == \A c \in DOMAIN f : f[c].parts = Parts(c, f[c])

\* Making parts changes nothing else, and depends on mass and internal energy only.
LEMMA WithPartsKeeps ==
  ASSUME NEW c, NEW d, DOMAIN d = {"mass", "total", "internal", "parts", "indicator", "coarsening"}
  PROVE  LET e == WithParts(c, d)
         IN  /\ e.mass = d.mass /\ e.total = d.total /\ e.internal = d.internal
             /\ e.parts = Parts(c, d) /\ e.parts = Parts(c, e)
<1> DEFINE e == WithParts(c, d)
<1>1. e.mass = d.mass /\ e.total = d.total /\ e.internal = d.internal /\ e.parts = Parts(c, d)
  <2> DEFINE q == Parts(c, d)
  <2>1. e = [d EXCEPT !.parts = q]
    BY DEF WithParts
  <2> HIDE DEF q, e
  <2>2. e.mass = d.mass /\ e.total = d.total /\ e.internal = d.internal /\ e.parts = q
    BY <2>1
  <2> QED BY <2>2 DEF q
<1> HIDE DEF e
<1>2. Parts(c, e) = Parts(c, d)
  BY <1>1 DEF Parts
<1> QED BY <1>1, <1>2 DEF e

\* What a child gets from the leaf that is refined.
LEMMA RefinedData ==
  ASSUME NEW f, NEW p \in Cells, p.level \in MinLevel..MaxLevel, p.level < MaxLevel,
         f[p] \in LeafData(p), NEW k \in 1..4
  PROVE  LET c == Child(p, k)
             d == RefinedChild(f, c)
         IN  /\ d.mass = Mass(c)
             /\ d.total = (f[p].total * Mass(c)) \div Mass(p)
             /\ d.internal = f[p].parts[k].internal
             /\ d.parts = Parts(c, d)
<1> DEFINE c == Child(p, k)
           d == [f[p] EXCEPT !.mass = f[p].parts[k].mass, !.internal = f[p].parts[k].internal,
                             !.total = (f[p].total * f[p].parts[k].mass) \div f[p].mass]
<1>1. ParentOf(c) = p /\ ChildId(c) = k
  BY ChildUnique, Levels
<1>2. RefinedChild(f, c) = WithParts(c, d)
  BY <1>1 DEF RefinedChild
<1>3. f[p].mass = Mass(p) /\ f[p].parts[k].mass = Mass(c)
  <2>1. f[p].mass = Mass(p) /\ f[p].parts \in LeafParts(p)
    <3> HIDE DEF LeafParts
    <3> QED BY DEF LeafData
  <2>2. p.level # MaxLevel
    BY Levels
  <2>3. \A j \in 1..4 : f[p].parts[j].mass = Mass(Child(p, j))
    BY <2>1, <2>2 DEF LeafParts
  <2> QED BY <2>1, <2>3
<1>4. /\ DOMAIN d = {"mass", "total", "internal", "parts", "indicator", "coarsening"}
      /\ d.mass = f[p].parts[k].mass /\ d.internal = f[p].parts[k].internal
      /\ d.total = (f[p].total * f[p].parts[k].mass) \div f[p].mass
  <2> HIDE DEF LeafParts
  <2> QED BY DEF LeafData
<1> HIDE DEF c, d
<1>5. /\ WithParts(c, d).mass = d.mass /\ WithParts(c, d).total = d.total
      /\ WithParts(c, d).internal = d.internal
      /\ WithParts(c, d).parts = Parts(c, WithParts(c, d))
  BY <1>4, WithPartsKeeps
<1> QED BY <1>2, <1>3, <1>4, <1>5 DEF c

\* The four shares of an amount that is whole inside a square.
LEMMA SharesOfLeaf ==
  ASSUME NEW p \in Cells, p.level \in MinLevel..MaxLevel, p.level < MaxLevel,
         NEW t \in Nat, \A e \in Within[p] : (t * Mass(e)) % Mass(p) = 0
  PROVE  t = (t * Mass(Child(p, 1))) \div Mass(p) + (t * Mass(Child(p, 2))) \div Mass(p)
               + (t * Mass(Child(p, 3))) \div Mass(p) + (t * Mass(Child(p, 4))) \div Mass(p)
<1> DEFINE m == Mass(p)
           q(k) == Mass(Child(p, k))
<1>1. /\ m \in Nat \ {0} /\ m = q(1) + q(2) + q(3) + q(4)
      /\ \A k \in 1..4 : q(k) \in Nat
  BY MassOfChildren
<1>2. \A k \in 1..4 : (t * q(k)) % m = 0
  BY WithinChild, Levels
<1>3. 1 \in 1..4 /\ 2 \in 1..4 /\ 3 \in 1..4 /\ 4 \in 1..4
  OBVIOUS
<1> DEFINE u == q(1)
           v == q(2)
           w == q(3)
           z == q(4)
<1>4. /\ u \in Nat /\ v \in Nat /\ w \in Nat /\ z \in Nat /\ m = u + v + w + z
      /\ (t * u) % m = 0 /\ (t * v) % m = 0 /\ (t * w) % m = 0 /\ (t * z) % m = 0
  BY <1>1, <1>2, <1>3
<1> HIDE DEF m, q, u, v, w, z
<1> DEFINE a == (t * u) \div m
           b == (t * v) \div m
           c == (t * w) \div m
           d == (t * z) \div m
<1>5. /\ a \in Nat /\ m * a = t * u
      /\ b \in Nat /\ m * b = t * v
      /\ c \in Nat /\ m * c = t * w
      /\ d \in Nat /\ m * d = t * z
  BY <1>1, <1>4, Share
<1> HIDE DEF a, b, c, d
<1>6. t * m = t * u + t * v + t * w + t * z
  <2>1. u \in Nat /\ v \in Nat /\ w \in Nat /\ z \in Nat /\ m = u + v + w + z
    BY <1>4
  <2> QED BY <2>1
<1>7. m * (a + b + c + d) = m * t
  <2>1. m * (a + b + c + d) = m * a + m * b + m * c + m * d
    BY <1>1, <1>5
  <2>2. m * t = t * m
    BY <1>1
  <2> QED BY <1>5, <1>6, <2>1, <2>2
<1>8. t = a + b + c + d
  <2> DEFINE y == a + b + c + d
  <2>1. y \in Int /\ t \in Int /\ m \in Nat \ {0} /\ m * y = m * t
    BY <1>1, <1>5, <1>7
  <2> HIDE DEF y
  <2>2. y = t
    BY <2>1, Cancel
  <2> QED BY <2>2 DEF y
<1> QED BY <1>8 DEF a, b, c, d, u, v, w, z, m, q

\* Where nothing is rounded, refining keeps the total energy and rounds nothing.
LEMMA RefinedEnergy ==
  ASSUME NEW f, Tiling(DOMAIN f), Levelled(DOMAIN f), Holds(f), WholeTotals(f),
         NEW R, R \subseteq DOMAIN f, \A p \in R : p.level < MaxLevel
  PROVE  EnergyIn(RefineLeaves(f, R)) = EnergyIn(f) /\ WholeTotals(RefineLeaves(f, R))
<1> DEFINE L == DOMAIN f
           g == RefineLeaves(f, R)
           U == UNION {Children(p) : p \in R}
           F == [c \in L |-> f[c].total]
           G == [c \in DOMAIN g |-> g[c].total]
           K == L \ R
<1>1. DOMAIN g = K \cup U /\ Holds(g) /\ Tiling(DOMAIN g) /\ \A c \in K : g[c] = f[c]
  <2>1. DOMAIN g = Split(L, R) /\ Holds(g) /\ Tiling(DOMAIN g) /\ \A c \in K : g[c] = f[c]
    BY RefinedForest
  <2> HIDE DEF g
  <2> QED BY <2>1 DEF Split
<1>2. \A c \in DOMAIN g : c \notin L => g[c] = RefinedChild(f, c)
  BY DEF RefineLeaves
<1> HIDE DEF g
<1>3. \A p \in R : /\ p \in Cells /\ p \in L /\ p.level \in MinLevel..MaxLevel
                   /\ p.level < MaxLevel /\ f[p] \in LeafData(p) /\ f[p].total \in Nat
  <2> SUFFICES ASSUME NEW p \in R
               PROVE  /\ p \in Cells /\ p \in L /\ p.level \in MinLevel..MaxLevel
                      /\ p.level < MaxLevel /\ f[p] \in LeafData(p) /\ f[p].total \in Nat
    OBVIOUS
  <2>1. p \in L /\ p.level < MaxLevel
    OBVIOUS
  <2>2. p \in Cells /\ p.level \in MinLevel..MaxLevel /\ f[p] \in LeafData(p)
    BY <2>1, LeafIsCell DEF Levelled, Holds
  <2>3. f[p].total \in Nat
    <3> HIDE DEF LeafParts
    <3> QED BY <2>2 DEF LeafData
  <2> QED BY <2>1, <2>2, <2>3
<1>4. ASSUME NEW p \in R, NEW k \in 1..4
      PROVE  LET c == Child(p, k)
             IN  /\ c \in DOMAIN g /\ c \notin L /\ c \in Within[p] /\ Within[c] \subseteq Within[p]
                 /\ g[c].total = (f[p].total * Mass(c)) \div Mass(p)
                 /\ Mass(c) \in Nat \ {0} /\ (f[p].total * Mass(c)) % Mass(p) = 0
  <2> DEFINE c == Child(p, k)
  <2>1. c \in U
    BY DEF Children
  <2>2. c \notin L
    BY <1>3, NotWithChild
  <2>3. c \in Within[p] /\ Within[c] \subseteq Within[p]
    BY <1>3, WithinChild, Levels
  <2>4. RefinedChild(f, c).total = (f[p].total * Mass(c)) \div Mass(p)
    BY <1>3, RefinedData
  <2>5. Mass(c) \in Nat \ {0}
    BY <1>3, MassOfChildren
  <2> HIDE DEF c, U
  <2>6. c \in DOMAIN g /\ g[c] = RefinedChild(f, c)
    BY <1>1, <1>2, <2>1, <2>2
  <2>7. (f[p].total * Mass(c)) % Mass(p) = 0
    BY <1>3, <2>3 DEF WholeTotals
  <2> QED BY <2>2, <2>3, <2>4, <2>5, <2>6, <2>7 DEF c
<1>5. \A p \in R : F[p] = G[Child(p, 1)] + G[Child(p, 2)] + G[Child(p, 3)] + G[Child(p, 4)]
  <2> SUFFICES ASSUME NEW p \in R
               PROVE  F[p] = G[Child(p, 1)] + G[Child(p, 2)] + G[Child(p, 3)] + G[Child(p, 4)]
    OBVIOUS
  <2> DEFINE share(k) == (f[p].total * Mass(Child(p, k))) \div Mass(p)
  <2>1. \A k \in 1..4 : G[Child(p, k)] = share(k)
    BY <1>4
  <2>2. 1 \in 1..4 /\ 2 \in 1..4 /\ 3 \in 1..4 /\ 4 \in 1..4
    OBVIOUS
  <2>3. F[p] = f[p].total
    BY <1>3
  <2>4. f[p].total = share(1) + share(2) + share(3) + share(4)
    BY <1>3, SharesOfLeaf DEF WholeTotals
  <2> HIDE DEF F, G, share
  <2> QED BY <2>1, <2>2, <2>3, <2>4
<1>6. IsFiniteSet(L) /\ IsFiniteSet(K) /\ IsFiniteSet(R)
  BY FiniteForest, FS_Subset
<1>7. \A c \in L : F[c] \in Int /\ f[c].total \in Nat
  <2> HIDE DEF LeafParts
  <2> QED BY DEF Holds, LeafData
<1>8. \A c \in DOMAIN g : G[c] \in Int /\ g[c].total \in Nat
  <2> HIDE DEF LeafParts
  <2> QED BY <1>1 DEF Holds, LeafData
<1>9. SumOver(F, L) = SumOver(F, K) + SumOver(F, R)
  <2>1. L = K \cup R /\ K \cap R = {} /\ \A c \in K \cup R : F[c] \in Int
    BY <1>7
  <2> HIDE DEF K, L, F
  <2> QED BY <1>6, <2>1, SumOfTwo
<1>10. IsFiniteSet(U) /\ SumOver(G, U) = SumOver(F, R)
  <2>1. R \subseteq Cells /\ \A p \in R : p.level < Depth
    BY <1>3, Levels
  <2>2. \A p \in R : \A k \in 1..4 : G[Child(p, k)] \in Int
    BY <1>4, <1>8
  <2> HIDE DEF F, G
  <2>3. IsFiniteSet(Offspring(R)) /\ SumOver(G, Offspring(R)) = SumOver(F, R)
    BY <1>5, <1>6, <2>1, <2>2, SumOfFamilies
  <2> QED BY <2>3 DEF Offspring
<1>11. K \cap U = {}
  <2> SUFFICES ASSUME NEW p \in R, NEW c \in Children(p), c \in K PROVE FALSE
    OBVIOUS
  <2> QED BY <1>4 DEF Children
<1>12. SumOver(G, DOMAIN g) = SumOver(G, K) + SumOver(G, U)
  <2>1. \A c \in K \cup U : G[c] \in Int
    BY <1>1, <1>8
  <2> HIDE DEF K, U, G
  <2> QED BY <1>1, <1>6, <1>10, <1>11, <2>1, SumOfTwo
<1>13. SumOver(G, K) = SumOver(F, K)
  <2>1. \A c \in K : G[c] = F[c]
    BY <1>1
  <2> HIDE DEF K, G, F
  <2> QED BY <1>6, <2>1, SameTerms
<1>14. EnergyIn(g) = EnergyIn(f)
  <2>1. EnergyIn(g) = SumOver(G, DOMAIN g) /\ EnergyIn(f) = SumOver(F, L)
    BY DEF EnergyIn
  <2> HIDE DEF K, U, G, F
  <2> QED BY <1>9, <1>10, <1>12, <1>13, <2>1
<1>15. WholeTotals(g)
  <2> SUFFICES ASSUME NEW c \in DOMAIN g, NEW e \in Within[c]
               PROVE  (g[c].total * Mass(e)) % Mass(c) = 0
    BY DEF WholeTotals
  <2>1. CASE c \in K
    BY <1>1, <2>1 DEF WholeTotals
  <2>2. CASE c \in U
    <3>1. PICK p \in R, k \in 1..4 : c = Child(p, k)
      BY <2>2 DEF Children
    <3>2. /\ c \in Within[p] /\ e \in Within[p] /\ Mass(c) \in Nat \ {0}
          /\ g[c].total = (f[p].total * Mass(c)) \div Mass(p)
          /\ (f[p].total * Mass(c)) % Mass(p) = 0
      BY <1>4, <3>1
    <3>3. (f[p].total * Mass(e)) % Mass(p) = 0
      BY <1>3, <3>2 DEF WholeTotals
    <3>4. Mass(p) \in Nat \ {0} /\ f[p].total \in Nat
      BY <1>3, MassOfChildren
    <3>5. Mass(e) \in Nat
      <4>1. p.level \in Nat /\ e \in Cells /\ e.level >= p.level /\ e.level \in 0..Depth
        BY <1>3, <3>2, CellParts DEF Within
      <4>2. e.level \in MinLevel..MaxLevel
        BY <1>3, <4>1, Levels
      <4> QED BY <4>1, <4>2, MassOfChildren
    <3>6. (((f[p].total * Mass(c)) \div Mass(p)) * Mass(e)) % Mass(c) = 0
      <4> DEFINE t == f[p].total
                 m == Mass(p)
                 k0 == Mass(c)
                 z == Mass(e)
      <4>1. t \in Nat /\ m \in Nat \ {0} /\ k0 \in Nat \ {0} /\ z \in Nat
            /\ (t * k0) % m = 0 /\ (t * z) % m = 0
        BY <3>2, <3>3, <3>4, <3>5
      <4> HIDE DEF t, m, k0, z
      <4>2. (((t * k0) \div m) * z) % k0 = 0
        BY <4>1, ShareOfShare
      <4> QED BY <4>2 DEF t, m, k0, z
    <3> QED BY <3>2, <3>6
  <2> QED BY <1>1, <2>1, <2>2
<1> QED BY <1>14, <1>15 DEF g

\* Putting families together keeps the total energy.
LEMMA CoarsenedEnergy ==
  ASSUME NEW f, Tiling(DOMAIN f), Levelled(DOMAIN f), Holds(f),
         NEW P, P \subseteq Families(DOMAIN f), \A p \in P : \A c \in Children(p) : c.level > MinLevel
  PROVE  EnergyIn(CoarsenFamilies(f, P)) = EnergyIn(f)
<1> DEFINE L == DOMAIN f
           g == CoarsenFamilies(f, P)
           U == UNION {Children(p) : p \in P}
           F == [c \in L |-> f[c].total]
           G == [c \in DOMAIN g |-> g[c].total]
           K == L \ U
<1>1. /\ DOMAIN g = K \cup P
      /\ \A c \in P : g[c] = CoarsenedParent(f, c)
      /\ \A c \in K : c \notin P => g[c] = f[c]
  BY DEF CoarsenFamilies
<1>2. Tiling(DOMAIN g) /\ Holds(g)
  BY CoarsenedForest
<1> HIDE DEF g
<1>3. \A p \in P : p \in Cells /\ p.level < Depth /\ Children(p) \subseteq L
  BY FamilyParent
<1>4. \A p \in P : p \notin L
  <2> SUFFICES ASSUME NEW p \in P, p \in L PROVE FALSE
    OBVIOUS
  <2>1. Child(p, 1) \in L
    BY <1>3 DEF Children
  <2> QED BY <2>1, NotWithChild
<1>5. U \subseteq L /\ IsFiniteSet(L) /\ IsFiniteSet(K) /\ IsFiniteSet(U) /\ IsFiniteSet(P)
  <2>1. U \subseteq L
    BY <1>3
  <2>2. IsFiniteSet(L) /\ IsFiniteSet(DOMAIN g)
    BY <1>2, FiniteForest
  <2> HIDE DEF U
  <2> QED BY <1>1, <2>1, <2>2, FS_Subset
<1>6. \A c \in L : F[c] \in Int
  <2> HIDE DEF LeafParts
  <2> QED BY DEF Holds, LeafData
<1>7. \A c \in DOMAIN g : G[c] \in Int
  <2> HIDE DEF LeafParts
  <2> QED BY <1>2 DEF Holds, LeafData
<1>8. \A p \in P : /\ G[p] = F[Child(p, 1)] + F[Child(p, 2)] + F[Child(p, 3)] + F[Child(p, 4)]
                   /\ \A k \in 1..4 : F[Child(p, k)] \in Int
  <2> SUFFICES ASSUME NEW p \in P
               PROVE  /\ G[p] = F[Child(p, 1)] + F[Child(p, 2)] + F[Child(p, 3)] + F[Child(p, 4)]
                      /\ \A k \in 1..4 : F[Child(p, k)] \in Int
    OBVIOUS
  <2>1. \A k \in 1..4 : Child(p, k) \in L
    BY <1>3 DEF Children
  <2>2. G[p] = CoarsenedParent(f, p).total
    BY <1>1
  <2>3. CoarsenedParent(f, p).total = f[Child(p, 1)].total + f[Child(p, 2)].total
                                        + f[Child(p, 3)].total + f[Child(p, 4)].total
    BY DEF CoarsenedParent, OverChildren
  <2>4. 1 \in 1..4 /\ 2 \in 1..4 /\ 3 \in 1..4 /\ 4 \in 1..4
    OBVIOUS
  <2>5. \A k \in 1..4 : F[Child(p, k)] = f[Child(p, k)].total /\ F[Child(p, k)] \in Int
    BY <1>6, <2>1
  <2> HIDE DEF F, G
  <2> QED BY <2>2, <2>3, <2>4, <2>5
<1>9. SumOver(F, U) = SumOver(G, P)
  <2>1. P \subseteq Cells /\ \A p \in P : p.level < Depth
    BY <1>3
  <2> HIDE DEF F, G
  <2>2. SumOver(F, Offspring(P)) = SumOver(G, P)
    BY <1>5, <1>8, <2>1, SumOfFamilies
  <2> QED BY <2>2 DEF Offspring
<1>10. SumOver(F, L) = SumOver(F, K) + SumOver(F, U)
  <2>1. L = K \cup U /\ K \cap U = {} /\ \A c \in K \cup U : F[c] \in Int
    BY <1>5, <1>6
  <2> HIDE DEF K, U, L, F
  <2> QED BY <1>5, <2>1, SumOfTwo
<1>11. SumOver(G, DOMAIN g) = SumOver(G, K) + SumOver(G, P)
  <2>1. K \cap P = {} /\ \A c \in K \cup P : G[c] \in Int
    BY <1>1, <1>4, <1>7
  <2> HIDE DEF K, G
  <2> QED BY <1>1, <1>5, <2>1, SumOfTwo
<1>12. SumOver(G, K) = SumOver(F, K)
  <2>1. \A c \in K : G[c] = F[c]
    BY <1>1, <1>4
  <2> HIDE DEF K, G, F
  <2> QED BY <1>5, <2>1, SameTerms
<1>13. EnergyIn(g) = SumOver(G, DOMAIN g) /\ EnergyIn(f) = SumOver(F, L)
  BY DEF EnergyIn
<1> HIDE DEF K, U, G, F
<1> QED BY <1>9, <1>10, <1>11, <1>12, <1>13 DEF g

-----------------------------------------------------------------------------
(* What refining in the same pass made of the leaves. *)

\* r is the forest after the refinement of the pass.  The parts of a leaf of r
\* that is a leaf of f are those of its own energy, and a leaf of f that is a child
\* of one has its part.
Divided(r, f) ==
  /\ \A c \in DOMAIN r \cap DOMAIN f : f[c].parts = Parts(c, r[c])
  /\ \A c \in DOMAIN r, k \in 1..4 :
       Child(c, k) \in DOMAIN f => f[Child(c, k)].internal = Parts(c, r[c])[k].internal

\* After refining, no leaf has been divided.
LEMMA DividedAtFirst ==
  ASSUME NEW r, NEW f, DOMAIN r = DOMAIN f, Tiling(DOMAIN f), FreshParts(f),
         \A c \in DOMAIN f : f[c].mass = r[c].mass /\ f[c].internal = r[c].internal
  PROVE  Divided(r, f)
<1>1. \A c \in DOMAIN f : f[c].parts = Parts(c, r[c])
  <2> SUFFICES ASSUME NEW c \in DOMAIN f PROVE f[c].parts = Parts(c, r[c])
    OBVIOUS
  <2>1. f[c].parts = Parts(c, f[c])
    BY DEF FreshParts
  <2>2. Parts(c, f[c]) = Parts(c, r[c])
    BY DEF Parts
  <2> QED BY <2>1, <2>2
<1>2. \A c \in DOMAIN r, k \in 1..4 : Child(c, k) \notin DOMAIN f
  BY NotWithChild
<1> QED BY <1>1, <1>2 DEF Divided

\* Putting families together divides no leaf.
LEMMA CoarseningDivides ==
  ASSUME NEW r, NEW f, DOMAIN r = DOMAIN f, Tiling(DOMAIN f), Divided(r, f),
         NEW P, P \subseteq Families(DOMAIN f)
  PROVE  Divided(r, CoarsenFamilies(f, P))
<1> DEFINE g == CoarsenFamilies(f, P)
           L == DOMAIN f
<1>1. \A c \in DOMAIN g : /\ c \in P \/ c \in L
                          /\ c \notin P => c \in L /\ g[c] = f[c]
  BY DEF CoarsenFamilies
<1> HIDE DEF g
<1>2. \A p \in P : p \in Cells /\ p.level < Depth /\ p.level \in Nat /\ Children(p) \subseteq L
  BY FamilyParent, CellParts
<1>3. \A p \in P, k \in 1..4 : Child(p, k) \in L
  BY <1>2 DEF Children
<1>4. ASSUME NEW c \in L, c \in DOMAIN g PROVE g[c].parts = Parts(c, r[c])
  <2>1. c \notin P
    <3> SUFFICES ASSUME c \in P PROVE FALSE
      OBVIOUS
    <3>1. Child(c, 1) \in L
      BY <1>3
    <3> QED BY <3>1, NotWithChild
  <2> QED BY <1>1, <1>4, <2>1 DEF Divided
<1>5. ASSUME NEW c \in L, NEW k \in 1..4, Child(c, k) \in DOMAIN g PROVE FALSE
  <2>1. Child(c, k) \notin L
    BY NotWithChild
  <2>2. Child(c, k) \in P
    BY <1>1, <1>5, <2>1
  <2> DEFINE d == Child(c, k)
             e == Child(d, 1)
  <2>3. e \in L /\ e \in Cells /\ c \in Cells /\ d \in Cells /\ d.level < Depth /\ d.level \in Nat
    BY <1>2, <1>3, <2>2, LeafIsCell
  <2>4. d.level = c.level + 1 /\ c.level \in Nat
    <3>1. c.level \in Nat
      BY LeafIsCell
    <3> QED BY <3>1 DEF Child, Cell
  <2>5. Inside(d, c)
    BY <2>3, <2>4, ChildrenFill, DepthAssumption
  <2>6. Inside(e, d)
    <3> HIDE DEF d
    <3> QED BY <2>3, ChildrenFill
  <2>7. e.level = d.level + 1
    BY DEF Child, Cell
  <2> HIDE DEF d, e
  <2>8. Overlap(e, c)
    BY <2>3, <2>5, <2>6, WholeMeets, OverlapOfSquares
  <2>9. e # c
    BY <2>4, <2>7
  <2> QED BY <2>3, <2>8, <2>9 DEF Tiling
<1>6. Divided(r, g)
  BY <1>4, <1>5 DEF Divided
<1> QED BY <1>6 DEF g

\* Refining divides leaves as their own energy says, also those that were put
\* together before.
LEMMA RefiningDivides ==
  ASSUME NEW r, Tiling(DOMAIN r), NEW f, Tiling(DOMAIN f), Levelled(DOMAIN f), Holds(f),
         Kept(r, f), Divided(r, f),
         NEW R, R \subseteq DOMAIN f, \A p \in R : p.level < MaxLevel
  PROVE  Divided(r, RefineLeaves(f, R))
<1> DEFINE g == RefineLeaves(f, R)
           L == DOMAIN f
<1>1. DOMAIN g = Split(L, R)
  BY DEF RefineLeaves, Split
<1>2. \A c \in DOMAIN g : g[c] = IF c \in L THEN f[c] ELSE RefinedChild(f, c)
  BY DEF RefineLeaves
<1>3. Kept(r, g)
  BY RefiningKeeps
<1> HIDE DEF g
<1>4. \A p \in R : /\ p \in Cells /\ p \in L /\ p.level \in MinLevel..MaxLevel
                   /\ p.level < MaxLevel /\ f[p] \in LeafData(p)
  BY LeafIsCell DEF Levelled, Holds
<1>5. \A c \in DOMAIN g : c \notin L => \E p \in R, k \in 1..4 : c = Child(p, k)
  <2> SUFFICES ASSUME NEW c \in Split(L, R), c \notin L PROVE \E p \in R, k \in 1..4 : c = Child(p, k)
    BY <1>1
  <2> QED BY SplitLeaf, Levels
<1>6. ASSUME NEW p \in R, NEW k \in 1..4, Child(p, k) \in DOMAIN g
      PROVE  LET c == Child(p, k)
             IN  /\ g[c].internal = f[p].parts[k].internal
                 /\ g[c].parts = Parts(c, g[c])
  <2>1. Child(p, k) \notin L
    BY <1>4, NotWithChild
  <2>2. g[Child(p, k)] = RefinedChild(f, Child(p, k))
    BY <1>2, <1>6, <2>1
  <2> QED BY <1>4, <2>2, RefinedData
<1>7. ASSUME NEW c \in DOMAIN r, c \in DOMAIN g PROVE g[c].parts = Parts(c, r[c])
  <2>1. CASE c \in L
    BY <1>2, <1>7, <2>1 DEF Divided
  <2>2. CASE c \notin L
    <3>1. g[c].parts = Parts(c, g[c])
      BY <1>5, <1>6, <1>7, <2>2
    <3>2. g[c].mass = r[c].mass /\ g[c].internal = r[c].internal
      BY <1>3, <1>7 DEF Kept
    <3>3. Parts(c, g[c]) = Parts(c, r[c])
      BY <3>2 DEF Parts
    <3> QED BY <3>1, <3>3
  <2> QED BY <2>1, <2>2
<1>8. ASSUME NEW c \in DOMAIN r, NEW k \in 1..4, Child(c, k) \in DOMAIN g
      PROVE  g[Child(c, k)].internal = Parts(c, r[c])[k].internal
  <2>1. CASE Child(c, k) \in L
    BY <1>2, <1>8, <2>1 DEF Divided
  <2>2. CASE Child(c, k) \notin L
    <3>1. PICK p \in R, j \in 1..4 : Child(c, k) = Child(p, j)
      BY <1>5, <1>8, <2>2
    <3>2. p = c /\ j = k
      <4>1. ParentOf(Child(c, k)) = p /\ ChildId(Child(c, k)) = j
        BY <1>4, <3>1, ChildUnique, Levels
      <4>2. c \in Cells /\ c.level \in Nat
        BY LeafIsCell
      <4>3. Child(c, k).level = c.level + 1 /\ Child(p, j).level = p.level + 1
        BY DEF Child, Cell
      <4>4. c.level < Depth
        BY <1>4, <3>1, <4>2, <4>3, Levels
      <4> QED BY <4>1, <4>2, <4>4, ChildUnique
    <3>3. g[Child(c, k)].internal = f[c].parts[k].internal
      BY <1>6, <1>8, <3>1, <3>2
    <3>4. f[c].parts = Parts(c, r[c])
      BY <1>4, <3>2 DEF Divided
    <3> QED BY <3>3, <3>4
  <2> QED BY <2>1, <2>2
<1>9. Divided(r, g)
  BY <1>7, <1>8 DEF Divided
<1> QED BY <1>9 DEF g

\* Balancing divides leaves likewise, and keeps the total energy where nothing
\* is rounded.
LEMMA BalancedEnergy ==
  ASSUME NEW S, Tiling(S), Gap(S, 1),
         NEW f, Tiling(DOMAIN f), Levelled(DOMAIN f), Holds(f),
         Gap(DOMAIN f, 2), Drift(S, DOMAIN f, -1, 1),
         NEW before, Tiling(DOMAIN before), Kept(before, f)
  PROVE  LET g == BalancedForest(f)
         IN  /\ WholeTotals(f) => EnergyIn(g) = EnergyIn(f)
             /\ Divided(before, f) => Divided(before, g)
<1>1. PICK r : /\ r[0] = f /\ BalancedForest(f) = r[2 * MaxLevel]
               /\ \A i \in Nat : i + 1 <= 2 * MaxLevel =>
                    r[i + 1] = RefineLeaves(r[i], TooCoarse(DOMAIN r[i]))
               /\ \A i \in 0..2 * MaxLevel :
                    Round(S, DOMAIN r[i], i) /\ Holds(r[i]) /\ Kept(before, r[i])
  BY BalanceRounds
<1> DEFINE Good(i) ==
             /\ WholeTotals(f) => EnergyIn(r[i]) = EnergyIn(f) /\ WholeTotals(r[i])
             /\ Divided(before, f) => Divided(before, r[i])
           T == {i \in Nat : i <= 2 * MaxLevel => Good(i)}
<1>2. 0 \in T
  BY <1>1
<1>3. ASSUME NEW i \in Nat, i \in T PROVE i + 1 \in T
  <2> SUFFICES ASSUME i + 1 <= 2 * MaxLevel PROVE Good(i + 1)
    OBVIOUS
  <2> DEFINE g == r[i]
             R == TooCoarse(DOMAIN g)
  <2>1. i \in 0..2 * MaxLevel /\ Good(i)
    BY <1>3, Levels
  <2>2. r[i + 1] = RefineLeaves(g, R)
    BY <1>1
  <2>3. /\ Tiling(DOMAIN g) /\ Levelled(DOMAIN g) /\ Gap(DOMAIN g, 2)
        /\ Holds(g) /\ Kept(before, g)
    BY <1>1, <2>1 DEF Round
  <2> HIDE DEF R, g
  <2>4. R \subseteq DOMAIN g /\ \A p \in R : p.level < MaxLevel
    BY <2>3, TooCoarseLeaf, Levels DEF R
  <2>5. WholeTotals(g) => EnergyIn(RefineLeaves(g, R)) = EnergyIn(g) /\ WholeTotals(RefineLeaves(g, R))
    BY <2>3, <2>4, RefinedEnergy
  <2>6. Divided(before, g) => Divided(before, RefineLeaves(g, R))
    BY <2>3, <2>4, RefiningDivides
  <2> QED BY <2>1, <2>2, <2>5, <2>6 DEF g
<1>4. Good(2 * MaxLevel)
  <2> HIDE DEF T
  <2>1. 2 * MaxLevel \in T
    BY <1>2, <1>3, SetInduction, Levels
  <2> USE DEF T
  <2> HIDE DEF Good
  <2> QED BY <2>1, Levels
<1> QED BY <1>1, <1>4

-----------------------------------------------------------------------------
(* Parts and total energy from step to step. *)

\* Before a pass the parts of every leaf are fresh; from the refining on, the
\* forest it left is divided as its leaves' energies say.
PartsInv ==
  /\ phase \in {"preprocess", "refine"} => FreshParts(forest)
  /\ phase \in {"tag", "coarsen", "balance", "partition", "stage"} =>
       /\ Drift(Start, DOMAIN trail.refined, 0, 1)
       /\ Levelled(DOMAIN trail.refined) /\ Holds(trail.refined)
       /\ Divided(trail.refined, forest)

\* The members of a leaf.
LEMMA LeafMembers ==
  ASSUME NEW c, NEW d \in LeafData(c)
  PROVE  /\ DOMAIN d = {"mass", "total", "internal", "parts", "indicator", "coarsening"}
         /\ d.mass = Mass(c) /\ d.total \in Nat /\ d.internal \in Nat
<1> HIDE DEF LeafParts
<1> QED BY DEF LeafData

\* Forests with the same parts and internal energies.
LEMMA DividedAlike ==
  ASSUME NEW r, NEW f, NEW g, DOMAIN g = DOMAIN f, Divided(r, f),
         \A c \in DOMAIN f : g[c].parts = f[c].parts /\ g[c].internal = f[c].internal
  PROVE  Divided(r, g)
BY DEF Divided

\* Forests with the same total energies.
LEMMA EnergyAlike ==
  ASSUME NEW f, NEW g, DOMAIN g = DOMAIN f, Tiling(DOMAIN f),
         \A c \in DOMAIN f : g[c].total = f[c].total
  PROVE  EnergyIn(g) = EnergyIn(f)
<1> DEFINE F == [c \in DOMAIN f |-> f[c].total]
           G == [c \in DOMAIN g |-> g[c].total]
<1>1. IsFiniteSet(DOMAIN f) /\ \A c \in DOMAIN f : G[c] = F[c]
  BY FiniteForest
<1> HIDE DEF F, G
<1>2. SumOver(G, DOMAIN f) = SumOver(F, DOMAIN f)
  BY <1>1, SameTerms
<1> QED BY <1>2 DEF EnergyIn, F, G

\* Refining leaves fresh parts.
LEMMA RefinedParts ==
  ASSUME NEW f, Tiling(DOMAIN f), Levelled(DOMAIN f), Holds(f), FreshParts(f),
         NEW R, R \subseteq DOMAIN f, \A p \in R : p.level < MaxLevel
  PROVE  FreshParts(RefineLeaves(f, R))
<1> DEFINE g == RefineLeaves(f, R)
<1>1. /\ DOMAIN g = Split(DOMAIN f, R)
      /\ \A c \in DOMAIN g : g[c] = IF c \in DOMAIN f THEN f[c] ELSE RefinedChild(f, c)
  BY DEF RefineLeaves, Split
<1> HIDE DEF g
<1>2. ASSUME NEW c \in DOMAIN g PROVE g[c].parts = Parts(c, g[c])
  <2>1. CASE c \in DOMAIN f
    BY <1>1, <2>1 DEF FreshParts
  <2>2. CASE c \notin DOMAIN f
    <3>1. PICK p \in R, k \in 1..4 : c = Child(p, k)
      BY <1>1, <1>2, <2>2, SplitLeaf, Levels
    <3>2. p \in Cells /\ p.level \in MinLevel..MaxLevel /\ p.level < MaxLevel /\ f[p] \in LeafData(p)
      BY LeafIsCell DEF Levelled, Holds
    <3>3. RefinedChild(f, c).parts = Parts(c, RefinedChild(f, c))
      BY <3>1, <3>2, RefinedData
    <3> QED BY <1>1, <2>2, <3>3
  <2> QED BY <2>1, <2>2
<1> QED BY <1>2 DEF FreshParts, g

\* Parts and energies are not what the gradient passes write.
LEMMA PreProcessedLeaves ==
  ASSUME Inv, PreProcess
  PROVE  /\ DOMAIN forest' = DOMAIN forest
         /\ \A c \in DOMAIN forest : /\ forest'[c].mass = forest[c].mass
                                     /\ forest'[c].total = forest[c].total
                                     /\ forest'[c].internal = forest[c].internal
                                     /\ forest'[c].parts = forest[c].parts
<1>1. PICK front \in Fronts :
        forest' = [c \in DOMAIN forest |->
                     [forest[c] EXCEPT !.indicator = Steepness(c, front),
                                       !.coarsening = Allowed]]
  BY DEF PreProcess
<1>2. ASSUME NEW c \in DOMAIN forest
      PROVE  /\ forest'[c].mass = forest[c].mass
             /\ forest'[c].total = forest[c].total
             /\ forest'[c].internal = forest[c].internal
             /\ forest'[c].parts = forest[c].parts
  <2>1. forest'[c] = [forest[c] EXCEPT !.indicator = Steepness(c, front), !.coarsening = Allowed]
    BY <1>1
  <2>2. DOMAIN forest[c] = {"mass", "total", "internal", "parts", "indicator", "coarsening"}
    BY LeafMembers DEF Inv, DataInv, Holds
  <2> HIDE DEF Steepness, Allowed
  <2> QED BY <2>1, <2>2
<1> QED BY <1>1, <1>2

\* Nor what the coarsening tags write.
LEMMA TaggedLeaves ==
  ASSUME Inv, TagCoarsening
  PROVE  /\ DOMAIN forest' = DOMAIN forest
         /\ \A c \in DOMAIN forest : /\ forest'[c].total = forest[c].total
                                     /\ forest'[c].internal = forest[c].internal
                                     /\ forest'[c].parts = forest[c].parts
<1>1. forest' = [c \in DOMAIN forest |->
                   IF c \in TooCoarse(DOMAIN forest)
                     THEN [forest[c] EXCEPT !.coarsening = NotAllowed]
                     ELSE forest[c]]
  BY DEF TagCoarsening
<1>2. ASSUME NEW c \in DOMAIN forest
      PROVE  /\ forest'[c].total = forest[c].total
             /\ forest'[c].internal = forest[c].internal
             /\ forest'[c].parts = forest[c].parts
  <2>1. forest'[c] = forest[c] \/ forest'[c] = [forest[c] EXCEPT !.coarsening = NotAllowed]
    BY <1>1
  <2>2. DOMAIN forest[c] = {"mass", "total", "internal", "parts", "indicator", "coarsening"}
    BY LeafMembers DEF Inv, DataInv, Holds
  <2> HIDE DEF NotAllowed
  <2> QED BY <2>1, <2>2
<1> QED BY <1>1, <1>2

\* The stage leaves fresh parts, and moves energy without losing any.
LEMMA StagedEnergy ==
  ASSUME Inv, Stage
  PROVE  FreshParts(forest') /\ EnergyIn(forest') = EnergyIn(forest)
<1> DEFINE L == DOMAIN forest
           six == {"mass", "total", "internal", "parts", "indicator", "coarsening"}
<1>1. Tiling(L) /\ DOMAIN forest' = L /\ Holds(forest')
  BY StagedForest DEF Inv, ShapeInv, Now
<1>2. \A c \in L : DOMAIN forest[c] = six /\ forest[c].total \in Nat
  BY LeafMembers DEF Inv, DataInv, Holds
<1>3. CASE forest' = [c \in DOMAIN forest |-> WithParts(c, forest[c])]
  <2>1. ASSUME NEW c \in L
        PROVE  forest'[c].parts = Parts(c, forest'[c]) /\ forest'[c].total = forest[c].total
    <3>1. forest'[c] = WithParts(c, forest[c])
      BY <1>3
    <3> QED BY <1>2, <3>1, WithPartsKeeps
  <2> QED BY <1>1, <2>1, EnergyAlike DEF FreshParts
<1>4. ASSUME NEW a \in L, NEW b \in L, a # b, forest' = Flow(a, b)
      PROVE  FreshParts(forest') /\ EnergyIn(forest') = EnergyIn(forest)
  <2> DEFINE gain(c) == CASE c = b -> Quantum [] c = a -> -Quantum [] OTHER -> 0
             d(c) == [forest[c] EXCEPT !.total = @ + gain(c), !.internal = @ + gain(c)]
             F == [c \in L |-> forest[c].total]
             G == [c \in DOMAIN forest' |-> forest'[c].total]
  <2>1. forest' = [c \in DOMAIN forest |-> WithParts(c, d(c))]
    BY <1>4 DEF Flow
  <2>2. ASSUME NEW c \in L
        PROVE  /\ forest'[c].parts = Parts(c, forest'[c])
               /\ forest'[c].total = forest[c].total + gain(c)
    <3>1. DOMAIN d(c) = six /\ d(c).total = forest[c].total + gain(c)
      <4> HIDE DEF gain
      <4> QED BY <1>2
    <3>2. forest'[c] = WithParts(c, d(c))
      BY <2>1
    <3> HIDE DEF d, gain
    <3> QED BY <3>1, <3>2, WithPartsKeeps
  <2>3. /\ gain(b) = Quantum /\ gain(a) = -Quantum
        /\ \A c \in L \ {a, b} : gain(c) = 0
    BY <1>4
  <2>4. Quantum \in Nat
    BY BoundAssumption
  <2> HIDE DEF d, gain
  <2> DEFINE A == L \ {a}
             B == A \ {b}
  <2>5. IsFiniteSet(L) /\ IsFiniteSet(A) /\ IsFiniteSet(B) /\ a \in L /\ b \in A
    BY <1>1, <1>4, FiniteForest, FS_Subset
  <2>6. (\A c \in L : F[c] \in Int) /\ (\A c \in L : G[c] \in Int)
    <3>1. \A c \in L : forest'[c].total \in Nat
      BY <1>1, LeafMembers DEF Holds
    <3> QED BY <1>1, <1>2, <3>1
  <2>7. G[a] = F[a] + (-Quantum) /\ G[b] = F[b] + Quantum
    BY <1>1, <1>4, <2>2, <2>3
  <2>8. \A c \in B : G[c] = F[c]
    <3> SUFFICES ASSUME NEW c \in B PROVE G[c] = F[c]
      OBVIOUS
    <3>1. c \in L /\ c \in L \ {a, b}
      OBVIOUS
    <3>2. forest'[c].total = forest[c].total + 0 /\ forest[c].total \in Nat
      BY <1>2, <2>2, <2>3, <3>1
    <3>3. forest'[c].total = forest[c].total
      BY <3>2
    <3> QED BY <1>1, <3>1, <3>3
  <2>9. EnergyIn(forest') = SumOver(G, L) /\ EnergyIn(forest) = SumOver(F, L)
    BY <1>1 DEF EnergyIn
  <2>10. A \subseteq L /\ B \subseteq L
    OBVIOUS
  <2> HIDE DEF F, G, A, L
  <2>11. SumOver(F, L) = F[a] + SumOver(F, A) /\ SumOver(G, L) = G[a] + SumOver(G, A)
    BY <2>5, <2>6, SumStep DEF A
  <2>12. SumOver(F, A) = F[b] + SumOver(F, B) /\ SumOver(G, A) = G[b] + SumOver(G, B)
    <3>1. (\A c \in A : F[c] \in Int) /\ (\A c \in A : G[c] \in Int)
      BY <2>6, <2>10
    <3> QED BY <2>5, <3>1, SumStep
  <2> HIDE DEF B
  <2>13. SumOver(G, B) = SumOver(F, B)
    BY <2>5, <2>8, SameTerms
  <2>14. SumOver(F, B) \in Int /\ F[a] \in Int /\ F[b] \in Int
    <3>1. \A c \in B : F[c] \in Int
      BY <2>6, <2>10
    <3>2. F[a] \in Int /\ F[b] \in Int
      BY <1>4, <2>6
    <3> QED BY <2>5, <3>1, <3>2, SumStep
  <2>15. SumOver(G, L) = SumOver(F, L)
    <3> DEFINE u == SumOver(F, L)
               v == SumOver(G, L)
               w == SumOver(F, B)
               x == F[a]
               y == F[b]
    <3>1. /\ u = x + (y + w) /\ v = (x + (-Quantum)) + ((y + Quantum) + w)
          /\ w \in Int /\ x \in Int /\ y \in Int
      BY <2>7, <2>11, <2>12, <2>13, <2>14
    <3> HIDE DEF u, v, w, x, y
    <3>2. v = u
      BY <2>4, <3>1
    <3> QED BY <3>2 DEF u, v
  <2>16. FreshParts(forest')
    BY <1>1, <2>2 DEF FreshParts, L
  <2> QED BY <2>9, <2>15, <2>16
<1> HIDE DEF L
<1> QED BY <1>3, <1>4 DEF Stage, L

\* Parts stay what they are said to be.
LEMMA PartsStep == Inv /\ Inv' /\ PartsInv /\ [Next]_vars => PartsInv'
<1> SUFFICES ASSUME Inv, Inv', PartsInv, [Next]_vars PROVE PartsInv'
  OBVIOUS
<1>1. CASE UNCHANGED vars
  BY <1>1 DEF PartsInv, Start, vars
<1>2. CASE PreProcess
  <2>1. /\ phase = "preprocess" /\ phase' \in {"refine", "partition", "stage"}
        /\ trail' = Remember(forest')
    BY <1>2 DEF PreProcess
  <2>2. /\ Start' = DOMAIN forest' /\ trail'.refined = forest'
    BY <2>1 DEF Start, Remember
  <2>3. /\ DOMAIN forest' = DOMAIN forest
        /\ \A c \in DOMAIN forest : /\ forest'[c].mass = forest[c].mass
                                    /\ forest'[c].internal = forest[c].internal
                                    /\ forest'[c].parts = forest[c].parts
    BY <1>2, PreProcessedLeaves
  <2>4. FreshParts(forest')
    <3> SUFFICES ASSUME NEW c \in DOMAIN forest PROVE forest'[c].parts = Parts(c, forest'[c])
      BY <2>3 DEF FreshParts
    <3>1. forest[c].parts = Parts(c, forest[c])
      BY <2>1 DEF PartsInv, FreshParts
    <3>2. Parts(c, forest'[c]) = Parts(c, forest[c])
      BY <2>3 DEF Parts
    <3> QED BY <2>3, <3>1, <3>2
  <2>5. Tiling(DOMAIN forest') /\ Levelled(DOMAIN forest') /\ Holds(forest')
    BY DEF Inv, ShapeInv, DataInv, Now
  <2>6. Drift(DOMAIN forest', DOMAIN forest', 0, 1)
    <3>1. Tiling(DOMAIN forest)
      BY DEF Inv, ShapeInv, Now
    <3>2. Drift(DOMAIN forest, DOMAIN forest, 0, 1)
      <4> SUFFICES ASSUME NEW c \in DOMAIN forest, NEW d \in DOMAIN forest, Overlap(c, d)
                   PROVE  d.level - c.level \in 0..1
        BY DEF Drift
      <4>1. c = d /\ c.level \in Nat
        BY <3>1, LeafIsCell DEF Tiling
      <4> QED BY <4>1
    <3> QED BY <2>3, <3>2
  <2>7. Divided(forest', forest')
    BY <2>4, <2>5, DividedAtFirst
  <2> QED BY <2>1, <2>2, <2>4, <2>5, <2>6, <2>7 DEF PartsInv
<1>3. CASE Unsupported
  BY <1>3 DEF Unsupported, PartsInv
<1>4. CASE Refine
  <2> DEFINE R == {c \in DOMAIN forest : RefineErrorEstimate(forest, c)}
  <2>1. /\ phase = "refine" /\ phase' = "tag" /\ forest' = RefineLeaves(forest, R)
        /\ trail' = [trail EXCEPT !.refined = forest']
    BY <1>4 DEF Refine
  <2>2. Tiling(Now) /\ Levelled(Now) /\ Holds(forest) /\ FreshParts(forest)
    BY <2>1 DEF Inv, ShapeInv, DataInv, PartsInv
  <2>3. R \subseteq DOMAIN forest /\ \A p \in R : p.level < MaxLevel
    <3> SUFFICES ASSUME NEW p \in R PROVE p.level < MaxLevel
      OBVIOUS
    <3>1. p.level \in MinLevel..MaxLevel
      BY <2>2 DEF Now, Levelled
    <3> QED BY <3>1, Levels DEF RefineErrorEstimate
  <2> HIDE DEF R
  <2>4. FreshParts(forest')
    BY <2>1, <2>2, <2>3, RefinedParts DEF Now
  <2>5. trail'.refined = forest' /\ Start' = Start
    BY <2>1 DEF Inv, DataInv, Start
  <2>6. Tiling(DOMAIN forest') /\ Levelled(DOMAIN forest') /\ Holds(forest')
    BY DEF Inv, ShapeInv, DataInv, Now
  <2>7. Drift(Start', DOMAIN forest', 0, 1)
    BY <2>1 DEF Inv, PassInv, Now
  <2>8. Divided(forest', forest')
    BY <2>4, <2>6, DividedAtFirst
  <2> QED BY <2>1, <2>5, <2>6, <2>7, <2>8 DEF PartsInv
<1>5. CASE TagCoarsening
  <2>1. phase = "tag" /\ phase' = "coarsen" /\ trail' = trail
    BY <1>5 DEF TagCoarsening
  <2>2. Divided(trail.refined, forest')
    BY <1>5, <2>1, TaggedLeaves, DividedAlike DEF PartsInv
  <2> QED BY <2>1, <2>2 DEF PartsInv, Start
<1>6. CASE Coarsen
  <2> DEFINE P == {p \in Families(DOMAIN forest) :
                     ~Cut(p, owner) /\ CoarsenErrorEstimate(forest, Children(p))}
  <2>1. /\ phase = "coarsen" /\ phase' = "balance" /\ trail' = trail
        /\ forest' = CoarsenFamilies(forest, P)
    BY <1>6 DEF Coarsen
  <2>2. P \subseteq Families(DOMAIN forest)
    OBVIOUS
  <2> HIDE DEF P
  <2>3. /\ DOMAIN trail.refined = DOMAIN forest /\ Tiling(DOMAIN forest)
        /\ Divided(trail.refined, forest)
    BY <2>1 DEF Inv, PassInv, ShapeInv, PartsInv, Now
  <2>4. Divided(trail.refined, forest')
    BY <2>1, <2>2, <2>3, CoarseningDivides
  <2> QED BY <2>1, <2>4 DEF PartsInv, Start
<1>7. CASE Balance
  <2>1. /\ phase = "balance" /\ phase' \in {"partition", "stage"} /\ trail' = trail
        /\ forest' = BalancedForest(forest)
    BY <1>7 DEF Balance
  <2>2. /\ Tiling(DOMAIN forest) /\ Levelled(DOMAIN forest) /\ Holds(forest)
        /\ Gap(DOMAIN forest, 2) /\ Tiling(Start) /\ Gap(Start, 1)
        /\ Drift(Start, DOMAIN forest, -1, 1)
        /\ Tiling(DOMAIN trail.refined) /\ Kept(trail.refined, forest)
    BY <2>1 DEF Inv, ShapeInv, PassInv, DataInv, Now
  <2>3. Divided(trail.refined, forest)
    BY <2>1 DEF PartsInv
  <2>4. Divided(trail.refined, forest')
    BY <2>1, <2>2, <2>3, BalancedEnergy
  <2> QED BY <2>1, <2>4 DEF PartsInv, Start
<1>8. CASE Partition
  BY <1>8 DEF Partition, PartsInv, Start
<1>9. CASE Stage
  <2>1. phase' = "preprocess"
    BY <1>9 DEF Stage
  <2>2. FreshParts(forest')
    BY <1>9, StagedEnergy
  <2> QED BY <2>1, <2>2 DEF PartsInv
<1> QED BY <1>1, <1>2, <1>3, <1>4, <1>5, <1>6, <1>7, <1>8, <1>9 DEF Next

\* The initial leaves make their parts.
LEMMA PartsInit == Init => PartsInv
<1> SUFFICES ASSUME Init PROVE PartsInv
  OBVIOUS
<1> DEFINE d(c) == [mass |-> Mass(c), total |-> InitialEnergy[c], internal |-> InitialEnergy[c],
                    parts |-> <<>>, indicator |-> Unset, coarsening |-> Unset]
<1>1. phase = "preprocess" /\ forest = [c \in LevelCells(MinLevel) |-> WithParts(c, d(c))]
  BY DEF Init
<1>2. ASSUME NEW c \in DOMAIN forest PROVE forest[c].parts = Parts(c, forest[c])
  <2>1. DOMAIN d(c) = {"mass", "total", "internal", "parts", "indicator", "coarsening"}
    OBVIOUS
  <2>2. forest[c] = WithParts(c, d(c))
    BY <1>1
  <2> HIDE DEF d
  <2> QED BY <2>1, <2>2, WithPartsKeeps
<1> QED BY <1>1, <1>2 DEF PartsInv, FreshParts

LEMMA PartsFollow == Spec => []PartsInv
<1>1. Inv /\ Inv' /\ PartsInv /\ [Next]_vars => PartsInv'
  BY PartsStep
<1> QED BY <1>1, PartsInit, Invariance, PTL DEF Spec

\* What NothingRounded says of the forest's leaves.
LEMMA NotRounded ==
  ASSUME Inv, NothingRounded
  PROVE  WholeTotals(forest) /\ WholeInternals(forest)
<1>1. \A c \in DOMAIN forest : forest[c].mass = Mass(c)
  BY LeafMembers DEF Inv, DataInv, Holds
<1>2. \A c \in DOMAIN forest : \A e \in Within[c] :
        /\ (forest[c].total * Mass(e)) % Mass(c) = 0
        /\ (forest[c].internal * Mass(e)) % Mass(c) = 0
  BY <1>1 DEF NothingRounded
<1> QED BY <1>2 DEF WholeTotals, WholeInternals

\* No step loses or gains energy.
LEMMA EnergyStep ==
  ASSUME Inv, NothingRounded, [Next]_vars
  PROVE  EnergyIn(forest') = EnergyIn(forest)
<1>1. CASE UNCHANGED vars \/ Unsupported \/ Partition
  <2>1. forest' = forest
    BY <1>1 DEF vars, Unsupported, Partition
  <2> QED BY <2>1
<1>2. Tiling(DOMAIN forest) /\ Levelled(DOMAIN forest) /\ Holds(forest) /\ WholeTotals(forest)
  BY NotRounded DEF Inv, ShapeInv, DataInv, Now
<1>3. CASE PreProcess
  BY <1>2, <1>3, PreProcessedLeaves, EnergyAlike
<1>4. CASE Refine
  <2> DEFINE R == {c \in DOMAIN forest : RefineErrorEstimate(forest, c)}
  <2>1. forest' = RefineLeaves(forest, R)
    BY <1>4 DEF Refine
  <2>2. R \subseteq DOMAIN forest /\ \A p \in R : p.level < MaxLevel
    <3> SUFFICES ASSUME NEW p \in R PROVE p.level < MaxLevel
      OBVIOUS
    <3>1. p.level \in MinLevel..MaxLevel
      BY <1>2 DEF Levelled
    <3> QED BY <3>1, Levels DEF RefineErrorEstimate
  <2> HIDE DEF R
  <2> QED BY <1>2, <2>1, <2>2, RefinedEnergy
<1>5. CASE TagCoarsening
  BY <1>2, <1>5, TaggedLeaves, EnergyAlike
<1>6. CASE Coarsen
  <2> DEFINE P == {p \in Families(DOMAIN forest) :
                     ~Cut(p, owner) /\ CoarsenErrorEstimate(forest, Children(p))}
  <2>1. forest' = CoarsenFamilies(forest, P)
    BY <1>6 DEF Coarsen
  <2>2. P \subseteq Families(DOMAIN forest) /\ \A p \in P : \A c \in Children(p) : c.level > MinLevel
    BY DEF CoarsenErrorEstimate
  <2> HIDE DEF P
  <2> QED BY <1>2, <2>1, <2>2, CoarsenedEnergy
<1>7. CASE Balance
  <2>1. /\ phase = "balance" /\ forest' = BalancedForest(forest)
    BY <1>7 DEF Balance
  <2>2. /\ Gap(DOMAIN forest, 2) /\ Tiling(Start) /\ Gap(Start, 1)
        /\ Drift(Start, DOMAIN forest, -1, 1)
        /\ Tiling(DOMAIN trail.refined) /\ Kept(trail.refined, forest)
    BY <2>1 DEF Inv, ShapeInv, PassInv, Now
  <2> QED BY <1>2, <2>1, <2>2, BalancedEnergy
<1>8. CASE Stage
  BY <1>8, StagedEnergy
<1> QED BY <1>1, <1>3, <1>4, <1>5, <1>6, <1>7, <1>8 DEF Next

\* The energy the leaves started with.
LEMMA EnergyInit ==
  ASSUME Init
  PROVE  EnergyIn(forest) = SumFunction(InitialEnergy)
<1> DEFINE L == LevelCells(MinLevel)
           d(c) == [mass |-> Mass(c), total |-> InitialEnergy[c], internal |-> InitialEnergy[c],
                    parts |-> <<>>, indicator |-> Unset, coarsening |-> Unset]
           F == [c \in DOMAIN forest |-> forest[c].total]
<1>1. forest = [c \in L |-> WithParts(c, d(c))]
  BY DEF Init
<1>2. ASSUME NEW c \in L PROVE forest[c].total = InitialEnergy[c]
  <2>1. DOMAIN d(c) = {"mass", "total", "internal", "parts", "indicator", "coarsening"}
        /\ d(c).total = InitialEnergy[c]
    OBVIOUS
  <2>2. forest[c] = WithParts(c, d(c))
    BY <1>1
  <2> HIDE DEF d
  <2> QED BY <2>1, <2>2, WithPartsKeeps
<1>3. DOMAIN forest = L /\ DOMAIN InitialEnergy = L
  BY <1>1, InitialAssumption
<1>4. IsFiniteSet(L)
  BY Levels, LevelTiling, FiniteForest
<1>5. \A c \in L : F[c] = InitialEnergy[c]
  BY <1>2, <1>3
<1>6. EnergyIn(forest) = SumOver(F, L)
  BY <1>3 DEF EnergyIn
<1>7. SumFunction(InitialEnergy) = SumOver(InitialEnergy, L)
  BY <1>3, SumFunctionIs
<1> HIDE DEF F, L
<1>8. SumOver(F, L) = SumOver(InitialEnergy, L)
  BY <1>4, <1>5, SameTerms
<1> QED BY <1>6, <1>7, <1>8

\* However many passes refine, put together and balance whatever leaves, the total
\* energy of the forest is that of the initial one, where no amount is rounded.
THEOREM EnergyIsConserved == Spec /\ []NothingRounded => []EnergyConserved
<1> DEFINE Same == EnergyIn(forest) = SumFunction(InitialEnergy)
<1>1. Init => Same
  BY EnergyInit
<1>2. Inv /\ NothingRounded /\ Same /\ [Next]_vars => Same'
  <2> SUFFICES ASSUME Inv, NothingRounded, Same, [Next]_vars PROVE Same'
    OBVIOUS
  <2>1. EnergyIn(forest') = EnergyIn(forest)
    BY EnergyStep
  <2> QED BY <2>1
<1>3. Same => EnergyConserved
  <2>1. Sum(forest, TotalOf) = EnergyIn(forest)
    <3> DEFINE F == [c \in DOMAIN forest |-> forest[c].total]
    <3>1. Sum(forest, TotalOf) = SumFunction(F)
      BY DEF Sum, TotalOf
    <3>2. SumFunction(F) = SumOver(F, DOMAIN F)
      BY SumFunctionIs
    <3>3. DOMAIN F = DOMAIN forest
      OBVIOUS
    <3> QED BY <3>1, <3>2, <3>3 DEF EnergyIn
  <2> QED BY <2>1 DEF EnergyConserved
<1> HIDE DEF Same
<1> QED BY <1>1, <1>2, <1>3, Invariance, PTL DEF Spec

\* The passes of the controller keep mass and total energy.
THEOREM Conservation == Spec /\ []NothingRounded => []Conserved
<1>1. MassConserved /\ EnergyConserved => Conserved
  BY DEF Conserved
<1> QED BY <1>1, MassIsConserved, EnergyIsConserved, PTL

\* The forest the refinement left was not rounded.
RefinedWhole ==
  phase \in {"tag", "coarsen", "balance", "partition", "stage"} => WholeInternals(trail.refined)

LEMMA RefinedWholeStep ==
  ASSUME Inv, RefinedWhole, WholeInternals(forest'), [Next]_vars
  PROVE  RefinedWhole'
<1>1. CASE UNCHANGED vars
  BY <1>1 DEF RefinedWhole, vars
<1>2. CASE PreProcess \/ Stage
  <2>1. trail' = Remember(forest')
    BY <1>2 DEF PreProcess, Stage
  <2>2. trail'.refined = forest'
    BY <2>1 DEF Remember
  <2> QED BY <2>2 DEF RefinedWhole
<1>3. CASE Refine
  <2>1. trail'.refined = forest'
    BY <1>3 DEF Refine, Inv, DataInv
  <2> QED BY <2>1 DEF RefinedWhole
<1>4. CASE Unsupported
  BY <1>4 DEF Unsupported, RefinedWhole
<1>5. CASE TagCoarsening \/ Coarsen \/ Balance \/ Partition
  BY <1>5 DEF TagCoarsening, Coarsen, Balance, Partition, RefinedWhole
<1> QED BY <1>1, <1>2, <1>3, <1>4, <1>5 DEF Next

\* Where a leaf that was there after refining is divided at the stage, all four
\* children are leaves.
LEMMA DividedInFour ==
  ASSUME Inv, PartsInv, phase = "stage", NEW c \in DOMAIN trail.refined, c \notin Now,
         Within[c] \cap Now # {}
  PROVE  /\ c \in Cells /\ c.level \in MinLevel..MaxLevel /\ c.level < MaxLevel
         /\ Within[c] \cap Now = Children(c)
<1> DEFINE r == trail.refined
           D == Within[c] \cap Now
<1>1. /\ Tiling(Now) /\ Levelled(Now) /\ Tiling(Start) /\ Drift(Start, Now, -1, 1)
      /\ Tiling(DOMAIN r) /\ Drift(Start, DOMAIN r, 0, 1) /\ Levelled(DOMAIN r)
  BY DEF Inv, ShapeInv, PassInv, PartsInv
<1>2. c \in Cells /\ c.level \in Nat /\ c.level \in MinLevel..MaxLevel
  BY <1>1, LeafIsCell DEF Levelled
<1>3. ASSUME NEW d \in D
      PROVE  d \in Cells /\ Overlap(c, d) /\ Inside(d, c) /\ d.level = c.level + 1 /\ d.level <= MaxLevel
  <2>1. /\ d \in Cells /\ d \in Now /\ Overlap(c, d) /\ d.level >= c.level
        /\ d.level \in Nat /\ d.level <= MaxLevel
    BY <1>1, <1>2, LeafIsCell, Levels DEF Within, Levelled
  <2>2. Overlap(d, c) /\ Inside(d, c)
    BY <1>2, <2>1, OverlapOfSquares, Nesting
  <2>3. d.level # c.level
    <3> SUFFICES ASSUME d.level = c.level PROVE FALSE
      OBVIOUS
    <3>1. d = c
      BY <1>2, <2>1, <2>2, SameLevel
    <3> QED BY <2>1, <3>1
  <2>4. PICK s \in Start : Overlap(s, d)
    <3>1. Touch(d, d)
      BY <2>1, OverlapOfSquares
    <3> QED BY <1>1, <2>1, <3>1, LeafThere
  <2>5. s \in Cells /\ s.level \in Nat
    BY <1>1, LeafIsCell
  <2>6. Overlap(s, c)
    BY <1>2, <2>1, <2>2, <2>4, <2>5, WholeMeets, OverlapOfSquares
  <2>7. c.level - s.level \in 0..1 /\ d.level - s.level \in -1..1
    BY <1>1, <2>1, <2>4, <2>6 DEF Drift
  <2>8. d.level <= c.level + 1
    BY <1>2, <2>1, <2>5, <2>7
  <2> QED BY <1>2, <2>1, <2>2, <2>3, <2>8
<1>4. PICK d0 \in D : TRUE
  OBVIOUS
<1>5. c.level < MaxLevel /\ c.level < Depth
  BY <1>2, <1>3, <1>4, Levels
<1>6. ASSUME NEW d \in D PROVE d \in Children(c)
  <2>1. d \in Cells /\ Overlap(d, c) /\ d.level = c.level + 1
    BY <1>2, <1>3, OverlapOfSquares
  <2>2. PICK k \in 1..4 : Overlap(d, Child(c, k))
    BY <1>2, <1>5, <2>1, ChildrenFill
  <2>3. Child(c, k) \in Cells /\ Child(c, k).level = c.level + 1
    BY <1>2, <1>5, ChildPlace
  <2>4. d = Child(c, k)
    BY <2>1, <2>2, <2>3, SameLevel
  <2> QED BY <2>4 DEF Children
<1>7. ASSUME NEW k \in 1..4 PROVE Child(c, k) \in D
  <2> DEFINE e == Child(c, k)
  <2>1. e \in Cells /\ e.level = c.level + 1 /\ Inside(e, c)
    BY <1>2, <1>5, ChildPlace, ChildrenFill
  <2> HIDE DEF e
  <2>2. PICK b \in Now : Overlap(b, e)
    <3>1. Touch(e, e)
      BY <2>1, OverlapOfSquares
    <3> QED BY <1>1, <2>1, <3>1, LeafThere
  <2>3. b \in Cells /\ b.level \in Nat
    BY <1>1, LeafIsCell
  <2>4. Overlap(c, b)
    BY <1>2, <2>1, <2>2, <2>3, WholeMeets, OverlapOfSquares
  <2>5. b.level >= c.level
    <3> SUFFICES ASSUME b.level < c.level PROVE FALSE
      BY <1>2, <2>3
    <3>1. Inside(c, b)
      BY <1>2, <2>3, <2>4, Nesting
    <3>2. d0 \in Cells /\ Inside(d0, c) /\ d0.level = c.level + 1 /\ d0 \in Now
      BY <1>3
    <3>3. Inside(d0, b)
      BY <1>2, <2>3, <3>1, <3>2, WholeMeets
    <3>4. d0 = b
      BY <1>1, <3>2, <3>3, InsideItself
    <3> QED BY <1>2, <2>3, <3>2, <3>4
  <2>6. b \in D
    BY <1>2, <2>3, <2>4, <2>5 DEF Within
  <2>7. b.level = e.level
    BY <1>3, <2>1, <2>6
  <2>8. b = e
    BY <2>1, <2>2, <2>3, <2>7, SameLevel
  <2> QED BY <2>6, <2>8 DEF e
<1>8. D = Children(c)
  BY <1>6, <1>7 DEF Children
<1> QED BY <1>2, <1>5, <1>8

\* A sum with one term.
LEMMA SumOfOne ==
  ASSUME NEW F, NEW x, F[x] \in Int
  PROVE  SumOver(F, {x}) = F[x]
<1>1. IsFiniteSet({x}) /\ x \in {x} /\ {x} \ {x} = {}
  BY FS_Singleton
<1> DEFINE S == {x}
<1>2. \A y \in S : F[y] \in Int
  OBVIOUS
<1> HIDE DEF S
<1>3. SumOver(F, S) = F[x] + SumOver(F, S \ {x})
  BY <1>1, <1>2, SumStep DEF S
<1>4. SumOver(F, S \ {x}) = 0
  BY <1>1, SumOfNone DEF S
<1>5. SumOver(F, S) = F[x]
  BY <1>3, <1>4
<1> QED BY <1>5 DEF S

\* However leaves are put together and taken apart again in one pass, the leaves
\* inside a leaf that was there before the coarsening have its mass and its internal
\* energy between them, where no amount is rounded.
THEOREM FamiliesRestored == Spec /\ []NothingRounded => []RestoredByBalance
<1>1. Inv /\ NothingRounded => WholeInternals(forest)
  BY NotRounded
<1>2. Init => RefinedWhole
  BY DEF Init, RefinedWhole
<1>3. Inv /\ RefinedWhole /\ WholeInternals(forest)' /\ [Next]_vars => RefinedWhole'
  <2> SUFFICES ASSUME Inv, RefinedWhole, WholeInternals(forest)', [Next]_vars PROVE RefinedWhole'
    OBVIOUS
  <2>1. WholeInternals(forest')
    OBVIOUS
  <2> QED BY <2>1, RefinedWholeStep
<1>4. Inv /\ PartsInv /\ RefinedWhole => RestoredByBalance
  <2> DEFINE r == trail.refined
             inside(c) == [d \in Within[c] \cap Now |-> forest[d]]
  <2> SUFFICES ASSUME Inv, PartsInv, RefinedWhole, phase = "stage", NEW c \in DOMAIN r,
                      Within[c] \cap Now # {}
               PROVE  /\ Sum(inside(c), MassOf) = r[c].mass
                      /\ Sum(inside(c), InternalOf) = r[c].internal
    BY DEF RestoredByBalance, Now
  <2> DEFINE D == Within[c] \cap Now
             M == [d \in D |-> forest[d].mass]
             E == [d \in D |-> forest[d].internal]
  <2>1. Sum(inside(c), MassOf) = SumOver(M, D) /\ Sum(inside(c), InternalOf) = SumOver(E, D)
    <3>1. Sum(inside(c), MassOf) = SumFunction(M) /\ Sum(inside(c), InternalOf) = SumFunction(E)
      BY DEF Sum, MassOf, InternalOf
    <3>2. SumFunction(M) = SumOver(M, DOMAIN M) /\ SumFunction(E) = SumOver(E, DOMAIN E)
      BY SumFunctionIs
    <3>3. DOMAIN M = D /\ DOMAIN E = D
      OBVIOUS
    <3> QED BY <3>1, <3>2, <3>3
  <2>2. /\ Tiling(Now) /\ Kept(r, forest) /\ Divided(r, forest) /\ Tiling(DOMAIN r)
        /\ Holds(r) /\ Holds(forest) /\ WholeInternals(r)
    BY DEF Inv, ShapeInv, DataInv, PassInv, PartsInv, RefinedWhole
  <2>3. r[c].mass = Mass(c) /\ r[c].internal \in Nat
    BY <2>2, LeafMembers DEF Holds
  <2>4. \A d \in Now : forest[d].mass = Mass(d) /\ forest[d].internal \in Nat
    BY <2>2, LeafMembers DEF Holds, Now
  <2>5. c \in Cells
    BY <2>2, LeafIsCell
  <2>6. CASE c \in Now
    <3>1. D = {c}
      <4>1. c \in Within[c]
        BY <2>5, OverlapOfSquares, CellParts DEF Within
      <4>2. ASSUME NEW d \in D PROVE d = c
        <5>1. Overlap(c, d)
          BY <2>5 DEF Within
        <5> QED BY <2>2, <2>6, <5>1 DEF Tiling
      <4> QED BY <2>6, <4>1, <4>2
    <3>2. M[c] = r[c].mass /\ E[c] = r[c].internal
      <4>1. c \in D
        BY <3>1
      <4>2. M[c] = forest[c].mass /\ E[c] = forest[c].internal
        BY <4>1
      <4>3. forest[c].mass = r[c].mass /\ forest[c].internal = r[c].internal
        BY <2>2, <2>6 DEF Kept, Now
      <4> QED BY <4>2, <4>3
    <3>3. M[c] \in Int /\ E[c] \in Int
      <4>1. r[c].mass = forest[c].mass /\ forest[c].mass \in Int
        <5>1. Mass(c) \in Nat \ {0}
          BY <2>5, <2>6, MassOfChildren DEF Inv, ShapeInv, Levelled
        <5> QED BY <2>3, <2>4, <2>6, <5>1
      <4> QED BY <2>3, <3>2, <4>1
    <3> HIDE DEF M, E, D, r
    <3> QED BY <2>1, <3>1, <3>2, <3>3, SumOfOne
  <2>7. CASE c \notin Now
    <3>1. /\ c.level \in MinLevel..MaxLevel /\ c.level < MaxLevel /\ c.level < Depth
          /\ D = Children(c)
      BY <2>7, DividedInFour, Levels
    <3>2. ASSUME NEW k \in 1..4
          PROVE  /\ Child(c, k) \in D
                 /\ M[Child(c, k)] = Mass(Child(c, k)) /\ M[Child(c, k)] \in Int
                 /\ E[Child(c, k)] = (r[c].internal * Mass(Child(c, k))) \div Mass(c)
                 /\ E[Child(c, k)] \in Int
      <4>1. Child(c, k) \in D
        BY <3>1 DEF Children
      <4>2. M[Child(c, k)] = forest[Child(c, k)].mass /\ E[Child(c, k)] = forest[Child(c, k)].internal
        BY <4>1
      <4>3. Mass(Child(c, k)) \in Nat \ {0}
        BY <2>5, <3>1, MassOfChildren
      <4>4. forest[Child(c, k)].internal = Parts(c, r[c])[k].internal
        BY <2>2, <4>1 DEF Divided, Now
      <4>5. Parts(c, r[c])[k].internal = (r[c].internal * Mass(Child(c, k))) \div Mass(c)
        BY <2>3, <3>1, Levels DEF Parts
      <4> QED BY <2>4, <4>1, <4>2, <4>3, <4>4, <4>5
    <3>3. 1 \in 1..4 /\ 2 \in 1..4 /\ 3 \in 1..4 /\ 4 \in 1..4
      OBVIOUS
    <3>4. /\ SumOver(M, D) = M[Child(c, 1)] + M[Child(c, 2)] + M[Child(c, 3)] + M[Child(c, 4)]
          /\ SumOver(E, D) = E[Child(c, 1)] + E[Child(c, 2)] + E[Child(c, 3)] + E[Child(c, 4)]
      <4>1. \A k \in 1..4 : M[Child(c, k)] \in Int /\ E[Child(c, k)] \in Int
        BY <3>2
      <4> HIDE DEF M, E, D
      <4> QED BY <2>5, <3>1, <4>1, SumOfFamily
    <3>5. SumOver(M, D) = r[c].mass
      <4>1. Mass(c) = Mass(Child(c, 1)) + Mass(Child(c, 2)) + Mass(Child(c, 3)) + Mass(Child(c, 4))
        BY <2>5, <3>1, MassOfChildren
      <4> HIDE DEF M, E, D, r
      <4> QED BY <2>3, <3>2, <3>3, <3>4, <4>1
    <3>6. SumOver(E, D) = r[c].internal
      <4> DEFINE share(k) == (r[c].internal * Mass(Child(c, k))) \div Mass(c)
      <4>1. r[c].internal = share(1) + share(2) + share(3) + share(4)
        <5>1. \A e \in Within[c] : (r[c].internal * Mass(e)) % Mass(c) = 0
          BY <2>2 DEF WholeInternals
        <5> HIDE DEF r
        <5> QED BY <2>3, <2>5, <3>1, <5>1, SharesOfLeaf
      <4>2. \A k \in 1..4 : E[Child(c, k)] = share(k)
        BY <3>2
      <4> HIDE DEF M, E, D, r, share
      <4> QED BY <3>3, <3>4, <4>1, <4>2
    <3> QED BY <2>1, <3>5, <3>6
  <2> QED BY <2>6, <2>7
<1> QED BY <1>1, <1>2, <1>3, <1>4, Invariance, PartsFollow, PTL DEF Spec
=============================================================================
