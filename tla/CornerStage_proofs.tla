------------------------- MODULE CornerStage_proofs -------------------------
(***************************************************************************)
(* What holds in every stage of CornerStage, for every balanced forest,    *)
(* gas, boundary and time step: types, the two boundary halves of a point, *)
(* the walls, the local masters, the energies and the mesh.  Residues      *)
(* first, then what each action makes of the geometry, then the            *)
(* invariants.                                                             *)
(***************************************************************************)
EXTENDS CornerStage, PartitionedForest_proofs
-----------------------------------------------------------------------------
(* Residues. *)

\* What differs by a multiple of Modulus has one residue.
LEMMA SameResidue ==
  ASSUME NEW x \in Int, NEW y \in Int, NEW k \in Int, x = y + Modulus * k
  PROVE  x % Modulus = y % Modulus
BY DEF Modulus

\* Every integer is its residue and a multiple of Modulus.
LEMMA ResidueOf ==
  ASSUME NEW x \in Int
  PROVE  x % Modulus \in Residue /\ \E k \in Int : x = (x % Modulus) + Modulus * k
<1>1. Modulus \in Nat \ {0}
  BY DEF Modulus
<1>2. x % Modulus \in 0..(Modulus - 1) /\ x \div Modulus \in Int
  BY <1>1
<1>3. x = (x % Modulus) + Modulus * (x \div Modulus)
  BY <1>1
<1>4. x % Modulus \in Residue
  BY <1>2 DEF Residue
<1> QED BY <1>2, <1>3, <1>4

\* A residue is an integer.
LEMMA ResidueIsInt ==
  ASSUME NEW a \in Residue
  PROVE  a \in Int
BY DEF Residue, Modulus

\* A residue is its own residue.
LEMMA ResidueIsNumber == Residue \subseteq Int /\ \A x \in Residue : x % Modulus = x
BY DEF Residue, Modulus

\* The residue of a sum or product is that of the sum or product of residues.
LEMMA ResidueOfSum ==
  ASSUME NEW x \in Int, NEW y \in Int
  PROVE  /\ ((x % Modulus) + y) % Modulus = (x + y) % Modulus
         /\ (x + (y % Modulus)) % Modulus = (x + y) % Modulus
         /\ ((x % Modulus) + (y % Modulus)) % Modulus = (x + y) % Modulus
         /\ ((x % Modulus) - y) % Modulus = (x - y) % Modulus
         /\ (x - (y % Modulus)) % Modulus = (x - y) % Modulus
         /\ ((x % Modulus) - (y % Modulus)) % Modulus = (x - y) % Modulus
BY DEF Modulus

\* The residue of a product is that of the product of residues.
LEMMA ResidueOfProduct ==
  ASSUME NEW x \in Int, NEW y \in Int
  PROVE  /\ ((x % Modulus) * y) % Modulus = (x * y) % Modulus
         /\ (x * (y % Modulus)) % Modulus = (x * y) % Modulus
         /\ ((x % Modulus) * (y % Modulus)) % Modulus = (x * y) % Modulus
<1> DEFINE u == x % Modulus
           v == y % Modulus
<1>1. PICK k \in Int : x = u + Modulus * k
  BY ResidueOf
<1>2. PICK l \in Int : y = v + Modulus * l
  BY ResidueOf
<1>3. u \in Int /\ v \in Int /\ Modulus \in Int
  BY ResidueOf, ResidueIsNumber DEF Modulus
<1> HIDE DEF u, v, Modulus
<1>4. x * y = u * y + Modulus * (k * y) /\ k * y \in Int /\ u * y \in Int /\ x * y \in Int
  BY <1>1, <1>3
<1>5. x * y = x * v + Modulus * (l * x) /\ l * x \in Int /\ x * v \in Int
  BY <1>2, <1>3
<1>6. u * y = u * v + Modulus * (l * u) /\ l * u \in Int /\ u * v \in Int
  BY <1>2, <1>3
<1>7. (x * y) % Modulus = (u * y) % Modulus
  BY <1>4, SameResidue
<1>8. (x * y) % Modulus = (x * v) % Modulus
  BY <1>5, <1>4, SameResidue
<1>9. (u * y) % Modulus = (u * v) % Modulus
  BY <1>4, <1>6, SameResidue
<1> QED BY <1>7, <1>8, <1>9 DEF u, v

\* Sums, differences and products of residues.
LEMMA ResidueType ==
  ASSUME NEW a \in Int, NEW b \in Int
  PROVE  a \oplus b \in Residue /\ a \ominus b \in Residue /\ a \otimes b \in Residue
BY ResidueOf DEF \oplus, \ominus, \otimes

\* Two has a reciprocal.
LEMMA TwoHasHalf ==
  Reciprocal(2) \in Residue /\ (2 * Reciprocal(2)) % Modulus = 1
<1>1. 2 \in Residue /\ 2 # 0
  BY DEF Residue, Modulus
<1>2. Reciprocal(2) \in Residue /\ 2 \otimes Reciprocal(2) = 1
  BY <1>1, ReciprocalAssumption
<1> QED BY <1>2 DEF \otimes

\* Half is a product with the reciprocal of two.
LEMMA HalfIs ==
  ASSUME NEW x \in Int
  PROVE  Half(x) = (x * Reciprocal(2)) % Modulus /\ Half(x) \in Residue
<1>1. Reciprocal(2) \in Int
  BY TwoHasHalf, ResidueIsNumber
<1>2. x * Reciprocal(2) \in Int
  BY <1>1
<1> QED BY <1>2, ResidueOf DEF Half, \oslash, \otimes

\* Half of twice a number.
LEMMA HalfOfDouble ==
  ASSUME NEW x \in Int
  PROVE  Half(x + x) = x % Modulus /\ Half(x \oplus x) = x % Modulus
<1> DEFINE r == Reciprocal(2)
<1>1. r \in Int /\ (2 * r) % Modulus = 1
  BY TwoHasHalf, ResidueIsNumber
<1> HIDE DEF r
<1>2. (x + x) * r = x * (2 * r) /\ x * (2 * r) \in Int /\ 2 * r \in Int /\ (x + x) * r \in Int
  BY <1>1
<1>3. (x * (2 * r)) % Modulus = (x * ((2 * r) % Modulus)) % Modulus
  BY <1>2, ResidueOfProduct
<1>4. (x * ((2 * r) % Modulus)) % Modulus = x % Modulus
  BY <1>1
<1>5. ((x + x) * r) % Modulus = x % Modulus
  BY <1>2, <1>3, <1>4
<1>6. Half(x + x) = x % Modulus
  BY <1>5, HalfIs DEF r
<1>7. x \oplus x \in Int /\ x + x \in Int
  <2>1. x \oplus x \in Residue
    BY ResidueType
  <2>2. x \oplus x \in Int
    BY <2>1, ResidueIsInt
  <2> QED BY <2>2
<1>8. Half(x \oplus x) = ((x \oplus x) * r) % Modulus
  BY <1>7, HalfIs DEF r
<1>9. ((x \oplus x) * r) % Modulus = ((x + x) * r) % Modulus
  BY <1>1, <1>7, ResidueOfProduct DEF \oplus
<1>10. Half(x \oplus x) = x % Modulus
  BY <1>8, <1>9, <1>5
<1> QED BY <1>6, <1>10

\* Two is no divisor of zero.
LEMMA DoubleOfNone ==
  ASSUME NEW x \in Int, (x + x) % Modulus = 0
  PROVE  x % Modulus = 0
BY DEF Modulus

-----------------------------------------------------------------------------
(* Pairs. *)

\* A member of a product is the pair of its parts.
LEMMA PairIs ==
  ASSUME NEW S, NEW T, NEW u \in S \X T
  PROVE  u = <<u[1], u[2]>> /\ u[1] \in S /\ u[2] \in T /\ DOMAIN u = {1, 2}
BY 1..2 = {1, 2}

\* A function of 1 and 2 is a pair.
LEMMA PairByParts ==
  ASSUME NEW f, f = [i \in {1, 2} |-> f[i]]
  PROVE  f = <<f[1], f[2]>>
<1>1. <<f[1], f[2]>> = [i \in 1..2 |-> IF i = 1 THEN f[1] ELSE f[2]]
  OBVIOUS
<1>2. 1..2 = {1, 2}
  OBVIOUS
<1> QED BY <1>1, <1>2

\* The sum of pairs, by parts.
LEMMA PlusOfPairs ==
  ASSUME NEW u, DOMAIN u = {1, 2}, NEW v
  PROVE  Plus(u, v) = <<u[1] \oplus v[1], u[2] \oplus v[2]>>
<1> DEFINE f == Plus(u, v)
<1>1. f = [i \in {1, 2} |-> f[i]] /\ f[1] = u[1] \oplus v[1] /\ f[2] = u[2] \oplus v[2]
  BY DEF Plus
<1> HIDE DEF f
<1> QED BY <1>1, PairByParts DEF f

\* The difference of pairs, by parts.
LEMMA MinusOfPairs ==
  ASSUME NEW u, DOMAIN u = {1, 2}, NEW v
  PROVE  Minus(u, v) = <<u[1] \ominus v[1], u[2] \ominus v[2]>>
<1> DEFINE f == Minus(u, v)
<1>1. f = [i \in {1, 2} |-> f[i]] /\ f[1] = u[1] \ominus v[1] /\ f[2] = u[2] \ominus v[2]
  BY DEF Minus
<1> HIDE DEF f
<1> QED BY <1>1, PairByParts DEF f

\* The multiple of a pair, by parts.
LEMMA ScaledPair ==
  ASSUME NEW u, DOMAIN u = {1, 2}, NEW a
  PROVE  Scaled(a, u) = <<a \otimes u[1], a \otimes u[2]>>
<1> DEFINE f == Scaled(a, u)
<1>1. f = [i \in {1, 2} |-> f[i]] /\ f[1] = a \otimes u[1] /\ f[2] = a \otimes u[2]
  BY DEF Scaled
<1> HIDE DEF f
<1> QED BY <1>1, PairByParts DEF f

-----------------------------------------------------------------------------
(* Half edges and faces. *)

\* The face a half edge is part of.
FaceOf == [LEFTBOTTOM  |-> [plus |-> "LEFT", minus |-> "BOTTOM"],
           LEFTUP      |-> [plus |-> "UP", minus |-> "LEFT"],
           RIGHTUP     |-> [plus |-> "RIGHT", minus |-> "UP"],
           RIGHTBOTTOM |-> [plus |-> "BOTTOM", minus |-> "RIGHT"]]
Outward == [LEFT |-> <<0 \ominus 1, 0>>, RIGHT |-> <<1, 0>>,
            BOTTOM |-> <<0, 0 \ominus 1>>, UP |-> <<0, 1>>]

\* A half edge lies on a face.
LEMMA FaceOfType ==
  ASSUME NEW k \in Corner, NEW s \in Sides
  PROVE  FaceOf[k][s] \in Face
BY DEF FaceOf, Corner, Sides, Face

\* The half edges that the two tables name for a face are those that lie on it.
LEMMA HalvesOfFace ==
  ASSUME NEW f \in Face
  PROVE  /\ LowEnd[f] \in Corner /\ HighEnd[f] \in Corner /\ LowEnd[f] # HighEnd[f]
         /\ LowHalf[f] \in Sides /\ OtherHalf[LowHalf[f]] \in Sides
         /\ FaceOf[LowEnd[f]][LowHalf[f]] = f
         /\ FaceOf[HighEnd[f]][OtherHalf[LowHalf[f]]] = f
BY DEF FaceOf, Corner, Sides, Face, LowEnd, HighEnd, LowHalf, OtherHalf

\* A half edge is one of the two of its face, and of no other face.
LEMMA FaceOfHalf ==
  ASSUME NEW k \in Corner, NEW s \in Sides, NEW f \in Face
  PROVE  <<k, s>> \in HalvesOf(f) <=> f = FaceOf[k][s]
<1>1. CASE f = "LEFT"
  BY <1>1 DEF FaceOf, Corner, Sides, HalvesOf
<1>2. CASE f = "RIGHT"
  BY <1>2 DEF FaceOf, Corner, Sides, LowEnd, HighEnd, LowHalf, OtherHalf, HalvesOf
<1>3. CASE f = "BOTTOM"
  BY <1>3 DEF FaceOf, Corner, Sides, LowEnd, HighEnd, LowHalf, OtherHalf, HalvesOf
<1>4. CASE f = "UP"
  BY <1>4 DEF FaceOf, Corner, Sides, LowEnd, HighEnd, LowHalf, OtherHalf, HalvesOf
<1> QED BY <1>1, <1>2, <1>3, <1>4 DEF Face

\* In terms of the face's ends.
LEMMA HalfOfFace ==
  ASSUME NEW k \in Corner, NEW s \in Sides, NEW f \in Face
  PROVE  (\/ k = LowEnd[f] /\ s = LowHalf[f]
          \/ k = HighEnd[f] /\ s = OtherHalf[LowHalf[f]]) <=> f = FaceOf[k][s]
<1>1. CASE f = "LEFT"
  BY <1>1 DEF FaceOf, Corner, Sides, LowEnd, HighEnd, LowHalf, OtherHalf
<1>2. CASE f = "RIGHT"
  BY <1>2 DEF FaceOf, Corner, Sides, LowEnd, HighEnd, LowHalf, OtherHalf
<1>3. CASE f = "BOTTOM"
  BY <1>3 DEF FaceOf, Corner, Sides, LowEnd, HighEnd, LowHalf, OtherHalf
<1>4. CASE f = "UP"
  BY <1>4 DEF FaceOf, Corner, Sides, LowEnd, HighEnd, LowHalf, OtherHalf
<1> QED BY <1>1, <1>2, <1>3, <1>4 DEF Face

\* The boundary of a half edge is that of its face.
LEMMA BoundaryOfIs ==
  ASSUME NEW c, NEW k \in Corner, NEW s \in Sides
  PROVE  BoundaryOf(c, k, s)
           = IF AtBoundary(c, FaceOf[k][s]) THEN boundary[FaceOf[k][s]] ELSE "inner"
<1> DEFINE g == FaceOf[k][s]
           at(f) == AtBoundary(c, f) /\ <<k, s>> \in HalvesOf(f)
<1>1. g \in Face
  BY FaceOfType
<1>2. \A f \in Face : at(f) <=> AtBoundary(c, g) /\ f = g
  BY FaceOfHalf
<1>3. BoundaryOf(c, k, s)
        = IF \E f \in Face : at(f) THEN boundary[CHOOSE f \in Face : at(f)] ELSE "inner"
  BY DEF BoundaryOf
<1> HIDE DEF g, at
<1>4. CASE AtBoundary(c, g)
  <2>1. (CHOOSE f \in Face : at(f)) = g
    BY <1>1, <1>2, <1>4
  <2> QED BY <1>1, <1>2, <1>3, <1>4, <2>1 DEF g
<1>5. CASE ~ AtBoundary(c, g)
  BY <1>2, <1>3, <1>5 DEF g
<1> QED BY <1>4, <1>5

\* The ends of a half edge's face, in the order of the corners.
LEMMA EndsOfHalf ==
  ASSUME NEW c, c.x \in Int, c.y \in Int, Side(c) \in Nat \ {0},
         NEW k \in Corner, NEW s \in Sides,
         NEW p, p = Point(c, IF s = "plus" THEN k ELSE Before(k)),
         NEW q, q = Point(c, IF s = "plus" THEN Following[k] ELSE k)
  PROVE  Distance(p, q) = Side(c) /\ Normal(p, q) = Outward[FaceOf[k][s]]
<1>1. /\ Before("LEFTBOTTOM") = "RIGHTBOTTOM" /\ Before("LEFTUP") = "LEFTBOTTOM"
      /\ Before("RIGHTUP") = "LEFTUP" /\ Before("RIGHTBOTTOM") = "RIGHTUP"
  BY DEF Before, Following, Corner
<1> DEFINE a == IF s = "plus" THEN k ELSE Before(k)
           b == IF s = "plus" THEN Following[k] ELSE k
           f == FaceOf[k][s]
<1>2. \/ a = "LEFTBOTTOM" /\ b = "LEFTUP" /\ f = "LEFT"
      \/ a = "LEFTUP" /\ b = "RIGHTUP" /\ f = "UP"
      \/ a = "RIGHTUP" /\ b = "RIGHTBOTTOM" /\ f = "RIGHT"
      \/ a = "RIGHTBOTTOM" /\ b = "LEFTBOTTOM" /\ f = "BOTTOM"
  BY <1>1 DEF Following, FaceOf, Corner, Sides
<1>3. p = Point(c, a) /\ q = Point(c, b)
  OBVIOUS
<1> HIDE DEF a, b, f
<1>4. CASE a = "LEFTBOTTOM" /\ b = "LEFTUP" /\ f = "LEFT"
  BY <1>3, <1>4 DEF Point, Distance, Abs, Normal, Unit, Outward, f
<1>5. CASE a = "LEFTUP" /\ b = "RIGHTUP" /\ f = "UP"
  BY <1>3, <1>5 DEF Point, Distance, Abs, Normal, Unit, Outward, f
<1>6. CASE a = "RIGHTUP" /\ b = "RIGHTBOTTOM" /\ f = "RIGHT"
  BY <1>3, <1>6 DEF Point, Distance, Abs, Normal, Unit, Outward, f
<1>7. CASE a = "RIGHTBOTTOM" /\ b = "LEFTBOTTOM" /\ f = "BOTTOM"
  BY <1>3, <1>7 DEF Point, Distance, Abs, Normal, Unit, Outward, f
<1> QED BY <1>2, <1>4, <1>5, <1>6, <1>7

\* Normals are vectors.
LEMMA OutwardType ==
  ASSUME NEW f \in Face
  PROVE  /\ Outward[f] \in Vector
         /\ Minus(Zero, Outward[Opposite[f]]) = Outward[f]
         /\ Outward[f][Across2(f)] # 0 /\ Outward[f][3 - Across2(f)] = 0
<1> DEFINE m == 0 \ominus 1
<1>1. m = 46336 /\ 0 \ominus m = 1 /\ 0 \ominus 0 = 0 /\ 46336 \in Residue /\ 0 \in Residue /\ 1 \in Residue
  <2>1. Modulus = 46337 /\ 0 \in Residue /\ 1 \in Residue /\ 46336 \in Residue
    BY DEF Modulus, Residue
  <2>2. /\ 0 - 1 = 46336 + Modulus * (-1) /\ 0 - 46336 = 1 + Modulus * (-1)
        /\ Modulus \in Int
    BY <2>1
  <2>3. 0 - 1 \in Int /\ 0 - 46336 \in Int /\ 0 - 0 = 0 /\ -1 \in Int /\ 46336 \in Int /\ 1 \in Int
    OBVIOUS
  <2> HIDE DEF m
  <2>4. (0 - 1) % Modulus = 46336 % Modulus
    BY <2>2, <2>3, SameResidue
  <2>5. (0 - 46336) % Modulus = 1 % Modulus
    BY <2>2, <2>3, SameResidue
  <2>6. 46336 % Modulus = 46336 /\ 1 % Modulus = 1 /\ 0 % Modulus = 0
    BY <2>1, ResidueIsNumber
  <2>7. m = (0 - 1) % Modulus
    BY DEF m, \ominus
  <2>8. 0 \ominus 46336 = 1 /\ 0 \ominus 0 = 0
    BY <2>3, <2>5, <2>6 DEF \ominus
  <2> QED BY <2>1, <2>4, <2>6, <2>7, <2>8
<1>2. 0 \in Residue /\ 1 \in Residue /\ m \in Residue /\ m # 0
  BY <1>1
<1>9. 0 \ominus 1 = m
  OBVIOUS
<1> HIDE DEF m
<1>3. /\ Outward["LEFT"] = <<m, 0>> /\ Outward["RIGHT"] = <<1, 0>>
      /\ Outward["BOTTOM"] = <<0, m>> /\ Outward["UP"] = <<0, 1>>
  BY DEF Outward, m
<1>4. Outward[f] \in Vector
  BY <1>2, <1>3 DEF Vector, Face
<1>5. \A g \in Face : Minus(Zero, Outward[g]) = <<0 \ominus Outward[g][1], 0 \ominus Outward[g][2]>>
  <2>1. DOMAIN Zero = {1, 2} /\ Zero[1] = 0 /\ Zero[2] = 0
    BY DEF Zero
  <2> QED BY <2>1, MinusOfPairs
<1>6. Opposite[f] \in Face
  BY DEF Opposite, Face
<1>7. Minus(Zero, Outward[Opposite[f]]) = Outward[f]
  BY <1>1, <1>3, <1>5, <1>6, <1>9 DEF Face, Opposite
<1>8. Outward[f][Across2(f)] # 0 /\ Outward[f][3 - Across2(f)] = 0
  BY <1>2, <1>3 DEF Face, Across2
<1> QED BY <1>4, <1>7, <1>8

-----------------------------------------------------------------------------
(* Vectors and matrices. *)

\* The parts of a vector.
LEMMA VectorParts ==
  ASSUME NEW u \in Vector
  PROVE  /\ u[1] \in Residue /\ u[2] \in Residue /\ u[1] \in Int /\ u[2] \in Int
         /\ DOMAIN u = {1, 2} /\ u = <<u[1], u[2]>>
BY PairIs, ResidueIsInt DEF Vector

\* The parts of a matrix.
LEMMA MatrixParts ==
  ASSUME NEW m \in Matrix
  PROVE  /\ m[1] \in Residue /\ m[2] \in Residue /\ m[3] \in Residue /\ m[4] \in Residue
         /\ m[1] \in Int /\ m[2] \in Int /\ m[3] \in Int /\ m[4] \in Int
         /\ DOMAIN m = {1, 2, 3, 4} /\ m = <<m[1], m[2], m[3], m[4]>>
<1>1. /\ m[1] \in Residue /\ m[2] \in Residue /\ m[3] \in Residue /\ m[4] \in Residue
      /\ m = <<m[1], m[2], m[3], m[4]>>
  BY DEF Matrix
<1>2. DOMAIN m = 1..4
  BY DEF Matrix
<1>3. 1..4 = {1, 2, 3, 4}
  OBVIOUS
<1>4. /\ m[1] \in Int /\ m[2] \in Int /\ m[3] \in Int /\ m[4] \in Int
  BY <1>1, ResidueIsInt
<1> QED BY <1>1, <1>2, <1>3, <1>4

\* The vector and the matrix of zeros.
LEMMA ZeroType == Zero \in Vector /\ NoMatrix \in Matrix
<1>1. 0 \in Residue
  BY DEF Residue, Modulus
<1> QED BY <1>1 DEF Zero, NoMatrix, Vector, Matrix

\* A function of 1 to 4 is a tuple of four.
LEMMA QuadByParts ==
  ASSUME NEW f, f = [i \in {1, 2, 3, 4} |-> f[i]]
  PROVE  f = <<f[1], f[2], f[3], f[4]>>
<1>1. <<f[1], f[2], f[3], f[4]>> = [i \in 1..4 |-> f[i]]
  OBVIOUS
<1>2. 1..4 = {1, 2, 3, 4}
  OBVIOUS
<1> QED BY <1>1, <1>2

\* The sum of matrices, by parts.
LEMMA PlusOfQuads ==
  ASSUME NEW u, DOMAIN u = {1, 2, 3, 4}, NEW v
  PROVE  Plus(u, v) = <<u[1] \oplus v[1], u[2] \oplus v[2], u[3] \oplus v[3], u[4] \oplus v[4]>>
<1> DEFINE f == Plus(u, v)
<1>1. /\ f = [i \in {1, 2, 3, 4} |-> f[i]]
      /\ f[1] = u[1] \oplus v[1] /\ f[2] = u[2] \oplus v[2]
      /\ f[3] = u[3] \oplus v[3] /\ f[4] = u[4] \oplus v[4]
  BY DEF Plus
<1> HIDE DEF f
<1> QED BY <1>1, QuadByParts DEF f

\* The multiple of a matrix, by parts.
LEMMA ScaledQuad ==
  ASSUME NEW u, DOMAIN u = {1, 2, 3, 4}, NEW a
  PROVE  Scaled(a, u) = <<a \otimes u[1], a \otimes u[2], a \otimes u[3], a \otimes u[4]>>
<1> DEFINE f == Scaled(a, u)
<1>1. /\ f = [i \in {1, 2, 3, 4} |-> f[i]]
      /\ f[1] = a \otimes u[1] /\ f[2] = a \otimes u[2]
      /\ f[3] = a \otimes u[3] /\ f[4] = a \otimes u[4]
  BY DEF Scaled
<1> HIDE DEF f
<1> QED BY <1>1, QuadByParts DEF f

\* Sums, differences and multiples of vectors of any integers.
LEMMA VectorType ==
  ASSUME NEW u \in Int \X Int, NEW v \in Int \X Int, NEW a \in Int
  PROVE  /\ Plus(u, v) \in Vector /\ Minus(u, v) \in Vector /\ Scaled(a, u) \in Vector
         /\ Dot(u, v) \in Residue /\ Cross2(u, v) \in Residue
         /\ DyadicProduct(u, v) \in Matrix
<1>1. /\ DOMAIN u = {1, 2} /\ DOMAIN v = {1, 2}
      /\ u[1] \in Int /\ u[2] \in Int /\ v[1] \in Int /\ v[2] \in Int
  BY PairIs
<1>2. Plus(u, v) \in Vector
  <2>1. u[1] \oplus v[1] \in Residue /\ u[2] \oplus v[2] \in Residue
    BY <1>1, ResidueType
  <2> QED BY <1>1, <2>1, PlusOfPairs DEF Vector
<1>3. Minus(u, v) \in Vector
  <2>1. u[1] \ominus v[1] \in Residue /\ u[2] \ominus v[2] \in Residue
    BY <1>1, ResidueType
  <2> QED BY <1>1, <2>1, MinusOfPairs DEF Vector
<1>4. Scaled(a, u) \in Vector
  <2>1. a \otimes u[1] \in Residue /\ a \otimes u[2] \in Residue
    BY <1>1, ResidueType
  <2> QED BY <1>1, <2>1, ScaledPair DEF Vector
<1>5. /\ u[1] \otimes v[1] \in Residue /\ u[1] \otimes v[2] \in Residue
      /\ u[2] \otimes v[1] \in Residue /\ u[2] \otimes v[2] \in Residue
  BY <1>1, ResidueType
<1>6. /\ u[1] \otimes v[1] \in Int /\ u[1] \otimes v[2] \in Int
      /\ u[2] \otimes v[1] \in Int /\ u[2] \otimes v[2] \in Int
  BY <1>5, ResidueIsInt
<1>7. Dot(u, v) \in Residue
  BY <1>6, ResidueType DEF Dot
<1>8. Cross2(u, v) \in Residue
  BY <1>6, ResidueType DEF Cross2
<1>9. DyadicProduct(u, v) \in Matrix
  BY <1>5 DEF DyadicProduct, Matrix
<1> QED BY <1>2, <1>3, <1>4, <1>7, <1>8, <1>9

\* Vectors are pairs of integers.
LEMMA VectorIsPair == Vector \subseteq Int \X Int
BY ResidueIsInt DEF Vector

\* Half of an integer is a residue.
LEMMA HalfType == ASSUME NEW x \in Int PROVE Half(x) \in Residue
BY HalfIs

\* The middle of two vectors is a vector.
LEMMA MiddleType ==
  ASSUME NEW u \in Int \X Int, NEW v \in Int \X Int
  PROVE  Middle(u, v) \in Vector
<1>1. Half(1) \in Int
  BY HalfType, ResidueIsInt
<1>2. Plus(u, v) \in Int \X Int
  BY VectorType, VectorIsPair
<1> QED BY <1>1, <1>2, VectorType DEF Middle

\* Sums and multiples of matrices are matrices.
LEMMA MatrixType ==
  ASSUME NEW m \in Matrix, NEW n \in Matrix, NEW a \in Int
  PROVE  Plus(m, n) \in Matrix /\ Scaled(a, m) \in Matrix
<1>1. /\ DOMAIN m = {1, 2, 3, 4} /\ DOMAIN n = {1, 2, 3, 4}
      /\ m[1] \in Int /\ m[2] \in Int /\ m[3] \in Int /\ m[4] \in Int
      /\ n[1] \in Int /\ n[2] \in Int /\ n[3] \in Int /\ n[4] \in Int
  BY MatrixParts
<1>2. Plus(m, n) \in Matrix
  <2>1. /\ m[1] \oplus n[1] \in Residue /\ m[2] \oplus n[2] \in Residue
        /\ m[3] \oplus n[3] \in Residue /\ m[4] \oplus n[4] \in Residue
    BY <1>1, ResidueType
  <2> QED BY <1>1, <2>1, PlusOfQuads DEF Matrix
<1>3. Scaled(a, m) \in Matrix
  <2>1. /\ a \otimes m[1] \in Residue /\ a \otimes m[2] \in Residue
        /\ a \otimes m[3] \in Residue /\ a \otimes m[4] \in Residue
    BY <1>1, ResidueType
  <2> QED BY <1>1, <2>1, ScaledQuad DEF Matrix
<1> QED BY <1>2, <1>3

\* A matrix times a vector is a vector.
LEMMA ProductType ==
  ASSUME NEW m \in Matrix, NEW u \in Int \X Int
  PROVE  MatrixDotVector(m, u) \in Vector
<1>1. /\ u[1] \in Int /\ u[2] \in Int
      /\ m[1] \in Int /\ m[2] \in Int /\ m[3] \in Int /\ m[4] \in Int
  BY MatrixParts, PairIs
<1>2. /\ m[1] \otimes u[1] \in Int /\ m[2] \otimes u[2] \in Int
      /\ m[3] \otimes u[1] \in Int /\ m[4] \otimes u[2] \in Int
  BY <1>1, ResidueType, ResidueIsInt
<1>3. /\ (m[1] \otimes u[1]) \oplus (m[2] \otimes u[2]) \in Residue
      /\ (m[3] \otimes u[1]) \oplus (m[4] \otimes u[2]) \in Residue
  BY <1>2, ResidueType
<1> QED BY <1>3 DEF MatrixDotVector, Vector

\* Reciprocals of residues are numbers.
LEMMA ReciprocalType == ASSUME NEW a \in Residue PROVE Reciprocal(a) \in Int
BY ReciprocalAssumption, ResidueIsInt

\* A quotient by a residue is a residue.
LEMMA QuotientType ==
  ASSUME NEW a \in Int, NEW b \in Residue
  PROVE  a \oslash b \in Residue
BY ReciprocalType, ResidueType DEF \oslash

\* The inverse of a matrix is a matrix, a singular one's included.
LEMMA InverseType ==
  ASSUME NEW m \in Matrix
  PROVE  MatrixInverse(m) \in Matrix
<1> DEFINE factor == (m[1] \otimes m[4]) \ominus (m[2] \otimes m[3])
           n == <<m[4], 0 \ominus m[2], 0 \ominus m[3], m[1]>>
<1>1. /\ m[1] \in Int /\ m[2] \in Int /\ m[3] \in Int /\ m[4] \in Int
      /\ m[1] \in Residue /\ m[4] \in Residue
  BY MatrixParts
<1>2. m[1] \otimes m[4] \in Int /\ m[2] \otimes m[3] \in Int
  BY <1>1, ResidueType, ResidueIsInt
<1>3. factor \in Residue
  BY <1>2, ResidueType
<1>4. 0 \ominus m[2] \in Residue /\ 0 \ominus m[3] \in Residue
  BY <1>1, ResidueType
<1>5. n \in Matrix
  BY <1>1, <1>4 DEF Matrix
<1>6. MatrixInverse(m) = IF factor = 0 THEN NoMatrix ELSE Scaled(Reciprocal(factor), n)
  BY DEF MatrixInverse
<1> HIDE DEF factor, n
<1>7. Scaled(Reciprocal(factor), n) \in Matrix
  BY <1>3, <1>5, ReciprocalType, MatrixType
<1> QED BY <1>6, <1>7, ZeroType

\* A sum over a finite set.
LEMMA TotalIs ==
  ASSUME NEW F, NEW S, DOMAIN F = S, IsFiniteSet(S), \A x \in S : F[x] \in Int
  PROVE  /\ SumFunction(F) = SumOver(F, S) /\ SumOver(F, S) \in Int
         /\ SumFunction(F) % Modulus \in Residue
<1>1. SumFunction(F) = SumOver(F, S)
  BY SumFunctionIs
<1>2. SumOver(F, S) \in Int
  BY SumStep
<1> QED BY <1>1, <1>2, ResidueOf

-----------------------------------------------------------------------------
(* The types of the variables. *)

Phases == {"boundary", "geometry", "amr", "master", "corners", "points", "velocity",
           "edges", "hanging", "forces", "coordinates", "density", "momentum",
           "accept", "accepted"}
GasState == [density : Residue, pressure : Residue, velocity : Vector,
             internal : Residue, total : Residue]
CellRecord == [mass : Residue, sound : Residue, cur : GasState, lag : GasState]
NodeRecord == [cur : Int \X Int, lag : Int \X Int, velocity : Vector,
               matrix : Matrix, rhs : Vector, force : Vector, flux : Vector]
HalfRecord == [boundary : {"unset", "inner", "wall", "free"}, length : Residue,
               normal : Vector]
PointRecord == [matrix : Matrix, rhs : Vector,
                bouns : {<<>>} \cup (HalfRecord \X HalfRecord)]
EdgeRecord == [lengths : Residue \X Residue, normals : Vector \X Vector,
               velocity : Vector, matrix : Matrix, rhs : Vector, force : Vector,
               flux : Vector]
MirrorRecord == [matrix : Matrix, rhs : Vector]

SettingOK == forest \in BalancedForests /\ boundary \in [Face -> BoundaryType] /\ solver \in Solvers
CellOK == cell \in [forest -> CellRecord]
NodeOK == node \in [forest -> [Corner -> NodeRecord]]
HalfOK == half \in [forest -> [Corner -> [Sides -> HalfRecord]]]
PointOK == point \in [forest -> [Corner -> PointRecord]]
EdgeOK == edge \in [Hanging -> EdgeRecord]
MirrorOK == mirror \in [forest -> [Corner -> MirrorRecord]]
TypeOK ==
  /\ SettingOK /\ CellOK /\ NodeOK /\ HalfOK /\ PointOK /\ EdgeOK /\ MirrorOK
  /\ phase \in Phases

\* The half edges of a face, once the boundary and the geometry are known.
Bound(c, f) == IF AtBoundary(c, f) THEN boundary[f] ELSE "inner"
HalfSideOf(c) == PowerOfTwo[Depth - c.level - 1]
LengthOf(c, f) == Half(IF Divided(c, f) THEN HalfSideOf(c) ELSE Side(c))
HalfIn(c, f, l) == [boundary |-> Bound(c, f), length |-> l, normal |-> Outward[f]]
Early == {"boundary", "geometry", "amr"}
HalvesInv ==
  /\ phase \in Early => \A c \in forest : \A k \in Corner : node[c][k].cur = Point(c, k)
  /\ phase = "geometry" =>
       \A c \in forest : \A k \in Corner : \A s \in Sides :
         half[c][k][s].boundary = Bound(c, FaceOf[k][s])
  /\ phase = "amr" =>
       \A c \in forest : \A k \in Corner : \A s \in Sides :
         half[c][k][s] = HalfIn(c, FaceOf[k][s], Half(Side(c)))
  /\ phase \notin Early =>
       /\ \A c \in forest : \A k \in Corner : \A s \in Sides :
            half[c][k][s] = HalfIn(c, FaceOf[k][s], LengthOf(c, FaceOf[k][s]))
       /\ \A h \in Hanging :
            /\ edge[h].lengths = <<Half(HalfSideOf(h.parent)), Half(HalfSideOf(h.parent))>>
            /\ edge[h].normals = <<Outward[h.face], Outward[h.face]>>

-----------------------------------------------------------------------------
(* The initial state. *)

\* Every square lies in a quarter of the domain, or holds one.
LEMMA SquareOfQuarter ==
  ASSUME NEW c \in Cells
  PROVE  QuarterOf(c) \in 1..4
<1> DEFINE d == Cell(0, 0, 0)
<1>1. PowerOfTwo[0] = 1 /\ Depth - 0 = Depth /\ Depth \in Nat /\ PowerOfTwo[Depth] \in Nat
  BY PowerOfTwoStep, PowerOfTwoType, DepthAssumption
<1>2. PowerOfTwo[Depth] * 0 = 0
  BY <1>1
<1>3. d \in LevelCells(0)
  <2>1. 0 \in 0..Depth /\ 0 \in 0..(PowerOfTwo[0] - 1)
    BY <1>1
  <2>2. Cell(0, PowerOfTwo[Depth - 0] * 0, PowerOfTwo[Depth - 0] * 0) \in LevelCells(0)
    BY <2>1, CellIs
  <2> QED BY <1>1, <1>2, <2>2
<1>4. d \in Cells /\ d.level = 0
  BY <1>3, <1>1, LevelCellsAreCells
<1>5. Overlap(c, d)
  <2>1. /\ c.x \in Nat /\ c.y \in Nat /\ Side(c) \in Nat \ {0}
        /\ c.x + Side(c) <= PowerOfTwo[Depth] /\ c.y + Side(c) <= PowerOfTwo[Depth]
    BY CellParts, CellInDomain
  <2>2. d.x = 0 /\ d.y = 0 /\ Side(d) = PowerOfTwo[Depth]
    BY <1>1 DEF Cell, Side
  <2> HIDE DEF d
  <2> QED BY <1>1, <2>1, <2>2 DEF Overlap, Cross
<1>6. PICK i \in 1..4 : Overlap(c, Child(d, i))
  BY <1>4, <1>5, QuartersAssumption, ChildrenFill
<1>7. Child(d, i) \in Cells
  BY <1>4, QuartersAssumption, ChildPlace
<1>8. Overlap(Child(d, i), c)
  BY <1>6, <1>7, OverlapOfSquares
<1> QED BY <1>8 DEF QuarterOf

\* Zero and one are residues.
LEMMA UnitType == Modulus \in Nat /\ 0 \in Residue /\ 1 \in Residue
BY DEF Residue, Modulus

\* What InitCondition sets is a state of a gas.
LEMMA StateType ==
  ASSUME NEW g, g.density \in Residue, g.sound \in Residue, g.velocity \in Vector
  PROVE  State(g) \in GasState
<1>1. Gamma \in Residue /\ Gamma \in Int /\ 1 \in Int
  <2>1. Gamma \in Residue
    BY NumbersAssumption, UnitType DEF Residue
  <2> QED BY <2>1, ResidueIsInt
<1>2. g.density \in Int /\ g.sound \in Int /\ g.velocity \in Int \X Int
  <2>1. g.density \in Int /\ g.sound \in Int
    BY ResidueIsInt
  <2> QED BY <2>1, VectorIsPair
<1>3. g.sound \otimes g.sound \in Int
  BY <1>2, ResidueType, ResidueIsInt
<1>4. g.density \otimes (g.sound \otimes g.sound) \in Int
  BY <1>2, <1>3, ResidueType, ResidueIsInt
<1>5. Pressure(g) \in Residue
  BY <1>1, <1>4, QuotientType DEF Pressure
<1>6. Gamma \ominus 1 \in Int
  BY <1>1, ResidueType, ResidueIsInt
<1>7. Gamma \otimes (Gamma \ominus 1) \in Residue
  BY <1>1, <1>6, ResidueType
<1>8. InternalEnergy(g) \in Residue
  BY <1>3, <1>7, QuotientType DEF InternalEnergy
<1>9. Kinetic(g.velocity) \in Residue
  <2>1. Dot(g.velocity, g.velocity) \in Int
    BY <1>2, VectorType, ResidueIsInt
  <2> QED BY <2>1, HalfType DEF Kinetic
<1>10. Kinetic(g.velocity) \oplus InternalEnergy(g) \in Residue
  BY <1>8, <1>9, ResidueType, ResidueIsInt
<1> QED BY <1>5, <1>8, <1>10 DEF State, GasState

\* The corners of squares are places.
LEMMA PointIsPlace ==
  ASSUME NEW c \in Cells, NEW k
  PROVE  Point(c, k) \in Int \X Int
BY CellParts DEF Point

\* The initial state.
LEMMA InitOK == Init => TypeOK /\ HalvesInv
<1> SUFFICES ASSUME Init PROVE TypeOK /\ HalvesInv
  OBVIOUS
<1>1. forest \in BalancedForests /\ forest \subseteq Cells /\ solver \in Solvers
  BY BalancedForest DEF Init
<1>2. PICK p \in Problems :
        /\ boundary = p.boundary
        /\ cell = [c \in forest |->
             LET g == p.gas[QuarterOf(c)]
             IN  [mass |-> g.density \otimes (Side(c) * Side(c)), sound |-> g.sound,
                  cur |-> State(g), lag |-> State(g)]]
  BY DEF Init
<1>3. SettingOK
  BY <1>1, <1>2, BoundariesAssumption DEF SettingOK
<1>4. CellOK
  <2>1. ASSUME NEW c \in forest
        PROVE  cell[c] \in CellRecord
    <3> DEFINE g == p.gas[QuarterOf(c)]
    <3>1. g.density \in 1..(Modulus - 1) /\ g.sound \in 1..(Modulus - 1) /\ g.velocity \in Vector
      <4>1. QuarterOf(c) \in 1..4
        BY <1>1, SquareOfQuarter
      <4>2. /\ {g.density, g.sound} \subseteq 1..(Modulus - 1)
            /\ g.velocity \in Vector
        BY <4>1, GasesAssumption
      <4> QED BY <4>2
    <3>2. cell[c] = [mass |-> g.density \otimes (Side(c) * Side(c)), sound |-> g.sound,
                     cur |-> State(g), lag |-> State(g)]
      BY <1>2
    <3> HIDE DEF g
    <3>3. g.density \in Residue /\ g.sound \in Residue
      BY <3>1, UnitType DEF Residue
    <3>4. State(g) \in GasState
      BY <3>1, <3>3, StateType
    <3>5. g.density \otimes (Side(c) * Side(c)) \in Residue
      <4>1. Side(c) \in Int /\ Side(c) * Side(c) \in Int
        BY <1>1, CellParts
      <4> QED BY <4>1, <3>3, ResidueType, ResidueIsInt
    <3> QED BY <3>2, <3>3, <3>4, <3>5 DEF CellRecord
  <2> QED BY <1>2, <2>1 DEF CellOK
<1>5. NodeOK
  <2>1. node = [c \in forest |-> [k \in Corner |->
               [cur |-> Point(c, k), lag |-> Point(c, k), velocity |-> Zero,
                matrix |-> NoMatrix, rhs |-> Zero, force |-> Zero, flux |-> Zero]]]
    BY DEF Init
  <2>2. \A c \in forest : \A k \in Corner :
          [cur |-> Point(c, k), lag |-> Point(c, k), velocity |-> Zero,
           matrix |-> NoMatrix, rhs |-> Zero, force |-> Zero, flux |-> Zero] \in NodeRecord
    BY <1>1, PointIsPlace, ZeroType DEF NodeRecord
  <2> QED BY <2>1, <2>2 DEF NodeOK
<1>6. HalfOK
  <2>1. half = [c \in forest |-> [k \in Corner |-> [s \in Sides |->
               [boundary |-> "unset", length |-> 0, normal |-> Zero]]]]
    BY DEF Init
  <2>2. [boundary |-> "unset", length |-> 0, normal |-> Zero] \in HalfRecord
    <3>1. 0 \in Residue
      BY DEF Residue, Modulus
    <3> QED BY <3>1, ZeroType DEF HalfRecord
  <2> QED BY <2>1, <2>2 DEF HalfOK
<1>7. PointOK
  <2>1. point = [c \in forest |-> [k \in Corner |->
                [matrix |-> NoMatrix, rhs |-> Zero, bouns |-> <<>>]]]
    BY DEF Init
  <2>2. [matrix |-> NoMatrix, rhs |-> Zero, bouns |-> <<>>] \in PointRecord
    BY ZeroType DEF PointRecord
  <2> QED BY <2>1, <2>2 DEF PointOK
<1>8. EdgeOK
  <2>1. edge = [h \in Hanging |->
               [lengths |-> <<0, 0>>, normals |-> <<Zero, Zero>>, velocity |-> Zero,
                matrix |-> NoMatrix, rhs |-> Zero, force |-> Zero, flux |-> Zero]]
    BY DEF Init
  <2>2. [lengths |-> <<0, 0>>, normals |-> <<Zero, Zero>>, velocity |-> Zero,
         matrix |-> NoMatrix, rhs |-> Zero, force |-> Zero, flux |-> Zero] \in EdgeRecord
    <3>1. 0 \in Residue
      BY DEF Residue, Modulus
    <3> QED BY <3>1, ZeroType DEF EdgeRecord
  <2> QED BY <2>1, <2>2 DEF EdgeOK
<1>9. MirrorOK
  <2>1. mirror = [c \in forest |-> [k \in Corner |-> [matrix |-> NoMatrix, rhs |-> Zero]]]
    BY DEF Init
  <2>2. [matrix |-> NoMatrix, rhs |-> Zero] \in MirrorRecord
    BY ZeroType DEF MirrorRecord
  <2> QED BY <2>1, <2>2 DEF MirrorOK
<1>10. phase = "boundary"
  BY DEF Init
<1>11. \A c \in forest : \A k \in Corner : node[c][k].cur = Point(c, k)
  BY DEF Init
<1> QED
  BY <1>3, <1>4, <1>5, <1>6, <1>7, <1>8, <1>9, <1>10, <1>11 DEF TypeOK, HalvesInv, Phases, Early

-----------------------------------------------------------------------------
(* The half edges. *)

\* What the geometry is computed from.
LEMMA Same ==
  ASSUME setting' = setting
  PROVE  /\ forest' = forest /\ boundary' = boundary /\ solver' = solver
         /\ Hanging' = Hanging /\ Corners' = Corners
         /\ SettingOK => SettingOK'
         /\ \A c, f : Bound(c, f)' = Bound(c, f) /\ LengthOf(c, f)' = LengthOf(c, f)
         /\ \A c, f, l : HalfIn(c, f, l)' = HalfIn(c, f, l)
         /\ \A c, k : HangsAt(c, k)' = HangsAt(c, k) /\ Regular(c, k)' = Regular(c, k)
<1>1. forest' = forest /\ boundary' = boundary /\ solver' = solver
  BY DEF setting
<1>2. Hanging' = Hanging /\ Corners' = Corners
  BY <1>1 DEF Hanging, Corners
<1>3. SettingOK => SettingOK'
  BY <1>1 DEF SettingOK
<1>4. \A c, f : Bound(c, f)' = Bound(c, f)
  BY <1>1 DEF Bound
<1>5. \A c, f : LengthOf(c, f)' = LengthOf(c, f)
  BY <1>2 DEF LengthOf, Divided
<1>6. \A c, f, l : HalfIn(c, f, l)' = HalfIn(c, f, l)
  BY <1>4 DEF HalfIn
<1>7. \A c, k : HangsAt(c, k)' = HangsAt(c, k)
  BY <1>1 DEF HangsAt
<1>8. \A c, k : Regular(c, k)' = Regular(c, k)
  BY <1>7 DEF Regular
<1> QED BY <1>1, <1>2, <1>3, <1>4, <1>5, <1>6, <1>7, <1>8

\* What a face is to the solver.
LEMMA BoundType ==
  ASSUME SettingOK, NEW c, NEW f \in Face
  PROVE  Bound(c, f) \in {"inner", "wall", "free"}
BY DEF SettingOK, Bound, BoundaryType

\* A variable that depends on one action keeps its type when it stays.
LEMMA TypeStays ==
  ASSUME setting' = setting
  PROVE  /\ CellOK /\ cell' = cell => CellOK'
         /\ NodeOK /\ node' = node => NodeOK'
         /\ HalfOK /\ half' = half => HalfOK'
         /\ PointOK /\ point' = point => PointOK'
         /\ EdgeOK /\ edge' = edge => EdgeOK'
         /\ MirrorOK /\ mirror' = mirror => MirrorOK'
<1>1. forest' = forest /\ Hanging' = Hanging
  BY Same
<1> QED BY <1>1 DEF CellOK, NodeOK, HalfOK, PointOK, EdgeOK, MirrorOK

\* stage_phase_boundary.
LEMMA GetBoundaryOK ==
  ASSUME TypeOK, HalvesInv, GetBoundary
  PROVE  TypeOK' /\ HalvesInv'
<1>1. /\ phase = "boundary" /\ phase' = "geometry" /\ setting' = setting
      /\ cell' = cell /\ node' = node /\ point' = point /\ edge' = edge /\ mirror' = mirror
      /\ half' = [c \in forest |-> [k \in Corner |-> [s \in Sides |->
                   [half[c][k][s] EXCEPT !.boundary = BoundaryOf(c, k, s)]]]]
  BY DEF GetBoundary, Step
<1>2. forest' = forest
  BY <1>1, Same
<1>3. ASSUME NEW c \in forest, NEW k \in Corner, NEW s \in Sides
      PROVE  /\ half'[c][k][s] \in HalfRecord
             /\ half'[c][k][s].boundary = Bound(c, FaceOf[k][s])
  <2>1. half[c][k][s] \in HalfRecord
    BY DEF TypeOK, HalfOK
  <2>2. half'[c][k][s] = [half[c][k][s] EXCEPT !.boundary = BoundaryOf(c, k, s)]
    BY <1>1
  <2>3. BoundaryOf(c, k, s) = Bound(c, FaceOf[k][s])
    BY BoundaryOfIs DEF Bound
  <2>4. BoundaryOf(c, k, s) \in {"inner", "wall", "free"}
    BY <2>3, BoundType, FaceOfType DEF TypeOK
  <2> QED BY <2>1, <2>2, <2>3, <2>4 DEF HalfRecord
<1>4. HalfOK'
  BY <1>1, <1>2, <1>3 DEF HalfOK
<1>5. TypeOK'
  BY <1>1, <1>4, Same, TypeStays DEF TypeOK, Phases
<1>6. \A c \in forest : \A k \in Corner : node[c][k].cur = Point(c, k)
  BY <1>1 DEF HalvesInv, Early
<1>7. HalvesInv'
  <2>1. \A c, f : Bound(c, f)' = Bound(c, f)
    BY <1>1, Same
  <2> QED BY <1>1, <1>2, <1>3, <1>6, <2>1 DEF HalvesInv, Early
<1> QED BY <1>5, <1>7

\* stage_phase_half_corner.
LEMMA HalfCornerOK ==
  ASSUME TypeOK, HalvesInv, HalfCorner
  PROVE  TypeOK' /\ HalvesInv'
<1>1. /\ phase = "geometry" /\ phase' = "amr" /\ setting' = setting
      /\ cell' = cell /\ node' = node /\ point' = point /\ edge' = edge /\ mirror' = mirror
      /\ half' = [c \in forest |-> [k \in Corner |-> [s \in Sides |-> Geometry(c, k, s)]]]
  BY DEF HalfCorner, Step
<1>2. forest' = forest
  BY <1>1, Same
<1>3. forest \in BalancedForests /\ forest \subseteq Cells
  BY BalancedForest DEF TypeOK, SettingOK
<1>4. \A c \in forest : \A k \in Corner : node[c][k].cur = Point(c, k)
  BY <1>1 DEF HalvesInv, Early
<1>5. ASSUME NEW c \in forest, NEW k \in Corner, NEW s \in Sides
      PROVE  /\ half'[c][k][s] \in HalfRecord
             /\ half'[c][k][s] = HalfIn(c, FaceOf[k][s], Half(Side(c)))
  <2> DEFINE a == IF s = "plus" THEN k ELSE Before(k)
             b == IF s = "plus" THEN Following[k] ELSE k
             p == node[c][a].cur
             q == node[c][b].cur
  <2>1. a \in Corner /\ b \in Corner
    <3>1. /\ Before("LEFTBOTTOM") = "RIGHTBOTTOM" /\ Before("LEFTUP") = "LEFTBOTTOM"
          /\ Before("RIGHTUP") = "LEFTUP" /\ Before("RIGHTBOTTOM") = "RIGHTUP"
      BY DEF Before, Following, Corner
    <3> QED BY <3>1 DEF Corner, Following
  <2>2. p = Point(c, a) /\ q = Point(c, b)
    BY <1>4, <2>1
  <2>3. c.x \in Int /\ c.y \in Int /\ Side(c) \in Nat \ {0}
    BY <1>3, CellParts
  <2>4. half'[c][k][s] = [half[c][k][s] EXCEPT !.length = Half(Distance(p, q)),
                                               !.normal = Normal(p, q)]
    BY <1>1 DEF Geometry
  <2> HIDE DEF p, q
  <2>5. Distance(p, q) = Side(c) /\ Normal(p, q) = Outward[FaceOf[k][s]]
    BY <2>2, <2>3, EndsOfHalf
  <2>6. half[c][k][s] \in HalfRecord /\ half[c][k][s].boundary = Bound(c, FaceOf[k][s])
    BY <1>1 DEF TypeOK, HalfOK, HalvesInv
  <2>7. Half(Side(c)) \in Residue /\ Outward[FaceOf[k][s]] \in Vector
    BY <2>3, HalfType, FaceOfType, OutwardType
  <2>8. half'[c][k][s] \in HalfRecord
    BY <2>4, <2>5, <2>6, <2>7 DEF HalfRecord
  <2>9. half'[c][k][s] = HalfIn(c, FaceOf[k][s], Half(Side(c)))
    BY <2>4, <2>5, <2>6 DEF HalfRecord, HalfIn
  <2> QED BY <2>8, <2>9
<1>6. HalfOK'
  BY <1>1, <1>2, <1>5 DEF HalfOK
<1>7. TypeOK'
  BY <1>1, <1>6, Same, TypeStays DEF TypeOK, Phases
<1>8. HalvesInv'
  <2>1. \A c, f, l : HalfIn(c, f, l)' = HalfIn(c, f, l)
    BY <1>1, Same
  <2> QED BY <1>1, <1>2, <1>4, <1>5, <2>1 DEF HalvesInv, Early
<1> QED BY <1>7, <1>8

\* Where the edge of a large leaf is divided.
LEMMA CutAt ==
  ASSUME NEW F \in BalancedForests, NEW h \in HangingEdges[F],
         NEW k \in {LowEnd[h.face], HighEnd[h.face]}, NEW i \in {1, 2}
  PROVE  /\ HalfSideOf(h.parent) \in Nat /\ HalfSideOf(h.parent) > 0
         /\ Side(h.parent) = 2 * HalfSideOf(h.parent)
         /\ Side(h.child[i]) = HalfSideOf(h.parent)
         /\ Distance(Point(h.parent, k), Point(h.child[1], WhichCorner(h, 1)))
              = HalfSideOf(h.parent)
         /\ WhichCorner(h, i) \in Corner /\ WhichSide(h, i) \in Sides
         /\ FaceOf[WhichCorner(h, i)][WhichSide(h, i)] = Opposite[h.face]
<1> DEFINE p == h.parent
           s == Side(h.child[1])
           m == Point(h.child[1], WhichCorner(h, 1))
           low == Point(p, LowEnd[h.face])
           high == Point(p, HighEnd[h.face])
<1>1. /\ p \in Cells /\ p.level < Depth /\ h.face \in Face /\ h.child[1] \in Cells
      /\ h.child[2] \in Cells
  BY HangingEdgeParts
<1>2. /\ s \in Nat \ {0} /\ Side(p) = 2 * s
      /\ m[1] \in Nat /\ m[2] \in Nat
      /\ h.face \in {"LEFT", "RIGHT"} => low = <<m[1], m[2] - s>> /\ high = <<m[1], m[2] + s>>
      /\ h.face \in {"BOTTOM", "UP"} => low = <<m[1] - s, m[2]>> /\ high = <<m[1] + s, m[2]>>
  BY HangingPoints
<1>3. HalfSideOf(p) \in Nat \ {0} /\ Side(p) = 2 * HalfSideOf(p)
  BY <1>1, HalfSide DEF HalfSideOf
<1>4. Side(h.child[i]) = s
  BY HangingPlace
<1>5. Opposite[h.face] \in Face
  BY <1>1 DEF Face, Opposite
<1>6. /\ WhichCorner(h, i) \in Corner /\ WhichSide(h, i) \in Sides
      /\ FaceOf[WhichCorner(h, i)][WhichSide(h, i)] = Opposite[h.face]
  BY <1>5, HangingTable, HalvesOfFace
<1>7. Point(p, k) \in {low, high}
  OBVIOUS
<1> HIDE DEF p, s, m, low, high
<1>8. Distance(Point(p, k), m) = s
  BY <1>1, <1>2, <1>7 DEF Distance, Abs, Face
<1> QED BY <1>2, <1>3, <1>4, <1>6, <1>8 DEF p, s, m

\* The half edges of a divided face are cut, the others stay.
LEMMA CutHalfIs ==
  ASSUME TypeOK, HalvesInv, phase = "amr",
         NEW c \in forest, NEW k \in Corner, NEW s \in Sides
  PROVE  CutHalf(c, k, s) = HalfIn(c, FaceOf[k][s], LengthOf(c, FaceOf[k][s]))
<1> DEFINE f == FaceOf[k][s]
           cuts(h) == /\ h.parent = c
                      /\ <<k, s>> \in {<<LowEnd[h.face], LowHalf[h.face]>>,
                                       <<HighEnd[h.face], OtherHalf[LowHalf[h.face]]>>}
           cutting == {h \in Hanging : cuts(h)}
           cut == CHOOSE h \in cutting : TRUE
           mid(h) == node[h.child[1]][WhichCorner(h, 1)].cur
           l(h) == Half(Distance(node[c][k].cur, mid(h)))
<1>1. /\ forest \in BalancedForests /\ f \in Face
      /\ half[c][k][s] = HalfIn(c, f, Half(Side(c)))
      /\ node[c][k].cur = Point(c, k)
  BY FaceOfType DEF TypeOK, SettingOK, HalvesInv, Early
<1>2. CutHalf(c, k, s)
        = IF cutting = {} THEN half[c][k][s] ELSE [half[c][k][s] EXCEPT !.length = l(cut)]
  BY DEF CutHalf
<1>3. \A h \in Hanging : cuts(h) <=> h.parent = c /\ h.face = f
  <2> SUFFICES ASSUME NEW h \in Hanging
               PROVE  cuts(h) <=> h.parent = c /\ h.face = f
    OBVIOUS
  <2>1. h.face \in Face
    BY <1>1, HangingEdgeParts DEF Hanging
  <2>2. cuts(h) <=> /\ h.parent = c
                    /\ \/ k = LowEnd[h.face] /\ s = LowHalf[h.face]
                       \/ k = HighEnd[h.face] /\ s = OtherHalf[LowHalf[h.face]]
    OBVIOUS
  <2> HIDE DEF cuts, f
  <2>3. \A g \in Face :
          (\/ k = LowEnd[g] /\ s = LowHalf[g]
           \/ k = HighEnd[g] /\ s = OtherHalf[LowHalf[g]]) <=> g = f
    BY HalfOfFace DEF f
  <2> QED BY <2>1, <2>2, <2>3
<1>4. Divided(c, f) <=> cutting # {}
  BY <1>3 DEF Divided
<1>5. CASE cutting = {}
  BY <1>1, <1>2, <1>4, <1>5 DEF LengthOf
<1>6. CASE cutting # {}
  <2>1. cut \in Hanging /\ cuts(cut)
    BY <1>6
  <2>2. cut.parent = c /\ cut.face = f /\ cut \in HangingEdges[forest]
    BY <2>1, <1>3 DEF Hanging
  <2>3. cut.child[1] \in forest /\ WhichCorner(cut, 1) \in Corner
    BY <1>1, <2>2, HangingEdgeParts, CutAt
  <2>4. k \in {LowEnd[cut.face], HighEnd[cut.face]}
    BY <2>1
  <2> HIDE DEF cut, cutting, cuts, f
  <2>5. Distance(Point(cut.parent, k), Point(cut.child[1], WhichCorner(cut, 1)))
          = HalfSideOf(cut.parent)
    BY <1>1, <2>2, <2>4, CutAt
  <2>6. mid(cut) = Point(cut.child[1], WhichCorner(cut, 1))
    BY <2>3 DEF HalvesInv, Early
  <2>7. l(cut) = Half(HalfSideOf(c))
    BY <1>1, <2>2, <2>5, <2>6
  <2>8. CutHalf(c, k, s) = [half[c][k][s] EXCEPT !.length = Half(HalfSideOf(c))]
    BY <1>2, <1>6, <2>7
  <2>9. LengthOf(c, f) = Half(HalfSideOf(c))
    BY <1>4, <1>6 DEF LengthOf
  <2> QED BY <1>1, <2>8, <2>9 DEF HalfIn, f
<1> QED BY <1>5, <1>6

\* The length of a half edge is a residue.
LEMMA LengthType ==
  ASSUME SettingOK, NEW c \in forest, NEW f
  PROVE  LengthOf(c, f) \in Residue
<1>1. forest \in BalancedForests /\ c \in Cells
  BY BalancedForest DEF SettingOK
<1>2. Side(c) \in Int
  BY <1>1, CellParts
<1>3. ASSUME Divided(c, f)
      PROVE  HalfSideOf(c) \in Int
  <2>1. PICK h \in Hanging : h.parent = c /\ h.face = f
    BY <1>3 DEF Divided
  <2>2. HalfSideOf(h.parent) \in Nat
    BY <1>1, <2>1, CutAt DEF Hanging
  <2> QED BY <2>1, <2>2
<1> QED BY <1>2, <1>3, HalfType DEF LengthOf

\* The edge of the parent, seen from its side.
LEMMA EdgeOfChildrenIs ==
  ASSUME TypeOK, HalvesInv, phase = "amr", NEW h \in Hanging
  PROVE  /\ EdgeOfChildren(h) \in EdgeRecord
         /\ EdgeOfChildren(h).lengths
              = <<Half(HalfSideOf(h.parent)), Half(HalfSideOf(h.parent))>>
         /\ EdgeOfChildren(h).normals = <<Outward[h.face], Outward[h.face]>>
<1> DEFINE l == Half(HalfSideOf(h.parent))
           n == Outward[h.face]
           ls == [i \in 1..2 |-> HangingHalf(h, i).length]
           ns == [i \in 1..2 |-> Minus(Zero, HangingHalf(h, i).normal)]
           u == node[h.child[1]][WhichCorner(h, 1)].velocity
<1>1. forest \in BalancedForests /\ h \in HangingEdges[forest]
  BY DEF TypeOK, SettingOK, Hanging
<1>2. h.child[1] \in forest /\ h.child[2] \in forest /\ h.face \in Face
  BY <1>1, HangingEdgeParts
<1>3. ASSUME NEW i \in {1, 2}
      PROVE  HangingHalf(h, i).length = l /\ Minus(Zero, HangingHalf(h, i).normal) = n
  <2> DEFINE k == WhichCorner(h, i)
             s == WhichSide(h, i)
  <2>1. k \in Corner /\ s \in Sides /\ FaceOf[k][s] = Opposite[h.face]
    BY <1>1, CutAt
  <2>2. Side(h.child[i]) = HalfSideOf(h.parent)
    BY <1>1, CutAt
  <2>3. h.child[i] \in forest
    BY <1>2
  <2> HIDE DEF k, s
  <2>4. half[h.child[i]][k][s] = HalfIn(h.child[i], Opposite[h.face], Half(Side(h.child[i])))
    BY <2>1, <2>3 DEF HalvesInv, Early
  <2>5. HangingHalf(h, i) = half[h.child[i]][k][s]
    BY DEF HangingHalf, k, s
  <2>6. HangingHalf(h, i).length = l /\ HangingHalf(h, i).normal = Outward[Opposite[h.face]]
    BY <2>2, <2>4, <2>5 DEF HalfIn
  <2> QED BY <1>2, <2>6, OutwardType
<1>4. 1..2 = {1, 2}
  OBVIOUS
<1>5. ls = <<l, l>> /\ ns = <<n, n>>
  <2>1. /\ ls = [i \in {1, 2} |-> ls[i]] /\ ls[1] = l /\ ls[2] = l
        /\ ns = [i \in {1, 2} |-> ns[i]] /\ ns[1] = n /\ ns[2] = n
    BY <1>3, <1>4
  <2> HIDE DEF ls, ns
  <2> QED BY <2>1, PairByParts
<1>6. l \in Residue /\ n \in Vector
  <2>1. HalfSideOf(h.parent) \in Int
    <3>1. HalfSideOf(h.parent) \in Nat
      BY <1>1, CutAt
    <3> QED BY <3>1
  <2> QED BY <1>2, <2>1, HalfType, OutwardType
<1>7. edge[h] \in EdgeRecord
  BY DEF TypeOK, EdgeOK
<1>8. u \in Vector
  <2>1. WhichCorner(h, 1) \in Corner
    BY <1>1, CutAt
  <2>2. node[h.child[1]][WhichCorner(h, 1)] \in NodeRecord
    BY <1>2, <2>1 DEF TypeOK, NodeOK
  <2> QED BY <2>2 DEF NodeRecord
<1>9. EdgeOfChildren(h)
        = [edge[h] EXCEPT !.lengths = ls, !.normals = ns, !.velocity = u]
  BY DEF EdgeOfChildren
<1> HIDE DEF l, n, ls, ns, u
<1>10. EdgeOfChildren(h).lengths = <<l, l>> /\ EdgeOfChildren(h).normals = <<n, n>>
  BY <1>5, <1>7, <1>9 DEF EdgeRecord
<1>11. EdgeOfChildren(h) \in EdgeRecord
  <2>1. ls \in Residue \X Residue /\ ns \in Vector \X Vector
    BY <1>5, <1>6
  <2>2. [edge[h] EXCEPT !.lengths = ls] \in EdgeRecord
    BY <2>1, <1>7 DEF EdgeRecord
  <2>3. [[edge[h] EXCEPT !.lengths = ls] EXCEPT !.normals = ns] \in EdgeRecord
    BY <2>1, <2>2 DEF EdgeRecord
  <2>4. [[[edge[h] EXCEPT !.lengths = ls] EXCEPT !.normals = ns] EXCEPT !.velocity = u]
           \in EdgeRecord
    BY <1>8, <2>3 DEF EdgeRecord
  <2> QED BY <1>9, <2>4
<1> QED BY <1>10, <1>11 DEF l, n

\* Get_AMR_BDY_info.
LEMMA GetAMRBoundaryOK ==
  ASSUME TypeOK, HalvesInv, GetAMRBoundary
  PROVE  TypeOK' /\ HalvesInv'
<1>1. /\ phase = "amr" /\ phase' = "master" /\ setting' = setting
      /\ cell' = cell /\ node' = node /\ point' = point /\ mirror' = mirror
      /\ edge' = [h \in Hanging |-> EdgeOfChildren(h)]
      /\ half' = [c \in forest |-> [k \in Corner |-> [s \in Sides |-> CutHalf(c, k, s)]]]
  BY DEF GetAMRBoundary, Step
<1>2. forest' = forest /\ Hanging' = Hanging
  BY <1>1, Same
<1>3. ASSUME NEW c \in forest, NEW k \in Corner, NEW s \in Sides
      PROVE  /\ half'[c][k][s] \in HalfRecord
             /\ half'[c][k][s] = HalfIn(c, FaceOf[k][s], LengthOf(c, FaceOf[k][s]))
  <2>1. half'[c][k][s] = HalfIn(c, FaceOf[k][s], LengthOf(c, FaceOf[k][s]))
    BY <1>1, CutHalfIs
  <2>2. /\ Bound(c, FaceOf[k][s]) \in {"inner", "wall", "free"}
        /\ LengthOf(c, FaceOf[k][s]) \in Residue /\ Outward[FaceOf[k][s]] \in Vector
    BY BoundType, LengthType, FaceOfType, OutwardType DEF TypeOK
  <2> QED BY <2>1, <2>2 DEF HalfIn, HalfRecord
<1>4. HalfOK'
  BY <1>1, <1>2, <1>3 DEF HalfOK
<1>5. ASSUME NEW h \in Hanging
      PROVE  /\ edge'[h] \in EdgeRecord
             /\ edge'[h].lengths
                  = <<Half(HalfSideOf(h.parent)), Half(HalfSideOf(h.parent))>>
             /\ edge'[h].normals = <<Outward[h.face], Outward[h.face]>>
  <2>1. edge'[h] = EdgeOfChildren(h)
    BY <1>1
  <2> QED BY <1>1, <2>1, EdgeOfChildrenIs
<1>6. EdgeOK'
  BY <1>1, <1>2, <1>5 DEF EdgeOK
<1>7. TypeOK'
  BY <1>1, <1>4, <1>6, Same, TypeStays DEF TypeOK, Phases
<1>8. HalvesInv'
  <2>1. /\ \A c, f, l : HalfIn(c, f, l)' = HalfIn(c, f, l)
        /\ \A c, f : LengthOf(c, f)' = LengthOf(c, f)
    BY <1>1, Same
  <2>2. phase' \notin Early
    BY <1>1 DEF Early
  <2>3. \A c \in forest : \A k \in Corner : \A s \in Sides :
          half'[c][k][s] = HalfIn(c, FaceOf[k][s], LengthOf(c, FaceOf[k][s]))
    BY <1>3
  <2> QED BY <1>1, <1>2, <1>5, <2>1, <2>2, <2>3 DEF HalvesInv, Early
<1> QED BY <1>7, <1>8

-----------------------------------------------------------------------------
(* The border of the domain. *)

\* Where along a face a leaf and a point lie.
Along(c, f) == IF f \in {"LEFT", "RIGHT"} THEN c.y ELSE c.x
AlongPoint(p, f) == IF f \in {"LEFT", "RIGHT"} THEN p[2] ELSE p[1]
Width == PowerOfTwo[Depth]

\* The width of the domain.
LEMMA WidthType == Width \in Nat /\ Width > 0
<1>1. Depth \in 0..Depth
  BY DepthAssumption
<1>2. PowerOfTwo[Depth] \in Nat \ {0}
  BY <1>1, PowerOfTwoType
<1> QED BY <1>2 DEF Width

\* Squares lie in the domain.
LEMMA CellInWidth ==
  ASSUME NEW c \in Cells
  PROVE  /\ c.x \in Nat /\ c.y \in Nat /\ Side(c) \in Nat /\ Side(c) > 0
         /\ c.x + Side(c) <= Width /\ c.y + Side(c) <= Width
<1>1. c.x \in Nat /\ c.y \in Nat /\ Side(c) \in Nat \ {0}
  BY CellParts
<1>2. c.x + Side(c) <= PowerOfTwo[Depth] /\ c.y + Side(c) <= PowerOfTwo[Depth]
  BY CellInDomain
<1> QED BY <1>1, <1>2 DEF Width

\* Leaves at one border overlap when they do along it.
LEMMA OverlapAtBorder ==
  ASSUME NEW c \in Cells, NEW d \in Cells, NEW f \in Face,
         AtBoundary(c, f), AtBoundary(d, f)
  PROVE  Overlap(c, d) <=> Cross(Along(c, f), Side(c), Along(d, f), Side(d))
<1>1. /\ c.x \in Nat /\ c.y \in Nat /\ Side(c) \in Nat /\ Side(c) > 0
      /\ d.x \in Nat /\ d.y \in Nat /\ Side(d) \in Nat /\ Side(d) > 0
  BY CellInWidth
<1>2. Width \in Nat
  BY WidthType
<1>3. CASE f = "LEFT"
  BY <1>1, <1>2, <1>3 DEF AtBoundary, Along, Overlap, Cross, Width
<1>4. CASE f = "RIGHT"
  BY <1>1, <1>2, <1>4 DEF AtBoundary, Along, Overlap, Cross, Width
<1>5. CASE f = "BOTTOM"
  BY <1>1, <1>2, <1>5 DEF AtBoundary, Along, Overlap, Cross, Width
<1>6. CASE f = "UP"
  BY <1>1, <1>2, <1>6 DEF AtBoundary, Along, Overlap, Cross, Width
<1> QED BY <1>3, <1>4, <1>5, <1>6 DEF Face

\* There is a leaf everywhere along a border.
LEMMA LeafAtBorder ==
  ASSUME NEW F, Tiling(F), NEW f \in Face, NEW t \in 0..(Width - 1)
  PROVE  \E d \in F : AtBoundary(d, f) /\ Along(d, f) <= t /\ t < Along(d, f) + Side(d)
<1> DEFINE x == IF f = "LEFT" THEN 0 ELSE IF f = "RIGHT" THEN Width - 1 ELSE t
           y == IF f = "BOTTOM" THEN 0 ELSE IF f = "UP" THEN Width - 1 ELSE t
           q == Cell(Depth, x, y)
<1>1. Width \in Nat /\ Width > 0
  BY WidthType
<1>2. x \in 0..(Width - 1) /\ y \in 0..(Width - 1)
  BY <1>1
<1> HIDE DEF x, y
<1>3. q \in LevelCells(Depth) /\ q.x = x /\ q.y = y /\ Side(q) = 1
  BY <1>2, SmallestCell DEF Width
<1> HIDE DEF q
<1>4. PICK d \in F : Overlap(d, q)
  BY <1>3 DEF Tiling
<1>5. d \in Cells
  BY DEF Tiling
<1>6. /\ d.x \in Nat /\ d.y \in Nat /\ Side(d) \in Nat /\ Side(d) > 0
      /\ d.x + Side(d) <= Width /\ d.y + Side(d) <= Width
  BY <1>5, CellInWidth
<1>7. d.x <= x /\ x < d.x + Side(d) /\ d.y <= y /\ y < d.y + Side(d)
  BY <1>2, <1>3, <1>4, <1>6 DEF Overlap, Cross
<1>8. AtBoundary(d, f) /\ Along(d, f) <= t /\ t < Along(d, f) + Side(d)
  <2>1. CASE f = "LEFT"
    BY <1>1, <1>6, <1>7, <2>1 DEF AtBoundary, Along, Width, x, y
  <2>2. CASE f = "RIGHT"
    BY <1>1, <1>6, <1>7, <2>2 DEF AtBoundary, Along, Width, x, y
  <2>3. CASE f = "BOTTOM"
    BY <1>1, <1>6, <1>7, <2>3 DEF AtBoundary, Along, Width, x, y
  <2>4. CASE f = "UP"
    BY <1>1, <1>6, <1>7, <2>4 DEF AtBoundary, Along, Width, x, y
  <2> QED BY <2>1, <2>2, <2>3, <2>4 DEF Face
<1> QED BY <1>8

\* The ends of a leaf's face on the border.
LEMMA EndsAtBorder ==
  ASSUME NEW c \in Cells, NEW f \in Face, AtBoundary(c, f)
  PROVE  /\ OnFace(Point(c, LowEnd[f]), f) /\ OnFace(Point(c, HighEnd[f]), f)
         /\ AlongPoint(Point(c, LowEnd[f]), f) = Along(c, f)
         /\ AlongPoint(Point(c, HighEnd[f]), f) = Along(c, f) + Side(c)
         /\ Along(c, f) \in Nat /\ Along(c, f) + Side(c) <= Width
<1>1. /\ c.x \in Nat /\ c.y \in Nat /\ Side(c) \in Nat /\ Side(c) > 0
      /\ c.x + Side(c) <= Width /\ c.y + Side(c) <= Width
  BY CellInWidth
<1>2. Width \in Nat
  BY WidthType
<1>3. CASE f = "LEFT"
  BY <1>1, <1>2, <1>3 DEF AtBoundary, Along, AlongPoint, OnFace, Point, LowEnd, HighEnd, Width
<1>4. CASE f = "RIGHT"
  BY <1>1, <1>2, <1>4 DEF AtBoundary, Along, AlongPoint, OnFace, Point, LowEnd, HighEnd, Width
<1>5. CASE f = "BOTTOM"
  BY <1>1, <1>2, <1>5 DEF AtBoundary, Along, AlongPoint, OnFace, Point, LowEnd, HighEnd, Width
<1>6. CASE f = "UP"
  BY <1>1, <1>2, <1>6 DEF AtBoundary, Along, AlongPoint, OnFace, Point, LowEnd, HighEnd, Width
<1> QED BY <1>3, <1>4, <1>5, <1>6 DEF Face

\* A leaf with a corner on a border has that border's face there.
LEMMA CornerOnBorder ==
  ASSUME NEW c \in Cells, NEW k \in Corner, NEW f \in Face, OnFace(Point(c, k), f)
  PROVE  AtBoundary(c, f) /\ k \in {LowEnd[f], HighEnd[f]}
<1>1. /\ c.x \in Nat /\ c.y \in Nat /\ Side(c) \in Nat /\ Side(c) > 0
      /\ c.x + Side(c) <= Width /\ c.y + Side(c) <= Width
  BY CellInWidth
<1>2. Width \in Nat
  BY WidthType
<1>3. CASE f = "LEFT"
  BY <1>1, <1>2, <1>3 DEF AtBoundary, OnFace, Point, LowEnd, HighEnd, Width, Corner
<1>4. CASE f = "RIGHT"
  BY <1>1, <1>2, <1>4 DEF AtBoundary, OnFace, Point, LowEnd, HighEnd, Width, Corner
<1>5. CASE f = "BOTTOM"
  BY <1>1, <1>2, <1>5 DEF AtBoundary, OnFace, Point, LowEnd, HighEnd, Width, Corner
<1>6. CASE f = "UP"
  BY <1>1, <1>2, <1>6 DEF AtBoundary, OnFace, Point, LowEnd, HighEnd, Width, Corner
<1> QED BY <1>3, <1>4, <1>5, <1>6 DEF Face

\* The domain's points, by where along a face they are.
Places == (0..Width) \X (0..Width)
\* A place on a border is told by where along it it is.
LEMMA PlaceOnFace ==
  ASSUME NEW p \in Places, NEW q \in Places, NEW f \in Face, OnFace(p, f), OnFace(q, f),
         AlongPoint(p, f) = AlongPoint(q, f)
  PROVE  p = q
<1>1. p[1] = q[1] /\ p[2] = q[2]
  <2>1. CASE f = "LEFT"
    BY <2>1 DEF OnFace, AlongPoint
  <2>2. CASE f = "RIGHT"
    BY <2>2 DEF OnFace, AlongPoint
  <2>3. CASE f = "BOTTOM"
    BY <2>3 DEF OnFace, AlongPoint
  <2>4. CASE f = "UP"
    BY <2>4 DEF OnFace, AlongPoint
  <2> QED BY <2>1, <2>2, <2>3, <2>4 DEF Face
<1>2. p = <<p[1], p[2]>> /\ q = <<q[1], q[2]>>
  BY PairIs DEF Places
<1> QED BY <1>1, <1>2

\* Corners of leaves are places of the domain.
LEMMA CornerPlace ==
  ASSUME NEW c \in Cells, NEW k \in Corner
  PROVE  Point(c, k) \in Places
<1>1. /\ c.x \in Nat /\ c.y \in Nat /\ Side(c) \in Nat /\ Side(c) > 0
      /\ c.x + Side(c) <= Width /\ c.y + Side(c) <= Width
  BY CellInWidth
<1>2. Width \in Nat
  BY WidthType
<1> QED BY <1>1, <1>2 DEF Point, Places

-----------------------------------------------------------------------------
(* The half edges on the border that end in a point. *)

Ends == {"low", "high"}
EndOf(f, e) == IF e = "low" THEN LowEnd[f] ELSE HighEnd[f]
HalfAt(f, e) == IF e = "low" THEN LowHalf[f] ELSE OtherHalf[LowHalf[f]]
\* There is a leaf at the border that has p at end e.
Meets(p, f, e) ==
  /\ OnFace(p, f)
  /\ e = "low" => AlongPoint(p, f) < Width
  /\ e = "high" => AlongPoint(p, f) > 0

\* A corner on a border that is not the end of it ends a face of a leaf there.
LEMMA BorderLeaf ==
  ASSUME NEW F \in BalancedForests, NEW c \in F, NEW k \in Corner, NEW f \in Face,
         NEW e \in Ends, Meets(Point(c, k), f, e)
  PROVE  \E d \in F : AtBoundary(d, f) /\ Point(d, EndOf(f, e)) = Point(c, k)
<1> DEFINE p == Point(c, k)
           t == AlongPoint(p, f)
<1>1. /\ Tiling(F) /\ F \subseteq Cells
      /\ \A u, v \in F : Overlap(u, v) => u = v
  BY BalancedForest
<1>2. Width \in Nat /\ Width > 0
  BY WidthType
<1>3. p \in Places /\ OnFace(p, f) /\ AtBoundary(c, f) /\ k \in {LowEnd[f], HighEnd[f]}
  BY <1>1, CornerPlace, CornerOnBorder DEF Meets
<1>4. t \in 0..Width /\ (e = "low" => t < Width) /\ (e = "high" => t > 0)
  <2>1. p[1] \in 0..Width /\ p[2] \in 0..Width
    BY <1>3, PairIs DEF Places
  <2> QED BY <2>1 DEF AlongPoint, Meets
<1> DEFINE a == Along(c, f)
           s == Side(c)
<1>5. a \in Nat /\ s \in Nat /\ s > 0 /\ t \in {a, a + s}
  BY <1>1, <1>3, EndsAtBorder, CellInWidth
<1> DEFINE u == IF e = "low" THEN t ELSE t - 1
<1>6. u \in 0..(Width - 1)
  <2> HIDE DEF t
  <2>1. CASE e = "low"
    BY <1>2, <1>4, <2>1
  <2>2. CASE e = "high"
    BY <1>2, <1>4, <2>2
  <2> QED BY <2>1, <2>2 DEF Ends
<1>7. PICK d \in F : AtBoundary(d, f) /\ Along(d, f) <= u /\ u < Along(d, f) + Side(d)
  BY <1>1, <1>6, LeafAtBorder
<1> DEFINE b == Along(d, f)
           r == Side(d)
<1>8. b \in Nat /\ r \in Nat /\ r > 0
  BY <1>1, <1>7, EndsAtBorder, CellInWidth
<1>9. Cross(b, r, a, s) => b = a /\ r = s
  <2>1. Overlap(d, c) <=> Cross(b, r, a, s)
    BY <1>1, <1>3, <1>7, OverlapAtBorder
  <2>2. Overlap(d, c) => d = c
    BY <1>1
  <2> QED BY <2>1, <2>2
<1>10. b <= u /\ u < b + r
  BY <1>7
<1>11. Point(d, EndOf(f, e)) \in Places /\ OnFace(Point(d, EndOf(f, e)), f)
  <2>1. EndOf(f, e) \in Corner
    BY HalvesOfFace DEF EndOf
  <2> QED BY <1>1, <1>7, <2>1, CornerPlace, EndsAtBorder DEF EndOf
<1>12. AlongPoint(Point(d, EndOf(f, e)), f) = IF e = "low" THEN b ELSE b + r
  BY <1>1, <1>7, EndsAtBorder DEF EndOf
<1>13. t = IF e = "low" THEN b ELSE b + r
  <2> HIDE DEF b, r, a, s, t
  <2>1. CASE e = "low"
    BY <1>4, <1>5, <1>8, <1>9, <1>10, <2>1 DEF Cross
  <2>2. CASE e = "high"
    BY <1>4, <1>5, <1>8, <1>9, <1>10, <2>2 DEF Cross
  <2> QED BY <2>1, <2>2 DEF Ends
<1>14. Point(d, EndOf(f, e)) = p
  BY <1>3, <1>11, <1>12, <1>13, PlaceOnFace
<1> QED BY <1>7, <1>14

\* There is one leaf whose face on the border ends there from that side.
LEMMA OneBorderLeaf ==
  ASSUME NEW F \in BalancedForests, NEW c \in F, NEW d \in F, NEW f \in Face, NEW e \in Ends,
         AtBoundary(c, f), AtBoundary(d, f), Point(c, EndOf(f, e)) = Point(d, EndOf(f, e))
  PROVE  c = d
<1>1. /\ F \subseteq Cells /\ \A u, v \in F : Overlap(u, v) => u = v
  BY BalancedForest
<1> DEFINE a == Along(c, f)
           s == Side(c)
           b == Along(d, f)
           r == Side(d)
<1>2. a \in Nat /\ s \in Nat /\ s > 0 /\ b \in Nat /\ r \in Nat /\ r > 0
  BY <1>1, EndsAtBorder, CellInWidth
<1>3. a = b \/ a + s = b + r
  BY <1>1, EndsAtBorder DEF EndOf
<1>4. Cross(a, s, b, r)
  <2> HIDE DEF a, s, b, r
  <2> QED BY <1>2, <1>3 DEF Cross
<1>5. Overlap(c, d)
  BY <1>1, <1>4, OverlapAtBorder
<1> QED BY <1>1, <1>5

\* A point on the border of the domain is an end of two faces on it: of one
\* side of the domain, or of two at its corners.
TwoOf(p, f, e, g, d) ==
  /\ f # g \/ e # d
  /\ \A j \in Face : \A i \in Ends :
       Meets(p, j, i) <=> (j = f /\ i = e) \/ (j = g /\ i = d)
  /\ \A j \in Face : OnFace(p, j) <=> j = f \/ j = g
  /\ f = g \/ Across2(f) # Across2(g)

\* Two faces on the borders end in every point of the boundary.
LEMMA TwoMeet ==
  ASSUME NEW p \in Places, OnBoundary(p)
  PROVE  \E f, g \in Face : \E e, d \in Ends : TwoOf(p, f, e, g, d)
<1>1. Width \in Nat /\ Width > 0
  BY WidthType
<1>2. /\ p[1] \in Nat /\ p[1] <= Width /\ p[2] \in Nat /\ p[2] <= Width
      /\ p[1] = 0 \/ p[1] = Width \/ p[2] = 0 \/ p[2] = Width
  <2>1. p[1] \in 0..Width /\ p[2] \in 0..Width
    BY PairIs DEF Places
  <2> QED BY <1>1, <2>1 DEF OnBoundary, Width
<1>3. /\ OnFace(p, "LEFT") <=> p[1] = 0
      /\ OnFace(p, "RIGHT") <=> p[1] = Width
      /\ OnFace(p, "BOTTOM") <=> p[2] = 0
      /\ OnFace(p, "UP") <=> p[2] = Width
  BY DEF OnFace, Width
<1>4. /\ \A j \in {"LEFT", "RIGHT"} : \A i \in Ends :
           Meets(p, j, i) <=> OnFace(p, j) /\ (i = "low" => p[2] < Width) /\ (i = "high" => p[2] > 0)
      /\ \A j \in {"BOTTOM", "UP"} : \A i \in Ends :
           Meets(p, j, i) <=> OnFace(p, j) /\ (i = "low" => p[1] < Width) /\ (i = "high" => p[1] > 0)
  BY DEF Meets, AlongPoint
<1>5. /\ Across2("LEFT") = 1 /\ Across2("RIGHT") = 1
      /\ Across2("BOTTOM") = 2 /\ Across2("UP") = 2
  BY DEF Across2
<1>6. CASE p[1] = 0 /\ p[2] = 0
  <2>1. TwoOf(p, "LEFT", "low", "BOTTOM", "low")
    BY <1>1, <1>2, <1>3, <1>4, <1>5, <1>6 DEF TwoOf, Face, Ends
  <2> QED BY <2>1 DEF Face, Ends
<1>7. CASE p[1] = 0 /\ p[2] = Width
  <2>1. TwoOf(p, "LEFT", "high", "UP", "low")
    BY <1>1, <1>2, <1>3, <1>4, <1>5, <1>7 DEF TwoOf, Face, Ends
  <2> QED BY <2>1 DEF Face, Ends
<1>8. CASE p[1] = Width /\ p[2] = 0
  <2>1. TwoOf(p, "RIGHT", "low", "BOTTOM", "high")
    BY <1>1, <1>2, <1>3, <1>4, <1>5, <1>8 DEF TwoOf, Face, Ends
  <2> QED BY <2>1 DEF Face, Ends
<1>9. CASE p[1] = Width /\ p[2] = Width
  <2>1. TwoOf(p, "RIGHT", "high", "UP", "high")
    BY <1>1, <1>2, <1>3, <1>4, <1>5, <1>9 DEF TwoOf, Face, Ends
  <2> QED BY <2>1 DEF Face, Ends
<1>10. CASE p[1] = 0 /\ p[2] # 0 /\ p[2] # Width
  <2>1. TwoOf(p, "LEFT", "low", "LEFT", "high")
    BY <1>1, <1>2, <1>3, <1>4, <1>5, <1>10 DEF TwoOf, Face, Ends
  <2> QED BY <2>1 DEF Face, Ends
<1>11. CASE p[1] = Width /\ p[2] # 0 /\ p[2] # Width
  <2>1. TwoOf(p, "RIGHT", "low", "RIGHT", "high")
    BY <1>1, <1>2, <1>3, <1>4, <1>5, <1>11 DEF TwoOf, Face, Ends
  <2> QED BY <2>1 DEF Face, Ends
<1>12. CASE p[2] = 0 /\ p[1] # 0 /\ p[1] # Width
  <2>1. TwoOf(p, "BOTTOM", "low", "BOTTOM", "high")
    BY <1>1, <1>2, <1>3, <1>4, <1>5, <1>12 DEF TwoOf, Face, Ends
  <2> QED BY <2>1 DEF Face, Ends
<1>13. CASE p[2] = Width /\ p[1] # 0 /\ p[1] # Width
  <2>1. TwoOf(p, "UP", "low", "UP", "high")
    BY <1>1, <1>2, <1>3, <1>4, <1>5, <1>13 DEF TwoOf, Face, Ends
  <2> QED BY <2>1 DEF Face, Ends
<1> QED BY <1>2, <1>6, <1>7, <1>8, <1>9, <1>10, <1>11, <1>12, <1>13

-----------------------------------------------------------------------------
(* Two halves at the boundary. *)

\* What a half edge's boundary and normal are, once they are known.
LEMMA HalvesKnown ==
  ASSUME TypeOK, HalvesInv, phase \notin {"boundary", "geometry"},
         NEW c \in forest, NEW k \in Corner, NEW s \in Sides
  PROVE  /\ half[c][k][s].boundary = Bound(c, FaceOf[k][s])
         /\ half[c][k][s].normal = Outward[FaceOf[k][s]]
<1> DEFINE g == FaceOf[k][s]
<1>1. CASE phase = "amr"
  <2>1. half[c][k][s] = HalfIn(c, g, Half(Side(c)))
    BY <1>1 DEF HalvesInv
  <2> HIDE DEF g
  <2>2. half[c][k][s].boundary = Bound(c, g) /\ half[c][k][s].normal = Outward[g]
    BY <2>1 DEF HalfIn
  <2> QED BY <2>2 DEF g
<1>2. CASE phase \notin Early
  <2>1. half[c][k][s] = HalfIn(c, g, LengthOf(c, g))
    BY <1>2 DEF HalvesInv
  <2> HIDE DEF g
  <2>2. half[c][k][s].boundary = Bound(c, g) /\ half[c][k][s].normal = Outward[g]
    BY <2>1 DEF HalfIn
  <2> QED BY <2>2 DEF g
<1> QED BY <1>1, <1>2 DEF Early

\* A boundary half is that of a face on the border.
LEMMA BoundaryHalfIs ==
  ASSUME TypeOK, HalvesInv, phase \notin {"boundary", "geometry"}, NEW p,
         NEW f \in Face, NEW e \in Ends, NEW d \in forest,
         AtBoundary(d, f), Point(d, EndOf(f, e)) = p
  PROVE  LET b == <<<<d, EndOf(f, e)>>, HalfAt(f, e)>>
         IN  /\ b \in BoundaryHalves(p)
             /\ half[b[1][1]][b[1][2]][b[2]].boundary = boundary[f]
             /\ half[b[1][1]][b[1][2]][b[2]].normal = Outward[f]
<1> DEFINE k == EndOf(f, e)
           s == HalfAt(f, e)
           b == <<<<d, k>>, s>>
<1>1. k \in Corner /\ s \in Sides /\ FaceOf[k][s] = f
  BY HalvesOfFace DEF EndOf, HalfAt
<1>2. <<d, k>> \in Around(p)
  BY <1>1 DEF Around, Corners
<1> HIDE DEF k, s
<1>3. half[d][k][s].boundary = Bound(d, f) /\ half[d][k][s].normal = Outward[f]
  BY <1>1, HalvesKnown
<1>4. Bound(d, f) = boundary[f] /\ boundary[f] \in BoundaryType
  BY DEF Bound, TypeOK, SettingOK
<1>5. boundary[f] # "inner"
  BY <1>4 DEF BoundaryType
<1>6. b[1][1] = d /\ b[1][2] = k /\ b[2] = s /\ b \in Around(p) \X Sides
  BY <1>1, <1>2
<1>7. b \in BoundaryHalves(p)
  <2> HIDE DEF b
  <2> QED BY <1>3, <1>4, <1>5, <1>6 DEF BoundaryHalves
<1> QED BY <1>3, <1>4, <1>6, <1>7 DEF k, s

\* Every boundary half is one of a face on the border.
LEMMA BoundaryHalfParts ==
  ASSUME TypeOK, HalvesInv, phase \notin {"boundary", "geometry"},
         NEW p, NEW b \in BoundaryHalves(p)
  PROVE  \E f \in Face : \E e \in Ends : \E d \in forest :
           /\ AtBoundary(d, f) /\ Point(d, EndOf(f, e)) = p
           /\ b = <<<<d, EndOf(f, e)>>, HalfAt(f, e)>>
<1> DEFINE q == b[1]
           s == b[2]
           d == q[1]
           k == q[2]
           f == FaceOf[k][s]
<1>1. /\ q \in Around(p) /\ s \in Sides /\ b = <<q, s>>
      /\ half[d][k][s].boundary # "inner"
  BY DEF BoundaryHalves
<1>2. q = <<d, k>> /\ d \in forest /\ k \in Corner /\ Point(d, k) = p
  BY <1>1 DEF Around, Corners
<1> HIDE DEF q, s, d, k
<1>3. f \in Face /\ half[d][k][s].boundary = Bound(d, f)
  BY <1>1, <1>2, FaceOfType, HalvesKnown
<1>4. AtBoundary(d, f)
  BY <1>1, <1>3 DEF Bound
<1>5. \/ k = LowEnd[f] /\ s = LowHalf[f]
      \/ k = HighEnd[f] /\ s = OtherHalf[LowHalf[f]]
  BY <1>1, <1>2, <1>3, HalfOfFace
<1> HIDE DEF f
<1>6. \E e \in Ends : k = EndOf(f, e) /\ s = HalfAt(f, e)
  BY <1>5 DEF Ends, EndOf, HalfAt
<1> QED BY <1>1, <1>2, <1>3, <1>4, <1>6

HalfHere(b) == half[b[1][1]][b[1][2]][b[2]]
PairAt(p, a, b, f, g) ==
  /\ a # b /\ BoundaryHalves(p) = {a, b}
  /\ HalfHere(a).boundary = boundary[f] /\ HalfHere(a).normal = Outward[f]
  /\ HalfHere(b).boundary = boundary[g] /\ HalfHere(b).normal = Outward[g]
  /\ \A j \in Face : OnFace(p, j) <=> j = f \/ j = g
  /\ f = g \/ Across2(f) # Across2(g)

\* There are two boundary halves at a point of the boundary.
LEMMA BoundaryPair ==
  ASSUME TypeOK, HalvesInv, phase \notin {"boundary", "geometry"},
         NEW c \in forest, NEW k \in Corner, OnBoundary(Point(c, k))
  PROVE  \E a, b, f, g : f \in Face /\ g \in Face /\ PairAt(Point(c, k), a, b, f, g)
<1> DEFINE p == Point(c, k)
           place(d, f, e) == <<<<d, EndOf(f, e)>>, HalfAt(f, e)>>
<1>1. forest \in BalancedForests /\ forest \subseteq Cells
  BY BalancedForest DEF TypeOK, SettingOK
<1>2. p \in Places
  BY <1>1, CornerPlace
<1>3. PICK f \in Face, g \in Face, e \in Ends, d \in Ends : TwoOf(p, f, e, g, d)
  BY <1>2, TwoMeet
<1>4. Meets(p, f, e) /\ Meets(p, g, d)
  BY <1>3 DEF TwoOf
<1>5. PICK m \in forest : AtBoundary(m, f) /\ Point(m, EndOf(f, e)) = p
  BY <1>1, <1>4, BorderLeaf
<1>6. PICK n \in forest : AtBoundary(n, g) /\ Point(n, EndOf(g, d)) = p
  BY <1>1, <1>4, BorderLeaf
<1> DEFINE a == place(m, f, e)
           b == place(n, g, d)
<1>7. /\ a \in BoundaryHalves(p)
      /\ HalfHere(a).boundary = boundary[f] /\ HalfHere(a).normal = Outward[f]
  BY <1>5, BoundaryHalfIs DEF HalfHere
<1>8. /\ b \in BoundaryHalves(p)
      /\ HalfHere(b).boundary = boundary[g] /\ HalfHere(b).normal = Outward[g]
  BY <1>6, BoundaryHalfIs DEF HalfHere
<1>9. ASSUME NEW q \in BoundaryHalves(p)
      PROVE  q \in {a, b}
  <2>1. PICK j \in Face, i \in Ends, l \in forest :
          AtBoundary(l, j) /\ Point(l, EndOf(j, i)) = p /\ q = place(l, j, i)
    BY BoundaryHalfParts
  <2>2. Meets(p, j, i)
    <3>1. l \in Cells
      BY <1>1
    <3>2. /\ OnFace(p, j) /\ Along(l, j) \in Nat /\ Along(l, j) + Side(l) <= Width
          /\ AlongPoint(p, j) = IF i = "low" THEN Along(l, j) ELSE Along(l, j) + Side(l)
      BY <2>1, <3>1, EndsAtBorder DEF EndOf
    <3>3. Side(l) \in Nat /\ Side(l) > 0
      BY <3>1, CellInWidth
    <3>4. Width \in Nat
      BY WidthType
    <3> QED BY <3>2, <3>3, <3>4 DEF Meets, Ends
  <2>3. (j = f /\ i = e) \/ (j = g /\ i = d)
    BY <1>3, <2>2 DEF TwoOf
  <2>4. CASE j = f /\ i = e
    <3>1. l = m
      BY <1>1, <1>5, <2>1, <2>4, OneBorderLeaf
    <3> QED BY <2>1, <2>4, <3>1
  <2>5. CASE j = g /\ i = d
    <3>1. l = n
      BY <1>1, <1>6, <2>1, <2>5, OneBorderLeaf
    <3> QED BY <2>1, <2>5, <3>1
  <2> QED BY <2>3, <2>4, <2>5
<1>10. a # b
  <2>1. SUFFICES ASSUME a = b PROVE FALSE
    OBVIOUS
  <2>2. EndOf(f, e) = EndOf(g, d) /\ HalfAt(f, e) = HalfAt(g, d)
    BY <2>1
  <2>3. /\ EndOf(f, e) \in Corner /\ HalfAt(f, e) \in Sides
        /\ FaceOf[EndOf(f, e)][HalfAt(f, e)] = f /\ FaceOf[EndOf(g, d)][HalfAt(g, d)] = g
    BY HalvesOfFace DEF EndOf, HalfAt
  <2>4. f = g
    BY <2>2, <2>3
  <2>5. e = d
    BY <2>2, <2>4, HalvesOfFace DEF EndOf, Ends
  <2> QED BY <1>3, <2>4, <2>5 DEF TwoOf
<1> HIDE DEF a, b
<1>11. BoundaryHalves(p) = {a, b}
  BY <1>7, <1>8, <1>9
<1>12. /\ \A j \in Face : OnFace(p, j) <=> j = f \/ j = g
       /\ f = g \/ Across2(f) # Across2(g)
  BY <1>3 DEF TwoOf
<1>13. PairAt(p, a, b, f, g)
  BY <1>7, <1>8, <1>10, <1>11, <1>12 DEF PairAt
<1> QED BY <1>13

\* There is none at any other point.
LEMMA NoBoundaryHalf ==
  ASSUME TypeOK, HalvesInv, phase \notin {"boundary", "geometry"},
         NEW p, ~ OnBoundary(p)
  PROVE  BoundaryHalves(p) = {}
<1> SUFFICES ASSUME NEW b \in BoundaryHalves(p) PROVE FALSE
  OBVIOUS
<1>1. PICK f \in Face, e \in Ends, d \in forest :
        AtBoundary(d, f) /\ Point(d, EndOf(f, e)) = p
  BY BoundaryHalfParts
<1>2. d \in Cells
  BY BalancedForest DEF TypeOK, SettingOK
<1>3. OnFace(p, f)
  BY <1>1, <1>2, EndsAtBorder DEF EndOf
<1> QED BY <1>3 DEF OnFace, OnBoundary, Face

\* What Since says of the phases.
LEMMA SinceIs ==
  ASSUME phase \in Phases
  PROVE  /\ Since("amr") <=> phase \notin {"boundary", "geometry"}
         /\ Since("points") <=> phase \notin Early \cup {"master", "corners"}
         /\ Since("forces") <=>
              phase \in {"forces", "coordinates", "density", "momentum", "accept", "accepted"}
         /\ Since("coordinates") <=>
              phase \in {"coordinates", "density", "momentum", "accept", "accepted"}
         /\ Since("density") <=> phase \in {"density", "momentum", "accept", "accepted"}
<1>1. DOMAIN Order = 1..15
  BY DEF Order
<1>2. PICK j \in 1..15 : Order[j] = phase
  BY DEF Order, Phases
<1>3. \A i, n \in 1..15 : Order[i] = Order[n] => i = n
  BY DEF Order
<1>4. /\ Order[3] = "amr" /\ Order[6] = "points" /\ Order[10] = "forces"
      /\ Order[11] = "coordinates" /\ Order[12] = "density"
  BY DEF Order
<1>5. /\ Since("amr") <=> j >= 3
      /\ Since("points") <=> j >= 6
      /\ Since("forces") <=> j >= 10
      /\ Since("coordinates") <=> j >= 11
      /\ Since("density") <=> j >= 12
  BY <1>1, <1>2, <1>3, <1>4 DEF Since
<1>6. j \in {1, 2, 3, 4, 5, 6, 7, 8, 9, 10, 11, 12, 13, 14, 15}
  BY <1>2
<1> QED BY <1>2, <1>5, <1>6 DEF Order, Early

\* The invariants say what TwoHalvesAtBoundary asks for.
LEMMA TwoHalves ==
  ASSUME TypeOK, HalvesInv
  PROVE  TwoHalvesAtBoundary
<1> SUFFICES ASSUME phase \notin {"boundary", "geometry"}, NEW c \in forest
             PROVE  /\ \A k \in Corner :
                         Cardinality(BoundaryHalves(Point(c, k)))
                           = IF OnBoundary(Point(c, k)) THEN 2 ELSE 0
                    /\ \A f \in Face :
                         /\ LowHalfOf(c, f).boundary = HighHalfOf(c, f).boundary
                         /\ LowHalfOf(c, f).normal = HighHalfOf(c, f).normal
  <2>1. phase \in Phases
    BY DEF TypeOK
  <2> QED BY <2>1, SinceIs DEF TwoHalvesAtBoundary
<1>1. ASSUME NEW k \in Corner
      PROVE  Cardinality(BoundaryHalves(Point(c, k)))
               = IF OnBoundary(Point(c, k)) THEN 2 ELSE 0
  <2>1. CASE OnBoundary(Point(c, k))
    <3>1. PICK a, b, f, g : PairAt(Point(c, k), a, b, f, g)
      BY <2>1, BoundaryPair
    <3>2. a # b /\ BoundaryHalves(Point(c, k)) = {a, b}
      BY <3>1 DEF PairAt
    <3>3. Cardinality({a, b}) = 2
      <4>1. IsFiniteSet({a}) /\ Cardinality({a}) = 1
        BY FS_Singleton
      <4>2. Cardinality({a} \cup {b}) = Cardinality({a}) + 1
        BY <3>2, <4>1, FS_AddElement
      <4>3. {a} \cup {b} = {a, b}
        OBVIOUS
      <4> QED BY <4>1, <4>2, <4>3
    <3> QED BY <2>1, <3>2, <3>3
  <2>2. CASE ~ OnBoundary(Point(c, k))
    <3>1. BoundaryHalves(Point(c, k)) = {}
      BY <2>2, NoBoundaryHalf
    <3> QED BY <2>2, <3>1, FS_EmptySet
  <2> QED BY <2>1, <2>2
<1>2. ASSUME NEW f \in Face
      PROVE  /\ LowHalfOf(c, f).boundary = HighHalfOf(c, f).boundary
             /\ LowHalfOf(c, f).normal = HighHalfOf(c, f).normal
  <2>1. /\ LowEnd[f] \in Corner /\ HighEnd[f] \in Corner
        /\ LowHalf[f] \in Sides /\ OtherHalf[LowHalf[f]] \in Sides
        /\ FaceOf[LowEnd[f]][LowHalf[f]] = f
        /\ FaceOf[HighEnd[f]][OtherHalf[LowHalf[f]]] = f
    BY HalvesOfFace
  <2>2. LowHalfOf(c, f).boundary = Bound(c, f) /\ LowHalfOf(c, f).normal = Outward[f]
    BY <2>1, HalvesKnown DEF LowHalfOf
  <2>3. HighHalfOf(c, f).boundary = Bound(c, f) /\ HighHalfOf(c, f).normal = Outward[f]
    BY <2>1, HalvesKnown DEF HighHalfOf
  <2> QED BY <2>2, <2>3
<1> QED BY <1>1, <1>2

-----------------------------------------------------------------------------
(* Sums of vectors and matrices. *)

\* Component i of the sum of F[x], x in S.
Part(F, S, i) == SumOver([x \in S |-> F[x][i]], S) % Modulus
VectorSum(F, S) == <<Part(F, S, 1), Part(F, S, 2)>>
MatrixSum(F, S) == <<Part(F, S, 1), Part(F, S, 2), Part(F, S, 3), Part(F, S, 4)>>

\* A sum of a function's values, by the function.
LEMMA TotalIsPart ==
  ASSUME NEW G, NEW S, DOMAIN G = S, NEW F, NEW i, \A x \in S : G[x] = F[x][i],
         G = [x \in S |-> G[x]]
  PROVE  SumFunction(G) % Modulus = Part(F, S, i)
<1>1. G = [x \in S |-> F[x][i]]
  OBVIOUS
<1>2. SumFunction(G) = SumOver(G, S)
  BY SumFunctionIs
<1> QED BY <1>1, <1>2 DEF Part

\* A sum of numbers is a residue.
LEMMA PartType ==
  ASSUME NEW F, NEW S, IsFiniteSet(S), NEW i, \A x \in S : F[x][i] \in Int
  PROVE  Part(F, S, i) \in Residue
<1> DEFINE G == [x \in S |-> F[x][i]]
<1>1. \A x \in S : G[x] \in Int
  OBVIOUS
<1> HIDE DEF G
<1>2. SumOver(G, S) \in Int
  BY <1>1, SumStep
<1>3. SumOver(G, S) % Modulus \in Residue
  BY <1>2, ResidueOf
<1> QED BY <1>3 DEF Part, G

\* A sum of vectors is a vector.
LEMMA VectorSumType ==
  ASSUME NEW F, NEW S, IsFiniteSet(S), \A x \in S : F[x] \in Vector
  PROVE  VectorSum(F, S) \in Vector
<1>1. \A x \in S : F[x][1] \in Int /\ F[x][2] \in Int
  BY VectorParts
<1>2. Part(F, S, 1) \in Residue /\ Part(F, S, 2) \in Residue
  BY <1>1, PartType
<1> QED BY <1>2 DEF VectorSum, Vector

\* A sum of matrices is a matrix.
LEMMA MatrixSumType ==
  ASSUME NEW F, NEW S, IsFiniteSet(S), \A x \in S : F[x] \in Matrix
  PROVE  MatrixSum(F, S) \in Matrix
<1>1. \A x \in S : F[x][1] \in Int /\ F[x][2] \in Int /\ F[x][3] \in Int /\ F[x][4] \in Int
  BY MatrixParts
<1>2. /\ Part(F, S, 1) \in Residue /\ Part(F, S, 2) \in Residue
      /\ Part(F, S, 3) \in Residue /\ Part(F, S, 4) \in Residue
  BY <1>1, PartType
<1> QED BY <1>2 DEF MatrixSum, Matrix

\* The sums of the model, of a function's values.
LEMMA VectorTotalIs ==
  ASSUME NEW F, NEW S
  PROVE  VectorTotal(LAMBDA x : F[x], S) = VectorSum(F, S)
<1>1. \A i : SumFunction([x \in S |-> F[x][i]]) % Modulus = Part(F, S, i)
  BY SumFunctionIs DEF Part
<1> QED BY <1>1 DEF VectorTotal, VectorSum, Total

\* The same for matrices.
LEMMA MatrixTotalIs ==
  ASSUME NEW F, NEW S
  PROVE  MatrixTotal(LAMBDA x : F[x], S) = MatrixSum(F, S)
<1>1. \A i : SumFunction([x \in S |-> F[x][i]]) % Modulus = Part(F, S, i)
  BY SumFunctionIs DEF Part
<1> QED BY <1>1 DEF MatrixTotal, MatrixSum, Total

-----------------------------------------------------------------------------
(* What the halves and the masters are made of. *)

ResistanceIn(c, k) == [s \in Sides |-> Resistance(c, half[c][k][s].length, half[c][k][s].normal)]
PushIn(c, k) == [s \in Sides |-> Push(half[c][k][s])]

\* The push on a corner is a sum over its two half edges.
LEMMA PushOfHalvesIs ==
  ASSUME NEW c, NEW k
  PROVE  PushOfHalves(c, k) = VectorSum(PushIn(c, k), Sides)
<1> DEFINE F == PushIn(c, k)
<1>1. \A s \in Sides : F[s] = Push(half[c][k][s])
  BY DEF PushIn
<1>2. \A i : [s \in Sides |-> F[s][i]] = [s \in Sides |-> Push(half[c][k][s])[i]]
  BY <1>1
<1>3. \A i : SumFunction([s \in Sides |-> Push(half[c][k][s])[i]]) % Modulus = Part(F, Sides, i)
  <2> TAKE i
  <2>1. SumFunction([s \in Sides |-> F[s][i]]) % Modulus = Part(F, Sides, i)
    BY SumFunctionIs DEF Part
  <2> QED BY <1>2, <2>1
<1> HIDE DEF F
<1> QED BY <1>3 DEF PushOfHalves, VectorTotal, VectorSum, Total, F

MasterIn(c, k) ==
  [f \in FacesAt(k) |->
     Resistance(c, Half(FirstSegment(c, f).length), FirstSegment(c, f).normal)]
MasterPush(c, k) ==
  [f \in FacesAt(k) |-> Scaled(Half(FirstSegment(c, f).length), FirstSegment(c, f).normal)]

\* The local master is made of sums over the corner's two faces.
LEMMA LocalMasterIs ==
  ASSUME NEW c, NEW k
  PROVE  LET m == MatrixSum(MasterIn(c, k), FacesAt(k))
         IN  LocalMaster(c, k) =
               [matrix |-> m,
                rhs |-> Plus(MatrixDotVector(m, cell[c].cur.velocity),
                             Scaled(cell[c].cur.pressure,
                                    VectorSum(MasterPush(c, k), FacesAt(k))))]
<1> DEFINE F == MasterIn(c, k)
           G == MasterPush(c, k)
           S == FacesAt(k)
           r(f) == Resistance(c, Half(FirstSegment(c, f).length), FirstSegment(c, f).normal)
           u(f) == Scaled(Half(FirstSegment(c, f).length), FirstSegment(c, f).normal)
<1>1. \A f \in S : F[f] = r(f) /\ G[f] = u(f)
  BY DEF MasterIn, MasterPush
<1>2. \A i : /\ [f \in S |-> F[f][i]] = [f \in S |-> r(f)[i]]
             /\ [f \in S |-> G[f][i]] = [f \in S |-> u(f)[i]]
  BY <1>1
<1>3. \A i : /\ SumFunction([f \in S |-> r(f)[i]]) % Modulus = Part(F, S, i)
             /\ SumFunction([f \in S |-> u(f)[i]]) % Modulus = Part(G, S, i)
  <2> TAKE i
  <2>1. /\ SumFunction([f \in S |-> F[f][i]]) % Modulus = Part(F, S, i)
        /\ SumFunction([f \in S |-> G[f][i]]) % Modulus = Part(G, S, i)
    BY SumFunctionIs DEF Part
  <2> QED BY <1>2, <2>1
<1>4. MatrixTotal(r, S) = MatrixSum(F, S)
  <2> HIDE DEF F, G, S, r, u
  <2> QED BY <1>3 DEF MatrixTotal, MatrixSum, Total
<1>5. VectorTotal(u, S) = VectorSum(G, S)
  <2> HIDE DEF F, G, S, r, u
  <2> QED BY <1>3 DEF VectorTotal, VectorSum, Total
<1>6. LocalMaster(c, k) =
        [matrix |-> MatrixTotal(r, S),
         rhs |-> Plus(MatrixDotVector(MatrixTotal(r, S), cell[c].cur.velocity),
                      Scaled(cell[c].cur.pressure, VectorTotal(u, S)))]
  BY DEF LocalMaster
<1> QED BY <1>4, <1>5, <1>6

\* The parts of a leaf's record.
LEMMA CellRecordParts ==
  ASSUME CellOK, NEW c \in forest
  PROVE  /\ cell[c] \in CellRecord /\ cell[c].cur \in GasState /\ cell[c].lag \in GasState
         /\ cell[c].mass \in Residue /\ cell[c].sound \in Residue
         /\ cell[c].cur.velocity \in Vector /\ cell[c].cur.velocity \in Int \X Int
         /\ cell[c].cur.pressure \in Int /\ cell[c].cur.density \in Int
         /\ Impedance(c) \in Int
<1>1. /\ cell[c] \in CellRecord /\ cell[c].cur \in GasState /\ cell[c].lag \in GasState
      /\ cell[c].mass \in Residue /\ cell[c].sound \in Residue
  BY DEF CellOK, CellRecord
<1>2. /\ cell[c].cur.velocity \in Vector /\ cell[c].cur.pressure \in Residue
      /\ cell[c].cur.density \in Residue
  BY <1>1 DEF GasState
<1>3. cell[c].cur.pressure \in Int /\ cell[c].cur.density \in Int /\ cell[c].sound \in Int
  BY <1>1, <1>2, ResidueIsInt
<1>4. Impedance(c) \in Residue
  BY <1>3, ResidueType DEF Impedance
<1>5. Impedance(c) \in Int /\ cell[c].cur.velocity \in Int \X Int
  BY <1>2, <1>4, ResidueIsInt, VectorIsPair
<1> QED BY <1>1, <1>2, <1>3, <1>5

\* What a half edge adds is a matrix.
LEMMA ResistanceType ==
  ASSUME CellOK, NEW c \in forest, NEW l \in Residue, NEW n \in Vector
  PROVE  Resistance(c, l, n) \in Matrix
<1>1. l \in Int /\ n \in Int \X Int /\ Impedance(c) \in Int
  BY ResidueIsInt, VectorIsPair, CellRecordParts
<1>2. Impedance(c) \otimes l \in Int
  BY <1>1, ResidueType, ResidueIsInt
<1>3. DyadicProduct(n, n) \in Matrix
  BY <1>1, VectorType
<1> QED BY <1>2, <1>3, MatrixType DEF Resistance

\* A pressure times a push, and a matrix times a velocity.
LEMMA EquationType ==
  ASSUME CellOK, NEW c \in forest, NEW m \in Matrix, NEW push \in Vector
  PROVE  /\ MatrixDotVector(m, cell[c].cur.velocity) \in Vector
         /\ Scaled(cell[c].cur.pressure, push) \in Vector
         /\ Plus(MatrixDotVector(m, cell[c].cur.velocity),
                 Scaled(cell[c].cur.pressure, push)) \in Vector
         /\ Plus(Scaled(cell[c].cur.pressure, push),
                 MatrixDotVector(m, cell[c].cur.velocity)) \in Vector
<1>1. cell[c].cur.velocity \in Int \X Int /\ cell[c].cur.pressure \in Int
  BY CellRecordParts
<1>2. MatrixDotVector(m, cell[c].cur.velocity) \in Vector
  BY <1>1, ProductType
<1>3. Scaled(cell[c].cur.pressure, push) \in Vector
  BY <1>1, VectorIsPair, VectorType
<1> QED BY <1>2, <1>3, VectorIsPair, VectorType

\* A segment has a length and a normal.
LEMMA FirstSegmentType ==
  ASSUME HalfOK, NEW c \in forest, NEW f \in Face
  PROVE  FirstSegment(c, f).length \in Residue /\ FirstSegment(c, f).normal \in Vector
<1>1. LowHalfOf(c, f) \in HalfRecord /\ HighHalfOf(c, f) \in HalfRecord
  BY HalvesOfFace DEF HalfOK, LowHalfOf, HighHalfOf
<1>2. /\ LowHalfOf(c, f).length \in Residue /\ HighHalfOf(c, f).length \in Residue
      /\ LowHalfOf(c, f).normal \in Vector
  BY <1>1 DEF HalfRecord
<1>3. LowHalfOf(c, f).length \oplus HighHalfOf(c, f).length \in Residue
  BY <1>2, ResidueIsInt, ResidueType
<1> QED BY <1>2, <1>3 DEF FirstSegment

\* Faces, corners and sides are finitely many.
LEMMA SmallSets ==
  /\ IsFiniteSet(Face) /\ IsFiniteSet(Corner) /\ IsFiniteSet(Sides)
  /\ \A k : FacesAt(k) \subseteq Face /\ IsFiniteSet(FacesAt(k))
<1>1. IsFiniteSet({"LEFT", "RIGHT"} \cup {"BOTTOM", "UP"})
  <2>1. IsFiniteSet({"LEFT"}) /\ IsFiniteSet({"RIGHT"}) /\ IsFiniteSet({"BOTTOM"}) /\ IsFiniteSet({"UP"})
    BY FS_Singleton
  <2>2. IsFiniteSet({"LEFT"} \cup {"RIGHT"}) /\ IsFiniteSet({"BOTTOM"} \cup {"UP"})
    BY <2>1, FS_Union
  <2>3. {"LEFT"} \cup {"RIGHT"} = {"LEFT", "RIGHT"} /\ {"BOTTOM"} \cup {"UP"} = {"BOTTOM", "UP"}
    OBVIOUS
  <2> QED BY <2>2, <2>3, FS_Union
<1>2. IsFiniteSet({"LEFTBOTTOM", "LEFTUP"} \cup {"RIGHTUP", "RIGHTBOTTOM"})
  <2>1. /\ IsFiniteSet({"LEFTBOTTOM"}) /\ IsFiniteSet({"LEFTUP"})
        /\ IsFiniteSet({"RIGHTUP"}) /\ IsFiniteSet({"RIGHTBOTTOM"})
    BY FS_Singleton
  <2>2. IsFiniteSet({"LEFTBOTTOM"} \cup {"LEFTUP"}) /\ IsFiniteSet({"RIGHTUP"} \cup {"RIGHTBOTTOM"})
    BY <2>1, FS_Union
  <2>3. /\ {"LEFTBOTTOM"} \cup {"LEFTUP"} = {"LEFTBOTTOM", "LEFTUP"}
        /\ {"RIGHTUP"} \cup {"RIGHTBOTTOM"} = {"RIGHTUP", "RIGHTBOTTOM"}
    OBVIOUS
  <2> QED BY <2>2, <2>3, FS_Union
<1>3. IsFiniteSet({"plus"} \cup {"minus"})
  <2>1. IsFiniteSet({"plus"}) /\ IsFiniteSet({"minus"})
    BY FS_Singleton
  <2> QED BY <2>1, FS_Union
<1>4. /\ Face = {"LEFT", "RIGHT"} \cup {"BOTTOM", "UP"}
      /\ Corner = {"LEFTBOTTOM", "LEFTUP"} \cup {"RIGHTUP", "RIGHTBOTTOM"}
      /\ Sides = {"plus"} \cup {"minus"}
  BY DEF Face, Corner, Sides
<1>5. IsFiniteSet(Face) /\ IsFiniteSet(Corner) /\ IsFiniteSet(Sides)
  BY <1>1, <1>2, <1>3, <1>4
<1>6. \A k : FacesAt(k) \subseteq Face
  BY DEF FacesAt
<1> QED BY <1>5, <1>6, FS_Subset

\* A local master is a mirror record.
LEMMA LocalMasterType ==
  ASSUME CellOK, HalfOK, NEW c \in forest, NEW k \in Corner
  PROVE  LocalMaster(c, k) \in MirrorRecord
<1> DEFINE S == FacesAt(k)
           F == MasterIn(c, k)
           G == MasterPush(c, k)
<1>1. IsFiniteSet(S) /\ S \subseteq Face
  BY SmallSets
<1>2. ASSUME NEW f \in S
      PROVE  F[f] \in Matrix /\ G[f] \in Vector
  <2> DEFINE l == Half(FirstSegment(c, f).length)
             n == FirstSegment(c, f).normal
  <2>1. FirstSegment(c, f).length \in Residue /\ n \in Vector
    BY <1>1, FirstSegmentType
  <2>2. l \in Residue /\ l \in Int
    BY <2>1, HalfType, ResidueIsInt
  <2>3. F[f] = Resistance(c, l, n) /\ G[f] = Scaled(l, n)
    BY DEF MasterIn, MasterPush
  <2> HIDE DEF l, n, F, G
  <2> QED BY <2>1, <2>2, <2>3, ResistanceType, VectorType, VectorIsPair
<1>3. MatrixSum(F, S) \in Matrix /\ VectorSum(G, S) \in Vector
  <2> HIDE DEF F, G, S
  <2> QED BY <1>1, <1>2, MatrixSumType, VectorSumType
<1>4. LocalMaster(c, k) =
        [matrix |-> MatrixSum(F, S),
         rhs |-> Plus(MatrixDotVector(MatrixSum(F, S), cell[c].cur.velocity),
                      Scaled(cell[c].cur.pressure, VectorSum(G, S)))]
  BY LocalMasterIs
<1> HIDE DEF F, G, S
<1> QED BY <1>3, <1>4, EquationType DEF MirrorRecord

\* Once the half edges are known, they stay, and with them what they tell.
LEMMA HalvesStay ==
  ASSUME TypeOK, HalvesInv, phase \notin Early, phase' \notin Early, setting' = setting,
         half' = half,
         \A h \in Hanging : edge'[h].lengths = edge[h].lengths /\ edge'[h].normals = edge[h].normals
  PROVE  HalvesInv'
<1>1. /\ forest' = forest /\ Hanging' = Hanging
      /\ \A c, f, l : HalfIn(c, f, l)' = HalfIn(c, f, l)
      /\ \A c, f : LengthOf(c, f)' = LengthOf(c, f)
  BY Same
<1>2. \A c \in forest : \A k \in Corner : \A s \in Sides :
        half[c][k][s] = HalfIn(c, FaceOf[k][s], LengthOf(c, FaceOf[k][s]))
  BY DEF HalvesInv
<1>3. \A h \in Hanging :
        /\ edge'[h].lengths = <<Half(HalfSideOf(h.parent)), Half(HalfSideOf(h.parent))>>
        /\ edge'[h].normals = <<Outward[h.face], Outward[h.face]>>
  BY DEF HalvesInv
<1> QED BY <1>1, <1>2, <1>3 DEF HalvesInv, Early

\* write_cell_local_master.
LEMMA WriteMastersOK ==
  ASSUME TypeOK, HalvesInv, WriteMasters
  PROVE  TypeOK' /\ HalvesInv'
<1>1. /\ phase = "master" /\ phase' = "corners" /\ setting' = setting
      /\ cell' = cell /\ node' = node /\ half' = half /\ point' = point /\ edge' = edge
      /\ mirror' = [c \in forest |-> [k \in Corner |-> LocalMaster(c, k)]]
  BY DEF WriteMasters, Step
<1>2. forest' = forest
  BY <1>1, Same
<1>3. MirrorOK'
  BY <1>1, <1>2, LocalMasterType DEF TypeOK, MirrorOK
<1>4. TypeOK'
  BY <1>1, <1>3, Same, TypeStays DEF TypeOK, Phases
<1>5. HalvesInv'
  BY <1>1, HalvesStay DEF Early
<1> QED BY <1>4, <1>5

\* Two has a root.
LEMMA RootType == RootOfTwo \in Residue
<1>1. \E r \in Residue : r \otimes r = 2
  <2>1. 6411 \in Residue /\ 2 \in Residue
    BY DEF Residue, Modulus
  <2>2. Modulus = 46337
    BY DEF Modulus
  <2>3. 6411 * 6411 = 2 + Modulus * 887
    BY <2>2
  <2>4. 6411 * 6411 \in Int /\ 2 \in Int /\ 887 \in Int
    OBVIOUS
  <2>5. (6411 * 6411) % Modulus = 2 % Modulus
    BY <2>3, <2>4, SameResidue
  <2>6. 6411 \otimes 6411 = 2
    BY <2>1, <2>5, ResidueIsNumber DEF \otimes
  <2> QED BY <2>1, <2>6
<1> QED BY <1>1 DEF RootOfTwo

\* A cosine is a residue.
LEMMA CosineType ==
  ASSUME NEW u, NEW n
  PROVE  Cosine(u, n) \in Residue
<1>1. Half(RootOfTwo) \in Residue
  BY RootType, ResidueIsInt, HalfType
<1> QED BY <1>1, UnitType DEF Cosine

\* The two matrices of the solvers.
Turned(c, k) ==
  LET slip == Minus(node[c][k].velocity, cell[c].cur.velocity)
      x(s) == (Impedance(c) \otimes half[c][k][s].length)
                \otimes Cosine(slip, half[c][k][s].normal)
      scalar == x("plus") \oplus x("minus")
  IN  <<scalar, 0, 0, scalar>>

\* A corner's matrix is that of the rotated solver or a sum over its half edges.
LEMMA CornerMatrixIs ==
  ASSUME NEW c, NEW k
  PROVE  CornerMatrix(c, k) =
           IF solver = "Rotated" /\ Minus(node[c][k].velocity, cell[c].cur.velocity) # Zero
             THEN Turned(c, k)
             ELSE MatrixSum(ResistanceIn(c, k), Sides)
<1> DEFINE F == ResistanceIn(c, k)
           r(s) == Resistance(c, half[c][k][s].length, half[c][k][s].normal)
<1>1. \A s \in Sides : F[s] = r(s)
  BY DEF ResistanceIn
<1>2. \A i : [s \in Sides |-> F[s][i]] = [s \in Sides |-> r(s)[i]]
  BY <1>1
<1>3. \A i : SumFunction([s \in Sides |-> r(s)[i]]) % Modulus = Part(F, Sides, i)
  <2> TAKE i
  <2>1. SumFunction([s \in Sides |-> F[s][i]]) % Modulus = Part(F, Sides, i)
    BY SumFunctionIs DEF Part
  <2> QED BY <1>2, <2>1
<1>4. MatrixTotal(r, Sides) = MatrixSum(F, Sides)
  <2> HIDE DEF F, r
  <2> QED BY <1>3 DEF MatrixTotal, MatrixSum, Total
<1>5. CornerMatrix(c, k) =
           IF solver = "Rotated" /\ Minus(node[c][k].velocity, cell[c].cur.velocity) # Zero
             THEN Turned(c, k) ELSE MatrixTotal(r, Sides)
  BY DEF CornerMatrix, Turned
<1> QED BY <1>4, <1>5

\* The parts of a corner's record, and of a half edge's.
LEMMA NodeRecordParts ==
  ASSUME NodeOK, NEW c \in forest, NEW k \in Corner
  PROVE  /\ node[c][k] \in NodeRecord
         /\ node[c][k].velocity \in Vector /\ node[c][k].velocity \in Int \X Int
         /\ node[c][k].matrix \in Matrix
         /\ node[c][k].rhs \in Vector /\ node[c][k].force \in Vector /\ node[c][k].flux \in Vector
<1>1. /\ node[c][k] \in NodeRecord /\ node[c][k].velocity \in Vector
      /\ node[c][k].matrix \in Matrix
      /\ node[c][k].rhs \in Vector /\ node[c][k].force \in Vector /\ node[c][k].flux \in Vector
  BY DEF NodeOK, NodeRecord
<1> QED BY <1>1, VectorIsPair

\* The parts of a half edge.
LEMMA HalfRecordParts ==
  ASSUME HalfOK, NEW c \in forest, NEW k \in Corner, NEW s \in Sides
  PROVE  /\ half[c][k][s] \in HalfRecord
         /\ half[c][k][s].length \in Residue /\ half[c][k][s].length \in Int
         /\ half[c][k][s].normal \in Vector /\ half[c][k][s].normal \in Int \X Int
<1>1. /\ half[c][k][s] \in HalfRecord
      /\ half[c][k][s].length \in Residue /\ half[c][k][s].normal \in Vector
  BY DEF HalfOK, HalfRecord
<1> QED BY <1>1, VectorIsPair, ResidueIsInt

\* A corner's matrix is a matrix.
LEMMA CornerMatrixType ==
  ASSUME CellOK, NodeOK, HalfOK, NEW c \in forest, NEW k \in Corner
  PROVE  CornerMatrix(c, k) \in Matrix
<1>1. MatrixSum(ResistanceIn(c, k), Sides) \in Matrix
  <2> DEFINE F == ResistanceIn(c, k)
  <2>1. ASSUME NEW s \in Sides
        PROVE  F[s] \in Matrix
    <3>1. half[c][k][s].length \in Residue /\ half[c][k][s].normal \in Vector
      BY HalfRecordParts
    <3>2. F[s] = Resistance(c, half[c][k][s].length, half[c][k][s].normal)
      BY DEF ResistanceIn
    <3> HIDE DEF F
    <3> QED BY <3>1, <3>2, ResistanceType
  <2> HIDE DEF F
  <2>2. MatrixSum(F, Sides) \in Matrix
    BY <2>1, SmallSets, MatrixSumType
  <2> QED BY <2>2 DEF F
<1>2. Turned(c, k) \in Matrix
  <2> DEFINE slip == Minus(node[c][k].velocity, cell[c].cur.velocity)
             x(s) == (Impedance(c) \otimes half[c][k][s].length)
                       \otimes Cosine(slip, half[c][k][s].normal)
  <2>1. ASSUME NEW s \in Sides
        PROVE  x(s) \in Int
    <3>1. Impedance(c) \otimes half[c][k][s].length \in Int
      BY CellRecordParts, HalfRecordParts, ResidueType, ResidueIsInt
    <3>2. Cosine(slip, half[c][k][s].normal) \in Int
      BY CosineType, ResidueIsInt
    <3> QED BY <3>1, <3>2, ResidueType, ResidueIsInt
  <2>2. "plus" \in Sides /\ "minus" \in Sides
    BY DEF Sides
  <2>3. x("plus") \in Int /\ x("minus") \in Int
    BY <2>1, <2>2
  <2>4. x("plus") \oplus x("minus") \in Residue
    <3> HIDE DEF x
    <3> QED BY <2>3, ResidueType
  <2>5. Turned(c, k) = <<x("plus") \oplus x("minus"), 0, 0, x("plus") \oplus x("minus")>>
    BY DEF Turned
  <2> HIDE DEF x
  <2> QED BY <2>4, <2>5, UnitType DEF Matrix
<1> QED BY <1>1, <1>2, CornerMatrixIs

\* A push is a vector.
LEMMA PushType ==
  ASSUME HalfOK, NEW c \in forest, NEW k \in Corner
  PROVE  PushOfHalves(c, k) \in Vector
<1> DEFINE F == PushIn(c, k)
<1>1. ASSUME NEW s \in Sides
      PROVE  F[s] \in Vector
  <2>1. F[s] = Scaled(half[c][k][s].length, half[c][k][s].normal)
    BY DEF PushIn, Push
  <2>2. half[c][k][s].length \in Int /\ half[c][k][s].normal \in Int \X Int
    BY HalfRecordParts
  <2> HIDE DEF F
  <2> QED BY <2>1, <2>2, VectorType
<1> HIDE DEF F
<1>2. VectorSum(F, Sides) \in Vector
  BY <1>1, SmallSets, VectorSumType
<1> QED BY <1>2, PushOfHalvesIs DEF F

\* quadrant_corner_matrix_assemble_callback.
LEMMA AssembleCornersOK ==
  ASSUME TypeOK, HalvesInv, AssembleCorners
  PROVE  TypeOK' /\ HalvesInv'
<1>1. /\ phase = "corners" /\ phase' = "points" /\ setting' = setting
      /\ cell' = cell /\ half' = half /\ point' = point /\ edge' = edge /\ mirror' = mirror
      /\ node' = [c \in forest |-> [k \in Corner |->
           LET m == CornerMatrix(c, k)
           IN  [node[c][k] EXCEPT
                  !.flux = Zero, !.matrix = m,
                  !.rhs = Plus(Scaled(cell[c].cur.pressure, PushOfHalves(c, k)),
                               MatrixDotVector(m, cell[c].cur.velocity))]]]
  BY DEF AssembleCorners, Step
<1>2. forest' = forest
  BY <1>1, Same
<1>3. ASSUME NEW c \in forest, NEW k \in Corner
      PROVE  node'[c][k] \in NodeRecord
  <2> DEFINE m == CornerMatrix(c, k)
             r == Plus(Scaled(cell[c].cur.pressure, PushOfHalves(c, k)),
                       MatrixDotVector(m, cell[c].cur.velocity))
  <2>1. node'[c][k] = [node[c][k] EXCEPT !.flux = Zero, !.matrix = m, !.rhs = r]
    BY <1>1
  <2>2. m \in Matrix
    BY CornerMatrixType DEF TypeOK
  <2> HIDE DEF m
  <2>3. r \in Vector
    BY <2>2, PushType, EquationType DEF TypeOK
  <2> HIDE DEF r
  <2>4. node[c][k] \in NodeRecord
    BY NodeRecordParts DEF TypeOK
  <2> QED BY <2>1, <2>2, <2>3, <2>4, ZeroType DEF NodeRecord
<1>4. NodeOK'
  BY <1>1, <1>2, <1>3 DEF NodeOK
<1>5. TypeOK'
  BY <1>1, <1>4, Same, TypeStays DEF TypeOK, Phases
<1>6. HalvesInv'
  BY <1>1, HalvesStay DEF Early
<1> QED BY <1>5, <1>6

-----------------------------------------------------------------------------
(* The boundary halves of a point. *)

RankOf(b) == 2 * ZOrder(b[1][1]) + (IF b[2] = "plus" THEN 0 ELSE 1)

\* Two of them, by rank.
LEMMA InOrderOfTwo ==
  ASSUME NEW a, NEW b, RankOf(a) \in Int, RankOf(b) \in Int, RankOf(a) < RankOf(b)
  PROVE  InOrder({a, b}) = <<HalfHere(a), HalfHere(b)>>
<1> DEFINE S == {a, b}
           place(x) == Cardinality({d \in S : RankOf(d) <= RankOf(x)})
<1>1. a # b
  OBVIOUS
<1>2. IsFiniteSet({a}) /\ Cardinality({a}) = 1
  BY FS_Singleton
<1>3. Cardinality(S) = 2
  <2>1. Cardinality({a} \cup {b}) = Cardinality({a}) + 1
    BY <1>1, <1>2, FS_AddElement
  <2>2. {a} \cup {b} = S
    OBVIOUS
  <2> QED BY <1>2, <2>1, <2>2
<1>4. {d \in S : RankOf(d) <= RankOf(a)} = {a} /\ {d \in S : RankOf(d) <= RankOf(b)} = S
  <2> HIDE DEF S
  <2>1. a \in S /\ b \in S /\ \A d \in S : d = a \/ d = b
    BY DEF S
  <2>2. ~ (RankOf(b) <= RankOf(a)) /\ RankOf(a) <= RankOf(a) /\ RankOf(b) <= RankOf(b)
        /\ RankOf(a) <= RankOf(b)
    OBVIOUS
  <2> QED BY <2>1, <2>2
<1>5. place(a) = 1 /\ place(b) = 2
  BY <1>2, <1>3, <1>4
<1> DEFINE at(i) == LET x == CHOOSE x \in S : place(x) = i
                    IN  half[x[1][1]][x[1][2]][x[2]]
<1>6. InOrder(S) = [i \in 1..Cardinality(S) |-> at(i)]
  BY DEF InOrder, RankOf
<1>7. (CHOOSE x \in S : place(x) = 1) = a /\ (CHOOSE x \in S : place(x) = 2) = b
  <2>1. a \in S /\ b \in S /\ \A d \in S : d = a \/ d = b
    OBVIOUS
  <2> HIDE DEF place, S
  <2> QED BY <1>5, <2>1
<1>8. at(1) = HalfHere(a) /\ at(2) = HalfHere(b)
  BY <1>7 DEF HalfHere
<1>9. 1..2 = {1, 2}
  OBVIOUS
<1> HIDE DEF at, S, place
<1> DEFINE f == InOrder(S)
<1>10. f = [i \in {1, 2} |-> f[i]] /\ f[1] = HalfHere(a) /\ f[2] = HalfHere(b)
  BY <1>3, <1>6, <1>8, <1>9
<1> HIDE DEF f
<1>11. f = <<HalfHere(a), HalfHere(b)>>
  BY <1>10, PairByParts
<1> QED BY <1>11 DEF f, S

\* Places in z-order are numbers.
LEMMA ZOrderType ==
  ASSUME NEW c \in Cells
  PROVE  ZOrder(c) \in Nat
<1>1. /\ c.x \in Nat /\ c.y \in Nat /\ Side(c) \in Nat /\ Side(c) > 0
      /\ c.x + Side(c) <= Width /\ c.y + Side(c) <= Width
  BY CellInWidth
<1>2. Width \in Nat /\ Depth \in 0..Depth
  BY WidthType, DepthAssumption
<1>3. c.x \in 0..(PowerOfTwo[Depth] - 1) /\ c.y \in 0..(PowerOfTwo[Depth] - 1)
  BY <1>1, <1>2 DEF Width
<1>4. Spread[c.x] \in Nat /\ Spread[c.y] \in Nat
  BY <1>2, <1>3, SpreadBound
<1> QED BY <1>4 DEF ZOrder

\* A leaf has one place in the order, and one corner at a point.
LEMMA RanksDiffer ==
  ASSUME NEW p, NEW a \in BoundaryHalves(p), NEW b \in BoundaryHalves(p), a # b,
         SettingOK
  PROVE  RankOf(a) \in Int /\ RankOf(b) \in Int /\ RankOf(a) # RankOf(b)
<1>1. /\ forest \subseteq Cells /\ \A u, v \in forest : Overlap(u, v) => u = v
  BY BalancedForest DEF SettingOK
<1>2. ASSUME NEW x \in BoundaryHalves(p)
      PROVE  /\ x = <<x[1], x[2]>> /\ x[1] = <<x[1][1], x[1][2]>>
             /\ x[1][1] \in forest /\ x[1][2] \in Corner /\ x[2] \in Sides
             /\ Point(x[1][1], x[1][2]) = p
  <2>1. x \in Around(p) \X Sides
    BY DEF BoundaryHalves
  <2>2. x = <<x[1], x[2]>> /\ x[1] \in Around(p) /\ x[2] \in Sides
    BY <2>1
  <2>3. x[1] \in forest \X Corner /\ Point(x[1][1], x[1][2]) = p
    BY <2>2 DEF Around, Corners
  <2> QED BY <2>2, <2>3
<1> DEFINE c == a[1][1]
           d == b[1][1]
<1>3. c \in Cells /\ d \in Cells /\ c \in forest /\ d \in forest
  BY <1>1, <1>2
<1>4. ZOrder(c) \in Nat /\ ZOrder(d) \in Nat
  BY <1>3, ZOrderType
<1>5. ASSUME ZOrder(c) = ZOrder(d), a[2] = b[2]
      PROVE  FALSE
  <2>1. c = d
    <3>1. Side(d) \in Nat /\ Side(d) > 0
      BY <1>3, CellInWidth
    <3>2. Side(d) * Side(d) > 0 /\ Side(d) * Side(d) \in Nat
      BY <3>1
    <3>3. ZOrder(d) <= ZOrder(c) /\ ZOrder(c) < ZOrder(d) + Side(d) * Side(d)
      BY <1>4, <1>5, <3>2
    <3>4. Overlap(c, d)
      BY <1>3, <3>3, ZOrderInside
    <3> QED BY <1>1, <1>3, <3>4
  <2>2. a[1][2] = b[1][2]
    <3>1. Point(c, a[1][2]) = Point(c, b[1][2])
      BY <1>2, <2>1
    <3>2. a[1][2] \in Corner /\ b[1][2] \in Corner
      BY <1>2
    <3>3. c.x \in Nat /\ c.y \in Nat /\ Side(c) \in Nat /\ Side(c) > 0
      BY <1>3, CellInWidth
    <3> HIDE DEF c
    <3> QED BY <3>1, <3>2, <3>3 DEF Point, Corner
  <2>3. a = <<<<c, a[1][2]>>, a[2]>> /\ b = <<<<d, b[1][2]>>, b[2]>>
    BY <1>2
  <2> QED BY <1>5, <2>1, <2>2, <2>3
<1>6. a[2] \in Sides /\ b[2] \in Sides
  BY <1>2
<1> DEFINE m == IF a[2] = "plus" THEN 0 ELSE 1
           n == IF b[2] = "plus" THEN 0 ELSE 1
<1>7. RankOf(a) = 2 * ZOrder(c) + m /\ RankOf(b) = 2 * ZOrder(d) + n
  BY DEF RankOf
<1>8. m \in {0, 1} /\ n \in {0, 1} /\ (m = n <=> a[2] = b[2])
  BY <1>6 DEF Sides
<1> HIDE DEF m, n, c, d
<1> QED BY <1>4, <1>5, <1>7, <1>8

-----------------------------------------------------------------------------
(* The equations of the points. *)

\* The two boundary halves of a point on the faces f and g of the domain.
TwoBounds(p, bs, f, g) ==
  /\ bs \in HalfRecord \X HalfRecord
  /\ bs[1].boundary = boundary[f] /\ bs[1].normal = Outward[f]
  /\ bs[2].boundary = boundary[g] /\ bs[2].normal = Outward[g]
  /\ \A j \in Face : OnFace(p, j) <=> j = f \/ j = g
  /\ f = g \/ Across2(f) # Across2(g)
BounsInv ==
  phase \notin Early \cup {"master", "corners", "points"} =>
    \A c \in forest : \A k \in Corner :
      Regular(c, k) /\ OnBoundary(Point(c, k)) =>
        \E f, g \in Face : TwoBounds(Point(c, k), point[c][k].bouns, f, g)

\* A boundary half is a half edge.
LEMMA HalfHereType ==
  ASSUME HalfOK, NEW p, NEW b \in BoundaryHalves(p)
  PROVE  HalfHere(b) \in HalfRecord
<1>1. b[1] \in Around(p) /\ b[2] \in Sides
  BY DEF BoundaryHalves
<1>2. b[1][1] \in forest /\ b[1][2] \in Corner
  BY <1>1 DEF Around, Corners
<1> QED BY <1>1, <1>2, HalfRecordParts DEF HalfHere

\* Two boundary halves in order are the two, one way or the other.
LEMMA TwoBoundsInOrder ==
  ASSUME TypeOK, HalvesInv, phase \notin {"boundary", "geometry"},
         NEW c \in forest, NEW k \in Corner, OnBoundary(Point(c, k))
  PROVE  LET bs == BoundaryHalves(Point(c, k))
         IN  /\ Cardinality(bs) = 2
             /\ \E f, g \in Face : TwoBounds(Point(c, k), InOrder(bs), f, g)
<1> DEFINE p == Point(c, k)
           bs == BoundaryHalves(p)
<1>1. PICK a, b, f, g : f \in Face /\ g \in Face /\ PairAt(p, a, b, f, g)
  BY BoundaryPair
<1>2. a # b /\ bs = {a, b}
  BY <1>1 DEF PairAt
<1>3. SettingOK /\ HalfOK
  BY DEF TypeOK
<1>4. a \in BoundaryHalves(p) /\ b \in BoundaryHalves(p)
  BY <1>2
<1> HIDE DEF p, bs
<1>5. RankOf(a) \in Int /\ RankOf(b) \in Int /\ RankOf(a) # RankOf(b)
  BY <1>2, <1>3, <1>4, RanksDiffer
<1>6. HalfHere(a) \in HalfRecord /\ HalfHere(b) \in HalfRecord
  BY <1>3, <1>4, HalfHereType
<1>7. Cardinality(bs) = 2
  <2>1. OnBoundary(p)
    BY DEF p
  <2>2. TwoHalvesAtBoundary
    BY TwoHalves
  <2>3. Since("amr")
    BY SinceIs DEF TypeOK
  <2> QED BY <2>1, <2>2, <2>3 DEF TwoHalvesAtBoundary, p, bs
<1>8. CASE RankOf(a) < RankOf(b)
  <2>1. InOrder(bs) = <<HalfHere(a), HalfHere(b)>>
    BY <1>2, <1>5, <1>8, InOrderOfTwo
  <2>2. TwoBounds(p, InOrder(bs), f, g)
    BY <1>1, <1>6, <2>1 DEF TwoBounds, PairAt
  <2> QED BY <1>1, <1>7, <2>2 DEF p, bs
<1>9. CASE RankOf(b) < RankOf(a)
  <2>1. InOrder({b, a}) = <<HalfHere(b), HalfHere(a)>>
    BY <1>5, <1>9, InOrderOfTwo
  <2>2. InOrder(bs) = <<HalfHere(b), HalfHere(a)>>
    <3>1. {b, a} = bs
      BY <1>2
    <3> QED BY <2>1, <3>1
  <2>3. TwoBounds(p, InOrder(bs), g, f)
    BY <1>1, <1>6, <2>2 DEF TwoBounds, PairAt
  <2> QED BY <1>1, <1>7, <2>3 DEF p, bs
<1> QED BY <1>5, <1>8, <1>9

CornerMatrices(S) == [q \in S |-> node[q[1]][q[2]].matrix]
CornerSides(S) == [q \in S |-> node[q[1]][q[2]].rhs]

\* The sums of the matrices and the right-hand sides of the corners in S.
LEMMA CornerSumsAre ==
  ASSUME NEW S
  PROVE  /\ MatrixTotal(LAMBDA q : node[q[1]][q[2]].matrix, S) = MatrixSum(CornerMatrices(S), S)
         /\ VectorTotal(LAMBDA q : node[q[1]][q[2]].rhs, S) = VectorSum(CornerSides(S), S)
<1> DEFINE F == CornerMatrices(S)
           G == CornerSides(S)
           m(q) == node[q[1]][q[2]].matrix
           r(q) == node[q[1]][q[2]].rhs
<1>1. \A q \in S : F[q] = m(q) /\ G[q] = r(q)
  BY DEF CornerMatrices, CornerSides
<1>2. \A i : /\ [q \in S |-> F[q][i]] = [q \in S |-> m(q)[i]]
             /\ [q \in S |-> G[q][i]] = [q \in S |-> r(q)[i]]
  BY <1>1
<1>3. \A i : /\ SumFunction([q \in S |-> m(q)[i]]) % Modulus = Part(F, S, i)
             /\ SumFunction([q \in S |-> r(q)[i]]) % Modulus = Part(G, S, i)
  <2> TAKE i
  <2>1. /\ SumFunction([q \in S |-> F[q][i]]) % Modulus = Part(F, S, i)
        /\ SumFunction([q \in S |-> G[q][i]]) % Modulus = Part(G, S, i)
    BY SumFunctionIs DEF Part
  <2> QED BY <1>2, <2>1
<1>4. MatrixTotal(m, S) = MatrixSum(F, S)
  <2> HIDE DEF F, G, m, r
  <2> QED BY <1>3 DEF MatrixTotal, MatrixSum, Total
<1>5. VectorTotal(r, S) = VectorSum(G, S)
  <2> HIDE DEF F, G, m, r
  <2> QED BY <1>3 DEF VectorTotal, VectorSum, Total
<1> QED BY <1>4, <1>5

\* The sums around a point are a matrix and a vector.
LEMMA CornerSumsType ==
  ASSUME NodeOK, NEW S, S \subseteq Corners, IsFiniteSet(S)
  PROVE  /\ MatrixSum(CornerMatrices(S), S) \in Matrix
         /\ VectorSum(CornerSides(S), S) \in Vector
<1> DEFINE F == CornerMatrices(S)
           G == CornerSides(S)
<1>1. ASSUME NEW q \in S
      PROVE  F[q] \in Matrix /\ G[q] \in Vector
  <2>1. q[1] \in forest /\ q[2] \in Corner
    BY DEF Corners
  <2> QED BY <2>1, NodeRecordParts DEF CornerMatrices, CornerSides
<1> HIDE DEF F, G
<1>2. MatrixSum(F, S) \in Matrix /\ VectorSum(G, S) \in Vector
  BY <1>1, MatrixSumType, VectorSumType
<1> QED BY <1>2 DEF F, G

\* The corners of a forest are finitely many.
LEMMA CornersFinite ==
  ASSUME SettingOK
  PROVE  IsFiniteSet(Corners) /\ \A p : Around(p) \subseteq Corners /\ IsFiniteSet(Around(p))
<1>1. IsFiniteSet(forest)
  BY FiniteForest, BalancedForest DEF SettingOK
<1>2. IsFiniteSet(Corners)
  BY <1>1, SmallSets, FS_Product DEF Corners
<1>3. \A p : Around(p) \subseteq Corners
  BY DEF Around
<1> QED BY <1>2, <1>3, FS_Subset

\* The equation of a point, by sums of functions.
LEMMA PointAtIs ==
  ASSUME NEW c, NEW k
  PROVE  LET p == Point(c, k)
             bs == BoundaryHalves(p)
         IN  PointAt(c, k) =
               [matrix |-> MatrixSum(CornerMatrices(Around(p)), Around(p)),
                rhs |-> VectorSum(CornerSides(Around(p)), Around(p)),
                bouns |-> IF Cardinality(bs) = 2 THEN InOrder(bs) ELSE point[c][k].bouns]
BY CornerSumsAre DEF PointAt

\* The parts of a point's record.
LEMMA PointRecordParts ==
  ASSUME PointOK, NEW c \in forest, NEW k \in Corner
  PROVE  /\ point[c][k] \in PointRecord
         /\ point[c][k].matrix \in Matrix /\ point[c][k].rhs \in Vector
         /\ point[c][k].bouns \in {<<>>} \cup (HalfRecord \X HalfRecord)
BY DEF PointOK, PointRecord

\* quadrant_corner_to_point_matrix_assemble_callback.
LEMMA AssemblePointsOK ==
  ASSUME TypeOK, HalvesInv, AssemblePoints
  PROVE  TypeOK' /\ HalvesInv' /\ BounsInv'
<1>1. /\ phase = "points" /\ phase' = "velocity" /\ setting' = setting
      /\ cell' = cell /\ node' = node /\ half' = half /\ edge' = edge /\ mirror' = mirror
      /\ point' = [c \in forest |-> [k \in Corner |->
                    IF Regular(c, k) THEN PointAt(c, k) ELSE point[c][k]]]
  BY DEF AssemblePoints, Step
<1>2. forest' = forest /\ boundary' = boundary /\ \A c, k : Regular(c, k)' = Regular(c, k)
  BY <1>1, Same
<1>3. ASSUME NEW c \in forest, NEW k \in Corner, Regular(c, k)
      PROVE  /\ point'[c][k] \in PointRecord
             /\ OnBoundary(Point(c, k)) =>
                  \E f, g \in Face : TwoBounds(Point(c, k), point'[c][k].bouns, f, g)
  <2> DEFINE p == Point(c, k)
             bs == BoundaryHalves(p)
             m == MatrixSum(CornerMatrices(Around(p)), Around(p))
             r == VectorSum(CornerSides(Around(p)), Around(p))
             b == IF Cardinality(bs) = 2 THEN InOrder(bs) ELSE point[c][k].bouns
  <2>1. point'[c][k] = [matrix |-> m, rhs |-> r, bouns |-> b]
    BY <1>1, <1>3, PointAtIs
  <2>2. m \in Matrix /\ r \in Vector
    BY CornersFinite, CornerSumsType DEF TypeOK
  <2>3. point[c][k].bouns \in {<<>>} \cup (HalfRecord \X HalfRecord)
    BY PointRecordParts DEF TypeOK
  <2>4. ASSUME OnBoundary(p)
        PROVE  \E f, g \in Face : TwoBounds(p, b, f, g)
    BY <1>1, <2>4, TwoBoundsInOrder
  <2>5. b \in {<<>>} \cup (HalfRecord \X HalfRecord)
    <3>1. CASE OnBoundary(p)
      BY <2>4, <3>1 DEF TwoBounds
    <3>2. CASE ~ OnBoundary(p)
      <4>1. bs = {}
        BY <1>1, <3>2, NoBoundaryHalf
      <4>2. Cardinality(bs) # 2
        BY <4>1, FS_EmptySet
      <4> QED BY <2>3, <4>2
    <3> QED BY <3>1, <3>2
  <2> HIDE DEF m, r, b, bs
  <2>6. point'[c][k] \in PointRecord
    BY <2>1, <2>2, <2>5 DEF PointRecord
  <2>7. point'[c][k].bouns = b
    BY <2>1
  <2> QED BY <2>4, <2>6, <2>7
<1>4. ASSUME NEW c \in forest, NEW k \in Corner
      PROVE  point'[c][k] \in PointRecord
  <2>1. CASE Regular(c, k)
    BY <1>3, <2>1
  <2>2. CASE ~ Regular(c, k)
    <3>1. point'[c][k] = point[c][k]
      BY <1>1, <2>2
    <3> QED BY <3>1, PointRecordParts DEF TypeOK
  <2> QED BY <2>1, <2>2
<1>5. PointOK'
  <2>1. point' \in [forest -> [Corner -> PointRecord]]
    <3> DEFINE x(c, k) == IF Regular(c, k) THEN PointAt(c, k) ELSE point[c][k]
    <3>1. point' = [c \in forest |-> [k \in Corner |-> x(c, k)]]
      BY <1>1
    <3>2. \A c \in forest : \A k \in Corner : x(c, k) = point'[c][k]
      BY <1>1
    <3> HIDE DEF x
    <3> QED BY <1>4, <3>1, <3>2
  <2> QED BY <1>2, <2>1 DEF PointOK
<1>6. TypeOK'
  BY <1>1, <1>5, Same, TypeStays DEF TypeOK, Phases
<1>7. HalvesInv'
  BY <1>1, HalvesStay DEF Early
<1>8. BounsInv'
  <2>1. \A p, bs, f, g : TwoBounds(p, bs, f, g)' = TwoBounds(p, bs, f, g)
    BY <1>2 DEF TwoBounds
  <2> QED BY <1>2, <1>3, <2>1 DEF BounsInv
<1> QED BY <1>6, <1>7, <1>8

\* Once the boundary halves of the points are known, they stay.
LEMMA BounsStay ==
  ASSUME BounsInv, setting' = setting,
         phase \notin Early \cup {"master", "corners", "points"},
         \A c \in forest : \A k \in Corner :
           Regular(c, k) => point'[c][k].bouns = point[c][k].bouns
  PROVE  BounsInv'
<1>1. forest' = forest /\ boundary' = boundary /\ \A c, k : Regular(c, k)' = Regular(c, k)
  BY Same
<1>2. \A p, bs, f, g : TwoBounds(p, bs, f, g)' = TwoBounds(p, bs, f, g)
  BY <1>1 DEF TwoBounds
<1> QED BY <1>1, <1>2 DEF BounsInv

-----------------------------------------------------------------------------
(* The velocities of the corners. *)

\* Along a wall the velocity across it is zero.
LEMMA AlongWallIs ==
  ASSUME NEW wall \in HalfRecord, NEW u \in Vector, NEW m \in Matrix
  PROVE  LET i == IF wall.normal[1] = 0 THEN 2 ELSE 1
         IN  AlongWall(wall, u, m) \in Vector /\ AlongWall(wall, u, m)[i] = 0
<1> DEFINE i == IF wall.normal[1] = 0 THEN 2 ELSE 1
           d == MatrixDotVector(m, Push(wall))
           w == IF d[i] = 0 THEN 0 ELSE (0 \ominus u[i]) \oslash d[i]
           v == Plus(u, Scaled(w, d))
<1>1. i \in {1, 2}
  OBVIOUS
<1>2. wall.length \in Residue /\ wall.normal \in Vector
  BY DEF HalfRecord
<1>3. Push(wall) \in Int \X Int
  BY <1>2, ResidueIsInt, VectorIsPair, VectorType DEF Push
<1>4. d \in Vector
  BY <1>3, ProductType
<1> HIDE DEF i, d
<1>5. d[i] \in Residue /\ u[i] \in Int
  BY <1>1, <1>4, VectorParts
<1>6. w \in Int
  <2>1. 0 \ominus u[i] \in Int
    <3>1. 0 \ominus u[i] \in Residue
      BY <1>5, ResidueType
    <3> QED BY <3>1, ResidueIsInt
  <2>2. (0 \ominus u[i]) \oslash d[i] \in Int
    BY <1>5, <2>1, QuotientType, ResidueIsInt
  <2> QED BY <2>2
<1> HIDE DEF w
<1>7. v \in Vector
  BY <1>4, <1>6, VectorIsPair, VectorType
<1>8. AlongWall(wall, u, m) = [v EXCEPT ![i] = 0]
  BY DEF AlongWall, i, d, w
<1> HIDE DEF v
<1>9. v = <<v[1], v[2]>> /\ v[1] \in Residue /\ v[2] \in Residue /\ DOMAIN v = {1, 2}
  BY <1>7, VectorParts
<1> DEFINE x == [v EXCEPT ![i] = 0]
<1>10. x = [j \in {1, 2} |-> x[j]] /\ x[i] = 0 /\ x[1] \in Residue /\ x[2] \in Residue
  BY <1>1, <1>9, UnitType
<1> HIDE DEF x
<1>11. x = <<x[1], x[2]>>
  BY <1>10, PairByParts
<1>12. x \in Vector
  BY <1>10, <1>11 DEF Vector
<1> QED BY <1>8, <1>10, <1>12 DEF x, i

\* What the solver finds for a boundary point: no velocity across a wall.
LEMMA BoundaryVelocityIs ==
  ASSUME SettingOK, NEW p, NEW bs, NEW f \in Face, NEW g \in Face, TwoBounds(p, bs, f, g),
         NEW m \in Matrix, NEW r \in Vector
  PROVE  LET v == BoundaryVelocity(bs[1], bs[2], m, r)
         IN  /\ v \in Vector
             /\ \A j \in Face : OnFace(p, j) /\ boundary[j] = "wall" => v[Across2(j)] = 0
<1> DEFINE a == bs[1]
           b == bs[2]
           u == MatrixDotVector(m, r)
           v == BoundaryVelocity(a, b, m, r)
<1>1. /\ a \in HalfRecord /\ b \in HalfRecord
      /\ a.boundary = boundary[f] /\ a.normal = Outward[f]
      /\ b.boundary = boundary[g] /\ b.normal = Outward[g]
      /\ \A j \in Face : OnFace(p, j) <=> j = f \/ j = g
      /\ f = g \/ Across2(f) # Across2(g)
  BY DEF TwoBounds
<1>2. boundary[f] \in {"wall", "free"} /\ boundary[g] \in {"wall", "free"}
  BY DEF SettingOK, BoundaryType
<1>3. u \in Vector
  BY VectorIsPair, ProductType
<1>4. ASSUME NEW j \in Face
      PROVE  /\ Across2(j) = IF Outward[j][1] = 0 THEN 2 ELSE 1
             /\ Across2(j) \in {1, 2}
  <2>1. Outward[j][Across2(j)] # 0 /\ Outward[j][3 - Across2(j)] = 0
    BY OutwardType
  <2>2. Across2(j) = 1 \/ Across2(j) = 2
    BY DEF Across2
  <2>3. CASE Across2(j) = 1
    BY <2>1, <2>3
  <2>4. CASE Across2(j) = 2
    <3>1. 3 - 2 = 1
      OBVIOUS
    <3> QED BY <2>1, <2>4, <3>1
  <2> QED BY <2>2, <2>3, <2>4
<1>5. /\ AlongWall(a, u, m) \in Vector /\ AlongWall(a, u, m)[Across2(f)] = 0
      /\ AlongWall(b, u, m) \in Vector /\ AlongWall(b, u, m)[Across2(g)] = 0
  <2>1. /\ Across2(f) = IF a.normal[1] = 0 THEN 2 ELSE 1
        /\ Across2(g) = IF b.normal[1] = 0 THEN 2 ELSE 1
    BY <1>1, <1>4
  <2> DEFINE i(wall) == IF wall.normal[1] = 0 THEN 2 ELSE 1
  <2>2. \A wall \in HalfRecord :
          AlongWall(wall, u, m) \in Vector /\ AlongWall(wall, u, m)[i(wall)] = 0
    BY <1>3, AlongWallIs
  <2>3. a \in HalfRecord /\ b \in HalfRecord
    BY <1>1
  <2> HIDE DEF a, b, u
  <2> QED BY <2>1, <2>2, <2>3
<1>6. v = CASE a.boundary = "free" /\ b.boundary = "free" -> u
            [] a.boundary = "wall" /\ b.boundary = "free" -> AlongWall(a, u, m)
            [] a.boundary = "free" /\ b.boundary = "wall" -> AlongWall(b, u, m)
            [] a.boundary = "wall" /\ b.boundary = "wall" ->
                 IF Cross2(a.normal, b.normal) = 0 THEN AlongWall(a, u, m) ELSE Zero
  BY DEF BoundaryVelocity
<1>7. ASSUME f # g
      PROVE  Cross2(a.normal, b.normal) # 0
  <2> DEFINE n == 0 \ominus 1
  <2>1. /\ Outward["LEFT"] = <<n, 0>> /\ Outward["RIGHT"] = <<1, 0>>
        /\ Outward["BOTTOM"] = <<0, n>> /\ Outward["UP"] = <<0, 1>>
    BY DEF Outward
  <2>2. n \in Residue /\ n # 0
    <3>1. n \in Residue
      BY ResidueType
    <3>2. Outward["LEFT"][Across2("LEFT")] # 0
      BY OutwardType DEF Face
    <3> QED BY <2>1, <3>1, <3>2 DEF Across2
  <2>3. \A x \in Residue : /\ x \otimes 0 = 0 /\ 0 \otimes x = 0 /\ x \otimes 1 = x /\ 1 \otimes x = x
                           /\ x \ominus 0 = x
    BY ResidueIsNumber, UnitType DEF \otimes, \ominus
  <2>4. n \otimes n = 1
    <3>1. Modulus \in Int /\ (-1) * (-1) = 1 /\ -1 \in Int /\ 0 - 1 = -1
      BY UnitType
    <3>2. ((0 - 1) % Modulus) * ((0 - 1) % Modulus) \in Int
      <4>1. (0 - 1) % Modulus \in Residue
        BY <3>1, ResidueOf
      <4> QED BY <4>1, ResidueIsInt
    <3>3. (((0 - 1) % Modulus) * ((0 - 1) % Modulus)) % Modulus = ((0 - 1) * (0 - 1)) % Modulus
      BY <3>1, ResidueOfProduct
    <3>4. (0 - 1) * (0 - 1) = 1 /\ 1 % Modulus = 1
      BY UnitType, ResidueIsNumber
    <3> QED BY <3>3, <3>4 DEF \otimes, \ominus
  <2>5. 0 \ominus 1 # 0 /\ 1 # 0 /\ 0 \ominus n # 0
    <3>1. 0 \ominus n = 1
      <4>1. Minus(Zero, Outward[Opposite["RIGHT"]]) = Outward["RIGHT"]
        BY OutwardType DEF Face
      <4>2. DOMAIN Zero = {1, 2} /\ Zero[1] = 0 /\ Opposite["RIGHT"] = "LEFT"
        BY DEF Zero, Opposite
      <4>3. Minus(Zero, Outward["LEFT"]) = <<0 \ominus Outward["LEFT"][1], Zero[2] \ominus Outward["LEFT"][2]>>
        BY <4>2, MinusOfPairs
      <4> QED BY <2>1, <4>1, <4>2, <4>3
    <3> QED BY <2>2, <3>1
  <2>6. f # g /\ Across2(f) # Across2(g)
    BY <1>1, <1>7
  <2>7. /\ Across2("LEFT") = 1 /\ Across2("RIGHT") = 1
        /\ Across2("BOTTOM") = 2 /\ Across2("UP") = 2
    BY DEF Across2
  <2>8. \E x, y \in {1, n} : \/ a.normal = <<x, 0>> /\ b.normal = <<0, y>>
                             \/ a.normal = <<0, x>> /\ b.normal = <<y, 0>>
    BY <1>1, <2>1, <2>6, <2>7 DEF Face
  <2> HIDE DEF n
  <2>9. PICK x \in {1, n}, y \in {1, n} : \/ a.normal = <<x, 0>> /\ b.normal = <<0, y>>
                                          \/ a.normal = <<0, x>> /\ b.normal = <<y, 0>>
    BY <2>8
  <2>10. 0 \in Residue /\ 1 \in Residue /\ x \in Residue /\ y \in Residue
    BY <2>2, UnitType
  <2>11. x \otimes y \in {1, n}
    BY <2>2, <2>3, <2>4, UnitType
  <2>12. (x \otimes y) \ominus (0 \otimes 0) # 0 /\ (0 \otimes 0) \ominus (x \otimes y) # 0
    BY <2>2, <2>3, <2>5, <2>10, <2>11 DEF n
  <2>13. CASE a.normal = <<x, 0>> /\ b.normal = <<0, y>>
    BY <2>12, <2>13 DEF Cross2
  <2>14. CASE a.normal = <<0, x>> /\ b.normal = <<y, 0>>
    BY <2>12, <2>14 DEF Cross2
  <2> QED BY <2>9, <2>13, <2>14
<1> HIDE DEF v, u, a, b
<1>8. v \in Vector /\ \A j \in Face : OnFace(p, j) /\ boundary[j] = "wall" => v[Across2(j)] = 0
  <2>1. CASE boundary[f] = "free" /\ boundary[g] = "free"
    <3>1. v = u
      BY <1>1, <1>6, <2>1
    <3> QED BY <1>1, <1>3, <2>1, <3>1
  <2>2. CASE boundary[f] = "wall" /\ boundary[g] = "free"
    <3>1. v = AlongWall(a, u, m)
      BY <1>1, <1>6, <2>2
    <3> QED BY <1>1, <1>5, <2>2, <3>1
  <2>3. CASE boundary[f] = "free" /\ boundary[g] = "wall"
    <3>1. v = AlongWall(b, u, m)
      BY <1>1, <1>6, <2>3
    <3> QED BY <1>1, <1>5, <2>3, <3>1
  <2>4. CASE boundary[f] = "wall" /\ boundary[g] = "wall"
    <3>1. v = IF Cross2(a.normal, b.normal) = 0 THEN AlongWall(a, u, m) ELSE Zero
      BY <1>1, <1>6, <2>4
    <3>2. CASE f = g
      <4>1. Zero[Across2(f)] = 0
        BY <1>4 DEF Zero
      <4> QED BY <1>1, <1>5, <3>1, <3>2, <4>1, ZeroType
    <3>3. CASE f # g
      <4>1. v = Zero
        BY <1>7, <3>1, <3>3
      <4>2. \A j \in Face : Zero[Across2(j)] = 0
        BY <1>4 DEF Zero
      <4> QED BY <4>1, <4>2, ZeroType
    <3> QED BY <3>2, <3>3
  <2> QED BY <1>2, <2>1, <2>2, <2>3, <2>4
<1> QED BY <1>8 DEF v, a, b

WallInv ==
  phase \notin Early \cup {"master", "corners", "points", "velocity"} =>
    \A c \in forest : \A k \in Corner : Regular(c, k) =>
      \A f \in Face : OnFace(Point(c, k), f) /\ boundary[f] = "wall" =>
        node[c][k].velocity[Across2(f)] = 0

\* The solver takes a point for one of the boundary when it is one.
LEMMA IsBoundaryIs ==
  ASSUME TypeOK, HalvesInv, phase \notin {"boundary", "geometry"},
         NEW c \in forest, NEW k \in Corner
  PROVE  IsBoundary(Point(c, k)) <=> OnBoundary(Point(c, k))
<1> DEFINE p == Point(c, k)
<1>1. IsBoundary(p) <=> BoundaryHalves(p) # {}
  <2>1. ASSUME NEW q \in Around(p), NEW s \in Sides, half[q[1]][q[2]][s].boundary # "inner"
        PROVE  BoundaryHalves(p) # {}
    <3> DEFINE b == <<q, s>>
    <3>1. b[1] = q /\ b[2] = s /\ b \in Around(p) \X Sides
      OBVIOUS
    <3> HIDE DEF b
    <3>2. b \in BoundaryHalves(p)
      BY <2>1, <3>1 DEF BoundaryHalves
    <3> QED BY <3>2
  <2>2. ASSUME NEW b \in BoundaryHalves(p)
        PROVE  IsBoundary(p)
    <3>1. b[1] \in Around(p) /\ b[2] \in Sides /\ half[b[1][1]][b[1][2]][b[2]].boundary # "inner"
      BY DEF BoundaryHalves
    <3> QED BY <3>1 DEF IsBoundary
  <2> QED BY <2>1, <2>2 DEF IsBoundary
<1>2. ASSUME OnBoundary(p)
      PROVE  BoundaryHalves(p) # {}
  <2>1. PICK a, b, f, g : PairAt(p, a, b, f, g)
    BY <1>2, BoundaryPair
  <2> QED BY <2>1 DEF PairAt
<1>3. ASSUME ~ OnBoundary(p)
      PROVE  BoundaryHalves(p) = {}
  BY <1>3, NoBoundaryHalf
<1> QED BY <1>1, <1>2, <1>3

\* A point on a border is one of the boundary.
LEMMA OnFaceIsOnBoundary ==
  ASSUME NEW p, NEW f \in Face, OnFace(p, f)
  PROVE  OnBoundary(p)
BY DEF OnFace, OnBoundary, Face

\* A corner's velocity is a vector, and zero across every wall it lies on.
LEMMA CornerVelocityIs ==
  ASSUME TypeOK, HalvesInv, BounsInv, phase = "velocity",
         NEW c \in forest, NEW k \in Corner, Regular(c, k)
  PROVE  /\ CornerVelocity(c, k) \in Vector
         /\ \A f \in Face : OnFace(Point(c, k), f) /\ boundary[f] = "wall" =>
              CornerVelocity(c, k)[Across2(f)] = 0
<1> DEFINE p == Point(c, k)
           e == point[c][k]
           m == MatrixInverse(e.matrix)
<1>1. e.matrix \in Matrix /\ e.rhs \in Vector
  BY PointRecordParts DEF TypeOK
<1>2. m \in Matrix
  BY <1>1, InverseType
<1>3. CornerVelocity(c, k) = IF IsBoundary(p) THEN BoundaryVelocity(e.bouns[1], e.bouns[2], m, e.rhs)
                             ELSE MatrixDotVector(m, e.rhs)
  BY DEF CornerVelocity
<1>4. IsBoundary(p) <=> OnBoundary(p)
  BY IsBoundaryIs
<1>5. CASE OnBoundary(p)
  <2>1. PICK f \in Face, g \in Face : TwoBounds(p, e.bouns, f, g)
    BY <1>5 DEF BounsInv, Early
  <2>2. SettingOK
    BY DEF TypeOK
  <2> HIDE DEF p, e, m
  <2>3. LET v == BoundaryVelocity(e.bouns[1], e.bouns[2], m, e.rhs)
        IN  /\ v \in Vector
            /\ \A j \in Face : OnFace(p, j) /\ boundary[j] = "wall" => v[Across2(j)] = 0
    <3>1. e.bouns = point[c][k].bouns
      BY DEF e
    <3> DEFINE bs == e.bouns
    <3>2. TwoBounds(p, bs, f, g)
      BY <2>1
    <3> HIDE DEF bs
    <3>3. LET v == BoundaryVelocity(bs[1], bs[2], m, e.rhs)
          IN  /\ v \in Vector
              /\ \A j \in Face : OnFace(p, j) /\ boundary[j] = "wall" => v[Across2(j)] = 0
      BY <1>1, <1>2, <3>2, <2>2, BoundaryVelocityIs
    <3> QED BY <3>3 DEF bs
  <2> QED BY <1>3, <1>4, <1>5, <2>3 DEF p
<1>6. CASE ~ OnBoundary(p)
  <2>1. \A f \in Face : ~ OnFace(p, f)
    BY <1>6, OnFaceIsOnBoundary
  <2>2. MatrixDotVector(m, e.rhs) \in Vector
    <3> HIDE DEF e, m
    <3> QED BY <1>1, <1>2, VectorIsPair, ProductType
  <2> QED BY <1>3, <1>4, <1>6, <2>1, <2>2
<1> QED BY <1>5, <1>6

\* quadrant_corner_velocity_callback.
LEMMA SolveCornersOK ==
  ASSUME TypeOK, HalvesInv, BounsInv, SolveCorners
  PROVE  TypeOK' /\ HalvesInv' /\ BounsInv' /\ WallInv'
<1>1. /\ phase = "velocity" /\ phase' = "edges" /\ setting' = setting
      /\ cell' = cell /\ half' = half /\ point' = point /\ edge' = edge /\ mirror' = mirror
      /\ node' = [c \in forest |-> [k \in Corner |->
           [node[c][k] EXCEPT !.velocity =
              IF Regular(c, k) THEN CornerVelocity(c, k) ELSE node[c][k].velocity]]]
  BY DEF SolveCorners, Step
<1>2. forest' = forest /\ boundary' = boundary /\ \A c, k : Regular(c, k)' = Regular(c, k)
  BY <1>1, Same
<1>3. ASSUME NEW c \in forest, NEW k \in Corner
      PROVE  /\ node'[c][k] \in NodeRecord
             /\ Regular(c, k) => node'[c][k].velocity = CornerVelocity(c, k)
  <2> DEFINE u == IF Regular(c, k) THEN CornerVelocity(c, k) ELSE node[c][k].velocity
  <2>1. node[c][k] \in NodeRecord /\ node[c][k].velocity \in Vector
    BY NodeRecordParts DEF TypeOK
  <2>2. u \in Vector
    BY <1>1, <2>1, CornerVelocityIs
  <2>3. node'[c][k] = [node[c][k] EXCEPT !.velocity = u]
    BY <1>1
  <2>4. Regular(c, k) => u = CornerVelocity(c, k)
    OBVIOUS
  <2> HIDE DEF u
  <2>5. node'[c][k] \in NodeRecord /\ node'[c][k].velocity = u
    BY <2>1, <2>2, <2>3 DEF NodeRecord
  <2> QED BY <2>4, <2>5
<1>4. NodeOK'
  BY <1>1, <1>2, <1>3 DEF NodeOK
<1>5. TypeOK'
  BY <1>1, <1>4, Same, TypeStays DEF TypeOK, Phases
<1>6. HalvesInv'
  BY <1>1, HalvesStay DEF Early
<1>7. BounsInv'
  BY <1>1, BounsStay DEF Early
<1>8. WallInv'
  <2>1. ASSUME NEW c \in forest, NEW k \in Corner, Regular(c, k), NEW f \in Face,
               OnFace(Point(c, k), f), boundary[f] = "wall"
        PROVE  node'[c][k].velocity[Across2(f)] = 0
    BY <1>1, <1>3, <2>1, CornerVelocityIs
  <2> QED BY <1>2, <2>1 DEF WallInv
<1> QED BY <1>5, <1>6, <1>7, <1>8

\* Velocities that hold at walls do so while they stay.
LEMMA WallsStay ==
  ASSUME WallInv, setting' = setting,
         phase \notin Early \cup {"master", "corners", "points", "velocity"},
         \A c \in forest : \A k \in Corner :
           Regular(c, k) => node'[c][k].velocity = node[c][k].velocity
  PROVE  WallInv'
<1>1. forest' = forest /\ boundary' = boundary /\ \A c, k : Regular(c, k)' = Regular(c, k)
  BY Same
<1> QED BY <1>1 DEF WallInv

\* A hanging point lies within the domain.
LEMMA HangingInside ==
  ASSUME NEW F \in BalancedForests, NEW h \in HangingEdges[F], NEW i \in {1, 2}, NEW f \in Face
  PROVE  ~ OnFace(Point(h.child[i], WhichCorner(h, i)), f)
<1> DEFINE p == h.parent
           a == h.child[1]
           b == h.child[2]
           s == Side(a)
           m == Point(a, WhichCorner(h, 1))
           low == Point(p, LowEnd[h.face])
           high == Point(p, HighEnd[h.face])
<1>1. /\ p \in Cells /\ a \in Cells /\ b \in Cells /\ h.face \in Face
  BY HangingEdgeParts
<1>2. /\ s \in Nat \ {0} /\ Side(p) = 2 * s /\ m[1] \in Nat /\ m[2] \in Nat
      /\ Point(b, WhichCorner(h, 2)) = m
      /\ h.face \in {"LEFT", "RIGHT"} => low = <<m[1], m[2] - s>> /\ high = <<m[1], m[2] + s>>
      /\ h.face \in {"BOTTOM", "UP"} => low = <<m[1] - s, m[2]>> /\ high = <<m[1] + s, m[2]>>
  BY HangingPoints
<1>3. Point(h.child[i], WhichCorner(h, i)) = m
  BY <1>2
<1>4. /\ h.face = "LEFT" => a.x + s = p.x
      /\ h.face = "RIGHT" => a.x = p.x + 2 * s
      /\ h.face = "BOTTOM" => a.y + s = p.y
      /\ h.face = "UP" => a.y = p.y + 2 * s
  BY HangingPlace
<1>5. /\ p.x \in Nat /\ p.y \in Nat /\ p.x + Side(p) <= Width /\ p.y + Side(p) <= Width
      /\ a.x \in Nat /\ a.y \in Nat /\ a.x + s <= Width /\ a.y + s <= Width
  BY <1>1, CellInWidth
<1>6. Width \in Nat
  BY WidthType
<1>7. low = <<p.x + (IF h.face = "RIGHT" THEN Side(p) ELSE 0),
              p.y + (IF h.face = "UP" THEN Side(p) ELSE 0)>>
  BY <1>1 DEF Point, LowEnd, Face
<1>8. high = <<p.x + (IF h.face = "LEFT" THEN 0 ELSE Side(p)),
               p.y + (IF h.face = "BOTTOM" THEN 0 ELSE Side(p))>>
  BY <1>1 DEF Point, HighEnd, Face
<1> HIDE DEF p, a, b, s, m, low, high
<1>9. 0 < m[1] /\ m[1] < Width /\ 0 < m[2] /\ m[2] < Width
  <2>1. CASE h.face = "LEFT"
    BY <1>2, <1>4, <1>5, <1>6, <1>7, <1>8, <2>1
  <2>2. CASE h.face = "RIGHT"
    BY <1>2, <1>4, <1>5, <1>6, <1>7, <1>8, <2>2
  <2>3. CASE h.face = "BOTTOM"
    BY <1>2, <1>4, <1>5, <1>6, <1>7, <1>8, <2>3
  <2>4. CASE h.face = "UP"
    BY <1>2, <1>4, <1>5, <1>6, <1>7, <1>8, <2>4
  <2> QED BY <1>1, <2>1, <2>2, <2>3, <2>4 DEF Face
<1>10. 0 # m[1] /\ 0 # m[2] /\ m[1] # Width /\ m[2] # Width
  BY <1>2, <1>6, <1>9
<1>11. ~ OnFace(m, f)
  BY <1>10 DEF OnFace, Face, Width
<1> QED BY <1>3, <1>11 DEF m

\* A hanging corner is that of a child at its edge.
LEMMA HangsAtParts ==
  ASSUME SettingOK, NEW c \in forest, NEW k \in Corner, NEW q \in HangsAt(c, k)
  PROVE  /\ q[1] \in Hanging /\ q[2] \in {1, 2}
         /\ q[1].child[q[2]] = c /\ WhichCorner(q[1], q[2]) = k
BY DEF HangsAt, HangingPlaces, Hanging

\* The invariants say what WallsHold asks for.
LEMMA WallsHeld ==
  ASSUME TypeOK, WallInv
  PROVE  WallsHold
<1> SUFFICES ASSUME phase \in {"forces", "coordinates", "density", "momentum", "accept", "accepted"},
                    NEW q \in Corners, NEW f \in Face,
                    OnFace(Point(q[1], q[2]), f), boundary[f] = "wall"
             PROVE  node[q[1]][q[2]].velocity[Across2(f)] = 0
  <2>1. phase \in Phases
    BY DEF TypeOK
  <2> QED BY <2>1, SinceIs DEF WallsHold
<1>1. q[1] \in forest /\ q[2] \in Corner
  BY DEF Corners
<1>2. Regular(q[1], q[2])
  <2>1. SUFFICES ASSUME NEW r \in HangsAt(q[1], q[2]) PROVE FALSE
    BY DEF Regular
  <2>2. /\ r[1] \in Hanging /\ r[2] \in {1, 2}
        /\ r[1].child[r[2]] = q[1] /\ WhichCorner(r[1], r[2]) = q[2]
    BY <1>1, HangsAtParts DEF TypeOK
  <2>3. forest \in BalancedForests /\ r[1] \in HangingEdges[forest]
    BY <2>2 DEF TypeOK, SettingOK, Hanging
  <2>4. ~ OnFace(Point(r[1].child[r[2]], WhichCorner(r[1], r[2])), f)
    BY <2>2, <2>3, HangingInside
  <2> QED BY <2>2, <2>4
<1> QED BY <1>1, <1>2 DEF WallInv, Early

-----------------------------------------------------------------------------
(* The edges. *)

Indices == 1..2
\* The two halves of an edge.
LEMMA IndicesAre == Indices = {1, 2} /\ IsFiniteSet(Indices)
<1>1. Indices = {1, 2} /\ {1} \cup {2} = {1, 2}
  BY DEF Indices
<1>2. IsFiniteSet({1}) /\ IsFiniteSet({2})
  BY FS_Singleton
<1>3. IsFiniteSet({1} \cup {2})
  BY <1>2, FS_Union
<1> QED BY <1>1, <1>3

EdgeResistance(h) == [i \in Indices |-> Resistance(h.parent, edge[h].lengths[i], edge[h].normals[i])]

\* The equation of an edge, by sums of functions.
LEMMA EdgeEquationIs ==
  ASSUME NEW h
  PROVE  LET m == MatrixSum(EdgeResistance(h), Indices)
         IN  EdgeEquation(h) =
               [edge[h] EXCEPT !.matrix = m,
                  !.rhs = Plus(Scaled(cell[h.parent].cur.pressure, EdgePush(edge[h])),
                               MatrixDotVector(m, cell[h.parent].cur.velocity))]
<1> DEFINE F == EdgeResistance(h)
           r(i) == Resistance(h.parent, edge[h].lengths[i], edge[h].normals[i])
<1>1. \A i \in Indices : F[i] = r(i)
  BY DEF EdgeResistance
<1>2. \A j : [i \in Indices |-> F[i][j]] = [i \in Indices |-> r(i)[j]]
  BY <1>1
<1>3. \A j : SumFunction([i \in Indices |-> r(i)[j]]) % Modulus = Part(F, Indices, j)
  <2> TAKE j
  <2>1. SumFunction([i \in Indices |-> F[i][j]]) % Modulus = Part(F, Indices, j)
    BY SumFunctionIs DEF Part
  <2> QED BY <1>2, <2>1
<1>4. MatrixTotal(r, Indices) = MatrixSum(F, Indices)
  <2> HIDE DEF F, r
  <2> QED BY <1>3 DEF MatrixTotal, MatrixSum, Total
<1>5. EdgeEquation(h) =
        [edge[h] EXCEPT !.matrix = MatrixTotal(r, Indices),
           !.rhs = Plus(Scaled(cell[h.parent].cur.pressure, EdgePush(edge[h])),
                        MatrixDotVector(MatrixTotal(r, Indices), cell[h.parent].cur.velocity))]
  BY DEF EdgeEquation, Indices
<1> QED BY <1>4, <1>5

\* The parts of an edge's record.
LEMMA EdgeRecordParts ==
  ASSUME EdgeOK, NEW h \in Hanging
  PROVE  /\ edge[h] \in EdgeRecord
         /\ edge[h].matrix \in Matrix /\ edge[h].velocity \in Vector /\ edge[h].velocity \in Int \X Int
         /\ edge[h].rhs \in Vector /\ edge[h].force \in Vector /\ edge[h].flux \in Vector
         /\ \A i \in Indices : edge[h].lengths[i] \in Residue /\ edge[h].normals[i] \in Vector
<1>1. /\ edge[h] \in EdgeRecord
      /\ edge[h].matrix \in Matrix /\ edge[h].velocity \in Vector
      /\ edge[h].rhs \in Vector /\ edge[h].force \in Vector /\ edge[h].flux \in Vector
      /\ edge[h].lengths \in Residue \X Residue /\ edge[h].normals \in Vector \X Vector
  BY DEF EdgeOK, EdgeRecord
<1>2. /\ edge[h].lengths[1] \in Residue /\ edge[h].lengths[2] \in Residue
      /\ edge[h].normals[1] \in Vector /\ edge[h].normals[2] \in Vector
  BY <1>1, PairIs
<1> QED BY <1>1, <1>2, IndicesAre, VectorIsPair

\* The push on an edge is a vector.
LEMMA EdgePushType ==
  ASSUME EdgeOK, NEW h \in Hanging
  PROVE  EdgePush(edge[h]) \in Vector
<1>1. /\ edge[h].lengths[1] \in Int /\ edge[h].lengths[2] \in Int
      /\ edge[h].normals[1] \in Int \X Int /\ edge[h].normals[2] \in Int \X Int
  <2>1. 1 \in Indices /\ 2 \in Indices
    BY IndicesAre
  <2> QED BY <2>1, EdgeRecordParts, ResidueIsInt, VectorIsPair
<1>2. /\ Scaled(edge[h].lengths[1], edge[h].normals[1]) \in Int \X Int
      /\ Scaled(edge[h].lengths[2], edge[h].normals[2]) \in Int \X Int
  BY <1>1, VectorType, VectorIsPair
<1> QED BY <1>2, VectorType DEF EdgePush

\* The leaves at a hanging point.
LEMMA HangingParts ==
  ASSUME SettingOK, NEW h \in Hanging
  PROVE  /\ h.parent \in forest /\ h.face \in Face
         /\ LowEnd[h.face] \in Corner /\ HighEnd[h.face] \in Corner
         /\ \A i \in {1, 2} : h.child[i] \in forest /\ WhichCorner(h, i) \in Corner
<1>1. h \in HangingEdges[forest] /\ forest \in BalancedForests
  BY DEF Hanging, SettingOK
<1>2. /\ h.parent \in forest /\ h.face \in Face
      /\ h.child[1] \in forest /\ h.child[2] \in forest
  BY <1>1, HangingEdgeParts
<1>3. Opposite[h.face] \in Face
  BY <1>2 DEF Opposite, Face
<1>4. \A i \in {1, 2} : WhichCorner(h, i) \in Corner
  BY <1>3, HalvesOfFace DEF WhichCorner
<1> QED BY <1>2, <1>4, HalvesOfFace

\* The equation of an edge is a record of an edge.
LEMMA EdgeEquationType ==
  ASSUME TypeOK, NEW h \in Hanging
  PROVE  EdgeEquation(h) \in EdgeRecord
<1> DEFINE F == EdgeResistance(h)
           m == MatrixSum(F, Indices)
           r == Plus(Scaled(cell[h.parent].cur.pressure, EdgePush(edge[h])),
                     MatrixDotVector(m, cell[h.parent].cur.velocity))
<1>1. h.parent \in forest /\ CellOK /\ EdgeOK
  BY HangingParts DEF TypeOK
<1>2. ASSUME NEW i \in Indices
      PROVE  F[i] \in Matrix
  <2>1. edge[h].lengths[i] \in Residue /\ edge[h].normals[i] \in Vector
    BY <1>1, EdgeRecordParts
  <2>2. Resistance(h.parent, edge[h].lengths[i], edge[h].normals[i]) \in Matrix
    BY <1>1, <2>1, ResistanceType
  <2> QED BY <2>2 DEF EdgeResistance
<1>3. EdgeEquation(h) = [edge[h] EXCEPT !.matrix = m, !.rhs = r]
  BY EdgeEquationIs
<1>4. m \in Matrix
  <2> HIDE DEF F
  <2> QED BY <1>2, IndicesAre, MatrixSumType
<1> HIDE DEF m
<1>5. r \in Vector
  BY <1>1, <1>4, EdgePushType, EquationType
<1> HIDE DEF r
<1>6. edge[h] \in EdgeRecord
  BY <1>1, EdgeRecordParts
<1> QED BY <1>3, <1>4, <1>5, <1>6 DEF EdgeRecord

\* The two corners that hang at an edge.
EndsOf(h) == {<<h.child[i], WhichCorner(h, i)>> : i \in Indices}
\* The two corners of the children at a hanging point.
LEMMA EndsOfHanging ==
  ASSUME SettingOK, NEW h \in Hanging
  PROVE  EndsOf(h) \subseteq Corners /\ IsFiniteSet(EndsOf(h))
<1>1. \A i \in Indices : h.child[i] \in forest /\ WhichCorner(h, i) \in Corner
  BY HangingParts, IndicesAre
<1>2. EndsOf(h) \subseteq Corners
  BY <1>1 DEF EndsOf, Corners
<1> QED BY <1>2, CornersFinite, FS_Subset

\* The edge a corner hangs at.
HangingAt(c, k) == (CHOOSE q \in HangsAt(c, k) : TRUE)[1]
\* What a hanging point's equation adds up.
LEMMA HangingAtType ==
  ASSUME SettingOK, NEW c \in forest, NEW k \in Corner, ~ Regular(c, k)
  PROVE  HangingAt(c, k) \in Hanging
<1>1. (CHOOSE q \in HangsAt(c, k) : TRUE) \in HangsAt(c, k)
  BY DEF Regular
<1> QED BY <1>1, HangsAtParts DEF HangingAt

\* quadrant_hanging_point_matrix_assemble_callback.
LEMMA AssembleEdgesOK ==
  ASSUME TypeOK, HalvesInv, BounsInv, WallInv, AssembleEdges
  PROVE  TypeOK' /\ HalvesInv' /\ BounsInv' /\ WallInv'
<1> DEFINE M(S) == MatrixSum(CornerMatrices(S), S)
           R(S) == VectorSum(CornerSides(S), S)
<1>1. /\ phase = "edges" /\ phase' = "hanging" /\ setting' = setting
      /\ cell' = cell /\ node' = node /\ half' = half /\ mirror' = mirror
      /\ edge' = [h \in Hanging |-> EdgeEquation(h)]
      /\ point' = [c \in forest |-> [k \in Corner |->
           IF Regular(c, k) THEN point[c][k]
           ELSE LET h == (CHOOSE q \in HangsAt(c, k) : TRUE)[1]
                    ends == {<<h.child[i], WhichCorner(h, i)>> : i \in 1..2}
                IN  [point[c][k] EXCEPT
                       !.matrix = Plus(edge'[h].matrix,
                                    MatrixTotal(LAMBDA q : node[q[1]][q[2]].matrix, ends)),
                       !.rhs = Plus(edge'[h].rhs,
                                 VectorTotal(LAMBDA q : node[q[1]][q[2]].rhs, ends))]]]
  BY DEF AssembleEdges, Step
<1>2. /\ forest' = forest /\ Hanging' = Hanging /\ \A c, k : Regular(c, k)' = Regular(c, k)
      /\ SettingOK /\ NodeOK /\ PointOK /\ EdgeOK
  BY <1>1, Same DEF TypeOK
<1>3. ASSUME NEW h \in Hanging
      PROVE  /\ edge'[h] \in EdgeRecord
             /\ edge'[h].lengths = edge[h].lengths /\ edge'[h].normals = edge[h].normals
  <2>1. edge'[h] = EdgeEquation(h)
    BY <1>1
  <2>2. edge'[h] \in EdgeRecord
    BY <2>1, EdgeEquationType
  <2>3. edge[h] \in EdgeRecord
    BY <1>2, EdgeRecordParts
  <2> DEFINE m == MatrixSum(EdgeResistance(h), Indices)
             r == Plus(Scaled(cell[h.parent].cur.pressure, EdgePush(edge[h])),
                       MatrixDotVector(m, cell[h.parent].cur.velocity))
  <2>4. edge'[h] = [edge[h] EXCEPT !.matrix = m, !.rhs = r]
    BY <2>1, EdgeEquationIs
  <2> HIDE DEF m, r
  <2> QED BY <2>2, <2>3, <2>4 DEF EdgeRecord
<1>4. EdgeOK'
  BY <1>1, <1>2, <1>3 DEF EdgeOK
<1>5. ASSUME NEW c \in forest, NEW k \in Corner, ~ Regular(c, k)
      PROVE  point'[c][k] \in PointRecord
  <2> DEFINE h == HangingAt(c, k)
             ends == EndsOf(h)
             m == Plus(edge'[h].matrix, M(ends))
             r == Plus(edge'[h].rhs, R(ends))
  <2>1. h \in Hanging
    BY <1>2, <1>5, HangingAtType
  <2>2. point'[c][k] = [point[c][k] EXCEPT
             !.matrix = Plus(edge'[h].matrix, MatrixTotal(LAMBDA q : node[q[1]][q[2]].matrix, ends)),
             !.rhs = Plus(edge'[h].rhs, VectorTotal(LAMBDA q : node[q[1]][q[2]].rhs, ends))]
    BY <1>1, <1>5 DEF HangingAt, EndsOf, Indices
  <2> HIDE DEF h, ends
  <2>3. /\ MatrixTotal(LAMBDA q : node[q[1]][q[2]].matrix, ends) = M(ends)
        /\ VectorTotal(LAMBDA q : node[q[1]][q[2]].rhs, ends) = R(ends)
    BY CornerSumsAre
  <2>4. point'[c][k] = [point[c][k] EXCEPT !.matrix = m, !.rhs = r]
    BY <2>2, <2>3
  <2>5. ends \subseteq Corners /\ IsFiniteSet(ends)
    BY <1>2, <2>1, EndsOfHanging DEF ends
  <2>6. M(ends) \in Matrix /\ R(ends) \in Vector
    BY <1>2, <2>5, CornerSumsType
  <2> HIDE DEF M, R
  <2>7. edge'[h].matrix \in Matrix /\ edge'[h].rhs \in Vector
    BY <1>3, <2>1 DEF EdgeRecord
  <2>8. m \in Matrix /\ r \in Vector
    BY <2>6, <2>7, MatrixType, VectorType, VectorIsPair
  <2> HIDE DEF m, r
  <2>9. point[c][k] \in PointRecord
    BY <1>2, PointRecordParts
  <2> QED BY <2>4, <2>8, <2>9 DEF PointRecord
<1>6. ASSUME NEW c \in forest, NEW k \in Corner, Regular(c, k)
      PROVE  point'[c][k] = point[c][k]
  BY <1>1, <1>6
<1>7. PointOK'
  <2>1. ASSUME NEW c \in forest, NEW k \in Corner
        PROVE  point'[c][k] \in PointRecord
    <3>1. CASE Regular(c, k)
      BY <1>2, <1>6, <3>1, PointRecordParts
    <3>2. CASE ~ Regular(c, k)
      BY <1>5, <3>2
    <3> QED BY <3>1, <3>2
  <2> DEFINE x(c, k) ==
           IF Regular(c, k) THEN point[c][k]
           ELSE LET h == (CHOOSE q \in HangsAt(c, k) : TRUE)[1]
                    ends == {<<h.child[i], WhichCorner(h, i)>> : i \in 1..2}
                IN  [point[c][k] EXCEPT
                       !.matrix = Plus(edge'[h].matrix,
                                    MatrixTotal(LAMBDA q : node[q[1]][q[2]].matrix, ends)),
                       !.rhs = Plus(edge'[h].rhs,
                                 VectorTotal(LAMBDA q : node[q[1]][q[2]].rhs, ends))]
  <2>2. point' = [c \in forest |-> [k \in Corner |-> x(c, k)]]
    BY <1>1
  <2> HIDE DEF x
  <2>3. \A c \in forest : \A k \in Corner : x(c, k) = point'[c][k]
    BY <2>2
  <2>4. point' \in [forest -> [Corner -> PointRecord]]
    BY <2>1, <2>2, <2>3
  <2> QED BY <1>2, <2>4 DEF PointOK
<1>8. TypeOK'
  BY <1>1, <1>4, <1>7, Same, TypeStays DEF TypeOK, Phases
<1>9. HalvesInv'
  BY <1>1, <1>3, HalvesStay DEF Early
<1>10. BounsInv'
  BY <1>1, <1>6, BounsStay DEF Early
<1>11. WallInv'
  BY <1>1, WallsStay DEF Early
<1> QED BY <1>8, <1>9, <1>10, <1>11

\* The velocity of a hanging point is a vector.
LEMMA HangingVelocityType ==
  ASSUME TypeOK, NEW h \in Hanging
  PROVE  HangingVelocity(h) \in Vector
<1>1. /\ h.parent \in forest /\ LowEnd[h.face] \in Corner /\ HighEnd[h.face] \in Corner
  BY HangingParts DEF TypeOK
<1>2. /\ node[h.parent][LowEnd[h.face]].velocity \in Int \X Int
      /\ node[h.parent][HighEnd[h.face]].velocity \in Int \X Int
  BY <1>1, NodeRecordParts DEF TypeOK
<1> QED BY <1>2, MiddleType DEF HangingVelocity

\* A share is a residue.
LEMMA ShareType ==
  ASSUME TypeOK, NEW h \in Hanging, NEW c \in forest
  PROVE  Share(h, c) \in Residue
<1>1. /\ h.parent \in forest /\ h.child[1] \in forest /\ h.child[2] \in forest
  BY HangingParts DEF TypeOK
<1>2. ASSUME NEW d \in forest
      PROVE  EnergyOf(d) \in Int
  <2>1. cell[d].mass \in Residue /\ cell[d].cur.total \in Residue
    BY CellRecordParts DEF TypeOK, GasState
  <2>2. cell[d].mass \otimes cell[d].cur.total \in Residue
    BY <2>1, ResidueIsInt, ResidueType
  <2> QED BY <2>2, ResidueIsInt DEF EnergyOf
<1>3. EnergyOf(h.child[1]) \oplus EnergyOf(h.child[2]) \in Int
  BY <1>1, <1>2, ResidueType, ResidueIsInt
<1>4. EnergyOf(h.child[1]) \oplus EnergyOf(h.child[2]) \oplus EnergyOf(h.parent) \in Residue
  BY <1>1, <1>2, <1>3, ResidueType
<1> QED BY <1>2, <1>4, QuotientType DEF Share

\* The share of what is left of the balance is a vector.
LEMMA FluxType ==
  ASSUME TypeOK, NEW h \in Hanging, NEW c \in forest
  PROVE  Flux(h, c) \in Vector
<1> DEFINE e == point[h.child[1]][WhichCorner(h, 1)]
<1>1. e.matrix \in Matrix /\ e.rhs \in Int \X Int
  BY HangingParts, PointRecordParts, VectorIsPair DEF TypeOK
<1>2. HangingVelocity(h) \in Int \X Int
  BY HangingVelocityType, VectorIsPair
<1>3. Share(h, c) \in Int
  BY ShareType, ResidueIsInt
<1>4. Flux(h, c) = Scaled(Share(h, c), Minus(MatrixDotVector(e.matrix, HangingVelocity(h)), e.rhs))
  BY DEF Flux
<1> HIDE DEF e
<1>5. MatrixDotVector(e.matrix, HangingVelocity(h)) \in Int \X Int
  BY <1>1, <1>2, ProductType, VectorIsPair
<1>6. Minus(MatrixDotVector(e.matrix, HangingVelocity(h)), e.rhs) \in Int \X Int
  BY <1>1, <1>5, VectorType, VectorIsPair
<1> QED BY <1>3, <1>4, <1>6, VectorType

\* quadrant_relaxed_hanging_solver_callback.
LEMMA SolveHangingOK ==
  ASSUME TypeOK, HalvesInv, BounsInv, WallInv, SolveHanging
  PROVE  TypeOK' /\ HalvesInv' /\ BounsInv' /\ WallInv'
<1>1. /\ phase = "hanging" /\ phase' = "forces" /\ setting' = setting
      /\ cell' = cell /\ point' = point /\ half' = half /\ mirror' = mirror
      /\ node' = [c \in forest |-> [k \in Corner |->
           IF Regular(c, k) THEN node[c][k]
           ELSE LET h == (CHOOSE q \in HangsAt(c, k) : TRUE)[1]
                IN  [node[c][k] EXCEPT !.velocity = HangingVelocity(h), !.flux = Flux(h, c)]]]
      /\ edge' = [h \in Hanging |-> [edge[h] EXCEPT !.velocity = HangingVelocity(h),
                                                    !.flux = Flux(h, h.parent)]]
  BY DEF SolveHanging, Step
<1>2. /\ forest' = forest /\ Hanging' = Hanging
      /\ SettingOK /\ NodeOK /\ PointOK /\ EdgeOK
  BY <1>1, Same DEF TypeOK
<1>3. ASSUME NEW h \in Hanging
      PROVE  /\ edge'[h] \in EdgeRecord
             /\ edge'[h].lengths = edge[h].lengths /\ edge'[h].normals = edge[h].normals
  <2> DEFINE u == HangingVelocity(h)
             x == Flux(h, h.parent)
  <2>1. edge'[h] = [edge[h] EXCEPT !.velocity = u, !.flux = x]
    BY <1>1
  <2>2. u \in Vector /\ x \in Vector /\ edge[h] \in EdgeRecord
    BY <1>2, HangingParts, HangingVelocityType, FluxType, EdgeRecordParts
  <2> HIDE DEF u, x
  <2> QED BY <2>1, <2>2 DEF EdgeRecord
<1>4. EdgeOK'
  BY <1>1, <1>2, <1>3 DEF EdgeOK
<1>5. ASSUME NEW c \in forest, NEW k \in Corner
      PROVE  /\ node'[c][k] \in NodeRecord
             /\ Regular(c, k) => node'[c][k] = node[c][k]
  <2>1. node[c][k] \in NodeRecord
    BY <1>2, NodeRecordParts
  <2>2. CASE Regular(c, k)
    <3>1. node'[c][k] = node[c][k]
      BY <1>1, <2>2
    <3> QED BY <2>1, <3>1
  <2>3. CASE ~ Regular(c, k)
    <3> DEFINE h == HangingAt(c, k)
               u == HangingVelocity(h)
               x == Flux(h, c)
    <3>1. node'[c][k] = [node[c][k] EXCEPT !.velocity = u, !.flux = x]
      BY <1>1, <2>3 DEF HangingAt
    <3>2. h \in Hanging
      BY <1>2, <2>3, HangingAtType
    <3> HIDE DEF h
    <3>3. u \in Vector /\ x \in Vector
      BY <3>2, HangingVelocityType, FluxType
    <3> HIDE DEF u, x
    <3>4. node'[c][k] \in NodeRecord
      BY <2>1, <3>1, <3>3 DEF NodeRecord
    <3> QED BY <2>3, <3>4
  <2> QED BY <2>2, <2>3
<1>6. NodeOK'
  <2> DEFINE x(c, k) ==
           IF Regular(c, k) THEN node[c][k]
           ELSE LET h == (CHOOSE q \in HangsAt(c, k) : TRUE)[1]
                IN  [node[c][k] EXCEPT !.velocity = HangingVelocity(h), !.flux = Flux(h, c)]
  <2>1. node' = [c \in forest |-> [k \in Corner |-> x(c, k)]]
    BY <1>1
  <2> HIDE DEF x
  <2>2. \A c \in forest : \A k \in Corner : x(c, k) = node'[c][k]
    BY <2>1
  <2>3. node' \in [forest -> [Corner -> NodeRecord]]
    BY <1>5, <2>1, <2>2
  <2> QED BY <1>2, <2>3 DEF NodeOK
<1>7. TypeOK'
  BY <1>1, <1>4, <1>6, Same, TypeStays DEF TypeOK, Phases
<1>8. HalvesInv'
  BY <1>1, <1>3, HalvesStay DEF Early
<1>9. BounsInv'
  BY <1>1, BounsStay DEF Early
<1>10. WallInv'
  BY <1>1, <1>5, WallsStay DEF Early
<1> QED BY <1>7, <1>8, <1>9, <1>10

\* A force is a vector.
LEMMA ForceType ==
  ASSUME CellOK, NEW c \in forest, NEW push \in Vector, NEW m \in Matrix, NEW u \in Vector
  PROVE  ForceOn(c, push, m, u) \in Vector
<1>1. cell[c].cur.velocity \in Int \X Int /\ u \in Int \X Int
  BY CellRecordParts, VectorIsPair
<1>2. Minus(u, cell[c].cur.velocity) \in Int \X Int
  BY <1>1, VectorType, VectorIsPair
<1>3. MatrixDotVector(m, Minus(u, cell[c].cur.velocity)) \in Int \X Int
  BY <1>2, ProductType, VectorIsPair
<1>4. Scaled(cell[c].cur.pressure, push) \in Int \X Int
  BY EquationType, VectorIsPair
<1> QED BY <1>3, <1>4, VectorType DEF ForceOn

\* quadrant_compute_corner_force_callback.
LEMMA ComputeForcesOK ==
  ASSUME TypeOK, HalvesInv, BounsInv, WallInv, ComputeForces
  PROVE  TypeOK' /\ HalvesInv' /\ BounsInv' /\ WallInv'
<1>1. /\ phase = "forces" /\ phase' = "coordinates" /\ setting' = setting
      /\ cell' = cell /\ point' = point /\ half' = half /\ mirror' = mirror
      /\ node' = [c \in forest |-> [k \in Corner |->
           [node[c][k] EXCEPT !.force =
              ForceOn(c, PushOfHalves(c, k), node[c][k].matrix, node[c][k].velocity)]]]
      /\ edge' = [h \in Hanging |-> [edge[h] EXCEPT !.force =
                    ForceOn(h.parent, EdgePush(edge[h]), edge[h].matrix, edge[h].velocity)]]
  BY DEF ComputeForces, Step
<1>2. /\ forest' = forest /\ Hanging' = Hanging
      /\ SettingOK /\ CellOK /\ NodeOK /\ HalfOK /\ EdgeOK
  BY <1>1, Same DEF TypeOK
<1>3. ASSUME NEW h \in Hanging
      PROVE  /\ edge'[h] \in EdgeRecord
             /\ edge'[h].lengths = edge[h].lengths /\ edge'[h].normals = edge[h].normals
  <2> DEFINE x == ForceOn(h.parent, EdgePush(edge[h]), edge[h].matrix, edge[h].velocity)
  <2>1. edge'[h] = [edge[h] EXCEPT !.force = x]
    BY <1>1
  <2>2. x \in Vector
    BY <1>2, HangingParts, EdgePushType, EdgeRecordParts, ForceType
  <2>3. edge[h] \in EdgeRecord
    BY <1>2, EdgeRecordParts
  <2> HIDE DEF x
  <2> QED BY <2>1, <2>2, <2>3 DEF EdgeRecord
<1>4. EdgeOK'
  BY <1>1, <1>2, <1>3 DEF EdgeOK
<1>5. ASSUME NEW c \in forest, NEW k \in Corner
      PROVE  node'[c][k] \in NodeRecord /\ node'[c][k].velocity = node[c][k].velocity
  <2> DEFINE x == ForceOn(c, PushOfHalves(c, k), node[c][k].matrix, node[c][k].velocity)
  <2>1. node'[c][k] = [node[c][k] EXCEPT !.force = x]
    BY <1>1
  <2>2. x \in Vector
    BY <1>2, PushType, NodeRecordParts, ForceType
  <2>3. node[c][k] \in NodeRecord
    BY <1>2, NodeRecordParts
  <2> HIDE DEF x
  <2> QED BY <2>1, <2>2, <2>3 DEF NodeRecord
<1>6. NodeOK'
  BY <1>1, <1>2, <1>5 DEF NodeOK
<1>7. TypeOK'
  BY <1>1, <1>4, <1>6, Same, TypeStays DEF TypeOK, Phases
<1>8. HalvesInv'
  BY <1>1, <1>3, HalvesStay DEF Early
<1>9. BounsInv'
  BY <1>1, BounsStay DEF Early
<1>10. WallInv'
  BY <1>1, <1>5, WallsStay DEF Early
<1> QED BY <1>7, <1>8, <1>9, <1>10

-----------------------------------------------------------------------------
(* The new mesh and the new cell values. *)

\* update_corner_coordinates.
LEMMA MoveCornersOK ==
  ASSUME TypeOK, HalvesInv, BounsInv, WallInv, MoveCorners
  PROVE  TypeOK' /\ HalvesInv' /\ BounsInv' /\ WallInv'
<1>1. /\ phase = "coordinates" /\ phase' = "density" /\ setting' = setting
      /\ cell' = cell /\ point' = point /\ half' = half /\ mirror' = mirror /\ edge' = edge
      /\ node' = [c \in forest |-> [k \in Corner |-> [node[c][k] EXCEPT !.lag =
           Plus(Middle(node[c][k].cur, node[c][k].lag),
                Scaled(TimeStep, node[c][k].velocity))]]]
  BY DEF MoveCorners, Step
<1>2. forest' = forest /\ NodeOK
  BY <1>1, Same DEF TypeOK
<1>3. ASSUME NEW c \in forest, NEW k \in Corner
      PROVE  node'[c][k] \in NodeRecord /\ node'[c][k].velocity = node[c][k].velocity
  <2> DEFINE x == Plus(Middle(node[c][k].cur, node[c][k].lag),
                       Scaled(TimeStep, node[c][k].velocity))
  <2>1. node'[c][k] = [node[c][k] EXCEPT !.lag = x]
    BY <1>1
  <2>2. node[c][k] \in NodeRecord
    BY <1>2, NodeRecordParts
  <2>3. x \in Int \X Int
    <3>1. node[c][k].cur \in Int \X Int /\ node[c][k].lag \in Int \X Int
      BY <2>2 DEF NodeRecord
    <3>2. TimeStep \in Int
      BY NumbersAssumption
    <3>3. Scaled(TimeStep, node[c][k].velocity) \in Int \X Int
      BY <1>2, <3>2, NodeRecordParts, VectorType, VectorIsPair
    <3>4. Middle(node[c][k].cur, node[c][k].lag) \in Int \X Int
      BY <3>1, MiddleType, VectorIsPair
    <3> QED BY <3>3, <3>4, VectorType, VectorIsPair
  <2> HIDE DEF x
  <2> QED BY <2>1, <2>2, <2>3 DEF NodeRecord
<1>4. NodeOK'
  BY <1>1, <1>2, <1>3 DEF NodeOK
<1>5. TypeOK'
  BY <1>1, <1>4, Same, TypeStays DEF TypeOK, Phases
<1>6. HalvesInv'
  BY <1>1, HalvesStay DEF Early
<1>7. BounsInv'
  BY <1>1, BounsStay DEF Early
<1>8. WallInv'
  BY <1>1, <1>3, WallsStay DEF Early
<1> QED BY <1>5, <1>6, <1>7, <1>8

\* A volume is a residue.
LEMMA VolumeType ==
  ASSUME NodeOK, NEW c \in forest
  PROVE  Volume(c) \in Residue
<1> DEFINE p(k) == node[c][k].lag
<1>1. ASSUME NEW u \in Int \X Int, NEW v \in Int \X Int, NEW w \in Int \X Int
      PROVE  Area(u, v, w) \in Residue
  <2>1. Minus(v, u) \in Int \X Int /\ Minus(w, u) \in Int \X Int
    BY VectorType, VectorIsPair
  <2>2. Cross2(Minus(v, u), Minus(w, u)) \in Int
    BY <2>1, VectorType, ResidueIsInt
  <2> QED BY <2>2, HalfType DEF Area
<1>2. ASSUME NEW k \in Corner
      PROVE  p(k) \in Int \X Int
  BY NodeRecordParts DEF NodeRecord
<1>3. /\ Area(p("LEFTBOTTOM"), p("RIGHTBOTTOM"), p("RIGHTUP")) \in Int
      /\ Area(p("LEFTBOTTOM"), p("RIGHTUP"), p("LEFTUP")) \in Int
  <2>1. /\ p("LEFTBOTTOM") \in Int \X Int /\ p("RIGHTBOTTOM") \in Int \X Int
        /\ p("RIGHTUP") \in Int \X Int /\ p("LEFTUP") \in Int \X Int
    BY <1>2 DEF Corner
  <2> HIDE DEF p
  <2> QED BY <1>1, <2>1, ResidueIsInt
<1> QED BY <1>3, ResidueType DEF Volume

\* update_volume_density.
LEMMA UpdateDensityOK ==
  ASSUME TypeOK, HalvesInv, BounsInv, WallInv, UpdateDensity
  PROVE  TypeOK' /\ HalvesInv' /\ BounsInv' /\ WallInv'
<1>1. /\ phase = "density" /\ phase' = "momentum" /\ setting' = setting
      /\ node' = node /\ point' = point /\ half' = half /\ mirror' = mirror /\ edge' = edge
      /\ cell' = [c \in forest |-> [cell[c] EXCEPT !.lag.density = cell[c].mass \oslash Volume(c)]]
  BY DEF UpdateDensity, Step
<1>2. forest' = forest /\ CellOK /\ NodeOK
  BY <1>1, Same DEF TypeOK
<1>3. ASSUME NEW c \in forest
      PROVE  cell'[c] \in CellRecord
  <2> DEFINE x == cell[c].mass \oslash Volume(c)
  <2>1. cell'[c] = [cell[c] EXCEPT !.lag.density = x]
    BY <1>1
  <2>2. x \in Residue
    BY <1>2, CellRecordParts, VolumeType, ResidueIsInt, QuotientType
  <2>3. cell[c] \in CellRecord /\ cell[c].lag \in GasState
    BY <1>2, CellRecordParts
  <2> HIDE DEF x
  <2>4. cell'[c] = [cell[c] EXCEPT !.lag = [cell[c].lag EXCEPT !.density = x]]
    BY <2>1
  <2>5. [cell[c].lag EXCEPT !.density = x] \in GasState
    BY <2>2, <2>3 DEF GasState
  <2> QED BY <2>3, <2>4, <2>5 DEF CellRecord
<1>4. CellOK'
  BY <1>1, <1>2, <1>3 DEF CellOK
<1>5. TypeOK'
  BY <1>1, <1>4, Same, TypeStays DEF TypeOK, Phases
<1>6. HalvesInv'
  BY <1>1, HalvesStay DEF Early
<1>7. BounsInv'
  BY <1>1, BounsStay DEF Early
<1>8. WallInv'
  BY <1>1, WallsStay DEF Early
<1> QED BY <1>5, <1>6, <1>7, <1>8

\* The image of a finite set is finite.
LEMMA ImageFinite ==
  ASSUME NEW S, IsFiniteSet(S), NEW F
  PROVE  IsFiniteSet({F[x] : x \in S})
<1> DEFINE T == {F[x] : x \in S}
           g == [x \in S |-> F[x]]
<1>1. g \in [S -> T] /\ \A t \in T : \E s \in S : g[s] = t
  OBVIOUS
<1>2. g \in Surjection(S, T)
  <2> HIDE DEF g, T
  <2> QED BY <1>1 DEF Surjection
<1> HIDE DEF g, T
<1>3. IsFiniteSet(T)
  BY <1>2, FS_Surjection
<1> QED BY <1>3 DEF T

\* There are finitely many hanging edges.
LEMMA HangingFinite ==
  ASSUME SettingOK
  PROVE  IsFiniteSet(Hanging)
<1> DEFINE S == {r \in forest \X Face :
                   \E d \in forest : Across(r[1], r[2], d) /\ d.level > r[1].level}
           F == [q \in S |->
                  [parent |-> q[1], face |-> q[2],
                   child |-> LET cs == {d \in forest : Across(q[1], q[2], d)}
                             IN  <<CHOOSE d \in cs : Index(d, cs) = 0,
                                   CHOOSE d \in cs : Index(d, cs) = 1>>]]
<1>1. IsFiniteSet(forest \X Face)
  <2>1. IsFiniteSet(forest)
    BY FiniteForest, BalancedForest DEF SettingOK
  <2> QED BY <2>1, SmallSets, FS_Product
<1>2. IsFiniteSet(S)
  <2>1. S \subseteq forest \X Face
    OBVIOUS
  <2> HIDE DEF S
  <2> QED BY <1>1, <2>1, FS_Subset
<1>3. Hanging = {F[q] : q \in S}
  BY DEF Hanging, HangingEdges, SettingOK
<1> HIDE DEF F, S
<1> QED BY <1>2, <1>3, ImageFinite

\* What acts on a leaf.
LEMMA ActingParts ==
  ASSUME TypeOK, NEW c \in forest
  PROVE  /\ IsFiniteSet(Acting(c))
         /\ \A a \in Acting(c) : a.velocity \in Vector /\ a.force \in Vector
<1>1. SettingOK /\ NodeOK /\ EdgeOK
  BY DEF TypeOK
<1> DEFINE F == [k \in Corner |-> [at |-> k, velocity |-> node[c][k].velocity,
                                   force |-> Plus(node[c][k].force, node[c][k].flux)]]
           T == {h \in Hanging : h.parent = c}
           G == [h \in Hanging |-> [at |-> h.face, velocity |-> edge[h].velocity,
                                    force |-> Plus(edge[h].force, edge[h].flux)]]
           A == {F[k] : k \in Corner}
           B == {G[h] : h \in T}
<1>2. Acting(c) = A \cup B
  BY DEF Acting
<1>3. IsFiniteSet(T)
  BY <1>1, HangingFinite, FS_Subset
<1>4. \A a \in A : a.velocity \in Vector /\ a.force \in Vector
  <2>1. ASSUME NEW k \in Corner
        PROVE  F[k].velocity \in Vector /\ F[k].force \in Vector
    <3>1. node[c][k].velocity \in Vector /\ node[c][k].force \in Int \X Int /\ node[c][k].flux \in Int \X Int
      BY <1>1, NodeRecordParts, VectorIsPair
    <3>2. Plus(node[c][k].force, node[c][k].flux) \in Vector
      BY <3>1, VectorType
    <3> QED BY <3>1, <3>2
  <2> QED BY <2>1
<1>5. \A a \in B : a.velocity \in Vector /\ a.force \in Vector
  <2>1. ASSUME NEW h \in Hanging
        PROVE  G[h].velocity \in Vector /\ G[h].force \in Vector
    <3>1. edge[h].velocity \in Vector /\ edge[h].force \in Int \X Int /\ edge[h].flux \in Int \X Int
      BY <1>1, EdgeRecordParts, VectorIsPair
    <3>2. Plus(edge[h].force, edge[h].flux) \in Vector
      BY <3>1, VectorType
    <3> QED BY <3>1, <3>2
  <2> QED BY <2>1
<1>6. IsFiniteSet(A) /\ IsFiniteSet(B)
  <2> HIDE DEF F, G, T
  <2> QED BY <1>3, SmallSets, ImageFinite
<1> HIDE DEF A, B
<1>7. IsFiniteSet(A \cup B)
  BY <1>6, FS_Union
<1> QED BY <1>2, <1>4, <1>5, <1>7

ForcesOf(S) == [a \in S |-> a.force]
WorkOn(c) == Total(LAMBDA a : Dot(a.velocity, a.force), Acting(c))

\* The sum of the forces, by a function.
LEMMA SumOfForcesIs ==
  ASSUME NEW c
  PROVE  SumOfForces(c) = VectorSum(ForcesOf(Acting(c)), Acting(c))
<1> DEFINE S == Acting(c)
           F == ForcesOf(S)
           r(a) == a.force
<1>1. \A a \in S : F[a] = r(a)
  BY DEF ForcesOf
<1>2. \A i : [a \in S |-> F[a][i]] = [a \in S |-> r(a)[i]]
  BY <1>1
<1>3. \A i : SumFunction([a \in S |-> r(a)[i]]) % Modulus = Part(F, S, i)
  <2> TAKE i
  <2>1. SumFunction([a \in S |-> F[a][i]]) % Modulus = Part(F, S, i)
    BY SumFunctionIs DEF Part
  <2> QED BY <1>2, <2>1
<1>4. VectorTotal(r, S) = VectorSum(F, S)
  <2> HIDE DEF F, r, S
  <2> QED BY <1>3 DEF VectorTotal, VectorSum, Total
<1> QED BY <1>4 DEF SumOfForces

\* The sum of the forces is a vector, their work a number.
LEMMA SumOfForcesType ==
  ASSUME TypeOK, NEW c \in forest
  PROVE  SumOfForces(c) \in Vector /\ WorkOn(c) \in Residue
<1> DEFINE S == Acting(c)
           F == ForcesOf(S)
           W == [a \in S |-> Dot(a.velocity, a.force)]
<1>1. IsFiniteSet(S) /\ \A a \in S : a.velocity \in Vector /\ a.force \in Vector
  BY ActingParts
<1>2. \A a \in S : F[a] \in Vector
  BY <1>1 DEF ForcesOf
<1>3. \A a \in S : W[a] \in Int
  BY <1>1, VectorIsPair, VectorType, ResidueIsInt
<1>4. WorkOn(c) = SumFunction(W) % Modulus
  BY DEF WorkOn, Total
<1> HIDE DEF F, W, S
<1>5. VectorSum(F, S) \in Vector
  BY <1>1, <1>2, VectorSumType
<1>6. SumFunction(W) % Modulus \in Residue
  <2>1. DOMAIN W = S
    BY DEF W
  <2> QED BY <1>1, <1>3, <2>1, TotalIs
<1> QED BY <1>4, <1>5, <1>6, SumOfForcesIs DEF F, S

\* The work on a leaf of forces and of their sum, per mass, and what is new.
NewVelocity(c) ==
  Minus(HalfTime(c).velocity,
        Scaled(TimeStep, Scaled(Reciprocal(cell[c].mass), SumOfForces(c))))
KineticWork(c) == Dot(Middle(HalfTime(c).velocity, NewVelocity(c)), SumOfForces(c))
NewInternal(c) == HalfTime(c).internal \ominus PerMass(c, WorkOn(c) \ominus KineticWork(c))
NewTotal(c) == HalfTime(c).total \ominus PerMass(c, WorkOn(c))
\* The new values of a leaf, one by one.
LEMMA UpdatedIs ==
  ASSUME NEW c
  PROVE  Updated(c) =
           [density |-> cell[c].lag.density, velocity |-> NewVelocity(c),
            total |-> NewTotal(c), internal |-> NewInternal(c),
            pressure |-> (Gamma \ominus 1) \otimes (cell[c].lag.density \otimes NewInternal(c))]
BY DEF Updated, Worked, NewVelocity, KineticWork, NewInternal, NewTotal, WorkOn

\* The parts of a leaf's two states.
LEMMA GasParts ==
  ASSUME CellOK, NEW c \in forest
  PROVE  /\ cell[c].cur.velocity \in Int \X Int /\ cell[c].lag.velocity \in Int \X Int
         /\ cell[c].cur.internal \in Int /\ cell[c].lag.internal \in Int
         /\ cell[c].cur.total \in Int /\ cell[c].lag.total \in Int
         /\ cell[c].cur.total \in Residue /\ cell[c].lag.total \in Residue
         /\ cell[c].cur.internal \in Residue /\ cell[c].lag.internal \in Residue
         /\ cell[c].lag.density \in Residue
         /\ cell[c].cur.velocity \in Vector /\ cell[c].lag.velocity \in Vector
<1>1. cell[c].cur \in GasState /\ cell[c].lag \in GasState
  BY CellRecordParts
<1>2. /\ cell[c].cur.velocity \in Vector /\ cell[c].lag.velocity \in Vector
      /\ cell[c].cur.internal \in Residue /\ cell[c].lag.internal \in Residue
      /\ cell[c].cur.total \in Residue /\ cell[c].lag.total \in Residue
      /\ cell[c].lag.density \in Residue
  BY <1>1 DEF GasState
<1> QED BY <1>2, VectorIsPair, ResidueIsInt

\* A share of the time step per mass is a residue.
LEMMA PerMassType ==
  ASSUME CellOK, NEW c \in forest, NEW x \in Int
  PROVE  PerMass(c, x) \in Residue /\ PerMass(c, x) \in Int
<1>1. x \oslash cell[c].mass \in Residue
  BY CellRecordParts, QuotientType
<1>2. x \oslash cell[c].mass \in Int /\ TimeStep \in Int
  BY <1>1, ResidueIsInt, NumbersAssumption
<1>3. PerMass(c, x) \in Residue
  BY <1>2, ResidueType DEF PerMass
<1> QED BY <1>3, ResidueIsInt

\* The new values of a leaf are a state of a gas.
LEMMA UpdatedType ==
  ASSUME TypeOK, NEW c \in forest
  PROVE  /\ Updated(c) \in GasState
         /\ NewVelocity(c) \in Vector /\ NewTotal(c) \in Residue /\ NewInternal(c) \in Residue
<1>1. CellOK
  BY DEF TypeOK
<1>2. SumOfForces(c) \in Int \X Int /\ WorkOn(c) \in Int
  BY SumOfForcesType, VectorIsPair, ResidueIsInt
<1>3. HalfTime(c).velocity \in Int \X Int
  <2>1. Middle(cell[c].cur.velocity, cell[c].lag.velocity) \in Int \X Int
    BY <1>1, GasParts, MiddleType, VectorIsPair
  <2> QED BY <2>1 DEF HalfTime
<1>4. HalfTime(c).internal \in Int /\ HalfTime(c).total \in Int
  <2>1. /\ cell[c].cur.internal \oplus cell[c].lag.internal \in Int
        /\ cell[c].cur.total \oplus cell[c].lag.total \in Int
    BY <1>1, GasParts, ResidueType, ResidueIsInt
  <2>2. /\ Half(cell[c].cur.internal \oplus cell[c].lag.internal) \in Int
        /\ Half(cell[c].cur.total \oplus cell[c].lag.total) \in Int
    BY <2>1, HalfType, ResidueIsInt
  <2> QED BY <2>2 DEF HalfTime
<1>5. NewVelocity(c) \in Vector
  <2>1. Reciprocal(cell[c].mass) \in Int /\ TimeStep \in Int
    BY <1>1, CellRecordParts, ReciprocalType, NumbersAssumption
  <2>2. Scaled(Reciprocal(cell[c].mass), SumOfForces(c)) \in Int \X Int
    BY <1>2, <2>1, VectorType, VectorIsPair
  <2>3. Scaled(TimeStep, Scaled(Reciprocal(cell[c].mass), SumOfForces(c))) \in Int \X Int
    BY <2>1, <2>2, VectorType, VectorIsPair
  <2> QED BY <1>3, <2>3, VectorType DEF NewVelocity
<1>6. KineticWork(c) \in Int
  <2>1. NewVelocity(c) \in Int \X Int
    BY <1>5, VectorIsPair
  <2>2. Middle(HalfTime(c).velocity, NewVelocity(c)) \in Int \X Int
    BY <1>3, <2>1, MiddleType, VectorIsPair
  <2>3. Dot(Middle(HalfTime(c).velocity, NewVelocity(c)), SumOfForces(c)) \in Residue
    BY <1>2, <2>2, VectorType
  <2> QED BY <2>3, ResidueIsInt DEF KineticWork
<1>7. NewInternal(c) \in Residue
  <2>1. WorkOn(c) \ominus KineticWork(c) \in Int
    BY <1>2, <1>6, ResidueType, ResidueIsInt
  <2>2. PerMass(c, WorkOn(c) \ominus KineticWork(c)) \in Int
    BY <1>1, <2>1, PerMassType
  <2> QED BY <1>4, <2>2, ResidueType DEF NewInternal
<1>8. NewTotal(c) \in Residue
  <2>1. PerMass(c, WorkOn(c)) \in Int
    BY <1>1, <1>2, PerMassType
  <2> QED BY <1>4, <2>1, ResidueType DEF NewTotal
<1>9. (Gamma \ominus 1) \otimes (cell[c].lag.density \otimes NewInternal(c)) \in Residue
  <2>1. Gamma \in Int /\ 1 \in Int /\ cell[c].lag.density \in Int /\ NewInternal(c) \in Int
    BY <1>1, <1>7, GasParts, ResidueIsInt, NumbersAssumption
  <2>2. Gamma \ominus 1 \in Int /\ cell[c].lag.density \otimes NewInternal(c) \in Int
    BY <2>1, ResidueType, ResidueIsInt
  <2> QED BY <2>2, ResidueType
<1>10. cell[c].lag.density \in Residue
  BY <1>1, GasParts
<1> DEFINE r == [density |-> cell[c].lag.density, velocity |-> NewVelocity(c),
            total |-> NewTotal(c), internal |-> NewInternal(c),
            pressure |-> (Gamma \ominus 1) \otimes (cell[c].lag.density \otimes NewInternal(c))]
<1>11. r \in GasState
  BY <1>5, <1>7, <1>8, <1>9, <1>10 DEF GasState
<1>12. Updated(c) = r
  BY UpdatedIs
<1> QED BY <1>5, <1>7, <1>8, <1>11, <1>12

\* update_momentum, update_work, update_energy and quadrant_update_EOS.
LEMMA UpdateCellsOK ==
  ASSUME TypeOK, HalvesInv, BounsInv, WallInv, UpdateCells
  PROVE  TypeOK' /\ HalvesInv' /\ BounsInv' /\ WallInv'
<1>1. /\ phase = "momentum" /\ phase' = "accept" /\ setting' = setting
      /\ node' = node /\ point' = point /\ half' = half /\ mirror' = mirror /\ edge' = edge
      /\ cell' = [c \in forest |-> [cell[c] EXCEPT !.lag = Updated(c)]]
  BY DEF UpdateCells, Step
<1>2. forest' = forest /\ CellOK
  BY <1>1, Same DEF TypeOK
<1>3. ASSUME NEW c \in forest
      PROVE  cell'[c] \in CellRecord
  <2>1. cell'[c] = [cell[c] EXCEPT !.lag = Updated(c)]
    BY <1>1
  <2>2. Updated(c) \in GasState /\ cell[c] \in CellRecord
    BY <1>2, UpdatedType, CellRecordParts
  <2> QED BY <2>1, <2>2 DEF CellRecord
<1>4. CellOK'
  BY <1>1, <1>2, <1>3 DEF CellOK
<1>5. TypeOK'
  BY <1>1, <1>4, Same, TypeStays DEF TypeOK, Phases
<1>6. HalvesInv'
  BY <1>1, HalvesStay DEF Early
<1>7. BounsInv'
  BY <1>1, BounsStay DEF Early
<1>8. WallInv'
  BY <1>1, WallsStay DEF Early
<1> QED BY <1>5, <1>6, <1>7, <1>8

\* AcceptNumericalSolution.
LEMMA AcceptOK ==
  ASSUME TypeOK, HalvesInv, BounsInv, WallInv, Accept
  PROVE  TypeOK' /\ HalvesInv' /\ BounsInv' /\ WallInv'
<1>1. /\ phase = "accept" /\ phase' = "accepted" /\ setting' = setting
      /\ point' = point /\ half' = half /\ mirror' = mirror /\ edge' = edge
      /\ cell' = [c \in forest |-> [cell[c] EXCEPT !.cur = cell[c].lag]]
      /\ node' = [c \in forest |-> [k \in Corner |-> [node[c][k] EXCEPT !.cur = node[c][k].lag]]]
  BY DEF Accept, Step
<1>2. forest' = forest /\ CellOK /\ NodeOK
  BY <1>1, Same DEF TypeOK
<1>3. ASSUME NEW c \in forest
      PROVE  cell'[c] \in CellRecord
  <2>1. cell'[c] = [cell[c] EXCEPT !.cur = cell[c].lag]
    BY <1>1
  <2>2. cell[c].lag \in GasState /\ cell[c] \in CellRecord
    BY <1>2, CellRecordParts
  <2> QED BY <2>1, <2>2 DEF CellRecord
<1>4. CellOK'
  BY <1>1, <1>2, <1>3 DEF CellOK
<1>5. ASSUME NEW c \in forest, NEW k \in Corner
      PROVE  node'[c][k] \in NodeRecord /\ node'[c][k].velocity = node[c][k].velocity
  <2>1. node'[c][k] = [node[c][k] EXCEPT !.cur = node[c][k].lag]
    BY <1>1
  <2>2. node[c][k] \in NodeRecord
    BY <1>2, NodeRecordParts
  <2> QED BY <2>1, <2>2 DEF NodeRecord
<1>6. NodeOK'
  BY <1>1, <1>2, <1>5 DEF NodeOK
<1>7. TypeOK'
  BY <1>1, <1>4, <1>6, Same, TypeStays DEF TypeOK, Phases
<1>8. HalvesInv'
  BY <1>1, HalvesStay DEF Early
<1>9. BounsInv'
  BY <1>1, BounsStay DEF Early
<1>10. WallInv'
  BY <1>1, <1>5, WallsStay DEF Early
<1> QED BY <1>7, <1>8, <1>9, <1>10

-----------------------------------------------------------------------------
(* The invariant. *)

IInv == TypeOK /\ HalvesInv /\ BounsInv /\ WallInv

\* The invariant holds in the beginning.
LEMMA InitIInv == Init => IInv
<1> SUFFICES ASSUME Init PROVE IInv
  OBVIOUS
<1>1. TypeOK /\ HalvesInv
  BY InitOK
<1>2. phase = "boundary"
  BY DEF Init
<1>3. BounsInv /\ WallInv
  BY <1>2 DEF BounsInv, WallInv, Early
<1> QED BY <1>1, <1>3 DEF IInv

\* Every step of a stage keeps the invariant.
LEMMA NextIInv == IInv /\ [Next]_vars => IInv'
<1> SUFFICES ASSUME IInv, [Next]_vars PROVE IInv'
  OBVIOUS
<1>1. TypeOK /\ HalvesInv /\ BounsInv /\ WallInv
  BY DEF IInv
<1>2. ASSUME phase' \in {"geometry", "amr", "master", "corners", "points"}
      PROVE  BounsInv' /\ WallInv'
  BY <1>2 DEF BounsInv, WallInv, Early
<1>3. CASE GetBoundary
  <2>1. phase' = "geometry"
    BY <1>3 DEF GetBoundary, Step
  <2> QED BY <1>1, <1>2, <1>3, <2>1, GetBoundaryOK DEF IInv
<1>4. CASE HalfCorner
  <2>1. phase' = "amr"
    BY <1>4 DEF HalfCorner, Step
  <2> QED BY <1>1, <1>2, <1>4, <2>1, HalfCornerOK DEF IInv
<1>5. CASE GetAMRBoundary
  <2>1. phase' = "master"
    BY <1>5 DEF GetAMRBoundary, Step
  <2> QED BY <1>1, <1>2, <1>5, <2>1, GetAMRBoundaryOK DEF IInv
<1>6. CASE WriteMasters
  <2>1. phase' = "corners"
    BY <1>6 DEF WriteMasters, Step
  <2> QED BY <1>1, <1>2, <1>6, <2>1, WriteMastersOK DEF IInv
<1>7. CASE AssembleCorners
  <2>1. phase' = "points"
    BY <1>7 DEF AssembleCorners, Step
  <2> QED BY <1>1, <1>2, <1>7, <2>1, AssembleCornersOK DEF IInv
<1>8. CASE AssemblePoints
  <2>1. phase' = "velocity"
    BY <1>8 DEF AssemblePoints, Step
  <2>2. WallInv'
    BY <2>1 DEF WallInv
  <2> QED BY <1>1, <1>8, <2>2, AssemblePointsOK DEF IInv
<1>9. CASE SolveCorners
  BY <1>1, <1>9, SolveCornersOK DEF IInv
<1>10. CASE AssembleEdges
  BY <1>1, <1>10, AssembleEdgesOK DEF IInv
<1>11. CASE SolveHanging
  BY <1>1, <1>11, SolveHangingOK DEF IInv
<1>12. CASE ComputeForces
  BY <1>1, <1>12, ComputeForcesOK DEF IInv
<1>13. CASE MoveCorners
  BY <1>1, <1>13, MoveCornersOK DEF IInv
<1>14. CASE UpdateDensity
  BY <1>1, <1>14, UpdateDensityOK DEF IInv
<1>15. CASE UpdateCells
  BY <1>1, <1>15, UpdateCellsOK DEF IInv
<1>16. CASE Accept
  BY <1>1, <1>16, AcceptOK DEF IInv
<1>17. CASE UNCHANGED vars
  <2>1. /\ setting' = setting /\ cell' = cell /\ node' = node /\ half' = half
        /\ point' = point /\ edge' = edge /\ mirror' = mirror /\ phase' = phase
    BY <1>17 DEF vars, setting
  <2>2. TypeOK'
    BY <1>1, <2>1, Same, TypeStays DEF TypeOK
  <2>3. /\ forest' = forest /\ boundary' = boundary /\ Hanging' = Hanging
        /\ \A c, k : Regular(c, k)' = Regular(c, k)
        /\ \A c, f : Bound(c, f)' = Bound(c, f) /\ LengthOf(c, f)' = LengthOf(c, f)
        /\ \A c, f, l : HalfIn(c, f, l)' = HalfIn(c, f, l)
    BY <2>1, Same
  <2>4. HalvesInv'
    BY <1>1, <2>1, <2>3 DEF HalvesInv
  <2>5. BounsInv'
    <3>1. \A p, bs, f, g : TwoBounds(p, bs, f, g)' = TwoBounds(p, bs, f, g)
      BY <2>3 DEF TwoBounds
    <3> QED BY <1>1, <2>1, <2>3, <3>1 DEF BounsInv
  <2>6. WallInv'
    BY <1>1, <2>1, <2>3 DEF WallInv
  <2> QED BY <2>2, <2>4, <2>5, <2>6 DEF IInv
<1> QED
  BY <1>3, <1>4, <1>5, <1>6, <1>7, <1>8, <1>9, <1>10, <1>11, <1>12, <1>13, <1>14, <1>15,
     <1>16, <1>17 DEF Next

\* Every variable keeps its type through a stage: every quotient, inverse and
\* boundary half the solver takes is there to be taken.
THEOREM Typing == Spec => []TypeOK
<1>1. IInv => TypeOK
  BY DEF IInv
<1> QED BY <1>1, InitIInv, NextIInv, PTL DEF Spec

\* Two boundary halves meet at every point of the boundary, none elsewhere,
\* and both halves of a face have one boundary and one normal: for every
\* balanced forest of every depth (the warning at hydro_callbacks.h 1072 never
\* comes).
THEOREM TwoHalvesAlways == Spec => []TwoHalvesAtBoundary
<1>1. IInv => TwoHalvesAtBoundary
  BY TwoHalves DEF IInv
<1> QED BY <1>1, InitIInv, NextIInv, PTL DEF Spec

\* A corner on a wall does not leave it, for every forest, every pair of
\* boundaries, every gas and both solvers.
THEOREM WallsAlwaysHold == Spec => []WallsHold
<1>1. IInv => WallsHold
  BY WallsHeld DEF IInv
<1> QED BY <1>1, InitIInv, NextIInv, PTL DEF Spec

-----------------------------------------------------------------------------
(* The local masters. *)

\* A sum of two terms.
Both(S, a, b) == S = {a, b} /\ a # b
\* A sum over a pair.
LEMMA SumOfPair ==
  ASSUME NEW G, NEW S, NEW a, NEW b, Both(S, a, b), \A x \in S : G[x] \in Int
  PROVE  SumOver(G, S) = G[a] + G[b]
<1>1. a \in S /\ b \in S /\ S \ {a} = {b} /\ {b} \ {b} = {} /\ b \in {b}
  BY DEF Both
<1>2. IsFiniteSet(S) /\ IsFiniteSet({b})
  <2>1. IsFiniteSet({a}) /\ IsFiniteSet({b}) /\ {a} \cup {b} = S
    BY FS_Singleton DEF Both
  <2> QED BY <2>1, FS_Union
<1>3. SumOver(G, S) = G[a] + SumOver(G, {b})
  BY <1>1, <1>2, SumStep
<1>4. SumOver(G, {b}) = G[b] + SumOver(G, {})
  <2>1. \A x \in {b} : G[x] \in Int
    BY <1>1
  <2> QED BY <1>1, <1>2, <2>1, SumStep
<1>5. SumOver(G, {}) = 0
  BY SumOfNone
<1> QED BY <1>1, <1>3, <1>4, <1>5

\* A sum of two vectors, or matrices.
LEMMA VectorSumOfTwo ==
  ASSUME NEW F, NEW S, NEW a, NEW b, Both(S, a, b),
         NEW u \in Vector, NEW v \in Vector, F[a] = u, F[b] = v
  PROVE  VectorSum(F, S) = Plus(u, v)
<1>1. ASSUME NEW i, u[i] \in Int, v[i] \in Int
      PROVE  Part(F, S, i) = u[i] \oplus v[i]
  <2> DEFINE G == [x \in S |-> F[x][i]]
  <2>1. a \in S /\ b \in S /\ \A x \in S : x = a \/ x = b
    BY DEF Both
  <2>2. G[a] = u[i] /\ G[b] = v[i] /\ \A x \in S : G[x] \in Int
    BY <1>1, <2>1
  <2> HIDE DEF G
  <2>3. SumOver(G, S) = G[a] + G[b]
    BY <2>2, SumOfPair
  <2>4. Part(F, S, i) = SumOver(G, S) % Modulus
    BY DEF Part, G
  <2> QED BY <2>2, <2>3, <2>4 DEF \oplus
<1>2. u[1] \in Int /\ u[2] \in Int /\ v[1] \in Int /\ v[2] \in Int /\ DOMAIN u = {1, 2}
  BY VectorParts
<1>3. Part(F, S, 1) = u[1] \oplus v[1] /\ Part(F, S, 2) = u[2] \oplus v[2]
  BY <1>1, <1>2
<1> QED BY <1>2, <1>3, PlusOfPairs DEF VectorSum

\* The same for matrices.
LEMMA MatrixSumOfTwo ==
  ASSUME NEW F, NEW S, NEW a, NEW b, Both(S, a, b),
         NEW u \in Matrix, NEW v \in Matrix, F[a] = u, F[b] = v
  PROVE  MatrixSum(F, S) = Plus(u, v)
<1>1. ASSUME NEW i, u[i] \in Int, v[i] \in Int
      PROVE  Part(F, S, i) = u[i] \oplus v[i]
  <2> DEFINE G == [x \in S |-> F[x][i]]
  <2>1. a \in S /\ b \in S /\ \A x \in S : x = a \/ x = b
    BY DEF Both
  <2>2. G[a] = u[i] /\ G[b] = v[i] /\ \A x \in S : G[x] \in Int
    BY <1>1, <2>1
  <2> HIDE DEF G
  <2>3. SumOver(G, S) = G[a] + G[b]
    BY <2>2, SumOfPair
  <2>4. Part(F, S, i) = SumOver(G, S) % Modulus
    BY DEF Part, G
  <2> QED BY <2>2, <2>3, <2>4 DEF \oplus
<1>2. /\ u[1] \in Int /\ u[2] \in Int /\ u[3] \in Int /\ u[4] \in Int
      /\ v[1] \in Int /\ v[2] \in Int /\ v[3] \in Int /\ v[4] \in Int
      /\ DOMAIN u = {1, 2, 3, 4}
  BY MatrixParts
<1>3. /\ Part(F, S, 1) = u[1] \oplus v[1] /\ Part(F, S, 2) = u[2] \oplus v[2]
      /\ Part(F, S, 3) = u[3] \oplus v[3] /\ Part(F, S, 4) = u[4] \oplus v[4]
  BY <1>1, <1>2
<1> QED BY <1>2, <1>3, PlusOfQuads DEF MatrixSum

\* Vectors are added in any order.
LEMMA PlusCommutes ==
  ASSUME NEW u \in Vector, NEW v \in Vector
  PROVE  Plus(u, v) = Plus(v, u)
<1>1. /\ DOMAIN u = {1, 2} /\ DOMAIN v = {1, 2}
      /\ u[1] \in Int /\ u[2] \in Int /\ v[1] \in Int /\ v[2] \in Int
  BY VectorParts
<1>2. u[1] \oplus v[1] = v[1] \oplus u[1] /\ u[2] \oplus v[2] = v[2] \oplus u[2]
  <2>1. u[1] + v[1] = v[1] + u[1] /\ u[2] + v[2] = v[2] + u[2]
    BY <1>1
  <2> QED BY <2>1 DEF \oplus
<1> QED BY <1>1, <1>2, PlusOfPairs

\* The two faces and the two half edges at a corner.
LEMMA FacesOfCorner ==
  ASSUME NEW k \in Corner
  PROVE  /\ FacesAt(k) = {FaceOf[k]["plus"], FaceOf[k]["minus"]}
         /\ FaceOf[k]["plus"] # FaceOf[k]["minus"]
         /\ FaceOf[k]["plus"] \in Face /\ FaceOf[k]["minus"] \in Face
         /\ Sides = {"plus", "minus"} /\ "plus" \in Sides /\ "minus" \in Sides
<1> DEFINE a == FaceOf[k]["plus"]
           b == FaceOf[k]["minus"]
<1>1. Sides = {"plus", "minus"} /\ "plus" \in Sides /\ "minus" \in Sides
  BY DEF Sides
<1>2. a \in Face /\ b \in Face
  BY <1>1, FaceOfType
<1>3. a # b
  BY DEF FaceOf, Corner
<1>4. ASSUME NEW f \in Face
      PROVE  k \in {LowEnd[f], HighEnd[f]} <=> f = a \/ f = b
  <2>1. LowHalf[f] \in Sides /\ LowHalf[f] \in {"plus", "minus"}
        /\ OtherHalf[LowHalf[f]] \in Sides
    BY <1>1, HalvesOfFace
  <2>2. ASSUME k = LowEnd[f] \/ k = HighEnd[f]
        PROVE  f = a \/ f = b
    BY <1>1, <2>1, <2>2, HalfOfFace
  <2>3. ASSUME NEW s \in Sides, f = FaceOf[k][s]
        PROVE  k = LowEnd[f] \/ k = HighEnd[f]
    BY <2>3, HalfOfFace
  <2>4. ASSUME f = a \/ f = b
        PROVE  k = LowEnd[f] \/ k = HighEnd[f]
    BY <1>1, <2>3, <2>4
  <2> QED BY <2>2, <2>4
<1>5. FacesAt(k) = {a, b}
  <2> HIDE DEF a, b
  <2> QED BY <1>2, <1>4 DEF FacesAt
<1> QED BY <1>1, <1>2, <1>3, <1>5

\* Where no edge is divided, a master is made of what the half edges are.
LEMMA MasterIsMatrix ==
  ASSUME TypeOK, HalvesInv, phase \notin Early, NEW c \in forest, NEW k \in Corner,
         \A f \in FacesAt(k) : ~ Divided(c, f)
  PROVE  /\ MatrixSum(MasterIn(c, k), FacesAt(k)) = MatrixSum(ResistanceIn(c, k), Sides)
         /\ VectorSum(MasterPush(c, k), FacesAt(k)) = PushOfHalves(c, k)
<1> DEFINE a == FaceOf[k]["plus"]
           b == FaceOf[k]["minus"]
           l == Half(Side(c))
<1>1. /\ FacesAt(k) = {a, b} /\ a # b /\ a \in Face /\ b \in Face
      /\ Sides = {"plus", "minus"} /\ "plus" \in Sides /\ "minus" \in Sides
  BY FacesOfCorner
<1>2. l \in Residue
  <2>1. forest \subseteq Cells
    BY BalancedForest DEF TypeOK, SettingOK
  <2>2. Side(c) \in Int
    BY <2>1, CellParts
  <2> QED BY <2>2, HalfType
<1>3. ASSUME NEW j \in Corner, NEW s \in Sides, FaceOf[j][s] \in FacesAt(k)
      PROVE  half[c][j][s] = HalfIn(c, FaceOf[j][s], l)
  <2>1. half[c][j][s] = HalfIn(c, FaceOf[j][s], LengthOf(c, FaceOf[j][s]))
    BY DEF HalvesInv
  <2>2. LengthOf(c, FaceOf[j][s]) = l
    BY <1>3 DEF LengthOf
  <2> QED BY <2>1, <2>2
<1>4. ASSUME NEW f \in FacesAt(k)
      PROVE  Half(FirstSegment(c, f).length) = l /\ FirstSegment(c, f).normal = Outward[f]
  <2>1. f \in Face
    BY <1>1
  <2>2. /\ LowEnd[f] \in Corner /\ HighEnd[f] \in Corner
        /\ LowHalf[f] \in Sides /\ OtherHalf[LowHalf[f]] \in Sides
        /\ FaceOf[LowEnd[f]][LowHalf[f]] = f
        /\ FaceOf[HighEnd[f]][OtherHalf[LowHalf[f]]] = f
    BY <2>1, HalvesOfFace
  <2>3. LowHalfOf(c, f) = HalfIn(c, f, l) /\ HighHalfOf(c, f) = HalfIn(c, f, l)
    BY <1>3, <1>4, <2>2 DEF LowHalfOf, HighHalfOf
  <2>4. LowHalfOf(c, f).length = l /\ HighHalfOf(c, f).length = l /\ LowHalfOf(c, f).normal = Outward[f]
    <3> HIDE DEF l
    <3> QED BY <2>3 DEF HalfIn
  <2>5. ~ Divided(c, f)
    OBVIOUS
  <2> HIDE DEF l
  <2>6. FirstSegment(c, f).length = l \oplus l /\ FirstSegment(c, f).normal = Outward[f]
    BY <2>4, <2>5 DEF FirstSegment
  <2>7. Half(l \oplus l) = l % Modulus
    BY <1>2, ResidueIsInt, HalfOfDouble
  <2>8. l % Modulus = l
    BY <1>2, ResidueIsNumber
  <2> QED BY <2>6, <2>7, <2>8
<1>5. ASSUME NEW s \in Sides
      PROVE  half[c][k][s].length = l /\ half[c][k][s].normal = Outward[FaceOf[k][s]]
  <2>1. FaceOf[k][s] \in FacesAt(k)
    BY <1>1
  <2>2. half[c][k][s] = HalfIn(c, FaceOf[k][s], l)
    BY <1>3, <2>1
  <2> HIDE DEF l
  <2> QED BY <2>2 DEF HalfIn
<1> DEFINE F == MasterIn(c, k)
           G == ResistanceIn(c, k)
           P == MasterPush(c, k)
           Q == PushIn(c, k)
<1>6. ASSUME NEW s \in Sides
      PROVE  /\ F[FaceOf[k][s]] = G[s] /\ F[FaceOf[k][s]] \in Matrix
             /\ P[FaceOf[k][s]] = Q[s] /\ P[FaceOf[k][s]] \in Vector
  <2> DEFINE f == FaceOf[k][s]
             n == Outward[f]
  <2>1. f \in FacesAt(k) /\ f \in Face
    BY <1>1
  <2>2. Half(FirstSegment(c, f).length) = l /\ FirstSegment(c, f).normal = n
    BY <1>4, <2>1
  <2>3. F[f] = Resistance(c, l, n) /\ P[f] = Scaled(l, n)
    BY <2>1, <2>2 DEF MasterIn, MasterPush
  <2>4. half[c][k][s].length = l /\ half[c][k][s].normal = n
    BY <1>5
  <2>5. G[s] = Resistance(c, l, n) /\ Q[s] = Scaled(l, n)
    BY <2>4 DEF ResistanceIn, PushIn, Push
  <2>6. n \in Vector
    BY <2>1, OutwardType
  <2> HIDE DEF n, l, F, G, P, Q
  <2>7. Resistance(c, l, n) \in Matrix /\ Scaled(l, n) \in Vector
    BY <1>2, <2>6, ResistanceType, VectorType, VectorIsPair, ResidueIsInt DEF TypeOK
  <2> QED BY <2>3, <2>5, <2>7
<1>7. /\ F[a] = G["plus"] /\ F[b] = G["minus"] /\ F[a] \in Matrix /\ F[b] \in Matrix
      /\ P[a] = Q["plus"] /\ P[b] = Q["minus"] /\ P[a] \in Vector /\ P[b] \in Vector
  BY <1>1, <1>6
<1> HIDE DEF a, b, F, G, P, Q
<1> DEFINE S == FacesAt(k)
           m == G["plus"]
           n == G["minus"]
           u == Q["plus"]
           v == Q["minus"]
<1>8. Both(S, a, b) /\ Both(Sides, "plus", "minus")
  BY <1>1 DEF Both
<1>9. /\ F[a] = m /\ F[b] = n /\ m \in Matrix /\ n \in Matrix
      /\ P[a] = u /\ P[b] = v /\ u \in Vector /\ v \in Vector
  BY <1>7
<1>10. G["plus"] = m /\ G["minus"] = n /\ Q["plus"] = u /\ Q["minus"] = v
  OBVIOUS
<1> HIDE DEF S, m, n, u, v
<1>11. MatrixSum(F, S) = Plus(m, n) /\ MatrixSum(G, Sides) = Plus(m, n)
  BY <1>8, <1>9, <1>10, MatrixSumOfTwo
<1>12. VectorSum(P, S) = Plus(u, v)
  <2>1. Both(S, a, b) /\ P[a] = u /\ P[b] = v /\ u \in Vector /\ v \in Vector
    BY <1>8, <1>9
  <2> QED BY <2>1, VectorSumOfTwo
<1>13. VectorSum(Q, Sides) = Plus(u, v)
  <2>1. Both(Sides, "plus", "minus") /\ Q["plus"] = u /\ Q["minus"] = v /\ u \in Vector /\ v \in Vector
    BY <1>8, <1>9, <1>10
  <2> QED BY <2>1, VectorSumOfTwo
<1> QED BY <1>11, <1>12, <1>13, PushOfHalvesIs DEF F, G, P, Q, S

\* The local master, in sums of functions.
Master(c, k) ==
  LET m == MatrixSum(MasterIn(c, k), FacesAt(k))
  IN  [matrix |-> m,
       rhs |-> Plus(MatrixDotVector(m, cell[c].cur.velocity),
                    Scaled(cell[c].cur.pressure, VectorSum(MasterPush(c, k), FacesAt(k))))]

\* What the masters are when the solver starts, and that they match when it has.
MirrorInv ==
  /\ phase = "corners" => \A c \in forest : \A k \in Corner : mirror[c][k] = Master(c, k)
  /\ phase \notin Early \cup {"master", "corners"} /\ solver = "GridAligned" =>
       \A c \in forest : \A k \in Corner : (\A f \in FacesAt(k) : ~ Divided(c, f)) =>
         /\ mirror[c][k].matrix = node[c][k].matrix
         /\ mirror[c][k].rhs = node[c][k].rhs

\* The local masters, from the lengths and normals of the halves.
LEMMA WriteMastersMatch ==
  ASSUME TypeOK, WriteMasters
  PROVE  MirrorInv'
<1>1. /\ phase' = "corners" /\ setting' = setting /\ cell' = cell /\ half' = half
      /\ mirror' = [c \in forest |-> [k \in Corner |-> LocalMaster(c, k)]]
  BY DEF WriteMasters, Step
<1>2. forest' = forest /\ Hanging' = Hanging
  BY <1>1, Same
<1>3. \A c, k : Master(c, k)' = Master(c, k)
  <2>1. \A c, f : FirstSegment(c, f)' = FirstSegment(c, f)
    BY <1>1, <1>2 DEF FirstSegment, LowHalfOf, HighHalfOf, Divided
  <2>2. \A c, l, n : Resistance(c, l, n)' = Resistance(c, l, n)
    BY <1>1 DEF Resistance, Impedance
  <2>3. \A c, k : MasterIn(c, k)' = MasterIn(c, k) /\ MasterPush(c, k)' = MasterPush(c, k)
    BY <2>1, <2>2 DEF MasterIn, MasterPush
  <2> QED BY <1>1, <2>3 DEF Master
<1>4. \A c \in forest : \A k \in Corner : mirror'[c][k] = Master(c, k)'
  BY <1>1, <1>3, LocalMasterIs DEF Master
<1> QED BY <1>1, <1>2, <1>4 DEF MirrorInv, Early

\* The corner matrices of the grid-aligned solver, from the same.
LEMMA AssembleCornersMatch ==
  ASSUME IInv, MirrorInv, AssembleCorners
  PROVE  MirrorInv'
<1>1. /\ phase = "corners" /\ phase' = "points" /\ setting' = setting /\ mirror' = mirror
      /\ node' = [c \in forest |-> [k \in Corner |->
           LET m == CornerMatrix(c, k)
           IN  [node[c][k] EXCEPT
                  !.flux = Zero, !.matrix = m,
                  !.rhs = Plus(Scaled(cell[c].cur.pressure, PushOfHalves(c, k)),
                               MatrixDotVector(m, cell[c].cur.velocity))]]]
  BY DEF AssembleCorners, Step
<1>2. forest' = forest /\ Hanging' = Hanging /\ solver' = solver
  BY <1>1, Same
<1>3. ASSUME NEW c \in forest, NEW k \in Corner, \A f \in FacesAt(k) : ~ Divided(c, f),
             solver = "GridAligned"
      PROVE  mirror[c][k].matrix = node'[c][k].matrix /\ mirror[c][k].rhs = node'[c][k].rhs
  <2> DEFINE m == MatrixSum(ResistanceIn(c, k), Sides)
             p == Scaled(cell[c].cur.pressure, PushOfHalves(c, k))
             d == MatrixDotVector(m, cell[c].cur.velocity)
  <2>1. CornerMatrix(c, k) = m
    BY <1>3, CornerMatrixIs
  <2>2. node'[c][k] = [node[c][k] EXCEPT !.flux = Zero, !.matrix = m, !.rhs = Plus(p, d)]
    BY <1>1, <2>1
  <2>3. /\ MatrixSum(MasterIn(c, k), FacesAt(k)) = m
        /\ VectorSum(MasterPush(c, k), FacesAt(k)) = PushOfHalves(c, k)
    BY <1>1, <1>3, MasterIsMatrix DEF IInv, Early
  <2>4. mirror[c][k] = [matrix |-> m, rhs |-> Plus(d, p)]
    BY <1>1, <2>3 DEF MirrorInv, Master
  <2>5. m \in Matrix
    BY <2>1, CornerMatrixType DEF IInv, TypeOK
  <2> HIDE DEF m
  <2>6. p \in Vector /\ d \in Vector
    BY <2>5, PushType, EquationType DEF IInv, TypeOK
  <2> HIDE DEF p, d
  <2>7. Plus(p, d) = Plus(d, p)
    BY <2>6, PlusCommutes
  <2>8. node[c][k] \in NodeRecord
    BY NodeRecordParts DEF IInv, TypeOK
  <2> QED BY <2>2, <2>4, <2>7, <2>8 DEF NodeRecord
<1>4. \A c, f : Divided(c, f)' = Divided(c, f)
  BY <1>2 DEF Divided
<1> QED BY <1>1, <1>2, <1>3, <1>4 DEF MirrorInv, Early

\* Masters and corner matrices that agree do so while both stay.
LEMMA MirrorsStay ==
  ASSUME MirrorInv, setting' = setting, mirror' = mirror, phase' # "corners",
         phase \notin Early \cup {"master", "corners"},
         \A c \in forest : \A k \in Corner :
           node'[c][k].matrix = node[c][k].matrix /\ node'[c][k].rhs = node[c][k].rhs
  PROVE  MirrorInv'
<1>1. forest' = forest /\ Hanging' = Hanging /\ solver' = solver
  BY Same
<1>2. \A c, f : Divided(c, f)' = Divided(c, f)
  BY <1>1 DEF Divided
<1> QED BY <1>1, <1>2 DEF MirrorInv

\* Every step of a stage keeps the masters' invariant.
LEMMA NextMirrorInv ==
  ASSUME IInv, MirrorInv, [Next]_vars
  PROVE  MirrorInv'
<1>1. NodeOK
  BY DEF IInv, TypeOK
<1>2. ASSUME setting' = setting, mirror' = mirror, node' = node, phase' # "corners",
             phase \notin Early \cup {"master", "corners"}
      PROVE  MirrorInv'
  BY <1>2, MirrorsStay
<1>3. ASSUME phase' \in Early \cup {"master"}
      PROVE  MirrorInv'
  BY <1>3 DEF MirrorInv, Early
<1>4. CASE GetBoundary
  BY <1>3, <1>4 DEF GetBoundary, Step, Early
<1>5. CASE HalfCorner
  BY <1>3, <1>5 DEF HalfCorner, Step, Early
<1>6. CASE GetAMRBoundary
  BY <1>3, <1>6 DEF GetAMRBoundary, Step, Early
<1>7. CASE WriteMasters
  BY <1>7, WriteMastersMatch DEF IInv
<1>8. CASE AssembleCorners
  BY <1>8, AssembleCornersMatch
<1>9. CASE AssemblePoints
  BY <1>2, <1>9 DEF AssemblePoints, Step, Early
<1>10. CASE SolveCorners
  <2>1. /\ setting' = setting /\ mirror' = mirror /\ phase = "velocity" /\ phase' = "edges"
        /\ node' = [c \in forest |-> [k \in Corner |->
             [node[c][k] EXCEPT !.velocity =
                IF Regular(c, k) THEN CornerVelocity(c, k) ELSE node[c][k].velocity]]]
    BY <1>10 DEF SolveCorners, Step
  <2>2. ASSUME NEW c \in forest, NEW k \in Corner
        PROVE  node'[c][k].matrix = node[c][k].matrix /\ node'[c][k].rhs = node[c][k].rhs
    <3> DEFINE u == IF Regular(c, k) THEN CornerVelocity(c, k) ELSE node[c][k].velocity
    <3>1. node'[c][k] = [node[c][k] EXCEPT !.velocity = u] /\ node[c][k] \in NodeRecord
      BY <1>1, <2>1, NodeRecordParts
    <3> HIDE DEF u
    <3> QED BY <3>1 DEF NodeRecord
  <2> QED BY <2>1, <2>2, MirrorsStay DEF Early
<1>11. CASE AssembleEdges
  BY <1>2, <1>11 DEF AssembleEdges, Step, Early
<1>12. CASE SolveHanging
  <2>1. /\ setting' = setting /\ mirror' = mirror /\ phase = "hanging" /\ phase' = "forces"
        /\ node' = [c \in forest |-> [k \in Corner |->
             IF Regular(c, k) THEN node[c][k]
             ELSE LET h == (CHOOSE q \in HangsAt(c, k) : TRUE)[1]
                  IN  [node[c][k] EXCEPT !.velocity = HangingVelocity(h), !.flux = Flux(h, c)]]]
    BY <1>12 DEF SolveHanging, Step
  <2>2. ASSUME NEW c \in forest, NEW k \in Corner
        PROVE  node'[c][k].matrix = node[c][k].matrix /\ node'[c][k].rhs = node[c][k].rhs
    <3>1. CASE Regular(c, k)
      BY <2>1, <3>1
    <3>2. CASE ~ Regular(c, k)
      <4> DEFINE u == HangingVelocity(HangingAt(c, k))
                 x == Flux(HangingAt(c, k), c)
      <4>1. node'[c][k] = [node[c][k] EXCEPT !.velocity = u, !.flux = x]
        BY <2>1, <3>2 DEF HangingAt
      <4>2. node[c][k] \in NodeRecord
        BY <1>1, NodeRecordParts
      <4> HIDE DEF u, x
      <4> QED BY <4>1, <4>2 DEF NodeRecord
    <3> QED BY <3>1, <3>2
  <2> QED BY <2>1, <2>2, MirrorsStay DEF Early
<1>13. CASE ComputeForces
  <2>1. /\ setting' = setting /\ mirror' = mirror /\ phase = "forces" /\ phase' = "coordinates"
        /\ node' = [c \in forest |-> [k \in Corner |->
             [node[c][k] EXCEPT !.force =
                ForceOn(c, PushOfHalves(c, k), node[c][k].matrix, node[c][k].velocity)]]]
    BY <1>13 DEF ComputeForces, Step
  <2>2. ASSUME NEW c \in forest, NEW k \in Corner
        PROVE  node'[c][k].matrix = node[c][k].matrix /\ node'[c][k].rhs = node[c][k].rhs
    <3> DEFINE x == ForceOn(c, PushOfHalves(c, k), node[c][k].matrix, node[c][k].velocity)
    <3>1. node'[c][k] = [node[c][k] EXCEPT !.force = x] /\ node[c][k] \in NodeRecord
      BY <1>1, <2>1, NodeRecordParts
    <3> HIDE DEF x
    <3> QED BY <3>1 DEF NodeRecord
  <2> QED BY <2>1, <2>2, MirrorsStay DEF Early
<1>14. CASE MoveCorners
  <2>1. /\ setting' = setting /\ mirror' = mirror /\ phase = "coordinates" /\ phase' = "density"
        /\ node' = [c \in forest |-> [k \in Corner |-> [node[c][k] EXCEPT !.lag =
             Plus(Middle(node[c][k].cur, node[c][k].lag),
                  Scaled(TimeStep, node[c][k].velocity))]]]
    BY <1>14 DEF MoveCorners, Step
  <2>2. ASSUME NEW c \in forest, NEW k \in Corner
        PROVE  node'[c][k].matrix = node[c][k].matrix /\ node'[c][k].rhs = node[c][k].rhs
    <3> DEFINE x == Plus(Middle(node[c][k].cur, node[c][k].lag),
                         Scaled(TimeStep, node[c][k].velocity))
    <3>1. node'[c][k] = [node[c][k] EXCEPT !.lag = x] /\ node[c][k] \in NodeRecord
      BY <1>1, <2>1, NodeRecordParts
    <3> HIDE DEF x
    <3> QED BY <3>1 DEF NodeRecord
  <2> QED BY <2>1, <2>2, MirrorsStay DEF Early
<1>15. CASE UpdateDensity
  BY <1>2, <1>15 DEF UpdateDensity, Step, Early
<1>16. CASE UpdateCells
  BY <1>2, <1>16 DEF UpdateCells, Step, Early
<1>17. CASE Accept
  <2>1. /\ setting' = setting /\ mirror' = mirror /\ phase = "accept" /\ phase' = "accepted"
        /\ node' = [c \in forest |-> [k \in Corner |->
             [node[c][k] EXCEPT !.cur = node[c][k].lag]]]
    BY <1>17 DEF Accept, Step
  <2>2. ASSUME NEW c \in forest, NEW k \in Corner
        PROVE  node'[c][k].matrix = node[c][k].matrix /\ node'[c][k].rhs = node[c][k].rhs
    <3>1. node'[c][k] = [node[c][k] EXCEPT !.cur = node[c][k].lag] /\ node[c][k] \in NodeRecord
      BY <1>1, <2>1, NodeRecordParts
    <3> QED BY <3>1 DEF NodeRecord
  <2> QED BY <2>1, <2>2, MirrorsStay DEF Early
<1>18. CASE UNCHANGED vars
  <2>1. /\ setting' = setting /\ cell' = cell /\ node' = node /\ half' = half
        /\ mirror' = mirror /\ phase' = phase
    BY <1>18 DEF vars, setting
  <2>2. forest' = forest /\ Hanging' = Hanging /\ solver' = solver
    BY <2>1, Same
  <2>3. \A c, f : Divided(c, f)' = Divided(c, f)
    BY <2>2 DEF Divided
  <2>4. \A c, k : Master(c, k)' = Master(c, k)
    <3>1. \A c, f : FirstSegment(c, f)' = FirstSegment(c, f)
      BY <2>1, <2>3 DEF FirstSegment, LowHalfOf, HighHalfOf
    <3>2. \A c, l, n : Resistance(c, l, n)' = Resistance(c, l, n)
      BY <2>1 DEF Resistance, Impedance
    <3>3. \A c, k : MasterIn(c, k)' = MasterIn(c, k) /\ MasterPush(c, k)' = MasterPush(c, k)
      BY <3>1, <3>2 DEF MasterIn, MasterPush
    <3> QED BY <2>1, <3>3 DEF Master
  <2> QED BY <2>1, <2>2, <2>3, <2>4 DEF MirrorInv
<1> QED
  BY <1>4, <1>5, <1>6, <1>7, <1>8, <1>9, <1>10, <1>11, <1>12, <1>13, <1>14, <1>15,
     <1>16, <1>17, <1>18 DEF Next

\* The mirror's local master is the corner matrix of the grid-aligned solver at
\* every corner where no edge of the leaf is divided, in every forest.
THEOREM MastersAlwaysMatch == Spec => []MastersMatch
<1>1. Init => IInv /\ MirrorInv
  <2> SUFFICES ASSUME Init PROVE IInv /\ MirrorInv
    OBVIOUS
  <2>1. phase = "boundary"
    BY DEF Init
  <2> QED BY <2>1, InitIInv DEF MirrorInv, Early
<1>2. IInv /\ MirrorInv /\ [Next]_vars => IInv' /\ MirrorInv'
  BY NextIInv, NextMirrorInv
<1>3. IInv /\ MirrorInv => MastersMatch
  <2> SUFFICES ASSUME IInv, MirrorInv, phase \notin Early \cup {"master", "corners"},
                      solver = "GridAligned",
                      NEW q \in Corners, \A f \in FacesAt(q[2]) : ~ Divided(q[1], f)
               PROVE  /\ mirror[q[1]][q[2]].matrix = node[q[1]][q[2]].matrix
                      /\ mirror[q[1]][q[2]].rhs = node[q[1]][q[2]].rhs
    <3>1. IInv => phase \in Phases
      BY DEF IInv, TypeOK
    <3> QED BY <3>1, SinceIs DEF MastersMatch
  <2>1. q[1] \in forest /\ q[2] \in Corner
    BY DEF Corners
  <2> QED BY <2>1 DEF MirrorInv
<1> QED BY <1>1, <1>2, <1>3, PTL DEF Spec

-----------------------------------------------------------------------------
(* The energies. *)

\* Two integers of one residue.
Congruent(x, y) == x \in Int /\ y \in Int /\ x % Modulus = y % Modulus

\* Congruence is an equivalence, and equality of residues.
LEMMA CongruentNumbers ==
  /\ \A x \in Int : Congruent(x, x)
  /\ \A x, y : Congruent(x, y) => Congruent(y, x)
  /\ \A x, y, z : Congruent(x, y) /\ Congruent(y, z) => Congruent(x, z)
  /\ \A x, y \in Residue : Congruent(x, y) => x = y
<1>1. \A x, y \in Residue : Congruent(x, y) => x = y
  BY ResidueIsNumber DEF Congruent
<1> QED BY <1>1 DEF Congruent

\* Sums and differences of congruent integers.
LEMMA CongruentSums ==
  ASSUME NEW x, NEW y, NEW a, NEW b, Congruent(x, a), Congruent(y, b)
  PROVE  Congruent(x + y, a + b) /\ Congruent(x - y, a - b)
<1>1. x \in Int /\ y \in Int /\ a \in Int /\ b \in Int
      /\ x % Modulus = a % Modulus /\ y % Modulus = b % Modulus
  BY DEF Congruent
<1>2. /\ (x + y) % Modulus = ((x % Modulus) + (y % Modulus)) % Modulus
      /\ (a + b) % Modulus = ((a % Modulus) + (b % Modulus)) % Modulus
      /\ (x - y) % Modulus = ((x % Modulus) - (y % Modulus)) % Modulus
      /\ (a - b) % Modulus = ((a % Modulus) - (b % Modulus)) % Modulus
  BY <1>1, ResidueOfSum
<1>3. x + y \in Int /\ a + b \in Int /\ x - y \in Int /\ a - b \in Int
  BY <1>1
<1> QED BY <1>1, <1>2, <1>3 DEF Congruent

\* Products of congruent integers.
LEMMA CongruentProducts ==
  ASSUME NEW x, NEW y, NEW a, NEW b, Congruent(x, a), Congruent(y, b)
  PROVE  Congruent(x * y, a * b)
<1>1. x \in Int /\ y \in Int /\ a \in Int /\ b \in Int
      /\ x % Modulus = a % Modulus /\ y % Modulus = b % Modulus
  BY DEF Congruent
<1>2. /\ (x * y) % Modulus = ((x % Modulus) * (y % Modulus)) % Modulus
      /\ (a * b) % Modulus = ((a % Modulus) * (b % Modulus)) % Modulus
  BY <1>1, ResidueOfProduct
<1>3. x * y \in Int /\ a * b \in Int
  BY <1>1
<1> QED BY <1>1, <1>2, <1>3 DEF Congruent

\* A sum, difference or product of residues is one of integers.
LEMMA CongruentResidues ==
  ASSUME NEW x, NEW y, NEW a, NEW b, Congruent(x, a), Congruent(y, b)
  PROVE  /\ Congruent(x \oplus y, a + b) /\ Congruent(x \ominus y, a - b)
         /\ Congruent(x \otimes y, a * b)
<1>1. Congruent(x + y, a + b) /\ Congruent(x - y, a - b) /\ Congruent(x * y, a * b)
  BY CongruentSums, CongruentProducts
<1>2. ASSUME NEW u, NEW v, Congruent(u, v)
      PROVE  Congruent(u % Modulus, v)
  <2>1. u \in Int /\ v \in Int /\ u % Modulus = v % Modulus
    BY <1>2 DEF Congruent
  <2>2. u % Modulus \in Residue
    BY <2>1, ResidueOf
  <2>3. u % Modulus \in Int /\ (u % Modulus) % Modulus = u % Modulus
    BY <2>2, ResidueIsNumber
  <2> QED BY <2>1, <2>3 DEF Congruent
<1> QED BY <1>1, <1>2 DEF \oplus, \ominus, \otimes

\* Half, as a product of integers.
LEMMA CongruentHalf ==
  ASSUME NEW x, NEW a, Congruent(x, a)
  PROVE  Congruent(Half(x), a * Reciprocal(2))
<1>1. Congruent(Reciprocal(2), Reciprocal(2))
  BY TwoHasHalf, ResidueIsInt, CongruentNumbers
<1> QED BY <1>1, CongruentResidues DEF Half, \oslash

\* The middle of a velocity and itself.
LEMMA MiddleOfSame ==
  ASSUME NEW u \in Vector
  PROVE  Middle(u, u) = u
<1> DEFINE h == Half(1)
           r == Reciprocal(2)
<1>1. u[1] \in Residue /\ u[2] \in Residue /\ DOMAIN u = {1, 2} /\ u = <<u[1], u[2]>>
  BY VectorParts
<1>2. Congruent(h, 1 * r) /\ r \in Int /\ Congruent(2 * r, 1)
  <2>1. r \in Int /\ (2 * r) % Modulus = 1 /\ 1 \in Int
    BY TwoHasHalf, ResidueIsInt
  <2>2. 1 % Modulus = 1
    BY UnitType, ResidueIsNumber
  <2>3. Congruent(h, 1 * r)
    BY <2>1, CongruentNumbers, CongruentHalf
  <2> HIDE DEF r
  <2>4. 2 * r \in Int
    BY <2>1
  <2> QED BY <2>1, <2>2, <2>3, <2>4 DEF Congruent
<1> HIDE DEF h, r
<1>3. ASSUME NEW x \in Residue
      PROVE  h \otimes (x \oplus x) = x
  <2>1. x \in Int /\ Congruent(x, x)
    BY ResidueIsInt, CongruentNumbers
  <2>2. Congruent(x \oplus x, x + x)
    BY <2>1, CongruentResidues
  <2>3. Congruent(h \otimes (x \oplus x), (1 * r) * (x + x))
    BY <1>2, <2>2, CongruentResidues
  <2>4. (1 * r) * (x + x) = (2 * r) * x
    BY <1>2, <2>1
  <2>5. Congruent((2 * r) * x, 1 * x)
    BY <1>2, <2>1, CongruentProducts
  <2>6. 1 * x = x
    BY <2>1
  <2>7. Congruent(h \otimes (x \oplus x), x)
    BY <2>3, <2>4, <2>5, <2>6, CongruentNumbers
  <2>8. h \otimes (x \oplus x) \in Residue
    <3>1. h \in Int /\ x \oplus x \in Int
      BY <1>2, <2>2 DEF Congruent
    <3> QED BY <3>1, ResidueType
  <2> QED BY <2>7, <2>8, CongruentNumbers
<1>4. Plus(u, u) = <<u[1] \oplus u[1], u[2] \oplus u[2]>>
  BY <1>1, PlusOfPairs
<1> DEFINE v == <<u[1] \oplus u[1], u[2] \oplus u[2]>>
<1>5. DOMAIN v = {1, 2} /\ v[1] = u[1] \oplus u[1] /\ v[2] = u[2] \oplus u[2]
  <2>1. 1..2 = {1, 2}
    OBVIOUS
  <2> QED BY <2>1
<1>6. Middle(u, u) = Scaled(h, v)
  BY <1>4 DEF Middle, h
<1> HIDE DEF v
<1>7. Scaled(h, v) = <<h \otimes v[1], h \otimes v[2]>>
  BY <1>5, ScaledPair
<1> QED BY <1>1, <1>3, <1>5, <1>6, <1>7

\* With nothing done yet, the values halfway are those before.
LEMMA HalfTimeOfSame ==
  ASSUME CellOK, NEW c \in forest, cell[c].cur.velocity = cell[c].lag.velocity,
         cell[c].cur.internal = cell[c].lag.internal, cell[c].cur.total = cell[c].lag.total
  PROVE  /\ HalfTime(c).velocity = cell[c].lag.velocity
         /\ HalfTime(c).internal = cell[c].lag.internal
         /\ HalfTime(c).total = cell[c].lag.total
<1>1. /\ cell[c].lag.velocity \in Vector
      /\ cell[c].lag.internal \in Residue /\ cell[c].lag.total \in Residue
  BY GasParts
<1>2. \A x \in Residue : Half(x \oplus x) = x
  <2> TAKE x \in Residue
  <2>1. x \in Int /\ x % Modulus = x
    BY ResidueIsNumber
  <2> QED BY <2>1, HalfOfDouble
<1>3. Middle(cell[c].cur.velocity, cell[c].lag.velocity) = cell[c].lag.velocity
  BY <1>1, MiddleOfSame
<1> QED BY <1>1, <1>2, <1>3 DEF HalfTime

\* What the forces take from the kinetic energy is their work on the way from
\* the old velocity to the new one: for each component, in integers.
LEMMA WorkOfComponent ==
  ASSUME NEW h \in Int, NEW u \in Int, NEW n \in Int, NEW e \in Int,
         Congruent(n, u - e)
  PROVE  Congruent((h * (u + n)) * e, h * (u * u) - h * (n * n))
<1>1. Congruent(u - n, e)
  <2>1. Congruent(u, u)
    BY CongruentNumbers
  <2>2. Congruent(u - n, u - (u - e))
    BY <2>1, CongruentSums
  <2>3. u - (u - e) = e
    OBVIOUS
  <2> QED BY <2>2, <2>3
<1>2. Congruent((h * (u + n)) * e, (h * (u + n)) * (u - n))
  <2>1. Congruent(h * (u + n), h * (u + n))
    <3>1. h * (u + n) \in Int
      OBVIOUS
    <3> QED BY <3>1, CongruentNumbers
  <2>2. Congruent(e, u - n)
    BY <1>1, CongruentNumbers
  <2> QED BY <2>1, <2>2, CongruentProducts
<1>3. (h * (u + n)) * (u - n) = h * (u * u) - h * (n * n)
  <2>1. (u + n) * (u - n) = u * u - n * n
    OBVIOUS
  <2>2. (h * (u + n)) * (u - n) = h * ((u + n) * (u - n))
    <3> DEFINE p == u + n
               q == u - n
    <3>1. p \in Int /\ q \in Int
      OBVIOUS
    <3> HIDE DEF p, q
    <3>2. (h * p) * q = h * (p * q)
      BY <3>1
    <3> QED BY <3>2 DEF p, q
  <2>3. h * (u * u - n * n) = h * (u * u) - h * (n * n)
    <3> DEFINE p == u * u
               q == n * n
    <3>1. p \in Int /\ q \in Int
      OBVIOUS
    <3> HIDE DEF p, q
    <3>2. h * (p - q) = h * p - h * q
      BY <3>1
    <3> QED BY <3>2 DEF p, q
  <2> QED BY <2>1, <2>2, <2>3
<1> QED BY <1>2, <1>3

\* A product in another order.
LEMMA ProductsOrder ==
  ASSUME NEW p \in Int, NEW s \in Int, NEW r \in Int, NEW d \in Int
  PROVE  d * ((p * s) * r) = p * (d * (r * s))
<1>1. (p * s) * r = p * (s * r) /\ s * r = r * s /\ p * s \in Int /\ s * r \in Int
  OBVIOUS
<1> DEFINE q == r * s
<1>2. (p * s) * r = p * q /\ q \in Int
  BY <1>1
<1> HIDE DEF q
<1>3. d * (p * q) = p * (d * q)
  BY <1>2
<1> QED BY <1>2, <1>3 DEF q

\* The kinetic energy of a velocity and the middle of two, in integers.
LEMMA KineticIs ==
  ASSUME NEW u \in Vector, NEW h, h = Reciprocal(2)
  PROVE  Congruent(Kinetic(u), h * (u[1] * u[1]) + h * (u[2] * u[2]))
<1>1. u[1] \in Int /\ u[2] \in Int /\ h \in Int
  BY VectorParts, TwoHasHalf, ResidueIsInt
<1> DEFINE a == u[1] * u[1]
           b == u[2] * u[2]
<1>2. a \in Int /\ b \in Int
  BY <1>1
<1>3. Congruent(u[1] \otimes u[1], a) /\ Congruent(u[2] \otimes u[2], b)
  BY <1>1, CongruentNumbers, CongruentResidues
<1> HIDE DEF a, b
<1>4. Congruent(Dot(u, u), a + b)
  BY <1>3, CongruentResidues DEF Dot
<1>5. Congruent(Kinetic(u), (a + b) * h)
  BY <1>4, CongruentHalf DEF Kinetic
<1>6. (a + b) * h = h * a + h * b
  BY <1>1, <1>2
<1> QED BY <1>5, <1>6 DEF a, b

\* The parts of the middle of two velocities.
LEMMA MiddleIs ==
  ASSUME NEW u \in Vector, NEW v \in Vector, NEW h, h = Reciprocal(2)
  PROVE  /\ Congruent(Middle(u, v)[1], h * (u[1] + v[1]))
         /\ Congruent(Middle(u, v)[2], h * (u[2] + v[2]))
<1>1. /\ u[1] \in Int /\ u[2] \in Int /\ v[1] \in Int /\ v[2] \in Int /\ h \in Int
      /\ DOMAIN u = {1, 2}
  BY VectorParts, TwoHasHalf, ResidueIsInt
<1>2. Congruent(Half(1), h)
  <2>1. Congruent(Half(1), 1 * h)
    BY CongruentNumbers, CongruentHalf
  <2>2. 1 * h = h
    BY <1>1
  <2> QED BY <2>1, <2>2
<1> DEFINE w == Plus(u, v)
<1>3. DOMAIN w = {1, 2} /\ w[1] = u[1] \oplus v[1] /\ w[2] = u[2] \oplus v[2]
  BY <1>1 DEF Plus
<1>4. Middle(u, v) = Scaled(Half(1), w)
  BY DEF Middle
<1> HIDE DEF w
<1>5. Middle(u, v)[1] = Half(1) \otimes w[1] /\ Middle(u, v)[2] = Half(1) \otimes w[2]
  BY <1>3, <1>4 DEF Scaled
<1>6. Congruent(w[1], u[1] + v[1]) /\ Congruent(w[2], u[2] + v[2])
  BY <1>1, <1>3, CongruentNumbers, CongruentResidues
<1> QED BY <1>2, <1>5, <1>6, CongruentResidues

\* The three equations of a leaf, in integers: what the work takes from the
\* total energy and the rest of it from the internal one leave the difference
\* to the kinetic energy of the new velocity.
Slowed(u, d, r, s) == u - d * (r * s)
Squares(h, x, y) == h * (x * x) + h * (y * y)
WorkBetween(h, u1, n1, s1, u2, n2, s2) == (h * (u1 + n1)) * s1 + (h * (u2 + n2)) * s2
Less(x, d, w, r) == x - d * (w * r)
\* The three equations of a leaf, as integers, from these.
LEMMA EquationsAgree ==
  ASSUME NEW h \in Int, NEW r \in Int, NEW d \in Int, NEW w \in Int, NEW i \in Int,
         NEW u1 \in Int, NEW u2 \in Int, NEW n1 \in Int, NEW n2 \in Int,
         NEW s1 \in Int, NEW s2 \in Int, NEW k, NEW t, NEW ni, NEW nt, NEW ku, NEW kn,
         Congruent(n1, Slowed(u1, d, r, s1)), Congruent(n2, Slowed(u2, d, r, s2)),
         Congruent(k, WorkBetween(h, u1, n1, s1, u2, n2, s2)),
         Congruent(ni, Less(i, d, w - k, r)),
         Congruent(nt, Less(t, d, w, r)),
         Congruent(ku, Squares(h, u1, u2)),
         Congruent(kn, Squares(h, n1, n2)),
         Congruent(t, ku + i)
  PROVE  Congruent(nt, ni + kn)
<1>0. /\ Congruent(n1, u1 - d * (r * s1)) /\ Congruent(n2, u2 - d * (r * s2))
      /\ Congruent(k, (h * (u1 + n1)) * s1 + (h * (u2 + n2)) * s2)
      /\ Congruent(ni, i - d * ((w - k) * r))
      /\ Congruent(nt, t - d * (w * r))
      /\ Congruent(ku, h * (u1 * u1) + h * (u2 * u2))
      /\ Congruent(kn, h * (n1 * n1) + h * (n2 * n2))
  BY DEF Slowed, WorkBetween, Less, Squares
<1> DEFINE e1 == d * (r * s1)
           e2 == d * (r * s2)
           p1 == h * (u1 + n1)
           p2 == h * (u2 + n2)
           x1 == h * (u1 * u1)
           x2 == h * (u2 * u2)
           y1 == h * (n1 * n1)
           y2 == h * (n2 * n2)
           b == d * (w * r)
           c == d * (k * r)
<1>1. k \in Int /\ t \in Int /\ ni \in Int /\ nt \in Int /\ ku \in Int /\ kn \in Int
  BY <1>0 DEF Congruent
<1>2. /\ e1 \in Int /\ e2 \in Int /\ p1 \in Int /\ p2 \in Int /\ b \in Int /\ c \in Int
      /\ x1 \in Int /\ x2 \in Int /\ y1 \in Int /\ y2 \in Int
  <2>1. r * s1 \in Int /\ r * s2 \in Int /\ u1 + n1 \in Int /\ u2 + n2 \in Int /\ w * r \in Int
        /\ k * r \in Int /\ u1 * u1 \in Int /\ u2 * u2 \in Int /\ n1 * n1 \in Int /\ n2 * n2 \in Int
    BY <1>1
  <2> QED BY <2>1
<1>3. Congruent(p1 * e1, x1 - y1) /\ Congruent(p2 * e2, x2 - y2)
  <2>1. Congruent(n1, u1 - e1) /\ Congruent(n2, u2 - e2)
    BY <1>0
  <2> HIDE DEF e1, e2
  <2> QED BY <1>2, <2>1, WorkOfComponent
<1>4. Congruent(c, p1 * e1 + p2 * e2)
  <2> DEFINE q == p1 * s1 + p2 * s2
  <2>1. Congruent(k, q)
    BY <1>0
  <2>2. q \in Int /\ p1 * s1 \in Int /\ p2 * s2 \in Int
    <3> HIDE DEF p1, p2
    <3> QED BY <1>2
  <2>3. Congruent(c, d * (q * r))
    <3> HIDE DEF q
    <3>1. Congruent(r, r) /\ Congruent(d, d)
      BY CongruentNumbers
    <3>2. Congruent(k * r, q * r)
      BY <2>1, <3>1, CongruentProducts
    <3> QED BY <3>1, <3>2, CongruentProducts
  <2>4. d * (q * r) = d * ((p1 * s1) * r) + d * ((p2 * s2) * r)
    <3> DEFINE f == p1 * s1
               g == p2 * s2
    <3>1. f \in Int /\ g \in Int /\ q = f + g
      BY <2>2
    <3> HIDE DEF f, g, q
    <3>2. q * r = f * r + g * r /\ f * r \in Int /\ g * r \in Int
      BY <3>1
    <3>3. d * (q * r) = d * (f * r) + d * (g * r)
      BY <3>2
    <3> QED BY <3>3 DEF f, g
  <2>5. d * ((p1 * s1) * r) = p1 * e1 /\ d * ((p2 * s2) * r) = p2 * e2
    <3> HIDE DEF p1, p2
    <3> QED BY <1>2, ProductsOrder
  <2> QED BY <2>3, <2>4, <2>5
<1>5. d * ((w - k) * r) = b - c
  <2> DEFINE f == w * r
             g == k * r
  <2>1. f \in Int /\ g \in Int
    BY <1>1
  <2>2. (w - k) * r = f - g
    BY <1>1
  <2> HIDE DEF f, g
  <2>3. d * (f - g) = d * f - d * g
    BY <2>1
  <2> QED BY <2>2, <2>3 DEF f, g
<1>6. /\ Congruent(ni, i - (b - c)) /\ Congruent(nt, t - b) /\ Congruent(ku, x1 + x2)
      /\ Congruent(kn, y1 + y2) /\ Congruent(t, ku + i)
  BY <1>0, <1>5
<1> DEFINE z1 == p1 * e1
           z2 == p2 * e2
<1>7. z1 \in Int /\ z2 \in Int
  <2> HIDE DEF p1, p2, e1, e2
  <2> QED BY <1>2
<1>8. Congruent(z1, x1 - y1) /\ Congruent(z2, x2 - y2) /\ Congruent(c, z1 + z2)
  BY <1>3, <1>4
<1> HIDE DEF e1, e2, p1, p2, x1, x2, y1, y2, b, c, z1, z2
<1>9. Congruent(c, (x1 - y1) + (x2 - y2))
  <2>1. Congruent(z1 + z2, (x1 - y1) + (x2 - y2))
    BY <1>8, CongruentSums
  <2> QED BY <1>8, <2>1, CongruentNumbers
<1>10. Congruent(nt, ((x1 + x2) + i) - b)
  <2>1. Congruent(i, i) /\ Congruent(b, b)
    BY <1>2, CongruentNumbers
  <2>2. Congruent(ku + i, (x1 + x2) + i)
    BY <1>6, <2>1, CongruentSums
  <2>3. Congruent(t, (x1 + x2) + i)
    BY <1>6, <2>2, CongruentNumbers
  <2>4. Congruent(t - b, ((x1 + x2) + i) - b)
    BY <2>1, <2>3, CongruentSums
  <2> QED BY <1>6, <2>4, CongruentNumbers
<1>11. Congruent(ni + kn, (i - (b - ((x1 - y1) + (x2 - y2)))) + (y1 + y2))
  <2>1. Congruent(i, i) /\ Congruent(b, b)
    BY <1>2, CongruentNumbers
  <2>2. Congruent(b - c, b - ((x1 - y1) + (x2 - y2)))
    BY <1>9, <2>1, CongruentSums
  <2>3. Congruent(i - (b - c), i - (b - ((x1 - y1) + (x2 - y2))))
    BY <2>1, <2>2, CongruentSums
  <2>4. Congruent(ni, i - (b - ((x1 - y1) + (x2 - y2))))
    BY <1>6, <2>3, CongruentNumbers
  <2> QED BY <1>6, <2>4, CongruentSums
<1>12. (i - (b - ((x1 - y1) + (x2 - y2)))) + (y1 + y2) = ((x1 + x2) + i) - b
  BY <1>2
<1> QED BY <1>10, <1>11, <1>12, CongruentNumbers

\* Until the cells are updated the velocity and the energies of the stage are
\* those it began with, and they add up throughout.
EnergyInv ==
  /\ phase \notin {"accept", "accepted"} =>
       \A c \in forest :
         /\ cell[c].cur.velocity = cell[c].lag.velocity
         /\ cell[c].cur.internal = cell[c].lag.internal
         /\ cell[c].cur.total = cell[c].lag.total
  /\ EnergiesAddUp

\* The new total energy is the new internal and the new kinetic energy.
LEMMA UpdatedAddsUp ==
  ASSUME TypeOK, NEW c \in forest,
         cell[c].cur.velocity = cell[c].lag.velocity,
         cell[c].cur.internal = cell[c].lag.internal,
         cell[c].cur.total = cell[c].lag.total,
         cell[c].lag.total = cell[c].lag.internal \oplus Kinetic(cell[c].lag.velocity)
  PROVE  NewTotal(c) = NewInternal(c) \oplus Kinetic(NewVelocity(c))
<1> DEFINE h == Reciprocal(2)
           r == Reciprocal(cell[c].mass)
           d == TimeStep
           u == cell[c].lag.velocity
           i == cell[c].lag.internal
           t == cell[c].lag.total
           n == NewVelocity(c)
           s == SumOfForces(c)
           w == WorkOn(c)
           k == KineticWork(c)
           ni == NewInternal(c)
           nt == NewTotal(c)
<1>1. CellOK
  BY DEF TypeOK
<1>2. h \in Int /\ r \in Int /\ d \in Int
  BY <1>1, TwoHasHalf, ResidueIsInt, CellRecordParts, ReciprocalType, NumbersAssumption
<1>3. u \in Vector /\ i \in Residue /\ t \in Residue /\ i \in Int /\ t \in Int
  BY <1>1, GasParts
<1>4. s \in Vector /\ w \in Residue /\ w \in Int
  BY SumOfForcesType, ResidueIsInt
<1>5. n \in Vector /\ nt \in Residue /\ ni \in Residue
  BY UpdatedType
<1>6. /\ HalfTime(c).velocity = u /\ HalfTime(c).internal = i /\ HalfTime(c).total = t
  BY <1>1, HalfTimeOfSame
<1>7. n = Minus(u, Scaled(d, Scaled(r, s)))
  BY <1>6 DEF NewVelocity
<1>8. k = Dot(Middle(u, n), s)
  BY <1>6 DEF KineticWork
<1>9. ni = i \ominus (d \otimes ((w \ominus k) \otimes r)) /\ nt = t \ominus (d \otimes (w \otimes r))
  BY <1>6 DEF NewInternal, NewTotal, PerMass, \oslash
<1>10. t = i \oplus Kinetic(u)
  OBVIOUS
<1>11. nt = ni \oplus Kinetic(n) <=> NewTotal(c) = NewInternal(c) \oplus Kinetic(NewVelocity(c))
  OBVIOUS
<1>12. h = Reciprocal(2)
  OBVIOUS
<1> HIDE DEF h, r, d, u, i, t, n, s, w, k, ni, nt
<1>13. /\ u[1] \in Int /\ u[2] \in Int /\ n[1] \in Int /\ n[2] \in Int /\ s[1] \in Int /\ s[2] \in Int
       /\ DOMAIN u = {1, 2} /\ DOMAIN s = {1, 2}
  BY <1>3, <1>4, <1>5, VectorParts
<1>14. \A x \in Int : Congruent(x, x)
  BY CongruentNumbers
<1>15. /\ Congruent(n[1], u[1] - d * (r * s[1])) /\ Congruent(n[2], u[2] - d * (r * s[2]))
  <2> DEFINE v == Scaled(d, Scaled(r, s))
  <2>1. v[1] = d \otimes (r \otimes s[1]) /\ v[2] = d \otimes (r \otimes s[2])
    BY <1>13 DEF Scaled
  <2>2. n = Minus(u, v)
    BY <1>7
  <2> HIDE DEF v
  <2>3. n[1] = u[1] \ominus v[1] /\ n[2] = u[2] \ominus v[2]
    BY <1>13, <2>2 DEF Minus
  <2>4. Congruent(r \otimes s[1], r * s[1]) /\ Congruent(r \otimes s[2], r * s[2])
    BY <1>2, <1>13, <1>14, CongruentResidues
  <2>5. Congruent(v[1], d * (r * s[1])) /\ Congruent(v[2], d * (r * s[2]))
    BY <1>2, <1>14, <2>1, <2>4, CongruentResidues
  <2> QED BY <1>13, <1>14, <2>3, <2>5, CongruentResidues
<1>16. Congruent(k, (h * (u[1] + n[1])) * s[1] + (h * (u[2] + n[2])) * s[2])
  <2> DEFINE m == Middle(u, n)
  <2>1. k = (m[1] \otimes s[1]) \oplus (m[2] \otimes s[2])
    BY <1>8 DEF Dot
  <2>2. Congruent(m[1], h * (u[1] + n[1])) /\ Congruent(m[2], h * (u[2] + n[2]))
    BY <1>3, <1>5, <1>12, MiddleIs
  <2> HIDE DEF m
  <2>3. /\ Congruent(m[1] \otimes s[1], (h * (u[1] + n[1])) * s[1])
        /\ Congruent(m[2] \otimes s[2], (h * (u[2] + n[2])) * s[2])
    BY <1>13, <1>14, <2>2, CongruentResidues
  <2> QED BY <2>1, <2>3, CongruentResidues
<1>17. k \in Int
  BY <1>16 DEF Congruent
<1>18. Congruent(ni, i - d * ((w - k) * r))
  <2>1. Congruent(w \ominus k, w - k)
    BY <1>4, <1>14, <1>17, CongruentResidues
  <2>2. Congruent((w \ominus k) \otimes r, (w - k) * r)
    BY <1>2, <1>14, <2>1, CongruentResidues
  <2>3. Congruent(d \otimes ((w \ominus k) \otimes r), d * ((w - k) * r))
    BY <1>2, <1>14, <2>2, CongruentResidues
  <2> QED BY <1>3, <1>9, <1>14, <2>3, CongruentResidues
<1>19. Congruent(nt, t - d * (w * r))
  <2>1. Congruent(w \otimes r, w * r)
    BY <1>2, <1>4, <1>14, CongruentResidues
  <2>2. Congruent(d \otimes (w \otimes r), d * (w * r))
    BY <1>2, <1>14, <2>1, CongruentResidues
  <2> QED BY <1>3, <1>9, <1>14, <2>2, CongruentResidues
<1>20. /\ Congruent(Kinetic(u), h * (u[1] * u[1]) + h * (u[2] * u[2]))
       /\ Congruent(Kinetic(n), h * (n[1] * n[1]) + h * (n[2] * n[2]))
  BY <1>3, <1>5, <1>12, KineticIs
<1>21. Congruent(t, Kinetic(u) + i)
  <2>1. Kinetic(u) \in Int
    BY <1>20 DEF Congruent
  <2>2. Congruent(t, i + Kinetic(u)) /\ i + Kinetic(u) = Kinetic(u) + i
    BY <1>3, <1>10, <1>14, <2>1, CongruentResidues
  <2> QED BY <2>2
<1> DEFINE ku == Kinetic(u)
           kn == Kinetic(n)
<1>22. /\ Congruent(t, ku + i) /\ kn = Kinetic(n)
       /\ Congruent(ku, h * (u[1] * u[1]) + h * (u[2] * u[2]))
       /\ Congruent(kn, h * (n[1] * n[1]) + h * (n[2] * n[2]))
  BY <1>20, <1>21
<1> HIDE DEF ku, kn
<1>23. Congruent(nt, ni + kn)
  <2> DEFINE u1 == u[1]
             u2 == u[2]
             n1 == n[1]
             n2 == n[2]
             s1 == s[1]
             s2 == s[2]
  <2>1. /\ u1 \in Int /\ u2 \in Int /\ n1 \in Int /\ n2 \in Int /\ s1 \in Int /\ s2 \in Int
    BY <1>13
  <2>2. /\ Congruent(n1, Slowed(u1, d, r, s1)) /\ Congruent(n2, Slowed(u2, d, r, s2))
        /\ Congruent(k, WorkBetween(h, u1, n1, s1, u2, n2, s2))
    BY <1>15, <1>16 DEF Slowed, WorkBetween
  <2>3. /\ Congruent(ku, Squares(h, u1, u2)) /\ Congruent(kn, Squares(h, n1, n2))
        /\ Congruent(t, ku + i)
    BY <1>22 DEF Squares
  <2>4. h \in Int /\ r \in Int /\ d \in Int /\ w \in Int /\ i \in Int
    BY <1>2, <1>3, <1>4
  <2>5. Congruent(ni, Less(i, d, w - k, r)) /\ Congruent(nt, Less(t, d, w, r))
    BY <1>18, <1>19 DEF Less
  <2> HIDE DEF u1, u2, n1, n2, s1, s2
  <2> QED BY <2>1, <2>2, <2>3, <2>4, <2>5, EquationsAgree
<1>24. nt = ni \oplus kn
  <2>1. ni \in Int /\ kn \in Int
    BY <1>5, <1>22, ResidueIsInt DEF Congruent
  <2>2. Congruent(ni \oplus kn, ni + kn) /\ ni \oplus kn \in Residue
    BY <1>14, <2>1, CongruentResidues, ResidueType
  <2> QED BY <1>5, <1>23, <2>2, CongruentNumbers
<1> QED BY <1>11, <1>22, <1>24

\* The energies add up in the beginning.
LEMMA InitEnergyInv == Init => EnergyInv
<1> SUFFICES ASSUME Init PROVE EnergyInv
  OBVIOUS
<1>1. TypeOK
  BY InitOK
<1>2. CellOK
  BY <1>1 DEF TypeOK
<1>3. PICK p \in Problems :
        cell = [c \in forest |->
             LET g == p.gas[QuarterOf(c)]
             IN  [mass |-> g.density \otimes (Side(c) * Side(c)), sound |-> g.sound,
                  cur |-> State(g), lag |-> State(g)]]
  BY DEF Init
<1>4. ASSUME NEW c \in forest
      PROVE  /\ cell[c].cur = cell[c].lag
             /\ cell[c].lag.total = cell[c].lag.internal \oplus Kinetic(cell[c].lag.velocity)
  <2> DEFINE g == p.gas[QuarterOf(c)]
             a == cell[c].lag
  <2>1. cell[c].cur = State(g) /\ a = State(g)
    BY <1>3
  <2>2. a.total = Kinetic(a.velocity) \oplus a.internal
    BY <2>1 DEF State
  <2>3. a.velocity \in Vector /\ a.internal \in Int
    BY <1>2, GasParts
  <2>4. Kinetic(a.velocity) \in Int
    BY <2>3, KineticIs DEF Congruent
  <2> HIDE DEF a
  <2>5. a.total = a.internal \oplus Kinetic(a.velocity)
    <3>1. Kinetic(a.velocity) + a.internal = a.internal + Kinetic(a.velocity)
      BY <2>3, <2>4
    <3> QED BY <2>2, <3>1 DEF \oplus
  <2> QED BY <2>1, <2>5 DEF a
<1> QED BY <1>4 DEF EnergyInv, EnergiesAddUp

\* They do while the cells stay.
LEMMA EnergyStays ==
  ASSUME EnergyInv, forest' = forest, cell' = cell,
         phase' \in {"accept", "accepted"} \/ phase \notin {"accept", "accepted"}
  PROVE  EnergyInv'
BY DEF EnergyInv, EnergiesAddUp

\* Every step of a stage keeps the energies' invariant.
LEMMA NextEnergyInv == IInv /\ EnergyInv /\ [Next]_vars => EnergyInv'
<1> SUFFICES ASSUME IInv, EnergyInv, [Next]_vars PROVE EnergyInv'
  OBVIOUS
<1>1. TypeOK /\ CellOK
  BY DEF IInv, TypeOK
<1>2. ASSUME cell' = cell, setting' = setting, phase \notin {"accept", "accepted"}
      PROVE  EnergyInv'
  BY <1>2, EnergyStays DEF setting
<1>3. CASE UpdateDensity
  <2>1. /\ phase = "density" /\ phase' = "momentum" /\ forest' = forest
        /\ cell' = [c \in forest |-> [cell[c] EXCEPT !.lag.density = cell[c].mass \oslash Volume(c)]]
    BY <1>3 DEF UpdateDensity, Step, setting
  <2>2. ASSUME NEW c \in forest
        PROVE  /\ cell'[c].cur = cell[c].cur
               /\ cell'[c].lag.velocity = cell[c].lag.velocity
               /\ cell'[c].lag.internal = cell[c].lag.internal
               /\ cell'[c].lag.total = cell[c].lag.total
    <3> DEFINE x == cell[c].mass \oslash Volume(c)
    <3>1. cell'[c] = [cell[c] EXCEPT !.lag.density = x]
      BY <2>1
    <3>2. cell[c] \in CellRecord /\ cell[c].lag \in GasState
      BY <1>1, CellRecordParts
    <3> HIDE DEF x
    <3>3. cell'[c] = [cell[c] EXCEPT !.lag = [cell[c].lag EXCEPT !.density = x]]
      BY <3>1
    <3>4. cell'[c].cur = cell[c].cur /\ cell'[c].lag = [cell[c].lag EXCEPT !.density = x]
      BY <3>2, <3>3 DEF CellRecord
    <3> QED BY <3>2, <3>4 DEF GasState
  <2>3. \A c \in forest :
          /\ cell'[c].cur.velocity = cell'[c].lag.velocity
          /\ cell'[c].cur.internal = cell'[c].lag.internal
          /\ cell'[c].cur.total = cell'[c].lag.total
    BY <2>1, <2>2 DEF EnergyInv
  <2>4. \A c \in forest :
          cell'[c].lag.total = cell'[c].lag.internal \oplus Kinetic(cell'[c].lag.velocity)
    BY <2>2 DEF EnergyInv, EnergiesAddUp
  <2>5. EnergiesAddUp'
    BY <2>1, <2>4 DEF EnergiesAddUp
  <2> QED BY <2>1, <2>3, <2>5 DEF EnergyInv
<1>4. CASE UpdateCells
  <2>1. /\ phase = "momentum" /\ phase' = "accept" /\ forest' = forest
        /\ cell' = [c \in forest |-> [cell[c] EXCEPT !.lag = Updated(c)]]
    BY <1>4 DEF UpdateCells, Step, setting
  <2>2. ASSUME NEW c \in forest
        PROVE  cell'[c].lag.total = cell'[c].lag.internal \oplus Kinetic(cell'[c].lag.velocity)
    <3>1. cell'[c] = [cell[c] EXCEPT !.lag = Updated(c)]
      BY <2>1
    <3>2. cell[c] \in CellRecord
      BY <1>1, CellRecordParts
    <3>3. cell'[c].lag = Updated(c)
      BY <3>1, <3>2 DEF CellRecord
    <3>4. /\ Updated(c).total = NewTotal(c) /\ Updated(c).internal = NewInternal(c)
          /\ Updated(c).velocity = NewVelocity(c)
      BY UpdatedIs
    <3>5. /\ cell[c].cur.velocity = cell[c].lag.velocity
          /\ cell[c].cur.internal = cell[c].lag.internal
          /\ cell[c].cur.total = cell[c].lag.total
          /\ cell[c].lag.total = cell[c].lag.internal \oplus Kinetic(cell[c].lag.velocity)
      BY <2>1 DEF EnergyInv, EnergiesAddUp
    <3>6. NewTotal(c) = NewInternal(c) \oplus Kinetic(NewVelocity(c))
      BY <1>1, <3>5, UpdatedAddsUp
    <3> QED BY <3>3, <3>4, <3>6
  <2> QED BY <2>1, <2>2 DEF EnergyInv, EnergiesAddUp
<1>5. CASE Accept
  <2>1. /\ phase' = "accepted" /\ forest' = forest
        /\ cell' = [c \in forest |-> [cell[c] EXCEPT !.cur = cell[c].lag]]
    BY <1>5 DEF Accept, Step, setting
  <2>2. ASSUME NEW c \in forest
        PROVE  cell'[c].lag = cell[c].lag
    <3>1. cell'[c] = [cell[c] EXCEPT !.cur = cell[c].lag] /\ cell[c] \in CellRecord
      BY <1>1, <2>1, CellRecordParts
    <3> QED BY <3>1 DEF CellRecord
  <2> QED BY <2>1, <2>2 DEF EnergyInv, EnergiesAddUp
<1>6. CASE UNCHANGED vars
  <2>1. cell' = cell /\ forest' = forest /\ phase' = phase
    BY <1>6 DEF vars
  <2> QED BY <2>1 DEF EnergyInv, EnergiesAddUp
<1>7. CASE GetBoundary
  BY <1>2, <1>7 DEF GetBoundary, Step
<1>8. CASE HalfCorner
  BY <1>2, <1>8 DEF HalfCorner, Step
<1>9. CASE GetAMRBoundary
  BY <1>2, <1>9 DEF GetAMRBoundary, Step
<1>10. CASE WriteMasters
  BY <1>2, <1>10 DEF WriteMasters, Step
<1>11. CASE AssembleCorners
  BY <1>2, <1>11 DEF AssembleCorners, Step
<1>12. CASE AssemblePoints
  BY <1>2, <1>12 DEF AssemblePoints, Step
<1>13. CASE SolveCorners
  BY <1>2, <1>13 DEF SolveCorners, Step
<1>14. CASE AssembleEdges
  BY <1>2, <1>14 DEF AssembleEdges, Step
<1>15. CASE SolveHanging
  BY <1>2, <1>15 DEF SolveHanging, Step
<1>16. CASE ComputeForces
  BY <1>2, <1>16 DEF ComputeForces, Step
<1>17. CASE MoveCorners
  BY <1>2, <1>17 DEF MoveCorners, Step
<1> QED
  BY <1>3, <1>4, <1>5, <1>6, <1>7, <1>8, <1>9, <1>10, <1>11, <1>12, <1>13, <1>14, <1>15,
     <1>16, <1>17 DEF Next

\* Total energy, internal energy and momentum are updated by three equations
\* from three sums, and what is not internal is the kinetic energy of the new
\* velocity: for every mesh, gas and time step.
THEOREM EnergiesAlwaysAddUp == Spec => []EnergiesAddUp
<1>1. EnergyInv => EnergiesAddUp
  BY DEF EnergyInv
<1> QED BY <1>1, InitIInv, NextIInv, InitEnergyInv, NextEnergyInv, PTL DEF Spec

-----------------------------------------------------------------------------
(* Sums of residues. *)

\* Congruent terms have congruent sums.
LEMMA SumCongruent ==
  ASSUME NEW F, NEW G, NEW S, IsFiniteSet(S), \A x \in S : Congruent(F[x], G[x])
  PROVE  Congruent(SumOver(F, S), SumOver(G, S))
<1> DEFINE Q == {s \in SUBSET S : Congruent(SumOver(F, s), SumOver(G, s))}
<1>1. \A x \in S : F[x] \in Int /\ G[x] \in Int
  BY DEF Congruent
<1>2. {} \in Q
  <2>1. SumOver(F, {}) = 0 /\ SumOver(G, {}) = 0
    BY SumOfNone
  <2>2. {} \in SUBSET S /\ Congruent(0, 0)
    BY CongruentNumbers
  <2> QED BY <2>1, <2>2
<1>3. ASSUME NEW s \in SUBSET S, s # {}, \A x \in s : s \ {x} \in Q
      PROVE  s \in Q
  <2>1. PICK x : x \in s
    BY <1>3
  <2>2. IsFiniteSet(s) /\ \A y \in s : F[y] \in Int /\ G[y] \in Int
    BY <1>1, FS_Subset
  <2>3. SumOver(F, s) = F[x] + SumOver(F, s \ {x}) /\ SumOver(G, s) = G[x] + SumOver(G, s \ {x})
    BY <2>1, <2>2, SumStep
  <2>4. s \ {x} \in Q
    BY <1>3, <2>1
  <2>5. Congruent(SumOver(F, s \ {x}), SumOver(G, s \ {x})) /\ Congruent(F[x], G[x])
    BY <2>1, <2>4
  <2>6. Congruent(SumOver(F, s), SumOver(G, s))
    BY <2>3, <2>5, CongruentSums
  <2> QED BY <2>6
<1> HIDE DEF Q
<1>4. SUBSET S \subseteq Q
  BY <1>2, <1>3, SubsetInduction
<1>5. S \in SUBSET S
  OBVIOUS
<1>6. S \in Q
  BY <1>4, <1>5
<1> QED BY <1>6 DEF Q

\* The sum of sums.
LEMMA SumOfSums ==
  ASSUME NEW F, NEW G, NEW H, NEW S, IsFiniteSet(S),
         \A x \in S : F[x] \in Int /\ G[x] \in Int /\ H[x] = F[x] + G[x]
  PROVE  SumOver(H, S) = SumOver(F, S) + SumOver(G, S)
<1> DEFINE Q == {s \in SUBSET S : SumOver(H, s) = SumOver(F, s) + SumOver(G, s)}
<1>1. \A x \in S : F[x] \in Int /\ G[x] \in Int /\ H[x] \in Int
  OBVIOUS
<1>2. {} \in Q
  <2>1. SumOver(F, {}) = 0 /\ SumOver(G, {}) = 0 /\ SumOver(H, {}) = 0
    BY SumOfNone
  <2>2. {} \in SUBSET S
    OBVIOUS
  <2> QED BY <2>1, <2>2
<1>3. ASSUME NEW s \in SUBSET S, s # {}, \A x \in s : s \ {x} \in Q
      PROVE  s \in Q
  <2>1. PICK x : x \in s
    BY <1>3
  <2> DEFINE a == SumOver(F, s \ {x})
             b == SumOver(G, s \ {x})
             c == SumOver(H, s \ {x})
  <2>2. /\ IsFiniteSet(s) /\ \A y \in s : F[y] \in Int /\ G[y] \in Int /\ H[y] \in Int
        /\ IsFiniteSet(s \ {x}) /\ \A y \in s \ {x} : F[y] \in Int /\ G[y] \in Int
    BY <1>1, FS_Subset
  <2>3. SumOver(F, s) = F[x] + a /\ SumOver(G, s) = G[x] + b /\ SumOver(H, s) = H[x] + c
    BY <2>1, <2>2, SumStep
  <2>4. s \ {x} \in Q
    BY <1>3, <2>1
  <2>5. c = a + b
    BY <2>4
  <2>6. a \in Int /\ b \in Int
    BY <2>2, SumStep
  <2> HIDE DEF a, b, c
  <2>7. H[x] = F[x] + G[x] /\ F[x] \in Int /\ G[x] \in Int
    BY <1>1, <2>1
  <2>8. SumOver(H, s) = SumOver(F, s) + SumOver(G, s)
    BY <2>3, <2>5, <2>6, <2>7
  <2> QED BY <2>8
<1> HIDE DEF Q
<1>4. SUBSET S \subseteq Q
  BY <1>2, <1>3, SubsetInduction
<1>5. S \in SUBSET S
  OBVIOUS
<1>6. S \in Q
  BY <1>4, <1>5
<1> QED BY <1>6 DEF Q

\* The sum over an image, each of whose elements is one element's.
LEMMA SumOfImage ==
  ASSUME NEW F, NEW g, NEW S, IsFiniteSet(S),
         \A x, y \in S : g[x] = g[y] => x = y,
         \A x \in S : F[g[x]] \in Int
  PROVE  SumOver(F, {g[x] : x \in S}) = SumOver([x \in S |-> F[g[x]]], S)
<1> DEFINE H == [x \in S |-> F[g[x]]]
           I(s) == {g[x] : x \in s}
           Q == {s \in SUBSET S : SumOver(F, I(s)) = SumOver(H, s)}
<1>1. \A x \in S : H[x] \in Int /\ H[x] = F[g[x]]
  OBVIOUS
<1> HIDE DEF H
<1>2. {} \in Q
  <2>1. SumOver(F, {}) = 0 /\ SumOver(H, {}) = 0
    BY SumOfNone
  <2>2. {} \in SUBSET S /\ I({}) = {}
    OBVIOUS
  <2> HIDE DEF I
  <2>3. SumOver(F, I({})) = SumOver(H, {})
    BY <2>1, <2>2
  <2> QED BY <2>2, <2>3
<1>3. ASSUME NEW s \in SUBSET S, s # {}, \A x \in s : s \ {x} \in Q
      PROVE  s \in Q
  <2>1. PICK x : x \in s
    BY <1>3
  <2>2. /\ IsFiniteSet(s) /\ \A y \in s : H[y] \in Int
    BY <1>1, FS_Subset
  <2>3. SumOver(H, s) = H[x] + SumOver(H, s \ {x})
    BY <2>1, <2>2, SumStep
  <2>4. s \ {x} \in Q
    BY <1>3, <2>1
  <2>5. SumOver(F, I(s \ {x})) = SumOver(H, s \ {x})
    BY <2>4
  <2>6. I(s) \ {g[x]} = I(s \ {x})
    BY <2>1
  <2>7. IsFiniteSet(I(s)) /\ g[x] \in I(s) /\ \A y \in I(s) : F[y] \in Int
    <3>1. IsFiniteSet(I(s))
      BY <2>2, ImageFinite
    <3> QED BY <2>1, <3>1
  <2> HIDE DEF I
  <2>8. SumOver(F, I(s)) = F[g[x]] + SumOver(F, I(s) \ {g[x]})
    BY <2>7, SumStep
  <2>9. SumOver(F, I(s)) = SumOver(H, s)
    BY <1>1, <2>1, <2>3, <2>5, <2>6, <2>8
  <2> QED BY <2>9
<1> HIDE DEF Q
<1>4. SUBSET S \subseteq Q
  BY <1>2, <1>3, SubsetInduction
<1>5. S \in SUBSET S
  OBVIOUS
<1>6. S \in Q
  BY <1>4, <1>5
<1> QED BY <1>6 DEF Q, H

-----------------------------------------------------------------------------
(* Areas. *)

\* Twice the area between two places and the origin, in integers.
Turn(u, v) == u[1] * v[2] - u[2] * v[1]

\* Cross products without residues.
LEMMA TurnType ==
  ASSUME NEW u \in Int \X Int, NEW v \in Int \X Int
  PROVE  Turn(u, v) \in Int /\ Turn(v, u) = 0 - Turn(u, v)
<1>1. u[1] \in Int /\ u[2] \in Int /\ v[1] \in Int /\ v[2] \in Int
  BY PairIs
<1> QED BY <1>1 DEF Turn

\* They are what Cross2 computes.
LEMMA CrossIsTurn ==
  ASSUME NEW u \in Int \X Int, NEW v \in Int \X Int
  PROVE  Congruent(Cross2(u, v), Turn(u, v))
<1>1. u[1] \in Int /\ u[2] \in Int /\ v[1] \in Int /\ v[2] \in Int
  BY PairIs
<1>2. Congruent(u[1] \otimes v[2], u[1] * v[2]) /\ Congruent(u[2] \otimes v[1], u[2] * v[1])
  BY <1>1, CongruentNumbers, CongruentResidues
<1> QED BY <1>2, CongruentResidues DEF Cross2, Turn

\* The area of a triangle.
LEMMA AreaIs ==
  ASSUME NEW p \in Int \X Int, NEW q \in Int \X Int, NEW r \in Int \X Int
  PROVE  Congruent(Area(p, q, r), (Turn(p, q) + Turn(q, r) + Turn(r, p)) * Reciprocal(2))
<1> DEFINE a == Minus(q, p)
           b == Minus(r, p)
<1>1. /\ p[1] \in Int /\ p[2] \in Int /\ q[1] \in Int /\ q[2] \in Int
      /\ r[1] \in Int /\ r[2] \in Int /\ DOMAIN q = {1, 2} /\ DOMAIN r = {1, 2}
  BY PairIs
<1>2. /\ a[1] = q[1] \ominus p[1] /\ a[2] = q[2] \ominus p[2]
      /\ b[1] = r[1] \ominus p[1] /\ b[2] = r[2] \ominus p[2]
  BY <1>1 DEF Minus
<1>3. Area(p, q, r) = Half(Cross2(a, b))
  BY DEF Area
<1> HIDE DEF a, b
<1>4. /\ Congruent(a[1], q[1] - p[1]) /\ Congruent(a[2], q[2] - p[2])
      /\ Congruent(b[1], r[1] - p[1]) /\ Congruent(b[2], r[2] - p[2])
  BY <1>1, <1>2, CongruentNumbers, CongruentResidues
<1>5. /\ Congruent(a[1] \otimes b[2], (q[1] - p[1]) * (r[2] - p[2]))
      /\ Congruent(a[2] \otimes b[1], (q[2] - p[2]) * (r[1] - p[1]))
  BY <1>4, CongruentResidues
<1>6. Congruent(Cross2(a, b), (q[1] - p[1]) * (r[2] - p[2]) - (q[2] - p[2]) * (r[1] - p[1]))
  BY <1>5, CongruentResidues DEF Cross2
<1>7. (q[1] - p[1]) * (r[2] - p[2]) - (q[2] - p[2]) * (r[1] - p[1])
        = Turn(p, q) + Turn(q, r) + Turn(r, p)
  BY <1>1 DEF Turn
<1>8. Congruent(Cross2(a, b), Turn(p, q) + Turn(q, r) + Turn(r, p))
  BY <1>6, <1>7
<1> QED BY <1>3, <1>8, CongruentHalf

Lag(c, k) == node[c][k].lag

\* What a face sweeps, in integers and without the half.
Swung(c, f) ==
  IF f \in {"BOTTOM", "RIGHT"} THEN Turn(Lag(c, LowEnd[f]), Lag(c, HighEnd[f]))
  ELSE Turn(Lag(c, HighEnd[f]), Lag(c, LowEnd[f]))

\* Where the corners are.
LagsOK == \A c \in forest : \A k \in Corner : Lag(c, k) \in Int \X Int

\* What a face sweeps is half the turn between its ends.
LEMMA SweptIs ==
  ASSUME LagsOK, NEW c \in forest, NEW f \in Face
  PROVE  Congruent(Swept(c, f), Swung(c, f) * Reciprocal(2)) /\ Swung(c, f) \in Int
<1>1. LowEnd[f] \in Corner /\ HighEnd[f] \in Corner
  BY DEF Face, Corner, LowEnd, HighEnd
<1>2. Lag(c, LowEnd[f]) \in Int \X Int /\ Lag(c, HighEnd[f]) \in Int \X Int
  BY <1>1 DEF LagsOK
<1> DEFINE l == Lag(c, LowEnd[f])
           r == Lag(c, HighEnd[f])
<1>3. Swept(c, f) = Half(IF f \in {"BOTTOM", "RIGHT"} THEN Cross2(l, r) ELSE Cross2(r, l))
  BY DEF Swept, Lag
<1>4. Swung(c, f) = IF f \in {"BOTTOM", "RIGHT"} THEN Turn(l, r) ELSE Turn(r, l)
  BY DEF Swung
<1> HIDE DEF l, r
<1>5. Congruent(Cross2(l, r), Turn(l, r)) /\ Congruent(Cross2(r, l), Turn(r, l))
      /\ Turn(l, r) \in Int /\ Turn(r, l) \in Int
  BY <1>2, CrossIsTurn, TurnType DEF l, r
<1>6. CASE f \in {"BOTTOM", "RIGHT"}
  BY <1>3, <1>4, <1>5, <1>6, CongruentHalf
<1>7. CASE f \notin {"BOTTOM", "RIGHT"}
  BY <1>3, <1>4, <1>5, <1>7, CongruentHalf
<1> QED BY <1>6, <1>7

\* The volume of a leaf is what its four faces sweep.
LEMMA VolumeIs ==
  ASSUME LagsOK, NEW c \in forest
  PROVE  Congruent(Volume(c), (Swung(c, "LEFT") + Swung(c, "RIGHT") + Swung(c, "BOTTOM")
                                 + Swung(c, "UP")) * Reciprocal(2))
<1> DEFINE A == Lag(c, "LEFTBOTTOM")
           B == Lag(c, "RIGHTBOTTOM")
           C == Lag(c, "RIGHTUP")
           D == Lag(c, "LEFTUP")
           h == Reciprocal(2)
<1>1. A \in Int \X Int /\ B \in Int \X Int /\ C \in Int \X Int /\ D \in Int \X Int
  BY DEF LagsOK, Corner
<1>2. Volume(c) = Area(A, B, C) \oplus Area(A, C, D)
  BY DEF Volume, Lag
<1>3. /\ Swung(c, "BOTTOM") = Turn(A, B) /\ Swung(c, "RIGHT") = Turn(B, C)
      /\ Swung(c, "UP") = Turn(C, D) /\ Swung(c, "LEFT") = Turn(D, A)
  BY DEF Swung, LowEnd, HighEnd
<1>4. h \in Int
  BY TwoHasHalf, ResidueIsInt
<1> HIDE DEF A, B, C, D
<1>5. /\ Congruent(Area(A, B, C), (Turn(A, B) + Turn(B, C) + Turn(C, A)) * h)
      /\ Congruent(Area(A, C, D), (Turn(A, C) + Turn(C, D) + Turn(D, A)) * h)
  BY <1>1, AreaIs
<1>6. /\ Turn(A, B) \in Int /\ Turn(B, C) \in Int /\ Turn(C, D) \in Int /\ Turn(D, A) \in Int
      /\ Turn(A, C) \in Int /\ Turn(C, A) = 0 - Turn(A, C)
  BY <1>1, TurnType
<1> HIDE DEF h
<1>7. Congruent(Volume(c), (Turn(A, B) + Turn(B, C) + Turn(C, A)) * h
                             + (Turn(A, C) + Turn(C, D) + Turn(D, A)) * h)
  BY <1>2, <1>5, CongruentResidues
<1> DEFINE ab == Turn(A, B)
           bc == Turn(B, C)
           cd == Turn(C, D)
           da == Turn(D, A)
           ac == Turn(A, C)
           ca == Turn(C, A)
<1>8. (ab + bc + ca) * h + (ac + cd + da) * h = (da + bc + ab + cd) * h
  <2>1. ab \in Int /\ bc \in Int /\ cd \in Int /\ da \in Int /\ ac \in Int /\ ca = 0 - ac
    BY <1>6
  <2> HIDE DEF ab, bc, cd, da, ac, ca
  <2>2. ab + bc + ca \in Int /\ ac + cd + da \in Int
        /\ (ab + bc + ca) + (ac + cd + da) = da + bc + ab + cd
    BY <2>1
  <2> DEFINE x == ab + bc + ca
             y == ac + cd + da
  <2>3. x * h + y * h = (x + y) * h
    <3>1. x \in Int /\ y \in Int
      BY <2>2
    <3> HIDE DEF x, y
    <3> QED BY <1>4, <3>1
  <2> QED BY <2>2, <2>3
<1> QED BY <1>3, <1>7, <1>8 DEF h

-----------------------------------------------------------------------------
(* What lies across the faces of a forest's leaves. *)

\* Facing each other.
LEMMA AcrossBack ==
  ASSUME NEW c, NEW d, NEW f \in Face, Across(c, f, d)
  PROVE  /\ Opposite[f] \in Face /\ Opposite[Opposite[f]] = f
         /\ Across(d, Opposite[f], c)
<1>1. CASE f = "LEFT"
  BY <1>1 DEF Across, Cross, Opposite, Face
<1>2. CASE f = "RIGHT"
  BY <1>2 DEF Across, Cross, Opposite, Face
<1>3. CASE f = "BOTTOM"
  BY <1>3 DEF Across, Cross, Opposite, Face
<1>4. CASE f = "UP"
  BY <1>4 DEF Across, Cross, Opposite, Face
<1> QED BY <1>1, <1>2, <1>3, <1>4 DEF Face

\* Intervals of one grid that cross are the same.
LEMMA OneGrid ==
  ASSUME NEW s \in Nat \ {0}, NEW i \in Nat, NEW j \in Nat, Cross(s * i, s, s * j, s)
  PROVE  s * i = s * j
<1>1. s * i \in Nat /\ s * j \in Nat
  OBVIOUS
<1>2. s * i < s * (j + 1) /\ s * j < s * (i + 1)
  <2>1. s * (j + 1) = s * j + s /\ s * (i + 1) = s * i + s
    OBVIOUS
  <2> QED BY <2>1 DEF Cross
<1>3. \A m, n \in Nat : s * m < s * n => m < n
  <2> SUFFICES ASSUME NEW m \in Nat, NEW n \in Nat, n <= m
               PROVE  ~ (s * m < s * n)
    OBVIOUS
  <2>1. PICK k \in Nat : m = n + k
    <3>1. m - n \in Nat /\ m = n + (m - n)
      OBVIOUS
    <3> QED BY <3>1
  <2>2. s * m = s * n + s * k /\ s * k \in Nat /\ s * n \in Nat
    BY <2>1
  <2> QED BY <2>2
<1>4. i < j + 1 /\ j < i + 1
  BY <1>2, <1>3
<1>5. i = j
  BY <1>4
<1> QED BY <1>5

\* A leaf of the same size across a face is its neighbour on the grid.
LEMMA AcrossIsNext ==
  ASSUME NEW c \in Cells, NEW d \in Cells, NEW f \in Face, Across(c, f, d), d.level = c.level
  PROVE  NextTo(c, f, d)
<1> DEFINE s == Side(c)
<1>1. /\ c.x \in Nat /\ c.y \in Nat /\ s \in Nat \ {0} /\ d.x \in Nat /\ d.y \in Nat
      /\ Side(d) = s
  BY CellParts DEF Side
<1>2. PICK i \in Nat, j \in Nat : c.x = s * i /\ c.y = s * j
  <2>1. PICK i \in 0..(PowerOfTwo[c.level] - 1), j \in 0..(PowerOfTwo[c.level] - 1) :
          c.x = s * i /\ c.y = s * j
    BY CellParts
  <2>2. i \in Nat /\ j \in Nat
    BY CellParts, PowerOfTwoType
  <2> QED BY <2>1, <2>2
<1>3. PICK u \in Nat, v \in Nat : d.x = s * u /\ d.y = s * v
  <2>1. PICK m \in 0..(PowerOfTwo[d.level] - 1), n \in 0..(PowerOfTwo[d.level] - 1) :
          d.x = Side(d) * m /\ d.y = Side(d) * n
    BY CellParts
  <2>2. m \in Nat /\ n \in Nat
    BY CellParts, PowerOfTwoType
  <2> QED BY <1>1, <2>1, <2>2
<1> HIDE DEF s
<1>4. /\ Cross(c.x, s, d.x, s) => c.x = d.x
      /\ Cross(c.y, s, d.y, s) => c.y = d.y
  <2>1. ASSUME Cross(c.x, s, d.x, s) PROVE c.x = d.x
    <3>1. Cross(s * i, s, s * u, s)
      BY <1>2, <1>3, <2>1
    <3>2. s * i = s * u
      BY <1>1, <3>1, OneGrid
    <3> QED BY <1>2, <1>3, <3>2
  <2>2. ASSUME Cross(c.y, s, d.y, s) PROVE c.y = d.y
    <3>1. Cross(s * j, s, s * v, s)
      BY <1>2, <1>3, <2>2
    <3>2. s * j = s * v
      BY <1>1, <3>1, OneGrid
    <3> QED BY <1>2, <1>3, <3>2
  <2> QED BY <2>1, <2>2
<1>5. CASE f = "LEFT"
  BY <1>1, <1>4, <1>5 DEF Across, NextTo, s
<1>6. CASE f = "RIGHT"
  BY <1>1, <1>4, <1>6 DEF Across, NextTo, s
<1>7. CASE f = "BOTTOM"
  BY <1>1, <1>4, <1>7 DEF Across, NextTo, s
<1>8. CASE f = "UP"
  BY <1>1, <1>4, <1>8 DEF Across, NextTo, s
<1> QED BY <1>5, <1>6, <1>7, <1>8 DEF Face

\* Nothing lies across a face at the border, ...
LEMMA NoneAtBoundary ==
  ASSUME NEW c \in Cells, NEW d \in Cells, NEW f \in Face, Across(c, f, d)
  PROVE  ~ AtBoundary(c, f)
<1>1. /\ c.x \in Nat /\ c.y \in Nat /\ Side(c) \in Nat \ {0}
      /\ d.x \in Nat /\ d.y \in Nat /\ Side(d) \in Nat \ {0}
      /\ d.x + Side(d) <= PowerOfTwo[Depth] /\ d.y + Side(d) <= PowerOfTwo[Depth]
      /\ PowerOfTwo[Depth] \in Nat
  BY CellParts, CellInDomain, PowerOfTwoType, DepthAssumption
<1>2. CASE f = "LEFT"
  BY <1>1, <1>2 DEF Across, AtBoundary
<1>3. CASE f = "RIGHT"
  BY <1>1, <1>3 DEF Across, AtBoundary
<1>4. CASE f = "BOTTOM"
  BY <1>1, <1>4 DEF Across, AtBoundary
<1>5. CASE f = "UP"
  BY <1>1, <1>5 DEF Across, AtBoundary
<1> QED BY <1>2, <1>3, <1>4, <1>5 DEF Face

\* ... and a leaf across every other.
LEMMA LeafAcross ==
  ASSUME NEW F, Tiling(F), NEW c \in F, NEW f \in Face, ~ AtBoundary(c, f)
  PROVE  \E d \in F : Across(c, f, d)
<1> DEFINE w == PowerOfTwo[Depth]
           s == Side(c)
           x == IF f = "LEFT" THEN c.x - 1 ELSE IF f = "RIGHT" THEN c.x + s ELSE c.x
           y == IF f = "BOTTOM" THEN c.y - 1 ELSE IF f = "UP" THEN c.y + s ELSE c.y
<1>1. F \subseteq Cells /\ c \in Cells
  BY DEF Tiling
<1>2. /\ c.x \in Nat /\ c.y \in Nat /\ s \in Nat \ {0} /\ w \in Nat
      /\ c.x + s <= w /\ c.y + s <= w
  BY <1>1, CellParts, CellInDomain, PowerOfTwoType, DepthAssumption
<1>3. /\ f = "LEFT" => c.x # 0
      /\ f = "RIGHT" => c.x + s # w
      /\ f = "BOTTOM" => c.y # 0
      /\ f = "UP" => c.y + s # w
  <2>2. \A a, b, n \in Nat : a + b = n => a = n - b
    OBVIOUS
  <2>3. /\ f = "RIGHT" => c.x # w - s
        /\ f = "UP" => c.y # w - s
        /\ f = "LEFT" => c.x # 0
        /\ f = "BOTTOM" => c.y # 0
    BY DEF AtBoundary
  <2> HIDE DEF w, s
  <2> QED BY <1>2, <2>2, <2>3
<1>4. x \in 0..(w - 1) /\ y \in 0..(w - 1)
  <2> HIDE DEF w, s
  <2> QED BY <1>2, <1>3
<1> DEFINE q == Cell(Depth, x, y)
<1>5. q \in LevelCells(Depth) /\ q.x = x /\ q.y = y /\ Side(q) = 1
  BY <1>4, SmallestCell
<1>6. PICK d \in F : Overlap(d, q)
  BY <1>5 DEF Tiling
<1> HIDE DEF q
<1>7. d \in Cells /\ d.x \in Nat /\ d.y \in Nat /\ Side(d) \in Nat \ {0}
  BY <1>1, CellParts
<1>8. d.x <= x /\ x < d.x + Side(d) /\ d.y <= y /\ y < d.y + Side(d)
  <2> HIDE DEF x, y
  <2> QED BY <1>4, <1>5, <1>6, <1>7 DEF Overlap, Cross
<1>9. c # d
  <2>1. ~ (c.x <= x /\ x < c.x + s /\ c.y <= y /\ y < c.y + s)
    <3> HIDE DEF s
    <3> QED BY <1>2 DEF Face
  <2> QED BY <1>8, <2>1
<1>10. ~ (Cross(c.x, s, d.x, Side(d)) /\ Cross(c.y, s, d.y, Side(d)))
  BY <1>9 DEF Tiling, Overlap
<1> DEFINE r == Side(d)
<1> HIDE DEF s, r, w
<1>11. r \in Nat \ {0} /\ d.x + r > x /\ d.y + r > y
       /\ ~ (Cross(c.x, s, d.x, r) /\ Cross(c.y, s, d.y, r))
  BY <1>4, <1>7, <1>8, <1>10 DEF r
<1>12. CASE f = "LEFT"
  <2>1. d.x + r = c.x /\ Cross(c.y, s, d.y, r)
    BY <1>2, <1>7, <1>8, <1>11, <1>12 DEF Cross
  <2> QED BY <1>12, <2>1 DEF Across, s, r
<1>13. CASE f = "RIGHT"
  <2>1. c.x + s = d.x /\ Cross(c.y, s, d.y, r)
    BY <1>2, <1>7, <1>8, <1>11, <1>13 DEF Cross
  <2> QED BY <1>13, <2>1 DEF Across, s, r
<1>14. CASE f = "BOTTOM"
  <2>1. d.y + r = c.y /\ Cross(c.x, s, d.x, r)
    BY <1>2, <1>7, <1>8, <1>11, <1>14 DEF Cross
  <2> QED BY <1>14, <2>1 DEF Across, s, r
<1>15. CASE f = "UP"
  <2>1. c.y + s = d.y /\ Cross(c.x, s, d.x, r)
    BY <1>2, <1>7, <1>8, <1>11, <1>15 DEF Cross
  <2> QED BY <1>15, <2>1 DEF Across, s, r
<1> QED BY <1>12, <1>13, <1>14, <1>15 DEF Face

\* The two leaves at a hanging edge lie across it, and it across theirs.
LEMMA EdgeAcross ==
  ASSUME NEW F \in BalancedForests, NEW h \in HangingEdges[F], NEW i \in {1, 2}
  PROVE  /\ h.parent \in F /\ h.face \in Face /\ h.child[i] \in F
         /\ Across(h.parent, h.face, h.child[i])
         /\ Across(h.child[i], Opposite[h.face], h.parent)
         /\ h.child[i].level = h.parent.level + 1 /\ h.parent.level \in Int
         /\ h.child[1] # h.child[2]
<1>1. /\ h.parent \in F /\ h.parent \in Cells /\ h.parent.level < Depth /\ h.face \in Face
      /\ h.child[1] \in F /\ h.child[2] \in F
      /\ h.child[1] \in Cells /\ h.child[2] \in Cells
  BY HangingEdgeParts
<1>2. PICK n \in Cells : /\ NextTo(h.parent, h.face, n)
                         /\ h.child[1] = Child(n, LowChild[h.face])
                         /\ h.child[2] = Child(n, HighChild[h.face])
  BY HangingEdgeParts
<1>3. /\ Across(h.parent, h.face, h.child[1]) /\ Across(h.parent, h.face, h.child[2])
      /\ ZOrder(h.child[1]) < ZOrder(h.child[2])
  BY <1>1, <1>2, HalvesAcross
<1>4. ZOrder(h.child[1]) \in Nat /\ ZOrder(h.child[2]) \in Nat
  BY <1>1, ZOrderType
<1>5. h.child[1] # h.child[2]
  BY <1>3, <1>4
<1>6. h.child[1].level = h.parent.level + 1 /\ h.child[2].level = h.parent.level + 1
  BY HangingPlace
<1>7. h.parent.level \in Int
  BY <1>1, CellParts
<1>8. Across(h.parent, h.face, h.child[i]) /\ h.child[i] \in F /\ h.child[i].level = h.parent.level + 1
  BY <1>1, <1>3, <1>6
<1>9. Across(h.child[i], Opposite[h.face], h.parent)
  BY <1>1, <1>8, AcrossBack
<1> QED BY <1>1, <1>5, <1>7, <1>8, <1>9

\* A smaller leaf across a face makes it a hanging edge, and is one of its two.
LEMMA EdgeOf ==
  ASSUME NEW F \in BalancedForests, NEW p \in F, NEW f \in Face, NEW d \in F,
         Across(p, f, d), d.level > p.level
  PROVE  \E h \in HangingEdges[F] : \E i \in {1, 2} :
           h.parent = p /\ h.face = f /\ h.child[i] = d
<1>1. PICK h \in HangingEdges[F] : h.parent = p /\ h.face = f
  <2> DEFINE cs == {x \in F : Across(p, f, x)}
             h == [parent |-> p, face |-> f,
                   child |-> <<CHOOSE x \in cs : Index(x, cs) = 0,
                               CHOOSE x \in cs : Index(x, cs) = 1>>]
             S == {r \in F \X Face : \E x \in F : Across(r[1], r[2], x) /\ x.level > r[1].level}
  <2>1. <<p, f>> \in S
    OBVIOUS
  <2>2. h \in HangingEdges[F]
    <3> DEFINE at(q) == {x \in F : Across(q[1], q[2], x)}
               hung(q) == [parent |-> q[1], face |-> q[2],
                           child |-> <<CHOOSE x \in at(q) : Index(x, at(q)) = 0,
                                       CHOOSE x \in at(q) : Index(x, at(q)) = 1>>]
    <3>1. HangingEdges[F] = {hung(q) : q \in S}
      BY DEF HangingEdges
    <3>2. hung(<<p, f>>) = h
      OBVIOUS
    <3> HIDE DEF hung, S, h
    <3> QED BY <2>1, <3>1, <3>2
  <2>3. h.parent = p /\ h.face = f
    OBVIOUS
  <2> HIDE DEF h
  <2> QED BY <2>2, <2>3
<1>2. PICK n \in Cells : /\ NextTo(h.parent, h.face, n)
                         /\ h.child[1] = Child(n, LowChild[h.face])
                         /\ h.child[2] = Child(n, HighChild[h.face])
  BY HangingEdgeParts
<1>3. Tiling(F) /\ CornerBalanced(F) /\ p \in Cells
  BY BalancedForest
<1> DEFINE m == ParentOf(d)
<1>4. /\ m \in Cells /\ NextTo(p, f, m)
      /\ {e \in F : Across(p, f, e)} = {Child(m, LowChild[f]), Child(m, HighChild[f])}
  BY <1>3, HangingPair
<1> HIDE DEF m
<1>5. m = n
  BY <1>1, <1>2, <1>3, <1>4, NextToIsOne
<1>6. d \in {h.child[1], h.child[2]}
  BY <1>1, <1>2, <1>4, <1>5
<1>7. \E i \in {1, 2} : h.child[i] = d
  BY <1>6
<1> QED BY <1>1, <1>7

\* Across a face there are leaves of one size: one as large, or two that are
\* smaller, or one that is larger.
LEMMA OneSizeAcross ==
  ASSUME NEW F \in BalancedForests, NEW c \in F, NEW f \in Face, NEW d \in F, NEW e \in F,
         Across(c, f, d), Across(c, f, e)
  PROVE  /\ d.level = c.level => e = d
         /\ d.level > c.level => e.level > c.level
         /\ d.level < c.level => e.level < c.level
<1>1. /\ Tiling(F) /\ CornerBalanced(F) /\ F \subseteq Cells
      /\ \A u, v \in F : Overlap(u, v) => u = v
  BY BalancedForest
<1>2. c.level \in Int /\ d.level \in Int /\ e.level \in Int
  BY <1>1, CellParts
<1>3. ASSUME NEW u \in F, NEW v \in F, Across(c, f, u), Across(c, f, v), u.level = c.level
      PROVE  v = u
  <2>1. NextTo(c, f, u)
    BY <1>1, <1>3, AcrossIsNext
  <2>2. Overlap(v, u)
    BY <1>1, <1>3, <2>1, AcrossOverlaps
  <2> QED BY <1>1, <2>2
<1>4. ASSUME NEW u \in F, NEW v \in F, Across(c, f, u), Across(c, f, v), u.level > c.level
      PROVE  v.level > c.level
  <2>1. PICK h \in HangingEdges[F], i \in {1, 2} : h.parent = c /\ h.face = f /\ h.child[i] = u
    BY <1>4, EdgeOf
  <2> DEFINE n == ParentOf(u)
  <2>2. /\ c.level < Depth /\ n \in Cells /\ NextTo(c, f, n)
        /\ {x \in F : Across(c, f, x)} = {Child(n, LowChild[f]), Child(n, HighChild[f])}
    BY <1>1, <1>4, HangingPair
  <2> HIDE DEF n
  <2>3. v = Child(n, LowChild[f]) \/ v = Child(n, HighChild[f])
    BY <1>4, <2>2
  <2>4. n.level = c.level /\ LowChild[f] \in 1..4 /\ HighChild[f] \in 1..4
    BY <1>1, <2>2, HalvesAcross
  <2>5. v.level = n.level + 1
    BY <2>2, <2>3, <2>4, ChildPlace
  <2> QED BY <1>2, <2>4, <2>5
<1>5. d.level = c.level => e = d
  BY <1>3
<1>6. d.level > c.level => e.level > c.level
  BY <1>4
<1>7. d.level < c.level => e.level < c.level
  <2>1. e.level = c.level => d = e
    BY <1>3
  <2>2. e.level > c.level => d.level > c.level
    BY <1>4
  <2> QED BY <1>2, <2>1, <2>2
<1> QED BY <1>5, <1>6, <1>7

\* A leaf's face is part of one hanging edge at most.
LEMMA OneEdgeOfPart ==
  ASSUME NEW F \in BalancedForests, NEW g \in HangingEdges[F], NEW h \in HangingEdges[F],
         NEW i \in {1, 2}, NEW j \in {1, 2},
         g.child[i] = h.child[j], Opposite[g.face] = Opposite[h.face]
  PROVE  g = h /\ i = j
<1>1. ASSUME NEW k \in HangingEdges[F], NEW m \in {1, 2}
      PROVE  /\ k.parent \in Cells /\ k.face \in Face /\ ParentOf(k.child[m]) \in Cells
             /\ NextTo(k.parent, k.face, ParentOf(k.child[m]))
  <2>1. k.parent \in Cells /\ k.parent.level < Depth /\ k.face \in Face
    BY HangingEdgeParts
  <2>2. PICK n \in Cells : /\ NextTo(k.parent, k.face, n)
                           /\ k.child[1] = Child(n, LowChild[k.face])
                           /\ k.child[2] = Child(n, HighChild[k.face])
    BY HangingEdgeParts
  <2>3. n.level < Depth /\ LowChild[k.face] \in 1..4 /\ HighChild[k.face] \in 1..4
    BY <2>1, <2>2, HalvesAcross
  <2>4. ParentOf(k.child[m]) = n
    BY <2>2, <2>3, ChildUnique
  <2> QED BY <2>1, <2>2, <2>4
<1> DEFINE n == ParentOf(g.child[i])
<1>2. /\ g.parent \in Cells /\ g.face \in Face /\ n \in Cells /\ NextTo(g.parent, g.face, n)
      /\ h.parent \in Cells /\ h.face \in Face /\ NextTo(h.parent, h.face, n)
  BY <1>1
<1> HIDE DEF n
<1>3. g.face = h.face /\ Opposite[g.face] \in Face
  BY <1>2 DEF Face, Opposite
<1>4. g.parent = h.parent
  BY <1>2, <1>3, NextToBack, NextToIsOne
<1>5. g = h
  BY <1>3, <1>4, OneHangingEdge
<1>6. h.child[1] # h.child[2]
  BY EdgeAcross
<1>7. i = j
  BY <1>5, <1>6
<1> QED BY <1>5, <1>7

-----------------------------------------------------------------------------
(* The volumes of all leaves are what all faces sweep. *)

FacesOf(S) == forest \X S
Sweep == [q \in FacesOf(Face) |-> Swept(q[1], q[2])]
SweepOf(f) == [c \in forest |-> Sweep[<<c, f>>]]
VolumeOf == [c \in forest |-> Volume(c)]

\* What a face sweeps, as a number.
LEMMA SweepIs ==
  ASSUME SettingOK, LagsOK, NEW c \in forest, NEW f \in Face
  PROVE  /\ <<c, f>> \in FacesOf(Face) /\ Sweep[<<c, f>>] = Swept(c, f)
         /\ Sweep[<<c, f>>] \in Int /\ SweepOf(f)[c] = Sweep[<<c, f>>]
         /\ Congruent(Sweep[<<c, f>>], Swung(c, f) * Reciprocal(2)) /\ Swung(c, f) \in Int
<1>1. <<c, f>> \in FacesOf(Face) /\ Sweep[<<c, f>>] = Swept(c, f)
  BY DEF FacesOf, Sweep
<1>2. Congruent(Swept(c, f), Swung(c, f) * Reciprocal(2)) /\ Swung(c, f) \in Int
  BY SweptIs
<1>3. SweepOf(f)[c] = Sweep[<<c, f>>]
  BY DEF SweepOf
<1> QED BY <1>1, <1>2, <1>3 DEF Congruent

\* There are finitely many faces.
LEMMA ForestFinite ==
  ASSUME SettingOK
  PROVE  /\ IsFiniteSet(forest)
         /\ \A S \in SUBSET Face : IsFiniteSet(FacesOf(S)) /\ FacesOf(S) \subseteq FacesOf(Face)
<1>1. IsFiniteSet(forest)
  BY BalancedForest, FiniteForest DEF SettingOK
<1>2. ASSUME NEW S \in SUBSET Face
      PROVE  IsFiniteSet(FacesOf(S)) /\ FacesOf(S) \subseteq FacesOf(Face)
  <2>1. IsFiniteSet(S)
    BY SmallSets, FS_Subset
  <2> QED BY <1>1, <2>1, FS_Product DEF FacesOf
<1> QED BY <1>1, <1>2

\* The sum over one face of every leaf.
LEMMA OneFaceOfAll ==
  ASSUME SettingOK, LagsOK, NEW f \in Face
  PROVE  SumOver(SweepOf(f), forest) = SumOver(Sweep, FacesOf({f}))
<1> DEFINE g == [c \in forest |-> <<c, f>>]
<1>1. /\ IsFiniteSet(forest)
      /\ \A x, y \in forest : g[x] = g[y] => x = y
      /\ \A x \in forest : Sweep[g[x]] \in Int /\ SweepOf(f)[x] = Sweep[g[x]]
  BY ForestFinite, SweepIs
<1>2. {g[x] : x \in forest} = FacesOf({f})
  BY DEF FacesOf
<1>3. [x \in forest |-> Sweep[g[x]]] = SweepOf(f)
  BY DEF SweepOf
<1> HIDE DEF g
<1>4. SumOver(Sweep, {g[x] : x \in forest}) = SumOver([x \in forest |-> Sweep[g[x]]], forest)
  BY <1>1, SumOfImage
<1> QED BY <1>2, <1>3, <1>4

\* The sums over two kinds of faces add up.
LEMMA TwoFacesOfAll ==
  ASSUME SettingOK, LagsOK, NEW S \in SUBSET Face, NEW T \in SUBSET Face, S \cap T = {}
  PROVE  SumOver(Sweep, FacesOf(S \cup T)) = SumOver(Sweep, FacesOf(S)) + SumOver(Sweep, FacesOf(T))
<1>1. /\ IsFiniteSet(FacesOf(S)) /\ IsFiniteSet(FacesOf(T))
      /\ FacesOf(S) \subseteq FacesOf(Face) /\ FacesOf(T) \subseteq FacesOf(Face)
  BY ForestFinite
<1>2. FacesOf(S) \cap FacesOf(T) = {} /\ FacesOf(S) \cup FacesOf(T) = FacesOf(S \cup T)
  BY DEF FacesOf
<1>3. \A q \in FacesOf(Face) : Sweep[q] \in Int
  <2> SUFFICES ASSUME NEW q \in FacesOf(Face)
               PROVE  Sweep[q] \in Int
    OBVIOUS
  <2>1. q = <<q[1], q[2]>> /\ q[1] \in forest /\ q[2] \in Face
    BY DEF FacesOf
  <2> QED BY <2>1, SweepIs
<1>4. \A q \in FacesOf(S) \cup FacesOf(T) : Sweep[q] \in Int
  BY <1>1, <1>3
<1>5. SumOver(Sweep, FacesOf(S) \cup FacesOf(T))
        = SumOver(Sweep, FacesOf(S)) + SumOver(Sweep, FacesOf(T))
  BY <1>1, <1>2, <1>4, SumOfTwo
<1> QED BY <1>2, <1>5

\* The volumes of all leaves are what all their faces sweep.
LEMMA VolumesAre ==
  ASSUME SettingOK, LagsOK
  PROVE  Congruent(SumOver(VolumeOf, forest), SumOver(Sweep, FacesOf(Face)))
<1> DEFINE L == SweepOf("LEFT")
           R == SweepOf("RIGHT")
           B == SweepOf("BOTTOM")
           U == SweepOf("UP")
           A == [c \in forest |-> L[c] + R[c]]
           D == [c \in forest |-> B[c] + U[c]]
           G == [c \in forest |-> A[c] + D[c]]
           h == Reciprocal(2)
<1>1. {"LEFT", "RIGHT", "BOTTOM", "UP"} = Face
  BY DEF Face
<1>2. ASSUME NEW c \in forest
      PROVE  /\ L[c] \in Int /\ R[c] \in Int /\ B[c] \in Int /\ U[c] \in Int
             /\ Congruent(L[c], Swung(c, "LEFT") * h) /\ Congruent(R[c], Swung(c, "RIGHT") * h)
             /\ Congruent(B[c], Swung(c, "BOTTOM") * h) /\ Congruent(U[c], Swung(c, "UP") * h)
             /\ Swung(c, "LEFT") \in Int /\ Swung(c, "RIGHT") \in Int
             /\ Swung(c, "BOTTOM") \in Int /\ Swung(c, "UP") \in Int
  BY <1>1, SweepIs
<1>3. h \in Int
  BY TwoHasHalf, ResidueIsInt
<1> HIDE DEF L, R, B, U, h
<1>4. ASSUME NEW c \in forest
      PROVE  A[c] = L[c] + R[c] /\ D[c] = B[c] + U[c] /\ G[c] = A[c] + D[c]
             /\ A[c] \in Int /\ D[c] \in Int /\ G[c] \in Int
  BY <1>2
<1> HIDE DEF A, D, G
<1>5. ASSUME NEW c \in forest
      PROVE  Congruent(VolumeOf[c], G[c])
  <2> DEFINE l == Swung(c, "LEFT")
             r == Swung(c, "RIGHT")
             b == Swung(c, "BOTTOM")
             u == Swung(c, "UP")
  <2>1. Congruent(VolumeOf[c], (l + r + b + u) * h)
    BY VolumeIs DEF VolumeOf, h
  <2>2. l \in Int /\ r \in Int /\ b \in Int /\ u \in Int
        /\ Congruent(L[c], l * h) /\ Congruent(R[c], r * h)
        /\ Congruent(B[c], b * h) /\ Congruent(U[c], u * h)
    BY <1>2
  <2> HIDE DEF l, r, b, u
  <2>3. Congruent(A[c], l * h + r * h) /\ Congruent(D[c], b * h + u * h)
    BY <1>4, <2>2, CongruentSums
  <2>4. Congruent(G[c], (l * h + r * h) + (b * h + u * h))
    BY <1>4, <2>3, CongruentSums
  <2>5. (l * h + r * h) + (b * h + u * h) = (l + r + b + u) * h
    BY <1>3, <2>2
  <2>6. Congruent(G[c], (l + r + b + u) * h)
    BY <2>4, <2>5
  <2> QED BY <2>1, <2>6, CongruentNumbers
<1>6. IsFiniteSet(forest)
  BY ForestFinite
<1>7. Congruent(SumOver(VolumeOf, forest), SumOver(G, forest))
  BY <1>5, <1>6, SumCongruent
<1>8. /\ SumOver(A, forest) = SumOver(L, forest) + SumOver(R, forest)
      /\ SumOver(D, forest) = SumOver(B, forest) + SumOver(U, forest)
      /\ SumOver(G, forest) = SumOver(A, forest) + SumOver(D, forest)
  BY <1>2, <1>4, <1>6, SumOfSums
<1>9. /\ SumOver(L, forest) = SumOver(Sweep, FacesOf({"LEFT"}))
      /\ SumOver(R, forest) = SumOver(Sweep, FacesOf({"RIGHT"}))
      /\ SumOver(B, forest) = SumOver(Sweep, FacesOf({"BOTTOM"}))
      /\ SumOver(U, forest) = SumOver(Sweep, FacesOf({"UP"}))
  BY <1>1, OneFaceOfAll DEF L, R, B, U
<1>10. /\ SumOver(Sweep, FacesOf({"LEFT", "RIGHT"}))
            = SumOver(Sweep, FacesOf({"LEFT"})) + SumOver(Sweep, FacesOf({"RIGHT"}))
       /\ SumOver(Sweep, FacesOf({"BOTTOM", "UP"}))
            = SumOver(Sweep, FacesOf({"BOTTOM"})) + SumOver(Sweep, FacesOf({"UP"}))
       /\ SumOver(Sweep, FacesOf(Face))
            = SumOver(Sweep, FacesOf({"LEFT", "RIGHT"})) + SumOver(Sweep, FacesOf({"BOTTOM", "UP"}))
  <2>1. /\ {"LEFT"} \cup {"RIGHT"} = {"LEFT", "RIGHT"} /\ {"LEFT"} \cap {"RIGHT"} = {}
        /\ {"BOTTOM"} \cup {"UP"} = {"BOTTOM", "UP"} /\ {"BOTTOM"} \cap {"UP"} = {}
        /\ {"LEFT", "RIGHT"} \cup {"BOTTOM", "UP"} = Face
        /\ {"LEFT", "RIGHT"} \cap {"BOTTOM", "UP"} = {}
        /\ {"LEFT"} \in SUBSET Face /\ {"RIGHT"} \in SUBSET Face /\ {"BOTTOM"} \in SUBSET Face
        /\ {"UP"} \in SUBSET Face /\ {"LEFT", "RIGHT"} \in SUBSET Face
        /\ {"BOTTOM", "UP"} \in SUBSET Face
    BY DEF Face
  <2>2. SumOver(Sweep, FacesOf({"LEFT"} \cup {"RIGHT"}))
          = SumOver(Sweep, FacesOf({"LEFT"})) + SumOver(Sweep, FacesOf({"RIGHT"}))
    BY <2>1, TwoFacesOfAll
  <2>3. SumOver(Sweep, FacesOf({"BOTTOM"} \cup {"UP"}))
          = SumOver(Sweep, FacesOf({"BOTTOM"})) + SumOver(Sweep, FacesOf({"UP"}))
    BY <2>1, TwoFacesOfAll
  <2>4. SumOver(Sweep, FacesOf({"LEFT", "RIGHT"} \cup {"BOTTOM", "UP"}))
          = SumOver(Sweep, FacesOf({"LEFT", "RIGHT"})) + SumOver(Sweep, FacesOf({"BOTTOM", "UP"}))
    BY <2>1, TwoFacesOfAll
  <2> QED BY <2>1, <2>2, <2>3, <2>4
<1>11. SumOver(G, forest) = SumOver(Sweep, FacesOf(Face))
  BY <1>8, <1>9, <1>10
<1> QED BY <1>7, <1>11

-----------------------------------------------------------------------------
(* What two leaves sweep along their common edge cancels. *)

\* The corners at one point are in one place, ...
Joined ==
  \A c, d \in forest : \A k, l \in Corner : Point(c, k) = Point(d, l) => Lag(c, k) = Lag(d, l)
\* ... and a hanging corner is in the middle of its edge.
Middles ==
  \A h \in Hanging : \A j \in {1, 2} :
    Congruent(2 * Lag(h.child[1], WhichCorner(h, 1))[j],
              Lag(h.parent, LowEnd[h.face])[j] + Lag(h.parent, HighEnd[h.face])[j])

AtBorder == {q \in forest \X Face : AtBoundary(q[1], q[2])}
Equal == {q \in FacesOf(Face) : \E d \in forest : Across(q[1], q[2], d) /\ d.level = q[1].level}
Finer == {q \in FacesOf(Face) : \E d \in forest : Across(q[1], q[2], d) /\ d.level > q[1].level}
Coarser == {q \in FacesOf(Face) : \E d \in forest : Across(q[1], q[2], d) /\ d.level < q[1].level}

\* Every face of a leaf is on the boundary, or has leaves of its own size, of
\* smaller ones or of a larger one across.
LEMMA FacesSorted ==
  ASSUME SettingOK
  PROVE  /\ FacesOf(Face) = AtBorder \cup (Equal \cup (Finer \cup Coarser))
         /\ AtBorder \cap (Equal \cup (Finer \cup Coarser)) = {}
         /\ Equal \cap (Finer \cup Coarser) = {} /\ Finer \cap Coarser = {}
<1>1. Tiling(forest) /\ forest \subseteq Cells /\ forest \in BalancedForests
  BY BalancedForest DEF SettingOK
<1>2. ASSUME NEW q \in FacesOf(Face), q \notin AtBorder
      PROVE  q \in Equal \cup (Finer \cup Coarser)
  <2>1. q[1] \in forest /\ q[2] \in Face /\ ~ AtBoundary(q[1], q[2])
    BY <1>2 DEF FacesOf, AtBorder
  <2>2. PICK d \in forest : Across(q[1], q[2], d)
    BY <1>1, <2>1, LeafAcross
  <2>3. d.level \in Int /\ q[1].level \in Int
    BY <1>1, <2>1, CellParts
  <2>4. d.level = q[1].level \/ d.level > q[1].level \/ d.level < q[1].level
    BY <2>3
  <2> QED BY <2>2, <2>4 DEF Equal, Finer, Coarser
<1>3. ASSUME NEW q \in Equal \cup (Finer \cup Coarser)
      PROVE  q \notin AtBorder
  <2>1. q \in FacesOf(Face) /\ \E d \in forest : Across(q[1], q[2], d)
    BY DEF Equal, Finer, Coarser
  <2>2. q[1] \in forest /\ q[2] \in Face
    BY <2>1 DEF FacesOf
  <2>3. ~ AtBoundary(q[1], q[2])
    BY <1>1, <2>1, <2>2, NoneAtBoundary
  <2> QED BY <2>3 DEF AtBorder
<1>4. ASSUME NEW q \in FacesOf(Face), NEW d \in forest, NEW e \in forest,
             Across(q[1], q[2], d), Across(q[1], q[2], e)
      PROVE  /\ q[1].level \in Int /\ d.level \in Int /\ e.level \in Int
             /\ d.level = q[1].level => e = d
             /\ d.level > q[1].level => e.level > q[1].level
  <2>1. q[1] \in forest /\ q[2] \in Face
    BY DEF FacesOf
  <2>2. q[1].level \in Int /\ d.level \in Int /\ e.level \in Int
    BY <1>1, <2>1, CellParts
  <2> QED BY <1>1, <1>4, <2>1, <2>2, OneSizeAcross
<1>5. Equal \cap (Finer \cup Coarser) = {}
  <2> SUFFICES ASSUME NEW q \in Equal, q \in Finer \cup Coarser
               PROVE  FALSE
    OBVIOUS
  <2>1. q \in FacesOf(Face)
    BY DEF Equal
  <2>2. PICK d \in forest : Across(q[1], q[2], d) /\ d.level = q[1].level
    BY DEF Equal
  <2>3. PICK e \in forest :
          Across(q[1], q[2], e) /\ (e.level > q[1].level \/ e.level < q[1].level)
    BY DEF Finer, Coarser
  <2> QED BY <1>4, <2>1, <2>2, <2>3
<1>6. Finer \cap Coarser = {}
  <2> SUFFICES ASSUME NEW q \in Finer, q \in Coarser
               PROVE  FALSE
    OBVIOUS
  <2>1. q \in FacesOf(Face)
    BY DEF Finer
  <2>2. PICK d \in forest : Across(q[1], q[2], d) /\ d.level > q[1].level
    BY DEF Finer
  <2>3. PICK e \in forest : Across(q[1], q[2], e) /\ e.level < q[1].level
    BY DEF Coarser
  <2> QED BY <1>4, <2>1, <2>2, <2>3
<1>7. AtBorder \subseteq FacesOf(Face) /\ Equal \cup (Finer \cup Coarser) \subseteq FacesOf(Face)
  BY DEF AtBorder, FacesOf, Equal, Finer, Coarser
<1> QED BY <1>2, <1>3, <1>5, <1>6, <1>7

\* Two leaves of one size have an edge in common.
LEMMA CommonEdge ==
  ASSUME NEW c \in Cells, NEW d \in Cells, NEW f \in Face, NextTo(c, f, d)
  PROVE  /\ Point(c, LowEnd[f]) = Point(d, LowEnd[Opposite[f]])
         /\ Point(c, HighEnd[f]) = Point(d, HighEnd[Opposite[f]])
<1>1. /\ c.x \in Nat /\ c.y \in Nat /\ Side(c) \in Nat /\ d.x \in Nat /\ d.y \in Nat
      /\ Side(d) = Side(c)
  BY CellParts DEF NextTo, Side
<1>2. CASE f = "LEFT"
  BY <1>1, <1>2 DEF NextTo, Point, LowEnd, HighEnd, Opposite
<1>3. CASE f = "RIGHT"
  BY <1>1, <1>3 DEF NextTo, Point, LowEnd, HighEnd, Opposite
<1>4. CASE f = "BOTTOM"
  BY <1>1, <1>4 DEF NextTo, Point, LowEnd, HighEnd, Opposite
<1>5. CASE f = "UP"
  BY <1>1, <1>5 DEF NextTo, Point, LowEnd, HighEnd, Opposite
<1> QED BY <1>2, <1>3, <1>4, <1>5 DEF Face

\* Which of two opposite faces is passed in which direction.
LEMMA Directions ==
  ASSUME NEW f \in Face
  PROVE  /\ Opposite[f] \in Face /\ Opposite[Opposite[f]] = f
         /\ f \in {"BOTTOM", "RIGHT"} <=> Opposite[f] \notin {"BOTTOM", "RIGHT"}
         /\ LowEnd[f] \in Corner /\ HighEnd[f] \in Corner
BY DEF Face, Opposite, LowEnd, HighEnd, Corner

\* Two leaves of a size sweep opposite amounts along their edge.
LEMMA EqualsCancel ==
  ASSUME SettingOK, LagsOK, Joined, NEW c \in forest, NEW f \in Face, NEW d \in forest,
         Across(c, f, d), d.level = c.level
  PROVE  Swung(c, f) + Swung(d, Opposite[f]) = 0
<1>1. c \in Cells /\ d \in Cells
  BY BalancedForest DEF SettingOK
<1>2. NextTo(c, f, d)
  BY <1>1, AcrossIsNext
<1> DEFINE g == Opposite[f]
           l == Lag(c, LowEnd[f])
           r == Lag(c, HighEnd[f])
<1>3. /\ g \in Face /\ (f \in {"BOTTOM", "RIGHT"} <=> g \notin {"BOTTOM", "RIGHT"})
      /\ LowEnd[f] \in Corner /\ HighEnd[f] \in Corner
      /\ LowEnd[g] \in Corner /\ HighEnd[g] \in Corner
  <2>1. /\ g \in Face /\ (f \in {"BOTTOM", "RIGHT"} <=> g \notin {"BOTTOM", "RIGHT"})
        /\ LowEnd[f] \in Corner /\ HighEnd[f] \in Corner
    BY Directions
  <2> HIDE DEF g
  <2>2. LowEnd[g] \in Corner /\ HighEnd[g] \in Corner
    BY <2>1, Directions
  <2> QED BY <2>1, <2>2
<1>4. Lag(d, LowEnd[g]) = l /\ Lag(d, HighEnd[g]) = r
  <2>1. Point(c, LowEnd[f]) = Point(d, LowEnd[g]) /\ Point(c, HighEnd[f]) = Point(d, HighEnd[g])
    BY <1>1, <1>2, CommonEdge
  <2> QED BY <1>3, <2>1 DEF Joined
<1>5. Turn(l, r) \in Int /\ Turn(r, l) = 0 - Turn(l, r)
  <2>1. l \in Int \X Int /\ r \in Int \X Int
    BY <1>3 DEF LagsOK
  <2> QED BY <2>1, TurnType
<1>6. /\ Swung(c, f) = IF f \in {"BOTTOM", "RIGHT"} THEN Turn(l, r) ELSE Turn(r, l)
      /\ Swung(d, g) = IF g \in {"BOTTOM", "RIGHT"} THEN Turn(l, r) ELSE Turn(r, l)
  BY <1>4 DEF Swung
<1> HIDE DEF l, r, g
<1>7. Swung(c, f) + Swung(d, g) = 0
  BY <1>3, <1>5, <1>6
<1> QED BY <1>7 DEF g

\* Only zero is twice itself.
LEMMA TwiceIsZero ==
  ASSUME NEW x \in Int, x = x + x
  PROVE  x = 0
OBVIOUS

\* A sum of zeros is zero.
LEMMA SumOfZeros ==
  ASSUME NEW F, NEW S, IsFiniteSet(S), \A x \in S : Congruent(F[x], 0)
  PROVE  Congruent(SumOver(F, S), 0)
<1> DEFINE G == [x \in S |-> 0]
<1>1. \A x \in S : G[x] \in Int /\ G[x] = G[x] + G[x] /\ Congruent(F[x], G[x])
  OBVIOUS
<1> HIDE DEF G
<1>2. SumOver(G, S) = SumOver(G, S) + SumOver(G, S) /\ SumOver(G, S) \in Int
  BY <1>1, SumOfSums, SumStep
<1>3. SumOver(G, S) = 0
  <2> DEFINE t == SumOver(G, S)
  <2>1. t \in Int /\ t = t + t
    BY <1>2
  <2> HIDE DEF t
  <2>2. t = 0
    BY <2>1, TwiceIsZero
  <2> QED BY <2>2 DEF t
<1> QED BY <1>1, <1>3, SumCongruent

Beside(q) == CHOOSE d \in forest : Across(q[1], q[2], d) /\ d.level = q[1].level
Facing == [q \in Equal |-> <<Beside(q), Opposite[q[2]]>>]

\* The face on the other side of a face of a leaf of one size.
LEMMA FacingIs ==
  ASSUME SettingOK, NEW q \in Equal
  PROVE  /\ q = <<q[1], q[2]>> /\ q[1] \in forest /\ q[2] \in Face
         /\ Beside(q) \in forest /\ Across(q[1], q[2], Beside(q)) /\ Beside(q).level = q[1].level
         /\ Facing[q] = <<Beside(q), Opposite[q[2]]>>
         /\ Facing[q] \in Equal /\ Facing[Facing[q]] = q
<1>1. q = <<q[1], q[2]>> /\ q[1] \in forest /\ q[2] \in Face
  BY DEF Equal, FacesOf
<1> DEFINE c == q[1]
           f == q[2]
           d == Beside(q)
           r == Facing[q]
<1>2. d \in forest /\ Across(c, f, d) /\ d.level = c.level
  <2>1. \E e \in forest : Across(q[1], q[2], e) /\ e.level = q[1].level
    BY DEF Equal
  <2> QED BY <2>1 DEF Beside
<1>3. r = <<d, Opposite[f]>> /\ r[1] = d /\ r[2] = Opposite[f]
  BY DEF Facing
<1> HIDE DEF c, f, d, r
<1>4. /\ Opposite[f] \in Face /\ Opposite[Opposite[f]] = f
      /\ Across(d, Opposite[f], c) /\ c \in forest /\ f \in Face /\ q = <<c, f>>
  BY <1>1, <1>2, AcrossBack DEF c, f
<1>5. r \in Equal
  BY <1>2, <1>3, <1>4 DEF Equal, FacesOf
<1>6. Beside(r) = c
  <2>1. ASSUME NEW e \in forest, Across(d, Opposite[f], e), e.level = d.level
        PROVE  e = c
    <3>1. forest \in BalancedForests
      BY DEF SettingOK
    <3>2. Across(d, Opposite[f], c) /\ c.level = d.level
      BY <1>2, <1>4
    <3> QED BY <1>2, <1>4, <2>1, <3>1, <3>2, OneSizeAcross
  <2>2. \E e \in forest : Across(r[1], r[2], e) /\ e.level = r[1].level
    BY <1>2, <1>3, <1>4
  <2>3. /\ Beside(r) \in forest /\ Across(r[1], r[2], Beside(r)) /\ Beside(r).level = r[1].level
    BY <2>2 DEF Beside
  <2> QED BY <1>3, <2>1, <2>3
<1>7. Facing[r] = q
  <2>1. Facing[r] = <<Beside(r), Opposite[r[2]]>>
    BY <1>5 DEF Facing
  <2> QED BY <1>3, <1>4, <1>6, <2>1
<1> QED BY <1>1, <1>2, <1>3, <1>5, <1>7 DEF c, f, d, r

\* What is swept along the edges between leaves of one size cancels.
LEMMA EqualSum ==
  ASSUME SettingOK, LagsOK, Joined
  PROVE  Congruent(SumOver(Sweep, Equal), 0) /\ IsFiniteSet(Equal)
<1> DEFINE B == [q \in Equal |-> Sweep[Facing[q]]]
           H == [q \in Equal |-> Sweep[q] + B[q]]
           s == SumOver(Sweep, Equal)
           h == Reciprocal(2)
<1>1. IsFiniteSet(Equal) /\ Equal \subseteq FacesOf(Face)
  <2>1. IsFiniteSet(FacesOf(Face))
    BY ForestFinite
  <2>2. Equal \subseteq FacesOf(Face)
    BY DEF Equal
  <2> QED BY <2>1, <2>2, FS_Subset
<1>2. h \in Int
  BY TwoHasHalf, ResidueIsInt
<1> HIDE DEF h
<1>3. ASSUME NEW q \in Equal
      PROVE  /\ Facing[q] \in Equal /\ Facing[Facing[q]] = q
             /\ Sweep[q] \in Int /\ Sweep[Facing[q]] \in Int
             /\ Congruent(Sweep[q] + Sweep[Facing[q]], 0)
  <2>1. /\ q = <<q[1], q[2]>> /\ q[1] \in forest /\ q[2] \in Face
        /\ Beside(q) \in forest /\ Across(q[1], q[2], Beside(q)) /\ Beside(q).level = q[1].level
        /\ Facing[q] = <<Beside(q), Opposite[q[2]]>>
        /\ Facing[q] \in Equal /\ Facing[Facing[q]] = q
    BY FacingIs
  <2> DEFINE a == Swung(q[1], q[2])
             b == Swung(Beside(q), Opposite[q[2]])
             x == Sweep[q]
             y == Sweep[Facing[q]]
  <2>2. a + b = 0
    BY <2>1, EqualsCancel
  <2>3. Opposite[q[2]] \in Face
    BY <2>1, Directions
  <2>4. x \in Int /\ Congruent(x, a * h) /\ a \in Int
    BY <2>1, SweepIs DEF h
  <2>5. y \in Int /\ Congruent(y, b * h) /\ b \in Int
    BY <2>1, <2>3, SweepIs DEF h
  <2> HIDE DEF a, b, x, y
  <2>6. Congruent(x + y, a * h + b * h)
    BY <2>4, <2>5, CongruentSums
  <2>7. a * h + b * h = 0
    <3>1. a * h + b * h = (a + b) * h
      BY <1>2, <2>4, <2>5
    <3> QED BY <1>2, <2>2, <3>1
  <2>8. Congruent(x + y, 0)
    BY <2>6, <2>7
  <2> QED BY <2>1, <2>4, <2>5, <2>8 DEF x, y
<1>4. SumOver(B, Equal) = s
  <2>1. {Facing[q] : q \in Equal} = Equal
    <3>1. \A q \in Equal : Facing[q] \in Equal /\ Facing[Facing[q]] = q
      BY <1>3
    <3> QED BY <3>1
  <2>2. \A x, y \in Equal : Facing[x] = Facing[y] => x = y
    <3>1. \A q \in Equal : Facing[Facing[q]] = q
      BY <1>3
    <3> QED BY <3>1
  <2>3. \A q \in Equal : Sweep[Facing[q]] \in Int
    BY <1>3
  <2>4. SumOver(Sweep, {Facing[q] : q \in Equal}) = SumOver([q \in Equal |-> Sweep[Facing[q]]], Equal)
    BY <1>1, <2>2, <2>3, SumOfImage
  <2> QED BY <2>1, <2>4
<1>5. \A q \in Equal : /\ Sweep[q] \in Int /\ B[q] \in Int /\ H[q] = Sweep[q] + B[q]
                       /\ Congruent(H[q], 0)
  BY <1>3
<1> HIDE DEF B, H
<1>6. SumOver(H, Equal) = s + s /\ s \in Int
  <2>1. SumOver(H, Equal) = SumOver(Sweep, Equal) + SumOver(B, Equal)
    BY <1>1, <1>5, SumOfSums
  <2>2. SumOver(Sweep, Equal) \in Int
    BY <1>1, <1>5, SumStep
  <2> QED BY <1>4, <2>1, <2>2
<1>7. Congruent(s + s, 0)
  BY <1>1, <1>5, <1>6, SumOfZeros
<1> HIDE DEF s
<1>8. 0 % Modulus = 0
  BY UnitType, ResidueIsNumber
<1>9. (s + s) % Modulus = 0
  BY <1>7, <1>8 DEF Congruent
<1>10. s % Modulus = 0
  BY <1>6, <1>9, DoubleOfNone
<1>11. Congruent(s, 0)
  BY <1>6, <1>8, <1>10 DEF Congruent
<1> QED BY <1>1, <1>11 DEF s

\* A number twice which is a multiple of Modulus is one.
LEMMA TwiceNone ==
  ASSUME NEW x \in Int, Congruent(x + x, 0)
  PROVE  Congruent(x, 0)
<1>1. 0 % Modulus = 0
  BY UnitType, ResidueIsNumber
<1>2. (x + x) % Modulus = 0
  BY <1>1 DEF Congruent
<1>3. x % Modulus = 0
  BY <1>2, DoubleOfNone
<1> QED BY <1>1, <1>3 DEF Congruent

\* There is nothing between two places and the middle between them.
LEMMA MiddleTurns ==
  ASSUME NEW l \in Int \X Int, NEW m \in Int \X Int, NEW r \in Int \X Int,
         Congruent(2 * m[1], l[1] + r[1]), Congruent(2 * m[2], l[2] + r[2])
  PROVE  /\ Congruent(Turn(l, r) + Turn(m, l) + Turn(r, m), 0)
         /\ Congruent(Turn(r, l) + Turn(l, m) + Turn(m, r), 0)
<1> DEFINE l1 == l[1]
           l2 == l[2]
           m1 == m[1]
           m2 == m[2]
           r1 == r[1]
           r2 == r[2]
           x == Turn(l, r) + Turn(m, l) + Turn(r, m)
           y == Turn(r, l) + Turn(l, m) + Turn(m, r)
<1>1. l1 \in Int /\ l2 \in Int /\ m1 \in Int /\ m2 \in Int /\ r1 \in Int /\ r2 \in Int
  BY PairIs
<1>2. x = (l1 * r2 - l2 * r1) + (m1 * l2 - m2 * l1) + (r1 * m2 - r2 * m1)
  BY DEF Turn
<1>3. y = (r1 * l2 - r2 * l1) + (l1 * m2 - l2 * m1) + (m1 * r2 - m2 * r1)
  BY DEF Turn
<1>4. Congruent(2 * m1, l1 + r1) /\ Congruent(2 * m2, l2 + r2)
  OBVIOUS
<1> HIDE DEF l1, l2, m1, m2, r1, r2, x, y
<1>5. x \in Int /\ y = 0 - x
  <2> DEFINE a == l1 * r2
             b == l2 * r1
             c == m1 * l2
             d == m2 * l1
             e == r1 * m2
             f == r2 * m1
  <2>1. /\ a \in Int /\ b \in Int /\ c \in Int /\ d \in Int /\ e \in Int /\ f \in Int
        /\ r2 * l1 = a /\ r1 * l2 = b /\ l2 * m1 = c /\ l1 * m2 = d /\ m2 * r1 = e /\ m1 * r2 = f
    BY <1>1
  <2>2. x = (a - b) + (c - d) + (e - f) /\ y = (b - a) + (d - c) + (f - e)
    BY <1>2, <1>3, <2>1
  <2> HIDE DEF a, b, c, d, e, f
  <2> QED BY <2>1, <2>2
<1>6. x + x = (2 * (l1 * r2 - l2 * r1)) + (((2 * m1) * (l2 - r2)) + ((2 * m2) * (r1 - l1)))
  <2>1. /\ (2 * m1) * (l2 - r2) = 2 * (m1 * l2) - 2 * (r2 * m1)
        /\ (2 * m2) * (r1 - l1) = 2 * (r1 * m2) - 2 * (m2 * l1)
    BY <1>1
  <2> DEFINE a == l1 * r2
             b == l2 * r1
             c == m1 * l2
             d == m2 * l1
             e == r1 * m2
             f == r2 * m1
  <2>2. a \in Int /\ b \in Int /\ c \in Int /\ d \in Int /\ e \in Int /\ f \in Int
    BY <1>1
  <2>3. /\ (2 * m1) * (l2 - r2) = 2 * c - 2 * f /\ (2 * m2) * (r1 - l1) = 2 * e - 2 * d
        /\ x = (a - b) + (c - d) + (e - f)
    BY <1>2, <2>1
  <2> HIDE DEF a, b, c, d, e, f
  <2>4. x + x = (2 * (a - b)) + ((2 * c - 2 * f) + (2 * e - 2 * d))
    BY <2>2, <2>3
  <2> QED BY <2>3, <2>4 DEF a, b
<1>7. /\ l2 - r2 \in Int /\ r1 - l1 \in Int /\ 2 * (l1 * r2 - l2 * r1) \in Int
      /\ Congruent(l2 - r2, l2 - r2) /\ Congruent(r1 - l1, r1 - l1)
      /\ Congruent(2 * (l1 * r2 - l2 * r1), 2 * (l1 * r2 - l2 * r1))
  BY <1>1, CongruentNumbers
<1>8. /\ Congruent((2 * m1) * (l2 - r2), (l1 + r1) * (l2 - r2))
      /\ Congruent((2 * m2) * (r1 - l1), (l2 + r2) * (r1 - l1))
  BY <1>4, <1>7, CongruentProducts
<1>9. Congruent(((2 * m1) * (l2 - r2)) + ((2 * m2) * (r1 - l1)),
                ((l1 + r1) * (l2 - r2)) + ((l2 + r2) * (r1 - l1)))
  BY <1>8, CongruentSums
<1>10. Congruent(x + x, (2 * (l1 * r2 - l2 * r1))
                          + (((l1 + r1) * (l2 - r2)) + ((l2 + r2) * (r1 - l1))))
  BY <1>6, <1>7, <1>9, CongruentSums
<1>11. (2 * (l1 * r2 - l2 * r1)) + (((l1 + r1) * (l2 - r2)) + ((l2 + r2) * (r1 - l1))) = 0
  <2> DEFINE a == l1 * r2
             b == l2 * r1
             c == l1 * l2
             d == r1 * r2
  <2>1. /\ a \in Int /\ b \in Int /\ c \in Int /\ d \in Int
        /\ (l1 + r1) * (l2 - r2) = (c - a) + (b - d)
        /\ (l2 + r2) * (r1 - l1) = (b - c) + (d - a)
    BY <1>1
  <2>2. 2 * (l1 * r2 - l2 * r1) = 2 * (a - b)
    OBVIOUS
  <2> HIDE DEF a, b, c, d
  <2>3. (2 * (a - b)) + (((c - a) + (b - d)) + ((b - c) + (d - a))) = 0
    BY <2>1
  <2> QED BY <2>1, <2>2, <2>3
<1>12. Congruent(x + x, 0)
  BY <1>10, <1>11
<1>13. Congruent(x, 0)
  BY <1>5, <1>12, TwiceNone
<1>14. Congruent(y, 0)
  <2>1. Congruent(0 - x, 0 - 0)
    <3>1. Congruent(0, 0)
      BY CongruentNumbers
    <3> QED BY <1>13, <3>1, CongruentSums
  <2> QED BY <1>5, <2>1
<1> QED BY <1>13, <1>14 DEF x, y

\* What the three leaves at a hanging edge sweep along it cancels.
LEMMA HangingCancels ==
  ASSUME SettingOK, LagsOK, Joined, Middles, NEW h \in Hanging
  PROVE  /\ h.parent \in forest /\ h.child[1] \in forest /\ h.child[2] \in forest
         /\ h.face \in Face /\ Opposite[h.face] \in Face
         /\ Congruent(Swung(h.parent, h.face) + Swung(h.child[1], Opposite[h.face])
                        + Swung(h.child[2], Opposite[h.face]), 0)
<1> DEFINE f == h.face
           g == Opposite[f]
           p == h.parent
           a == h.child[1]
           b == h.child[2]
           l == Lag(p, LowEnd[f])
           r == Lag(p, HighEnd[f])
           m == Lag(a, WhichCorner(h, 1))
<1>1. /\ p \in forest /\ a \in forest /\ b \in forest /\ f \in Face
      /\ forest \in BalancedForests /\ h \in HangingEdges[forest]
  BY HangingEdgeParts DEF SettingOK, Hanging
<1>2. /\ g \in Face /\ (f \in {"BOTTOM", "RIGHT"} <=> g \notin {"BOTTOM", "RIGHT"})
      /\ LowEnd[f] \in Corner /\ HighEnd[f] \in Corner
  BY <1>1, Directions
<1>3. LowEnd[g] \in Corner /\ HighEnd[g] \in Corner
  <2> HIDE DEF g
  <2> QED BY <1>2, Directions
<1>4. /\ WhichCorner(h, 1) = HighEnd[g] /\ MasterCorner(h, 1) = LowEnd[g]
      /\ WhichCorner(h, 2) = LowEnd[g] /\ MasterCorner(h, 2) = HighEnd[g]
  BY <1>1, HangingTable
<1>5. /\ Point(b, WhichCorner(h, 2)) = Point(a, WhichCorner(h, 1))
      /\ Point(a, MasterCorner(h, 1)) = Point(p, LowEnd[f])
      /\ Point(b, MasterCorner(h, 2)) = Point(p, HighEnd[f])
  BY <1>1, HangingPoints
<1>6. /\ Lag(a, LowEnd[g]) = l /\ Lag(a, HighEnd[g]) = m
      /\ Lag(b, LowEnd[g]) = m /\ Lag(b, HighEnd[g]) = r
  <2> HIDE DEF f, g, p, a, b
  <2>1. Lag(a, LowEnd[g]) = l
    BY <1>1, <1>2, <1>3, <1>4, <1>5 DEF Joined
  <2>2. Lag(a, HighEnd[g]) = m
    BY <1>4
  <2>3. Lag(b, LowEnd[g]) = m
    BY <1>1, <1>2, <1>3, <1>4, <1>5 DEF Joined
  <2>4. Lag(b, HighEnd[g]) = r
    BY <1>1, <1>2, <1>3, <1>4, <1>5 DEF Joined
  <2> QED BY <2>1, <2>2, <2>3, <2>4
<1>7. l \in Int \X Int /\ m \in Int \X Int /\ r \in Int \X Int
  <2> HIDE DEF f, g, p, a, b
  <2> QED BY <1>1, <1>2, <1>3, <1>4 DEF LagsOK
<1>8. Congruent(2 * m[1], l[1] + r[1]) /\ Congruent(2 * m[2], l[2] + r[2])
  BY DEF Middles
<1>9. /\ Swung(p, f) = IF f \in {"BOTTOM", "RIGHT"} THEN Turn(l, r) ELSE Turn(r, l)
      /\ Swung(a, g) = IF g \in {"BOTTOM", "RIGHT"} THEN Turn(l, m) ELSE Turn(m, l)
      /\ Swung(b, g) = IF g \in {"BOTTOM", "RIGHT"} THEN Turn(m, r) ELSE Turn(r, m)
  BY <1>6 DEF Swung
<1> HIDE DEF l, m, r, f, g, p, a, b
<1>10. /\ Congruent(Turn(l, r) + Turn(m, l) + Turn(r, m), 0)
       /\ Congruent(Turn(r, l) + Turn(l, m) + Turn(m, r), 0)
  BY <1>7, <1>8, MiddleTurns
<1>11. Congruent(Swung(p, f) + Swung(a, g) + Swung(b, g), 0)
  <2>1. CASE f \in {"BOTTOM", "RIGHT"}
    BY <1>2, <1>9, <1>10, <2>1
  <2>2. CASE f \notin {"BOTTOM", "RIGHT"}
    BY <1>2, <1>9, <1>10, <2>2
  <2> QED BY <2>1, <2>2
<1> QED BY <1>1, <1>2, <1>11 DEF f, g, p, a, b

\* The faces of the leaves at hanging edges.
ParentFace == [h \in Hanging |-> <<h.parent, h.face>>]
FirstFace == [h \in Hanging |-> <<h.child[1], Opposite[h.face]>>]
SecondFace == [h \in Hanging |-> <<h.child[2], Opposite[h.face]>>]
Ones == {FirstFace[h] : h \in Hanging}
Twos == {SecondFace[h] : h \in Hanging}

\* The faces with smaller leaves across are those of the edges' parents, the
\* faces with a larger one those of their children.
LEMMA FacesAtEdges ==
  ASSUME SettingOK
  PROVE  /\ {ParentFace[h] : h \in Hanging} = Finer
         /\ Ones \cup Twos = Coarser /\ Ones \cap Twos = {}
         /\ \A g, h \in Hanging :
              /\ ParentFace[g] = ParentFace[h] => g = h
              /\ FirstFace[g] = FirstFace[h] => g = h
              /\ SecondFace[g] = SecondFace[h] => g = h
<1>1. forest \in BalancedForests /\ Hanging = HangingEdges[forest]
  BY DEF SettingOK, Hanging
<1>2. ASSUME NEW h \in Hanging, NEW i \in {1, 2}
      PROVE  /\ h.parent \in forest /\ h.face \in Face /\ h.child[i] \in forest
             /\ Opposite[h.face] \in Face /\ Opposite[Opposite[h.face]] = h.face
             /\ Across(h.parent, h.face, h.child[i])
             /\ Across(h.child[i], Opposite[h.face], h.parent)
             /\ h.child[i].level > h.parent.level
  <2>1. /\ h.parent \in forest /\ h.face \in Face /\ h.child[i] \in forest
        /\ Across(h.parent, h.face, h.child[i])
        /\ Across(h.child[i], Opposite[h.face], h.parent)
        /\ h.child[i].level = h.parent.level + 1 /\ h.parent.level \in Int
    BY <1>1, EdgeAcross
  <2>2. Opposite[h.face] \in Face /\ Opposite[Opposite[h.face]] = h.face
    BY <2>1, Directions
  <2> QED BY <2>1, <2>2
<1>3. {ParentFace[h] : h \in Hanging} \subseteq Finer
  <2> SUFFICES ASSUME NEW h \in Hanging
               PROVE  ParentFace[h] \in Finer
    OBVIOUS
  <2>1. ParentFace[h] = <<h.parent, h.face>>
    BY DEF ParentFace
  <2>2. <<h.parent, h.face>> \in FacesOf(Face)
    BY <1>2 DEF FacesOf
  <2> QED BY <1>2, <2>1, <2>2 DEF Finer
<1>4. Finer \subseteq {ParentFace[h] : h \in Hanging}
  <2> SUFFICES ASSUME NEW q \in Finer
               PROVE  \E h \in Hanging : ParentFace[h] = q
    OBVIOUS
  <2>1. q = <<q[1], q[2]>> /\ q[1] \in forest /\ q[2] \in Face
    BY DEF Finer, FacesOf
  <2>2. PICK d \in forest : Across(q[1], q[2], d) /\ d.level > q[1].level
    BY DEF Finer
  <2>3. PICK h \in Hanging : h.parent = q[1] /\ h.face = q[2]
    BY <1>1, <2>1, <2>2, EdgeOf
  <2>4. ParentFace[h] = <<h.parent, h.face>>
    BY DEF ParentFace
  <2> QED BY <2>1, <2>3, <2>4
<1>5. Ones \cup Twos \subseteq Coarser
  <2>1. ASSUME NEW h \in Hanging, NEW i \in {1, 2}
        PROVE  <<h.child[i], Opposite[h.face]>> \in Coarser
    <3> DEFINE q == <<h.child[i], Opposite[h.face]>>
    <3>1. q \in FacesOf(Face) /\ q[1] = h.child[i] /\ q[2] = Opposite[h.face]
      BY <1>2 DEF FacesOf
    <3>2. h.parent \in forest /\ Across(q[1], q[2], h.parent) /\ h.parent.level < q[1].level
      BY <1>2, <3>1
    <3> QED BY <3>1, <3>2 DEF Coarser
  <2>2. \A h \in Hanging : FirstFace[h] \in Coarser /\ SecondFace[h] \in Coarser
    BY <2>1 DEF FirstFace, SecondFace
  <2> QED BY <2>2 DEF Ones, Twos
<1>6. Coarser \subseteq Ones \cup Twos
  <2> SUFFICES ASSUME NEW q \in Coarser
               PROVE  \E h \in Hanging : FirstFace[h] = q \/ SecondFace[h] = q
    BY DEF Ones, Twos
  <2>1. q = <<q[1], q[2]>> /\ q[1] \in forest /\ q[2] \in Face
    BY DEF Coarser, FacesOf
  <2>2. PICK d \in forest : Across(q[1], q[2], d) /\ d.level < q[1].level
    BY DEF Coarser
  <2>3. /\ Opposite[q[2]] \in Face /\ Opposite[Opposite[q[2]]] = q[2]
        /\ Across(d, Opposite[q[2]], q[1])
    BY <2>1, <2>2, AcrossBack
  <2>4. q[1].level > d.level
    BY <2>2
  <2>5. PICK h \in Hanging, i \in {1, 2} :
          h.parent = d /\ h.face = Opposite[q[2]] /\ h.child[i] = q[1]
    BY <1>1, <2>1, <2>3, <2>4, EdgeOf
  <2>6. FirstFace[h] = <<h.child[1], q[2]>> /\ SecondFace[h] = <<h.child[2], q[2]>>
    BY <2>3, <2>5 DEF FirstFace, SecondFace
  <2> QED BY <2>1, <2>5, <2>6
<1>7. ASSUME NEW g \in Hanging, NEW h \in Hanging, ParentFace[g] = ParentFace[h]
      PROVE  g = h
  <2>1. g.parent = h.parent /\ g.face = h.face
    BY <1>7 DEF ParentFace
  <2> QED BY <1>1, <2>1, OneHangingEdge
<1>8. ASSUME NEW g \in Hanging, NEW h \in Hanging, FirstFace[g] = FirstFace[h]
      PROVE  g = h
  <2>1. g.child[1] = h.child[1] /\ Opposite[g.face] = Opposite[h.face]
    BY <1>8 DEF FirstFace
  <2>2. 1 \in {1, 2}
    OBVIOUS
  <2> QED BY <1>1, <2>1, <2>2, OneEdgeOfPart
<1>9. ASSUME NEW g \in Hanging, NEW h \in Hanging, SecondFace[g] = SecondFace[h]
      PROVE  g = h
  <2>1. g.child[2] = h.child[2] /\ Opposite[g.face] = Opposite[h.face]
    BY <1>9 DEF SecondFace
  <2>2. 2 \in {1, 2}
    OBVIOUS
  <2> QED BY <1>1, <2>1, <2>2, OneEdgeOfPart
<1>10. Ones \cap Twos = {}
  <2> SUFFICES ASSUME NEW g \in Hanging, NEW h \in Hanging, FirstFace[g] = SecondFace[h]
               PROVE  FALSE
    BY DEF Ones, Twos
  <2>1. g.child[1] = h.child[2] /\ Opposite[g.face] = Opposite[h.face]
    BY DEF FirstFace, SecondFace
  <2>2. 1 \in {1, 2} /\ 2 \in {1, 2}
    OBVIOUS
  <2>3. 1 = 2
    BY <1>1, <2>1, <2>2, OneEdgeOfPart
  <2> QED BY <2>3
<1> QED BY <1>3, <1>4, <1>5, <1>6, <1>7, <1>8, <1>9, <1>10

\* What is swept along the hanging edges cancels.
LEMMA HangingSum ==
  ASSUME SettingOK, LagsOK, Joined, Middles
  PROVE  /\ IsFiniteSet(Finer \cup Coarser) /\ Finer \cup Coarser \subseteq FacesOf(Face)
         /\ Congruent(SumOver(Sweep, Finer \cup Coarser), 0)
<1> DEFINE P == [h \in Hanging |-> Sweep[ParentFace[h]]]
           A == [h \in Hanging |-> Sweep[FirstFace[h]]]
           B == [h \in Hanging |-> Sweep[SecondFace[h]]]
           C == [h \in Hanging |-> A[h] + B[h]]
           H == [h \in Hanging |-> P[h] + C[h]]
           r == Reciprocal(2)
<1>1. r \in Int
  BY TwoHasHalf, ResidueIsInt
<1> HIDE DEF r
<1>2. ASSUME NEW h \in Hanging
      PROVE  /\ Sweep[ParentFace[h]] \in Int /\ Sweep[FirstFace[h]] \in Int
             /\ Sweep[SecondFace[h]] \in Int
             /\ Congruent(Sweep[ParentFace[h]] + (Sweep[FirstFace[h]] + Sweep[SecondFace[h]]), 0)
  <2> DEFINE g == Opposite[h.face]
             x == Sweep[ParentFace[h]]
             y == Sweep[FirstFace[h]]
             z == Sweep[SecondFace[h]]
             u == Swung(h.parent, h.face)
             v == Swung(h.child[1], g)
             w == Swung(h.child[2], g)
  <2>1. /\ h.parent \in forest /\ h.child[1] \in forest /\ h.child[2] \in forest
        /\ h.face \in Face /\ g \in Face /\ Congruent(u + v + w, 0)
    BY HangingCancels
  <2>2. x = Sweep[<<h.parent, h.face>>] /\ y = Sweep[<<h.child[1], g>>] /\ z = Sweep[<<h.child[2], g>>]
    BY DEF ParentFace, FirstFace, SecondFace
  <2>3. x \in Int /\ Congruent(x, u * r) /\ u \in Int
    BY <2>1, <2>2, SweepIs DEF r
  <2>4. y \in Int /\ Congruent(y, v * r) /\ v \in Int
    <3> HIDE DEF g
    <3> QED BY <2>1, <2>2, SweepIs DEF r
  <2>5. z \in Int /\ Congruent(z, w * r) /\ w \in Int
    <3> HIDE DEF g
    <3> QED BY <2>1, <2>2, SweepIs DEF r
  <2>6. Congruent(u + v + w, 0)
    BY <2>1
  <2> HIDE DEF x, y, z, u, v, w, g
  <2>7. Congruent(y + z, v * r + w * r)
    BY <2>4, <2>5, CongruentSums
  <2>8. Congruent(x + (y + z), u * r + (v * r + w * r))
    BY <2>3, <2>7, CongruentSums
  <2>9. u * r + (v * r + w * r) = (u + v + w) * r
    BY <1>1, <2>3, <2>4, <2>5
  <2>10. Congruent((u + v + w) * r, 0)
    <3>1. Congruent(r, r)
      BY <1>1, CongruentNumbers
    <3>2. Congruent((u + v + w) * r, 0 * r) /\ 0 * r = 0
      BY <1>1, <2>6, <3>1, CongruentProducts
    <3> QED BY <3>2
  <2>11. Congruent(x + (y + z), 0)
    BY <2>8, <2>9, <2>10, CongruentNumbers
  <2> QED BY <2>3, <2>4, <2>5, <2>11 DEF x, y, z
<1>3. IsFiniteSet(Hanging)
  BY HangingFinite
<1>4. /\ \A g, h \in Hanging : ParentFace[g] = ParentFace[h] => g = h
      /\ \A g, h \in Hanging : FirstFace[g] = FirstFace[h] => g = h
      /\ \A g, h \in Hanging : SecondFace[g] = SecondFace[h] => g = h
      /\ {ParentFace[h] : h \in Hanging} = Finer
      /\ Ones \cup Twos = Coarser /\ Ones \cap Twos = {}
  BY FacesAtEdges
<1>5. /\ SumOver(Sweep, Finer) = SumOver(P, Hanging)
      /\ SumOver(Sweep, Ones) = SumOver(A, Hanging)
      /\ SumOver(Sweep, Twos) = SumOver(B, Hanging)
  <2>1. \A h \in Hanging : Sweep[ParentFace[h]] \in Int /\ Sweep[FirstFace[h]] \in Int
                           /\ Sweep[SecondFace[h]] \in Int
    BY <1>2
  <2>2. SumOver(Sweep, {ParentFace[h] : h \in Hanging})
          = SumOver([h \in Hanging |-> Sweep[ParentFace[h]]], Hanging)
    BY <1>3, <1>4, <2>1, SumOfImage
  <2>3. SumOver(Sweep, {FirstFace[h] : h \in Hanging})
          = SumOver([h \in Hanging |-> Sweep[FirstFace[h]]], Hanging)
    BY <1>3, <1>4, <2>1, SumOfImage
  <2>4. SumOver(Sweep, {SecondFace[h] : h \in Hanging})
          = SumOver([h \in Hanging |-> Sweep[SecondFace[h]]], Hanging)
    BY <1>3, <1>4, <2>1, SumOfImage
  <2> QED BY <1>4, <2>2, <2>3, <2>4 DEF Ones, Twos
<1>6. /\ IsFiniteSet(Finer) /\ IsFiniteSet(Coarser) /\ IsFiniteSet(Ones) /\ IsFiniteSet(Twos)
      /\ Finer \subseteq FacesOf(Face) /\ Coarser \subseteq FacesOf(Face)
      /\ IsFiniteSet(Finer \cup Coarser)
  <2>1. IsFiniteSet(FacesOf(Face))
    BY ForestFinite
  <2>2. Finer \subseteq FacesOf(Face) /\ Coarser \subseteq FacesOf(Face)
        /\ Finer \cup Coarser \subseteq FacesOf(Face)
    BY DEF Finer, Coarser
  <2>3. Ones \subseteq FacesOf(Face) /\ Twos \subseteq FacesOf(Face)
    BY <1>4, <2>2
  <2> QED BY <2>1, <2>2, <2>3, FS_Subset
<1>7. \A q \in FacesOf(Face) : Sweep[q] \in Int
  <2> SUFFICES ASSUME NEW q \in FacesOf(Face)
               PROVE  Sweep[q] \in Int
    OBVIOUS
  <2>1. q = <<q[1], q[2]>> /\ q[1] \in forest /\ q[2] \in Face
    BY DEF FacesOf
  <2> QED BY <2>1, SweepIs
<1>8. SumOver(Sweep, Coarser) = SumOver(A, Hanging) + SumOver(B, Hanging)
  <2>1. \A q \in Ones \cup Twos : Sweep[q] \in Int
    BY <1>4, <1>6, <1>7
  <2>2. SumOver(Sweep, Ones \cup Twos) = SumOver(Sweep, Ones) + SumOver(Sweep, Twos)
    BY <1>4, <1>6, <2>1, SumOfTwo
  <2> QED BY <1>4, <1>5, <2>2
<1>9. SumOver(Sweep, Finer \cup Coarser) = SumOver(Sweep, Finer) + SumOver(Sweep, Coarser)
  <2>1. Finer \cap Coarser = {}
    BY FacesSorted
  <2>2. \A q \in Finer \cup Coarser : Sweep[q] \in Int
    BY <1>6, <1>7
  <2> QED BY <1>6, <2>1, <2>2, SumOfTwo
<1>10. \A h \in Hanging : /\ P[h] \in Int /\ A[h] \in Int /\ B[h] \in Int
                          /\ C[h] = A[h] + B[h] /\ C[h] \in Int /\ H[h] = P[h] + C[h]
                          /\ Congruent(H[h], 0)
  BY <1>2
<1> HIDE DEF P, A, B, C, H
<1>11. /\ SumOver(C, Hanging) = SumOver(A, Hanging) + SumOver(B, Hanging)
       /\ SumOver(H, Hanging) = SumOver(P, Hanging) + SumOver(C, Hanging)
  BY <1>3, <1>10, SumOfSums
<1>12. SumOver(Sweep, Finer \cup Coarser) = SumOver(H, Hanging)
  BY <1>5, <1>8, <1>9, <1>11
<1>13. Congruent(SumOver(H, Hanging), 0)
  BY <1>3, <1>10, SumOfZeros
<1> QED BY <1>6, <1>12, <1>13

-----------------------------------------------------------------------------
(* A mesh of joined leaves is whole. *)

\* The sides of MeshStaysWhole, as sums over sets.
LEMMA WholeSides ==
  ASSUME SettingOK, LagsOK
  PROVE  /\ Total(Volume, forest) = SumOver(VolumeOf, forest) % Modulus
         /\ Total(LAMBDA q : Swept(q[1], q[2]),
                  {q \in forest \X Face : AtBoundary(q[1], q[2])})
              = SumOver(Sweep, AtBorder) % Modulus
<1>1. Total(Volume, forest) = SumOver(VolumeOf, forest) % Modulus
  BY SumFunctionIs DEF Total, VolumeOf
<1> DEFINE G == [q \in AtBorder |-> Swept(q[1], q[2])]
<1>2. Total(LAMBDA q : Swept(q[1], q[2]),
            {q \in forest \X Face : AtBoundary(q[1], q[2])}) = SumFunction(G) % Modulus
  BY DEF Total, AtBorder
<1>3. DOMAIN G = AtBorder
  OBVIOUS
<1>4. AtBorder \subseteq FacesOf(Face)
  BY DEF AtBorder, FacesOf
<1>5. \A q \in AtBorder : G[q] = Sweep[q]
  BY <1>4 DEF Sweep
<1>6. IsFiniteSet(AtBorder)
  BY <1>4, ForestFinite, FS_Subset
<1> HIDE DEF G
<1>7. SumFunction(G) = SumOver(G, AtBorder)
  BY <1>3, SumFunctionIs
<1>8. SumOver(G, AtBorder) = SumOver(Sweep, AtBorder)
  BY <1>5, <1>6, SameTerms
<1> QED BY <1>1, <1>2, <1>7, <1>8

\* All volumes are what the faces on the boundary sweep.
LEMMA WholeMesh ==
  ASSUME SettingOK, LagsOK, Joined, Middles
  PROVE  Total(Volume, forest) =
           Total(LAMBDA q : Swept(q[1], q[2]),
                 {q \in forest \X Face : AtBoundary(q[1], q[2])})
<1> DEFINE M == Finer \cup Coarser
           I == Equal \cup M
<1>1. \A q \in FacesOf(Face) : Sweep[q] \in Int
  <2> SUFFICES ASSUME NEW q \in FacesOf(Face)
               PROVE  Sweep[q] \in Int
    OBVIOUS
  <2>1. q = <<q[1], q[2]>> /\ q[1] \in forest /\ q[2] \in Face
    BY DEF FacesOf
  <2> QED BY <2>1, SweepIs
<1>2. /\ FacesOf(Face) = AtBorder \cup I /\ AtBorder \cap I = {} /\ Equal \cap M = {}
  BY FacesSorted
<1>3. /\ IsFiniteSet(M) /\ M \subseteq FacesOf(Face) /\ Congruent(SumOver(Sweep, M), 0)
      /\ IsFiniteSet(Equal) /\ Congruent(SumOver(Sweep, Equal), 0)
  BY HangingSum, EqualSum
<1> HIDE DEF M
<1>4. IsFiniteSet(FacesOf(Face)) /\ AtBorder \subseteq FacesOf(Face) /\ Equal \subseteq FacesOf(Face)
      /\ I \subseteq FacesOf(Face)
  BY <1>2, ForestFinite
<1>5. IsFiniteSet(AtBorder) /\ IsFiniteSet(I)
  BY <1>4, FS_Subset
<1>6. \A q \in Equal \cup M : Sweep[q] \in Int
  BY <1>1, <1>3, <1>4
<1>7. SumOver(Sweep, I) = SumOver(Sweep, Equal) + SumOver(Sweep, M)
  BY <1>2, <1>3, <1>6, SumOfTwo
<1> HIDE DEF I
<1>8. \A q \in AtBorder \cup I : Sweep[q] \in Int
  BY <1>1, <1>2
<1>9. SumOver(Sweep, FacesOf(Face)) = SumOver(Sweep, AtBorder) + SumOver(Sweep, I)
  BY <1>2, <1>5, <1>8, SumOfTwo
<1>10. Congruent(SumOver(Sweep, I), 0)
  <2>1. Congruent(SumOver(Sweep, Equal) + SumOver(Sweep, M), 0 + 0)
    BY <1>3, CongruentSums
  <2> QED BY <1>7, <2>1
<1>11. SumOver(Sweep, AtBorder) \in Int
  BY <1>5, <1>8, SumStep
<1>12. Congruent(SumOver(Sweep, AtBorder) + SumOver(Sweep, I), SumOver(Sweep, AtBorder) + 0)
  <2>1. Congruent(SumOver(Sweep, AtBorder), SumOver(Sweep, AtBorder))
    BY <1>11, CongruentNumbers
  <2> QED BY <1>10, <2>1, CongruentSums
<1>13. Congruent(SumOver(Sweep, FacesOf(Face)), SumOver(Sweep, AtBorder))
  BY <1>9, <1>11, <1>12
<1>14. Congruent(SumOver(VolumeOf, forest), SumOver(Sweep, AtBorder))
  BY <1>13, VolumesAre, CongruentNumbers
<1> QED BY <1>14, WholeSides DEF Congruent

-----------------------------------------------------------------------------
(* The corners at a hanging point. *)

\* The places of the corners of a square.
LEMMA CornersAre ==
  ASSUME NEW c \in Cells
  PROVE  /\ Point(c, "LEFTBOTTOM")[1] = c.x /\ Point(c, "LEFTBOTTOM")[2] = c.y
         /\ Point(c, "RIGHTBOTTOM")[1] = c.x + Side(c) /\ Point(c, "RIGHTBOTTOM")[2] = c.y
         /\ Point(c, "LEFTUP")[1] = c.x /\ Point(c, "LEFTUP")[2] = c.y + Side(c)
         /\ Point(c, "RIGHTUP")[1] = c.x + Side(c) /\ Point(c, "RIGHTUP")[2] = c.y + Side(c)
BY CellParts DEF Point

\* A leaf with a corner at a hanging point is one of the two that hang there.
LEMMA CornerAtMiddle ==
  ASSUME NEW F \in BalancedForests, NEW h \in HangingEdges[F], NEW d \in F, NEW l \in Corner,
         Point(d, l) = Point(h.child[1], WhichCorner(h, 1))
  PROVE  \E i \in {1, 2} : d = h.child[i] /\ l = WhichCorner(h, i)
<1> DEFINE p == h.parent
           a == h.child[1]
           b == h.child[2]
           s == Side(a)
           t == Side(d)
<1>1. /\ p \in F /\ p \in Cells /\ a \in F /\ b \in F /\ a \in Cells /\ b \in Cells
      /\ h.face \in Face /\ d \in Cells
  BY HangingEdgeParts, BalancedForest
<1>2. \A u, v \in F : Overlap(u, v) => u = v
  BY BalancedForest
<1>3. /\ s \in Nat \ {0} /\ Side(b) = s /\ Side(p) = 2 * s
      /\ p.x \in Nat /\ p.y \in Nat /\ a.x \in Nat /\ a.y \in Nat /\ b.x \in Nat /\ b.y \in Nat
      /\ d.x \in Nat /\ d.y \in Nat /\ t \in Nat \ {0}
  BY <1>1, HangingPlace, CellParts
<1>4. /\ h.face = "LEFT" =>
           a.x + s = p.x /\ b.x + s = p.x /\ a.y = p.y /\ b.y = p.y + s
      /\ h.face = "RIGHT" =>
           a.x = p.x + 2 * s /\ b.x = p.x + 2 * s /\ a.y = p.y /\ b.y = p.y + s
      /\ h.face = "BOTTOM" =>
           a.y + s = p.y /\ b.y + s = p.y /\ a.x = p.x /\ b.x = p.x + s
      /\ h.face = "UP" =>
           a.y = p.y + 2 * s /\ b.y = p.y + 2 * s /\ a.x = p.x /\ b.x = p.x + s
  BY HangingPlace
<1>5. /\ WhichCorner(h, 1) = HighEnd[Opposite[h.face]]
      /\ WhichCorner(h, 2) = LowEnd[Opposite[h.face]]
  BY HangingTable
<1>6. Point(d, l)[1] = Point(a, WhichCorner(h, 1))[1]
      /\ Point(d, l)[2] = Point(a, WhichCorner(h, 1))[2]
  OBVIOUS
<1>7. ASSUME NEW c \in {a, d}
      PROVE  /\ Point(c, "LEFTBOTTOM")[1] = c.x /\ Point(c, "LEFTBOTTOM")[2] = c.y
             /\ Point(c, "RIGHTBOTTOM")[1] = c.x + Side(c) /\ Point(c, "RIGHTBOTTOM")[2] = c.y
             /\ Point(c, "LEFTUP")[1] = c.x /\ Point(c, "LEFTUP")[2] = c.y + Side(c)
             /\ Point(c, "RIGHTUP")[1] = c.x + Side(c) /\ Point(c, "RIGHTUP")[2] = c.y + Side(c)
  <2>1. c \in Cells
    BY <1>1
  <2> QED BY <2>1, CornersAre
<1>8. /\ Point(d, "LEFTBOTTOM")[1] = d.x /\ Point(d, "LEFTBOTTOM")[2] = d.y
      /\ Point(d, "RIGHTBOTTOM")[1] = d.x + t /\ Point(d, "RIGHTBOTTOM")[2] = d.y
      /\ Point(d, "LEFTUP")[1] = d.x /\ Point(d, "LEFTUP")[2] = d.y + t
      /\ Point(d, "RIGHTUP")[1] = d.x + t /\ Point(d, "RIGHTUP")[2] = d.y + t
      /\ Point(a, "LEFTBOTTOM")[1] = a.x /\ Point(a, "LEFTBOTTOM")[2] = a.y
      /\ Point(a, "RIGHTBOTTOM")[1] = a.x + s /\ Point(a, "RIGHTBOTTOM")[2] = a.y
      /\ Point(a, "LEFTUP")[1] = a.x /\ Point(a, "LEFTUP")[2] = a.y + s
      /\ Point(a, "RIGHTUP")[1] = a.x + s /\ Point(a, "RIGHTUP")[2] = a.y + s
  BY <1>7
<1>9. /\ Overlap(d, p) => d.x = p.x /\ d.y = p.y /\ t = 2 * s
      /\ Overlap(d, a) => d = a
      /\ Overlap(d, b) => d = b
  BY <1>1, <1>2, <1>3
<1> DEFINE in(u, lu, v, lv) == u < v + lv /\ v < u + lu
<1>10. /\ Overlap(d, p) <=> in(d.x, t, p.x, 2 * s) /\ in(d.y, t, p.y, 2 * s)
       /\ Overlap(d, a) <=> in(d.x, t, a.x, s) /\ in(d.y, t, a.y, s)
       /\ Overlap(d, b) <=> in(d.x, t, b.x, s) /\ in(d.y, t, b.y, s)
  BY <1>3 DEF Overlap, Cross
<1>11. l \in {"LEFTBOTTOM", "LEFTUP", "RIGHTUP", "RIGHTBOTTOM"}
  BY DEF Corner
<1>12. (d = a /\ l = WhichCorner(h, 1)) \/ (d = b /\ l = WhichCorner(h, 2))
  <2>1. CASE h.face = "LEFT"
    <3>1. WhichCorner(h, 1) = "RIGHTUP" /\ WhichCorner(h, 2) = "RIGHTBOTTOM"
      BY <1>5, <2>1 DEF HighEnd, LowEnd, Opposite
    <3>2. Point(d, l)[1] = p.x /\ Point(d, l)[2] = p.y + s
      BY <1>4, <1>6, <1>8, <2>1, <3>1
    <3>3. a.x + s = p.x /\ b.x + s = p.x /\ a.y = p.y /\ b.y = p.y + s
      BY <1>4, <2>1
    <3> HIDE DEF p, a, b, s, t
    <3>4. CASE l = "LEFTBOTTOM"
      BY <1>3, <1>8, <1>9, <1>10, <3>2, <3>4
    <3>5. CASE l = "LEFTUP"
      BY <1>3, <1>8, <1>9, <1>10, <3>2, <3>5
    <3>6. CASE l = "RIGHTUP"
      BY <1>3, <1>8, <1>9, <1>10, <3>1, <3>2, <3>3, <3>6
    <3>7. CASE l = "RIGHTBOTTOM"
      BY <1>3, <1>8, <1>9, <1>10, <3>1, <3>2, <3>3, <3>7
    <3> QED BY <1>11, <3>4, <3>5, <3>6, <3>7
  <2>2. CASE h.face = "RIGHT"
    <3>1. WhichCorner(h, 1) = "LEFTUP" /\ WhichCorner(h, 2) = "LEFTBOTTOM"
      BY <1>5, <2>2 DEF HighEnd, LowEnd, Opposite
    <3>2. Point(d, l)[1] = p.x + 2 * s /\ Point(d, l)[2] = p.y + s
      BY <1>4, <1>6, <1>8, <2>2, <3>1
    <3>3. a.x = p.x + 2 * s /\ b.x = p.x + 2 * s /\ a.y = p.y /\ b.y = p.y + s
      BY <1>4, <2>2
    <3> HIDE DEF p, a, b, s, t
    <3>4. CASE l = "LEFTBOTTOM"
      BY <1>3, <1>8, <1>9, <1>10, <3>1, <3>2, <3>3, <3>4
    <3>5. CASE l = "LEFTUP"
      BY <1>3, <1>8, <1>9, <1>10, <3>1, <3>2, <3>3, <3>5
    <3>6. CASE l = "RIGHTUP"
      BY <1>3, <1>8, <1>9, <1>10, <3>2, <3>6
    <3>7. CASE l = "RIGHTBOTTOM"
      BY <1>3, <1>8, <1>9, <1>10, <3>2, <3>7
    <3> QED BY <1>11, <3>4, <3>5, <3>6, <3>7
  <2>3. CASE h.face = "BOTTOM"
    <3>1. WhichCorner(h, 1) = "RIGHTUP" /\ WhichCorner(h, 2) = "LEFTUP"
      BY <1>5, <2>3 DEF HighEnd, LowEnd, Opposite
    <3>2. Point(d, l)[1] = p.x + s /\ Point(d, l)[2] = p.y
      BY <1>4, <1>6, <1>8, <2>3, <3>1
    <3>3. a.y + s = p.y /\ b.y + s = p.y /\ a.x = p.x /\ b.x = p.x + s
      BY <1>4, <2>3
    <3> HIDE DEF p, a, b, s, t
    <3>4. CASE l = "LEFTBOTTOM"
      BY <1>3, <1>8, <1>9, <1>10, <3>2, <3>4
    <3>5. CASE l = "LEFTUP"
      BY <1>3, <1>8, <1>9, <1>10, <3>1, <3>2, <3>3, <3>5
    <3>6. CASE l = "RIGHTUP"
      BY <1>3, <1>8, <1>9, <1>10, <3>1, <3>2, <3>3, <3>6
    <3>7. CASE l = "RIGHTBOTTOM"
      BY <1>3, <1>8, <1>9, <1>10, <3>2, <3>7
    <3> QED BY <1>11, <3>4, <3>5, <3>6, <3>7
  <2>4. CASE h.face = "UP"
    <3>1. WhichCorner(h, 1) = "RIGHTBOTTOM" /\ WhichCorner(h, 2) = "LEFTBOTTOM"
      BY <1>5, <2>4 DEF HighEnd, LowEnd, Opposite
    <3>2. Point(d, l)[1] = p.x + s /\ Point(d, l)[2] = p.y + 2 * s
      BY <1>4, <1>6, <1>8, <2>4, <3>1
    <3>3. a.y = p.y + 2 * s /\ b.y = p.y + 2 * s /\ a.x = p.x /\ b.x = p.x + s
      BY <1>4, <2>4
    <3> HIDE DEF p, a, b, s, t
    <3>4. CASE l = "LEFTBOTTOM"
      BY <1>3, <1>8, <1>9, <1>10, <3>1, <3>2, <3>3, <3>4
    <3>5. CASE l = "LEFTUP"
      BY <1>3, <1>8, <1>9, <1>10, <3>2, <3>5
    <3>6. CASE l = "RIGHTUP"
      BY <1>3, <1>8, <1>9, <1>10, <3>2, <3>6
    <3>7. CASE l = "RIGHTBOTTOM"
      BY <1>3, <1>8, <1>9, <1>10, <3>1, <3>2, <3>3, <3>7
    <3> QED BY <1>11, <3>4, <3>5, <3>6, <3>7
  <2> QED BY <1>1, <2>1, <2>2, <2>3, <2>4 DEF Face
<1> QED BY <1>12

\* Where corners hang: the two of one edge, at its middle.
LEMMA HangingHere ==
  ASSUME SettingOK, NEW h \in Hanging, NEW i \in {1, 2}
  PROVE  /\ ~ Regular(h.child[i], WhichCorner(h, i))
         /\ HangingAt(h.child[i], WhichCorner(h, i)) = h
         /\ Point(h.child[i], WhichCorner(h, i)) = Point(h.child[1], WhichCorner(h, 1))
         /\ Regular(h.parent, LowEnd[h.face]) /\ Regular(h.parent, HighEnd[h.face])
<1> DEFINE c == h.child[i]
           k == WhichCorner(h, i)
<1>1. forest \in BalancedForests /\ h \in HangingEdges[forest]
  BY DEF SettingOK, Hanging
<1>2. <<h, i>> \in HangsAt(c, k)
  BY <1>1 DEF HangsAt, HangingPlaces
<1>3. (CHOOSE q \in HangsAt(c, k) : TRUE) \in HangsAt(c, k)
  BY <1>2
<1>4. (CHOOSE q \in HangsAt(c, k) : TRUE) = <<h, i>>
  BY <1>1, <1>2, <1>3, OneHangingPlace DEF HangsAt
<1>5. HangingAt(c, k) = h /\ ~ Regular(c, k)
  <2>1. HangingAt(c, k) = <<h, i>>[1]
    BY <1>4 DEF HangingAt
  <2>2. ~ Regular(c, k)
    BY <1>2 DEF Regular
  <2> QED BY <2>1, <2>2
<1>6. Point(h.child[2], WhichCorner(h, 2)) = Point(h.child[1], WhichCorner(h, 1))
  BY <1>1, HangingPoints
<1>7. Point(c, k) = Point(h.child[1], WhichCorner(h, 1))
  BY <1>6
<1>8. Regular(h.parent, LowEnd[h.face]) /\ Regular(h.parent, HighEnd[h.face])
  BY <1>1, EndsDoNotHang DEF Regular, HangsAt
<1> QED BY <1>5, <1>7, <1>8

\* Of the corners at one point all are regular or all hang on one edge.
LEMMA OneWayAtPoint ==
  ASSUME SettingOK, NEW c \in forest, NEW d \in forest, NEW k \in Corner, NEW l \in Corner,
         Point(c, k) = Point(d, l)
  PROVE  /\ Regular(c, k) <=> Regular(d, l)
         /\ ~ Regular(c, k) => HangingAt(c, k) = HangingAt(d, l)
<1>1. ASSUME NEW a \in forest, NEW b \in forest, NEW i \in Corner, NEW j \in Corner,
             Point(a, i) = Point(b, j), ~ Regular(a, i)
      PROVE  ~ Regular(b, j) /\ HangingAt(b, j) = HangingAt(a, i)
  <2>1. PICK q \in HangsAt(a, i) : TRUE
    BY <1>1 DEF Regular
  <2> DEFINE h == q[1]
             m == q[2]
  <2>2. h \in Hanging /\ m \in {1, 2} /\ h.child[m] = a /\ WhichCorner(h, m) = i
    BY <2>1, HangsAtParts
  <2> HIDE DEF h, m
  <2>3. HangingAt(a, i) = h /\ Point(a, i) = Point(h.child[1], WhichCorner(h, 1))
    BY <2>2, HangingHere
  <2>4. forest \in BalancedForests /\ h \in HangingEdges[forest]
    BY <2>2 DEF SettingOK, Hanging
  <2>5. Point(b, j) = Point(h.child[1], WhichCorner(h, 1))
    BY <1>1, <2>3
  <2>6. PICK e \in {1, 2} : b = h.child[e] /\ j = WhichCorner(h, e)
    BY <2>4, <2>5, CornerAtMiddle
  <2>7. ~ Regular(b, j) /\ HangingAt(b, j) = h
    BY <2>2, <2>6, HangingHere
  <2> QED BY <2>3, <2>7
<1>2. ASSUME ~ Regular(c, k)
      PROVE  ~ Regular(d, l) /\ HangingAt(c, k) = HangingAt(d, l)
  BY <1>1, <1>2
<1>3. ASSUME ~ Regular(d, l)
      PROVE  ~ Regular(c, k)
  <2>1. Point(d, l) = Point(c, k)
    OBVIOUS
  <2> QED BY <1>1, <1>3, <2>1
<1> QED BY <1>2, <1>3

-----------------------------------------------------------------------------
(* Where the corners are, and how they move. *)

Gathering == {"boundary", "geometry", "amr", "master", "corners", "points"}
Solved == {"edges", "hanging"}
AllSolved == {"forces", "coordinates"}
Moved == {"density", "momentum", "accept", "accepted"}

\* No corner has moved.
AtRest == \A c \in forest : \A k \in Corner : node[c][k].cur = Point(c, k) /\ Lag(c, k) = Point(c, k)
\* No point has its boundary halves.
NoBouns == \A c \in forest : \A k \in Corner : point[c][k].bouns = <<>>
\* Corners at one point that do not hang have one equation, ...
OneEquation ==
  \A c, d \in forest : \A k, l \in Corner :
    Regular(c, k) /\ Regular(d, l) /\ Point(c, k) = Point(d, l) => point[c][k] = point[d][l]
\* ... and one velocity, ...
OneVelocity ==
  \A c, d \in forest : \A k, l \in Corner :
    Regular(c, k) /\ Regular(d, l) /\ Point(c, k) = Point(d, l) =>
      node[c][k].velocity = node[d][l].velocity
\* ... as all corners at a point have.
OneVelocityAtAll ==
  \A c, d \in forest : \A k, l \in Corner :
    Point(c, k) = Point(d, l) => node[c][k].velocity = node[d][l].velocity
\* A hanging corner has the velocity of the middle of its edge.
MiddleVelocity ==
  \A h \in Hanging : node[h.child[1]][WhichCorner(h, 1)].velocity = HangingVelocity(h)

PlaceInv ==
  /\ phase \notin Moved => AtRest
  /\ phase \in Gathering => NoBouns
  /\ phase = "velocity" => OneEquation
  /\ phase \in Solved => OneVelocity
  /\ phase \in AllSolved => OneVelocityAtAll /\ MiddleVelocity
  /\ phase \in Moved => Joined /\ Middles

\* All corners are at rest in the beginning.
LEMMA InitPlaceInv == Init => PlaceInv
<1> SUFFICES ASSUME Init PROVE PlaceInv
  OBVIOUS
<1>1. /\ phase = "boundary"
      /\ node = [c \in forest |-> [k \in Corner |->
                   [cur |-> Point(c, k), lag |-> Point(c, k), velocity |-> Zero,
                    matrix |-> NoMatrix, rhs |-> Zero, force |-> Zero, flux |-> Zero]]]
      /\ point = [c \in forest |-> [k \in Corner |->
                    [matrix |-> NoMatrix, rhs |-> Zero, bouns |-> <<>>]]]
  BY DEF Init
<1>2. AtRest /\ NoBouns
  BY <1>1 DEF AtRest, NoBouns, Lag
<1> QED BY <1>1, <1>2 DEF PlaceInv, Gathering, Solved, AllSolved, Moved

\* A step that leaves the places of all corners.
LEMMA PlacesStay ==
  ASSUME forest' = forest, AtRest,
         \A c \in forest : \A k \in Corner :
           node'[c][k].cur = node[c][k].cur /\ node'[c][k].lag = node[c][k].lag
  PROVE  AtRest'
BY DEF AtRest, Lag

\* They are while equations are gathered.
LEMMA CornersStay ==
  ASSUME PlaceInv, setting' = setting, node' = node, point' = point,
         phase \in Gathering, phase' \in Gathering
  PROVE  PlaceInv'
<1>1. forest' = forest /\ phase \notin Moved
  BY Same DEF Gathering, Moved
<1>2. AtRest /\ NoBouns
  BY <1>1 DEF PlaceInv
<1>3. AtRest' /\ NoBouns'
  BY <1>1, <1>2 DEF AtRest, NoBouns, Lag
<1> QED BY <1>3 DEF PlaceInv, Gathering, Solved, AllSolved, Moved

\* The corner equations move no corner.
LEMMA AssembleCornersPlaces ==
  ASSUME IInv, PlaceInv, AssembleCorners
  PROVE  PlaceInv'
<1>1. /\ phase = "corners" /\ phase' = "points" /\ setting' = setting /\ point' = point
      /\ node' = [c \in forest |-> [k \in Corner |->
           LET m == CornerMatrix(c, k)
           IN  [node[c][k] EXCEPT
                  !.flux = Zero, !.matrix = m,
                  !.rhs = Plus(Scaled(cell[c].cur.pressure, PushOfHalves(c, k)),
                               MatrixDotVector(m, cell[c].cur.velocity))]]]
  BY DEF AssembleCorners, Step
<1>2. forest' = forest /\ AtRest /\ NoBouns /\ NodeOK
  BY <1>1, Same DEF PlaceInv, Gathering, Moved, IInv, TypeOK
<1>3. ASSUME NEW c \in forest, NEW k \in Corner
      PROVE  node'[c][k].cur = node[c][k].cur /\ node'[c][k].lag = node[c][k].lag
  <2> DEFINE m == CornerMatrix(c, k)
             r == Plus(Scaled(cell[c].cur.pressure, PushOfHalves(c, k)),
                       MatrixDotVector(m, cell[c].cur.velocity))
  <2>1. node'[c][k] = [node[c][k] EXCEPT !.flux = Zero, !.matrix = m, !.rhs = r]
    BY <1>1
  <2>2. node[c][k] \in NodeRecord
    BY <1>2, NodeRecordParts
  <2> HIDE DEF m, r
  <2> QED BY <2>1, <2>2 DEF NodeRecord
<1>4. AtRest' /\ NoBouns'
  BY <1>1, <1>2, <1>3, PlacesStay DEF NoBouns
<1> QED BY <1>1, <1>4 DEF PlaceInv, Gathering, Solved, AllSolved, Moved

\* The sums at a point do not tell the corners there apart.
LEMMA AssemblePointsPlaces ==
  ASSUME PlaceInv, AssemblePoints
  PROVE  PlaceInv'
<1>1. /\ phase = "points" /\ phase' = "velocity" /\ setting' = setting /\ node' = node
      /\ point' = [c \in forest |-> [k \in Corner |->
                     IF Regular(c, k) THEN PointAt(c, k) ELSE point[c][k]]]
  BY DEF AssemblePoints, Step
<1>2. /\ forest' = forest /\ AtRest /\ NoBouns
      /\ \A c, k : Regular(c, k)' = Regular(c, k)
  BY <1>1, Same DEF PlaceInv, Gathering, Moved
<1>3. AtRest'
  BY <1>1, <1>2 DEF AtRest, Lag
<1>4. ASSUME NEW c \in forest, NEW d \in forest, NEW k \in Corner, NEW l \in Corner,
             Regular(c, k), Regular(d, l), Point(c, k) = Point(d, l)
      PROVE  point'[c][k] = point'[d][l]
  <2>1. point'[c][k] = PointAt(c, k) /\ point'[d][l] = PointAt(d, l)
    BY <1>1, <1>4
  <2>2. point[c][k].bouns = point[d][l].bouns
    BY <1>2 DEF NoBouns
  <2>3. PointAt(c, k) = PointAt(d, l)
    BY <1>4, <2>2, PointAtIs
  <2> QED BY <2>1, <2>3
<1>5. OneEquation'
  BY <1>2, <1>4 DEF OneEquation
<1> QED BY <1>1, <1>3, <1>5 DEF PlaceInv, Gathering, Solved, AllSolved, Moved

\* The corners at a point that do not hang are solved to one velocity.
LEMMA SolveCornersPlaces ==
  ASSUME IInv, PlaceInv, SolveCorners
  PROVE  PlaceInv'
<1>1. /\ phase = "velocity" /\ phase' = "edges" /\ setting' = setting
      /\ node' = [c \in forest |-> [k \in Corner |->
           [node[c][k] EXCEPT !.velocity =
              IF Regular(c, k) THEN CornerVelocity(c, k) ELSE node[c][k].velocity]]]
  BY DEF SolveCorners, Step
<1>2. /\ forest' = forest /\ AtRest /\ OneEquation /\ NodeOK
      /\ \A c, k : Regular(c, k)' = Regular(c, k)
  BY <1>1, Same DEF PlaceInv, Moved, IInv, TypeOK
<1>3. ASSUME NEW c \in forest, NEW k \in Corner
      PROVE  /\ node'[c][k].cur = node[c][k].cur /\ node'[c][k].lag = node[c][k].lag
             /\ Regular(c, k) => node'[c][k].velocity = CornerVelocity(c, k)
  <2> DEFINE u == IF Regular(c, k) THEN CornerVelocity(c, k) ELSE node[c][k].velocity
  <2>1. node'[c][k] = [node[c][k] EXCEPT !.velocity = u] /\ node[c][k] \in NodeRecord
    BY <1>1, <1>2, NodeRecordParts
  <2>2. Regular(c, k) => u = CornerVelocity(c, k)
    OBVIOUS
  <2> HIDE DEF u
  <2> QED BY <2>1, <2>2 DEF NodeRecord
<1>4. AtRest'
  BY <1>2, <1>3, PlacesStay
<1>5. ASSUME NEW c \in forest, NEW d \in forest, NEW k \in Corner, NEW l \in Corner,
             Regular(c, k), Regular(d, l), Point(c, k) = Point(d, l)
      PROVE  node'[c][k].velocity = node'[d][l].velocity
  <2>1. point[c][k] = point[d][l]
    BY <1>2, <1>5 DEF OneEquation
  <2>2. CornerVelocity(c, k) = CornerVelocity(d, l)
    BY <1>5, <2>1 DEF CornerVelocity
  <2> QED BY <1>3, <1>5, <2>2
<1>6. OneVelocity'
  BY <1>2, <1>5 DEF OneVelocity
<1> QED BY <1>1, <1>4, <1>6 DEF PlaceInv, Gathering, Solved, AllSolved, Moved

\* The edges' equations leave these velocities.
LEMMA AssembleEdgesPlaces ==
  ASSUME PlaceInv, AssembleEdges
  PROVE  PlaceInv'
<1>1. phase = "edges" /\ phase' = "hanging" /\ setting' = setting /\ node' = node
  BY DEF AssembleEdges, Step
<1>2. /\ forest' = forest /\ AtRest /\ OneVelocity
      /\ \A c, k : Regular(c, k)' = Regular(c, k)
  BY <1>1, Same DEF PlaceInv, Moved, Solved
<1>3. AtRest' /\ OneVelocity'
  BY <1>1, <1>2 DEF AtRest, OneVelocity, Lag
<1> QED BY <1>1, <1>3 DEF PlaceInv, Gathering, Solved, AllSolved, Moved

-----------------------------------------------------------------------------
(* A hanging corner that moves as the middle of its edge stays there. *)

\* Twice the middle of two places is their sum.
LEMMA TwiceMiddle ==
  ASSUME NEW u \in Int \X Int, NEW v \in Int \X Int, NEW j \in {1, 2}
  PROVE  Congruent(2 * Middle(u, v)[j], u[j] + v[j])
<1> DEFINE w == Plus(u, v)
           h == Half(1)
           r == Reciprocal(2)
<1>1. /\ u[j] \in Int /\ v[j] \in Int /\ DOMAIN u = {1, 2} /\ r \in Int
  BY PairIs, TwoHasHalf, ResidueIsInt
<1>2. DOMAIN w = {1, 2} /\ w[j] = u[j] \oplus v[j]
  BY <1>1 DEF Plus
<1>3. Middle(u, v) = Scaled(h, w)
  BY DEF Middle
<1>4. Congruent(h, 1 * r) /\ Congruent(2 * r, 1)
  <2>1. (2 * r) % Modulus = 1 /\ 1 \in Int /\ 1 % Modulus = 1
    BY TwoHasHalf, UnitType, ResidueIsNumber
  <2>2. Congruent(h, 1 * r)
    BY <2>1, CongruentNumbers, CongruentHalf
  <2> HIDE DEF r
  <2>3. 2 * r \in Int
    BY <1>1
  <2> QED BY <2>1, <2>2, <2>3 DEF Congruent
<1> HIDE DEF w, h, r
<1>5. Middle(u, v)[j] = h \otimes w[j]
  BY <1>2, <1>3 DEF Scaled
<1>6. Congruent(w[j], u[j] + v[j])
  BY <1>1, <1>2, CongruentNumbers, CongruentResidues
<1> DEFINE s == u[j] + v[j]
           x == Middle(u, v)[j]
<1>7. s \in Int
  BY <1>1
<1>8. Congruent(x, (1 * r) * s)
  BY <1>4, <1>5, <1>6, CongruentResidues
<1> HIDE DEF s, x
<1>9. Congruent(2 * x, 2 * ((1 * r) * s))
  BY <1>8, CongruentNumbers, CongruentProducts
<1>10. 2 * ((1 * r) * s) = (2 * r) * s
  BY <1>1, <1>7
<1>11. Congruent((2 * r) * s, 1 * s)
  BY <1>4, <1>7, CongruentNumbers, CongruentProducts
<1>12. 1 * s = s
  BY <1>7
<1>13. Congruent(2 * x, s)
  BY <1>9, <1>10, <1>11, <1>12, CongruentNumbers
<1> QED BY <1>13 DEF s, x

\* Where a corner at rest goes with a velocity.
Went(p, v) == Plus(Middle(p, p), Scaled(TimeStep, v))
\* It goes by time step times velocity.
LEMMA WentTo ==
  ASSUME NEW p \in Int \X Int, NEW v \in Vector, NEW j \in {1, 2}
  PROVE  /\ Went(p, v) \in Int \X Int
         /\ Congruent(Went(p, v)[j], p[j] + TimeStep * v[j])
         /\ p[j] \in Int /\ v[j] \in Int /\ TimeStep \in Int
<1> DEFINE m == Middle(p, p)
           w == Scaled(TimeStep, v)
<1>1. p[j] \in Int /\ v[j] \in Int /\ DOMAIN v = {1, 2} /\ TimeStep \in Int
  BY PairIs, VectorParts, UnitType, NumbersAssumption
<1>2. m \in Vector /\ w \in Vector
  BY <1>1, MiddleType, VectorIsPair, VectorType
<1>3. Congruent(2 * m[j], p[j] + p[j])
  BY TwiceMiddle
<1>4. Congruent(w[j], TimeStep * v[j])
  <2>1. w[j] = TimeStep \otimes v[j]
    BY <1>1 DEF Scaled
  <2> QED BY <1>1, <2>1, CongruentNumbers, CongruentResidues
<1> HIDE DEF m, w
<1>5. m[j] \in Int /\ w[j] \in Int /\ DOMAIN m = {1, 2}
  BY <1>2, VectorParts
<1>6. Congruent(m[j], p[j])
  <2> DEFINE x == m[j]
             y == p[j]
  <2>1. x \in Int /\ y \in Int /\ Congruent(2 * x, y + y)
    BY <1>1, <1>3, <1>5
  <2> HIDE DEF x, y
  <2>2. Congruent(y + y, y + y)
    BY <2>1, CongruentNumbers
  <2>3. Congruent(2 * x - (y + y), (y + y) - (y + y))
    BY <2>1, <2>2, CongruentSums
  <2>4. 2 * x - (y + y) = (x - y) + (x - y) /\ (y + y) - (y + y) = 0 /\ x - y \in Int
    BY <2>1
  <2>5. Congruent(x - y, 0)
    BY <2>3, <2>4, TwiceNone
  <2>6. Congruent((x - y) + y, 0 + y)
    <3>1. Congruent(y, y)
      BY <2>1, CongruentNumbers
    <3> QED BY <2>5, <3>1, CongruentSums
  <2>7. (x - y) + y = x /\ 0 + y = y
    BY <2>1
  <2>8. Congruent(x, y)
    BY <2>6, <2>7
  <2> QED BY <2>8 DEF x, y
<1>7. Went(p, v) = Plus(m, w)
  BY DEF Went, m, w
<1>8. Plus(m, w)[j] = m[j] \oplus w[j] /\ Plus(m, w) \in Vector
  <2>1. Plus(m, w)[j] = m[j] \oplus w[j]
    BY <1>5 DEF Plus
  <2> QED BY <1>2, <2>1, VectorIsPair, VectorType
<1>9. Congruent(m[j] \oplus w[j], m[j] + w[j])
  BY <1>5, CongruentNumbers, CongruentResidues
<1>10. Congruent(m[j] + w[j], p[j] + TimeStep * v[j])
  BY <1>4, <1>6, CongruentSums
<1>11. Congruent(Went(p, v)[j], p[j] + TimeStep * v[j])
  BY <1>7, <1>8, <1>9, <1>10, CongruentNumbers
<1>12. Went(p, v) \in Int \X Int
  BY <1>7, <1>8, VectorIsPair
<1> QED BY <1>1, <1>11, <1>12

\* The middle of two places, with the middle of their velocities, stays in the
\* middle.
LEMMA MiddleWent ==
  ASSUME NEW p \in Int \X Int, NEW low \in Int \X Int, NEW high \in Int \X Int,
         NEW u \in Vector, NEW v \in Vector, NEW j \in {1, 2}, 2 * p[j] = low[j] + high[j]
  PROVE  Congruent(2 * Went(p, Middle(u, v))[j], Went(low, u)[j] + Went(high, v)[j])
<1> DEFINE m == Middle(u, v)
           q == Went(p, m)[j]
           a == Went(low, u)[j]
           b == Went(high, v)[j]
           t == TimeStep
           x == p[j]
           y == low[j]
           z == high[j]
           e == u[j]
           f == v[j]
           g == m[j]
<1>1. m \in Vector
  BY VectorIsPair, MiddleType
<1>2. Congruent(2 * g, e + f)
  BY TwiceMiddle, VectorIsPair
<1>3. /\ Congruent(q, x + t * g) /\ Congruent(a, y + t * e) /\ Congruent(b, z + t * f)
      /\ x \in Int /\ y \in Int /\ z \in Int /\ e \in Int /\ f \in Int /\ g \in Int /\ t \in Int
  BY <1>1, WentTo
<1>4. 2 * x = y + z
  OBVIOUS
<1> HIDE DEF m, q, a, b, t, x, y, z, e, f, g
<1>5. Congruent(2 * q, 2 * (x + t * g))
  <2>1. 2 \in Int
    OBVIOUS
  <2>2. Congruent(2, 2)
    BY <2>1, CongruentNumbers
  <2> QED BY <1>3, <2>2, CongruentProducts
<1>6. 2 * (x + t * g) = (y + z) + t * (2 * g)
  <2> DEFINE w == t * g
  <2>1. w \in Int /\ t * (2 * g) = 2 * w
    BY <1>3
  <2> HIDE DEF w
  <2>2. 2 * (x + w) = (y + z) + 2 * w
    BY <1>3, <1>4, <2>1
  <2> QED BY <2>1, <2>2 DEF w
<1>7. Congruent(t * (2 * g), t * (e + f)) /\ Congruent(y + z, y + z)
  <2>1. y + z \in Int
    BY <1>3
  <2>2. Congruent(y + z, y + z) /\ Congruent(t, t)
    BY <1>3, <2>1, CongruentNumbers
  <2>3. Congruent(t * (2 * g), t * (e + f))
    BY <1>2, <2>2, CongruentProducts
  <2> QED BY <2>2, <2>3
<1>8. Congruent(2 * q, (y + z) + t * (e + f))
  <2>1. Congruent((y + z) + t * (2 * g), (y + z) + t * (e + f))
    BY <1>7, CongruentSums
  <2> QED BY <1>5, <1>6, <2>1, CongruentNumbers
<1>9. Congruent(a + b, (y + t * e) + (z + t * f))
  BY <1>3, CongruentSums
<1>10. (y + t * e) + (z + t * f) = (y + z) + t * (e + f)
  <2> DEFINE k == t * e
             l == t * f
  <2>1. k \in Int /\ l \in Int /\ t * (e + f) = k + l
    BY <1>3
  <2> HIDE DEF k, l
  <2>2. (y + k) + (z + l) = (y + z) + (k + l)
    BY <1>3, <2>1
  <2> QED BY <2>1, <2>2 DEF k, l
<1>11. Congruent(2 * q, a + b)
  BY <1>8, <1>9, <1>10, CongruentNumbers
<1> QED BY <1>11 DEF q, a, b, m

-----------------------------------------------------------------------------
(* The steps after the corners are solved. *)

\* The corners at a hanging point get the velocity of the middle of one edge.
LEMMA SolveHangingPlaces ==
  ASSUME IInv, PlaceInv, SolveHanging
  PROVE  PlaceInv'
<1>1. /\ phase = "hanging" /\ phase' = "forces" /\ setting' = setting
      /\ node' = [c \in forest |-> [k \in Corner |->
           IF Regular(c, k) THEN node[c][k]
           ELSE LET h == (CHOOSE q \in HangsAt(c, k) : TRUE)[1]
                IN  [node[c][k] EXCEPT !.velocity = HangingVelocity(h), !.flux = Flux(h, c)]]]
  BY DEF SolveHanging, Step
<1>2. /\ forest' = forest /\ Hanging' = Hanging /\ AtRest /\ OneVelocity /\ NodeOK /\ SettingOK
  BY <1>1, Same DEF PlaceInv, Moved, Solved, IInv, TypeOK
<1>3. ASSUME NEW c \in forest, NEW k \in Corner
      PROVE  /\ node'[c][k].cur = node[c][k].cur /\ node'[c][k].lag = node[c][k].lag
             /\ node'[c][k].velocity =
                  IF Regular(c, k) THEN node[c][k].velocity ELSE HangingVelocity(HangingAt(c, k))
  <2>1. CASE Regular(c, k)
    BY <1>1, <2>1
  <2>2. CASE ~ Regular(c, k)
    <3> DEFINE u == HangingVelocity(HangingAt(c, k))
               x == Flux(HangingAt(c, k), c)
    <3>1. node'[c][k] = [node[c][k] EXCEPT !.velocity = u, !.flux = x]
      BY <1>1, <2>2 DEF HangingAt
    <3>2. node[c][k] \in NodeRecord
      BY <1>2, NodeRecordParts
    <3>3. u = HangingVelocity(HangingAt(c, k))
      OBVIOUS
    <3> HIDE DEF u, x
    <3>4. node'[c][k].cur = node[c][k].cur /\ node'[c][k].lag = node[c][k].lag
          /\ node'[c][k].velocity = u
      BY <3>1, <3>2 DEF NodeRecord
    <3> QED BY <2>2, <3>3, <3>4
  <2> QED BY <2>1, <2>2
<1>4. AtRest'
  BY <1>2, <1>3, PlacesStay
<1>5. OneVelocityAtAll'
  <2> SUFFICES ASSUME NEW c \in forest, NEW d \in forest, NEW k \in Corner, NEW l \in Corner,
                      Point(c, k) = Point(d, l)
               PROVE  node'[c][k].velocity = node'[d][l].velocity
    BY <1>2 DEF OneVelocityAtAll
  <2>1. /\ Regular(c, k) <=> Regular(d, l)
        /\ ~ Regular(c, k) => HangingAt(c, k) = HangingAt(d, l)
    BY <1>2, OneWayAtPoint
  <2>2. CASE Regular(c, k)
    <3>1. node[c][k].velocity = node[d][l].velocity
      BY <1>2, <2>1, <2>2 DEF OneVelocity
    <3> QED BY <1>3, <2>1, <2>2, <3>1
  <2>3. CASE ~ Regular(c, k)
    BY <1>3, <2>1, <2>3
  <2> QED BY <2>2, <2>3
<1>6. MiddleVelocity'
  <2> SUFFICES ASSUME NEW h \in Hanging
               PROVE  node'[h.child[1]][WhichCorner(h, 1)].velocity = HangingVelocity(h)'
    BY <1>2 DEF MiddleVelocity
  <2>1. /\ h.parent \in forest /\ LowEnd[h.face] \in Corner /\ HighEnd[h.face] \in Corner
        /\ h.child[1] \in forest /\ WhichCorner(h, 1) \in Corner
    BY <1>2, HangingParts
  <2>2. /\ ~ Regular(h.child[1], WhichCorner(h, 1))
        /\ HangingAt(h.child[1], WhichCorner(h, 1)) = h
        /\ Regular(h.parent, LowEnd[h.face]) /\ Regular(h.parent, HighEnd[h.face])
    <3>1. 1 \in {1, 2}
      OBVIOUS
    <3> QED BY <1>2, <3>1, HangingHere
  <2>3. node'[h.child[1]][WhichCorner(h, 1)].velocity = HangingVelocity(h)
    BY <1>3, <2>1, <2>2
  <2>4. /\ node'[h.parent][LowEnd[h.face]].velocity = node[h.parent][LowEnd[h.face]].velocity
        /\ node'[h.parent][HighEnd[h.face]].velocity = node[h.parent][HighEnd[h.face]].velocity
    BY <1>3, <2>1, <2>2
  <2>5. HangingVelocity(h)' = HangingVelocity(h)
    BY <2>4 DEF HangingVelocity
  <2> QED BY <2>3, <2>5
<1> QED BY <1>1, <1>4, <1>5, <1>6 DEF PlaceInv, Gathering, Solved, AllSolved, Moved

\* The forces leave the velocities.
LEMMA ComputeForcesPlaces ==
  ASSUME IInv, PlaceInv, ComputeForces
  PROVE  PlaceInv'
<1>1. /\ phase = "forces" /\ phase' = "coordinates" /\ setting' = setting
      /\ node' = [c \in forest |-> [k \in Corner |->
           [node[c][k] EXCEPT !.force =
              ForceOn(c, PushOfHalves(c, k), node[c][k].matrix, node[c][k].velocity)]]]
  BY DEF ComputeForces, Step
<1>2. /\ forest' = forest /\ Hanging' = Hanging /\ NodeOK /\ SettingOK
      /\ AtRest /\ OneVelocityAtAll /\ MiddleVelocity
  BY <1>1, Same DEF PlaceInv, Moved, AllSolved, IInv, TypeOK
<1>3. ASSUME NEW c \in forest, NEW k \in Corner
      PROVE  /\ node'[c][k].cur = node[c][k].cur /\ node'[c][k].lag = node[c][k].lag
             /\ node'[c][k].velocity = node[c][k].velocity
  <2> DEFINE x == ForceOn(c, PushOfHalves(c, k), node[c][k].matrix, node[c][k].velocity)
  <2>1. node'[c][k] = [node[c][k] EXCEPT !.force = x] /\ node[c][k] \in NodeRecord
    BY <1>1, <1>2, NodeRecordParts
  <2> HIDE DEF x
  <2> QED BY <2>1 DEF NodeRecord
<1>4. AtRest'
  BY <1>2, <1>3, PlacesStay
<1>5. OneVelocityAtAll'
  BY <1>2, <1>3 DEF OneVelocityAtAll
<1>6. MiddleVelocity'
  <2> SUFFICES ASSUME NEW h \in Hanging
               PROVE  node'[h.child[1]][WhichCorner(h, 1)].velocity = HangingVelocity(h)'
    BY <1>2 DEF MiddleVelocity
  <2>1. /\ h.parent \in forest /\ LowEnd[h.face] \in Corner /\ HighEnd[h.face] \in Corner
        /\ h.child[1] \in forest /\ WhichCorner(h, 1) \in Corner
    BY <1>2, HangingParts
  <2>2. HangingVelocity(h)' = HangingVelocity(h)
    BY <1>3, <2>1 DEF HangingVelocity
  <2>3. node[h.child[1]][WhichCorner(h, 1)].velocity = HangingVelocity(h)
    BY <1>2 DEF MiddleVelocity
  <2> QED BY <1>3, <2>1, <2>2, <2>3
<1> QED BY <1>1, <1>4, <1>5, <1>6 DEF PlaceInv, Gathering, Solved, AllSolved, Moved

\* The corners at a point go to one place, hanging ones to the middle.
LEMMA MoveCornersPlaces ==
  ASSUME IInv, PlaceInv, MoveCorners
  PROVE  PlaceInv'
<1>1. /\ phase = "coordinates" /\ phase' = "density" /\ setting' = setting
      /\ node' = [c \in forest |-> [k \in Corner |-> [node[c][k] EXCEPT !.lag =
           Plus(Middle(node[c][k].cur, node[c][k].lag),
                Scaled(TimeStep, node[c][k].velocity))]]]
  BY DEF MoveCorners, Step
<1>2. /\ forest' = forest /\ Hanging' = Hanging /\ NodeOK /\ SettingOK
      /\ AtRest /\ OneVelocityAtAll /\ MiddleVelocity
  BY <1>1, Same DEF PlaceInv, Moved, AllSolved, IInv, TypeOK
<1>3. ASSUME NEW c \in forest, NEW k \in Corner
      PROVE  Lag(c, k)' = Went(Point(c, k), node[c][k].velocity)
  <2> DEFINE x == Plus(Middle(node[c][k].cur, node[c][k].lag),
                       Scaled(TimeStep, node[c][k].velocity))
  <2>1. node'[c][k] = [node[c][k] EXCEPT !.lag = x] /\ node[c][k] \in NodeRecord
    BY <1>1, <1>2, NodeRecordParts
  <2>2. x = Went(Point(c, k), node[c][k].velocity)
    BY <1>2 DEF AtRest, Lag, Went
  <2> HIDE DEF x
  <2>3. node'[c][k].lag = x
    BY <2>1 DEF NodeRecord
  <2> QED BY <2>2, <2>3 DEF Lag
<1>4. Joined'
  <2> SUFFICES ASSUME NEW c \in forest, NEW d \in forest, NEW k \in Corner, NEW l \in Corner,
                      Point(c, k) = Point(d, l)
               PROVE  Lag(c, k)' = Lag(d, l)'
    BY <1>2 DEF Joined
  <2>1. node[c][k].velocity = node[d][l].velocity
    BY <1>2 DEF OneVelocityAtAll
  <2> QED BY <1>3, <2>1
<1>5. Middles'
  <2> SUFFICES ASSUME NEW h \in Hanging, NEW j \in {1, 2}
               PROVE  Congruent(2 * Lag(h.child[1], WhichCorner(h, 1))'[j],
                        Lag(h.parent, LowEnd[h.face])'[j] + Lag(h.parent, HighEnd[h.face])'[j])
    BY <1>2 DEF Middles
  <2> DEFINE p == Point(h.child[1], WhichCorner(h, 1))
             low == Point(h.parent, LowEnd[h.face])
             high == Point(h.parent, HighEnd[h.face])
             u == node[h.parent][LowEnd[h.face]].velocity
             v == node[h.parent][HighEnd[h.face]].velocity
             s == Side(h.child[1])
  <2>1. /\ h.parent \in forest /\ LowEnd[h.face] \in Corner /\ HighEnd[h.face] \in Corner
        /\ h.child[1] \in forest /\ WhichCorner(h, 1) \in Corner /\ h.face \in Face
    BY <1>2, HangingParts
  <2>2. u \in Vector /\ v \in Vector
    BY <1>2, <2>1, NodeRecordParts
  <2>3. /\ Lag(h.child[1], WhichCorner(h, 1))' = Went(p, Middle(u, v))
        /\ Lag(h.parent, LowEnd[h.face])' = Went(low, u)
        /\ Lag(h.parent, HighEnd[h.face])' = Went(high, v)
    BY <1>2, <1>3, <2>1 DEF MiddleVelocity, HangingVelocity
  <2>4. p \in Int \X Int /\ low \in Int \X Int /\ high \in Int \X Int
    <3>1. forest \subseteq Cells
      BY <1>2, BalancedForest DEF SettingOK
    <3> QED BY <2>1, <3>1, PointIsPlace
  <2>5. 2 * p[j] = low[j] + high[j]
    <3>1. /\ s \in Nat \ {0} /\ p[1] \in Nat /\ p[2] \in Nat
          /\ h.face \in {"LEFT", "RIGHT"} => low = <<p[1], p[2] - s>> /\ high = <<p[1], p[2] + s>>
          /\ h.face \in {"BOTTOM", "UP"} => low = <<p[1] - s, p[2]>> /\ high = <<p[1] + s, p[2]>>
      BY <1>2, HangingPoints DEF SettingOK, Hanging
    <3> HIDE DEF p, low, high, s
    <3>2. CASE h.face \in {"LEFT", "RIGHT"}
      BY <3>1, <3>2
    <3>3. CASE h.face \in {"BOTTOM", "UP"}
      BY <3>1, <3>3
    <3> QED BY <2>1, <3>2, <3>3 DEF Face
  <2> HIDE DEF p, low, high, u, v, s
  <2>6. Congruent(2 * Went(p, Middle(u, v))[j], Went(low, u)[j] + Went(high, v)[j])
    BY <2>2, <2>4, <2>5, MiddleWent
  <2> QED BY <2>3, <2>6
<1> QED BY <1>1, <1>4, <1>5 DEF PlaceInv, Gathering, Solved, AllSolved, Moved

\* The steps after that leave the new places.
LEMMA LagsStay ==
  ASSUME PlaceInv, setting' = setting, phase \in Moved, phase' \in Moved,
         \A c \in forest : \A k \in Corner : node'[c][k].lag = node[c][k].lag, SettingOK
  PROVE  PlaceInv'
<1>1. forest' = forest /\ Hanging' = Hanging /\ Joined /\ Middles
  BY Same DEF PlaceInv
<1>2. \A c \in forest : \A k \in Corner : Lag(c, k)' = Lag(c, k)
  BY DEF Lag
<1>3. Joined'
  BY <1>1, <1>2 DEF Joined
<1>4. Middles'
  <2> SUFFICES ASSUME NEW h \in Hanging, NEW j \in {1, 2}
               PROVE  Congruent(2 * Lag(h.child[1], WhichCorner(h, 1))'[j],
                        Lag(h.parent, LowEnd[h.face])'[j] + Lag(h.parent, HighEnd[h.face])'[j])
    BY <1>1 DEF Middles
  <2>1. /\ h.parent \in forest /\ LowEnd[h.face] \in Corner /\ HighEnd[h.face] \in Corner
        /\ h.child[1] \in forest /\ WhichCorner(h, 1) \in Corner
    BY HangingParts
  <2>2. Congruent(2 * Lag(h.child[1], WhichCorner(h, 1))[j],
                  Lag(h.parent, LowEnd[h.face])[j] + Lag(h.parent, HighEnd[h.face])[j])
    BY <1>1 DEF Middles
  <2> QED BY <1>2, <2>1, <2>2
<1> QED BY <1>3, <1>4 DEF PlaceInv, Gathering, Solved, AllSolved, Moved

\* Every step of a stage keeps the invariant of the places.
LEMMA NextPlaceInv ==
  ASSUME IInv, PlaceInv, [Next]_vars
  PROVE  PlaceInv'
<1>1. NodeOK /\ SettingOK
  BY DEF IInv, TypeOK
<1>2. ASSUME setting' = setting, node' = node, point' = point, phase \in Gathering,
             phase' \in Gathering
      PROVE  PlaceInv'
  BY <1>2, CornersStay
<1>3. ASSUME setting' = setting, node' = node, phase \in Moved, phase' \in Moved
      PROVE  PlaceInv'
  BY <1>1, <1>3, LagsStay
<1>4. CASE GetBoundary
  BY <1>2, <1>4 DEF GetBoundary, Step, Gathering
<1>5. CASE HalfCorner
  BY <1>2, <1>5 DEF HalfCorner, Step, Gathering
<1>6. CASE GetAMRBoundary
  BY <1>2, <1>6 DEF GetAMRBoundary, Step, Gathering
<1>7. CASE WriteMasters
  BY <1>2, <1>7 DEF WriteMasters, Step, Gathering
<1>8. CASE AssembleCorners
  BY <1>8, AssembleCornersPlaces
<1>9. CASE AssemblePoints
  BY <1>9, AssemblePointsPlaces
<1>10. CASE SolveCorners
  BY <1>10, SolveCornersPlaces
<1>11. CASE AssembleEdges
  BY <1>11, AssembleEdgesPlaces
<1>12. CASE SolveHanging
  BY <1>12, SolveHangingPlaces
<1>13. CASE ComputeForces
  BY <1>13, ComputeForcesPlaces
<1>14. CASE MoveCorners
  BY <1>14, MoveCornersPlaces
<1>15. CASE UpdateDensity
  BY <1>3, <1>15 DEF UpdateDensity, Step, Moved
<1>16. CASE UpdateCells
  BY <1>3, <1>16 DEF UpdateCells, Step, Moved
<1>17. CASE Accept
  <2>1. /\ setting' = setting /\ phase = "accept" /\ phase' = "accepted"
        /\ node' = [c \in forest |-> [k \in Corner |->
             [node[c][k] EXCEPT !.cur = node[c][k].lag]]]
    BY <1>17 DEF Accept, Step
  <2>2. ASSUME NEW c \in forest, NEW k \in Corner
        PROVE  node'[c][k].lag = node[c][k].lag
    <3>1. node'[c][k] = [node[c][k] EXCEPT !.cur = node[c][k].lag] /\ node[c][k] \in NodeRecord
      BY <1>1, <2>1, NodeRecordParts
    <3> QED BY <3>1 DEF NodeRecord
  <2> QED BY <1>1, <2>1, <2>2, LagsStay DEF Moved
<1>18. CASE UNCHANGED vars
  <2>1. /\ setting' = setting /\ node' = node /\ point' = point /\ phase' = phase
    BY <1>18 DEF vars, setting
  <2>2. /\ forest' = forest /\ Hanging' = Hanging
        /\ \A c, k : Regular(c, k)' = Regular(c, k)
    BY <2>1, Same
  <2>3. CASE phase \in Moved
    BY <1>3, <2>1, <2>3
  <2>4. CASE phase \notin Moved
    <3>1. AtRest
      BY <2>4 DEF PlaceInv
    <3>2. AtRest'
      BY <2>1, <2>2, <3>1 DEF AtRest, Lag
    <3>3. phase \in Gathering => NoBouns'
      BY <2>1, <2>2 DEF PlaceInv, NoBouns
    <3>4. phase = "velocity" => OneEquation'
      BY <2>1, <2>2 DEF PlaceInv, OneEquation
    <3>5. phase \in Solved => OneVelocity'
      BY <2>1, <2>2 DEF PlaceInv, OneVelocity
    <3>6. phase \in AllSolved => OneVelocityAtAll' /\ MiddleVelocity'
      <4>1. \A h : HangingVelocity(h)' = HangingVelocity(h)
        BY <2>1 DEF HangingVelocity
      <4> QED BY <2>1, <2>2, <4>1 DEF PlaceInv, OneVelocityAtAll, MiddleVelocity
    <3> QED BY <2>1, <2>4, <3>2, <3>3, <3>4, <3>5, <3>6
            DEF PlaceInv, Gathering, Solved, AllSolved, Moved
  <2> QED BY <2>3, <2>4
<1> QED
  BY <1>4, <1>5, <1>6, <1>7, <1>8, <1>9, <1>10, <1>11, <1>12, <1>13, <1>14, <1>15,
     <1>16, <1>17, <1>18 DEF Next

\* The new leaves cover what lies within their outer edges, each part once: all
\* corners at a point have gone one way, and a hanging corner the way of the
\* middle of its edge, so that no leaf leaves a gap to another or covers it.
THEOREM MeshAlwaysWhole == Spec => []MeshStaysWhole
<1>1. Init => IInv /\ PlaceInv
  BY InitIInv, InitPlaceInv
<1>2. IInv /\ PlaceInv /\ [Next]_vars => IInv' /\ PlaceInv'
  BY NextIInv, NextPlaceInv
<1>3. IInv /\ PlaceInv => MeshStaysWhole
  <2> SUFFICES ASSUME IInv, PlaceInv, phase \in Moved
               PROVE  Total(Volume, forest) =
                        Total(LAMBDA q : Swept(q[1], q[2]),
                              {q \in forest \X Face : AtBoundary(q[1], q[2])})
    <3>1. IInv => phase \in Phases
      BY DEF IInv, TypeOK
    <3> QED BY <3>1, SinceIs DEF MeshStaysWhole, Moved
  <2>1. SettingOK /\ NodeOK
    BY DEF IInv, TypeOK
  <2>2. Joined /\ Middles
    BY DEF PlaceInv
  <2>3. LagsOK
    <3> SUFFICES ASSUME NEW c \in forest, NEW k \in Corner
                 PROVE  Lag(c, k) \in Int \X Int
      BY DEF LagsOK
    <3>1. node[c][k] \in NodeRecord
      BY <2>1, NodeRecordParts
    <3> QED BY <3>1 DEF NodeRecord, Lag
  <2> QED BY <2>1, <2>2, <2>3, WholeMesh
<1> QED BY <1>1, <1>2, <1>3, PTL DEF Spec
=============================================================================
