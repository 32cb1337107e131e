--------------------- MODULE CornerStage_balance_proofs ---------------------
(***************************************************************************)
(* As long as the solver divides by nothing that is zero, the forces of    *)
(* the leaves around a point add up to nothing but what a wall gives back, *)
(* and a stage keeps the total energy of all leaves.                       *)
(*                                                                         *)
(* The velocity of a point solves the sum of the equations there, and what *)
(* is left at a hanging point is shared by three leaves (ForceInv).        *)
(* Forces that meet at a point with one velocity do no work there, and a   *)
(* sum by leaves is a sum by points (KeptInv).                             *)
(***************************************************************************)
EXTENDS CornerStage_proofs
-----------------------------------------------------------------------------
(* Equations of vectors, component by component. *)

\* Component i of a matrix times a vector, of integers.
Row(m, u, i) == IF i = 1 THEN m[1] * u[1] + m[2] * u[2] ELSE m[3] * u[1] + m[4] * u[2]

\* A row is that of the product.
LEMMA RowIs ==
  ASSUME NEW m \in Matrix, NEW u \in Int \X Int, NEW i \in {1, 2}
  PROVE  Row(m, u, i) \in Int /\ Congruent(MatrixDotVector(m, u)[i], Row(m, u, i))
<1>1. /\ u[1] \in Int /\ u[2] \in Int
      /\ m[1] \in Int /\ m[2] \in Int /\ m[3] \in Int /\ m[4] \in Int
  BY MatrixParts, PairIs
<1>2. /\ Congruent(u[1], u[1]) /\ Congruent(u[2], u[2])
      /\ Congruent(m[1], m[1]) /\ Congruent(m[2], m[2])
      /\ Congruent(m[3], m[3]) /\ Congruent(m[4], m[4])
  BY <1>1, CongruentNumbers
<1>3. /\ Congruent(m[1] \otimes u[1], m[1] * u[1]) /\ Congruent(m[2] \otimes u[2], m[2] * u[2])
      /\ Congruent(m[3] \otimes u[1], m[3] * u[1]) /\ Congruent(m[4] \otimes u[2], m[4] * u[2])
  BY <1>2, CongruentResidues
<1>4. /\ Congruent((m[1] \otimes u[1]) \oplus (m[2] \otimes u[2]), m[1] * u[1] + m[2] * u[2])
      /\ Congruent((m[3] \otimes u[1]) \oplus (m[4] \otimes u[2]), m[3] * u[1] + m[4] * u[2])
  BY <1>3, CongruentResidues
<1>5. Congruent(MatrixDotVector(m, u)[i], Row(m, u, i))
  <2>1. CASE i = 1
    BY <1>4, <2>1 DEF MatrixDotVector, Row
  <2>2. CASE i = 2
    BY <1>4, <2>2 DEF MatrixDotVector, Row
  <2> QED BY <2>1, <2>2
<1> QED BY <1>5 DEF Congruent

\* Sums, differences and multiples of vectors, by components.
LEMMA ComponentsAre ==
  ASSUME NEW u \in Int \X Int, NEW v \in Int \X Int, NEW a \in Int, NEW i \in {1, 2}
  PROVE  /\ u[i] \in Int /\ v[i] \in Int
         /\ Congruent(Plus(u, v)[i], u[i] + v[i]) /\ Congruent(Minus(u, v)[i], u[i] - v[i])
         /\ Congruent(Scaled(a, u)[i], a * u[i])
<1>1. u[i] \in Int /\ v[i] \in Int /\ DOMAIN u = {1, 2}
  BY PairIs
<1>2. /\ Plus(u, v)[i] = u[i] \oplus v[i] /\ Minus(u, v)[i] = u[i] \ominus v[i]
      /\ Scaled(a, u)[i] = a \otimes u[i]
  BY <1>1 DEF Plus, Minus, Scaled
<1>3. Congruent(u[i], u[i]) /\ Congruent(v[i], v[i]) /\ Congruent(a, a)
  BY <1>1, CongruentNumbers
<1> QED BY <1>1, <1>2, <1>3, CongruentResidues

\* A row is linear in its vector.
LEMMA RowOfSum ==
  ASSUME NEW m \in Matrix, NEW u \in Int \X Int, NEW v \in Int \X Int, NEW a \in Int,
         NEW w \in Int \X Int, \A j \in {1, 2} : Congruent(w[j], u[j] + a * v[j]), NEW i \in {1, 2}
  PROVE  Congruent(Row(m, w, i), Row(m, u, i) + a * Row(m, v, i))
<1> DEFINE x == IF i = 1 THEN m[1] ELSE m[3]
           y == IF i = 1 THEN m[2] ELSE m[4]
<1>1. /\ x \in Int /\ y \in Int /\ u[1] \in Int /\ u[2] \in Int /\ v[1] \in Int /\ v[2] \in Int
  BY MatrixParts, PairIs
<1>2. /\ Row(m, w, i) = x * w[1] + y * w[2]
      /\ Row(m, u, i) = x * u[1] + y * u[2] /\ Row(m, v, i) = x * v[1] + y * v[2]
  BY DEF Row
<1> HIDE DEF x, y
<1>3. Congruent(w[1], u[1] + a * v[1]) /\ Congruent(w[2], u[2] + a * v[2])
  OBVIOUS
<1>4. Congruent(x, x) /\ Congruent(y, y)
  BY <1>1, CongruentNumbers
<1>5. /\ Congruent(x * w[1], x * (u[1] + a * v[1])) /\ Congruent(y * w[2], y * (u[2] + a * v[2]))
  BY <1>3, <1>4, CongruentProducts
<1>6. Congruent(x * w[1] + y * w[2], x * (u[1] + a * v[1]) + y * (u[2] + a * v[2]))
  BY <1>5, CongruentSums
<1> DEFINE b == u[1]
           c == u[2]
           d == v[1]
           e == v[2]
<1>7. x * (b + a * d) + y * (c + a * e) = (x * b + y * c) + a * (x * d + y * e)
  <2>1. b \in Int /\ c \in Int /\ d \in Int /\ e \in Int
    BY <1>1
  <2> HIDE DEF b, c, d, e
  <2> DEFINE p == x * d
             q == y * e
             s == a * d
             t == a * e
  <2>2. p \in Int /\ q \in Int /\ s \in Int /\ t \in Int /\ x * b \in Int /\ y * c \in Int
    BY <1>1, <2>1
  <2>3. x * s = a * p /\ y * t = a * q
    BY <1>1, <2>1
  <2>4. a * (p + q) = a * p + a * q /\ x * (b + s) = x * b + x * s /\ y * (c + t) = y * c + y * t
    <3> HIDE DEF p, q, s, t
    <3> QED BY <1>1, <2>1, <2>2
  <2>5. x * s \in Int /\ y * t \in Int /\ a * p \in Int /\ a * q \in Int
    BY <1>1, <2>2
  <2> DEFINE k == x * b
             l == y * c
             g == a * p
             h == a * q
  <2>6. x * (b + s) + y * (c + t) = (k + l) + a * (p + q)
    <3>1. x * (b + s) = k + g /\ y * (c + t) = l + h /\ a * (p + q) = g + h
      BY <2>3, <2>4
    <3>2. k \in Int /\ l \in Int /\ g \in Int /\ h \in Int
      BY <2>2, <2>5
    <3> HIDE DEF k, l, g, h
    <3> QED BY <3>1, <3>2
  <2> QED BY <2>6
<1> QED BY <1>2, <1>6, <1>7

\* What the equation m u = r of a corner or an edge leaves open, and the force there, are one.
LEMMA ForceIsRest ==
  ASSUME CellOK, NEW c \in forest, NEW push \in Vector, NEW m \in Matrix, NEW u \in Vector,
         NEW r, r = Plus(Scaled(cell[c].cur.pressure, push),
                         MatrixDotVector(m, cell[c].cur.velocity)),
         NEW i \in {1, 2}
  PROVE  Congruent(ForceOn(c, push, m, u)[i], r[i] - Row(m, u, i)) /\ r[i] \in Int
<1> DEFINE v == cell[c].cur.velocity
           p == Scaled(cell[c].cur.pressure, push)
           d == Minus(u, v)
<1>1. /\ v \in Int \X Int /\ u \in Int \X Int /\ p \in Int \X Int
      /\ MatrixDotVector(m, v) \in Int \X Int
  BY CellRecordParts, EquationType, VectorIsPair
<1>2. r = Plus(p, MatrixDotVector(m, v)) /\ ForceOn(c, push, m, u) = Minus(p, MatrixDotVector(m, d))
  BY DEF ForceOn
<1> HIDE DEF v, p
<1>3. d \in Int \X Int
  BY <1>1, VectorType, VectorIsPair
<1>4. \A j \in {1, 2} : Congruent(d[j], u[j] + (-1) * v[j])
  <2> TAKE j \in {1, 2}
  <2>1. Congruent(d[j], u[j] - v[j]) /\ u[j] \in Int /\ v[j] \in Int
    BY <1>1, ComponentsAre
  <2>2. u[j] - v[j] = u[j] + (-1) * v[j]
    BY <2>1
  <2> QED BY <2>1, <2>2
<1> HIDE DEF d
<1>5. MatrixDotVector(m, d) \in Int \X Int
  BY <1>3, ProductType, VectorIsPair
<1>6. /\ Congruent(MatrixDotVector(m, d)[i], Row(m, d, i))
      /\ Congruent(MatrixDotVector(m, v)[i], Row(m, v, i))
      /\ Row(m, u, i) \in Int /\ Row(m, v, i) \in Int /\ Row(m, d, i) \in Int
  BY <1>1, <1>3, RowIs
<1>7. Congruent(Row(m, d, i), Row(m, u, i) + (-1) * Row(m, v, i))
  <2>1. -1 \in Int
    OBVIOUS
  <2> QED BY <1>1, <1>3, <1>4, <2>1, RowOfSum
<1>8. p[i] \in Int /\ Congruent(p[i], p[i])
  BY <1>1, PairIs, CongruentNumbers
<1> DEFINE x == p[i]
           y == Row(m, u, i)
           z == Row(m, v, i)
           f == ForceOn(c, push, m, u)[i]
<1>9. Congruent(f, x - (y + (-1) * z))
  <2>1. Congruent(Minus(p, MatrixDotVector(m, d))[i], x - MatrixDotVector(m, d)[i])
    BY <1>1, <1>5, ComponentsAre
  <2>2. Congruent(MatrixDotVector(m, d)[i], y + (-1) * z)
    BY <1>6, <1>7, CongruentNumbers
  <2>3. Congruent(x - MatrixDotVector(m, d)[i], x - (y + (-1) * z))
    BY <1>8, <2>2, CongruentSums
  <2> QED BY <1>2, <2>1, <2>3, CongruentNumbers
<1>10. Congruent(r[i], x + z)
  <2>1. Congruent(r[i], x + MatrixDotVector(m, v)[i])
    BY <1>1, <1>2, ComponentsAre
  <2>2. Congruent(x + MatrixDotVector(m, v)[i], x + z)
    BY <1>6, <1>8, CongruentSums
  <2> QED BY <2>1, <2>2, CongruentNumbers
<1>11. x \in Int /\ y \in Int /\ z \in Int
  BY <1>6, <1>8
<1> HIDE DEF x, y, z, f
<1>12. x - (y + (-1) * z) = (x + z) - y
  BY <1>11
<1>13. Congruent(r[i] - y, (x + z) - y)
  BY <1>10, <1>11, CongruentNumbers, CongruentSums
<1>14. Congruent(f, r[i] - y) /\ r[i] \in Int
  BY <1>9, <1>10, <1>12, <1>13, CongruentNumbers DEF Congruent
<1> QED BY <1>14 DEF f, y

\* G is what equations over S, with right-hand sides F, leave open at x and y.
Rests(G, F, A, B, S, x, y) ==
  \A q \in S : /\ F[q] \in Int /\ A[q] \in Int /\ B[q] \in Int
               /\ G[q] = F[q] - (A[q] * x + B[q] * y)

\* The sum of what several equations with one unknown leave open.
LEMMA SumOfRests ==
  ASSUME NEW G, NEW F, NEW A, NEW B, NEW S, IsFiniteSet(S), NEW x \in Int, NEW y \in Int,
         Rests(G, F, A, B, S, x, y)
  PROVE  SumOver(G, S) = SumOver(F, S) - (SumOver(A, S) * x + SumOver(B, S) * y)
<1> DEFINE Q == {s \in SUBSET S :
                   SumOver(G, s) = SumOver(F, s) - (SumOver(A, s) * x + SumOver(B, s) * y)}
<1>1. \A q \in S : F[q] \in Int /\ A[q] \in Int /\ B[q] \in Int /\ G[q] \in Int
  <2> TAKE q \in S
  <2>1. F[q] \in Int /\ A[q] \in Int /\ B[q] \in Int /\ G[q] = F[q] - (A[q] * x + B[q] * y)
    BY DEF Rests
  <2>2. A[q] * x \in Int /\ B[q] * y \in Int
    BY <2>1
  <2> QED BY <2>1, <2>2
<1>2. {} \in Q
  <2>1. SumOver(G, {}) = 0 /\ SumOver(F, {}) = 0 /\ SumOver(A, {}) = 0 /\ SumOver(B, {}) = 0
    BY SumOfNone
  <2>2. {} \in SUBSET S /\ 0 * x = 0 /\ 0 * y = 0 /\ 0 - (0 + 0) = 0
    OBVIOUS
  <2> QED BY <2>1, <2>2
<1>3. ASSUME NEW s \in SUBSET S, s # {}, \A z \in s : s \ {z} \in Q
      PROVE  s \in Q
  <2>1. PICK z : z \in s
    BY <1>3
  <2> DEFINE g == SumOver(G, s \ {z})
             f == SumOver(F, s \ {z})
             a == SumOver(A, s \ {z})
             b == SumOver(B, s \ {z})
  <2>2. /\ IsFiniteSet(s) /\ IsFiniteSet(s \ {z})
        /\ \A q \in s : F[q] \in Int /\ A[q] \in Int /\ B[q] \in Int /\ G[q] \in Int
    BY <1>1, FS_Subset
  <2>3. /\ SumOver(G, s) = G[z] + g /\ SumOver(F, s) = F[z] + f
        /\ SumOver(A, s) = A[z] + a /\ SumOver(B, s) = B[z] + b
    BY <2>1, <2>2, SumStep
  <2>4. f \in Int /\ a \in Int /\ b \in Int
    <3>1. \A q \in s \ {z} : F[q] \in Int /\ A[q] \in Int /\ B[q] \in Int
      BY <2>2
    <3> QED BY <2>2, <3>1, SumStep
  <2>5. s \ {z} \in Q
    BY <1>3, <2>1
  <2>6. g = f - (a * x + b * y)
    BY <2>5
  <2>7. G[z] = F[z] - (A[z] * x + B[z] * y) /\ F[z] \in Int /\ A[z] \in Int /\ B[z] \in Int
    BY <2>1 DEF Rests
  <2> HIDE DEF g, f, a, b
  <2> DEFINE d == F[z]
             e == A[z]
             h == B[z]
             m == e * x
             n == h * y
             k == a * x
             l == b * y
  <2>8. /\ (e + a) * x = m + k /\ (h + b) * y = n + l
        /\ m \in Int /\ n \in Int /\ k \in Int /\ l \in Int
    BY <2>4, <2>7
  <2>9. G[z] + g = (d - (m + n)) + (f - (k + l))
    BY <2>6, <2>7
  <2>10. d \in Int
    BY <2>7
  <2>11. G[z] + g = (d + f) - ((e + a) * x + (h + b) * y)
    <3>1. G[z] + g = (d + f) - ((m + k) + (n + l))
      <4> HIDE DEF d, e, h, m, n, k, l
      <4> QED BY <2>4, <2>8, <2>9, <2>10
    <3> QED BY <2>8, <3>1
  <2>12. SumOver(G, s) = SumOver(F, s) - (SumOver(A, s) * x + SumOver(B, s) * y)
    BY <2>3, <2>11
  <2> QED BY <2>12
<1> HIDE DEF Q
<1>4. SUBSET S \subseteq Q
  BY <1>2, <1>3, SubsetInduction
<1>5. S \in SUBSET S
  OBVIOUS
<1>6. S \in Q
  BY <1>4, <1>5
<1> QED BY <1>6 DEF Q

\* The inverse of a matrix that is not singular.
LEMMA InverseIs ==
  ASSUME NEW m \in Matrix, Determinant(m) # 0, NEW r \in Int \X Int
  PROVE  \E k \in Int :
           LET u == MatrixDotVector(MatrixInverse(m), r)
           IN  /\ Congruent((m[1] * m[4] - m[2] * m[3]) * k, 1)
               /\ Congruent(u[1], (k * m[4]) * r[1] - (k * m[2]) * r[2])
               /\ Congruent(u[2], (k * m[1]) * r[2] - (k * m[3]) * r[1])
<1> DEFINE d == Determinant(m)
           k == Reciprocal(d)
           n == <<m[4], 0 \ominus m[2], 0 \ominus m[3], m[1]>>
           v == MatrixInverse(m)
           u == MatrixDotVector(v, r)
<1>1. /\ m[1] \in Int /\ m[2] \in Int /\ m[3] \in Int /\ m[4] \in Int
      /\ m[1] \in Residue /\ m[4] \in Residue /\ r[1] \in Int /\ r[2] \in Int
  BY MatrixParts, PairIs
<1>2. /\ Congruent(m[1], m[1]) /\ Congruent(m[2], m[2]) /\ Congruent(m[3], m[3])
      /\ Congruent(m[4], m[4]) /\ Congruent(r[1], r[1]) /\ Congruent(r[2], r[2])
      /\ Congruent(0, 0)
  BY <1>1, CongruentNumbers
<1>3. Congruent(m[1] \otimes m[4], m[1] * m[4]) /\ Congruent(m[2] \otimes m[3], m[2] * m[3])
  BY <1>2, CongruentResidues
<1>4. Congruent(d, m[1] * m[4] - m[2] * m[3])
  BY <1>3, CongruentResidues DEF Determinant
<1>5. d \in Residue
  <2>1. m[1] \otimes m[4] \in Int /\ m[2] \otimes m[3] \in Int
    BY <1>3 DEF Congruent
  <2> QED BY <2>1, ResidueType DEF Determinant
<1>6. v = Scaled(k, n)
  BY DEF MatrixInverse, Determinant
<1>7. 0 \ominus m[2] \in Residue /\ 0 \ominus m[3] \in Residue
  BY <1>1, ResidueType
<1>8. n \in Matrix
  BY <1>1, <1>7 DEF Matrix
<1>9. n[1] = m[4] /\ n[2] = 0 \ominus m[2] /\ n[3] = 0 \ominus m[3] /\ n[4] = m[1]
  OBVIOUS
<1>10. k \in Int /\ d \otimes k = 1
  <2>1. k \in Residue /\ d \otimes k = 1
    BY <1>5, ReciprocalAssumption
  <2> QED BY <2>1, ResidueIsInt
<1> HIDE DEF d, k, n, v
<1>11. Congruent(k, k)
  BY <1>10, CongruentNumbers
<1>12. Congruent((m[1] * m[4] - m[2] * m[3]) * k, 1)
  <2>1. Congruent(d \otimes k, (m[1] * m[4] - m[2] * m[3]) * k)
    BY <1>4, <1>11, CongruentResidues
  <2> QED BY <1>10, <2>1, CongruentNumbers
<1>13. /\ v[1] = k \otimes m[4] /\ v[2] = k \otimes (0 \ominus m[2])
       /\ v[3] = k \otimes (0 \ominus m[3]) /\ v[4] = k \otimes m[1]
  <2>1. v = <<k \otimes n[1], k \otimes n[2], k \otimes n[3], k \otimes n[4]>>
    BY <1>6, <1>8, MatrixParts, ScaledQuad
  <2> QED BY <1>9, <2>1
<1>14. Congruent(0 \ominus m[2], 0 - m[2]) /\ Congruent(0 \ominus m[3], 0 - m[3])
  BY <1>2, CongruentResidues
<1>15. Congruent(v[1], k * m[4]) /\ Congruent(v[4], k * m[1])
  BY <1>2, <1>11, <1>13, CongruentResidues
<1>16. Congruent(v[2], k * (0 - m[2])) /\ Congruent(v[3], k * (0 - m[3]))
  BY <1>11, <1>13, <1>14, CongruentResidues
<1>17. u = <<(v[1] \otimes r[1]) \oplus (v[2] \otimes r[2]), (v[3] \otimes r[1]) \oplus (v[4] \otimes r[2])>>
  BY DEF MatrixDotVector
<1>18. /\ u[1] = (v[1] \otimes r[1]) \oplus (v[2] \otimes r[2])
       /\ u[2] = (v[3] \otimes r[1]) \oplus (v[4] \otimes r[2])
  BY <1>17
<1> HIDE DEF u
<1>19. /\ Congruent(v[1] \otimes r[1], (k * m[4]) * r[1])
       /\ Congruent(v[4] \otimes r[2], (k * m[1]) * r[2])
  BY <1>2, <1>15, CongruentResidues
<1>20. /\ Congruent(v[2] \otimes r[2], (k * (0 - m[2])) * r[2])
       /\ Congruent(v[3] \otimes r[1], (k * (0 - m[3])) * r[1])
  BY <1>2, <1>16, CongruentResidues
<1>21. /\ Congruent(u[1], (k * m[4]) * r[1] + (k * (0 - m[2])) * r[2])
       /\ Congruent(u[2], (k * (0 - m[3])) * r[1] + (k * m[1]) * r[2])
  BY <1>18, <1>19, <1>20, CongruentResidues
<1>22. \A a, b \in Int : (k * (0 - a)) * b = 0 - (k * a) * b /\ (k * a) * b \in Int
  <2> TAKE a, b \in Int
  <2>1. k * (0 - a) = 0 - k * a /\ k * a \in Int
    BY <1>10
  <2> DEFINE c == k * a
  <2> HIDE DEF c
  <2>2. c \in Int => (0 - c) * b = 0 - c * b /\ c * b \in Int
    OBVIOUS
  <2> QED BY <2>1, <2>2 DEF c
<1>23. /\ (k * m[4]) * r[1] + (k * (0 - m[2])) * r[2] = (k * m[4]) * r[1] - (k * m[2]) * r[2]
       /\ (k * (0 - m[3])) * r[1] + (k * m[1]) * r[2] = (k * m[1]) * r[2] - (k * m[3]) * r[1]
  <2> DEFINE a == (k * m[4]) * r[1]
             b == (k * m[2]) * r[2]
             c == (k * m[3]) * r[1]
             e == (k * m[1]) * r[2]
  <2>1. a \in Int /\ b \in Int /\ c \in Int /\ e \in Int
        /\ (k * (0 - m[2])) * r[2] = 0 - b /\ (k * (0 - m[3])) * r[1] = 0 - c
    BY <1>1, <1>22
  <2> HIDE DEF a, b, c, e
  <2>2. a + (0 - b) = a - b /\ (0 - c) + e = e - c
    BY <2>1
  <2> QED BY <2>1, <2>2 DEF a, b, c, e
<1> QED BY <1>10, <1>12, <1>21, <1>23 DEF u, v

\* The algebra of a solved equation: m1 u1 + m2 u2 for the solution u.
LEMMA CramersRule ==
  ASSUME NEW a \in Int, NEW b \in Int, NEW c \in Int, NEW d \in Int, NEW k \in Int,
         NEW r \in Int, NEW s \in Int
  PROVE  /\ a * ((k * d) * r - (k * b) * s) + b * ((k * a) * s - (k * c) * r)
              = ((a * d - b * c) * k) * r
         /\ c * ((k * d) * r - (k * b) * s) + d * ((k * a) * s - (k * c) * r)
              = ((a * d - b * c) * k) * s
<1> DEFINE R == k * r
           S == k * s
<1>1. /\ (k * d) * r = d * R /\ (k * b) * s = b * S /\ (k * a) * s = a * S /\ (k * c) * r = c * R
  OBVIOUS
<1>2. /\ ((a * d - b * c) * k) * r = (a * d - b * c) * R
      /\ ((a * d - b * c) * k) * s = (a * d - b * c) * S
  OBVIOUS
<1>3. R \in Int /\ S \in Int
  OBVIOUS
<1> HIDE DEF R, S
<1>4. /\ a * (d * R - b * S) = (a * d) * R - (a * b) * S
      /\ b * (a * S - c * R) = (a * b) * S - (b * c) * R
      /\ c * (d * R - b * S) = (c * d) * R - (b * c) * S
      /\ d * (a * S - c * R) = (a * d) * S - (c * d) * R
  BY <1>3
<1>5. /\ (a * d - b * c) * R = (a * d) * R - (b * c) * R
      /\ (a * d - b * c) * S = (a * d) * S - (b * c) * S
  BY <1>3
<1> DEFINE adR == (a * d) * R
           bcR == (b * c) * R
           adS == (a * d) * S
           bcS == (b * c) * S
           abS == (a * b) * S
           cdR == (c * d) * R
<1>6. adR \in Int /\ bcR \in Int /\ adS \in Int /\ bcS \in Int /\ abS \in Int /\ cdR \in Int
  BY <1>3
<1>7. (adR - abS) + (abS - bcR) = adR - bcR /\ (cdR - bcS) + (adS - cdR) = adS - bcS
  <2> HIDE DEF adR, bcR, adS, bcS, abS, cdR
  <2> QED BY <1>6
<1> QED BY <1>1, <1>2, <1>4, <1>5, <1>7

\* A matrix times its inverse times a vector is the vector.
LEMMA InverseSolves ==
  ASSUME NEW m \in Matrix, Determinant(m) # 0, NEW r \in Int \X Int, NEW i \in {1, 2}
  PROVE  Congruent(Row(m, MatrixDotVector(MatrixInverse(m), r), i), r[i])
<1> DEFINE u == MatrixDotVector(MatrixInverse(m), r)
<1>1. PICK k \in Int : /\ Congruent((m[1] * m[4] - m[2] * m[3]) * k, 1)
                       /\ Congruent(u[1], (k * m[4]) * r[1] - (k * m[2]) * r[2])
                       /\ Congruent(u[2], (k * m[1]) * r[2] - (k * m[3]) * r[1])
  BY InverseIs
<1> HIDE DEF u
<1> DEFINE a == m[1]
           b == m[2]
           c == m[3]
           d == m[4]
           x == r[1]
           y == r[2]
<1>2. a \in Int /\ b \in Int /\ c \in Int /\ d \in Int /\ x \in Int /\ y \in Int
  BY MatrixParts, PairIs
<1>3. /\ Congruent((a * d - b * c) * k, 1)
      /\ Congruent(u[1], (k * d) * x - (k * b) * y)
      /\ Congruent(u[2], (k * a) * y - (k * c) * x)
  BY <1>1
<1>4. /\ Row(m, u, 1) = a * u[1] + b * u[2]
      /\ Row(m, u, 2) = c * u[1] + d * u[2]
  BY DEF Row
<1>5. r[1] = x /\ r[2] = y
  OBVIOUS
<1> HIDE DEF a, b, c, d, x, y
<1> DEFINE e == (a * d - b * c) * k
           s == (k * d) * x - (k * b) * y
           t == (k * a) * y - (k * c) * x
<1>6. Congruent(e, 1) /\ Congruent(u[1], s) /\ Congruent(u[2], t)
  BY <1>3
<1>7. a * s + b * t = e * x /\ c * s + d * t = e * y
  BY <1>2, CramersRule
<1> HIDE DEF e, s, t
<1>8. Congruent(a, a) /\ Congruent(b, b) /\ Congruent(c, c) /\ Congruent(d, d)
      /\ Congruent(x, x) /\ Congruent(y, y)
  BY <1>2, CongruentNumbers
<1>9. /\ Congruent(a * u[1], a * s) /\ Congruent(b * u[2], b * t)
      /\ Congruent(c * u[1], c * s) /\ Congruent(d * u[2], d * t)
      /\ Congruent(e * x, 1 * x) /\ Congruent(e * y, 1 * y)
  BY <1>6, <1>8, CongruentProducts
<1>10. /\ Congruent(a * u[1] + b * u[2], a * s + b * t)
       /\ Congruent(c * u[1] + d * u[2], c * s + d * t)
  BY <1>9, CongruentSums
<1>11. 1 * x = x /\ 1 * y = y
  BY <1>2
<1>12. Congruent(Row(m, u, 1), x) /\ Congruent(Row(m, u, 2), y)
  BY <1>4, <1>7, <1>9, <1>10, <1>11, CongruentNumbers
<1> QED BY <1>5, <1>12 DEF u

-----------------------------------------------------------------------------
(* What the solver finds for a point solves its equation. *)

\* A wall forbids component i of the velocity at p.
Barred(p, i) == \E f \in Face : OnFace(p, f) /\ boundary[f] = "wall" /\ Across2(f) = i

\* The pressure of a wall leaves no velocity across it.
LEMMA WallPressure ==
  ASSUME NEW u \in Vector, NEW d \in Vector, NEW j \in {1, 2}, d[j] # 0
  PROVE  LET w == (0 \ominus u[j]) \oslash d[j]
         IN  w \in Int /\ Congruent(u[j] + w * d[j], 0)
<1> DEFINE x == u[j]
           y == d[j]
           k == Reciprocal(y)
           z == 0 \ominus x
           w == z \otimes k
<1>1. x \in Int /\ y \in Int /\ y \in Residue /\ y # 0
  BY VectorParts
<1>2. k \in Int /\ y \otimes k = 1
  <2>1. k \in Residue /\ y \otimes k = 1
    BY <1>1, ReciprocalAssumption
  <2> QED BY <2>1, ResidueIsInt
<1>3. w = (0 \ominus u[j]) \oslash d[j]
  BY DEF \oslash
<1> HIDE DEF x, y, k, z, w
<1>4. Congruent(x, x) /\ Congruent(y, y) /\ Congruent(k, k) /\ Congruent(0, 0)
  BY <1>1, <1>2, CongruentNumbers
<1>5. Congruent(y * k, 1)
  <2>1. Congruent(y \otimes k, y * k)
    BY <1>4, CongruentResidues
  <2> QED BY <1>2, <2>1, CongruentNumbers
<1>6. Congruent(z, 0 - x)
  BY <1>4, CongruentResidues DEF z
<1>7. Congruent(w, (0 - x) * k)
  BY <1>4, <1>6, CongruentResidues DEF w
<1>8. Congruent(w * y, ((0 - x) * k) * y)
  BY <1>4, <1>7, CongruentProducts
<1>9. ((0 - x) * k) * y = (0 - x) * (y * k) /\ 0 - x \in Int
  BY <1>1, <1>2
<1>10. Congruent(0 - x, 0 - x)
  BY <1>9, CongruentNumbers
<1>11. Congruent((0 - x) * (y * k), (0 - x) * 1)
  BY <1>5, <1>10, CongruentProducts
<1>12. Congruent(w * y, (0 - x) * 1)
  BY <1>8, <1>9, <1>11, CongruentNumbers
<1>13. Congruent(x + w * y, x + (0 - x) * 1)
  BY <1>4, <1>12, CongruentSums
<1>14. x + (0 - x) * 1 = 0
  BY <1>1
<1>15. w \in Int /\ Congruent(x + w * y, 0)
  BY <1>7, <1>13, <1>14 DEF Congruent
<1> QED BY <1>3, <1>15 DEF x, y

\* A velocity along a wall solves the equation, but for what the wall takes.
LEMMA AlongWallSolves ==
  ASSUME NEW wall \in HalfRecord, NEW f \in Face, wall.normal = Outward[f],
         NEW m \in Matrix, Determinant(m) # 0, NEW r \in Vector,
         Yield(m, wall)[NormalTo(wall)] # 0, NEW i \in {1, 2}, i # Across2(f)
  PROVE  LET inverse == MatrixInverse(m)
         IN  Congruent(Row(m, AlongWall(wall, MatrixDotVector(inverse, r), inverse), i), r[i])
<1> DEFINE inverse == MatrixInverse(m)
           j == NormalTo(wall)
           d == Yield(m, wall)
           u == MatrixDotVector(inverse, r)
           w == (0 \ominus u[j]) \oslash d[j]
           s == Plus(u, Scaled(w, d))
           v == AlongWall(wall, u, inverse)
<1>1. wall.length \in Int /\ wall.normal \in Vector /\ wall.normal \in Int \X Int
  BY ResidueIsInt, VectorIsPair DEF HalfRecord
<1>2. Push(wall) \in Int \X Int
  BY <1>1, VectorType, VectorIsPair DEF Push
<1>3. inverse \in Matrix /\ r \in Int \X Int
  BY InverseType, VectorIsPair
<1>4. u \in Vector /\ d \in Vector
  BY <1>2, <1>3, ProductType DEF Yield
<1>5. j = Across2(f) /\ j \in {1, 2}
  <2>1. Outward[f][Across2(f)] # 0 /\ Outward[f][3 - Across2(f)] = 0
    BY OutwardType
  <2>2. Across2(f) = 1 \/ Across2(f) = 2
    BY DEF Across2
  <2>3. 3 - 1 = 2 /\ 3 - 2 = 1
    OBVIOUS
  <2> QED BY <2>1, <2>2, <2>3 DEF NormalTo
<1>6. d[j] # 0
  OBVIOUS
<1>7. v = [s EXCEPT ![j] = 0]
  BY <1>6 DEF AlongWall, NormalTo, Yield
<1> HIDE DEF u, d, j, v, inverse
<1>8. w \in Int /\ Congruent(u[j] + w * d[j], 0)
  BY <1>4, <1>5, <1>6, WallPressure
<1> HIDE DEF w
<1>9. u \in Int \X Int /\ d \in Int \X Int
  BY <1>4, VectorIsPair
<1>10. Scaled(w, d) \in Int \X Int
  BY <1>8, <1>9, VectorType, VectorIsPair
<1>11. s \in Vector
  BY <1>9, <1>10, VectorType
<1>12. ASSUME NEW q \in {1, 2}
       PROVE  Congruent(s[q], u[q] + w * d[q])
  <2>1. Congruent(s[q], u[q] + Scaled(w, d)[q]) /\ Congruent(Scaled(w, d)[q], w * d[q])
        /\ u[q] \in Int
    BY <1>8, <1>9, <1>10, ComponentsAre
  <2>2. Congruent(u[q], u[q])
    BY <2>1, CongruentNumbers
  <2>3. Congruent(u[q] + Scaled(w, d)[q], u[q] + w * d[q])
    BY <2>1, <2>2, CongruentSums
  <2> QED BY <2>1, <2>3, CongruentNumbers
<1> HIDE DEF s
<1>13. s = <<s[1], s[2]>> /\ s[1] \in Int /\ s[2] \in Int /\ DOMAIN s = {1, 2}
  BY <1>11, VectorParts
<1>14. v = [q \in {1, 2} |-> v[q]] /\ v[j] = 0 /\ \A q \in {1, 2} : q # j => v[q] = s[q]
  BY <1>5, <1>7, <1>13
<1>15. v \in Int \X Int
  <2>1. v = <<v[1], v[2]>>
    BY <1>14, PairByParts
  <2>2. v[1] \in Int /\ v[2] \in Int
    BY <1>5, <1>13, <1>14
  <2> QED BY <2>1, <2>2
<1>16. \A q \in {1, 2} : Congruent(v[q], u[q] + w * d[q])
  <2> TAKE q \in {1, 2}
  <2>1. CASE q = j
    BY <1>8, <1>14, <2>1, CongruentNumbers
  <2>2. CASE q # j
    BY <1>12, <1>14, <2>2
  <2> QED BY <2>1, <2>2
<1>17. Congruent(Row(m, v, i), Row(m, u, i) + w * Row(m, d, i))
  BY <1>8, <1>9, <1>15, <1>16, RowOfSum
<1>18. Congruent(Row(m, u, i), r[i]) /\ Congruent(Row(m, d, i), Push(wall)[i])
  BY <1>2, <1>3, InverseSolves DEF u, d, Yield, inverse
<1>19. Push(wall)[i] = 0
  <2>1. Outward[f][3 - Across2(f)] = 0
    BY OutwardType
  <2>2. 3 - 1 = 2 /\ 3 - 2 = 1
    OBVIOUS
  <2>3. i = 3 - Across2(f)
    BY <1>5, <2>2
  <2>4. wall.normal[i] = 0
    BY <2>1, <2>3
  <2>5. Push(wall)[i] = wall.length \otimes wall.normal[i]
    BY <1>1, PairIs DEF Push, Scaled
  <2>6. wall.length * 0 = 0 /\ 0 % Modulus = 0
    BY <1>1, UnitType, ResidueIsNumber
  <2> QED BY <2>4, <2>5, <2>6 DEF \otimes
<1>20. Congruent(w * Row(m, d, i), w * 0)
  <2>1. Congruent(w, w)
    BY <1>8, CongruentNumbers
  <2> QED BY <1>18, <1>19, <2>1, CongruentProducts
<1>21. Congruent(Row(m, u, i) + w * Row(m, d, i), r[i] + w * 0)
  BY <1>18, <1>20, CongruentSums
<1>22. r[i] + w * 0 = r[i]
  BY <1>3, <1>8, PairIs
<1>23. Congruent(Row(m, v, i), r[i])
  BY <1>17, <1>21, <1>22, CongruentNumbers
<1> QED BY <1>23 DEF v, u, inverse

\* A normal is parallel to itself.
LEMMA NoCross ==
  ASSUME NEW n \in Vector
  PROVE  Cross2(n, n) = 0
<1> DEFINE x == n[1]
           y == n[2]
<1>1. x \in Int /\ y \in Int
  BY VectorParts
<1> HIDE DEF x, y
<1>2. x * y = y * x
  BY <1>1
<1>3. x \otimes y = y \otimes x /\ x \otimes y \in Residue
  BY <1>1, <1>2, ResidueType DEF \otimes
<1> DEFINE z == x \otimes y
<1>4. z \in Int
  BY <1>3, ResidueIsInt
<1> HIDE DEF z
<1>5. z - z = 0 /\ 0 % Modulus = 0
  BY <1>4, UnitType, ResidueIsNumber
<1>6. z \ominus z = 0
  BY <1>5 DEF \ominus
<1> QED BY <1>3, <1>6 DEF Cross2, x, y, z

\* What the solver finds for a boundary point solves its equation, but for
\* what the walls there take.
LEMMA BoundaryVelocitySolves ==
  ASSUME SettingOK, NEW p, NEW bs, NEW f \in Face, NEW g \in Face, TwoBounds(p, bs, f, g),
         NEW m \in Matrix, NEW r \in Vector, Determinant(m) # 0,
         \A i \in {1, 2} : bs[i].boundary = "wall" => Yield(m, bs[i])[NormalTo(bs[i])] # 0,
         NEW i \in {1, 2}
  PROVE  \/ Congruent(Row(m, BoundaryVelocity(bs[1], bs[2], MatrixInverse(m), r), i), r[i])
         \/ Barred(p, i)
<1> DEFINE a == bs[1]
           b == bs[2]
           inverse == MatrixInverse(m)
           u == MatrixDotVector(inverse, r)
           v == BoundaryVelocity(a, b, inverse, r)
<1>1. /\ a \in HalfRecord /\ b \in HalfRecord
      /\ a.boundary = boundary[f] /\ a.normal = Outward[f]
      /\ b.boundary = boundary[g] /\ b.normal = Outward[g]
      /\ \A j \in Face : OnFace(p, j) <=> j = f \/ j = g
      /\ f = g \/ Across2(f) # Across2(g)
  BY DEF TwoBounds
<1>2. boundary[f] \in {"wall", "free"} /\ boundary[g] \in {"wall", "free"}
  BY DEF SettingOK, BoundaryType
<1>3. v = CASE a.boundary = "free" /\ b.boundary = "free" -> u
            [] a.boundary = "wall" /\ b.boundary = "free" -> AlongWall(a, u, inverse)
            [] a.boundary = "free" /\ b.boundary = "wall" -> AlongWall(b, u, inverse)
            [] a.boundary = "wall" /\ b.boundary = "wall" ->
                 IF Cross2(a.normal, b.normal) = 0 THEN AlongWall(a, u, inverse) ELSE Zero
  BY DEF BoundaryVelocity
<1>4. Congruent(Row(m, u, i), r[i])
  BY VectorIsPair, InverseSolves
<1>5. boundary[f] = "wall" /\ i # Across2(f) =>
        Congruent(Row(m, AlongWall(a, u, inverse), i), r[i])
  BY <1>1, AlongWallSolves
<1>6. boundary[g] = "wall" /\ i # Across2(g) =>
        Congruent(Row(m, AlongWall(b, u, inverse), i), r[i])
  BY <1>1, AlongWallSolves
<1>7. /\ boundary[f] = "wall" /\ i = Across2(f) => Barred(p, i)
      /\ boundary[g] = "wall" /\ i = Across2(g) => Barred(p, i)
  BY <1>1 DEF Barred
<1>8. f = g => Cross2(a.normal, b.normal) = 0
  <2>1. a.normal \in Vector
    BY <1>1 DEF HalfRecord
  <2> QED BY <1>1, <2>1, NoCross
<1> HIDE DEF a, b, u, v, inverse
<1>9. Congruent(Row(m, v, i), r[i]) \/ Barred(p, i)
  <2>1. CASE boundary[f] = "free" /\ boundary[g] = "free"
    BY <1>1, <1>3, <1>4, <2>1
  <2>2. CASE boundary[f] = "wall" /\ boundary[g] = "free"
    <3>1. v = AlongWall(a, u, inverse)
      BY <1>1, <1>3, <2>2
    <3> QED BY <1>5, <1>7, <2>2, <3>1
  <2>3. CASE boundary[f] = "free" /\ boundary[g] = "wall"
    <3>1. v = AlongWall(b, u, inverse)
      BY <1>1, <1>3, <2>3
    <3> QED BY <1>6, <1>7, <2>3, <3>1
  <2>4. CASE boundary[f] = "wall" /\ boundary[g] = "wall"
    <3>1. v = IF Cross2(a.normal, b.normal) = 0 THEN AlongWall(a, u, inverse) ELSE Zero
      BY <1>1, <1>3, <2>4
    <3>2. CASE Cross2(a.normal, b.normal) = 0
      BY <1>5, <1>7, <2>4, <3>1, <3>2
    <3>3. CASE Cross2(a.normal, b.normal) # 0
      <4>1. Across2(f) # Across2(g) /\ Across2(f) \in {1, 2} /\ Across2(g) \in {1, 2}
        BY <1>1, <1>8, <3>3 DEF Across2
      <4> QED BY <1>7, <2>4, <4>1
    <3> QED BY <3>2, <3>3
  <2> QED BY <1>2, <2>1, <2>2, <2>3, <2>4
<1> QED BY <1>9 DEF v, a, b, inverse

\* The velocity of a corner that does not hang solves the equation of its
\* point, but for what the walls there take.
LEMMA CornerSolved ==
  ASSUME TypeOK, HalvesInv, BounsInv, NothingSingular, phase = "velocity",
         NEW c \in forest, NEW k \in Corner, Regular(c, k), NEW i \in {1, 2}
  PROVE  \/ Congruent(Row(point[c][k].matrix, CornerVelocity(c, k), i), point[c][k].rhs[i])
         \/ Barred(Point(c, k), i)
<1> DEFINE p == Point(c, k)
           e == point[c][k]
           inverse == MatrixInverse(e.matrix)
<1>1. e.matrix \in Matrix /\ e.rhs \in Vector /\ SettingOK
  BY PointRecordParts DEF TypeOK
<1>2. EquationRegular(e)
  <2>1. <<c, k>> \in Corners /\ <<c, k>>[1] = c /\ <<c, k>>[2] = k
    BY DEF Corners
  <2> QED BY <2>1 DEF NothingSingular
<1>3. CornerVelocity(c, k) =
        IF IsBoundary(p) THEN BoundaryVelocity(e.bouns[1], e.bouns[2], inverse, e.rhs)
        ELSE MatrixDotVector(inverse, e.rhs)
  BY DEF CornerVelocity
<1>4. IsBoundary(p) <=> OnBoundary(p)
  BY IsBoundaryIs
<1>5. CASE OnBoundary(p)
  <2>1. PICK f \in Face, g \in Face : TwoBounds(p, e.bouns, f, g)
    BY <1>5 DEF BounsInv, Early
  <2> DEFINE bs == e.bouns
             m == e.matrix
             r == e.rhs
  <2>2. DOMAIN bs = {1, 2}
    <3>1. bs \in HalfRecord \X HalfRecord
      BY <2>1 DEF TwoBounds
    <3> HIDE DEF bs
    <3> QED BY <3>1, PairIs
  <2>3. TwoBounds(p, bs, f, g) /\ m \in Matrix /\ r \in Vector /\ Determinant(m) # 0
        /\ \A j \in {1, 2} : bs[j].boundary = "wall" => Yield(m, bs[j])[NormalTo(bs[j])] # 0
    BY <1>1, <1>2, <2>1, <2>2 DEF EquationRegular
  <2>4. CornerVelocity(c, k) = BoundaryVelocity(bs[1], bs[2], MatrixInverse(m), r)
    BY <1>3, <1>4, <1>5
  <2> HIDE DEF bs, m, r, p
  <2>5. \/ Congruent(Row(m, BoundaryVelocity(bs[1], bs[2], MatrixInverse(m), r), i), r[i])
        \/ Barred(p, i)
    BY <1>1, <2>3, BoundaryVelocitySolves
  <2> QED BY <2>4, <2>5 DEF m, r, p
<1>6. CASE ~ OnBoundary(p)
  <2>1. CornerVelocity(c, k) = MatrixDotVector(inverse, e.rhs)
    BY <1>3, <1>4, <1>6
  <2>2. Determinant(e.matrix) # 0
    BY <1>2 DEF EquationRegular
  <2> HIDE DEF e
  <2>3. Congruent(Row(e.matrix, MatrixDotVector(inverse, e.rhs), i), e.rhs[i])
    BY <1>1, <2>2, VectorIsPair, InverseSolves
  <2> QED BY <2>1, <2>3 DEF e
<1> QED BY <1>5, <1>6

-----------------------------------------------------------------------------
(* What the equations of corners leave open at one velocity. *)

\* The sum of matrices and of right-hand sides, by components.
LEMMA SumsByParts ==
  ASSUME NodeOK, NEW S, S \subseteq Corners, IsFiniteSet(S), NEW i \in {1, 2}, NEW u \in Int \X Int
  PROVE  LET m == MatrixSum(CornerMatrices(S), S)
             r == VectorSum(CornerSides(S), S)
             x(j) == SumOver([q \in S |-> node[q[1]][q[2]].matrix[j]], S)
             y == SumOver([q \in S |-> node[q[1]][q[2]].rhs[i]], S)
         IN  /\ Congruent(r[i], y)
             /\ Congruent(Row(m, u, i), IF i = 1 THEN x(1) * u[1] + x(2) * u[2]
                                        ELSE x(3) * u[1] + x(4) * u[2])
<1> DEFINE F == CornerMatrices(S)
           G == CornerSides(S)
           m == MatrixSum(F, S)
           r == VectorSum(G, S)
           X(j) == [q \in S |-> node[q[1]][q[2]].matrix[j]]
           Y(j) == [q \in S |-> node[q[1]][q[2]].rhs[j]]
<1>1. ASSUME NEW q \in S
      PROVE  /\ node[q[1]][q[2]].matrix \in Matrix /\ node[q[1]][q[2]].rhs \in Vector
  <2>1. q[1] \in forest /\ q[2] \in Corner
    BY DEF Corners
  <2> QED BY <2>1, NodeRecordParts
<1>2. \A j : [q \in S |-> F[q][j]] = X(j) /\ [q \in S |-> G[q][j]] = Y(j)
  BY DEF CornerMatrices, CornerSides
<1>3. /\ m = <<SumOver(X(1), S) % Modulus, SumOver(X(2), S) % Modulus,
               SumOver(X(3), S) % Modulus, SumOver(X(4), S) % Modulus>>
      /\ r = <<SumOver(Y(1), S) % Modulus, SumOver(Y(2), S) % Modulus>>
  <2> HIDE DEF F, G, X, Y
  <2> QED BY <1>2 DEF MatrixSum, VectorSum, Part
<1>4. ASSUME NEW j \in {1, 2, 3, 4}
      PROVE  Congruent(SumOver(X(j), S) % Modulus, SumOver(X(j), S))
  <2>1. \A q \in S : X(j)[q] \in Int
    BY <1>1, MatrixParts
  <2> HIDE DEF X
  <2>2. SumOver(X(j), S) \in Int
    BY <2>1, SumStep
  <2>3. SumOver(X(j), S) % Modulus \in Residue
    BY <2>2, ResidueOf
  <2> QED BY <2>2, <2>3, ResidueIsNumber DEF Congruent
<1>5. ASSUME NEW j \in {1, 2}
      PROVE  Congruent(SumOver(Y(j), S) % Modulus, SumOver(Y(j), S))
  <2>1. \A q \in S : Y(j)[q] \in Int
    BY <1>1, VectorParts
  <2> HIDE DEF Y
  <2>2. SumOver(Y(j), S) \in Int
    BY <2>1, SumStep
  <2>3. SumOver(Y(j), S) % Modulus \in Residue
    BY <2>2, ResidueOf
  <2> QED BY <2>2, <2>3, ResidueIsNumber DEF Congruent
<1> DEFINE x(j) == SumOver(X(j), S)
<1>6. /\ Congruent(m[1], x(1)) /\ Congruent(m[2], x(2))
      /\ Congruent(m[3], x(3)) /\ Congruent(m[4], x(4))
      /\ Congruent(r[i], SumOver(Y(i), S))
  <2> HIDE DEF X, Y
  <2> QED BY <1>3, <1>4, <1>5
<1>7. Congruent(u[1], u[1]) /\ Congruent(u[2], u[2])
  BY PairIs, CongruentNumbers
<1> HIDE DEF m, r, x
<1>8. /\ Congruent(m[1] * u[1], x(1) * u[1]) /\ Congruent(m[2] * u[2], x(2) * u[2])
      /\ Congruent(m[3] * u[1], x(3) * u[1]) /\ Congruent(m[4] * u[2], x(4) * u[2])
  BY <1>6, <1>7, CongruentProducts
<1>9. /\ Congruent(m[1] * u[1] + m[2] * u[2], x(1) * u[1] + x(2) * u[2])
      /\ Congruent(m[3] * u[1] + m[4] * u[2], x(3) * u[1] + x(4) * u[2])
  BY <1>8, CongruentSums
<1>10. Congruent(Row(m, u, i), IF i = 1 THEN x(1) * u[1] + x(2) * u[2]
                                ELSE x(3) * u[1] + x(4) * u[2])
  BY <1>9 DEF Row
<1> QED BY <1>6, <1>10 DEF m, r, x

\* What the equations of corners leave open at one velocity is what the sum of
\* the equations leaves open.
LEMMA RestsAtOneVelocity ==
  ASSUME NodeOK, NEW S, S \subseteq Corners, IsFiniteSet(S), NEW i \in {1, 2},
         NEW u \in Int \X Int, NEW G,
         \A q \in S : G[q] = node[q[1]][q[2]].rhs[i] - Row(node[q[1]][q[2]].matrix, u, i)
  PROVE  Congruent(SumOver(G, S), VectorSum(CornerSides(S), S)[i]
                                    - Row(MatrixSum(CornerMatrices(S), S), u, i))
<1> DEFINE X(j) == [q \in S |-> node[q[1]][q[2]].matrix[j]]
           Y == [q \in S |-> node[q[1]][q[2]].rhs[i]]
           A == IF i = 1 THEN X(1) ELSE X(3)
           B == IF i = 1 THEN X(2) ELSE X(4)
           r == VectorSum(CornerSides(S), S)[i]
           w == Row(MatrixSum(CornerMatrices(S), S), u, i)
           x == u[1]
           y == u[2]
<1>1. x \in Int /\ y \in Int
  BY PairIs
<1>2. ASSUME NEW q \in S
      PROVE  /\ Y[q] \in Int /\ A[q] \in Int /\ B[q] \in Int
             /\ G[q] = Y[q] - (A[q] * x + B[q] * y)
  <2>1. q[1] \in forest /\ q[2] \in Corner
    BY DEF Corners
  <2>2. node[q[1]][q[2]].matrix \in Matrix /\ node[q[1]][q[2]].rhs \in Vector
    BY <2>1, NodeRecordParts
  <2> DEFINE m == node[q[1]][q[2]].matrix
             s == node[q[1]][q[2]].rhs
  <2>3. m[1] \in Int /\ m[2] \in Int /\ m[3] \in Int /\ m[4] \in Int /\ s[1] \in Int /\ s[2] \in Int
    <3> HIDE DEF m, s
    <3>1. m \in Matrix /\ s \in Vector
      BY <2>2 DEF m, s
    <3> QED BY <3>1, MatrixParts, VectorParts
  <2>4. /\ Y[q] = s[i] /\ A[q] = (IF i = 1 THEN m[1] ELSE m[3])
        /\ B[q] = (IF i = 1 THEN m[2] ELSE m[4]) /\ G[q] = s[i] - Row(m, u, i)
    OBVIOUS
  <2> HIDE DEF m, s, Y, A, B
  <2> QED BY <2>3, <2>4 DEF Row
<1> HIDE DEF Y, A, B, r, w, x, y
<1>3. SumOver(G, S) = SumOver(Y, S) - (SumOver(A, S) * x + SumOver(B, S) * y)
  <2> HIDE DEF X
  <2>1. Rests(G, Y, A, B, S, x, y)
    BY <1>2 DEF Rests
  <2> QED BY <1>1, <2>1, SumOfRests
<1>4. Congruent(r, SumOver(Y, S)) /\ Congruent(w, SumOver(A, S) * x + SumOver(B, S) * y)
  <2>1. /\ Congruent(r, SumOver(Y, S))
        /\ Congruent(w, IF i = 1 THEN SumOver(X(1), S) * x + SumOver(X(2), S) * y
                        ELSE SumOver(X(3), S) * x + SumOver(X(4), S) * y)
    BY SumsByParts DEF r, w, Y, x, y
  <2> HIDE DEF X
  <2> QED BY <2>1 DEF A, B
<1>5. Congruent(r - w, SumOver(G, S))
  BY <1>3, <1>4, CongruentSums
<1>6. Congruent(SumOver(G, S), r - w)
  BY <1>5, CongruentNumbers
<1> QED BY <1>6 DEF r, w

-----------------------------------------------------------------------------
(* What the equations leave open at the corners and the edges. *)

\* Component i of what corner q leaves open of its equation, with its share
\* of what all leave open at a hanging point.
Open(q, i) ==
  (node[q[1]][q[2]].rhs[i] - Row(node[q[1]][q[2]].matrix, node[q[1]][q[2]].velocity, i))
    + node[q[1]][q[2]].flux[i]
OpenIn(S, i) == [q \in S |-> Open(q, i)]
\* The same of edge h.
EdgeOpen(h, i) ==
  (edge[h].rhs[i] - Row(edge[h].matrix, edge[h].velocity, i)) + edge[h].flux[i]

\* The equation of corner k of leaf c, of the gas in it and its two halves.
NodeStated(c, k) ==
  node[c][k].rhs = Plus(Scaled(cell[c].cur.pressure, VectorSum(PushIn(c, k), Sides)),
                        MatrixDotVector(node[c][k].matrix, cell[c].cur.velocity))
NodesStated == \A c \in forest : \A k \in Corner : NodeStated(c, k)
\* The equation of an edge, of the gas in its leaf.
EdgeStated(h) ==
  edge[h].rhs = Plus(Scaled(cell[h.parent].cur.pressure, EdgePush(edge[h])),
                     MatrixDotVector(edge[h].matrix, cell[h.parent].cur.velocity))
EdgesStated == \A h \in Hanging : EdgeStated(h)
\* A corner that does not hang takes no share of anything.
NoFlux == \A c \in forest : \A k \in Corner : Regular(c, k) => node[c][k].flux = Zero
\* The equation of a point is the sum of those of the corners there, ...
PointSums ==
  \A c \in forest : \A k \in Corner :
    Regular(c, k) =>
      /\ point[c][k].matrix = MatrixSum(CornerMatrices(Around(Point(c, k))), Around(Point(c, k)))
      /\ point[c][k].rhs = VectorSum(CornerSides(Around(Point(c, k))), Around(Point(c, k)))
\* ... and that of a hanging point has the edge's on top.
EndSums ==
  \A h \in Hanging :
    LET e == point[h.child[1]][WhichCorner(h, 1)]
    IN  /\ e.matrix = Plus(edge[h].matrix, MatrixSum(CornerMatrices(EndsOf(h)), EndsOf(h)))
        /\ e.rhs = Plus(edge[h].rhs, VectorSum(CornerSides(EndsOf(h)), EndsOf(h)))
\* The corners at a point that does not hang leave nothing open together, but
\* for what walls take, ...
RegularMeets ==
  \A c \in forest : \A k \in Corner :
    Regular(c, k) =>
      \A i \in {1, 2} : \/ Congruent(SumOver(OpenIn(Around(Point(c, k)), i), Around(Point(c, k))), 0)
                        \/ Barred(Point(c, k), i)
\* ... and the two at a hanging point and the edge there leave nothing.
HangingMeets ==
  \A h \in Hanging : \A i \in {1, 2} :
    Congruent(SumOver(OpenIn(EndsOf(h), i), EndsOf(h)) + EdgeOpen(h, i), 0)

\* The forces at a point, by sums of functions.
CornerForces(S) == [q \in S |-> Plus(node[q[1]][q[2]].force, node[q[1]][q[2]].flux)]
EdgeForces(H) == [h \in H |-> Plus(edge[h].force, edge[h].flux)]
DividedAt(p) == {h \in Hanging : Point(h.child[1], WhichCorner(h, 1)) = p}
AllForces(p) ==
  Plus(VectorSum(CornerForces(Around(p)), Around(p)), VectorSum(EdgeForces(DividedAt(p)), DividedAt(p)))
AllMeet ==
  \A q \in Corners : \A i \in {1, 2} :
    LET p == Point(q[1], q[2])
    IN  AllForces(p)[i] = 0 \/ Barred(p, i)

Stated == {"points", "velocity", "edges", "hanging", "forces"}
Forced == {"coordinates", "density", "momentum", "accept", "accepted"}
ForceInv ==
  /\ phase \in Stated => NodesStated /\ NoFlux
  /\ phase = "velocity" => PointSums
  /\ phase \in {"edges", "hanging", "forces"} => RegularMeets
  /\ phase \in {"hanging", "forces"} => EdgesStated
  /\ phase = "hanging" => EndSums
  /\ phase = "forces" => HangingMeets
  /\ phase \in Forced => AllMeet

\* What is fixed with the mesh.
LEMMA PointsStay ==
  ASSUME setting' = setting
  PROVE  /\ forest' = forest /\ Hanging' = Hanging /\ Corners' = Corners
         /\ \A c, k : Regular(c, k)' = Regular(c, k)
         /\ \A p : Around(p)' = Around(p) /\ DividedAt(p)' = DividedAt(p)
         /\ \A p, i : Barred(p, i)' = Barred(p, i)
<1>1. /\ forest' = forest /\ boundary' = boundary /\ Hanging' = Hanging /\ Corners' = Corners
      /\ \A c, k : Regular(c, k)' = Regular(c, k)
  BY Same
<1>2. \A p : Around(p)' = Around(p) /\ DividedAt(p)' = DividedAt(p)
  BY <1>1 DEF Around, DividedAt
<1>3. \A p, i : Barred(p, i)' = Barred(p, i)
  BY <1>1 DEF Barred
<1> QED BY <1>1, <1>2, <1>3

\* The corner equations are stated.
LEMMA AssembleCornersForces ==
  ASSUME IInv, AssembleCorners
  PROVE  ForceInv'
<1>1. /\ phase' = "points" /\ setting' = setting /\ cell' = cell /\ half' = half
      /\ node' = [c \in forest |-> [k \in Corner |->
           LET m == CornerMatrix(c, k)
           IN  [node[c][k] EXCEPT
                  !.flux = Zero, !.matrix = m,
                  !.rhs = Plus(Scaled(cell[c].cur.pressure, PushOfHalves(c, k)),
                               MatrixDotVector(m, cell[c].cur.velocity))]]]
  BY DEF AssembleCorners, Step
<1>2. forest' = forest /\ NodeOK /\ \A c, k : Regular(c, k)' = Regular(c, k)
  BY <1>1, Same DEF IInv, TypeOK
<1>3. ASSUME NEW c \in forest, NEW k \in Corner
      PROVE  NodeStated(c, k)' /\ node'[c][k].flux = Zero
  <2> DEFINE m == CornerMatrix(c, k)
             r == Plus(Scaled(cell[c].cur.pressure, PushOfHalves(c, k)),
                       MatrixDotVector(m, cell[c].cur.velocity))
             s == VectorSum(PushIn(c, k), Sides)
  <2>1. node'[c][k] = [node[c][k] EXCEPT !.flux = Zero, !.matrix = m, !.rhs = r]
    BY <1>1
  <2>2. node[c][k] \in NodeRecord
    BY <1>2, NodeRecordParts
  <2>3. r = Plus(Scaled(cell[c].cur.pressure, s), MatrixDotVector(m, cell[c].cur.velocity))
    BY PushOfHalvesIs
  <2>4. s' = s
    BY <1>1 DEF PushIn
  <2> HIDE DEF m, r, s
  <2>5. node'[c][k].flux = Zero /\ node'[c][k].matrix = m /\ node'[c][k].rhs = r
    BY <2>1, <2>2 DEF NodeRecord
  <2>6. node'[c][k].rhs = Plus(Scaled(cell'[c].cur.pressure, s'),
                               MatrixDotVector(node'[c][k].matrix, cell'[c].cur.velocity))
    BY <1>1, <2>3, <2>4, <2>5
  <2> QED BY <2>5, <2>6 DEF NodeStated, s
<1>4. NodesStated' /\ NoFlux'
  BY <1>2, <1>3 DEF NodesStated, NoFlux
<1> QED BY <1>1, <1>4 DEF ForceInv, Stated, Forced

\* What is stated of the corners stays when they are left alone.
LEMMA NodesStay ==
  ASSUME NodesStated, forest' = forest, cell' = cell, half' = half,
         \A c \in forest : \A k \in Corner :
           node'[c][k].rhs = node[c][k].rhs /\ node'[c][k].matrix = node[c][k].matrix
  PROVE  NodesStated'
<1>1. \A c, k : PushIn(c, k)' = PushIn(c, k)
  BY DEF PushIn
<1>2. ASSUME NEW c \in forest, NEW k \in Corner
      PROVE  NodeStated(c, k)'
  <2>1. NodeStated(c, k)
    BY DEF NodesStated
  <2> QED BY <1>1, <2>1 DEF NodeStated
<1> QED BY <1>2 DEF NodesStated

\* The equations of points are their sums.
LEMMA AssemblePointsForces ==
  ASSUME IInv, ForceInv, AssemblePoints
  PROVE  ForceInv'
<1>1. /\ phase = "points" /\ phase' = "velocity" /\ setting' = setting
      /\ cell' = cell /\ node' = node /\ half' = half
      /\ point' = [c \in forest |-> [k \in Corner |->
                     IF Regular(c, k) THEN PointAt(c, k) ELSE point[c][k]]]
  BY DEF AssemblePoints, Step
<1>2. /\ forest' = forest /\ \A c, k : Regular(c, k)' = Regular(c, k)
      /\ \A p : Around(p)' = Around(p)
  BY <1>1, PointsStay
<1>3. NodesStated /\ NoFlux
  BY <1>1 DEF ForceInv, Stated
<1>4. NodesStated' /\ NoFlux'
  <2>1. NodesStated'
    BY <1>1, <1>2, <1>3, NodesStay
  <2>2. NoFlux'
    BY <1>1, <1>2, <1>3 DEF NoFlux
  <2> QED BY <2>1, <2>2
<1>5. ASSUME NEW c \in forest, NEW k \in Corner, Regular(c, k)
      PROVE  LET S == Around(Point(c, k))
             IN  /\ point'[c][k].matrix = MatrixSum(CornerMatrices(S), S)
                 /\ point'[c][k].rhs = VectorSum(CornerSides(S), S)
  <2>1. point'[c][k] = PointAt(c, k)
    BY <1>1, <1>5
  <2> QED BY <2>1, PointAtIs
<1>6. PointSums'
  <2>1. \A S : CornerMatrices(S)' = CornerMatrices(S) /\ CornerSides(S)' = CornerSides(S)
    BY <1>1 DEF CornerMatrices, CornerSides
  <2> QED BY <1>2, <1>5, <2>1 DEF PointSums
<1> QED BY <1>1, <1>4, <1>6 DEF ForceInv, Stated, Forced

\* The corners at a point that does not hang, which are solved to one
\* velocity, leave nothing open but for what walls take.
LEMMA SolveCornersForces ==
  ASSUME IInv, PlaceInv, ForceInv, NothingSingular, SolveCorners
  PROVE  ForceInv'
<1>1. /\ phase = "velocity" /\ phase' = "edges" /\ setting' = setting /\ cell' = cell /\ half' = half
      /\ node' = [c \in forest |-> [k \in Corner |->
           [node[c][k] EXCEPT !.velocity =
              IF Regular(c, k) THEN CornerVelocity(c, k) ELSE node[c][k].velocity]]]
  BY DEF SolveCorners, Step
<1>2. /\ forest' = forest /\ NodeOK /\ SettingOK /\ TypeOK /\ HalvesInv /\ BounsInv
      /\ \A c, k : Regular(c, k)' = Regular(c, k)
      /\ \A p : Around(p)' = Around(p)
      /\ \A p, i : Barred(p, i)' = Barred(p, i)
  BY <1>1, PointsStay DEF IInv, TypeOK
<1>3. NodesStated /\ NoFlux /\ PointSums /\ OneEquation
  BY <1>1 DEF ForceInv, Stated, PlaceInv
<1>4. ASSUME NEW c \in forest, NEW k \in Corner
      PROVE  /\ node'[c][k].rhs = node[c][k].rhs /\ node'[c][k].matrix = node[c][k].matrix
             /\ node'[c][k].flux = node[c][k].flux
             /\ Regular(c, k) => node'[c][k].velocity = CornerVelocity(c, k)
  <2> DEFINE u == IF Regular(c, k) THEN CornerVelocity(c, k) ELSE node[c][k].velocity
  <2>1. node'[c][k] = [node[c][k] EXCEPT !.velocity = u] /\ node[c][k] \in NodeRecord
    BY <1>1, <1>2, NodeRecordParts
  <2>2. Regular(c, k) => u = CornerVelocity(c, k)
    OBVIOUS
  <2> HIDE DEF u
  <2> QED BY <2>1, <2>2 DEF NodeRecord
<1>5. NodesStated' /\ NoFlux'
  <2>1. NodesStated'
    BY <1>1, <1>2, <1>3, <1>4, NodesStay
  <2>2. NoFlux'
    BY <1>2, <1>3, <1>4 DEF NoFlux
  <2> QED BY <2>1, <2>2
<1>6. ASSUME NEW c \in forest, NEW k \in Corner, Regular(c, k), NEW i \in {1, 2}
      PROVE  LET S == Around(Point(c, k))
             IN  Congruent(SumOver([q \in S |-> Open(q, i)'], S), 0) \/ Barred(Point(c, k), i)
  <2> DEFINE S == Around(Point(c, k))
             u == CornerVelocity(c, k)
             G == [q \in S |-> Open(q, i)']
             m == MatrixSum(CornerMatrices(S), S)
             r == VectorSum(CornerSides(S), S)
  <2>1. S \subseteq Corners /\ IsFiniteSet(S)
    BY <1>2, CornersFinite
  <2>2. u \in Int \X Int
    BY <1>1, <1>2, <1>6, CornerVelocityIs, VectorIsPair
  <2>3. ASSUME NEW q \in S
        PROVE  G[q] = node[q[1]][q[2]].rhs[i] - Row(node[q[1]][q[2]].matrix, u, i)
    <3>1. q[1] \in forest /\ q[2] \in Corner /\ Point(q[1], q[2]) = Point(c, k)
      BY DEF Around, Corners
    <3>2. Regular(q[1], q[2])
      BY <1>2, <1>6, <3>1, OneWayAtPoint
    <3>3. CornerVelocity(q[1], q[2]) = u
      <4>1. point[c][k] = point[q[1]][q[2]]
        BY <1>3, <1>6, <3>1, <3>2 DEF OneEquation
      <4> QED BY <3>1, <4>1 DEF CornerVelocity
    <3>4. node[q[1]][q[2]].flux[i] = 0
      <4>1. node[q[1]][q[2]].flux = Zero
        BY <1>3, <3>1, <3>2 DEF NoFlux
      <4> QED BY <4>1 DEF Zero
    <3>5. node[q[1]][q[2]].matrix \in Matrix /\ node[q[1]][q[2]].rhs \in Int \X Int
      BY <1>2, <3>1, NodeRecordParts, VectorIsPair
    <3> HIDE DEF u
    <3>6. Row(node[q[1]][q[2]].matrix, u, i) \in Int /\ node[q[1]][q[2]].rhs[i] \in Int
      BY <2>2, <3>5, RowIs, PairIs
    <3>7. /\ node'[q[1]][q[2]].rhs = node[q[1]][q[2]].rhs
          /\ node'[q[1]][q[2]].matrix = node[q[1]][q[2]].matrix
          /\ node'[q[1]][q[2]].flux[i] = 0 /\ node'[q[1]][q[2]].velocity = u
      BY <1>4, <3>1, <3>2, <3>3, <3>4
    <3>8. G[q] = (node[q[1]][q[2]].rhs[i] - Row(node[q[1]][q[2]].matrix, u, i)) + 0
      BY <3>7 DEF Open
    <3> QED BY <3>6, <3>8
  <2>4. m = point[c][k].matrix /\ r = point[c][k].rhs
    BY <1>3, <1>6 DEF PointSums
  <2>5. Congruent(Row(m, u, i), r[i]) \/ Barred(Point(c, k), i)
    BY <1>1, <1>2, <1>6, <2>4, CornerSolved
  <2> HIDE DEF S, u, G
  <2>6. Congruent(SumOver(G, S), r[i] - Row(m, u, i))
    BY <1>2, <2>1, <2>2, <2>3, RestsAtOneVelocity
  <2> HIDE DEF m, r
  <2>7. ASSUME Congruent(Row(m, u, i), r[i])
        PROVE  Congruent(SumOver(G, S), 0)
    <3> DEFINE x == Row(m, u, i)
               y == r[i]
    <3> HIDE DEF x, y
    <3>1. Congruent(x, y)
      BY <2>7 DEF x, y
    <3>2. y \in Int /\ y - y = 0
      BY <3>1 DEF Congruent
    <3>3. Congruent(y, y)
      BY <3>2, CongruentNumbers
    <3>4. Congruent(y - x, 0)
      BY <3>1, <3>2, <3>3, CongruentSums
    <3> QED BY <2>6, <3>4, CongruentNumbers DEF x, y
  <2> QED BY <2>5, <2>7 DEF S, G
<1>7. RegularMeets'
  <2>1. \A S, i : OpenIn(S, i)' = [q \in S |-> Open(q, i)']
    BY DEF OpenIn
  <2> QED BY <1>2, <1>6, <2>1 DEF RegularMeets
<1> QED BY <1>1, <1>5, <1>7 DEF ForceInv, Stated, Forced

-----------------------------------------------------------------------------
(* The equations of the edges, and of the points that hang there. *)

\* What corners of which nothing changes leave open.
LEMMA OpenStays ==
  ASSUME NEW S, \A q \in S : node'[q[1]][q[2]] = node[q[1]][q[2]], NEW i
  PROVE  OpenIn(S, i)' = OpenIn(S, i)
<1>1. \A q \in S : Open(q, i)' = Open(q, i)
  BY DEF Open
<1> QED BY <1>1 DEF OpenIn

\* What the corners at points that do not hang leave open.
LEMMA RegularMeetsStays ==
  ASSUME SettingOK, RegularMeets, setting' = setting,
         \A c \in forest : \A k \in Corner : Regular(c, k) => node'[c][k] = node[c][k]
  PROVE  RegularMeets'
<1>1. /\ forest' = forest /\ \A c, k : Regular(c, k)' = Regular(c, k)
      /\ \A p : Around(p)' = Around(p)
      /\ \A p, i : Barred(p, i)' = Barred(p, i)
  BY PointsStay
<1>2. ASSUME NEW c \in forest, NEW k \in Corner, Regular(c, k), NEW i \in {1, 2}
      PROVE  OpenIn(Around(Point(c, k)), i)' = OpenIn(Around(Point(c, k)), i)
  <2> DEFINE S == Around(Point(c, k))
  <2>1. S' = S
    BY <1>1
  <2>2. \A q \in S : node'[q[1]][q[2]] = node[q[1]][q[2]]
    <3> TAKE q \in S
    <3>1. q[1] \in forest /\ q[2] \in Corner /\ Point(q[1], q[2]) = Point(c, k)
      BY DEF Around, Corners
    <3>2. Regular(q[1], q[2])
      BY <1>2, <3>1, OneWayAtPoint
    <3> QED BY <3>1, <3>2
  <2>3. \A q \in S : Open(q, i)' = Open(q, i)
    BY <2>2 DEF Open
  <2> HIDE DEF S
  <2>4. OpenIn(S, i)' = OpenIn(S, i)
    BY <2>1, <2>3 DEF OpenIn
  <2> QED BY <2>4 DEF S
<1> QED BY <1>1, <1>2 DEF RegularMeets

\* The equations of edges and hanging points are stated.
LEMMA AssembleEdgesForces ==
  ASSUME IInv, ForceInv, AssembleEdges
  PROVE  ForceInv'
<1> DEFINE M(S) == MatrixSum(CornerMatrices(S), S)
           R(S) == VectorSum(CornerSides(S), S)
<1>1. /\ phase = "edges" /\ phase' = "hanging" /\ setting' = setting
      /\ cell' = cell /\ node' = node /\ half' = half
      /\ edge' = [h \in Hanging |-> EdgeEquation(h)]
      /\ point' = [c \in forest |-> [k \in Corner |->
           IF Regular(c, k) THEN point[c][k]
           ELSE LET h == (CHOOSE q \in HangsAt(c, k) : TRUE)[1]
                    ends == {<<h.child[i], WhichCorner(h, i)>> : i \in 1..2}
                IN  [point[c][k] EXCEPT
                       !.matrix = Plus(edge'[h].matrix,
                                    MatrixTotal(LAMBDA q : node[q[1]][q[2]].matrix, ends)),
                       !.rhs = Plus(edge'[h].rhs,
                                 VectorTotal(LAMBDA q : node[q[1]][q[2]].rhs, ends))]]]
  BY DEF AssembleEdges, Step
<1>2. /\ forest' = forest /\ Hanging' = Hanging /\ SettingOK /\ TypeOK /\ EdgeOK /\ PointOK
      /\ \A c, k : Regular(c, k)' = Regular(c, k)
  BY <1>1, Same DEF IInv, TypeOK
<1>3. NodesStated /\ NoFlux /\ RegularMeets
  BY <1>1 DEF ForceInv, Stated
<1>4. NodesStated' /\ NoFlux'
  <2>1. NodesStated'
    BY <1>1, <1>2, <1>3, NodesStay
  <2>2. NoFlux'
    BY <1>1, <1>2, <1>3 DEF NoFlux
  <2> QED BY <2>1, <2>2
<1>5. RegularMeets'
  BY <1>1, <1>2, <1>3, RegularMeetsStays
<1>6. EdgesStated'
  <2>1. ASSUME NEW h \in Hanging
        PROVE  EdgeStated(h)'
    <3> DEFINE m == MatrixSum(EdgeResistance(h), Indices)
               r == Plus(Scaled(cell[h.parent].cur.pressure, EdgePush(edge[h])),
                         MatrixDotVector(m, cell[h.parent].cur.velocity))
    <3>1. edge'[h] = [edge[h] EXCEPT !.matrix = m, !.rhs = r] /\ edge[h] \in EdgeRecord
      BY <1>1, <1>2, EdgeEquationIs, EdgeRecordParts
    <3> HIDE DEF m
    <3>2. /\ edge'[h].matrix = m /\ edge'[h].rhs = r
          /\ edge'[h].lengths = edge[h].lengths /\ edge'[h].normals = edge[h].normals
      <4> HIDE DEF r
      <4> QED BY <3>1 DEF EdgeRecord
    <3>3. EdgePush(edge'[h]) = EdgePush(edge[h])
      BY <3>2 DEF EdgePush
    <3> QED BY <1>1, <3>2, <3>3 DEF EdgeStated
  <2> QED BY <1>2, <2>1 DEF EdgesStated
<1>7. ASSUME NEW h \in Hanging
      PROVE  LET c == h.child[1]
                 k == WhichCorner(h, 1)
             IN  /\ point'[c][k].matrix = Plus(edge'[h].matrix, M(EndsOf(h)))
                 /\ point'[c][k].rhs = Plus(edge'[h].rhs, R(EndsOf(h)))
  <2> DEFINE c == h.child[1]
             k == WhichCorner(h, 1)
             ends == EndsOf(h)
             m == Plus(edge'[h].matrix, M(ends))
             r == Plus(edge'[h].rhs, R(ends))
  <2>1. c \in forest /\ k \in Corner
    BY <1>2, HangingParts
  <2>2. ~ Regular(c, k) /\ HangingAt(c, k) = h
    BY <1>2, HangingHere
  <2>3. point'[c][k] = [point[c][k] EXCEPT
             !.matrix = Plus(edge'[h].matrix, MatrixTotal(LAMBDA q : node[q[1]][q[2]].matrix, ends)),
             !.rhs = Plus(edge'[h].rhs, VectorTotal(LAMBDA q : node[q[1]][q[2]].rhs, ends))]
    BY <1>1, <2>1, <2>2 DEF HangingAt, EndsOf, Indices
  <2> HIDE DEF c, k, ends
  <2>4. /\ MatrixTotal(LAMBDA q : node[q[1]][q[2]].matrix, ends) = M(ends)
        /\ VectorTotal(LAMBDA q : node[q[1]][q[2]].rhs, ends) = R(ends)
    BY CornerSumsAre
  <2>5. point'[c][k] = [point[c][k] EXCEPT !.matrix = m, !.rhs = r]
    BY <2>3, <2>4
  <2>6. point[c][k] \in PointRecord
    BY <1>2, <2>1, PointRecordParts
  <2> HIDE DEF m, r
  <2>7. point'[c][k].matrix = m /\ point'[c][k].rhs = r
    BY <2>5, <2>6 DEF PointRecord
  <2> QED BY <2>7 DEF c, k, ends, m, r
<1>8. EndSums'
  <2>1. \A S : CornerMatrices(S)' = CornerMatrices(S) /\ CornerSides(S)' = CornerSides(S)
    BY <1>1 DEF CornerMatrices, CornerSides
  <2>2. \A h : EndsOf(h)' = EndsOf(h)
    BY DEF EndsOf
  <2> QED BY <1>2, <1>7, <2>1, <2>2 DEF EndSums
<1> QED BY <1>1, <1>4, <1>5, <1>6, <1>8 DEF ForceInv, Stated, Forced

\* A row is linear in its matrix.
LEMMA RowOfMatrices ==
  ASSUME NEW m \in Matrix, NEW n \in Matrix, NEW u \in Int \X Int, NEW i \in {1, 2}
  PROVE  Congruent(Row(Plus(m, n), u, i), Row(m, u, i) + Row(n, u, i))
<1> DEFINE p == Plus(m, n)
           a == IF i = 1 THEN m[1] ELSE m[3]
           b == IF i = 1 THEN m[2] ELSE m[4]
           c == IF i = 1 THEN n[1] ELSE n[3]
           d == IF i = 1 THEN n[2] ELSE n[4]
           e == IF i = 1 THEN p[1] ELSE p[3]
           f == IF i = 1 THEN p[2] ELSE p[4]
           x == u[1]
           y == u[2]
<1>1. /\ a \in Int /\ b \in Int /\ c \in Int /\ d \in Int /\ x \in Int /\ y \in Int
  BY MatrixParts, PairIs
<1>2. e = a \oplus c /\ f = b \oplus d
  <2>1. DOMAIN m = {1, 2, 3, 4}
    BY MatrixParts
  <2>2. \A j \in {1, 2, 3, 4} : p[j] = m[j] \oplus n[j]
    BY <2>1 DEF Plus
  <2> HIDE DEF p
  <2> QED BY <2>2
<1>3. /\ Row(p, u, i) = e * x + f * y
      /\ Row(m, u, i) = a * x + b * y /\ Row(n, u, i) = c * x + d * y
  <2> HIDE DEF p
  <2> QED BY DEF Row
<1> HIDE DEF p, a, b, c, d, e, f, x, y
<1>4. /\ Congruent(a, a) /\ Congruent(b, b) /\ Congruent(c, c) /\ Congruent(d, d)
      /\ Congruent(x, x) /\ Congruent(y, y)
  BY <1>1, CongruentNumbers
<1>5. Congruent(e, a + c) /\ Congruent(f, b + d)
  BY <1>2, <1>4, CongruentResidues
<1>6. Congruent(e * x, (a + c) * x) /\ Congruent(f * y, (b + d) * y)
  BY <1>4, <1>5, CongruentProducts
<1>7. Congruent(e * x + f * y, (a + c) * x + (b + d) * y)
  BY <1>6, CongruentSums
<1>8. (a + c) * x + (b + d) * y = (a * x + b * y) + (c * x + d * y)
  BY <1>1
<1> QED BY <1>3, <1>7, <1>8 DEF p

\* Three shares of a whole that is not zero are all of it.
LEMMA SharesAreAll ==
  ASSUME NEW a \in Residue, NEW b \in Residue, NEW c \in Residue, a \oplus b \oplus c # 0
  PROVE  LET t == a \oplus b \oplus c
         IN  /\ a \oslash t \in Int /\ b \oslash t \in Int /\ c \oslash t \in Int
             /\ Congruent((a \oslash t + b \oslash t) + c \oslash t, 1)
<1> DEFINE t == a \oplus b \oplus c
           r == Reciprocal(t)
           x == a \otimes r
           y == b \otimes r
           z == c \otimes r
<1>1. a \in Int /\ b \in Int /\ c \in Int
  BY ResidueIsInt
<1>2. Congruent(a, a) /\ Congruent(b, b) /\ Congruent(c, c)
  BY <1>1, CongruentNumbers
<1>3. Congruent(a \oplus b, a + b)
  BY <1>2, CongruentResidues
<1>4. Congruent(t, (a + b) + c)
  BY <1>2, <1>3, CongruentResidues
<1>5. t \in Residue /\ t # 0
  <2>1. a \oplus b \in Int
    BY <1>3 DEF Congruent
  <2> QED BY <1>1, <2>1, ResidueType
<1> HIDE DEF t
<1>6. r \in Residue /\ t \otimes r = 1
  BY <1>5, ReciprocalAssumption
<1>7. r \in Int /\ t \in Int
  BY <1>5, <1>6, ResidueIsInt
<1> HIDE DEF r
<1>8. Congruent(r, r) /\ Congruent(t, t)
  BY <1>7, CongruentNumbers
<1>9. /\ Congruent(x, a * r) /\ Congruent(y, b * r) /\ Congruent(z, c * r)
      /\ Congruent(t \otimes r, t * r)
  BY <1>2, <1>8, CongruentResidues
<1> HIDE DEF x, y, z
<1>10. Congruent(x + y, a * r + b * r)
  BY <1>9, CongruentSums
<1>11. Congruent((x + y) + z, (a * r + b * r) + c * r)
  BY <1>9, <1>10, CongruentSums
<1>12. (a * r + b * r) + c * r = ((a + b) + c) * r
  BY <1>1, <1>7
<1>13. Congruent(((a + b) + c) * r, t * r)
  <2>1. Congruent((a + b) + c, t)
    BY <1>4, CongruentNumbers
  <2> QED BY <1>8, <2>1, CongruentProducts
<1>14. Congruent(t * r, 1)
  BY <1>6, <1>9, CongruentNumbers
<1>15. Congruent((x + y) + z, 1)
  BY <1>11, <1>12, <1>13, <1>14, CongruentNumbers
<1>16. x \in Int /\ y \in Int /\ z \in Int
  BY <1>9 DEF Congruent
<1> QED BY <1>15, <1>16 DEF \oslash, t, r, x, y, z

-----------------------------------------------------------------------------
(* The shares at a hanging point are what its equation leaves open. *)

\* What the equation of the point where h hangs leaves open, component i.
Excess(h, i) ==
  Row(point[h.child[1]][WhichCorner(h, 1)].matrix, HangingVelocity(h), i)
    - point[h.child[1]][WhichCorner(h, 1)].rhs[i]

\* The share of leaf c in it.
LEMMA FluxIsShare ==
  ASSUME TypeOK, NEW h \in Hanging, NEW c \in forest, NEW i \in {1, 2}
  PROVE  /\ Share(h, c) \in Int /\ Excess(h, i) \in Int
         /\ Congruent(Flux(h, c)[i], Share(h, c) * Excess(h, i))
<1> DEFINE m == point[h.child[1]][WhichCorner(h, 1)].matrix
           r == point[h.child[1]][WhichCorner(h, 1)].rhs
           u == HangingVelocity(h)
           s == Share(h, c)
           v == MatrixDotVector(m, u)
           w == Minus(v, r)
           x == Excess(h, i)
<1>1. m \in Matrix /\ r \in Int \X Int
  BY HangingParts, PointRecordParts, VectorIsPair DEF TypeOK
<1>2. u \in Int \X Int
  BY HangingVelocityType, VectorIsPair
<1>3. s \in Int
  BY ShareType, ResidueIsInt
<1>4. Flux(h, c) = Scaled(s, w) /\ x = Row(m, u, i) - r[i]
  BY DEF Flux, Excess
<1> HIDE DEF m, r, u, s, x
<1>5. v \in Int \X Int
  BY <1>1, <1>2, ProductType, VectorIsPair
<1>6. Congruent(v[i], Row(m, u, i))
  BY <1>1, <1>2, RowIs
<1> HIDE DEF v
<1>7. w \in Int \X Int
  BY <1>1, <1>5, VectorType, VectorIsPair
<1>8. Congruent(w[i], v[i] - r[i]) /\ Congruent(Scaled(s, w)[i], s * w[i]) /\ r[i] \in Int
  BY <1>1, <1>3, <1>5, <1>7, ComponentsAre
<1> HIDE DEF w
<1>9. Congruent(r[i], r[i]) /\ Congruent(s, s)
  BY <1>3, <1>8, CongruentNumbers
<1>10. Congruent(v[i] - r[i], x)
  BY <1>4, <1>6, <1>9, CongruentSums
<1>11. Congruent(w[i], x)
  BY <1>8, <1>10, CongruentNumbers
<1>12. Congruent(s * w[i], s * x)
  BY <1>9, <1>11, CongruentProducts
<1>13. Congruent(Flux(h, c)[i], s * x)
  BY <1>4, <1>8, <1>12, CongruentNumbers
<1>14. x \in Int
  BY <1>11 DEF Congruent
<1> QED BY <1>3, <1>13, <1>14 DEF s, x

\* All of it is shared out.
LEMMA FluxesAreAll ==
  ASSUME TypeOK, NothingSingular, phase = "hanging", NEW h \in Hanging, NEW i \in {1, 2}
  PROVE  Congruent((Flux(h, h.child[1])[i] + Flux(h, h.child[2])[i]) + Flux(h, h.parent)[i],
                   Excess(h, i))
<1> DEFINE a == Flux(h, h.child[1])[i]
           b == Flux(h, h.child[2])[i]
           c == Flux(h, h.parent)[i]
           p == Share(h, h.child[1])
           q == Share(h, h.child[2])
           r == Share(h, h.parent)
           x == Excess(h, i)
<1>1. SettingOK /\ CellOK
  BY DEF TypeOK
<1>2. h.parent \in forest /\ h.child[1] \in forest /\ h.child[2] \in forest
  BY <1>1, HangingParts
<1>3. /\ Congruent(a, p * x) /\ Congruent(b, q * x) /\ Congruent(c, r * x)
      /\ p \in Int /\ q \in Int /\ r \in Int /\ x \in Int
  BY <1>2, FluxIsShare
<1>4. Congruent((p + q) + r, 1)
  <2> DEFINE d == EnergyOf(h.child[1])
             e == EnergyOf(h.child[2])
             f == EnergyOf(h.parent)
             t == d \oplus e \oplus f
  <2>1. \A l \in forest : EnergyOf(l) \in Residue
    <3> TAKE l \in forest
    <3>1. cell[l].mass \in Int /\ cell[l].cur.total \in Int
      <4>1. cell[l].mass \in Residue /\ cell[l].cur \in GasState
        BY <1>1, CellRecordParts
      <4>2. cell[l].cur.total \in Residue
        BY <4>1 DEF GasState
      <4> QED BY <4>1, <4>2, ResidueIsInt
    <3> QED BY <3>1, ResidueType DEF EnergyOf
  <2>2. d \in Residue /\ e \in Residue /\ f \in Residue
    BY <1>2, <2>1
  <2>3. t # 0
    BY DEF NothingSingular
  <2>4. p = d \oslash t /\ q = e \oslash t /\ r = f \oslash t
    BY DEF Share
  <2> HIDE DEF d, e, f, p, q, r
  <2>5. Congruent((d \oslash t + e \oslash t) + f \oslash t, 1)
    BY <2>2, <2>3, SharesAreAll
  <2> HIDE DEF t
  <2> QED BY <2>4, <2>5
<1> HIDE DEF a, b, c, p, q, r, x
<1>5. Congruent(a + b, p * x + q * x)
  BY <1>3, CongruentSums
<1>6. Congruent((a + b) + c, (p * x + q * x) + r * x)
  BY <1>3, <1>5, CongruentSums
<1>7. (p * x + q * x) + r * x = ((p + q) + r) * x /\ 1 * x = x
  BY <1>3
<1>8. Congruent(x, x)
  BY <1>3, CongruentNumbers
<1>9. Congruent(((p + q) + r) * x, 1 * x)
  BY <1>4, <1>8, CongruentProducts
<1>10. Congruent((a + b) + c, x)
  BY <1>6, <1>7, <1>9, CongruentNumbers
<1> QED BY <1>10 DEF a, b, c, x

\* It is what the edge and the two corners leave open, taken away.
LEMMA ExcessIs ==
  ASSUME TypeOK, EndSums, NEW h \in Hanging, NEW i \in {1, 2}, NEW G,
         \A q \in EndsOf(h) : G[q] = node[q[1]][q[2]].rhs[i]
                                       - Row(node[q[1]][q[2]].matrix, HangingVelocity(h), i)
  PROVE  LET x == edge[h].rhs[i] - Row(edge[h].matrix, HangingVelocity(h), i)
         IN  Congruent((SumOver(G, EndsOf(h)) + x) + Excess(h, i), 0)
<1> DEFINE S == EndsOf(h)
           u == HangingVelocity(h)
           m == MatrixSum(CornerMatrices(S), S)
           r == VectorSum(CornerSides(S), S)
           n == edge[h].matrix
           s == edge[h].rhs
           g == SumOver(G, S)
<1>1. SettingOK /\ NodeOK /\ EdgeOK
  BY DEF TypeOK
<1>2. S \subseteq Corners /\ IsFiniteSet(S)
  BY <1>1, EndsOfHanging
<1>3. u \in Int \X Int
  BY HangingVelocityType, VectorIsPair
<1>4. m \in Matrix /\ r \in Vector
  BY <1>1, <1>2, CornerSumsType
<1>5. n \in Matrix /\ s \in Vector
  BY <1>1, EdgeRecordParts
<1>6. Excess(h, i) = Row(Plus(n, m), u, i) - Plus(s, r)[i]
  BY DEF EndSums, Excess
<1>7. Congruent(g, r[i] - Row(m, u, i))
  <2> HIDE DEF S, u
  <2>1. \A q \in S : G[q] = node[q[1]][q[2]].rhs[i] - Row(node[q[1]][q[2]].matrix, u, i)
    BY DEF S, u
  <2> QED BY <1>1, <1>2, <1>3, <2>1, RestsAtOneVelocity
<1> HIDE DEF S, u, m, r, n, s, g
<1> DEFINE a == Row(n, u, i)
           b == Row(m, u, i)
           c == s[i]
           d == r[i]
           e == Row(Plus(n, m), u, i)
           f == Plus(s, r)[i]
<1>8. a \in Int /\ b \in Int
  BY <1>3, <1>4, <1>5, RowIs
<1>9. Congruent(e, a + b)
  BY <1>3, <1>4, <1>5, RowOfMatrices
<1>10. Congruent(f, c + d) /\ c \in Int /\ d \in Int
  BY <1>4, <1>5, VectorIsPair, ComponentsAre
<1> HIDE DEF a, b, c, d, e, f
<1>11. Congruent(e - f, (a + b) - (c + d))
  BY <1>9, <1>10, CongruentSums
<1>12. Congruent(c - a, c - a)
  BY <1>8, <1>10, CongruentNumbers
<1>13. Congruent(g, d - b)
  BY <1>7 DEF d, b
<1>14. Congruent(g + (c - a), (d - b) + (c - a))
  BY <1>12, <1>13, CongruentSums
<1>15. Congruent((g + (c - a)) + (e - f), ((d - b) + (c - a)) + ((a + b) - (c + d)))
  BY <1>11, <1>14, CongruentSums
<1>16. ((d - b) + (c - a)) + ((a + b) - (c + d)) = 0
  BY <1>8, <1>10
<1>17. Congruent((g + (c - a)) + (e - f), 0)
  BY <1>15, <1>16
<1> QED BY <1>6, <1>17 DEF g, S, c, s, a, n, u, e, f

\* The two corners where h hangs.
LEMMA TwoEnds ==
  ASSUME SettingOK, NEW h \in Hanging
  PROVE  /\ Both(EndsOf(h), <<h.child[1], WhichCorner(h, 1)>>, <<h.child[2], WhichCorner(h, 2)>>)
         /\ \A i \in {1, 2} :
              /\ h.child[i] \in forest /\ WhichCorner(h, i) \in Corner
              /\ ~ Regular(h.child[i], WhichCorner(h, i))
              /\ HangingAt(h.child[i], WhichCorner(h, i)) = h
<1>1. forest \in BalancedForests /\ h \in HangingEdges[forest]
  BY DEF SettingOK, Hanging
<1>2. h.child[1] # h.child[2]
  BY <1>1, EdgeAcross
<1>3. EndsOf(h) = {<<h.child[1], WhichCorner(h, 1)>>, <<h.child[2], WhichCorner(h, 2)>>}
  BY IndicesAre DEF EndsOf
<1>4. Both(EndsOf(h), <<h.child[1], WhichCorner(h, 1)>>, <<h.child[2], WhichCorner(h, 2)>>)
  BY <1>2, <1>3 DEF Both
<1> QED BY <1>4, HangingParts, HangingHere

-----------------------------------------------------------------------------
(* The hanging points are solved. *)

\* The edge and the two corners at a hanging point leave nothing open.
LEMMA SolveHangingMeets ==
  ASSUME TypeOK, NothingSingular, EndSums, SolveHanging, NEW h \in Hanging, NEW i \in {1, 2},
         \A c \in forest : \A k \in Corner :
           /\ node'[c][k].rhs = node[c][k].rhs /\ node'[c][k].matrix = node[c][k].matrix
           /\ ~ Regular(c, k) => /\ node'[c][k].velocity = HangingVelocity(HangingAt(c, k))
                                 /\ node'[c][k].flux = Flux(HangingAt(c, k), c),
         /\ edge'[h].rhs = edge[h].rhs /\ edge'[h].matrix = edge[h].matrix
         /\ edge'[h].velocity = HangingVelocity(h) /\ edge'[h].flux = Flux(h, h.parent)
  PROVE  Congruent(SumOver([q \in EndsOf(h) |-> Open(q, i)'], EndsOf(h)) + EdgeOpen(h, i)', 0)
<1> DEFINE S == EndsOf(h)
           u == HangingVelocity(h)
           F == [q \in S |-> Open(q, i)']
           G == [q \in S |-> node[q[1]][q[2]].rhs[i] - Row(node[q[1]][q[2]].matrix, u, i)]
           a == <<h.child[1], WhichCorner(h, 1)>>
           b == <<h.child[2], WhichCorner(h, 2)>>
           x == edge[h].rhs[i] - Row(edge[h].matrix, u, i)
           f == Flux(h, h.child[1])[i]
           g == Flux(h, h.child[2])[i]
           e == Flux(h, h.parent)[i]
<1>1. SettingOK /\ NodeOK /\ EdgeOK /\ phase = "hanging"
  BY DEF TypeOK, SolveHanging, Step
<1>2. Both(S, a, b)
  BY <1>1, TwoEnds
<1>3. h.parent \in forest /\ h.child[1] \in forest /\ h.child[2] \in forest
  BY <1>1, HangingParts
<1>4. u \in Int \X Int
  BY HangingVelocityType, VectorIsPair
<1>5. f \in Int /\ g \in Int /\ e \in Int
  <2>1. \A c \in forest : Flux(h, c) \in Vector
    BY FluxType
  <2>2. \A c \in forest : Flux(h, c)[i] \in Int
    BY <2>1, VectorParts
  <2> QED BY <1>3, <2>2
<1>6. ASSUME NEW q \in S
      PROVE  G[q] \in Int /\ Open(q, i)' = G[q] + Flux(h, q[1])[i]
  <2>1. /\ q[1] \in forest /\ q[2] \in Corner /\ ~ Regular(q[1], q[2])
        /\ HangingAt(q[1], q[2]) = h
    <3>1. q = a \/ q = b
      BY <1>2 DEF Both
    <3>2. /\ a[1] = h.child[1] /\ a[2] = WhichCorner(h, 1)
          /\ b[1] = h.child[2] /\ b[2] = WhichCorner(h, 2)
      OBVIOUS
    <3>3. \A j \in {1, 2} :
            /\ h.child[j] \in forest /\ WhichCorner(h, j) \in Corner
            /\ ~ Regular(h.child[j], WhichCorner(h, j))
            /\ HangingAt(h.child[j], WhichCorner(h, j)) = h
      BY <1>1, TwoEnds
    <3> HIDE DEF a, b, F, G, u, x, f, g, e, S
    <3>4. CASE q = a
      BY <3>2, <3>3, <3>4
    <3>5. CASE q = b
      BY <3>2, <3>3, <3>5
    <3> QED BY <3>1, <3>4, <3>5
  <2> DEFINE m == node[q[1]][q[2]].matrix
             r == node[q[1]][q[2]].rhs
  <2>2. m \in Matrix /\ r \in Int \X Int
    BY <1>1, <2>1, NodeRecordParts, VectorIsPair
  <2>3. node'[q[1]][q[2]].rhs = r /\ node'[q[1]][q[2]].matrix = m
        /\ node'[q[1]][q[2]].velocity = u /\ node'[q[1]][q[2]].flux = Flux(h, q[1])
    BY <2>1
  <2>4. G[q] = r[i] - Row(m, u, i)
    OBVIOUS
  <2> HIDE DEF m, r, u, G
  <2>5. Row(m, u, i) \in Int /\ r[i] \in Int
    BY <1>4, <2>2, RowIs, PairIs
  <2> QED BY <2>3, <2>4, <2>5 DEF Open
<1>7. EdgeOpen(h, i)' = x + e /\ x \in Int
  <2> DEFINE m == edge[h].matrix
             r == edge[h].rhs
  <2>1. m \in Matrix /\ r \in Int \X Int
    BY <1>1, EdgeRecordParts, VectorIsPair
  <2>2. EdgeOpen(h, i)' = (r[i] - Row(m, u, i)) + e
    BY DEF EdgeOpen
  <2>3. x = r[i] - Row(m, u, i)
    OBVIOUS
  <2> HIDE DEF m, r, u, x, e
  <2>4. Row(m, u, i) \in Int /\ r[i] \in Int
    BY <1>4, <2>1, RowIs, PairIs
  <2> QED BY <2>2, <2>3, <2>4
<1>8. Congruent((SumOver(G, S) + x) + Excess(h, i), 0)
  <2>1. \A q \in EndsOf(h) : G[q] = node[q[1]][q[2]].rhs[i]
                                      - Row(node[q[1]][q[2]].matrix, HangingVelocity(h), i)
    OBVIOUS
  <2> HIDE DEF G
  <2>2. Congruent((SumOver(G, EndsOf(h))
                     + (edge[h].rhs[i] - Row(edge[h].matrix, HangingVelocity(h), i)))
                    + Excess(h, i), 0)
    BY <2>1, ExcessIs
  <2> QED BY <2>2
<1>9. Congruent((f + g) + e, Excess(h, i))
  BY <1>1, FluxesAreAll
<1>10. /\ a \in S /\ b \in S /\ a[1] = h.child[1] /\ b[1] = h.child[2]
  BY <1>2 DEF Both
<1>11. F[a] = G[a] + f /\ F[b] = G[b] + g /\ G[a] \in Int /\ G[b] \in Int
  <2>1. F[a] = Open(a, i)' /\ F[b] = Open(b, i)'
    BY <1>10
  <2> HIDE DEF F, G, S, a, b
  <2> QED BY <1>6, <1>10, <2>1
<1>12. \A q \in S : F[q] \in Int /\ G[q] \in Int
  <2> TAKE q \in S
  <2>1. q = a \/ q = b
    BY <1>2 DEF Both
  <2> HIDE DEF F, G, S, a, b, f, g
  <2> QED BY <1>5, <1>11, <2>1
<1> HIDE DEF S, u, F, G, a, b, x, f, g, e
<1>13. SumOver(F, S) = F[a] + F[b] /\ SumOver(G, S) = G[a] + G[b]
  BY <1>2, <1>12, SumOfPair
<1> DEFINE y == G[a]
           z == G[b]
           w == Excess(h, i)
<1>14. SumOver(F, S) + (x + e) = ((y + z) + x) + ((f + g) + e)
  BY <1>5, <1>7, <1>11, <1>13
<1> HIDE DEF y, z, w
<1>15. Congruent(((y + z) + x) + w, 0)
  BY <1>8, <1>13 DEF y, z, w
<1>16. Congruent((y + z) + x, (y + z) + x)
  <2>1. (y + z) + x \in Int
    BY <1>7, <1>11 DEF y, z
  <2> QED BY <2>1, CongruentNumbers
<1>17. Congruent(((y + z) + x) + ((f + g) + e), ((y + z) + x) + w)
  BY <1>9, <1>16, CongruentSums DEF w
<1>18. Congruent(((y + z) + x) + ((f + g) + e), 0)
  BY <1>15, <1>17, CongruentNumbers
<1> QED BY <1>7, <1>14, <1>18 DEF F, S

\* quadrant_relaxed_hanging_solver_callback leaves nothing open where corners
\* hang, and the rest alone.
LEMMA SolveHangingForces ==
  ASSUME IInv, ForceInv, NothingSingular, SolveHanging
  PROVE  ForceInv'
<1>1. /\ phase = "hanging" /\ phase' = "forces" /\ setting' = setting
      /\ cell' = cell /\ half' = half
      /\ node' = [c \in forest |-> [k \in Corner |->
           IF Regular(c, k) THEN node[c][k]
           ELSE LET h == (CHOOSE q \in HangsAt(c, k) : TRUE)[1]
                IN  [node[c][k] EXCEPT !.velocity = HangingVelocity(h), !.flux = Flux(h, c)]]]
      /\ edge' = [h \in Hanging |-> [edge[h] EXCEPT !.velocity = HangingVelocity(h),
                                                    !.flux = Flux(h, h.parent)]]
  BY DEF SolveHanging, Step
<1>2. /\ forest' = forest /\ Hanging' = Hanging /\ SettingOK /\ TypeOK /\ NodeOK /\ EdgeOK
      /\ \A c, k : Regular(c, k)' = Regular(c, k)
  BY <1>1, Same DEF IInv, TypeOK
<1>3. NodesStated /\ NoFlux /\ RegularMeets /\ EdgesStated /\ EndSums
  BY <1>1 DEF ForceInv, Stated
<1>4. ASSUME NEW c \in forest, NEW k \in Corner
      PROVE  /\ node'[c][k].rhs = node[c][k].rhs /\ node'[c][k].matrix = node[c][k].matrix
             /\ Regular(c, k) => node'[c][k] = node[c][k]
             /\ ~ Regular(c, k) => /\ node'[c][k].velocity = HangingVelocity(HangingAt(c, k))
                                   /\ node'[c][k].flux = Flux(HangingAt(c, k), c)
  <2>1. node[c][k] \in NodeRecord
    BY <1>2, NodeRecordParts
  <2>2. CASE Regular(c, k)
    <3>1. node'[c][k] = node[c][k]
      BY <1>1, <2>2
    <3> QED BY <2>2, <3>1
  <2>3. CASE ~ Regular(c, k)
    <3> DEFINE h == HangingAt(c, k)
               u == HangingVelocity(h)
               x == Flux(h, c)
    <3>1. node'[c][k] = [node[c][k] EXCEPT !.velocity = u, !.flux = x]
      BY <1>1, <2>3 DEF HangingAt
    <3> HIDE DEF u, x
    <3>2. /\ node'[c][k].rhs = node[c][k].rhs /\ node'[c][k].matrix = node[c][k].matrix
          /\ node'[c][k].velocity = u /\ node'[c][k].flux = x
      BY <2>1, <3>1 DEF NodeRecord
    <3> QED BY <2>3, <3>2 DEF u, x
  <2> QED BY <2>2, <2>3
<1>5. ASSUME NEW h \in Hanging
      PROVE  /\ edge'[h].rhs = edge[h].rhs /\ edge'[h].matrix = edge[h].matrix
             /\ edge'[h].lengths = edge[h].lengths /\ edge'[h].normals = edge[h].normals
             /\ edge'[h].velocity = HangingVelocity(h) /\ edge'[h].flux = Flux(h, h.parent)
  <2> DEFINE u == HangingVelocity(h)
             x == Flux(h, h.parent)
  <2>1. edge'[h] = [edge[h] EXCEPT !.velocity = u, !.flux = x]
    BY <1>1
  <2>2. edge[h] \in EdgeRecord
    BY <1>2, EdgeRecordParts
  <2> HIDE DEF u, x
  <2>3. /\ edge'[h].rhs = edge[h].rhs /\ edge'[h].matrix = edge[h].matrix
        /\ edge'[h].lengths = edge[h].lengths /\ edge'[h].normals = edge[h].normals
        /\ edge'[h].velocity = u /\ edge'[h].flux = x
    BY <2>1, <2>2 DEF EdgeRecord
  <2> QED BY <2>3 DEF u, x
<1>6. NodesStated' /\ NoFlux'
  <2>1. NodesStated'
    BY <1>1, <1>2, <1>3, <1>4, NodesStay
  <2>2. NoFlux'
    BY <1>2, <1>3, <1>4 DEF NoFlux
  <2> QED BY <2>1, <2>2
<1>7. RegularMeets'
  BY <1>1, <1>2, <1>3, <1>4, RegularMeetsStays
<1>8. EdgesStated'
  <2>1. ASSUME NEW h \in Hanging
        PROVE  EdgeStated(h)'
    <3>1. EdgeStated(h)
      BY <1>3 DEF EdgesStated
    <3>2. EdgePush(edge'[h]) = EdgePush(edge[h])
      BY <1>5 DEF EdgePush
    <3> QED BY <1>1, <1>5, <3>1, <3>2 DEF EdgeStated
  <2> QED BY <1>2, <2>1 DEF EdgesStated
<1>9. HangingMeets'
  <2>1. ASSUME NEW h \in Hanging, NEW i \in {1, 2}
        PROVE  Congruent(SumOver([q \in EndsOf(h) |-> Open(q, i)'], EndsOf(h)) + EdgeOpen(h, i)', 0)
    BY <1>2, <1>3, <1>4, <1>5, SolveHangingMeets
  <2>2. \A h : EndsOf(h)' = EndsOf(h)
    BY DEF EndsOf
  <2>3. \A S, i : OpenIn(S, i)' = [q \in S |-> Open(q, i)']
    BY DEF OpenIn
  <2> QED BY <1>2, <2>1, <2>2, <2>3 DEF HangingMeets
<1> QED BY <1>1, <1>6, <1>7, <1>8, <1>9 DEF ForceInv, Stated, Forced

-----------------------------------------------------------------------------
(* The forces, which are what is left open. *)

\* A sum of one term.
LEMMA SumOfOne ==
  ASSUME NEW F, NEW a, F[a] \in Int
  PROVE  SumOver(F, {a}) = F[a]
<1>1. IsFiniteSet({a}) /\ {a} \ {a} = {}
  BY FS_Singleton
<1>2. SumOver(F, {a}) = F[a] + SumOver(F, {})
  BY <1>1, SumStep
<1> QED BY <1>2, SumOfNone

\* A component of a sum of vectors.
LEMMA VectorSumPart ==
  ASSUME NEW F, NEW S, IsFiniteSet(S), \A x \in S : F[x] \in Vector, NEW i \in {1, 2}
  PROVE  Congruent(VectorSum(F, S)[i], SumOver([x \in S |-> F[x][i]], S))
<1> DEFINE G == [x \in S |-> F[x][i]]
<1>1. \A x \in S : G[x] \in Int
  BY VectorParts
<1>2. VectorSum(F, S)[i] = Part(F, S, i)
  BY DEF VectorSum
<1>3. Part(F, S, i) = SumOver(G, S) % Modulus
  BY DEF Part
<1> HIDE DEF G
<1>4. SumOver(G, S) \in Int
  BY <1>1, SumStep
<1>5. SumOver(G, S) % Modulus \in Residue
  BY <1>4, ResidueOf
<1>6. Congruent(VectorSum(F, S)[i], SumOver(G, S))
  BY <1>2, <1>3, <1>4, <1>5, ResidueIsNumber DEF Congruent
<1> QED BY <1>6 DEF G

\* What is left open over a set of points' corners and edges.
OpenAt(p, i) ==
  SumOver(OpenIn(Around(p), i), Around(p))
    + SumOver([h \in DividedAt(p) |-> EdgeOpen(h, i)], DividedAt(p))

\* What is left open at a corner or an edge is an integer.
LEMMA OpenType ==
  ASSUME TypeOK, NEW i \in {1, 2}
  PROVE  /\ \A q \in Corners : Open(q, i) \in Int
         /\ \A h \in Hanging : EdgeOpen(h, i) \in Int
<1>1. NodeOK /\ EdgeOK
  BY DEF TypeOK
<1>2. ASSUME NEW q \in Corners
      PROVE  Open(q, i) \in Int
  <2>1. q[1] \in forest /\ q[2] \in Corner
    BY DEF Corners
  <2> DEFINE n == node[q[1]][q[2]]
  <2>2. /\ n.matrix \in Matrix /\ n.velocity \in Int \X Int
        /\ n.rhs \in Vector /\ n.flux \in Vector
    BY <1>1, <2>1, NodeRecordParts
  <2>3. Open(q, i) = (n.rhs[i] - Row(n.matrix, n.velocity, i)) + n.flux[i]
    BY DEF Open
  <2> HIDE DEF n
  <2>4. n.rhs[i] \in Int /\ n.flux[i] \in Int /\ Row(n.matrix, n.velocity, i) \in Int
    BY <2>2, RowIs, VectorParts
  <2> QED BY <2>3, <2>4
<1>3. ASSUME NEW h \in Hanging
      PROVE  EdgeOpen(h, i) \in Int
  <2> DEFINE n == edge[h]
  <2>1. /\ n.matrix \in Matrix /\ n.velocity \in Int \X Int
        /\ n.rhs \in Vector /\ n.flux \in Vector
    BY <1>1, EdgeRecordParts
  <2>2. EdgeOpen(h, i) = (n.rhs[i] - Row(n.matrix, n.velocity, i)) + n.flux[i]
    BY DEF EdgeOpen
  <2> HIDE DEF n
  <2>3. n.rhs[i] \in Int /\ n.flux[i] \in Int /\ Row(n.matrix, n.velocity, i) \in Int
    BY <2>1, RowIs, VectorParts
  <2> QED BY <2>2, <2>3
<1> QED BY <1>2, <1>3

\* The corners and the edges at a point.
LEMMA WhoIsAt ==
  ASSUME SettingOK, NEW c \in forest, NEW k \in Corner
  PROVE  LET p == Point(c, k)
             h == HangingAt(c, k)
         IN  /\ Regular(c, k) => DividedAt(p) = {}
             /\ ~ Regular(c, k) => /\ h \in Hanging /\ DividedAt(p) = {h}
                                   /\ Around(p) = EndsOf(h)
<1> DEFINE p == Point(c, k)
<1>1. ASSUME NEW g \in DividedAt(p)
      PROVE  ~ Regular(c, k) /\ g = HangingAt(c, k)
  <2>1. g \in Hanging /\ Point(g.child[1], WhichCorner(g, 1)) = p
    BY DEF DividedAt
  <2>2. /\ g.child[1] \in forest /\ WhichCorner(g, 1) \in Corner
        /\ ~ Regular(g.child[1], WhichCorner(g, 1))
        /\ HangingAt(g.child[1], WhichCorner(g, 1)) = g
    BY <2>1, TwoEnds
  <2> QED BY <2>1, <2>2, OneWayAtPoint
<1>2. CASE Regular(c, k)
  BY <1>1, <1>2
<1>3. CASE ~ Regular(c, k)
  <2> DEFINE h == HangingAt(c, k)
  <2>1. h \in Hanging
    BY <1>3, HangingAtType
  <2>2. \E j \in {1, 2} : h.child[j] = c /\ WhichCorner(h, j) = k
    <3>1. (CHOOSE q \in HangsAt(c, k) : TRUE) \in HangsAt(c, k)
      BY <1>3 DEF Regular
    <3> QED BY <3>1, HangsAtParts DEF HangingAt
  <2>3. \A j \in {1, 2} : Point(h.child[j], WhichCorner(h, j)) = Point(h.child[1], WhichCorner(h, 1))
    BY <2>1, HangingHere
  <2>4. Point(h.child[1], WhichCorner(h, 1)) = p
    BY <2>2, <2>3
  <2>5. DividedAt(p) = {h}
    <3>1. h \in DividedAt(p)
      BY <2>1, <2>4 DEF DividedAt
    <3> QED BY <1>1, <3>1
  <2>6. EndsOf(h) \subseteq Around(p)
    <3>1. ASSUME NEW q \in EndsOf(h)
          PROVE  q \in Around(p)
      <4>1. PICK j \in {1, 2} : q = <<h.child[j], WhichCorner(h, j)>>
        BY IndicesAre DEF EndsOf
      <4>2. q \in Corners
        BY <2>1, EndsOfHanging
      <4>3. Point(q[1], q[2]) = p
        <5>1. Point(h.child[j], WhichCorner(h, j)) = p
          BY <2>3, <2>4
        <5> QED BY <4>1, <5>1
      <4> QED BY <4>2, <4>3 DEF Around
    <3> QED BY <3>1
  <2>7. Around(p) \subseteq EndsOf(h)
    <3>1. ASSUME NEW q \in Around(p)
          PROVE  q \in EndsOf(h)
      <4>1. /\ q[1] \in forest /\ q[2] \in Corner /\ Point(q[1], q[2]) = p
            /\ q = <<q[1], q[2]>>
        BY DEF Around, Corners
      <4>2. forest \in BalancedForests /\ h \in HangingEdges[forest]
        BY <2>1 DEF SettingOK, Hanging
      <4>3. \E j \in {1, 2} : q[1] = h.child[j] /\ q[2] = WhichCorner(h, j)
        BY <2>4, <4>1, <4>2, CornerAtMiddle
      <4>4. \E j \in Indices : q = <<h.child[j], WhichCorner(h, j)>>
        BY <4>1, <4>3, IndicesAre
      <4> QED BY <4>4 DEF EndsOf
    <3> QED BY <3>1
  <2> QED BY <1>3, <2>1, <2>5, <2>6, <2>7
<1> QED BY <1>2, <1>3

\* Nothing is left open at any point, but for what walls take.
LEMMA OpenMeets ==
  ASSUME TypeOK, RegularMeets, HangingMeets, NEW c \in forest, NEW k \in Corner, NEW i \in {1, 2}
  PROVE  Congruent(OpenAt(Point(c, k), i), 0) \/ Barred(Point(c, k), i)
<1> DEFINE p == Point(c, k)
           F == [h \in DividedAt(p) |-> EdgeOpen(h, i)]
           x == SumOver(OpenIn(Around(p), i), Around(p))
<1>1. SettingOK
  BY DEF TypeOK
<1>2. OpenAt(p, i) = x + SumOver(F, DividedAt(p))
  BY DEF OpenAt
<1>3. CASE Regular(c, k)
  <2>1. Congruent(x, 0) \/ Barred(p, i)
    BY <1>3 DEF RegularMeets
  <2>2. DividedAt(p) = {}
    BY <1>1, <1>3, WhoIsAt
  <2> HIDE DEF F, x
  <2>3. SumOver(F, DividedAt(p)) = 0
    BY <2>2, SumOfNone
  <2>4. Congruent(x, 0) => x + 0 = x
    BY DEF Congruent
  <2> QED BY <1>2, <2>1, <2>3, <2>4
<1>4. CASE ~ Regular(c, k)
  <2> DEFINE h == HangingAt(c, k)
  <2>1. h \in Hanging /\ DividedAt(p) = {h} /\ Around(p) = EndsOf(h)
    BY <1>1, <1>4, WhoIsAt
  <2> HIDE DEF h
  <2>2. F[h] = EdgeOpen(h, i) /\ EdgeOpen(h, i) \in Int
    BY <2>1, OpenType
  <2>3. x = SumOver(OpenIn(EndsOf(h), i), EndsOf(h))
    BY <2>1
  <2> HIDE DEF F, x
  <2>4. SumOver(F, DividedAt(p)) = EdgeOpen(h, i)
    BY <2>1, <2>2, SumOfOne
  <2> QED BY <1>2, <2>1, <2>3, <2>4 DEF HangingMeets
<1> QED BY <1>3, <1>4

-----------------------------------------------------------------------------
(* The forces at a point. *)

\* The model's sum of forces, by sums of functions.
LEMMA ForcesAtIs ==
  ASSUME NEW p
  PROVE  ForcesAt(p) = AllForces(p)
<1> DEFINE S == Around(p)
           H == DividedAt(p)
           F == CornerForces(S)
           G == EdgeForces(H)
           f(q) == Plus(node[q[1]][q[2]].force, node[q[1]][q[2]].flux)
           g(h) == Plus(edge[h].force, edge[h].flux)
<1>1. (\A q \in S : F[q] = f(q)) /\ (\A h \in H : G[h] = g(h))
  BY DEF CornerForces, EdgeForces
<1>2. \A i : /\ [q \in S |-> F[q][i]] = [q \in S |-> f(q)[i]]
             /\ [h \in H |-> G[h][i]] = [h \in H |-> g(h)[i]]
  BY <1>1
<1>3. \A i : /\ SumFunction([q \in S |-> f(q)[i]]) % Modulus = Part(F, S, i)
             /\ SumFunction([h \in H |-> g(h)[i]]) % Modulus = Part(G, H, i)
  <2> TAKE i
  <2>1. /\ SumFunction([q \in S |-> F[q][i]]) % Modulus = Part(F, S, i)
        /\ SumFunction([h \in H |-> G[h][i]]) % Modulus = Part(G, H, i)
    BY SumFunctionIs DEF Part
  <2> QED BY <1>2, <2>1
<1>4. VectorTotal(f, S) = VectorSum(F, S)
  <2> HIDE DEF F, G, f, g, S, H
  <2> QED BY <1>3 DEF VectorTotal, VectorSum, Total
<1>5. VectorTotal(g, H) = VectorSum(G, H)
  <2> HIDE DEF F, G, f, g, S, H
  <2> QED BY <1>3 DEF VectorTotal, VectorSum, Total
<1>6. ForcesAt(p) = Plus(VectorTotal(f, S), VectorTotal(g, H))
  BY DEF ForcesAt, DividedAt
<1>7. AllForces(p) = Plus(VectorSum(F, S), VectorSum(G, H))
  BY DEF AllForces
<1> HIDE DEF F, G, f, g, S, H
<1> QED BY <1>4, <1>5, <1>6, <1>7

\* A force with its share is what is left open, of one equation.
LEMMA ForceWithShare ==
  ASSUME CellOK, NEW c \in forest, NEW push \in Vector, NEW m \in Matrix, NEW u \in Vector,
         NEW r, r = Plus(Scaled(cell[c].cur.pressure, push),
                         MatrixDotVector(m, cell[c].cur.velocity)),
         NEW x \in Vector, NEW i \in {1, 2}
  PROVE  /\ Plus(ForceOn(c, push, m, u), x) \in Vector
         /\ Congruent(Plus(ForceOn(c, push, m, u), x)[i], (r[i] - Row(m, u, i)) + x[i])
<1> DEFINE f == ForceOn(c, push, m, u)
<1>1. f \in Vector
  BY ForceType
<1>2. Congruent(f[i], r[i] - Row(m, u, i))
  BY ForceIsRest
<1> HIDE DEF f
<1>3. f \in Int \X Int /\ x \in Int \X Int
  BY <1>1, VectorIsPair
<1>4. Congruent(Plus(f, x)[i], f[i] + x[i]) /\ x[i] \in Int
  BY <1>3, ComponentsAre
<1>5. Congruent(x[i], x[i])
  BY <1>4, CongruentNumbers
<1>6. Congruent(f[i] + x[i], (r[i] - Row(m, u, i)) + x[i])
  BY <1>2, <1>5, CongruentSums
<1>7. Congruent(Plus(f, x)[i], (r[i] - Row(m, u, i)) + x[i])
  BY <1>4, <1>6, CongruentNumbers
<1>8. Plus(f, x) \in Vector
  BY <1>3, VectorType
<1> QED BY <1>7, <1>8 DEF f

\* The forces at a point are what is left open there.
LEMMA ForcesAreOpen ==
  ASSUME SettingOK, NEW F, NEW G, NEW p, NEW i \in {1, 2},
         \A q \in Around(p) : F[q] \in Vector /\ Congruent(F[q][i], Open(q, i)),
         \A h \in DividedAt(p) : G[h] \in Vector /\ Congruent(G[h][i], EdgeOpen(h, i))
  PROVE  LET v == Plus(VectorSum(F, Around(p)), VectorSum(G, DividedAt(p)))
         IN  v[i] \in Residue /\ Congruent(v[i], OpenAt(p, i))
<1> DEFINE S == Around(p)
           H == DividedAt(p)
           a == VectorSum(F, S)
           b == VectorSum(G, H)
           v == Plus(a, b)
           A == [q \in S |-> F[q][i]]
           B == [h \in H |-> G[h][i]]
           C == OpenIn(S, i)
           D == [h \in H |-> EdgeOpen(h, i)]
<1>1. IsFiniteSet(S) /\ IsFiniteSet(H)
  <2>1. IsFiniteSet(Hanging) /\ H \subseteq Hanging
    BY HangingFinite DEF DividedAt
  <2> QED BY <2>1, CornersFinite, FS_Subset
<1>2. /\ \A q \in S : F[q] \in Vector /\ Congruent(A[q], C[q])
      /\ \A h \in H : G[h] \in Vector /\ Congruent(B[h], D[h])
  BY DEF OpenIn
<1>3. OpenAt(p, i) = SumOver(C, S) + SumOver(D, H)
  BY DEF OpenAt
<1>4. a \in Vector /\ b \in Vector
  <2> HIDE DEF S, H, A, B, C, D
  <2> QED BY <1>1, <1>2, VectorSumType
<1>5. Congruent(a[i], SumOver(A, S)) /\ Congruent(b[i], SumOver(B, H))
  <2> HIDE DEF S, H, C, D
  <2> QED BY <1>1, <1>2, VectorSumPart
<1> HIDE DEF S, H, a, b, A, B, C, D
<1>6. Congruent(SumOver(A, S), SumOver(C, S)) /\ Congruent(SumOver(B, H), SumOver(D, H))
  BY <1>1, <1>2, SumCongruent
<1>7. Congruent(a[i], SumOver(C, S)) /\ Congruent(b[i], SumOver(D, H))
  BY <1>5, <1>6, CongruentNumbers
<1>8. Congruent(v[i], a[i] + b[i]) /\ v \in Vector
  BY <1>4, VectorIsPair, ComponentsAre, VectorType
<1> HIDE DEF v
<1>9. Congruent(a[i] + b[i], SumOver(C, S) + SumOver(D, H))
  BY <1>7, CongruentSums
<1>10. v[i] \in Residue
  BY <1>8, VectorParts
<1>11. Congruent(v[i], OpenAt(p, i))
  BY <1>3, <1>8, <1>9, CongruentNumbers
<1> QED BY <1>10, <1>11 DEF v, a, b, S, H

\* quadrant_compute_corner_force_callback: at each point the forces meet.
LEMMA ComputeForcesMeet ==
  ASSUME IInv, ForceInv, ComputeForces
  PROVE  ForceInv'
<1>1. /\ phase = "forces" /\ phase' = "coordinates" /\ setting' = setting
      /\ node' = [c \in forest |-> [k \in Corner |->
           [node[c][k] EXCEPT !.force =
              ForceOn(c, PushOfHalves(c, k), node[c][k].matrix, node[c][k].velocity)]]]
      /\ edge' = [h \in Hanging |-> [edge[h] EXCEPT !.force =
                    ForceOn(h.parent, EdgePush(edge[h]), edge[h].matrix, edge[h].velocity)]]
  BY DEF ComputeForces, Step
<1>2. /\ SettingOK /\ TypeOK /\ CellOK /\ NodeOK /\ EdgeOK /\ HalfOK
      /\ Corners' = Corners
      /\ \A p : Around(p)' = Around(p) /\ DividedAt(p)' = DividedAt(p)
      /\ \A p, i : Barred(p, i)' = Barred(p, i)
  BY <1>1, PointsStay DEF IInv, TypeOK
<1>3. NodesStated /\ RegularMeets /\ EdgesStated /\ HangingMeets
  BY <1>1 DEF ForceInv, Stated
<1>4. ASSUME NEW q \in Corners, NEW i \in {1, 2}
      PROVE  LET f == Plus(node'[q[1]][q[2]].force, node'[q[1]][q[2]].flux)
             IN  f \in Vector /\ Congruent(f[i], Open(q, i))
  <2>1. q[1] \in forest /\ q[2] \in Corner
    BY DEF Corners
  <2> DEFINE c == q[1]
             k == q[2]
             n == node[c][k]
             push == PushOfHalves(c, k)
             f == ForceOn(c, push, n.matrix, n.velocity)
  <2>2. node'[c][k] = [n EXCEPT !.force = f]
    BY <1>1, <2>1
  <2>3. /\ n \in NodeRecord /\ n.matrix \in Matrix /\ n.velocity \in Vector /\ n.flux \in Vector
    BY <1>2, <2>1, NodeRecordParts
  <2>4. push \in Vector
    BY <1>2, <2>1, PushType
  <2>5. n.rhs = Plus(Scaled(cell[c].cur.pressure, push),
                     MatrixDotVector(n.matrix, cell[c].cur.velocity))
    <3>1. NodeStated(c, k)
      BY <1>3, <2>1 DEF NodesStated
    <3> QED BY <3>1, PushOfHalvesIs DEF NodeStated
  <2>6. Open(q, i) = (n.rhs[i] - Row(n.matrix, n.velocity, i)) + n.flux[i]
    BY DEF Open
  <2> HIDE DEF n, push
  <2>7. Plus(f, n.flux) \in Vector /\ Congruent(Plus(f, n.flux)[i], Open(q, i))
    BY <1>2, <2>1, <2>3, <2>4, <2>5, <2>6, ForceWithShare
  <2> HIDE DEF f
  <2>8. node'[c][k].force = f /\ node'[c][k].flux = n.flux
    BY <2>2, <2>3 DEF NodeRecord
  <2> QED BY <2>7, <2>8
<1>5. ASSUME NEW h \in Hanging, NEW i \in {1, 2}
      PROVE  LET f == Plus(edge'[h].force, edge'[h].flux)
             IN  f \in Vector /\ Congruent(f[i], EdgeOpen(h, i))
  <2> DEFINE c == h.parent
             n == edge[h]
             push == EdgePush(n)
             f == ForceOn(c, push, n.matrix, n.velocity)
  <2>1. c \in forest
    BY <1>2, HangingParts
  <2>2. edge'[h] = [n EXCEPT !.force = f]
    BY <1>1
  <2>3. /\ n \in EdgeRecord /\ n.matrix \in Matrix /\ n.velocity \in Vector /\ n.flux \in Vector
    BY <1>2, EdgeRecordParts
  <2>4. push \in Vector
    BY <1>2, EdgePushType
  <2>5. n.rhs = Plus(Scaled(cell[c].cur.pressure, push),
                     MatrixDotVector(n.matrix, cell[c].cur.velocity))
    BY <1>3 DEF EdgesStated, EdgeStated
  <2>6. EdgeOpen(h, i) = (n.rhs[i] - Row(n.matrix, n.velocity, i)) + n.flux[i]
    BY DEF EdgeOpen
  <2> HIDE DEF c, n, push
  <2>7. Plus(f, n.flux) \in Vector /\ Congruent(Plus(f, n.flux)[i], EdgeOpen(h, i))
    BY <1>2, <2>1, <2>3, <2>4, <2>5, <2>6, ForceWithShare
  <2> HIDE DEF f
  <2>8. edge'[h].force = f /\ edge'[h].flux = n.flux
    BY <2>2, <2>3 DEF EdgeRecord
  <2> QED BY <2>7, <2>8
<1>6. ASSUME NEW q \in Corners, NEW i \in {1, 2}
      PROVE  LET p == Point(q[1], q[2])
             IN  AllForces(p)'[i] = 0 \/ Barred(p, i)
  <2> DEFINE p == Point(q[1], q[2])
             S == Around(p)
             H == DividedAt(p)
             F == [r \in S |-> Plus(node'[r[1]][r[2]].force, node'[r[1]][r[2]].flux)]
             G == [h \in H |-> Plus(edge'[h].force, edge'[h].flux)]
  <2>1. q[1] \in forest /\ q[2] \in Corner
    BY DEF Corners
  <2>2. Congruent(OpenAt(p, i), 0) \/ Barred(p, i)
    BY <1>2, <1>3, <2>1, OpenMeets
  <2>3. CornerForces(S)' = F /\ EdgeForces(H)' = G
    BY <1>2 DEF CornerForces, EdgeForces
  <2>4. AllForces(p)' = Plus(VectorSum(F, S), VectorSum(G, H))
    <3>1. S' = S /\ H' = H
      BY <1>2
    <3> HIDE DEF F, G
    <3>2. AllForces(p)' = Plus(VectorSum(CornerForces(S)', S'), VectorSum(EdgeForces(H)', H'))
      BY DEF AllForces
    <3> QED BY <2>3, <3>1, <3>2
  <2>5. \A r \in S : F[r] \in Vector /\ Congruent(F[r][i], Open(r, i))
    <3> TAKE r \in S
    <3>1. r \in Corners
      BY DEF Around
    <3>2. F[r] = Plus(node'[r[1]][r[2]].force, node'[r[1]][r[2]].flux)
      OBVIOUS
    <3> HIDE DEF F
    <3> QED BY <1>4, <3>1, <3>2
  <2>6. \A h \in H : G[h] \in Vector /\ Congruent(G[h][i], EdgeOpen(h, i))
    <3> TAKE h \in H
    <3>1. h \in Hanging
      BY DEF DividedAt
    <3>2. G[h] = Plus(edge'[h].force, edge'[h].flux)
      OBVIOUS
    <3> HIDE DEF G
    <3> QED BY <1>5, <3>1, <3>2
  <2> DEFINE v == Plus(VectorSum(F, S), VectorSum(G, H))
  <2>7. v[i] \in Residue /\ Congruent(v[i], OpenAt(p, i))
    <3> HIDE DEF F, G
    <3> QED BY <1>2, <2>5, <2>6, ForcesAreOpen
  <2> HIDE DEF v, p
  <2>8. Congruent(OpenAt(p, i), 0) => v[i] = 0
    <3>1. 0 \in Residue
      BY UnitType
    <3> QED BY <2>7, <3>1, CongruentNumbers
  <2>9. AllForces(p)' = v
    BY <2>4 DEF v, p
  <2> QED BY <2>2, <2>8, <2>9 DEF p
<1>7. AllMeet'
  BY <1>2, <1>6 DEF AllMeet
<1> QED BY <1>1, <1>7 DEF ForceInv, Stated, Forced

-----------------------------------------------------------------------------
(* The forces meet at every point, whatever follows. *)

\* Forces that stay go on to meet.
LEMMA ForcesStay ==
  ASSUME ForceInv, setting' = setting, edge' = edge, phase \in Forced, phase' \in Forced,
         \A c \in forest : \A k \in Corner :
           node'[c][k].force = node[c][k].force /\ node'[c][k].flux = node[c][k].flux
  PROVE  ForceInv'
<1>1. /\ Corners' = Corners
      /\ \A p : Around(p)' = Around(p) /\ DividedAt(p)' = DividedAt(p)
      /\ \A p, i : Barred(p, i)' = Barred(p, i)
  BY PointsStay
<1>2. ASSUME NEW p
      PROVE  AllForces(p)' = AllForces(p)
  <2> DEFINE S == Around(p)
             H == DividedAt(p)
  <2>1. S' = S /\ H' = H
    BY <1>1
  <2>2. \A q \in S : q[1] \in forest /\ q[2] \in Corner
    BY DEF Around, Corners
  <2> HIDE DEF S, H
  <2>3. CornerForces(S)' = CornerForces(S)
    BY <2>1, <2>2 DEF CornerForces
  <2>4. EdgeForces(H)' = EdgeForces(H)
    BY <2>1 DEF EdgeForces
  <2>5. AllForces(p) = Plus(VectorSum(CornerForces(S), S), VectorSum(EdgeForces(H), H))
    BY DEF AllForces, S, H
  <2>6. AllForces(p)' = Plus(VectorSum(CornerForces(S)', S'), VectorSum(EdgeForces(H)', H'))
    BY DEF AllForces, S, H
  <2> QED BY <2>1, <2>3, <2>4, <2>5, <2>6
<1>3. AllMeet'
  BY <1>1, <1>2 DEF AllMeet, ForceInv
<1> QED BY <1>3 DEF ForceInv, Stated, Forced

\* There is nothing to meet in the beginning.
LEMMA InitForceInv == Init => ForceInv
BY DEF Init, ForceInv, Stated, Forced

\* Every step keeps what is said of equations and forces.
LEMMA NextForceInv ==
  ASSUME IInv, PlaceInv, ForceInv, NothingSingular, [Next]_vars
  PROVE  ForceInv'
<1>1. NodeOK /\ SettingOK
  BY DEF IInv, TypeOK
<1>2. ASSUME phase' \in {"geometry", "amr", "master", "corners"}
      PROVE  ForceInv'
  BY <1>2 DEF ForceInv, Stated, Forced
<1>3. CASE GetBoundary
  BY <1>2, <1>3 DEF GetBoundary, Step
<1>4. CASE HalfCorner
  BY <1>2, <1>4 DEF HalfCorner, Step
<1>5. CASE GetAMRBoundary
  BY <1>2, <1>5 DEF GetAMRBoundary, Step
<1>6. CASE WriteMasters
  BY <1>2, <1>6 DEF WriteMasters, Step
<1>7. CASE AssembleCorners
  BY <1>7, AssembleCornersForces
<1>8. CASE AssemblePoints
  BY <1>8, AssemblePointsForces
<1>9. CASE SolveCorners
  BY <1>9, SolveCornersForces
<1>10. CASE AssembleEdges
  BY <1>10, AssembleEdgesForces
<1>11. CASE SolveHanging
  BY <1>11, SolveHangingForces
<1>12. CASE ComputeForces
  BY <1>12, ComputeForcesMeet
<1>13. CASE MoveCorners
  <2>1. /\ setting' = setting /\ edge' = edge /\ phase = "coordinates" /\ phase' = "density"
        /\ node' = [c \in forest |-> [k \in Corner |-> [node[c][k] EXCEPT !.lag =
             Plus(Middle(node[c][k].cur, node[c][k].lag),
                  Scaled(TimeStep, node[c][k].velocity))]]]
    BY <1>13 DEF MoveCorners, Step
  <2>2. ASSUME NEW c \in forest, NEW k \in Corner
        PROVE  node'[c][k].force = node[c][k].force /\ node'[c][k].flux = node[c][k].flux
    <3> DEFINE x == Plus(Middle(node[c][k].cur, node[c][k].lag),
                         Scaled(TimeStep, node[c][k].velocity))
    <3>1. node'[c][k] = [node[c][k] EXCEPT !.lag = x] /\ node[c][k] \in NodeRecord
      BY <1>1, <2>1, NodeRecordParts
    <3> HIDE DEF x
    <3> QED BY <3>1 DEF NodeRecord
  <2> QED BY <2>1, <2>2, ForcesStay DEF Forced
<1>14. CASE UpdateDensity
  BY <1>14, ForcesStay DEF UpdateDensity, Step, Forced
<1>15. CASE UpdateCells
  BY <1>15, ForcesStay DEF UpdateCells, Step, Forced
<1>16. CASE Accept
  <2>1. /\ setting' = setting /\ edge' = edge /\ phase = "accept" /\ phase' = "accepted"
        /\ node' = [c \in forest |-> [k \in Corner |->
             [node[c][k] EXCEPT !.cur = node[c][k].lag]]]
    BY <1>16 DEF Accept, Step
  <2>2. ASSUME NEW c \in forest, NEW k \in Corner
        PROVE  node'[c][k].force = node[c][k].force /\ node'[c][k].flux = node[c][k].flux
    <3>1. node'[c][k] = [node[c][k] EXCEPT !.cur = node[c][k].lag] /\ node[c][k] \in NodeRecord
      BY <1>1, <2>1, NodeRecordParts
    <3> QED BY <3>1 DEF NodeRecord
  <2> QED BY <2>1, <2>2, ForcesStay DEF Forced
<1>17. CASE UNCHANGED vars
  <2>1. /\ setting' = setting /\ node' = node /\ point' = point /\ phase' = phase
        /\ cell' = cell /\ half' = half /\ edge' = edge
    BY <1>17 DEF vars, setting
  <2>2. CASE phase \in Forced
    BY <2>1, <2>2, ForcesStay
  <2>3. CASE phase \notin Forced
    <3>1. /\ forest' = forest /\ Hanging' = Hanging
          /\ \A c, k : Regular(c, k)' = Regular(c, k)
          /\ \A p : Around(p)' = Around(p)
      BY <2>1, PointsStay
    <3>2. phase \in Stated => NodesStated' /\ NoFlux'
      <4>1. ASSUME phase \in Stated
            PROVE  NodesStated' /\ NoFlux'
        <5>1. NodesStated /\ NoFlux
          BY <4>1 DEF ForceInv
        <5>2. NodesStated'
          BY <2>1, <3>1, <5>1, NodesStay
        <5> QED BY <2>1, <3>1, <5>1, <5>2 DEF NoFlux
      <4> QED BY <4>1
    <3>3. phase = "velocity" => PointSums'
      <4>1. \A S : CornerMatrices(S)' = CornerMatrices(S) /\ CornerSides(S)' = CornerSides(S)
        BY <2>1 DEF CornerMatrices, CornerSides
      <4> QED BY <2>1, <3>1, <4>1 DEF ForceInv, PointSums
    <3>4. phase \in {"edges", "hanging", "forces"} => RegularMeets'
      <4>1. \A c \in forest : \A k \in Corner : Regular(c, k) => node'[c][k] = node[c][k]
        BY <2>1
      <4> QED BY <1>1, <2>1, <4>1, RegularMeetsStays DEF ForceInv
    <3>5. phase \in {"hanging", "forces"} => EdgesStated'
      <4>1. \A h : EdgeStated(h)' <=> EdgeStated(h)
        BY <2>1 DEF EdgeStated
      <4> QED BY <3>1, <4>1 DEF ForceInv, EdgesStated
    <3>6. phase = "hanging" => EndSums'
      <4>1. \A S : CornerMatrices(S)' = CornerMatrices(S) /\ CornerSides(S)' = CornerSides(S)
        BY <2>1 DEF CornerMatrices, CornerSides
      <4>2. \A h : EndsOf(h)' = EndsOf(h)
        BY DEF EndsOf
      <4> QED BY <2>1, <3>1, <4>1, <4>2 DEF ForceInv, EndSums
    <3>7. phase = "forces" => HangingMeets'
      <4>1. \A h : EndsOf(h)' = EndsOf(h)
        BY DEF EndsOf
      <4>2. \A S, i : OpenIn(S, i)' = OpenIn(S, i)
        BY <2>1, OpenStays
      <4>3. \A h, i : EdgeOpen(h, i)' = EdgeOpen(h, i)
        BY <2>1 DEF EdgeOpen
      <4> QED BY <3>1, <4>1, <4>2, <4>3 DEF ForceInv, HangingMeets
    <3> QED BY <2>1, <2>3, <3>2, <3>3, <3>4, <3>5, <3>6, <3>7 DEF ForceInv
  <2> QED BY <2>2, <2>3
<1> QED
  BY <1>3, <1>4, <1>5, <1>6, <1>7, <1>8, <1>9, <1>10, <1>11, <1>12, <1>13, <1>14, <1>15,
     <1>16, <1>17 DEF Next

\* The forces of the leaves around a point, with the shares of a hanging one,
\* have no sum but what a wall gives back: the velocity of the point solves
\* the sum of their equations, and the shares are all of what is left of it.
THEOREM ForcesAlwaysMeet == Spec /\ []NothingSingular => []ForcesMeet
<1>1. Init => IInv /\ PlaceInv /\ ForceInv
  BY InitIInv, InitPlaceInv, InitForceInv
<1>2. IInv /\ PlaceInv /\ ForceInv /\ NothingSingular /\ [Next]_vars
        => IInv' /\ PlaceInv' /\ ForceInv'
  BY NextIInv, NextPlaceInv, NextForceInv
<1>3. IInv /\ ForceInv => ForcesMeet
  <2> SUFFICES ASSUME IInv, ForceInv, Since("coordinates"),
                      NEW q \in Corners, NEW i \in 1..2
               PROVE  \/ ForcesAt(Point(q[1], q[2]))[i] = 0
                      \/ \E f \in Face : /\ OnFace(Point(q[1], q[2]), f)
                                         /\ boundary[f] = "wall" /\ Across2(f) = i
    BY DEF ForcesMeet
  <2>1. phase \in Forced
    <3>1. phase \in Phases
      BY DEF IInv, TypeOK
    <3> QED BY <3>1, SinceIs DEF Forced
  <2>2. i \in {1, 2}
    OBVIOUS
  <2>3. AllForces(Point(q[1], q[2]))[i] = 0 \/ Barred(Point(q[1], q[2]), i)
    BY <2>1, <2>2 DEF ForceInv, AllMeet
  <2> QED BY <2>3, ForcesAtIs DEF Barred
<1> QED BY <1>1, <1>2, <1>3, PTL DEF Spec

-----------------------------------------------------------------------------
(* Work, by leaves. *)

\* The part of S that g sends to p.
Group(S, g, p) == {x \in S : g[x] = p}

\* What H says of groups is the sum of F over each.
BySums(H, F, S, g, P) == \A p \in P : H[p] = SumOver(F, Group(S, g, p))

\* A sum by groups, of which g tells the members.
LEMMA SumByGroups ==
  ASSUME NEW F, NEW S, IsFiniteSet(S), \A x \in S : F[x] \in Int,
         NEW g, NEW P, IsFiniteSet(P), \A x \in S : g[x] \in P,
         NEW H, BySums(H, F, S, g, P)
  PROVE  /\ SumOver(H, P) = SumOver(F, S)
         /\ \A p \in P : H[p] \in Int
<1> DEFINE I(p) == Group(S, g, p)
           U(s) == {x \in S : g[x] \in s}
           Q == {s \in SUBSET P : SumOver(H, s) = SumOver(F, U(s))}
<1>1. \A p \in P : H[p] = SumOver(F, I(p))
  BY DEF BySums
<1>2. ASSUME NEW T, T \subseteq S
      PROVE  IsFiniteSet(T) /\ SumOver(F, T) \in Int /\ \A x \in T : F[x] \in Int
  <2>1. IsFiniteSet(T) /\ \A x \in T : F[x] \in Int
    BY <1>2, FS_Subset
  <2> QED BY <2>1, SumStep
<1>3. \A p : I(p) \subseteq S
  BY DEF Group
<1>4. \A s : U(s) \subseteq S
  OBVIOUS
<1>5. \A p \in P : H[p] \in Int
  <2> HIDE DEF I
  <2> QED BY <1>1, <1>2, <1>3
<1>6. U({}) = {} /\ U(P) = S
  OBVIOUS
<1>7. \A s, z : z \in s => U(s) = I(z) \cup U(s \ {z}) /\ I(z) \cap U(s \ {z}) = {}
  BY DEF Group
<1> HIDE DEF I, U
<1>8. {} \in Q
  <2>1. SumOver(H, {}) = 0 /\ SumOver(F, {}) = 0
    BY SumOfNone
  <2> QED BY <1>6, <2>1
<1>9. ASSUME NEW s \in SUBSET P, s # {}, \A z \in s : s \ {z} \in Q
      PROVE  s \in Q
  <2>1. PICK z : z \in s
    BY <1>9
  <2>2. IsFiniteSet(s) /\ \A p \in s : H[p] \in Int
    BY <1>5, FS_Subset
  <2>3. SumOver(H, s) = H[z] + SumOver(H, s \ {z})
    BY <2>1, <2>2, SumStep
  <2>4. SumOver(H, s \ {z}) = SumOver(F, U(s \ {z}))
    BY <1>9, <2>1
  <2>5. H[z] = SumOver(F, I(z))
    BY <1>1, <2>1
  <2>6. SumOver(F, I(z) \cup U(s \ {z})) = SumOver(F, I(z)) + SumOver(F, U(s \ {z}))
    <3>1. /\ IsFiniteSet(I(z)) /\ IsFiniteSet(U(s \ {z}))
          /\ \A x \in I(z) \cup U(s \ {z}) : F[x] \in Int
      BY <1>2, <1>3, <1>4
    <3>2. I(z) \cap U(s \ {z}) = {}
      BY <1>7, <2>1
    <3> QED BY <3>1, <3>2, SumOfTwo
  <2>7. SumOver(H, s) = SumOver(F, U(s))
    BY <1>7, <2>1, <2>3, <2>4, <2>5, <2>6
  <2> QED BY <2>7
<1> HIDE DEF Q
<1>10. SUBSET P \subseteq Q
  BY <1>8, <1>9, SubsetInduction
<1>11. P \in Q
  BY <1>10
<1>12. SumOver(H, P) = SumOver(F, S)
  BY <1>6, <1>11 DEF Q
<1> QED BY <1>5, <1>12

\* The work at corners and at edges.
CornerWork ==
  [q \in Corners |-> Dot(node[q[1]][q[2]].velocity, Plus(node[q[1]][q[2]].force, node[q[1]][q[2]].flux))]
EdgeWork == [h \in Hanging |-> Dot(edge[h].velocity, Plus(edge[h].force, edge[h].flux))]
CornersOf(c) == {q \in Corners : q[1] = c}
EdgesOf(c) == {h \in Hanging : h.parent = c}

\* They are numbers.
LEMMA WorkType ==
  ASSUME TypeOK
  PROVE  /\ \A q \in Corners : CornerWork[q] \in Int
         /\ \A h \in Hanging : EdgeWork[h] \in Int
<1>1. NodeOK /\ EdgeOK
  BY DEF TypeOK
<1>2. ASSUME NEW q \in Corners
      PROVE  CornerWork[q] \in Int
  <2>1. q[1] \in forest /\ q[2] \in Corner
    BY DEF Corners
  <2> DEFINE n == node[q[1]][q[2]]
  <2>2. n.velocity \in Int \X Int /\ n.force \in Int \X Int /\ n.flux \in Int \X Int
    BY <1>1, <2>1, NodeRecordParts, VectorIsPair
  <2>3. CornerWork[q] = Dot(n.velocity, Plus(n.force, n.flux))
    BY DEF CornerWork
  <2> HIDE DEF n
  <2>4. Plus(n.force, n.flux) \in Int \X Int
    BY <2>2, VectorType, VectorIsPair
  <2> QED BY <2>2, <2>3, <2>4, VectorType, ResidueIsInt
<1>3. ASSUME NEW h \in Hanging
      PROVE  EdgeWork[h] \in Int
  <2> DEFINE n == edge[h]
  <2>1. n.velocity \in Int \X Int /\ n.force \in Int \X Int /\ n.flux \in Int \X Int
    BY <1>1, EdgeRecordParts, VectorIsPair
  <2>2. EdgeWork[h] = Dot(n.velocity, Plus(n.force, n.flux))
    BY DEF EdgeWork
  <2> HIDE DEF n
  <2>3. Plus(n.force, n.flux) \in Int \X Int
    BY <2>1, VectorType, VectorIsPair
  <2> QED BY <2>1, <2>2, <2>3, VectorType, ResidueIsInt
<1> QED BY <1>2, <1>3

\* The names of corners and faces differ.
LEMMA CornerIsNoFace == \A k \in Corner : k \notin Face
BY DEF Corner, Face

\* The work on a leaf is that at its corners and its divided edges.
LEMMA WorkOfLeaf ==
  ASSUME TypeOK, NEW c \in forest
  PROVE  Congruent(WorkOn(c), SumOver(CornerWork, CornersOf(c)) + SumOver(EdgeWork, EdgesOf(c)))
<1> DEFINE S == Acting(c)
           W == [a \in S |-> Dot(a.velocity, a.force)]
           F == [q \in Corners |->
                  [at |-> q[2], velocity |-> node[q[1]][q[2]].velocity,
                   force |-> Plus(node[q[1]][q[2]].force, node[q[1]][q[2]].flux)]]
           G == [h \in Hanging |-> [at |-> h.face, velocity |-> edge[h].velocity,
                                    force |-> Plus(edge[h].force, edge[h].flux)]]
           K == CornersOf(c)
           E == EdgesOf(c)
           A == {F[q] : q \in K}
           B == {G[h] : h \in E}
<1>1. SettingOK
  BY DEF TypeOK
<1>2. IsFiniteSet(K) /\ IsFiniteSet(E) /\ K \subseteq Corners /\ E \subseteq Hanging
  <2>1. K \subseteq Corners /\ E \subseteq Hanging
    BY DEF CornersOf, EdgesOf
  <2> HIDE DEF K, E
  <2> QED BY <1>1, <2>1, CornersFinite, HangingFinite, FS_Subset
<1>3. S = A \cup B
  <2>1. K = {<<c, k>> : k \in Corner}
    BY DEF CornersOf, Corners
  <2>2. \A k \in Corner :
          F[<<c, k>>] = [at |-> k, velocity |-> node[c][k].velocity,
                         force |-> Plus(node[c][k].force, node[c][k].flux)]
    BY DEF Corners
  <2>3. A = {[at |-> k, velocity |-> node[c][k].velocity,
              force |-> Plus(node[c][k].force, node[c][k].flux)] : k \in Corner}
    <3> HIDE DEF F, K
    <3>1. A = {F[q] : q \in {<<c, k>> : k \in Corner}}
      BY <2>1
    <3>2. A = {F[<<c, k>>] : k \in Corner}
      <4> HIDE DEF A
      <4> QED BY <3>1
    <3> HIDE DEF A
    <3> QED BY <2>2, <3>2
  <2>4. B = {[at |-> h.face, velocity |-> edge[h].velocity,
              force |-> Plus(edge[h].force, edge[h].flux)] : h \in {e \in Hanging : e.parent = c}}
    BY DEF EdgesOf
  <2> QED BY <2>3, <2>4 DEF Acting
<1>4. (\A q \in K : F[q].at = q[2] /\ q[2] \in Corner /\ q = <<c, q[2]>>)
      /\ (\A h \in E : G[h].at = h.face /\ h.face \in Face /\ h.parent = c)
  <2>1. \A q \in K : F[q].at = q[2] /\ q[2] \in Corner /\ q = <<c, q[2]>>
    BY DEF CornersOf, Corners
  <2>2. \A h \in E : G[h].at = h.face /\ h.face \in Face /\ h.parent = c
    <3> TAKE h \in E
    <3>1. h \in Hanging /\ h.parent = c
      BY DEF EdgesOf
    <3> QED BY <1>1, <3>1, HangingParts
  <2> QED BY <2>1, <2>2
<1>5. A \cap B = {}
  <2> HIDE DEF F, G, K, E
  <2> QED BY <1>4, CornerIsNoFace
<1>6. \A x, y \in K : F[x] = F[y] => x = y
  <2> HIDE DEF F, K
  <2> QED BY <1>4
<1>7. \A x, y \in E : G[x] = G[y] => x = y
  <2>1. \A x, y \in E : ParentFace[x] = ParentFace[y] => x = y
    BY <1>1, <1>2, FacesAtEdges
  <2> TAKE x, y \in E
  <2>2. ASSUME G[x] = G[y]
        PROVE  ParentFace[x] = ParentFace[y]
    <3>1. x.face = y.face /\ x.parent = y.parent
      <4> HIDE DEF G, E
      <4> QED BY <1>4, <2>2
    <3> QED BY <1>2, <3>1 DEF ParentFace
  <2> HIDE DEF G, E
  <2> QED BY <2>1, <2>2
<1>8. \A a \in S : W[a] \in Int
  <2>1. \A a \in S : a.velocity \in Vector /\ a.force \in Vector
    BY ActingParts
  <2> QED BY <2>1, VectorIsPair, VectorType, ResidueIsInt
<1>9. \A q \in K : F[q] \in S /\ W[F[q]] = CornerWork[q]
  <2> TAKE q \in K
  <2>1. F[q] \in S
    BY <1>3
  <2>2. W[F[q]] = Dot(F[q].velocity, F[q].force)
    BY <2>1
  <2> HIDE DEF W
  <2> QED BY <1>2, <2>1, <2>2 DEF CornerWork
<1>10. \A h \in E : G[h] \in S /\ W[G[h]] = EdgeWork[h]
  <2> TAKE h \in E
  <2>1. G[h] \in S
    BY <1>3
  <2>2. W[G[h]] = Dot(G[h].velocity, G[h].force)
    BY <2>1
  <2> HIDE DEF W
  <2> QED BY <1>2, <2>1, <2>2 DEF EdgeWork
<1>11. WorkOn(c) = SumFunction(W) % Modulus
  BY DEF WorkOn, Total
<1>12. DOMAIN W = S
  OBVIOUS
<1>13. IsFiniteSet(S)
  BY ActingParts
<1> HIDE DEF W, F, G, K, E, S
<1>14. SumOver(W, A) = SumOver(CornerWork, K)
  <2>1. \A q \in K : W[F[q]] \in Int
    BY <1>8, <1>9
  <2>2. SumOver(W, A) = SumOver([q \in K |-> W[F[q]]], K)
    BY <1>2, <1>6, <2>1, SumOfImage
  <2> DEFINE X == [q \in K |-> W[F[q]]]
  <2>3. \A q \in K : X[q] = CornerWork[q]
    BY <1>9
  <2> HIDE DEF X
  <2>4. SumOver(X, K) = SumOver(CornerWork, K)
    BY <1>2, <2>3, SameTerms
  <2> QED BY <2>2, <2>4 DEF X
<1>15. SumOver(W, B) = SumOver(EdgeWork, E)
  <2>1. \A h \in E : W[G[h]] \in Int
    BY <1>8, <1>10
  <2>2. SumOver(W, B) = SumOver([h \in E |-> W[G[h]]], E)
    BY <1>2, <1>7, <2>1, SumOfImage
  <2> DEFINE X == [h \in E |-> W[G[h]]]
  <2>3. \A h \in E : X[h] = EdgeWork[h]
    BY <1>10
  <2> HIDE DEF X
  <2>4. SumOver(X, E) = SumOver(EdgeWork, E)
    BY <1>2, <2>3, SameTerms
  <2> QED BY <2>2, <2>4 DEF X
<1>16. IsFiniteSet(A) /\ IsFiniteSet(B)
  BY <1>2, ImageFinite
<1> HIDE DEF A, B
<1>17. SumOver(W, S) = SumOver(W, A) + SumOver(W, B)
  BY <1>3, <1>5, <1>8, <1>16, SumOfTwo
<1>18. SumFunction(W) = SumOver(W, S) /\ SumOver(W, S) \in Int /\ SumFunction(W) % Modulus \in Residue
  BY <1>8, <1>12, <1>13, TotalIs
<1>19. Congruent(WorkOn(c), SumOver(W, S))
  BY <1>11, <1>18, ResidueIsNumber DEF Congruent
<1> QED BY <1>14, <1>15, <1>17, <1>19 DEF K, E

-----------------------------------------------------------------------------
(* Work, by points. *)

\* F is what velocity <<x, y>> gets of the forces with components A and B.
Dots(F, A, B, S, x, y) ==
  \A q \in S : A[q] \in Int /\ B[q] \in Int /\ Congruent(F[q], A[q] * x + B[q] * y)

\* The work of several forces on one velocity is that of their sum.
LEMMA SumOfDots ==
  ASSUME NEW F, NEW A, NEW B, NEW S, IsFiniteSet(S), NEW x \in Int, NEW y \in Int,
         Dots(F, A, B, S, x, y)
  PROVE  Congruent(SumOver(F, S), SumOver(A, S) * x + SumOver(B, S) * y)
<1> DEFINE N == [q \in S |-> 0]
           G == [q \in S |-> 0 - (A[q] * (-x) + B[q] * (-y))]
           a == SumOver(A, S)
           b == SumOver(B, S)
<1>1. \A q \in S : A[q] \in Int /\ B[q] \in Int /\ Congruent(F[q], A[q] * x + B[q] * y)
  BY DEF Dots
<1>2. \A q \in S : /\ N[q] = 0 /\ G[q] = 0 - (A[q] * (-x) + B[q] * (-y))
  OBVIOUS
<1>3. -x \in Int /\ -y \in Int
  OBVIOUS
<1> HIDE DEF N, G
<1>4. Rests(G, N, A, B, S, -x, -y)
  <2> SUFFICES ASSUME NEW q \in S
               PROVE  /\ N[q] \in Int /\ A[q] \in Int /\ B[q] \in Int
                      /\ G[q] = N[q] - (A[q] * (-x) + B[q] * (-y))
    BY DEF Rests
  <2>1. N[q] = 0 /\ G[q] = 0 - (A[q] * (-x) + B[q] * (-y))
    BY <1>2
  <2>2. A[q] \in Int /\ B[q] \in Int
    BY <1>1
  <2> QED BY <2>1, <2>2
<1>5. SumOver(G, S) = SumOver(N, S) - (a * (-x) + b * (-y))
  BY <1>3, <1>4, SumOfRests
<1>6. SumOver(N, S) \in Int /\ Congruent(SumOver(N, S), 0)
  <2>1. \A q \in S : N[q] \in Int /\ Congruent(N[q], 0)
    BY <1>2, CongruentNumbers
  <2> QED BY <2>1, SumStep, SumOfZeros
<1>7. a \in Int /\ b \in Int
  <2>1. \A q \in S : A[q] \in Int /\ B[q] \in Int
    BY <1>1
  <2> QED BY <2>1, SumStep
<1>8. \A q \in S : Congruent(F[q], G[q])
  <2> TAKE q \in S
  <2>1. A[q] \in Int /\ B[q] \in Int /\ Congruent(F[q], A[q] * x + B[q] * y)
    BY <1>1
  <2>2. G[q] = 0 - (A[q] * (-x) + B[q] * (-y))
    BY <1>2
  <2>3. 0 - (A[q] * (-x) + B[q] * (-y)) = A[q] * x + B[q] * y
    BY <2>1
  <2> QED BY <2>1, <2>2, <2>3
<1>9. Congruent(SumOver(F, S), SumOver(G, S))
  BY <1>8, SumCongruent
<1> HIDE DEF a, b
<1> DEFINE w == a * x + b * y
<1>10. 0 - (a * (-x) + b * (-y)) = w /\ w \in Int /\ a * (-x) + b * (-y) \in Int
  BY <1>7
<1>11. Congruent(SumOver(G, S), w)
  <2>1. Congruent(a * (-x) + b * (-y), a * (-x) + b * (-y))
    BY <1>10, CongruentNumbers
  <2>2. Congruent(SumOver(N, S) - (a * (-x) + b * (-y)), 0 - (a * (-x) + b * (-y)))
    BY <1>6, <2>1, CongruentSums
  <2> QED BY <1>5, <1>10, <2>2
<1> HIDE DEF w
<1>12. Congruent(SumOver(F, S), w)
  BY <1>9, <1>11, CongruentNumbers
<1> QED BY <1>12 DEF w, a, b

\* The product of two vectors.
LEMMA DotIs ==
  ASSUME NEW u \in Int \X Int, NEW v \in Int \X Int
  PROVE  /\ u[1] \in Int /\ u[2] \in Int /\ v[1] \in Int /\ v[2] \in Int
         /\ Congruent(Dot(u, v), v[1] * u[1] + v[2] * u[2])
<1>1. u[1] \in Int /\ u[2] \in Int /\ v[1] \in Int /\ v[2] \in Int
  BY PairIs
<1>2. Congruent(u[1], u[1]) /\ Congruent(u[2], u[2]) /\ Congruent(v[1], v[1]) /\ Congruent(v[2], v[2])
  BY <1>1, CongruentNumbers
<1>3. Congruent(u[1] \otimes v[1], u[1] * v[1]) /\ Congruent(u[2] \otimes v[2], u[2] * v[2])
  BY <1>2, CongruentResidues
<1>4. Congruent(Dot(u, v), u[1] * v[1] + u[2] * v[2])
  BY <1>3, CongruentResidues DEF Dot
<1>5. u[1] * v[1] = v[1] * u[1] /\ u[2] * v[2] = v[2] * u[2]
  BY <1>1
<1> QED BY <1>1, <1>4, <1>5

\* The work of vectors F at S, all on velocity u, is that of their sum.
LEMMA WorkOfSum ==
  ASSUME NEW S, IsFiniteSet(S), NEW u \in Int \X Int, NEW F, \A q \in S : F[q] \in Vector,
         NEW W, \A q \in S : W[q] = Dot(u, F[q])
  PROVE  /\ VectorSum(F, S) \in Vector
         /\ Congruent(SumOver(W, S), VectorSum(F, S)[1] * u[1] + VectorSum(F, S)[2] * u[2])
<1> DEFINE A == [q \in S |-> F[q][1]]
           B == [q \in S |-> F[q][2]]
           v == VectorSum(F, S)
           x == u[1]
           y == u[2]
<1>1. \A q \in S : A[q] = F[q][1] /\ B[q] = F[q][2]
  OBVIOUS
<1>2. v \in Vector
  BY VectorSumType
<1>3. Congruent(v[1], SumOver(A, S)) /\ Congruent(v[2], SumOver(B, S))
  <2>1. 1 \in {1, 2} /\ 2 \in {1, 2}
    OBVIOUS
  <2>2. Congruent(v[1], SumOver(A, S))
    BY <2>1, VectorSumPart
  <2>3. Congruent(v[2], SumOver(B, S))
    BY <2>1, VectorSumPart
  <2> QED BY <2>2, <2>3
<1>4. x \in Int /\ y \in Int /\ Congruent(x, x) /\ Congruent(y, y)
  BY PairIs, CongruentNumbers
<1> HIDE DEF A, B, v
<1>5. Dots(W, A, B, S, x, y)
  <2> SUFFICES ASSUME NEW q \in S
               PROVE  A[q] \in Int /\ B[q] \in Int /\ Congruent(W[q], A[q] * x + B[q] * y)
    BY DEF Dots
  <2>1. F[q] \in Int \X Int
    BY VectorIsPair
  <2>2. /\ F[q][1] \in Int /\ F[q][2] \in Int
        /\ Congruent(Dot(u, F[q]), F[q][1] * u[1] + F[q][2] * u[2])
    BY <2>1, DotIs
  <2> QED BY <1>1, <2>2
<1> HIDE DEF x, y
<1>6. Congruent(SumOver(W, S), SumOver(A, S) * x + SumOver(B, S) * y)
  BY <1>4, <1>5, SumOfDots
<1>7. Congruent(SumOver(A, S), v[1]) /\ Congruent(SumOver(B, S), v[2])
  BY <1>3, CongruentNumbers
<1>8. Congruent(SumOver(A, S) * x, v[1] * x) /\ Congruent(SumOver(B, S) * y, v[2] * y)
  BY <1>4, <1>7, CongruentProducts
<1>9. Congruent(SumOver(A, S) * x + SumOver(B, S) * y, v[1] * x + v[2] * y)
  BY <1>8, CongruentSums
<1>10. Congruent(SumOver(W, S), v[1] * x + v[2] * y)
  BY <1>6, <1>9, CongruentNumbers
<1> QED BY <1>2, <1>10 DEF v, x, y

\* Divided edges move with the corners at their middle.
EdgesMove ==
  \A h \in Hanging : edge[h].velocity = node[h.child[1]][WhichCorner(h, 1)].velocity

\* At no point is work done.
LEMMA NoWorkAtPoint ==
  ASSUME TypeOK, AllMeet, WallsHold, Since("forces"), OneVelocityAtAll, EdgesMove,
         NEW c \in forest, NEW k \in Corner
  PROVE  LET p == Point(c, k)
         IN  Congruent(SumOver(CornerWork, Around(p)) + SumOver(EdgeWork, DividedAt(p)), 0)
<1> DEFINE p == Point(c, k)
           S == Around(p)
           H == DividedAt(p)
           u == node[c][k].velocity
           F == CornerForces(S)
           G == EdgeForces(H)
           v == VectorSum(F, S)
           w == VectorSum(G, H)
<1>1. SettingOK /\ NodeOK /\ EdgeOK
  BY DEF TypeOK
<1>2. u \in Vector /\ u \in Int \X Int
  BY <1>1, NodeRecordParts
<1>3. IsFiniteSet(S) /\ IsFiniteSet(H)
  <2>1. IsFiniteSet(Hanging) /\ H \subseteq Hanging
    BY <1>1, HangingFinite DEF DividedAt
  <2> QED BY <1>1, <2>1, CornersFinite, FS_Subset
<1>4. ASSUME NEW q \in S
      PROVE  F[q] \in Vector /\ CornerWork[q] = Dot(u, F[q])
  <2>1. q \in Corners /\ q[1] \in forest /\ q[2] \in Corner /\ Point(q[1], q[2]) = p
    BY DEF Around, Corners
  <2> DEFINE n == node[q[1]][q[2]]
  <2>2. n.force \in Int \X Int /\ n.flux \in Int \X Int
    BY <1>1, <2>1, NodeRecordParts, VectorIsPair
  <2>3. n.velocity = u
    BY <2>1 DEF OneVelocityAtAll
  <2>4. F[q] = Plus(n.force, n.flux)
    BY DEF CornerForces
  <2>5. CornerWork[q] = Dot(n.velocity, Plus(n.force, n.flux))
    BY <2>1 DEF CornerWork
  <2> HIDE DEF n, u, F
  <2>6. Plus(n.force, n.flux) \in Vector
    BY <2>2, VectorType
  <2> QED BY <2>3, <2>4, <2>5, <2>6
<1>5. ASSUME NEW h \in H
      PROVE  G[h] \in Vector /\ EdgeWork[h] = Dot(u, G[h])
  <2>1. h \in Hanging /\ Point(h.child[1], WhichCorner(h, 1)) = p
    BY DEF DividedAt
  <2>2. h.child[1] \in forest /\ WhichCorner(h, 1) \in Corner
    <3>1. 1 \in {1, 2}
      OBVIOUS
    <3> QED BY <1>1, <2>1, <3>1, HangingParts
  <2> DEFINE n == edge[h]
  <2>3. n.force \in Int \X Int /\ n.flux \in Int \X Int
    BY <1>1, <2>1, EdgeRecordParts, VectorIsPair
  <2>4. n.velocity = u
    <3>1. n.velocity = node[h.child[1]][WhichCorner(h, 1)].velocity
      BY <2>1 DEF EdgesMove
    <3>2. node[h.child[1]][WhichCorner(h, 1)].velocity = node[c][k].velocity
      BY <2>1, <2>2 DEF OneVelocityAtAll
    <3> QED BY <3>1, <3>2
  <2>5. G[h] = Plus(n.force, n.flux)
    BY DEF EdgeForces
  <2>6. EdgeWork[h] = Dot(n.velocity, Plus(n.force, n.flux))
    BY <2>1 DEF EdgeWork
  <2> HIDE DEF n, u, G
  <2>7. Plus(n.force, n.flux) \in Vector
    BY <2>3, VectorType
  <2> QED BY <2>4, <2>5, <2>6, <2>7
<1>6. AllForces(p) = Plus(v, w)
  BY DEF AllForces
<1>7. \A i \in {1, 2} : AllForces(p)[i] = 0 \/ u[i] = 0
  <2> TAKE i \in {1, 2}
  <2>1. <<c, k>> \in Corners /\ <<c, k>>[1] = c /\ <<c, k>>[2] = k
    BY DEF Corners
  <2>2. AllForces(p)[i] = 0 \/ Barred(p, i)
    BY <2>1 DEF AllMeet
  <2>3. ASSUME Barred(p, i)
        PROVE  u[i] = 0
    <3>1. PICK f \in Face : OnFace(p, f) /\ boundary[f] = "wall" /\ Across2(f) = i
      BY <2>3 DEF Barred
    <3> QED BY <2>1, <3>1 DEF WallsHold
  <2> QED BY <2>2, <2>3
<1> HIDE DEF F, G, S, H, u, p
<1>8. /\ v \in Vector /\ Congruent(SumOver(CornerWork, S), v[1] * u[1] + v[2] * u[2])
      /\ w \in Vector /\ Congruent(SumOver(EdgeWork, H), w[1] * u[1] + w[2] * u[2])
  BY <1>2, <1>3, <1>4, <1>5, WorkOfSum
<1> HIDE DEF v, w
<1> DEFINE x == u[1]
           y == u[2]
<1>9. /\ v[1] \in Int /\ v[2] \in Int /\ w[1] \in Int /\ w[2] \in Int /\ x \in Int /\ y \in Int
  BY <1>2, <1>8, VectorParts
<1>10. \A i \in {1, 2} : Congruent((v[i] + w[i]) * u[i], 0)
  <2> TAKE i \in {1, 2}
  <2>1. v[i] \in Int /\ w[i] \in Int /\ u[i] \in Int
    BY <1>9
  <2>2. Congruent(Plus(v, w)[i], v[i] + w[i])
    BY <1>8, VectorIsPair, ComponentsAre
  <2>3. CASE AllForces(p)[i] = 0
    <3>1. Congruent(v[i] + w[i], 0) /\ Congruent(u[i], u[i])
      BY <1>6, <2>1, <2>2, <2>3, CongruentNumbers
    <3>2. Congruent((v[i] + w[i]) * u[i], 0 * u[i])
      BY <3>1, CongruentProducts
    <3>3. 0 * u[i] = 0
      BY <2>1
    <3> QED BY <3>2, <3>3
  <2>4. CASE u[i] = 0
    <3>1. (v[i] + w[i]) * u[i] = 0
      BY <2>1, <2>4
    <3> QED BY <3>1, CongruentNumbers
  <2> QED BY <1>7, <2>3, <2>4
<1>11. Congruent((v[1] + w[1]) * x, 0) /\ Congruent((v[2] + w[2]) * y, 0)
  BY <1>10
<1> HIDE DEF x, y
<1>12. (v[1] * x + v[2] * y) + (w[1] * x + w[2] * y) = (v[1] + w[1]) * x + (v[2] + w[2]) * y
  BY <1>9
<1>13. Congruent((v[1] + w[1]) * x + (v[2] + w[2]) * y, 0 + 0)
  BY <1>11, CongruentSums
<1>14. Congruent(SumOver(CornerWork, S) + SumOver(EdgeWork, H),
                 (v[1] * x + v[2] * y) + (w[1] * x + w[2] * y))
  BY <1>8, CongruentSums DEF x, y
<1>15. 0 + 0 = 0
  OBVIOUS
<1>16. Congruent(SumOver(CornerWork, S) + SumOver(EdgeWork, H), 0)
  BY <1>12, <1>13, <1>14, <1>15, CongruentNumbers
<1> QED BY <1>16 DEF S, H, p

-----------------------------------------------------------------------------
(* All work together. *)

\* What H says of groups is the sum of F over one and of G over the other.
ByTwoSums(H, F, S, g, G, T, j, P) ==
  \A p \in P : H[p] = SumOver(F, Group(S, g, p)) + SumOver(G, Group(T, j, p))

\* Two sums by the same groups.
LEMMA TwoSumsByGroups ==
  ASSUME NEW F, NEW S, IsFiniteSet(S), \A x \in S : F[x] \in Int,
         NEW G, NEW T, IsFiniteSet(T), \A x \in T : G[x] \in Int,
         NEW P, IsFiniteSet(P),
         NEW g, \A x \in S : g[x] \in P, NEW j, \A x \in T : j[x] \in P,
         NEW H, ByTwoSums(H, F, S, g, G, T, j, P)
  PROVE  SumOver(H, P) = SumOver(F, S) + SumOver(G, T)
<1> DEFINE A == [p \in P |-> SumOver(F, Group(S, g, p))]
           B == [p \in P |-> SumOver(G, Group(T, j, p))]
<1>1. \A p \in P : A[p] = SumOver(F, Group(S, g, p)) /\ B[p] = SumOver(G, Group(T, j, p))
  OBVIOUS
<1> HIDE DEF A, B
<1>2. BySums(A, F, S, g, P) /\ BySums(B, G, T, j, P)
  BY <1>1 DEF BySums
<1>3. SumOver(A, P) = SumOver(F, S) /\ \A p \in P : A[p] \in Int
  BY <1>2, SumByGroups
<1>4. SumOver(B, P) = SumOver(G, T) /\ \A p \in P : B[p] \in Int
  BY <1>2, SumByGroups
<1>5. \A p \in P : A[p] \in Int /\ B[p] \in Int /\ H[p] = A[p] + B[p]
  BY <1>1, <1>3, <1>4 DEF ByTwoSums
<1>6. SumOver(H, P) = SumOver(A, P) + SumOver(B, P)
  BY <1>5, SumOfSums
<1> QED BY <1>3, <1>4, <1>6

\* The work on each leaf.
Works == [c \in forest |-> WorkOn(c)]

\* No work is done on all leaves together: each point takes from some what it
\* gives to the others.
LEMMA NoWorkAtAll ==
  ASSUME TypeOK, AllMeet, WallsHold, Since("forces"), OneVelocityAtAll, EdgesMove
  PROVE  /\ \A c \in forest : WorkOn(c) \in Int
         /\ Congruent(SumOver(Works, forest), 0)
<1> DEFINE P == {Point(q[1], q[2]) : q \in Corners}
           g == [q \in Corners |-> q[1]]
           i == [h \in Hanging |-> h.parent]
           j == [q \in Corners |-> Point(q[1], q[2])]
           k == [h \in Hanging |-> Point(h.child[1], WhichCorner(h, 1))]
           L == [c \in forest |-> SumOver(CornerWork, CornersOf(c)) + SumOver(EdgeWork, EdgesOf(c))]
           M == [p \in P |-> SumOver(CornerWork, Around(p)) + SumOver(EdgeWork, DividedAt(p))]
<1>1. SettingOK
  BY DEF TypeOK
<1>2. IsFiniteSet(Corners) /\ IsFiniteSet(Hanging) /\ IsFiniteSet(forest)
  BY <1>1, CornersFinite, HangingFinite, ForestFinite
<1>3. /\ \A q \in Corners : CornerWork[q] \in Int
      /\ \A h \in Hanging : EdgeWork[h] \in Int
  BY WorkType
<1>4. IsFiniteSet(P)
  <2>1. P = {j[q] : q \in Corners}
    OBVIOUS
  <2> HIDE DEF P, j
  <2> QED BY <1>2, <2>1, ImageFinite
<1>5. /\ \A q \in Corners : g[q] \in forest /\ j[q] \in P
      /\ \A h \in Hanging : i[h] \in forest /\ k[h] \in P
  <2>1. ASSUME NEW q \in Corners
        PROVE  g[q] \in forest /\ j[q] \in P
    BY DEF Corners
  <2>2. ASSUME NEW h \in Hanging
        PROVE  i[h] \in forest /\ k[h] \in P
    <3>1. h.parent \in forest /\ h.child[1] \in forest /\ WhichCorner(h, 1) \in Corner
      <4>1. 1 \in {1, 2}
        OBVIOUS
      <4> QED BY <1>1, <4>1, HangingParts
    <3> DEFINE a == h.child[1]
               b == WhichCorner(h, 1)
    <3> HIDE DEF a, b
    <3>2. <<a, b>> \in Corners /\ <<a, b>>[1] = a /\ <<a, b>>[2] = b
      BY <3>1 DEF Corners, a, b
    <3>3. Point(a, b) \in P
      BY <3>2
    <3> QED BY <3>1, <3>3 DEF a, b
  <2> QED BY <2>1, <2>2
<1>6. \A c \in forest : /\ CornersOf(c) = Group(Corners, g, c)
                        /\ EdgesOf(c) = Group(Hanging, i, c)
  BY DEF CornersOf, EdgesOf, Group
<1>7. \A p \in P : /\ Around(p) = Group(Corners, j, p)
                   /\ DividedAt(p) = Group(Hanging, k, p)
  BY DEF Around, DividedAt, Group
<1>8. \A c \in forest : /\ L[c] = SumOver(CornerWork, CornersOf(c)) + SumOver(EdgeWork, EdgesOf(c))
                        /\ Congruent(WorkOn(c), L[c])
  BY WorkOfLeaf
<1>9. \A p \in P : /\ M[p] = SumOver(CornerWork, Around(p)) + SumOver(EdgeWork, DividedAt(p))
                   /\ Congruent(M[p], 0)
  <2> TAKE p \in P
  <2>1. PICK q \in Corners : p = Point(q[1], q[2])
    OBVIOUS
  <2>2. q[1] \in forest /\ q[2] \in Corner
    BY DEF Corners
  <2>3. Congruent(SumOver(CornerWork, Around(p)) + SumOver(EdgeWork, DividedAt(p)), 0)
    BY <2>1, <2>2, NoWorkAtPoint
  <2>4. M[p] = SumOver(CornerWork, Around(p)) + SumOver(EdgeWork, DividedAt(p))
    OBVIOUS
  <2> HIDE DEF M, P
  <2> QED BY <2>3, <2>4
<1> HIDE DEF P, g, i, j, k, L, M
<1>10. SumOver(L, forest) = SumOver(CornerWork, Corners) + SumOver(EdgeWork, Hanging)
  <2>1. ByTwoSums(L, CornerWork, Corners, g, EdgeWork, Hanging, i, forest)
    BY <1>6, <1>8 DEF ByTwoSums
  <2> QED BY <1>2, <1>3, <1>5, <2>1, TwoSumsByGroups
<1>11. SumOver(M, P) = SumOver(CornerWork, Corners) + SumOver(EdgeWork, Hanging)
  <2>1. ByTwoSums(M, CornerWork, Corners, j, EdgeWork, Hanging, k, P)
    BY <1>7, <1>9 DEF ByTwoSums
  <2> QED BY <1>2, <1>3, <1>4, <1>5, <2>1, TwoSumsByGroups
<1>12. Congruent(SumOver(M, P), 0)
  BY <1>4, <1>9, SumOfZeros
<1>13. \A c \in forest : Works[c] = WorkOn(c) /\ Congruent(Works[c], L[c])
  BY <1>8 DEF Works
<1>14. Congruent(SumOver(Works, forest), SumOver(L, forest))
  BY <1>2, <1>13, SumCongruent
<1>15. Congruent(SumOver(Works, forest), 0)
  BY <1>10, <1>11, <1>12, <1>14, CongruentNumbers
<1>16. \A c \in forest : WorkOn(c) \in Int
  BY <1>13 DEF Congruent
<1> QED BY <1>15, <1>16

-----------------------------------------------------------------------------
(* The masses. *)

\* A product of residues is not zero but for a zero in it.
LEMMA NoDivisors ==
  ASSUME NEW a \in Int, NEW b \in Int, a % Modulus # 0, b % Modulus # 0
  PROVE  (a * b) % Modulus # 0
<1> DEFINE x == a % Modulus
           r == Reciprocal(x)
<1>1. 0 \in Residue /\ 0 % Modulus = 0
  BY UnitType, ResidueIsNumber
<1>2. x \in Residue /\ x \in Int /\ x % Modulus = x /\ x # 0
  BY ResidueOf, ResidueIsNumber
<1>3. r \in Residue /\ r \in Int /\ x \otimes r = 1
  BY <1>2, ReciprocalAssumption, ResidueIsNumber
<1>4. Congruent(a, x)
  BY <1>2 DEF Congruent
<1> HIDE DEF x, r
<1>5. Congruent(r, r) /\ Congruent(b, b) /\ Congruent(x, x)
  BY <1>2, <1>3, CongruentNumbers
<1>6. Congruent(1, x * r)
  BY <1>3, <1>5, CongruentResidues
<1>7. Congruent(a * r, x * r)
  BY <1>4, <1>5, CongruentProducts
<1>8. Congruent(1, a * r)
  BY <1>6, <1>7, CongruentNumbers
<1>9. Congruent(1 * b, (a * r) * b)
  BY <1>5, <1>8, CongruentProducts
<1> SUFFICES ASSUME (a * b) % Modulus = 0 PROVE FALSE
  OBVIOUS
<1>10. a * b \in Int /\ 0 \in Int
  OBVIOUS
<1>11. Congruent(a * b, 0)
  BY <1>1, <1>10 DEF Congruent
<1>12. Congruent((a * b) * r, 0 * r)
  BY <1>5, <1>11, CongruentProducts
<1>13. (a * b) * r = (a * r) * b /\ 0 * r = 0 /\ 1 * b = b
  BY <1>3
<1>14. Congruent(b, 0)
  BY <1>9, <1>12, <1>13, CongruentNumbers
<1> QED BY <1>1, <1>14 DEF Congruent

\* No power of two is zero.
LEMMA PowerNotZero == \A n \in 0..Depth : PowerOfTwo[n] \in Int /\ PowerOfTwo[n] % Modulus # 0
<1> DEFINE S == {n \in Nat : n \in 0..Depth => PowerOfTwo[n] \in Int /\ PowerOfTwo[n] % Modulus # 0}
<1>1. Depth \in Nat
  BY DepthAssumption
<1>2. 1 % Modulus # 0 /\ 2 % Modulus # 0
  <2>1. 1 \in Residue /\ 2 \in Residue
    BY DEF Residue, Modulus
  <2> QED BY <2>1, ResidueIsNumber
<1>3. 0 \in S
  BY <1>2, PowerOfTwoStep
<1>4. ASSUME NEW n \in Nat, n \in S
      PROVE  n + 1 \in S
  <2>1. SUFFICES ASSUME n + 1 \in 0..Depth
                 PROVE  PowerOfTwo[n + 1] \in Int /\ PowerOfTwo[n + 1] % Modulus # 0
    OBVIOUS
  <2>2. n \in 0..Depth /\ n + 1 \in 1..Depth /\ (n + 1) - 1 = n
    BY <1>1, <2>1
  <2>3. PowerOfTwo[n + 1] = 2 * PowerOfTwo[n]
    BY <2>2, PowerOfTwoStep
  <2>4. PowerOfTwo[n] \in Int /\ PowerOfTwo[n] % Modulus # 0
    BY <1>4, <2>2
  <2>5. 2 * PowerOfTwo[n] \in Int /\ 2 \in Int
    BY <2>4
  <2>6. (2 * PowerOfTwo[n]) % Modulus # 0
    BY <1>2, <2>4, <2>5, NoDivisors
  <2> QED BY <2>3, <2>5, <2>6
<1> HIDE DEF S
<1>5. Nat \subseteq S
  BY <1>3, <1>4, SetInduction
<1>6. 0..Depth \subseteq Nat
  BY <1>1
<1> QED BY <1>5, <1>6 DEF S

\* Every leaf has a mass, ...
MassInv == \A c \in forest : cell[c].mass # 0

\* ... from the beginning, ...
LEMMA InitMassInv == Init => MassInv
<1> SUFFICES ASSUME Init, NEW c \in forest PROVE cell[c].mass # 0
  BY DEF MassInv
<1>1. forest \subseteq Cells
  BY BalancedForest DEF Init
<1>2. PICK p \in Problems :
        cell = [d \in forest |->
          LET g == p.gas[QuarterOf(d)]
          IN  [mass |-> g.density \otimes (Side(d) * Side(d)), sound |-> g.sound,
               cur |-> State(g), lag |-> State(g)]]
  BY DEF Init
<1> DEFINE g == p.gas[QuarterOf(c)]
           s == Side(c)
           r == g.density
<1>3. r \in 1..(Modulus - 1)
  <2>1. QuarterOf(c) \in 1..4
    BY <1>1, SquareOfQuarter
  <2>2. {g.density, g.sound} \subseteq 1..(Modulus - 1)
    BY <2>1, GasesAssumption
  <2> QED BY <2>2
<1>4. cell[c].mass = r \otimes (s * s)
  BY <1>2
<1>5. s \in Int /\ s % Modulus # 0
  <2>1. c.level \in 0..Depth /\ Depth \in Nat
    BY <1>1, CellParts, DepthAssumption
  <2>2. Depth - c.level \in 0..Depth
    BY <2>1
  <2> QED BY <2>2, PowerNotZero DEF Side
<1> HIDE DEF s, r, g
<1>6. r \in Residue /\ r # 0
  BY <1>3, UnitType DEF Residue
<1>7. r \in Int /\ r % Modulus # 0
  BY <1>6, ResidueIsNumber
<1>8. s * s \in Int /\ (s * s) % Modulus # 0
  BY <1>5, NoDivisors
<1>9. (r * (s * s)) % Modulus # 0
  BY <1>7, <1>8, NoDivisors
<1> QED BY <1>4, <1>9 DEF \otimes

\* ... which no step changes.
LEMMA NextMassInv == IInv /\ MassInv /\ [Next]_vars => MassInv'
<1> SUFFICES ASSUME IInv, MassInv, [Next]_vars PROVE MassInv'
  OBVIOUS
<1>1. CellOK
  BY DEF IInv, TypeOK
<1>2. ASSUME cell' = cell, forest' = forest
      PROVE  MassInv'
  BY <1>2 DEF MassInv
<1>3. CASE UpdateDensity
  <2>1. /\ forest' = forest
        /\ cell' = [c \in forest |-> [cell[c] EXCEPT !.lag.density = cell[c].mass \oslash Volume(c)]]
    BY <1>3 DEF UpdateDensity, setting
  <2>2. ASSUME NEW c \in forest
        PROVE  cell'[c].mass = cell[c].mass
    <3> DEFINE x == cell[c].mass \oslash Volume(c)
    <3>1. cell'[c] = [cell[c] EXCEPT !.lag.density = x] /\ cell[c] \in CellRecord
      BY <1>1, <2>1, CellRecordParts
    <3> HIDE DEF x
    <3>2. cell'[c] = [cell[c] EXCEPT !.lag = [cell[c].lag EXCEPT !.density = x]]
      BY <3>1
    <3> QED BY <3>1, <3>2 DEF CellRecord
  <2> QED BY <2>1, <2>2 DEF MassInv
<1>4. CASE UpdateCells
  <2>1. /\ forest' = forest
        /\ cell' = [c \in forest |-> [cell[c] EXCEPT !.lag = Updated(c)]]
    BY <1>4 DEF UpdateCells, setting
  <2>2. ASSUME NEW c \in forest
        PROVE  cell'[c].mass = cell[c].mass
    <3>1. cell'[c] = [cell[c] EXCEPT !.lag = Updated(c)] /\ cell[c] \in CellRecord
      BY <1>1, <2>1, CellRecordParts
    <3> QED BY <3>1 DEF CellRecord
  <2> QED BY <2>1, <2>2 DEF MassInv
<1>5. CASE Accept
  <2>1. /\ forest' = forest
        /\ cell' = [c \in forest |-> [cell[c] EXCEPT !.cur = cell[c].lag]]
    BY <1>5 DEF Accept, setting
  <2>2. ASSUME NEW c \in forest
        PROVE  cell'[c].mass = cell[c].mass
    <3>1. cell'[c] = [cell[c] EXCEPT !.cur = cell[c].lag] /\ cell[c] \in CellRecord
      BY <1>1, <2>1, CellRecordParts
    <3> QED BY <3>1 DEF CellRecord
  <2> QED BY <2>1, <2>2 DEF MassInv
<1>6. CASE UNCHANGED vars
  BY <1>2, <1>6 DEF vars
<1>7. CASE GetBoundary
  BY <1>2, <1>7 DEF GetBoundary, setting
<1>8. CASE HalfCorner
  BY <1>2, <1>8 DEF HalfCorner, setting
<1>9. CASE GetAMRBoundary
  BY <1>2, <1>9 DEF GetAMRBoundary, setting
<1>10. CASE WriteMasters
  BY <1>2, <1>10 DEF WriteMasters, setting
<1>11. CASE AssembleCorners
  BY <1>2, <1>11 DEF AssembleCorners, setting
<1>12. CASE AssemblePoints
  BY <1>2, <1>12 DEF AssemblePoints, setting
<1>13. CASE SolveCorners
  BY <1>2, <1>13 DEF SolveCorners, setting
<1>14. CASE AssembleEdges
  BY <1>2, <1>14 DEF AssembleEdges, setting
<1>15. CASE SolveHanging
  BY <1>2, <1>15 DEF SolveHanging, setting
<1>16. CASE ComputeForces
  BY <1>2, <1>16 DEF ComputeForces, setting
<1>17. CASE MoveCorners
  BY <1>2, <1>17 DEF MoveCorners, setting
<1> QED
  BY <1>3, <1>4, <1>5, <1>6, <1>7, <1>8, <1>9, <1>10, <1>11, <1>12, <1>13, <1>14, <1>15,
     <1>16, <1>17 DEF Next

-----------------------------------------------------------------------------
(* The energy of all leaves. *)

\* A product of five is one of two and three.
LEMMA MassCancels ==
  ASSUME NEW m \in Int, NEW t \in Int, NEW d \in Int, NEW w \in Int, NEW r \in Int
  PROVE  /\ m * (t - d * (w * r)) = m * t - (d * w) * (m * r)
         /\ m * t - (d * w) * 1 = m * t + w * (-d)
<1>1. m * (d * (w * r)) = (d * w) * (m * r)
  <2>1. d * (w * r) = (d * w) * r
    OBVIOUS
  <2> DEFINE x == d * w
  <2>2. x \in Int
    OBVIOUS
  <2> HIDE DEF x
  <2>3. m * (x * r) = x * (m * r)
    BY <2>2
  <2> QED BY <2>1, <2>3 DEF x
<1> DEFINE y == d * (w * r)
<1>2. y \in Int
  OBVIOUS
<1> HIDE DEF y
<1>3. m * (t - y) = m * t - m * y
  BY <1>2
<1>4. (d * w) * 1 = d * w /\ w * (-d) = -(d * w)
  OBVIOUS
<1> DEFINE z == d * w
           v == m * t
<1>5. z \in Int /\ v \in Int
  OBVIOUS
<1> HIDE DEF z, v
<1>6. v - z = v + -z
  BY <1>5
<1> QED BY <1>1, <1>3, <1>4, <1>6 DEF y, z, v

\* The new energy of a leaf is its old one less the work of the time step.
LEMMA WorkTakesEnergy ==
  ASSUME CellOK, NEW c \in forest, cell[c].mass # 0, WorkOn(c) \in Int,
         cell[c].cur.velocity = cell[c].lag.velocity,
         cell[c].cur.internal = cell[c].lag.internal,
         cell[c].cur.total = cell[c].lag.total
  PROVE  /\ cell[c].mass \otimes cell[c].cur.total \in Int
         /\ Congruent(cell[c].mass \otimes NewTotal(c),
                      (cell[c].mass \otimes cell[c].cur.total) * 1 + WorkOn(c) * (-TimeStep))
<1> DEFINE m == cell[c].mass
           r == Reciprocal(cell[c].mass)
           t == cell[c].cur.total
           d == TimeStep
           w == WorkOn(c)
           n == NewTotal(c)
<1>1. m \in Residue /\ t \in Residue /\ m \in Int /\ t \in Int /\ w \in Int /\ m # 0
  BY CellRecordParts, GasParts, ResidueIsInt
<1>2. r \in Residue /\ r \in Int /\ m \otimes r = 1
  BY <1>1, ReciprocalAssumption, ResidueIsNumber
<1>3. d \in Int
  BY NumbersAssumption, UnitType
<1>4. n = t \ominus (d \otimes (w \otimes r))
  <2>1. HalfTime(c).total = cell[c].lag.total
    BY HalfTimeOfSame
  <2> QED BY <2>1 DEF NewTotal, PerMass, \oslash
<1>5. /\ Congruent(m, m) /\ Congruent(t, t) /\ Congruent(d, d) /\ Congruent(w, w) /\ Congruent(r, r)
  <2> HIDE DEF m, t, d, w, r
  <2> QED BY <1>1, <1>2, <1>3, CongruentNumbers
<1> HIDE DEF m, t, d, w, r, n
<1>6. Congruent(w \otimes r, w * r)
  BY <1>5, CongruentResidues
<1>7. Congruent(d \otimes (w \otimes r), d * (w * r))
  BY <1>5, <1>6, CongruentResidues
<1>8. Congruent(n, t - d * (w * r))
  BY <1>4, <1>5, <1>7, CongruentResidues
<1>9. Congruent(m \otimes n, m * (t - d * (w * r)))
  BY <1>5, <1>8, CongruentResidues
<1>10. Congruent(1, m * r)
  BY <1>2, <1>5, CongruentResidues
<1> DEFINE x == d * w
           y == m * t
           z == m * r
           e == m \otimes t
<1>11. /\ m * (t - d * (w * r)) = y - x * z /\ y - x * 1 = y + w * (-d)
       /\ x \in Int /\ y \in Int /\ w * (-d) \in Int
  BY <1>1, <1>2, <1>3, MassCancels
<1>12. Congruent(e, y)
  BY <1>5, CongruentResidues
<1> HIDE DEF x, y, z, e
<1>13. Congruent(z, 1)
  BY <1>10, CongruentNumbers DEF z
<1>14. Congruent(x, x) /\ Congruent(y, y) /\ Congruent(y, e) /\ Congruent(w * (-d), w * (-d))
  BY <1>11, <1>12, CongruentNumbers
<1>15. Congruent(x * z, x * 1)
  BY <1>13, <1>14, CongruentProducts
<1>16. Congruent(y - x * z, y - x * 1)
  BY <1>14, <1>15, CongruentSums
<1>17. Congruent(y + w * (-d), e + w * (-d))
  BY <1>14, CongruentSums
<1>18. e \in Int /\ e * 1 = e
  BY <1>12 DEF Congruent
<1>19. Congruent(m \otimes n, e * 1 + w * (-d))
  BY <1>9, <1>11, <1>16, <1>17, <1>18, CongruentNumbers
<1> QED BY <1>18, <1>19 DEF m, t, d, w, n, e

\* The energies of the leaves before and after the stage.
EnergiesBefore == [c \in forest |-> cell[c].mass \otimes cell[c].cur.total]
EnergiesAfter == [c \in forest |-> cell[c].mass \otimes cell[c].lag.total]
Kept == Congruent(SumOver(EnergiesAfter, forest), SumOver(EnergiesBefore, forest))

\* Corners at one point go on to move together and divided edges with them,
\* until the energies are there.
KeptInv ==
  /\ phase \in {"forces", "coordinates", "density", "momentum"} => OneVelocityAtAll /\ EdgesMove
  /\ phase = "accept" => Kept

\* update_work, update_energy: no energy is lost.
LEMMA UpdateCellsKeep ==
  ASSUME IInv, ForceInv, EnergyInv, MassInv, KeptInv, UpdateCells
  PROVE  KeptInv'
<1>1. /\ phase = "momentum" /\ phase' = "accept" /\ setting' = setting
      /\ cell' = [c \in forest |-> [cell[c] EXCEPT !.lag = Updated(c)]]
  BY DEF UpdateCells, Step
<1>2. forest' = forest /\ TypeOK /\ CellOK /\ SettingOK
  BY <1>1, Same DEF IInv, TypeOK
<1>3. AllMeet /\ WallsHold /\ Since("forces") /\ OneVelocityAtAll /\ EdgesMove
  <2>1. AllMeet
    BY <1>1 DEF ForceInv, Forced
  <2>2. OneVelocityAtAll /\ EdgesMove
    BY <1>1 DEF KeptInv
  <2>3. Since("forces")
    <3>1. phase \in Phases
      BY <1>2 DEF TypeOK
    <3> QED BY <1>1, <3>1, SinceIs
  <2>4. WallsHold
    BY WallsHeld DEF IInv
  <2> QED BY <2>1, <2>2, <2>3, <2>4
<1>4. /\ \A c \in forest : WorkOn(c) \in Int
      /\ Congruent(SumOver(Works, forest), 0)
  BY <1>2, <1>3, NoWorkAtAll
<1> DEFINE F == EnergiesAfter'
           A == EnergiesBefore
           B == Works
<1>5. ASSUME NEW c \in forest
      PROVE  /\ F[c] = cell[c].mass \otimes NewTotal(c)
             /\ EnergiesBefore'[c] = A[c]
             /\ A[c] = cell[c].mass \otimes cell[c].cur.total
             /\ B[c] = WorkOn(c)
  <2>1. cell'[c] = [cell[c] EXCEPT !.lag = Updated(c)] /\ cell[c] \in CellRecord
    BY <1>1, <1>2, CellRecordParts
  <2>2. cell'[c].mass = cell[c].mass /\ cell'[c].cur = cell[c].cur /\ cell'[c].lag = Updated(c)
    BY <2>1 DEF CellRecord
  <2>3. Updated(c).total = NewTotal(c)
    BY UpdatedIs
  <2>4. c \in forest'
    BY <1>2
  <2>5. F[c] = cell'[c].mass \otimes cell'[c].lag.total
    BY <2>4 DEF EnergiesAfter
  <2>6. EnergiesBefore'[c] = cell'[c].mass \otimes cell'[c].cur.total
    BY <2>4 DEF EnergiesBefore
  <2> QED BY <2>2, <2>3, <2>5, <2>6 DEF EnergiesBefore, Works
<1>6. ASSUME NEW c \in forest
      PROVE  A[c] \in Int /\ B[c] \in Int /\ Congruent(F[c], A[c] * 1 + B[c] * (-TimeStep))
  <2>1. /\ cell[c].cur.velocity = cell[c].lag.velocity
        /\ cell[c].cur.internal = cell[c].lag.internal
        /\ cell[c].cur.total = cell[c].lag.total
    BY <1>1 DEF EnergyInv
  <2>2. cell[c].mass # 0 /\ WorkOn(c) \in Int
    BY <1>4 DEF MassInv
  <2>3. /\ cell[c].mass \otimes cell[c].cur.total \in Int
        /\ Congruent(cell[c].mass \otimes NewTotal(c),
                     (cell[c].mass \otimes cell[c].cur.total) * 1 + WorkOn(c) * (-TimeStep))
    BY <1>2, <2>1, <2>2, WorkTakesEnergy
  <2> HIDE DEF F, A, B
  <2> QED BY <1>5, <2>2, <2>3
<1>7. IsFiniteSet(forest)
  BY <1>2, ForestFinite
<1>8. 1 \in Int /\ -TimeStep \in Int
  BY NumbersAssumption, UnitType
<1> HIDE DEF F, A, B
<1>9. Dots(F, A, B, forest, 1, -TimeStep)
  BY <1>6 DEF Dots
<1>10. Congruent(SumOver(F, forest), SumOver(A, forest) * 1 + SumOver(B, forest) * (-TimeStep))
  BY <1>7, <1>8, <1>9, SumOfDots
<1>11. SumOver(A, forest) \in Int /\ SumOver(B, forest) \in Int
  BY <1>6, <1>7, SumStep
<1> DEFINE a == SumOver(A, forest)
           b == SumOver(B, forest)
           k == -TimeStep
<1>12. Congruent(b, 0)
  BY <1>4 DEF B
<1> HIDE DEF a, b, k
<1>13. a \in Int /\ k \in Int
  BY <1>8, <1>11 DEF a, k
<1>14. Congruent(k, k) /\ Congruent(a, a)
  BY <1>13, CongruentNumbers
<1>15. Congruent(b * k, 0 * k)
  BY <1>12, <1>14, CongruentProducts
<1>16. a * 1 = a /\ 0 * k = 0 /\ a + 0 = a
  BY <1>13
<1>17. Congruent(a * 1 + b * k, a + 0)
  BY <1>14, <1>15, <1>16, CongruentSums
<1>18. Congruent(SumOver(F, forest), a)
  <2>1. Congruent(SumOver(F, forest), a * 1 + b * k)
    BY <1>10 DEF a, b, k
  <2> QED BY <1>16, <1>17, <2>1, CongruentNumbers
<1>19. SumOver(EnergiesBefore', forest) = SumOver(A, forest)
  <2> DEFINE G == EnergiesBefore'
  <2>1. \A c \in forest : G[c] = A[c]
    BY <1>5
  <2> HIDE DEF G
  <2>2. SumOver(G, forest) = SumOver(A, forest)
    BY <1>7, <2>1, SameTerms
  <2> QED BY <2>2 DEF G
<1>20. Kept'
  BY <1>2, <1>18, <1>19 DEF Kept, F, a
<1> QED BY <1>1, <1>20 DEF KeptInv

-----------------------------------------------------------------------------
(* The energy is kept. *)

\* Velocities that stay.
LEMMA MotionStays ==
  ASSUME setting' = setting, OneVelocityAtAll, EdgesMove, SettingOK,
         \A c \in forest : \A k \in Corner : node'[c][k].velocity = node[c][k].velocity,
         \A h \in Hanging : edge'[h].velocity = edge[h].velocity
  PROVE  OneVelocityAtAll' /\ EdgesMove'
<1>1. forest' = forest /\ Hanging' = Hanging
  BY Same
<1>2. OneVelocityAtAll'
  BY <1>1 DEF OneVelocityAtAll
<1>3. \A h \in Hanging : h.child[1] \in forest /\ WhichCorner(h, 1) \in Corner
  <2>1. 1 \in {1, 2}
    OBVIOUS
  <2> QED BY <2>1, HangingParts
<1>4. EdgesMove'
  BY <1>1, <1>3 DEF EdgesMove
<1> QED BY <1>2, <1>4

\* quadrant_relaxed_hanging_solver: the corners of the children and the edge
\* of the parent get one velocity.
LEMMA SolveHangingKeeps ==
  ASSUME IInv, PlaceInv, SolveHanging
  PROVE  KeptInv'
<1>1. /\ phase = "hanging" /\ phase' = "forces" /\ setting' = setting
      /\ node' = [c \in forest |-> [k \in Corner |->
           IF Regular(c, k) THEN node[c][k]
           ELSE LET h == (CHOOSE q \in HangsAt(c, k) : TRUE)[1]
                IN  [node[c][k] EXCEPT !.velocity = HangingVelocity(h), !.flux = Flux(h, c)]]]
      /\ edge' = [h \in Hanging |-> [edge[h] EXCEPT !.velocity = HangingVelocity(h),
                                                    !.flux = Flux(h, h.parent)]]
  BY DEF SolveHanging, Step
<1>2. /\ forest' = forest /\ Hanging' = Hanging /\ NodeOK /\ EdgeOK /\ SettingOK
  BY <1>1, Same DEF IInv, TypeOK
<1>3. OneVelocityAtAll'
  <2>1. PlaceInv'
    BY SolveHangingPlaces
  <2> QED BY <1>1, <2>1 DEF PlaceInv, AllSolved
<1>4. EdgesMove'
  <2> SUFFICES ASSUME NEW h \in Hanging
               PROVE  edge'[h].velocity = node'[h.child[1]][WhichCorner(h, 1)].velocity
    BY <1>2 DEF EdgesMove
  <2> DEFINE c == h.child[1]
             k == WhichCorner(h, 1)
             u == HangingVelocity(h)
             x == Flux(h, c)
             y == Flux(h, h.parent)
  <2>1. 1 \in {1, 2}
    OBVIOUS
  <2>2. c \in forest /\ k \in Corner
    BY <1>2, <2>1, HangingParts
  <2>3. ~ Regular(c, k) /\ HangingAt(c, k) = h
    BY <1>2, <2>1, HangingHere
  <2>4. node'[c][k] = [node[c][k] EXCEPT !.velocity = u, !.flux = x]
    BY <1>1, <2>2, <2>3 DEF HangingAt
  <2>5. edge'[h] = [edge[h] EXCEPT !.velocity = u, !.flux = y]
    BY <1>1
  <2>6. node[c][k] \in NodeRecord /\ edge[h] \in EdgeRecord
    BY <1>2, <2>2, NodeRecordParts, EdgeRecordParts
  <2> HIDE DEF u, x, y, c, k
  <2>7. node'[c][k].velocity = u
    BY <2>4, <2>6 DEF NodeRecord
  <2>8. edge'[h].velocity = u
    BY <2>5, <2>6 DEF EdgeRecord
  <2> QED BY <2>7, <2>8 DEF c, k
<1> QED BY <1>1, <1>3, <1>4 DEF KeptInv

\* There is nothing to keep in the beginning.
LEMMA InitKeptInv == Init => KeptInv
BY DEF Init, KeptInv

\* Every step keeps the energy, once it is there.
LEMMA NextKeptInv ==
  ASSUME IInv, PlaceInv, ForceInv, EnergyInv, MassInv, KeptInv, [Next]_vars
  PROVE  KeptInv'
<1>1. NodeOK /\ EdgeOK /\ SettingOK
  BY DEF IInv, TypeOK
<1>2. ASSUME phase' \notin {"forces", "coordinates", "density", "momentum", "accept"}
      PROVE  KeptInv'
  BY <1>2 DEF KeptInv
<1>3. CASE GetBoundary
  BY <1>2, <1>3 DEF GetBoundary, Step
<1>4. CASE HalfCorner
  BY <1>2, <1>4 DEF HalfCorner, Step
<1>5. CASE GetAMRBoundary
  BY <1>2, <1>5 DEF GetAMRBoundary, Step
<1>6. CASE WriteMasters
  BY <1>2, <1>6 DEF WriteMasters, Step
<1>7. CASE AssembleCorners
  BY <1>2, <1>7 DEF AssembleCorners, Step
<1>8. CASE AssemblePoints
  BY <1>2, <1>8 DEF AssemblePoints, Step
<1>9. CASE SolveCorners
  BY <1>2, <1>9 DEF SolveCorners, Step
<1>10. CASE AssembleEdges
  BY <1>2, <1>10 DEF AssembleEdges, Step
<1>11. CASE SolveHanging
  BY <1>11, SolveHangingKeeps
<1>12. CASE ComputeForces
  <2>1. /\ phase = "forces" /\ phase' = "coordinates" /\ setting' = setting
        /\ node' = [c \in forest |-> [k \in Corner |->
             [node[c][k] EXCEPT !.force =
                ForceOn(c, PushOfHalves(c, k), node[c][k].matrix, node[c][k].velocity)]]]
        /\ edge' = [h \in Hanging |-> [edge[h] EXCEPT !.force =
                      ForceOn(h.parent, EdgePush(edge[h]), edge[h].matrix, edge[h].velocity)]]
    BY <1>12 DEF ComputeForces, Step
  <2>2. ASSUME NEW c \in forest, NEW k \in Corner
        PROVE  node'[c][k].velocity = node[c][k].velocity
    <3> DEFINE x == ForceOn(c, PushOfHalves(c, k), node[c][k].matrix, node[c][k].velocity)
    <3>1. node'[c][k] = [node[c][k] EXCEPT !.force = x] /\ node[c][k] \in NodeRecord
      BY <1>1, <2>1, NodeRecordParts
    <3> HIDE DEF x
    <3> QED BY <3>1 DEF NodeRecord
  <2>3. ASSUME NEW h \in Hanging
        PROVE  edge'[h].velocity = edge[h].velocity
    <3> DEFINE x == ForceOn(h.parent, EdgePush(edge[h]), edge[h].matrix, edge[h].velocity)
    <3>1. edge'[h] = [edge[h] EXCEPT !.force = x] /\ edge[h] \in EdgeRecord
      BY <1>1, <2>1, EdgeRecordParts
    <3> HIDE DEF x
    <3> QED BY <3>1 DEF EdgeRecord
  <2>4. OneVelocityAtAll' /\ EdgesMove'
    <3>1. OneVelocityAtAll /\ EdgesMove
      BY <2>1 DEF KeptInv
    <3> QED BY <1>1, <2>1, <2>2, <2>3, <3>1, MotionStays
  <2> QED BY <2>1, <2>4 DEF KeptInv
<1>13. CASE MoveCorners
  <2>1. /\ phase = "coordinates" /\ phase' = "density" /\ setting' = setting /\ edge' = edge
        /\ node' = [c \in forest |-> [k \in Corner |-> [node[c][k] EXCEPT !.lag =
             Plus(Middle(node[c][k].cur, node[c][k].lag),
                  Scaled(TimeStep, node[c][k].velocity))]]]
    BY <1>13 DEF MoveCorners, Step
  <2>2. ASSUME NEW c \in forest, NEW k \in Corner
        PROVE  node'[c][k].velocity = node[c][k].velocity
    <3> DEFINE x == Plus(Middle(node[c][k].cur, node[c][k].lag),
                         Scaled(TimeStep, node[c][k].velocity))
    <3>1. node'[c][k] = [node[c][k] EXCEPT !.lag = x] /\ node[c][k] \in NodeRecord
      BY <1>1, <2>1, NodeRecordParts
    <3> HIDE DEF x
    <3> QED BY <3>1 DEF NodeRecord
  <2>3. OneVelocityAtAll' /\ EdgesMove'
    <3>1. OneVelocityAtAll /\ EdgesMove
      BY <2>1 DEF KeptInv
    <3> QED BY <1>1, <2>1, <2>2, <3>1, MotionStays
  <2> QED BY <2>1, <2>3 DEF KeptInv
<1>14. CASE UpdateDensity
  <2>1. /\ phase = "density" /\ phase' = "momentum" /\ setting' = setting
        /\ edge' = edge /\ node' = node
    BY <1>14 DEF UpdateDensity, Step
  <2>2. OneVelocityAtAll' /\ EdgesMove'
    <3>1. OneVelocityAtAll /\ EdgesMove
      BY <2>1 DEF KeptInv
    <3> QED BY <1>1, <2>1, <3>1, MotionStays
  <2> QED BY <2>1, <2>2 DEF KeptInv
<1>15. CASE UpdateCells
  BY <1>15, UpdateCellsKeep
<1>16. CASE Accept
  BY <1>2, <1>16 DEF Accept, Step
<1>17. CASE UNCHANGED vars
  <2>1. /\ forest' = forest /\ cell' = cell /\ node' = node /\ edge' = edge /\ phase' = phase
        /\ Hanging' = Hanging
    BY <1>17 DEF vars, Hanging
  <2>2. EnergiesBefore' = EnergiesBefore /\ EnergiesAfter' = EnergiesAfter
    BY <2>1 DEF EnergiesBefore, EnergiesAfter
  <2>3. Kept' = Kept
    BY <2>1, <2>2 DEF Kept
  <2>4. OneVelocityAtAll' = OneVelocityAtAll /\ EdgesMove' = EdgesMove
    BY <2>1 DEF OneVelocityAtAll, EdgesMove
  <2> QED BY <2>1, <2>3, <2>4 DEF KeptInv
<1> QED
  BY <1>3, <1>4, <1>5, <1>6, <1>7, <1>8, <1>9, <1>10, <1>11, <1>12, <1>13, <1>14, <1>15,
     <1>16, <1>17 DEF Next

\* The sums that the property is about.
LEMMA KeptEnough ==
  ASSUME TypeOK, Kept
  PROVE  Total(LAMBDA c : cell[c].mass \otimes cell[c].lag.total, forest) =
           Total(LAMBDA c : cell[c].mass \otimes cell[c].cur.total, forest)
<1> DEFINE F == [c \in forest |-> cell[c].mass \otimes cell[c].lag.total]
           G == [c \in forest |-> cell[c].mass \otimes cell[c].cur.total]
<1>1. F = EnergiesAfter /\ G = EnergiesBefore
  BY DEF EnergiesBefore, EnergiesAfter
<1>2. DOMAIN F = forest /\ DOMAIN G = forest
  OBVIOUS
<1>3. /\ Total(LAMBDA c : cell[c].mass \otimes cell[c].lag.total, forest) = SumFunction(F) % Modulus
      /\ Total(LAMBDA c : cell[c].mass \otimes cell[c].cur.total, forest) = SumFunction(G) % Modulus
  BY DEF Total
<1> HIDE DEF F, G
<1>4. SumFunction(F) = SumOver(F, forest) /\ SumFunction(G) = SumOver(G, forest)
  BY <1>2, SumFunctionIs
<1>5. SumOver(F, forest) % Modulus = SumOver(G, forest) % Modulus
  BY <1>1 DEF Kept, Congruent
<1> QED BY <1>3, <1>4, <1>5

\* No leaf's work is lost: all total energy is still there after a stage.  The
\* forces at a point meet or a wall holds it, the corners and the edges there
\* have one velocity, and so the work of a point is none; and each leaf loses
\* just the work of its own corners and edges.
THEOREM EnergyAlwaysKept == Spec /\ []NothingSingular => []EnergyKept
<1> DEFINE I == IInv /\ PlaceInv /\ ForceInv /\ EnergyInv /\ MassInv /\ KeptInv
<1>1. Init => I
  BY InitIInv, InitPlaceInv, InitForceInv, InitEnergyInv, InitMassInv, InitKeptInv
<1>2. I /\ NothingSingular /\ [Next]_vars => I'
  <2> SUFFICES ASSUME I, NothingSingular, [Next]_vars PROVE I'
    OBVIOUS
  <2>1. IInv' /\ PlaceInv' /\ ForceInv'
    BY NextIInv, NextPlaceInv, NextForceInv
  <2>2. EnergyInv' /\ MassInv'
    BY NextEnergyInv, NextMassInv
  <2>3. KeptInv'
    BY NextKeptInv
  <2> QED BY <2>1, <2>2, <2>3
<1>3. I => EnergyKept
  <2> SUFFICES ASSUME I, phase = "accept"
               PROVE  Total(LAMBDA c : cell[c].mass \otimes cell[c].lag.total, forest) =
                        Total(LAMBDA c : cell[c].mass \otimes cell[c].cur.total, forest)
    BY DEF EnergyKept
  <2>1. TypeOK /\ Kept
    BY DEF IInv, KeptInv
  <2> QED BY <2>1, KeptEnough
<1> HIDE DEF I
<1> QED BY <1>1, <1>2, <1>3, PTL DEF Spec
=============================================================================
