------------------------------ MODULE Residues ------------------------------
(***************************************************************************)
(* Numbers, vectors and matrices of CDoubleVector and CDoubleMatrix with   *)
(* exact sums, products and quotients: doubles are taken as residues of a  *)
(* prime.  What holds for real numbers holds for them; what fails for real *)
(* numbers fails here but for one number in Modulus.  They have no order,  *)
(* and rounding is left out.                                               *)
(***************************************************************************)
EXTENDS Integers, Functions

Modulus == 46337      \* products of two residues are below 2^31
Residue == 0..(Modulus - 1)

a \oplus b == (a + b) % Modulus
a \ominus b == (a - b) % Modulus
a \otimes b == (a * b) % Modulus
\* Fermat: a to the power of Modulus - 2.
Reciprocal(a) ==
  LET power[n \in 0..Modulus] ==
        IF n = 0 THEN 1
        ELSE LET root == power[n \div 2]
                 square == root \otimes root
             IN  IF n % 2 = 0 THEN square ELSE square \otimes a
  IN  power[Modulus - 2]
\* Modulus is a prime, so that every residue but zero has a reciprocal: TLC
\* computes them all.
ASSUME ReciprocalAssumption ==
  \A a \in Residue :
    Reciprocal(a) \in Residue /\ (a # 0 => a \otimes Reciprocal(a) = 1)
a \oslash b == a \otimes Reciprocal(b)
Half(a) == a \oslash 2
RootOfTwo == CHOOSE r \in Residue : r \otimes r = 2

-----------------------------------------------------------------------------
(* Vectors <<x, y>> and matrices <<xx, xy, yx, yy>>. *)

Vector == Residue \X Residue
Matrix == Residue \X Residue \X Residue \X Residue
Zero == <<0, 0>>
NoMatrix == <<0, 0, 0, 0>>

Plus(u, v) == [i \in DOMAIN u |-> u[i] \oplus v[i]]
Minus(u, v) == [i \in DOMAIN u |-> u[i] \ominus v[i]]
Scaled(a, u) == [i \in DOMAIN u |-> a \otimes u[i]]
Middle(u, v) == Scaled(Half(1), Plus(u, v))
Dot(u, v) == (u[1] \otimes v[1]) \oplus (u[2] \otimes v[2])
Cross2(u, v) == (u[1] \otimes v[2]) \ominus (u[2] \otimes v[1])

DyadicProduct(u, v) ==
  <<u[1] \otimes v[1], u[1] \otimes v[2], u[2] \otimes v[1], u[2] \otimes v[2]>>
MatrixDotVector(m, u) ==
  <<(m[1] \otimes u[1]) \oplus (m[2] \otimes u[2]),
    (m[3] \otimes u[1]) \oplus (m[4] \otimes u[2])>>
\* A singular matrix has the inverse zero.
MatrixInverse(m) ==
  LET factor == (m[1] \otimes m[4]) \ominus (m[2] \otimes m[3])
  IN  IF factor = 0 THEN NoMatrix
      ELSE Scaled(Reciprocal(factor), <<m[4], 0 \ominus m[2], 0 \ominus m[3], m[1]>>)

\* Sums over a set, of numbers, of vectors and of matrices.
Total(Op(_), S) == SumFunction([e \in S |-> Op(e)]) % Modulus
VectorTotal(Op(_), S) ==
  <<Total(LAMBDA e : Op(e)[1], S), Total(LAMBDA e : Op(e)[2], S)>>
MatrixTotal(Op(_), S) ==
  <<Total(LAMBDA e : Op(e)[1], S), Total(LAMBDA e : Op(e)[2], S),
    Total(LAMBDA e : Op(e)[3], S), Total(LAMBDA e : Op(e)[4], S)>>
=============================================================================
