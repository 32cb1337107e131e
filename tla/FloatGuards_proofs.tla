--------------------------- MODULE FloatGuards_proofs ---------------------------
(***************************************************************************)
(* FloatGuards: for any set of leaves, no leaf that holds a double that is *)
(* no number is accepted, predicted from or, if its density is infinite,   *)
(* given to the solver.                                                    *)
(*                                                                         *)
(* None of the properties is inductive: between the solver and the end of  *)
(* a step the doubles may be anything, and no single check stops them all. *)
(* The invariant carries what each pass leaves for a later check: from the *)
(* places to the density (Placed), and from the forces through work to     *)
(* both energies (Heated).                                                 *)
(***************************************************************************)
EXTENDS FloatGuards, TLAPS

Started == {"solve", "move", "energy", "pressure", "check", "accept"}
Finished == {"energy", "pressure", "check", "accept"}

\* What an accepted leaf left in half: numbers everywhere.
Halfway == [internal |-> "pos", total |-> "pos", velocity |-> "pos", place |-> "pos"]

\* A density above m_eps shows that the corners' velocities were numbers.
Placed(l) ==
  Above(lag[l].density) =>
    /\ corner[l] = "pos" /\ lag[l].place = "pos" /\ divergence[l] = "pos"
    /\ lag[l].density \in {"pos", "inf"}

\* A NaN in the work makes both energies a NaN; a total energy that is a number
\* shows that work, forces and velocity are numbers.
Heated(l) ==
  /\ lag[l].total \in {"pos", "inf", "nan"}
  /\ lag[l].total = "nan" => lag[l].internal = "nan"
  /\ lag[l].total = "pos" => lag[l].internal = "pos" /\ lag[l].velocity = "pos"

GuardInv ==
  /\ TypeOK
  /\ AcceptedIsUsable
  /\ PredictSeesNumbers
  /\ SolverSeesNumbers
  /\ phase \in Started => \A l \in Leaf : half[l] = Halfway
  /\ phase \in {"solve", "move"} => lag = cur
  /\ phase \in Finished => \A l \in Leaf : Placed(l)
  /\ phase \in Finished \ {"energy"} => \A l \in Leaf : Heated(l)
  /\ phase = "accept" =>
       \/ \E l \in Leaf : lag[l].total = "nan"
       \/ \A l \in Leaf : lag[l].total \in Finite

-----------------------------------------------------------------------------
(* The classes of results. *)

LEMMA SumClass ==
  ASSUME NEW a \in Double, NEW b \in Double, NEW c \in Sum(a, b)
  PROVE  /\ c \in Double
         /\ c \in Finite <=> a \in Finite /\ b \in Finite
         /\ "nan" \in {a, b} => c = "nan"
         /\ a \in Finite /\ c = "nan" => b = "nan"
BY DEF Sum, Double, Finite, Infinite

LEMMA NegativeClass ==
  ASSUME NEW a \in Double, NEW c \in Negative(a)
  PROVE  /\ c \in Double
         /\ c \in Finite <=> a \in Finite
         /\ c = "nan" <=> a = "nan"
BY DEF Negative, Double, Finite, Infinite

LEMMA DifferenceClass ==
  ASSUME NEW a \in Double, NEW b \in Double, NEW c \in Difference(a, b)
  PROVE  /\ c \in Double
         /\ c \in Finite <=> a \in Finite /\ b \in Finite
         /\ "nan" \in {a, b} => c = "nan"
         /\ a \in Finite /\ c = "nan" => b = "nan"
<1>1. PICK d \in Negative(b) : c \in Sum(a, d)
  BY DEF Difference
<1>2. d \in Double /\ (d \in Finite <=> b \in Finite) /\ (d = "nan" <=> b = "nan")
  BY NegativeClass
<1> QED
  BY <1>1, <1>2, SumClass

LEMMA MeanClass ==
  ASSUME NEW a \in Double, NEW b \in Double, NEW c \in Mean(a, b)
  PROVE  c \in Double /\ (a = b => c = a)
BY SumClass DEF Mean

LEMMA ProductClass ==
  ASSUME NEW a \in Double, NEW b \in Double, NEW c \in Product(a, b)
  PROVE  c \in Double /\ ("nan" \in {a, b} => c = "nan")
BY DEF Product, Double, Finite, Infinite, Positive

LEMMA VectorSumClass ==
  ASSUME NEW a \in VectorClass, NEW b \in VectorClass, NEW c \in VectorSum(a, b)
  PROVE  c \in VectorClass /\ (c = "pos" <=> a = "pos" /\ b = "pos")
BY DEF VectorSum, VectorClass

LEMMA DotProductClass ==
  ASSUME NEW a \in VectorClass, NEW b \in VectorClass, NEW c \in DotProduct(a, b)
  PROVE  c \in Double /\ (c \in Finite <=> a = "pos" /\ b = "pos")
BY DEF DotProduct, VectorClass, Double, Finite, Infinite

\* The density of a leaf with a place that is no number is not above m_eps.
LEMMA DensityClass ==
  ASSUME NEW x \in VectorClass, NEW d \in Density(x)
  PROVE  /\ d \in Double
         /\ Above(d) => x = "pos" /\ d \in {"pos", "inf"}
BY DEF Density, DensityOf, VolumeOf, VectorClass, Double, Finite, Infinite, Above

LEMMA PositiveClass == "pos" \in Double /\ "pos" \in VectorClass /\ "pos" \in Finite
BY DEF Double, VectorClass, Finite

-----------------------------------------------------------------------------
(* What the passes make of a leaf. *)

\* Between two equal numbers there is only that number, and no leaf of infinite
\* density has a pressure halfway.
LEMMA HalfOfAccepted ==
  ASSUME NEW c \in CellState, Usable(c), NEW h \in HalfOf(c, c)
  PROVE  /\ h = Halfway
         /\ \A p \in HalfPressure(c, c, "pos") : Above(p) => c.density = "pos"
<1>1. /\ c.internal = "pos" /\ c.total = "pos" /\ c.velocity = "pos" /\ c.place = "pos"
      /\ c.density \in {"pos", "inf"}
  BY DEF Usable
<1>2. Mean("pos", "pos") = {"pos"} /\ VectorSum("pos", "pos") = {"pos"}
  BY DEF Mean, VectorSum
<1>3. h = Halfway
  BY <1>1, <1>2 DEF HalfOf, Halfway
<1>4. ASSUME NEW p \in HalfPressure(c, c, "pos"), Above(p)
      PROVE  c.density = "pos"
  <2>1. PICK d \in HarmonicMean(c.density, c.density) : p \in Product(d, "pos")
    BY DEF HalfPressure
  <2>2. SUFFICES ASSUME c.density = "inf" PROVE FALSE
    BY <1>1
  <2>3. d = "nan"
    BY <2>1, <2>2 DEF HarmonicMean, Finite
  <2>4. p = "nan"
    BY <2>1, <2>3 DEF Product
  <2> QED
    BY <1>4, <2>4 DEF Above
<1> QED
  BY <1>3, <1>4

LEMMA MovedLeaf ==
  ASSUME TypeOK, NEW l \in Leaf, NEW s \in Moved(l)
  PROVE  /\ s \in CellState
         /\ Above(s.density) =>
              corner[l] = "pos" /\ s.place = "pos" /\ s.density \in {"pos", "inf"}
<1>1. lag[l] \in CellState /\ half[l].place \in VectorClass /\ corner[l] \in VectorClass
  BY DEF TypeOK, HalfState
<1>2. PICK x \in VectorSum(half[l].place, corner[l]) :
        \E d \in Density(x) : s = [lag[l] EXCEPT !.place = x, !.density = d]
  BY DEF Moved
<1>3. PICK d \in Density(x) : s = [lag[l] EXCEPT !.place = x, !.density = d]
  BY <1>2
<1>4. x \in VectorClass /\ (x = "pos" => corner[l] = "pos")
  BY <1>1, VectorSumClass
<1>5. d \in Double /\ (Above(d) => x = "pos" /\ d \in {"pos", "inf"})
  BY <1>4, DensityClass
<1>6. s.place = x /\ s.density = d
  BY <1>1, <1>3 DEF CellState
<1> QED
  BY <1>1, <1>3, <1>4, <1>5, <1>6 DEF CellState

\* The same work is in both energies.
LEMMA WorkedLeaf ==
  ASSUME TypeOK, NEW l \in Leaf, half[l] = Halfway, NEW s \in Worked(l)
  PROVE  /\ s \in CellState
         /\ s.density = lag[l].density /\ s.place = lag[l].place
         /\ s.total = "nan" => s.internal = "nan"
         /\ s.total \in Finite => s.internal \in Finite /\ s.velocity = "pos"
<1>1. lag[l] \in CellState /\ corner[l] \in VectorClass /\ force[l] \in VectorClass
  BY DEF TypeOK
<1>2. half[l].velocity = "pos" /\ half[l].total = "pos" /\ half[l].internal = "pos"
  BY DEF Halfway
<1>3. PICK work \in DotProduct(corner[l], force[l]), u \in VectorSum(half[l].velocity, force[l]) :
        s \in Heat(l, work, u)
  BY DEF Worked
<1>4. PICK t \in Difference("pos", work), e \in Internal(l, work, u) :
        s = WithEnergies(l, u, t, e)
  BY <1>2, <1>3 DEF Heat
<1>5. u \in VectorClass /\ (u = "pos" <=> force[l] = "pos")
  BY <1>1, <1>2, PositiveClass, VectorSumClass
<1>6. work \in Double /\ (work \in Finite <=> corner[l] = "pos" /\ force[l] = "pos")
  BY <1>1, DotProductClass
<1>7. /\ t \in Double
      /\ t \in Finite <=> work \in Finite
      /\ t = "nan" => work = "nan"
  BY <1>6, PositiveClass, DifferenceClass
<1>8. PICK k \in Kinetic(l, u) : \E heat \in Difference(work, k) : e \in Difference("pos", heat)
  BY <1>2 DEF Internal
<1>9. PICK heat \in Difference(work, k) : e \in Difference("pos", heat)
  BY <1>8
<1>10. PICK w \in VectorSum("pos", u) : k \in DotProduct(w, force[l])
  BY <1>2 DEF Kinetic
<1>11. w \in VectorClass /\ (w = "pos" <=> u = "pos")
  BY <1>5, PositiveClass, VectorSumClass
<1>12. k \in Double /\ (k \in Finite <=> w = "pos" /\ force[l] = "pos")
  BY <1>1, <1>10, <1>11, DotProductClass
<1>13. /\ heat \in Double
       /\ heat \in Finite <=> work \in Finite /\ k \in Finite
       /\ work = "nan" => heat = "nan"
  BY <1>6, <1>12, DifferenceClass
<1>14. /\ e \in Double
       /\ e \in Finite <=> heat \in Finite
       /\ heat = "nan" => e = "nan"
  BY <1>9, <1>13, PositiveClass, DifferenceClass
<1>15. /\ s.total = t /\ s.internal = e /\ s.velocity = u
       /\ s.density = lag[l].density /\ s.place = lag[l].place
  BY <1>1, <1>4 DEF WithEnergies, CellState
<1>16. s \in CellState
  BY <1>1, <1>4, <1>5, <1>7, <1>14 DEF WithEnergies, CellState
<1> QED
  BY <1>5, <1>6, <1>7, <1>11, <1>12, <1>13, <1>14, <1>15, <1>16

LEMMA DivergenceClass ==
  ASSUME NEW u \in VectorClass, NEW d \in DivergenceOf(u)
  PROVE  d \in VectorClass /\ (u = "pos" => d = "pos")
BY DEF DivergenceOf, VectorClass

LEMMA SoundSpeedClass ==
  ASSUME NEW p \in Double, NEW d \in Double, NEW c \in SoundSpeedOf(p, d)
  PROVE  c \in Double
BY DEF SoundSpeedOf, Double, Finite, Infinite

-----------------------------------------------------------------------------
(* The invariant. *)

LEMMA InitGuard == Init => GuardInv
<1> SUFFICES ASSUME Init PROVE GuardInv
  OBVIOUS
<1>1. /\ cur = [l \in Leaf |-> Initial] /\ lag = cur /\ phase = "predict"
      /\ half = [l \in Leaf |-> Halfway]
      /\ sound = [l \in Leaf |-> "pos"] /\ divergence = [l \in Leaf |-> "pos"]
      /\ corner = [l \in Leaf |-> "pos"] /\ force = [l \in Leaf |-> "pos"]
      /\ equalDt \in BOOLEAN
  BY DEF Init, Halfway
<1>2. Initial \in CellState /\ Usable(Initial) /\ Halfway \in HalfState
  BY PositiveClass DEF Initial, CellState, HalfState, Halfway, Usable
<1>3. TypeOK
  BY <1>1, <1>2, PositiveClass DEF TypeOK, Phases
<1>4. \A l \in Leaf : Usable(cur[l]) /\ lag[l] = cur[l]
  BY <1>1, <1>2
<1>5. AcceptedIsUsable
  BY <1>4 DEF AcceptedIsUsable
<1>6. PredictSeesNumbers
  BY <1>1, <1>4 DEF PredictSeesNumbers, Usable
<1>7. SolverSeesNumbers
  BY <1>1 DEF SolverSeesNumbers
<1> QED
  BY <1>1, <1>3, <1>5, <1>6, <1>7 DEF GuardInv, Started, Finished

\* An action leads to the next phase or aborts the job.
LEMMA PredictGuard ==
  ASSUME GuardInv, Predict
  PROVE  GuardInv'
<1>1. /\ phase = "predict" /\ phase' \in {"half", "aborted"}
      /\ UNCHANGED <<cur, lag, half, sound, divergence, corner, force, equalDt>>
  BY DEF Predict, GoOn
<1>2. TypeOK'
  BY <1>1 DEF GuardInv, TypeOK, Phases
<1>3. AcceptedIsUsable' /\ PredictSeesNumbers' /\ SolverSeesNumbers'
  BY <1>1 DEF GuardInv, AcceptedIsUsable, PredictSeesNumbers, SolverSeesNumbers
<1> QED
  BY <1>1, <1>2, <1>3 DEF GuardInv, Started, Finished

LEMMA HalfTimeGuard ==
  ASSUME GuardInv, HalfTime
  PROVE  GuardInv'
<1>1. PICK p \in Each(LAMBDA l : HalfPressure(cur[l], lag[l], half'[l].internal)) :
        GoOn(\A l \in Leaf : HalfGuard(half'[l].internal, p[l]), "solve")
  BY DEF HalfTime
<1>2. /\ phase = "half" /\ phase' \in {"solve", "aborted"}
      /\ UNCHANGED <<cur, lag, sound, divergence, corner, force, equalDt>>
      /\ half' \in [Leaf -> UNION {HalfOf(cur[l], lag[l]) : l \in Leaf}]
      /\ \A l \in Leaf : half'[l] \in HalfOf(cur[l], lag[l])
  BY DEF HalfTime, GoOn, Each
<1>3. \A l \in Leaf : cur[l] \in CellState /\ Usable(cur[l]) /\ lag[l] = cur[l]
  BY <1>2 DEF GuardInv, TypeOK, AcceptedIsUsable
<1>4. \A l \in Leaf : half'[l] = Halfway
  BY <1>2, <1>3, HalfOfAccepted
<1>5. half' \in [Leaf -> HalfState]
  <2>1. Halfway \in HalfState
    BY PositiveClass DEF HalfState, Halfway
  <2> QED
    BY <1>2, <1>4, <2>1
<1>6. TypeOK'
  BY <1>2, <1>5 DEF GuardInv, TypeOK, Phases
<1>7. lag' = cur'
  <2>1. \A l \in Leaf : lag[l] = cur[l]
    BY <1>3
  <2>2. lag \in [Leaf -> CellState] /\ cur \in [Leaf -> CellState]
    BY DEF GuardInv, TypeOK
  <2> QED
    BY <1>2, <2>1, <2>2
<1>8. ASSUME phase' = "solve", NEW l \in Leaf
      PROVE  cur[l].density = "pos"
  <2>1. Above(p[l])
    BY <1>1, <1>8 DEF GoOn, HalfGuard
  <2>2. p[l] \in HalfPressure(cur[l], cur[l], "pos")
    <3>1. p[l] \in HalfPressure(cur[l], lag[l], half'[l].internal)
      BY <1>1 DEF Each
    <3>2. half'[l].internal = "pos"
      BY <1>4 DEF Halfway
    <3> QED
      BY <1>3, <3>1, <3>2
  <2>3. Halfway \in HalfOf(cur[l], cur[l])
    BY <1>2, <1>3, <1>4
  <2> QED
    BY <1>3, <2>1, <2>2, <2>3, HalfOfAccepted
<1>9. AcceptedIsUsable' /\ PredictSeesNumbers'
  BY <1>2 DEF AcceptedIsUsable, PredictSeesNumbers
<1>10. SolverSeesNumbers'
  BY <1>2, <1>3, <1>8 DEF SolverSeesNumbers
<1> QED
  BY <1>2, <1>4, <1>6, <1>7, <1>9, <1>10 DEF GuardInv, Started, Finished

LEMMA SolveGuard ==
  ASSUME GuardInv, Solve
  PROVE  GuardInv'
<1>1. /\ phase = "solve" /\ phase' = "move"
      /\ UNCHANGED <<cur, lag, half, sound, divergence, equalDt>>
  BY DEF Solve
<1>2. TypeOK'
  BY <1>1 DEF GuardInv, TypeOK, Solve, Phases
<1>3. AcceptedIsUsable' /\ PredictSeesNumbers' /\ SolverSeesNumbers'
  BY <1>1 DEF GuardInv, AcceptedIsUsable, PredictSeesNumbers, SolverSeesNumbers
<1> QED
  BY <1>1, <1>2, <1>3 DEF GuardInv, Started, Finished

LEMMA MoveGuard ==
  ASSUME GuardInv, Move
  PROVE  GuardInv'
<1>1. /\ phase = "move" /\ phase' = "energy"
      /\ UNCHANGED <<cur, half, sound, corner, force, equalDt>>
      /\ divergence' \in [Leaf -> UNION {DivergenceOf(corner[l]) : l \in Leaf}]
      /\ \A l \in Leaf : divergence'[l] \in DivergenceOf(corner[l])
      /\ lag' \in [Leaf -> UNION {Moved(l) : l \in Leaf}]
      /\ \A l \in Leaf : lag'[l] \in Moved(l)
  BY DEF Move, Each
<1>2. \A l \in Leaf :
        /\ divergence'[l] \in VectorClass
        /\ corner[l] = "pos" => divergence'[l] = "pos"
  BY <1>1, DivergenceClass DEF GuardInv, TypeOK
<1>3. TypeOK
  BY DEF GuardInv
<1>4. \A l \in Leaf :
        /\ lag'[l] \in CellState
        /\ Above(lag'[l].density) =>
             corner[l] = "pos" /\ lag'[l].place = "pos" /\ lag'[l].density \in {"pos", "inf"}
  BY <1>1, <1>3, MovedLeaf
<1>5. divergence' \in [Leaf -> VectorClass] /\ lag' \in [Leaf -> CellState]
  BY <1>1, <1>2, <1>4
<1>6. TypeOK'
  BY <1>1, <1>3, <1>5 DEF TypeOK, Phases
<1>7. \A l \in Leaf : Placed(l)'
  BY <1>1, <1>2, <1>4 DEF Placed
<1>8. AcceptedIsUsable' /\ PredictSeesNumbers' /\ SolverSeesNumbers'
  BY <1>1 DEF GuardInv, AcceptedIsUsable, PredictSeesNumbers, SolverSeesNumbers
<1>9. \A l \in Leaf : half'[l] = Halfway
  BY <1>1 DEF GuardInv, Started
<1> QED
  BY <1>1, <1>6, <1>7, <1>8, <1>9 DEF GuardInv, Started, Finished

\* The check of the new energies lets a NaN pass: Heated says what it leaves.
LEMMA UpdateEnergyGuard ==
  ASSUME GuardInv, UpdateEnergy
  PROVE  GuardInv'
<1>1. /\ phase = "energy" /\ phase' \in {"pressure", "aborted"}
      /\ UNCHANGED <<cur, half, sound, divergence, corner, force, equalDt>>
      /\ lag' \in [Leaf -> UNION {Worked(l) : l \in Leaf}]
      /\ \A l \in Leaf : lag'[l] \in Worked(l)
      /\ phase' = "pressure" =>
           \A l \in Leaf : EnergyGuard(lag'[l].total, lag'[l].internal)
  BY DEF UpdateEnergy, GoOn, Each
<1>2. TypeOK /\ \A l \in Leaf : half[l] = Halfway
  BY <1>1 DEF GuardInv, Started
<1>3. \A l \in Leaf :
        /\ lag'[l] \in CellState
        /\ lag'[l].density = lag[l].density /\ lag'[l].place = lag[l].place
        /\ lag'[l].total = "nan" => lag'[l].internal = "nan"
        /\ lag'[l].total \in Finite => lag'[l].internal \in Finite /\ lag'[l].velocity = "pos"
  BY <1>1, <1>2, WorkedLeaf
<1>4. lag' \in [Leaf -> CellState]
  BY <1>1, <1>3
<1>5. TypeOK'
  BY <1>1, <1>2, <1>4 DEF TypeOK, Phases
<1>6. \A l \in Leaf : Placed(l)'
  <2>1. \A l \in Leaf : Placed(l)
    BY <1>1 DEF GuardInv, Finished
  <2> QED
    BY <1>1, <1>3, <2>1 DEF Placed
<1>7. ASSUME phase' = "pressure", NEW l \in Leaf
      PROVE  Heated(l)'
  <2>1. ~AtMost(lag'[l].total) /\ ~AtMost(lag'[l].internal)
    BY <1>1, <1>7 DEF EnergyGuard
  <2>2. lag'[l].total \in Double
    BY <1>3 DEF CellState
  <2>3. lag'[l].total \in {"pos", "inf", "nan"}
    BY <2>1, <2>2 DEF AtMost, Double, Finite, Infinite
  <2>4. ASSUME lag'[l].total = "pos"
        PROVE  lag'[l].internal = "pos" /\ lag'[l].velocity = "pos"
    BY <1>3, <2>1, <2>4 DEF AtMost, Finite
  <2> QED
    BY <1>3, <2>3, <2>4 DEF Heated
<1>8. AcceptedIsUsable' /\ PredictSeesNumbers' /\ SolverSeesNumbers'
  BY <1>1 DEF GuardInv, AcceptedIsUsable, PredictSeesNumbers, SolverSeesNumbers
<1>9. \A l \in Leaf : half'[l] = Halfway
  BY <1>1, <1>2
<1> QED
  BY <1>1, <1>5, <1>6, <1>7, <1>8, <1>9 DEF GuardInv, Started, Finished

LEMMA UpdatePressureGuard ==
  ASSUME GuardInv, UpdatePressure
  PROVE  GuardInv'
<1>1. /\ phase = "pressure" /\ phase' = "check"
      /\ UNCHANGED <<cur, half, divergence, corner, force, equalDt>>
  BY DEF UpdatePressure
<1>2. /\ lag' \in [Leaf -> UNION {{[lag[l] EXCEPT !.pressure = p] :
                                     p \in Product(lag[l].density, lag[l].internal)} : l \in Leaf}]
      /\ \A l \in Leaf : \E p \in Product(lag[l].density, lag[l].internal) :
           lag'[l] = [lag[l] EXCEPT !.pressure = p]
  BY DEF UpdatePressure, Each
<1>3. TypeOK
  BY DEF GuardInv
<1>4. ASSUME NEW l \in Leaf
      PROVE  /\ lag'[l] \in CellState
             /\ lag'[l].density = lag[l].density /\ lag'[l].place = lag[l].place
             /\ lag'[l].total = lag[l].total /\ lag'[l].internal = lag[l].internal
             /\ lag'[l].velocity = lag[l].velocity
  <2>1. PICK p \in Product(lag[l].density, lag[l].internal) :
          lag'[l] = [lag[l] EXCEPT !.pressure = p]
    BY <1>2
  <2>2. lag[l] \in CellState
    BY <1>3 DEF TypeOK
  <2>3. p \in Double
    BY <2>2, ProductClass DEF CellState
  <2> QED
    BY <2>1, <2>2, <2>3 DEF CellState
<1>5. lag' \in [Leaf -> CellState]
  BY <1>2, <1>4
<1>6. sound' \in [Leaf -> Double]
  <2>1. /\ sound' \in [Leaf -> UNION {SoundSpeedOf(lag'[l].pressure, lag[l].density) : l \in Leaf}]
        /\ \A l \in Leaf : sound'[l] \in SoundSpeedOf(lag'[l].pressure, lag[l].density)
    BY DEF UpdatePressure, Each
  <2>2. \A l \in Leaf : lag'[l].pressure \in Double /\ lag[l].density \in Double
    BY <1>3, <1>4 DEF TypeOK, CellState
  <2>3. \A l \in Leaf : sound'[l] \in Double
    BY <2>1, <2>2, SoundSpeedClass
  <2> QED
    BY <2>1, <2>3
<1>7. TypeOK'
  BY <1>1, <1>3, <1>5, <1>6 DEF TypeOK, Phases
<1>8. \A l \in Leaf : Placed(l)' /\ Heated(l)'
  <2>1. \A l \in Leaf : Placed(l) /\ Heated(l)
    BY <1>1 DEF GuardInv, Finished
  <2> QED
    BY <1>1, <1>4, <2>1 DEF Placed, Heated
<1>9. AcceptedIsUsable' /\ PredictSeesNumbers' /\ SolverSeesNumbers'
  BY <1>1 DEF GuardInv, AcceptedIsUsable, PredictSeesNumbers, SolverSeesNumbers
<1>10. \A l \in Leaf : half'[l] = Halfway
  BY <1>1 DEF GuardInv, Started
<1> QED
  BY <1>1, <1>7, <1>8, <1>9, <1>10 DEF GuardInv, Started, Finished

\* No total energy is -inf any more, so the sum is a NaN only if one of them is.
LEMMA CheckEnergyGuard ==
  ASSUME GuardInv, CheckEnergy
  PROVE  GuardInv'
<1>1. /\ phase = "check" /\ phase' \in {"accept", "aborted"}
      /\ UNCHANGED <<cur, lag, half, sound, divergence, corner, force, equalDt>>
      /\ phase' = "accept" => CheckGuard
  BY DEF CheckEnergy, GoOn
<1>2. TypeOK'
  BY <1>1 DEF GuardInv, TypeOK, Phases
<1>3. \A l \in Leaf : Placed(l) /\ Heated(l)
  BY <1>1 DEF GuardInv, Finished
<1>4. \A l \in Leaf : Placed(l)' /\ Heated(l)'
  BY <1>1, <1>3 DEF Placed, Heated
<1>5. ASSUME CheckGuard
      PROVE  \/ \E l \in Leaf : lag[l].total = "nan"
             \/ \A l \in Leaf : lag[l].total \in Finite
  <2>1. \A l \in Leaf : lag[l].total # "-inf"
    BY <1>3 DEF Heated
  <2> QED
    BY <1>5, <2>1 DEF CheckGuard, TotalIsNaN, Infinite
<1>6. AcceptedIsUsable' /\ PredictSeesNumbers' /\ SolverSeesNumbers'
  BY <1>1 DEF GuardInv, AcceptedIsUsable, PredictSeesNumbers, SolverSeesNumbers
<1>7. \A l \in Leaf : half'[l] = Halfway
  BY <1>1 DEF GuardInv, Started
<1> QED
  BY <1>1, <1>2, <1>4, <1>5, <1>6, <1>7 DEF GuardInv, Started, Finished

LEMMA AcceptGuardInv ==
  ASSUME GuardInv, Accept
  PROVE  GuardInv'
<1>1. /\ phase = "accept" /\ phase' \in {"predict", "aborted"} /\ cur' = lag
      /\ UNCHANGED <<lag, half, sound, divergence, corner, force, equalDt>>
      /\ phase' = "predict" => \A l \in Leaf : AcceptGuard(lag[l]) /\ ChildrenGuard(lag[l])
  BY DEF Accept, GoOn
<1>2. TypeOK'
  BY <1>1 DEF GuardInv, TypeOK, Phases
<1>3. ASSUME phase' = "predict", NEW l \in Leaf
      PROVE  Usable(lag[l]) /\ divergence[l] = "pos"
  <2>1. \A k \in Leaf : Placed(k) /\ Heated(k)
    BY <1>1 DEF GuardInv, Finished
  <2>2. \A k \in Leaf : Above(lag[k].internal) /\ Above(lag[k].density)
    BY <1>1, <1>3 DEF ChildrenGuard
  <2>3. \A k \in Leaf : lag[k].total # "nan"
    BY <2>1, <2>2 DEF Heated, Above
  <2>4. lag[l].total \in Finite
    BY <1>1, <2>3 DEF GuardInv
  <2>5. lag[l].total = "pos"
    BY <2>1, <2>4 DEF Heated, Finite
  <2> QED
    BY <2>1, <2>2, <2>5 DEF Heated, Placed, Usable
<1>4. AcceptedIsUsable' /\ PredictSeesNumbers' /\ SolverSeesNumbers'
  BY <1>1, <1>3 DEF AcceptedIsUsable, PredictSeesNumbers, SolverSeesNumbers, Usable
<1> QED
  BY <1>1, <1>2, <1>4 DEF GuardInv, Started, Finished

LEMMA StutterGuard ==
  ASSUME GuardInv, UNCHANGED vars
  PROVE  GuardInv'
BY DEF vars, GuardInv, TypeOK, AcceptedIsUsable, PredictSeesNumbers, SolverSeesNumbers,
       Placed, Heated

\* The invariant of every behaviour, aborted or not.
THEOREM GuardInvariant == Spec => []GuardInv
<1>1. GuardInv /\ [Next]_vars => GuardInv'
  BY PredictGuard, HalfTimeGuard, SolveGuard, MoveGuard, UpdateEnergyGuard,
     UpdatePressureGuard, CheckEnergyGuard, AcceptGuardInv, StutterGuard DEF Next
<1> QED
  BY InitGuard, <1>1, PTL DEF Spec

\* Every double is of a class the arithmetic knows.
THEOREM ClassesCorrect == Spec => []TypeOK
<1>1. GuardInv => TypeOK
  BY DEF GuardInv
<1> QED
  BY GuardInvariant, <1>1, PTL

\* Whatever the solver returns, a leaf that is accepted holds numbers.
THEOREM AcceptedLeavesUsable == Spec => []AcceptedIsUsable
<1>1. GuardInv => AcceptedIsUsable
  BY DEF GuardInv
<1> QED
  BY GuardInvariant, <1>1, PTL

\* The prediction, which takes a NaN for no limit, is never given one.
THEOREM PredictionSafe == Spec => []PredictSeesNumbers
<1>1. GuardInv => PredictSeesNumbers
  BY DEF GuardInv
<1> QED
  BY GuardInvariant, <1>1, PTL

\* An accepted leaf of infinite density is stopped before the solver reads it.
THEOREM SolverSafe == Spec => []SolverSeesNumbers
<1>1. GuardInv => SolverSeesNumbers
  BY DEF GuardInv
<1> QED
  BY GuardInvariant, <1>1, PTL
=============================================================================
