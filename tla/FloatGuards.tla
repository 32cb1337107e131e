----------------------------- MODULE FloatGuards -----------------------------
(***************************************************************************)
(* The doubles that are no numbers, and the comparisons that are to stop   *)
(* them: the passes of a time step on the cell variables, each double      *)
(* taken for its class.  A comparison of a NaN is false, so "x > eps or    *)
(* abort" stops it and "abort if x <= eps" lets it pass; the code has both *)
(* forms, and the second between the passes.                               *)
(*                                                                         *)
(* What the solver makes of a leaf's neighbours may be anything.  Only a   *)
(* division by zero makes a number infinite: that a sum or a product       *)
(* overflows is left out.  Refinement and the refresh between two steps    *)
(* are, too.                                                               *)
(***************************************************************************)
EXTENDS Integers

CONSTANT Leaf    \* the leaves of all ranks

\* The classes of a double: "low" is at most 0, "tiny" at most m_eps.  A vector
\* is "nan" if a component is, else "inf" if one is infinite, else "pos".
Finite == {"low", "tiny", "pos"}
Infinite == {"-inf", "inf"}
Double == Finite \cup Infinite \cup {"nan"}
Positive == {"tiny", "pos", "inf"}
VectorClass == {"pos", "inf", "nan"}

VARIABLES
  cur, lag,        \* accepted and new: density, energies, pressure, velocity, places
  half,            \* halfway: energies, velocity, places
  sound, divergence,
  corner, force,   \* what the solver found: velocities of the corners, forces
  equalDt,         \* equal_dt: no prediction
  phase

vars == <<cur, lag, half, sound, divergence, corner, force, equalDt, phase>>

\* What each leaf may make of its own numbers.
Each(Of(_)) == {f \in [Leaf -> UNION {Of(l) : l \in Leaf}] : \A l \in Leaf : f[l] \in Of(l)}

-----------------------------------------------------------------------------
(* Arithmetic: the classes a result may have. *)

Negative(a) ==
  IF a \in Infinite THEN Infinite \ {a} ELSE IF a = "nan" THEN {a} ELSE Finite
Sum(a, b) ==
  IF "nan" \in {a, b} \/ {a, b} = Infinite THEN {"nan"}
  ELSE IF {a, b} \subseteq Finite THEN Finite
  ELSE {a, b} \cap Infinite
Difference(a, b) == UNION {Sum(a, c) : c \in Negative(b)}
Mean(a, b) == IF a = b THEN {a} ELSE Sum(a, b)
Product(a, b) ==
  IF "nan" \in {a, b} THEN {"nan"}
  ELSE IF {a, b} \subseteq Positive
       THEN IF "inf" \in {a, b} THEN {"inf"} ELSE {"tiny", "pos"}
  ELSE IF {a, b} \subseteq Finite THEN Finite
  ELSE Infinite \cup {"nan"}
\* 2ab / (a + b).
HarmonicMean(a, b) ==
  IF {a, b} \subseteq {"tiny", "pos"} THEN IF a = b THEN {a} ELSE {"tiny", "pos"}
  ELSE IF {a, b} \subseteq Finite THEN Double
  ELSE {"nan"}
\* Vectors: an infinite component stays one or becomes a NaN.
VectorSum(a, b) ==
  IF {a, b} = {"pos"} THEN {"pos"}
  ELSE IF "nan" \in {a, b} THEN {"nan"}
  ELSE {"inf", "nan"}
DotProduct(a, b) ==
  IF {a, b} = {"pos"} THEN Finite
  ELSE IF "nan" \in {a, b} THEN {"nan"}
  ELSE Infinite \cup {"nan"}

\* CalculateCellVolume, which is not negative; every corner counts.
VolumeOf(place) ==
  IF place = "pos" THEN Finite ELSE IF place = "inf" THEN {"inf", "nan"} ELSE {"nan"}
\* Mass over volume.
DensityOf(v) ==
  IF v \in {"tiny", "pos"} THEN {"tiny", "pos"}
  ELSE IF v = "low" THEN {"inf"} ELSE IF v = "inf" THEN {"low"} ELSE {"nan"}
\* CalculateSoundSpeed: zero unless pressure and density are positive.
SoundSpeedOf(p, d) ==
  IF {p, d} \cap {"low", "-inf"} # {} THEN {"low"}
  ELSE IF "nan" \in {p, d} \/ {p, d} = {"inf"} THEN {"nan"}
  ELSE IF p = "inf" THEN {"inf"}
  ELSE IF d = "inf" THEN {"low"}
  ELSE {"tiny", "pos"}
\* calculate_divergence: its class is that of a vector, the sign does not matter.
DivergenceOf(u) == IF u = "inf" THEN {"inf", "nan"} ELSE {u}

-----------------------------------------------------------------------------
(* Comparisons with m_eps. *)

Above(a) == a \in {"pos", "inf"}              \* a > m_eps
AtMost(a) == a \in {"-inf", "low", "tiny"}    \* a <= m_eps

-----------------------------------------------------------------------------
(* The passes.  An abort ends the job. *)

\* InitCondition.
Initial ==
  [density |-> "pos", internal |-> "pos", total |-> "pos", pressure |-> "pos",
   velocity |-> "pos", place |-> "pos"]
Init ==
  /\ cur = [l \in Leaf |-> Initial] /\ lag = cur
  /\ half = [l \in Leaf |-> [internal |-> "pos", total |-> "pos", velocity |-> "pos",
                             place |-> "pos"]]
  /\ sound = [l \in Leaf |-> "pos"] /\ divergence = [l \in Leaf |-> "pos"]
  /\ corner = [l \in Leaf |-> "pos"] /\ force = [l \in Leaf |-> "pos"]
  /\ equalDt \in BOOLEAN
  /\ phase = "predict"

\* Where the job goes on, if the guard of every leaf lets it.
GoOn(guarded, next) == phase' = IF guarded THEN next ELSE "aborted"

\* get_CourantTimeStep aborts unless the sound speed is above 1e-12, and limits
\* the step to no less than m_eps: a smaller limit is taken for none.
CourantGuard(c) == Above(c)
\* get_VolumeVarationTimeStep divides by an absolute value above m_eps.
VolumeLimit(d) ==
  IF d = "inf" THEN {"low"} ELSE IF d = "pos" THEN {"tiny", "pos"} ELSE {"pos"}
\* quadrant_predict_timestep on all leaves, and the reduction; the step may grow
\* by a factor.
Predict ==
  /\ phase = "predict"
  /\ \E limit \in Each(LAMBDA l : VolumeLimit(divergence[l])), grown \in {"tiny", "pos"} :
       GoOn(\/ equalDt
            \/ grown = "pos" /\ \A l \in Leaf : CourantGuard(sound[l]) /\ limit[l] = "pos",
            "half")
  /\ UNCHANGED <<cur, lag, half, sound, divergence, corner, force, equalDt>>

\* quadrant_compute_halftime_variable.
HalfPressure(c, n, e) ==
  UNION {Product(d, e) : d \in HarmonicMean(c.density, n.density)}
HalfGuard_Negated(e, p) == ~AtMost(e) /\ ~AtMost(p)
HalfGuard(e, p) == Above(e) /\ Above(p)
HalfOf(c, n) ==
  {[internal |-> e, total |-> t, velocity |-> u, place |-> x] :
     e \in Mean(c.internal, n.internal), t \in Mean(c.total, n.total),
     u \in VectorSum(c.velocity, n.velocity), x \in VectorSum(c.place, n.place)}
HalfTime ==
  /\ phase = "half"
  /\ half' \in Each(LAMBDA l : HalfOf(cur[l], lag[l]))
  /\ \E p \in Each(LAMBDA l : HalfPressure(cur[l], lag[l], half'[l].internal)) :
       GoOn(\A l \in Leaf : HalfGuard(half'[l].internal, p[l]), "solve")
  /\ UNCHANGED <<cur, lag, sound, divergence, corner, force, equalDt>>

\* RiemannSolver: every leaf reads its neighbours, and an inverse may fail.
Solve ==
  /\ phase = "solve" /\ phase' = "move"
  /\ corner' \in [Leaf -> VectorClass] /\ force' \in [Leaf -> VectorClass]
  /\ UNCHANGED <<cur, lag, half, sound, divergence, equalDt>>

\* compute_divergence, update_corner_coordinates, update_volume_density.
Density(x) == UNION {DensityOf(v) : v \in VolumeOf(x)}
Moved(l) ==
  UNION {{[lag[l] EXCEPT !.place = x, !.density = d] : d \in Density(x)} :
           x \in VectorSum(half[l].place, corner[l])}
Move ==
  /\ phase = "move" /\ phase' = "energy"
  /\ divergence' \in Each(LAMBDA l : DivergenceOf(corner[l]))
  /\ lag' \in Each(LAMBDA l : Moved(l))
  /\ UNCHANGED <<cur, half, sound, corner, force, equalDt>>

\* update_momentum, update_work, update_energy, quadrant_update_EOS (which
\* prints and goes on), quadrant_compute_soundspeed.
EnergyGuard(t, e) == ~AtMost(t) /\ ~AtMost(e)
Kinetic(l, u) ==
  UNION {DotProduct(w, force[l]) : w \in VectorSum(half[l].velocity, u)}
Internal(l, work, u) ==
  UNION {Difference(half[l].internal, heat) :
           heat \in UNION {Difference(work, k) : k \in Kinetic(l, u)}}
WithEnergies(l, u, t, e) == [lag[l] EXCEPT !.velocity = u, !.total = t, !.internal = e]
Heat(l, work, u) ==
  {WithEnergies(l, u, t, e) :
     t \in Difference(half[l].total, work), e \in Internal(l, work, u)}
Worked(l) ==
  UNION {Heat(l, work, u) : work \in DotProduct(corner[l], force[l]),
                            u \in VectorSum(half[l].velocity, force[l])}
UpdateEnergy ==
  /\ phase = "energy"
  /\ lag' \in Each(LAMBDA l : Worked(l))
  /\ GoOn(\A l \in Leaf : EnergyGuard(lag'[l].total, lag'[l].internal), "pressure")
  /\ UNCHANGED <<cur, half, sound, divergence, corner, force, equalDt>>
UpdatePressure ==
  /\ phase = "pressure" /\ phase' = "check"
  /\ lag' \in Each(LAMBDA l : {[lag[l] EXCEPT !.pressure = p] :
                                 p \in Product(lag[l].density, lag[l].internal)})
  /\ sound' \in Each(LAMBDA l : SoundSpeedOf(lag'[l].pressure, lag[l].density))
  /\ UNCHANGED <<cur, half, divergence, corner, force, equalDt>>

\* StatTotalEnergyError: the error of the sum over all leaves is compared with >.
TotalIsNaN ==
  \/ \E l \in Leaf : lag[l].total = "nan"
  \/ \A a \in Infinite : \E l \in Leaf : lag[l].total = a
\* Relative to the new sum, an infinite error is a NaN.
CheckGuard_RelativeToNew == TRUE
CheckGuard == TotalIsNaN \/ \A l \in Leaf : lag[l].total \in Finite
CheckEnergy ==
  /\ phase = "check"
  /\ \E small \in BOOLEAN : GoOn(CheckGuard /\ (small \/ TotalIsNaN), "accept")
  /\ UNCHANGED <<cur, lag, half, sound, divergence, corner, force, equalDt>>

\* quadrant_accept_center_solution, and generate_children_info_from_parent: the
\* volumes of the children are compared with >, too, and the densities are not.
AcceptGuard(s) == Above(s.internal)
ChildrenGuard(s) == Above(s.density) /\ Above(s.internal)
\* As quadrant_update_EOS does.
Accept_Prints ==
  /\ phase = "accept" /\ cur' = lag /\ phase' = "predict"
  /\ UNCHANGED <<lag, half, sound, divergence, corner, force, equalDt>>
Accept ==
  /\ phase = "accept" /\ cur' = lag
  /\ \E fit \in BOOLEAN :
       GoOn(fit /\ \A l \in Leaf : AcceptGuard(lag[l]) /\ ChildrenGuard(lag[l]), "predict")
  /\ UNCHANGED <<lag, half, sound, divergence, corner, force, equalDt>>

Next ==
  \/ Predict \/ HalfTime \/ Solve \/ Move \/ UpdateEnergy \/ UpdatePressure
  \/ CheckEnergy \/ Accept

Spec == Init /\ [][Next]_vars

-----------------------------------------------------------------------------
(* Properties. *)

Phases == {"predict", "half", "solve", "move", "energy", "pressure", "check", "accept",
           "aborted"}
CellState ==
  [density : Double, internal : Double, total : Double, pressure : Double,
   velocity : VectorClass, place : VectorClass]
HalfState ==
  [internal : Double, total : Double, velocity : VectorClass, place : VectorClass]
TypeOK ==
  /\ cur \in [Leaf -> CellState] /\ lag \in [Leaf -> CellState]
  /\ half \in [Leaf -> HalfState]
  /\ sound \in [Leaf -> Double] /\ divergence \in [Leaf -> VectorClass]
  /\ corner \in [Leaf -> VectorClass] /\ force \in [Leaf -> VectorClass]
  /\ equalDt \in BOOLEAN /\ phase \in Phases

\* A leaf that has been accepted holds numbers, although neither the update of
\* the energies nor the energy check stops a NaN: the check of the new internal
\* energy stops a NaN from any of them, that of the density one from a place,
\* and the sum of all energies an infinite one.  The density may be infinite.
Usable(s) ==
  /\ s.internal = "pos" /\ s.total = "pos" /\ s.velocity = "pos" /\ s.place = "pos"
  /\ s.density \in {"pos", "inf"}
AcceptedIsUsable ==
  phase \in {"predict", "half"} => \A l \in Leaf : Usable(cur[l]) /\ lag[l] = cur[l]

\* The prediction would take a leaf with a NaN for a place or a divergence for
\* one that limits nothing; it never sees such a leaf.
PredictSeesNumbers ==
  phase = "predict" => \A l \in Leaf : divergence[l] = "pos" /\ cur[l].place = "pos"

\* A leaf squeezed to nothing ends the run before its infinite density gets into
\* the solver, with and without prediction.
SolverSeesNumbers ==
  phase \in {"solve", "move", "energy", "pressure", "check", "accept"} =>
    \A l \in Leaf : cur[l].density = "pos" /\ Usable(cur[l])
=============================================================================
