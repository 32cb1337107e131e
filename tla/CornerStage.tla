---------------------------- MODULE CornerStage ----------------------------
(***************************************************************************)
(* The numbers of one stage, advance_single_stage and                      *)
(* AcceptNumericalSolution: boundary half edges, corner and hanging-point  *)
(* equations, forces, the new mesh, momentum and energies.  Which leaf     *)
(* reads which copy is the matter of module HangingNodes: here one rank    *)
(* has all leaves.                                                         *)
(*                                                                         *)
(* The mesh is the undeformed grid and the corners are at rest, as in the  *)
(* first stage of the Cartesian problems after their initial refinements,  *)
(* in the plane and with all boundary values zero.                         *)
(***************************************************************************)
EXTENDS PartitionedForest, Residues

CONSTANTS
  Problems,     \* what InitCondition sets: the type of boundary at each face,
                \* and the gas in each quarter of the domain
  Solvers,      \* of p4est_data_t::RiemannSolver
  Gamma, TimeStep   \* residues

BoundaryType == {"wall", "free"}
ASSUME BoundariesAssumption == \A p \in Problems : p.boundary \in [Face -> BoundaryType]
\* The components of a velocity are zero or equal: the angle to a normal, which
\* the rotated solver asks for, has a cosine of zero, one or 1 / RootOfTwo.
ASSUME GasesAssumption ==
  \A p \in Problems : \A i \in 1..4 :
    LET g == p.gas[i]
    IN  /\ {g.density, g.sound} \subseteq 1..(Modulus - 1)
        /\ g.velocity \in Vector
        /\ 0 \in {g.velocity[1], g.velocity[2]} \/ g.velocity[1] = g.velocity[2]
\* The quarters of the domain are squares of the grid.
ASSUME QuartersAssumption == Depth > 0
ASSUME SolversAssumption == Solvers \subseteq {"GridAligned", "Rotated"}
ASSUME NumbersAssumption == Gamma \in 2..(Modulus - 1) /\ TimeStep \in 1..(Modulus - 1)

VARIABLES
  forest, boundary, solver,
  cell,     \* cell variables: mass, sound speed, cur and lag states
  node,     \* corner variables: places, velocity, matrix, right-hand side, force
  half,     \* CHalf_edge_data: boundary, length and normal
  point,    \* points: the equation of the point and its two boundary halves
  edge,     \* m_pc_edge_data and the edge variables: the edges that are divided
  mirror,   \* CellNodalData: faces and local master
  phase

vars == <<forest, boundary, solver, cell, node, half, point, edge, mirror, phase>>
setting == <<forest, boundary, solver>>

Sides == {"plus", "minus"}
Corners == forest \X Corner
Hanging == HangingEdges[forest]
HangsAt(c, k) == HangingPlaces(forest, c, k)
Regular(c, k) == HangsAt(c, k) = {}
Step(here, there) == phase = here /\ phase' = there

-----------------------------------------------------------------------------
(* The initial state. *)

\* InitCondition: pressure and energies of a gas of a given speed of sound.
Pressure(g) == (g.density \otimes (g.sound \otimes g.sound)) \oslash Gamma
InternalEnergy(g) ==
  (g.sound \otimes g.sound) \oslash (Gamma \otimes (Gamma \ominus 1))
Kinetic(u) == Half(Dot(u, u))
State(g) ==
  [density |-> g.density, pressure |-> Pressure(g), velocity |-> g.velocity,
   internal |-> InternalEnergy(g), total |-> Kinetic(g.velocity) \oplus InternalEnergy(g)]
QuarterOf(c) == CHOOSE i \in 1..4 : Overlap(Child(Cell(0, 0, 0), i), c)

Init ==
  /\ forest \in BalancedForests /\ solver \in Solvers
  /\ \E p \in Problems :
       /\ boundary = p.boundary
       /\ cell = [c \in forest |->
            LET g == p.gas[QuarterOf(c)]
            IN  [mass |-> g.density \otimes (Side(c) * Side(c)), sound |-> g.sound,
                 cur |-> State(g), lag |-> State(g)]]
  /\ node = [c \in forest |-> [k \in Corner |->
               [cur |-> Point(c, k), lag |-> Point(c, k), velocity |-> Zero,
                matrix |-> NoMatrix, rhs |-> Zero, force |-> Zero, flux |-> Zero]]]
  /\ half = [c \in forest |-> [k \in Corner |-> [s \in Sides |->
               [boundary |-> "unset", length |-> 0, normal |-> Zero]]]]
  /\ point = [c \in forest |-> [k \in Corner |->
                [matrix |-> NoMatrix, rhs |-> Zero, bouns |-> <<>>]]]
  /\ edge = [h \in Hanging |->
               [lengths |-> <<0, 0>>, normals |-> <<Zero, Zero>>, velocity |-> Zero,
                matrix |-> NoMatrix, rhs |-> Zero, force |-> Zero, flux |-> Zero]]
  /\ mirror = [c \in forest |-> [k \in Corner |-> [matrix |-> NoMatrix, rhs |-> Zero]]]
  /\ phase = "boundary"

-----------------------------------------------------------------------------
(* Before the solver. *)

AtBoundary(c, f) ==
  CASE f = "LEFT"   -> c.x = 0
    [] f = "RIGHT"  -> c.x = PowerOfTwo[Depth] - Side(c)
    [] f = "BOTTOM" -> c.y = 0
    [] f = "UP"     -> c.y = PowerOfTwo[Depth] - Side(c)

\* quadrant_get_BYD: the half edges of a face.
HalvesOf_Swapped(f) ==
  CASE f = "LEFT"   -> {<<"LEFTBOTTOM", "plus">>, <<"LEFTUP", "minus">>}
    [] f = "RIGHT"  -> {<<"RIGHTBOTTOM", "plus">>, <<"RIGHTUP", "minus">>}
    [] f = "BOTTOM" -> {<<"LEFTBOTTOM", "minus">>, <<"RIGHTBOTTOM", "plus">>}
    [] f = "UP"     -> {<<"LEFTUP", "plus">>, <<"RIGHTUP", "minus">>}
HalvesOf(f) ==
  CASE f = "LEFT"   -> {<<"LEFTBOTTOM", "plus">>, <<"LEFTUP", "minus">>}
    [] f = "RIGHT"  -> {<<"RIGHTBOTTOM", "minus">>, <<"RIGHTUP", "plus">>}
    [] f = "BOTTOM" -> {<<"LEFTBOTTOM", "minus">>, <<"RIGHTBOTTOM", "plus">>}
    [] f = "UP"     -> {<<"LEFTUP", "plus">>, <<"RIGHTUP", "minus">>}
BoundaryOf(c, k, s) ==
  IF \E f \in Face : AtBoundary(c, f) /\ <<k, s>> \in HalvesOf(f)
  THEN boundary[CHOOSE f \in Face : AtBoundary(c, f) /\ <<k, s>> \in HalvesOf(f)]
  ELSE "inner"

\* stage_phase_boundary.
GetBoundary ==
  /\ Step("boundary", "geometry")
  /\ half' = [c \in forest |-> [k \in Corner |-> [s \in Sides |->
                [half[c][k][s] EXCEPT !.boundary = BoundaryOf(c, k, s)]]]]
  /\ UNCHANGED <<setting, cell, node, point, edge, mirror>>

\* GetLineNormalVector along an axis.
Unit(a) == IF a < 0 THEN 0 \ominus 1 ELSE IF a = 0 THEN 0 ELSE 1
Normal(p, q) == <<Unit(p[2] - q[2]), Unit(q[1] - p[1])>>
Before(k) == CHOOSE j \in Corner : Following[j] = k

\* quadrant_compute_RcpLcpNcp: both halves of an edge are half of it long.
Geometry(c, k, s) ==
  LET p == node[c][IF s = "plus" THEN k ELSE Before(k)].cur
      q == node[c][IF s = "plus" THEN Following[k] ELSE k].cur
  IN  [half[c][k][s] EXCEPT !.length = Half(Distance(p, q)), !.normal = Normal(p, q)]
HalfCorner ==
  /\ Step("geometry", "amr")
  /\ half' = [c \in forest |-> [k \in Corner |-> [s \in Sides |-> Geometry(c, k, s)]]]
  /\ UNCHANGED <<setting, cell, node, point, edge, mirror>>

\* quadrant_get_children_hanging_info, quadrant_set_init_parent_edge: the edge
\* of the parent is the children's halves, seen from the other side, and the
\* halves of the parent's own corners end in the middle of the rest.
HangingHalf(h, i) == half[h.child[i]][WhichCorner(h, i)][WhichSide(h, i)]
EdgeOfChildren(h) ==
  [edge[h] EXCEPT
     !.lengths = [i \in 1..2 |-> HangingHalf(h, i).length],
     !.normals = [i \in 1..2 |-> Minus(Zero, HangingHalf(h, i).normal)],
     !.velocity = node[h.child[1]][WhichCorner(h, 1)].velocity]
CutHalf(c, k, s) ==
  LET cutting == {h \in Hanging : /\ h.parent = c
                                  /\ <<k, s>> \in {<<LowEnd[h.face], LowHalf[h.face]>>,
                                       <<HighEnd[h.face], OtherHalf[LowHalf[h.face]]>>}}
  IN  IF cutting = {} THEN half[c][k][s]
      ELSE LET h == CHOOSE h \in cutting : TRUE
           IN  [half[c][k][s] EXCEPT !.length =
                  Half(Distance(node[c][k].cur, node[h.child[1]][WhichCorner(h, 1)].cur))]
GetAMRBoundary ==
  /\ Step("amr", "master")
  /\ edge' = [h \in Hanging |-> EdgeOfChildren(h)]
  /\ half' = [c \in forest |-> [k \in Corner |-> [s \in Sides |-> CutHalf(c, k, s)]]]
  /\ UNCHANGED <<setting, cell, node, point, mirror>>

\* The two half edges of a face.
LowHalfOf(c, f) == half[c][LowEnd[f]][LowHalf[f]]
HighHalfOf(c, f) == half[c][HighEnd[f]][OtherHalf[LowHalf[f]]]
Divided(c, f) == \E h \in Hanging : h.parent = c /\ h.face = f

\* mirror_legacy_geometry_to_faces: the segments of a face, of which the local
\* master reads the first; each end has half of the weight.
FirstSegment_LowHalf(c, f) ==
  [length |-> LowHalfOf(c, f).length, normal |-> LowHalfOf(c, f).normal]
FirstSegment(c, f) ==
  [length |-> IF Divided(c, f) THEN LowHalfOf(c, f).length
              ELSE LowHalfOf(c, f).length \oplus HighHalfOf(c, f).length,
   normal |-> LowHalfOf(c, f).normal]
FacesAt(k) == {f \in Face : k \in {LowEnd[f], HighEnd[f]}}

\* What a half edge of length l and normal n adds to a corner's matrix: the
\* impedance is that of cell c.
Impedance(c) == cell[c].cur.density \otimes cell[c].sound
Resistance(c, l, n) == Scaled(Impedance(c) \otimes l, DyadicProduct(n, n))

\* write_cell_local_master, build_local_corner.
LocalMaster(c, k) ==
  LET length(f) == Half(FirstSegment(c, f).length)
      normal(f) == FirstSegment(c, f).normal
      m == MatrixTotal(LAMBDA f : Resistance(c, length(f), normal(f)), FacesAt(k))
  IN  [matrix |-> m,
       rhs |-> Plus(MatrixDotVector(m, cell[c].cur.velocity),
                    Scaled(cell[c].cur.pressure,
                           VectorTotal(LAMBDA f : Scaled(length(f), normal(f)), FacesAt(k))))]
WriteMasters ==
  /\ Step("master", "corners")
  /\ mirror' = [c \in forest |-> [k \in Corner |-> LocalMaster(c, k)]]
  /\ UNCHANGED <<setting, cell, node, half, point, edge>>

-----------------------------------------------------------------------------
(* RiemannSolver. *)

\* |DeltaU ^ n| / |DeltaU| of a velocity along an axis or a diagonal.
Cosine(u, n) ==
  IF Dot(u, n) = 0 THEN 0 ELSE IF 0 \in {u[1], u[2]} THEN 1 ELSE Half(RootOfTwo)

\* build_corner_matrix_rhs.
Push(b) == Scaled(b.length, b.normal)
CornerMatrix_OneHalf(c, k) ==
  MatrixTotal(LAMBDA s : Resistance(c, half[c][k][s].length, half[c][k][s].normal), {"plus"})
CornerMatrix(c, k) ==
  LET slip == Minus(node[c][k].velocity, cell[c].cur.velocity)
      x(s) == (Impedance(c) \otimes half[c][k][s].length)
                \otimes Cosine(slip, half[c][k][s].normal)
      scalar == x("plus") \oplus x("minus")
  IN  IF solver = "Rotated" /\ slip # Zero THEN <<scalar, 0, 0, scalar>>
      ELSE MatrixTotal(LAMBDA s : Resistance(c, half[c][k][s].length, half[c][k][s].normal),
                       Sides)
PushOfHalves(c, k) == VectorTotal(LAMBDA s : Push(half[c][k][s]), Sides)
AssembleCorners ==
  /\ Step("corners", "points")
  /\ node' = [c \in forest |-> [k \in Corner |->
       LET m == CornerMatrix(c, k)
       IN  [node[c][k] EXCEPT
              !.flux = Zero, !.matrix = m,
              !.rhs = Plus(Scaled(cell[c].cur.pressure, PushOfHalves(c, k)),
                           MatrixDotVector(m, cell[c].cur.velocity))]]]
  /\ UNCHANGED <<setting, cell, half, point, edge, mirror>>

\* quadrant_corner_to_point_matrix_assemble: the sums over the leaves around a
\* point, and its boundary halves, plus before minus in each leaf.
Around(p) == {q \in Corners : Point(q[1], q[2]) = p}
BoundaryHalves(p) ==
  {b \in Around(p) \X Sides : half[b[1][1]][b[1][2]][b[2]].boundary # "inner"}
InOrder(bounds) ==
  LET rank(b) == 2 * ZOrder(b[1][1]) + (IF b[2] = "plus" THEN 0 ELSE 1)
      place(b) == Cardinality({d \in bounds : rank(d) <= rank(b)})
  IN  [i \in 1..Cardinality(bounds) |->
         LET b == CHOOSE b \in bounds : place(b) = i
         IN  half[b[1][1]][b[1][2]][b[2]]]
PointAt(c, k) ==
  LET p == Point(c, k)
      bounds == BoundaryHalves(p)
  IN  [matrix |-> MatrixTotal(LAMBDA q : node[q[1]][q[2]].matrix, Around(p)),
       rhs |-> VectorTotal(LAMBDA q : node[q[1]][q[2]].rhs, Around(p)),
       bouns |-> IF Cardinality(bounds) = 2 THEN InOrder(bounds) ELSE point[c][k].bouns]
AssemblePoints ==
  /\ Step("points", "velocity")
  /\ point' = [c \in forest |-> [k \in Corner |->
                 IF Regular(c, k) THEN PointAt(c, k) ELSE point[c][k]]]
  /\ UNCHANGED <<setting, cell, node, half, edge, mirror>>

\* CornerSolve::boundary_node_velocity, for faces along the axes: the pressure
\* of the wall takes away what the wall forbids.
AlongWall(wall, u, inverse) ==
  LET i == IF wall.normal[1] = 0 THEN 2 ELSE 1
      d == MatrixDotVector(inverse, Push(wall))
      wallPressure == IF d[i] = 0 THEN 0 ELSE (0 \ominus u[i]) \oslash d[i]
  IN  [Plus(u, Scaled(wallPressure, d)) EXCEPT ![i] = 0]
BoundaryVelocity_FirstHalf(a, b, inverse, rhs) ==
  LET u == MatrixDotVector(inverse, rhs)
  IN  IF a.boundary = "free" THEN u ELSE AlongWall(a, u, inverse)
BoundaryVelocity(a, b, inverse, rhs) ==
  LET u == MatrixDotVector(inverse, rhs)
  IN  CASE a.boundary = "free" /\ b.boundary = "free" -> u
        [] a.boundary = "wall" /\ b.boundary = "free" -> AlongWall(a, u, inverse)
        [] a.boundary = "free" /\ b.boundary = "wall" -> AlongWall(b, u, inverse)
        [] a.boundary = "wall" /\ b.boundary = "wall" ->
             IF Cross2(a.normal, b.normal) = 0 THEN AlongWall(a, u, inverse) ELSE Zero

\* quadrant_corner_velocity, solve_regular_corner_velocity.
IsBoundary(p) ==
  \E q \in Around(p) : \E s \in Sides : half[q[1]][q[2]][s].boundary # "inner"
CornerVelocity(c, k) ==
  LET e == point[c][k]
      inverse == MatrixInverse(e.matrix)
  IN  IF IsBoundary(Point(c, k))
      THEN BoundaryVelocity(e.bouns[1], e.bouns[2], inverse, e.rhs)
      ELSE MatrixDotVector(inverse, e.rhs)
SolveCorners ==
  /\ Step("velocity", "edges")
  /\ node' = [c \in forest |-> [k \in Corner |->
       [node[c][k] EXCEPT !.velocity =
          IF Regular(c, k) THEN CornerVelocity(c, k) ELSE node[c][k].velocity]]]
  /\ UNCHANGED <<setting, cell, half, point, edge, mirror>>

\* build_parent_edge_matrix_rhs, aggregate_hanging_matrix_rhs.
EdgePush(e) == Plus(Scaled(e.lengths[1], e.normals[1]), Scaled(e.lengths[2], e.normals[2]))
EdgeEquation(h) ==
  LET e == edge[h]
      gas == cell[h.parent].cur
      m == MatrixTotal(LAMBDA i : Resistance(h.parent, e.lengths[i], e.normals[i]), 1..2)
  IN  [e EXCEPT !.matrix = m,
                !.rhs = Plus(Scaled(gas.pressure, EdgePush(e)),
                             MatrixDotVector(m, gas.velocity))]
AssembleEdges ==
  /\ Step("edges", "hanging")
  /\ edge' = [h \in Hanging |-> EdgeEquation(h)]
  /\ point' = [c \in forest |-> [k \in Corner |->
       IF Regular(c, k) THEN point[c][k]
       ELSE LET h == (CHOOSE q \in HangsAt(c, k) : TRUE)[1]
                ends == {<<h.child[i], WhichCorner(h, i)>> : i \in 1..2}
            IN  [point[c][k] EXCEPT
                   !.matrix = Plus(edge'[h].matrix,
                                MatrixTotal(LAMBDA q : node[q[1]][q[2]].matrix, ends)),
                   !.rhs = Plus(edge'[h].rhs,
                             VectorTotal(LAMBDA q : node[q[1]][q[2]].rhs, ends))]]]
  /\ UNCHANGED <<setting, cell, node, half, mirror>>

\* quadrant_relaxed_hanging_solver: the middle of the parent's edge, and what
\* is left of the balance there, shared out by total energy.
HangingVelocity_OneEnd(h) == node[h.parent][LowEnd[h.face]].velocity
HangingVelocity(h) ==
  Middle(node[h.parent][LowEnd[h.face]].velocity, node[h.parent][HighEnd[h.face]].velocity)
EnergyOf(c) == cell[c].mass \otimes cell[c].cur.total
Share_ChildrenOnly(h, c) ==
  EnergyOf(c) \oslash (EnergyOf(h.child[1]) \oplus EnergyOf(h.child[2]))
Share(h, c) ==
  EnergyOf(c) \oslash (EnergyOf(h.child[1]) \oplus EnergyOf(h.child[2])
                         \oplus EnergyOf(h.parent))
Flux(h, c) ==
  LET e == point[h.child[1]][WhichCorner(h, 1)]
  IN  Scaled(Share(h, c), Minus(MatrixDotVector(e.matrix, HangingVelocity(h)), e.rhs))
SolveHanging ==
  /\ Step("hanging", "forces")
  /\ node' = [c \in forest |-> [k \in Corner |->
       IF Regular(c, k) THEN node[c][k]
       ELSE LET h == (CHOOSE q \in HangsAt(c, k) : TRUE)[1]
            IN  [node[c][k] EXCEPT !.velocity = HangingVelocity(h), !.flux = Flux(h, c)]]]
  /\ edge' = [h \in Hanging |-> [edge[h] EXCEPT !.velocity = HangingVelocity(h),
                                                !.flux = Flux(h, h.parent)]]
  /\ UNCHANGED <<setting, cell, half, point, mirror>>

\* quadrant_compute_corner_force, ParentEdgeForce::evaluate.
ForceOn(c, push, m, u) ==
  Minus(Scaled(cell[c].cur.pressure, push),
        MatrixDotVector(m, Minus(u, cell[c].cur.velocity)))
ComputeForces ==
  /\ Step("forces", "coordinates")
  /\ node' = [c \in forest |-> [k \in Corner |->
       [node[c][k] EXCEPT !.force =
          ForceOn(c, PushOfHalves(c, k), node[c][k].matrix, node[c][k].velocity)]]]
  /\ edge' = [h \in Hanging |-> [edge[h] EXCEPT !.force =
                ForceOn(h.parent, EdgePush(edge[h]), edge[h].matrix, edge[h].velocity)]]
  /\ UNCHANGED <<setting, cell, half, point, mirror>>

-----------------------------------------------------------------------------
(* stage_phase_conservative_updates. *)

\* CalculateCellVolume of leaf c as it has moved: two triangles.
Area(p, q, r) == Half(Cross2(Minus(q, p), Minus(r, p)))
Volume(c) ==
  LET p(k) == node[c][k].lag
  IN  Area(p("LEFTBOTTOM"), p("RIGHTBOTTOM"), p("RIGHTUP"))
        \oplus Area(p("LEFTBOTTOM"), p("RIGHTUP"), p("LEFTUP"))

\* update_corner_coordinates, update_volume_density.
MoveCorners ==
  /\ Step("coordinates", "density")
  /\ node' = [c \in forest |-> [k \in Corner |-> [node[c][k] EXCEPT !.lag =
       Plus(Middle(node[c][k].cur, node[c][k].lag),
            Scaled(TimeStep, node[c][k].velocity))]]]
  /\ UNCHANGED <<setting, cell, half, point, edge, mirror>>
UpdateDensity ==
  /\ Step("density", "momentum")
  /\ cell' = [c \in forest |-> [cell[c] EXCEPT !.lag.density = cell[c].mass \oslash Volume(c)]]
  /\ UNCHANGED <<setting, node, half, point, edge, mirror>>

\* The forces on a leaf and the velocities of the points they act at.
Acting_NoEdges(c) ==
  {[at |-> k, velocity |-> node[c][k].velocity,
    force |-> Plus(node[c][k].force, node[c][k].flux)] : k \in Corner}
Acting(c) ==
  {[at |-> k, velocity |-> node[c][k].velocity,
    force |-> Plus(node[c][k].force, node[c][k].flux)] : k \in Corner}
  \cup {[at |-> h.face, velocity |-> edge[h].velocity,
         force |-> Plus(edge[h].force, edge[h].flux)] : h \in {e \in Hanging : e.parent = c}}
SumOfForces(c) == VectorTotal(LAMBDA a : a.force, Acting(c))
PerMass(c, x) == TimeStep \otimes (x \oslash cell[c].mass)

\* quadrant_compute_halftime_variable: cell values halfway.
HalfTime(c) ==
  [velocity |-> Middle(cell[c].cur.velocity, cell[c].lag.velocity),
   internal |-> Half(cell[c].cur.internal \oplus cell[c].lag.internal),
   total |-> Half(cell[c].cur.total \oplus cell[c].lag.total)]

\* update_momentum, update_work and update_energy, quadrant_update_EOS; the
\* velocity that works on the kinetic energy is between the old and the new.
Worked_NewVelocity(u, v) == v
Worked(u, v) == Middle(u, v)
Updated(c) ==
  LET before == HalfTime(c)
      sum == SumOfForces(c)
      velocity == Minus(before.velocity,
                        Scaled(TimeStep, Scaled(Reciprocal(cell[c].mass), sum)))
      kinetic == Dot(Worked(before.velocity, velocity), sum)
      work == Total(LAMBDA a : Dot(a.velocity, a.force), Acting(c))
      internal == before.internal \ominus PerMass(c, work \ominus kinetic)
  IN  [density |-> cell[c].lag.density, velocity |-> velocity,
       total |-> before.total \ominus PerMass(c, work), internal |-> internal,
       pressure |-> (Gamma \ominus 1) \otimes (cell[c].lag.density \otimes internal)]
UpdateCells ==
  /\ Step("momentum", "accept")
  /\ cell' = [c \in forest |-> [cell[c] EXCEPT !.lag = Updated(c)]]
  /\ UNCHANGED <<setting, node, half, point, edge, mirror>>

Accept ==
  /\ Step("accept", "accepted")
  /\ cell' = [c \in forest |-> [cell[c] EXCEPT !.cur = cell[c].lag]]
  /\ node' = [c \in forest |-> [k \in Corner |-> [node[c][k] EXCEPT !.cur = node[c][k].lag]]]
  /\ UNCHANGED <<setting, half, point, edge, mirror>>

Next ==
  \/ GetBoundary \/ HalfCorner \/ GetAMRBoundary \/ WriteMasters
  \/ AssembleCorners \/ AssemblePoints \/ SolveCorners
  \/ AssembleEdges \/ SolveHanging \/ ComputeForces
  \/ MoveCorners \/ UpdateDensity \/ UpdateCells \/ Accept

Spec == Init /\ [][Next]_vars

-----------------------------------------------------------------------------
(* Properties. *)

Order == <<"boundary", "geometry", "amr", "master", "corners", "points", "velocity",
           "edges", "hanging", "forces", "coordinates", "density", "momentum",
           "accept", "accepted">>
Since(p) == \E i, j \in DOMAIN Order : Order[i] = p /\ Order[j] = phase /\ i <= j

\* A point on the boundary of the domain has two boundary halves, which the
\* solver takes its two conditions from, and no other point has any; both
\* halves of a face have one boundary and one normal, as the mirror asks.
OnBoundary(p) == {0, PowerOfTwo[Depth]} \cap {p[1], p[2]} # {}
TwoHalvesAtBoundary ==
  Since("amr") =>
    \A c \in forest :
      /\ \A k \in Corner :
           Cardinality(BoundaryHalves(Point(c, k))) =
             IF OnBoundary(Point(c, k)) THEN 2 ELSE 0
      /\ \A f \in Face :
           /\ LowHalfOf(c, f).boundary = HighHalfOf(c, f).boundary
           /\ LowHalfOf(c, f).normal = HighHalfOf(c, f).normal

\* The corners on a wall do not leave it, where two boundaries meet neither.
OnFace(p, f) ==
  CASE f = "LEFT" -> p[1] = 0 [] f = "RIGHT" -> p[1] = PowerOfTwo[Depth]
    [] f = "BOTTOM" -> p[2] = 0 [] f = "UP" -> p[2] = PowerOfTwo[Depth]
Across2(f) == IF f \in {"LEFT", "RIGHT"} THEN 1 ELSE 2
WallsHold ==
  Since("forces") =>
    \A q \in Corners : \A f \in Face :
      OnFace(Point(q[1], q[2]), f) /\ boundary[f] = "wall" =>
        node[q[1]][q[2]].velocity[Across2(f)] = 0

\* What the solver divides by is never zero: neither the determinant of the
\* matrix of a point, nor what a push at a wall does to the component across
\* it, nor the energy around a hanging point.  MatrixInverse makes zero of a
\* singular matrix without a word, and boundary_node_velocity leaves a wall
\* that does not yield without pressure.
Determinant(m) == (m[1] \otimes m[4]) \ominus (m[2] \otimes m[3])
NormalTo(b) == IF b.normal[1] = 0 THEN 2 ELSE 1
Yield(m, b) == MatrixDotVector(MatrixInverse(m), Push(b))
EquationRegular(e) ==
  /\ Determinant(e.matrix) # 0
  /\ \A i \in DOMAIN e.bouns :
       e.bouns[i].boundary = "wall" => Yield(e.matrix, e.bouns[i])[NormalTo(e.bouns[i])] # 0
NothingSingular ==
  /\ phase = "velocity" =>
       \A q \in Corners : Regular(q[1], q[2]) => EquationRegular(point[q[1]][q[2]])
  /\ phase = "hanging" =>
       \A h \in Hanging :
         EnergyOf(h.child[1]) \oplus EnergyOf(h.child[2]) \oplus EnergyOf(h.parent) # 0

\* The forces of the leaves around a point, with the shares of a hanging one,
\* have no sum but what a wall gives back: momentum is neither made nor lost,
\* whichever leaves meet there and whichever matrix the solver takes.
ForcesAt(p) ==
  LET divided == {h \in Hanging : Point(h.child[1], WhichCorner(h, 1)) = p}
  IN  Plus(VectorTotal(LAMBDA q : Plus(node[q[1]][q[2]].force, node[q[1]][q[2]].flux),
                       Around(p)),
           VectorTotal(LAMBDA h : Plus(edge[h].force, edge[h].flux), divided))
ForcesMeet ==
  Since("coordinates") =>
    \A p \in {Point(q[1], q[2]) : q \in Corners} : \A i \in 1..2 :
      \/ ForcesAt(p)[i] = 0
      \/ \E f \in Face : OnFace(p, f) /\ boundary[f] = "wall" /\ Across2(f) = i

\* The new leaves cover what lies within their outer edges, each part once: a
\* hanging corner has stayed on the edge it hangs on.
\* Counterclockwise, between the edge and the origin.
Swept(c, f) ==
  LET low == node[c][LowEnd[f]].lag
      high == node[c][HighEnd[f]].lag
  IN  Half(IF f \in {"BOTTOM", "RIGHT"} THEN Cross2(low, high) ELSE Cross2(high, low))
MeshStaysWhole ==
  Since("density") =>
    Total(Volume, forest) =
      Total(LAMBDA q : Swept(q[1], q[2]),
            {q \in forest \X Face : AtBoundary(q[1], q[2])})

\* No leaf's work is lost: all total energy is still there after a stage.
EnergyKept ==
  phase = "accept" =>
    Total(LAMBDA c : cell[c].mass \otimes cell[c].lag.total, forest) =
      Total(LAMBDA c : cell[c].mass \otimes cell[c].cur.total, forest)

\* Total energy, internal energy and momentum come from three equations, and
\* agree: what is not internal is the kinetic energy of the new velocity.
EnergiesAddUp ==
  \A c \in forest :
    cell[c].lag.total = cell[c].lag.internal \oplus Kinetic(cell[c].lag.velocity)

\* The local master is what the corner matrix of the grid-aligned solver is,
\* at corners where no edge of the leaf is divided.
MastersMatch ==
  Since("points") /\ solver = "GridAligned" =>
    \A q \in Corners :
      (\A f \in FacesAt(q[2]) : ~Divided(q[1], f)) =>
        /\ mirror[q[1]][q[2]].matrix = node[q[1]][q[2]].matrix
        /\ mirror[q[1]][q[2]].rhs = node[q[1]][q[2]].rhs
=============================================================================
