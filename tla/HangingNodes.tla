---------------------------- MODULE HangingNodes ----------------------------
(***************************************************************************)
(* The nodal solution of one stage on a partitioned forest: from           *)
(* CalculateCornerRcpLcpNcp to the hanging solver of RiemannSolver, with   *)
(* the passes that serve the edges where a leaf meets two smaller ones.    *)
(*                                                                         *)
(* The ranks share nothing between two exchanges (module Simulation), so   *)
(* a pass is one step: every rank writes its own leaves from its own       *)
(* leaves and from the copies the last exchange brought, ghost.            *)
(*                                                                         *)
(* A matrix with its right-hand side is the set of the contributions added *)
(* up in it, a velocity is what it was computed from, and lengths are      *)
(* those of the undeformed grid, in quarters of the smallest square.  The  *)
(* weights of the three shares of a hanging force are the total energies   *)
(* of the leaves, which no pass of the solver writes: they are left out.   *)
(***************************************************************************)
EXTENDS PartitionedForest

CONSTANTS
  MaxStages,    \* bound: stages
  MaxRemeshes   \* bound: changes of the forest

ASSUME BoundsAssumption == MaxStages \in Nat /\ MaxRemeshes \in Nat

VARIABLES
  mesh,     \* the leaves and the rank that owns each
  data,     \* quad_data_t of every leaf, at its owner
  ghost,    \* what the last exchange sent of every leaf
  phase,    \* the pass the ranks run next
  stage, remeshes   \* the bounded counters

vars == <<mesh, data, ghost, phase, stage, remeshes>>

-----------------------------------------------------------------------------
(* What a rank sees. *)

Own(r) == {c \in mesh.leaves : mesh.owner[c] = r}
\* Without the leaves across corners: P4EST_CONNECT_FACE.
Layer_FacesOnly(r) ==
  {c \in mesh.leaves \ Own(r) : \E d \in Own(r) : TouchAlongEdge(c, d)}
Layer(r) == {c \in mesh.leaves \ Own(r) : \E d \in Own(r) : Touch(c, d)}
Seen(r, c) == IF mesh.owner[c] = r THEN data[c] ELSE ghost[c]

Hanging == HangingEdges[mesh.leaves]

\* A rank passes over an edge whose children have one quadid: an index in the
\* array of its own leaves, or in the array of its ghosts.
Quadid(r, c) == IF mesh.owner[c] = r THEN Index(c, Own(r)) ELSE Index(c, Layer(r))
Skips(r, h) == Quadid(r, h.child[1]) = Quadid(r, h.child[2])

HangsAt(c, k) == HangingPlaces(mesh.leaves, c, k)
Regular(c, k) == HangsAt(c, k) = {}

-----------------------------------------------------------------------------
(* Contents of a leaf. *)

NoForce == [sum |-> {}, velocity |-> {}, part |-> 0]
NewPoint(garbage) == [hanging |-> garbage, length |-> 0, sum |-> {}]
NewEdge(garbage) ==
  [constrained |-> garbage, lengths |-> <<0, 0>>, matrix |-> {},
   velocity |-> {}, flux |-> NoForce]

\* A leaf p4est has made: its points and the flags of its edges are not written.
NewLeaf(garbage) ==
  [half     |-> [k \in Corner |-> [plus |-> 0, minus |-> 0]],
   matrix   |-> 0,
   point    |-> [k \in Corner |-> NewPoint(garbage)],
   velocity |-> [k \in Corner |-> {}],
   flux     |-> [k \in Corner |-> NoForce],
   edge     |-> [f \in Face |-> NewEdge(garbage)]]

Init ==
  /\ mesh \in Meshes
  /\ \E garbage \in BOOLEAN : data = [c \in mesh.leaves |-> NewLeaf(garbage)]
  /\ ghost = data
  /\ phase = "geometry"
  /\ stage = 1
  /\ remeshes = 0

\* A pass of every rank over its leaves.
Pass(here, next, Updated(_)) ==
  /\ phase = here
  /\ data' = [c \in mesh.leaves |-> Updated(c)]
  /\ phase' = next
  /\ UNCHANGED <<mesh, stage, remeshes>>
\* The exchange that follows it.
Exchange == ghost' = data'

-----------------------------------------------------------------------------
(* Before the solver. *)

\* CalculateCornerRcpLcpNcp: half the length of either edge at each corner.
CornerGeometry ==
  /\ Pass("geometry", "children", LAMBDA c :
       [data[c] EXCEPT !.half =
          [k \in Corner |-> [s \in {"plus", "minus"} |-> 2 * Side(c)]]])
  /\ Exchange

\* quadrant_get_children_hanging_info: a hanging corner takes its own half edge.
ChildrenHangingInfo ==
  /\ Pass("children", "parents", LAMBDA c :
       [data[c] EXCEPT !.point =
          [k \in Corner |->
             IF \E q \in HangsAt(c, k) : ~Skips(mesh.owner[c], q[1])
             THEN LET q == CHOOSE q \in HangsAt(c, k) : TRUE
                  IN  [data[c].point[k] EXCEPT
                         !.hanging = TRUE,
                         !.length = data[c].half[k][WhichSide(q[1], q[2])]]
             ELSE data[c].point[k]]])
  /\ Exchange

\* Edges of leaf c that a rank finds hanging.
Divided(c, f) ==
  {h \in Hanging : h.parent = c /\ h.face = f /\ ~Skips(mesh.owner[c], h)}

\* quadrant_reset_parent_edge: what a leaf's edge holds before the children's.
ResetEdge_FluxOnly(e) == [e EXCEPT !.flux = NoForce]
ResetEdge(e) == [e EXCEPT !.constrained = FALSE, !.lengths = <<0, 0>>, !.flux = NoForce]

\* quadrant_set_init_parent_edge: what the parent's edge takes from the children.
EdgeOfChildren(e, h) ==
  LET r == mesh.owner[h.parent]
      p(i) == Seen(r, h.child[i]).point[WhichCorner(h, i)]
  IN  [e EXCEPT !.constrained = p(1).hanging,
                !.lengths = <<p(1).length, p(2).length>>,
                !.velocity = Seen(r, h.child[1]).velocity[WhichCorner(h, 1)]]
\* The half edges of the parent that end at a hanging point: corner and half.
CutHalves_Swapped(f) ==
  {<<LowEnd[f], OtherHalf[LowHalf[f]]>>, <<HighEnd[f], LowHalf[f]>>}
CutHalves(f) ==
  {<<LowEnd[f], LowHalf[f]>>, <<HighEnd[f], OtherHalf[LowHalf[f]]>>}
HalvesOfParent(c) ==
  [k \in Corner |-> [s \in {"plus", "minus"} |->
     IF \E f \in Face : Divided(c, f) # {} /\ <<k, s>> \in CutHalves(f)
     THEN LET h == CHOOSE h \in UNION {Divided(c, f) : f \in Face} :
                     <<k, s>> \in CutHalves(h.face)
          IN  HalfDistance(Point(c, k), Point(h.child[1], WhichCorner(h, 1)))
     ELSE data[c].half[k][s]]]

InitParentEdges ==
  /\ Pass("parents", "corners", LAMBDA c :
       [data[c] EXCEPT
          !.half = HalvesOfParent(c),
          !.edge = [f \in Face |->
             LET e == ResetEdge(data[c].edge[f])
             IN  IF Divided(c, f) = {} THEN e
                 ELSE EdgeOfChildren(e, CHOOSE h \in Divided(c, f) : TRUE)]])
  /\ Exchange

-----------------------------------------------------------------------------
(* RiemannSolver: corners first, hanging points then. *)

\* What leaf c, with contents d, adds to the sum at its corner k, at its edge f.
CornerPart(c, d, k) == [leaf |-> c, at |-> k, matrix |-> {<<d.matrix, <<>>>>}]
EdgePart(c, d, f) == [leaf |-> c, at |-> f, matrix |-> d.edge[f].matrix]

\* FluxRelaxedResetZero, quadrant_corner_matrix_assemble.
AssembleCorners ==
  /\ Pass("corners", "points", LAMBDA c :
       [data[c] EXCEPT !.matrix = stage, !.flux = [k \in Corner |-> NoForce]])
  /\ Exchange

\* quadrant_corner_to_point_matrix_assemble: p4est offers the corners at which
\* no leaf's edge passes, with the leaves the rank knows there.
SumAt(r, p) ==
  {CornerPart(q[1], Seen(r, q[1]), q[2]) :
     q \in {o \in (Own(r) \cup Layer(r)) \X Corner : Point(o[1], o[2]) = p}}

AssemblePoints ==
  /\ Pass("points", "velocity", LAMBDA c :
       [data[c] EXCEPT !.point =
          [k \in Corner |->
             IF Regular(c, k)
             THEN [data[c].point[k] EXCEPT !.sum = SumAt(mesh.owner[c], Point(c, k))]
             ELSE data[c].point[k]]])
  /\ Exchange

\* quadrant_corner_velocity, and its copy for the relaxed coordinates.
SolveCorners ==
  /\ Pass("velocity", "edges", LAMBDA c :
       [data[c] EXCEPT !.velocity =
          [k \in Corner |-> IF Regular(c, k) THEN {data[c].point[k].sum}
                            ELSE data[c].velocity[k]]])
  /\ Exchange

\* quadrant_compute_relaxed_info, quadrant_parent_edge_matrix.
EdgeMatrix(e) ==
  IF e.constrained THEN [e EXCEPT !.matrix = {<<stage, e.lengths>>}] ELSE e
AssembleEdges_Unsent ==
  /\ Pass("edges", "hanging", LAMBDA c :
       [data[c] EXCEPT !.edge = [f \in Face |-> EdgeMatrix(data[c].edge[f])]])
  /\ UNCHANGED ghost
AssembleEdges ==
  /\ Pass("edges", "hanging", LAMBDA c :
       [data[c] EXCEPT !.edge = [f \in Face |-> EdgeMatrix(data[c].edge[f])]])
  /\ Exchange

\* aggregate_hanging_matrix_rhs: both children's corners and the parent's edge.
Aggregate(r, h) ==
  {CornerPart(h.child[i], Seen(r, h.child[i]), WhichCorner(h, i)) : i \in {1, 2}}
    \cup {EdgePart(h.parent, Seen(r, h.parent), h.face)}

\* quadrant_hanging_point_matrix_assemble.
HangingPoint(c, k) ==
  LET r == mesh.owner[c]
  IN  IF \E q \in HangsAt(c, k) : ~Skips(r, q[1])
      THEN LET q == CHOOSE q \in HangsAt(c, k) : TRUE
           IN  [hanging |-> TRUE,
                length |-> data[c].half[k][WhichSide(q[1], q[2])],
                sum |-> Aggregate(r, q[1])]
      ELSE data[c].point[k]
AssembleHanging_Unsent ==
  /\ Pass("hanging", "hanging velocity", LAMBDA c :
       [data[c] EXCEPT !.point = [k \in Corner |-> HangingPoint(c, k)]])
  /\ UNCHANGED ghost
AssembleHanging ==
  /\ Pass("hanging", "hanging velocity", LAMBDA c :
       [data[c] EXCEPT !.point = [k \in Corner |-> HangingPoint(c, k)]])
  /\ Exchange

\* The mean of the parent's corners at the ends of the edge.
HangingVelocity(r, h) ==
  Seen(r, h.parent).velocity[LowEnd[h.face]]
    \cup Seen(r, h.parent).velocity[HighEnd[h.face]]
\* The share of one leaf in what the constraint leaves unbalanced: the sum that
\* the first child holds, at that velocity.
ShareOf(r, h, part) ==
  [sum |-> Seen(r, h.child[1]).point[WhichCorner(h, 1)].sum,
   velocity |-> HangingVelocity(r, h), part |-> part]

\* quadrant_relaxed_hanging_solver: every edge, whatever the quadids.
SolveHanging ==
  /\ Pass("hanging velocity", "forces", LAMBDA c :
       LET r == mesh.owner[c]
       IN  [data[c] EXCEPT
              !.velocity = [k \in Corner |->
                 IF Regular(c, k) THEN data[c].velocity[k]
                 ELSE UNION {HangingVelocity(r, q[1]) : q \in HangsAt(c, k)}],
              !.flux = [k \in Corner |->
                 IF Regular(c, k) THEN data[c].flux[k]
                 ELSE LET q == CHOOSE q \in HangsAt(c, k) : TRUE
                      IN  ShareOf(r, q[1], q[2])],
              !.edge = [f \in Face |->
                 IF \E h \in Hanging : h.parent = c /\ h.face = f
                 THEN LET h == CHOOSE h \in Hanging : h.parent = c /\ h.face = f
                      IN  [data[c].edge[f] EXCEPT
                             !.constrained = TRUE,
                             !.velocity = HangingVelocity(r, h),
                             !.flux = ShareOf(r, h, 3)]
                 ELSE data[c].edge[f]]])
  /\ Exchange

-----------------------------------------------------------------------------
(* From one stage to the next. *)

\* The conservative updates, and no change of the forest before the next stage.
NextStage ==
  /\ phase = "forces" /\ stage < MaxStages
  /\ phase' = "geometry" /\ stage' = stage + 1
  /\ UNCHANGED <<mesh, data, ghost, remeshes>>

\* execute_amr or execute_partition, and refresh_after_balance: the leaves that
\* stay lose their hanging flags, the others come as p4est makes them.
Refreshed(d) ==
  [d EXCEPT !.point = [k \in Corner |-> [d.point[k] EXCEPT !.hanging = FALSE]],
            !.edge = [f \in Face |-> [d.edge[f] EXCEPT !.flux = NoForce]]]
Remesh ==
  /\ phase = "forces" /\ stage < MaxStages /\ remeshes < MaxRemeshes
  /\ mesh' \in Meshes \ {mesh}
  /\ \E garbage \in BOOLEAN :
       data' = [c \in mesh'.leaves |->
                  Refreshed(IF c \in mesh.leaves THEN data[c] ELSE NewLeaf(garbage))]
  /\ Exchange
  /\ phase' = "geometry" /\ stage' = stage + 1 /\ remeshes' = remeshes + 1

Next ==
  \/ CornerGeometry \/ ChildrenHangingInfo \/ InitParentEdges
  \/ AssembleCorners \/ AssemblePoints \/ SolveCorners
  \/ AssembleEdges \/ AssembleHanging \/ SolveHanging
  \/ NextStage \/ Remesh

Spec == Init /\ [][Next]_vars

-----------------------------------------------------------------------------
(* Properties. *)

\* The table of get_hanging_edge_info_from_logical_position: the corners it
\* gives for the two children are one point, the middle of the parent's edge;
\* their other ends are the parent's corners; and the half edge it gives leads
\* from the hanging corner towards that end, in the order of EnumCorner.
HangingEdgesFit ==
  \A h \in Hanging :
    LET hang(i) == Point(h.child[i], WhichCorner(h, i))
        ends == {Point(h.parent, LowEnd[h.face]), Point(h.parent, HighEnd[h.face])}
    IN  /\ hang(1) = hang(2)
        /\ \A e \in ends : 2 * Distance(e, hang(1)) = Side(h.parent)
        /\ {Point(h.child[i], MasterCorner(h, i)) : i \in {1, 2}} = ends
        /\ \A i \in {1, 2} :
             IF WhichSide(h, i) = "plus"
             THEN Following[WhichCorner(h, i)] = MasterCorner(h, i)
             ELSE Following[MasterCorner(h, i)] = WhichCorner(h, i)

\* When the corners are assembled, the half edges along every edge of a leaf,
\* with those it took from two smaller neighbours, make up its whole length:
\* a uniform pressure pushes no leaf.
EdgesCovered ==
  phase = "corners" =>
    \A c \in mesh.leaves : \A f \in Face :
      LET low == data[c].half[LowEnd[f]][LowHalf[f]]
          high == data[c].half[HighEnd[f]][OtherHalf[LowHalf[f]]]
          e == data[c].edge[f]
      IN  low + high + (IF e.constrained THEN e.lengths[1] + e.lengths[2] ELSE 0)
            = 4 * Side(c)

\* When forces are computed, every leaf around a corner that does not hang has
\* the velocity solved from the same sum, of all the leaves around it and of
\* this stage, whichever rank solved it.
SharedCornersAgree ==
  phase = "forces" =>
    \A c \in mesh.leaves : \A k \in Corner :
      Regular(c, k) =>
        data[c].velocity[k] =
          {{[leaf |-> q[1], at |-> q[2], matrix |-> {<<stage, <<>>>>}] :
              q \in {o \in mesh.leaves \X Corner : Point(o[1], o[2]) = Point(c, k)}}}

\* When the hanging points are solved, both children's owners hold the sum of
\* the two corners and the parent's edge, all three of this stage.
OneSumPerHangingPoint ==
  phase = "hanging velocity" =>
    \A h \in Hanging : \A i \in {1, 2} :
      data[h.child[i]].point[WhichCorner(h, i)].sum =
        {[leaf |-> h.child[j], at |-> WhichCorner(h, j), matrix |-> {<<stage, <<>>>>}] :
           j \in {1, 2}}
          \cup {[leaf |-> h.parent, at |-> h.face,
                 matrix |-> {<<stage, <<Side(h.parent), Side(h.parent)>>>>}]}

\* When forces are computed, the three leaves at a hanging point move with one
\* velocity, the mean of the parent's corners, and hold the three shares of one
\* force: what that velocity leaves of the very matrices their own forces use.
\* This is what makes the forces at the point cancel.
HangingForcesCancel ==
  phase = "forces" =>
    \A h \in Hanging :
      LET d(i) == data[h.child[i]]
          k(i) == WhichCorner(h, i)
          e == data[h.parent].edge[h.face]
          force(i) == [sum |-> {CornerPart(h.child[j], d(j), k(j)) : j \in {1, 2}}
                                \cup {EdgePart(h.parent, data[h.parent], h.face)},
                       velocity |-> data[h.parent].velocity[LowEnd[h.face]]
                                     \cup data[h.parent].velocity[HighEnd[h.face]],
                       part |-> i]
      IN  /\ \A i \in {1, 2} : d(i).flux[k(i)] = force(i)
          /\ e.flux = force(3)
          /\ {d(1).velocity[k(1)], d(2).velocity[k(2)], e.velocity} = {force(3).velocity}

\* When forces are computed, exactly the edges that hang are taken for such:
\* momentum and work add the force of an edge under that flag alone.
ConstrainedWhereHanging ==
  phase = "forces" =>
    \A c \in mesh.leaves : \A f \in Face :
      data[c].edge[f].constrained <=> \E h \in Hanging : h.parent = c /\ h.face = f
=============================================================================
