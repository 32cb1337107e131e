----------------------------- MODULE MeshMotion -----------------------------
(***************************************************************************)
(* Where the corners of the leaves are, step after step: carried with the  *)
(* gas, handed over by AMR, and put back on their edge where they hang.    *)
(*                                                                         *)
(* Every leaf keeps its own copy of its four corners.  A place is the      *)
(* distance a corner has gone along one axis since the start: means are    *)
(* linear, so the undeformed grid and the other axis add nothing.  The     *)
(* leaves are convex, and time steps are of length one.  What the solver   *)
(* gives a regular point is any function of the point, field.              *)
(***************************************************************************)
EXTENDS PartitionedForest

CONSTANTS
  Fields,       \* velocities the solver may give, a function from points
  MaxSteps,     \* bound: steps
  MaxAdapts,    \* bound: steps in which AMR or repartition changes the mesh
  MaxChanges    \* bound: steps with another field than the one before

Points == (0..2 ^ Depth) \X (0..2 ^ Depth)

\* Means of two and of four are whole numbers.
ASSUME FieldsAssumption ==
  \A f \in Fields : DOMAIN f = Points /\ \A p \in Points : f[p] % 4 = 0
ASSUME BoundsAssumption ==
  MaxSteps \in Nat /\ MaxAdapts \in Nat /\ MaxChanges \in Nat

VARIABLES
  mesh,     \* the leaves and the rank that owns each
  node,     \* place and velocity of every corner, at its leaf's owner
  ghost,    \* the same in the copies: place, velocity_cur, velocity_lag
  field,    \* what the solver gives in this step
  phase, step, adapts, changes

vars == <<mesh, node, ghost, field, phase, step, adapts, changes>>

Mean(a, b) == (a + b) \div 2
At(p, v) == [place |-> p, velocity |-> v]
MeanOf(m, n) == At(Mean(m.place, n.place), Mean(m.velocity, n.velocity))

\* What an exchange sends of a leaf's corners when no stage is under way.
Sent(nodes) ==
  [c \in DOMAIN nodes |-> [k \in Corner |->
     [place |-> nodes[c][k].place, cur |-> nodes[c][k].velocity,
      lag |-> nodes[c][k].velocity]]]

Init ==
  /\ mesh \in Meshes
  /\ node = [c \in mesh.leaves |-> [k \in Corner |-> At(0, 0)]]
  /\ ghost = Sent(node)
  /\ field \in Fields
  /\ phase = "adapt" /\ step = 1 /\ adapts = 0 /\ changes = 0

-----------------------------------------------------------------------------
(* AMR. *)

\* The corner child i has in common with its parent, and the one across it.
Home == <<"LEFTBOTTOM", "RIGHTBOTTOM", "LEFTUP", "RIGHTUP">>
AcrossFrom(k) == Following[Following[k]]

\* generate_children_info_from_parent: the corners of child i, from those of its
\* parent: its home corner, the middles of two edges, and the centre.
ChildCorner_Turned(corners, i, k) ==
  IF k = Home[i] THEN corners[k]
  ELSE IF k = AcrossFrom(Home[i])
  THEN At(MapThenSumSet(LAMBDA j : corners[j].place, Corner) \div 4,
          MapThenSumSet(LAMBDA j : corners[j].velocity, Corner) \div 4)
  ELSE MeanOf(corners[Home[i]], corners[AcrossFrom(k)])
ChildCorner(corners, i, k) ==
  IF k = Home[i] THEN corners[k]
  ELSE IF k = AcrossFrom(Home[i])
  THEN At(MapThenSumSet(LAMBDA j : corners[j].place, Corner) \div 4,
          MapThenSumSet(LAMBDA j : corners[j].velocity, Corner) \div 4)
  ELSE MeanOf(corners[Home[i]], corners[k])

\* coarsen_children_to_parent: each corner from the child that has it.
ParentCorner(nodes, c, k) == nodes[Child(c, CHOOSE i \in 1..4 : Home[i] = k)][k]

\* Lagrangian_replace_quads, for all leaves of a new forest.  A family that is
\* coarsened and comes back in the same pass comes back as it was.
Transferred(nodes, F) ==
  [c \in F |->
     IF c \in DOMAIN nodes THEN nodes[c]
     ELSE [k \in Corner |->
             IF ParentOf(c) \in DOMAIN nodes
             THEN ChildCorner(nodes[ParentOf(c)], ChildId(c), k)
             ELSE ParentCorner(nodes, c, k)]]

\* Every leaf comes from a leaf, its parent or its children.
OneLevelApart(F, G) ==
  \A c \in G :
    \/ c \in F
    \/ c.level > 0 /\ ParentOf(c) \in F
    \/ Children(c) \subseteq F

\* execute_amr, execute_partition: the layer is made anew.
Adapt ==
  /\ phase = "adapt" /\ adapts < MaxAdapts
  /\ mesh' \in {m \in Meshes : OneLevelApart(mesh.leaves, m.leaves)}
  /\ node' = Transferred(node, mesh'.leaves)
  /\ ghost' = Sent(node')
  /\ phase' = "refresh" /\ adapts' = adapts + 1
  /\ UNCHANGED <<field, step, changes>>

\* A step that is not a multiple of refine_period: the layer stays.
KeepMesh ==
  /\ phase = "adapt"
  /\ phase' = "refresh"
  /\ UNCHANGED <<mesh, node, ghost, field, step, adapts, changes>>

-----------------------------------------------------------------------------
(* refresh_after_balance. *)

HangsAt(c, k) == HangingPlaces(mesh.leaves, c, k)
Regular(c, k) == HangsAt(c, k) = {}

Copy(r, c, k) ==
  IF mesh.owner[c] = r
  THEN [place |-> node[c][k].place, cur |-> node[c][k].velocity,
        lag |-> node[c][k].velocity]
  ELSE ghost[c][k]

\* The middle of the parent's edge, by its corners' places and velocities.
Middle(r, h) ==
  LET a == Copy(r, h.parent, LowEnd[h.face])
      b == Copy(r, h.parent, HighEnd[h.face])
  IN  At(Mean(a.place, b.place), Mean(a.lag, b.lag))

\* quadrant_update_after_balance: a hanging corner goes to the middle when either
\* child's velocity is another than the middle's; where they are is not asked.
OffEdge_ByPlace(r, h) ==
  \E i \in {1, 2} :
    Copy(r, h.child[i], WhichCorner(h, i)).place # Middle(r, h).place
OffEdge(r, h) ==
  \E i \in {1, 2} :
    Copy(r, h.child[i], WhichCorner(h, i)).cur # Middle(r, h).velocity

\* With the exchange that follows.
Refresh ==
  /\ phase = "refresh"
  /\ node' = [c \in mesh.leaves |-> [k \in Corner |->
       LET r == mesh.owner[c]
       IN  IF \E q \in HangsAt(c, k) : OffEdge(r, q[1])
           THEN Middle(r, (CHOOSE q \in HangsAt(c, k) : TRUE)[1])
           ELSE node[c][k]]]
  /\ ghost' = Sent(node')
  /\ phase' = "stage"
  /\ UNCHANGED <<mesh, field, step, adapts, changes>>

-----------------------------------------------------------------------------
(* advance_single_stage, AcceptNumericalSolution. *)

\* The velocity a leaf gets at its corner: the solver's, or the middle's.
Velocity(c, k) ==
  IF Regular(c, k) THEN field[Point(c, k)]
  ELSE LET h == (CHOOSE q \in HangsAt(c, k) : TRUE)[1]
       IN  Mean(field[Point(h.parent, LowEnd[h.face])],
                field[Point(h.parent, HighEnd[h.face])])

\* The last exchange comes after all corners are solved, the hanging ones too,
\* before corners move and before the step is accepted.
SentInStage ==
  [c \in mesh.leaves |-> [k \in Corner |->
     [place |-> node[c][k].place, cur |-> node[c][k].velocity, lag |-> Velocity(c, k)]]]

Stage ==
  /\ phase = "stage" /\ step < MaxSteps
  /\ node' = [c \in mesh.leaves |-> [k \in Corner |->
       At(node[c][k].place + Velocity(c, k), Velocity(c, k))]]
  /\ ghost' = SentInStage
  /\ \/ UNCHANGED <<field, changes>>
     \/ changes < MaxChanges /\ field' \in Fields \ {field} /\ changes' = changes + 1
  /\ phase' = "adapt" /\ step' = step + 1
  /\ UNCHANGED <<mesh, adapts>>

Next == Adapt \/ KeepMesh \/ Refresh \/ Stage

Spec == Init /\ [][Next]_vars

-----------------------------------------------------------------------------
(* Properties. *)

\* When the stage begins, all leaves around a point have it at one place: the
\* mesh has no gap and no overlap there, and point matrices add up what belongs
\* together.
PointsMeet ==
  phase = "stage" =>
    \A c, d \in mesh.leaves : \A k, l \in Corner :
      Point(c, k) = Point(d, l) => node[c][k].place = node[d][l].place

\* When the stage begins, a hanging corner is in the middle of the edge it hangs
\* on, and moves as that middle does: the solver's constraint is the mean of the
\* edge's ends, whatever the place.
MiddlesHold ==
  phase = "stage" =>
    \A h \in HangingEdges[mesh.leaves] : \A i \in {1, 2} :
      node[h.child[i]][WhichCorner(h, i)] =
        MeanOf(node[h.parent][LowEnd[h.face]], node[h.parent][HighEnd[h.face]])
=============================================================================
