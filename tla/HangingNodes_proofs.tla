-------------------------- MODULE HangingNodes_proofs --------------------------
(***************************************************************************)
(* HangingNodes: for any forests, any number of ranks and any partition,   *)
(* the table of hanging edges fits the geometry, every corner that does    *)
(* not hang moves with one velocity on all ranks, and only hanging edges   *)
(* are taken for such.  Where no rank takes the two children of a hanging  *)
(* edge for one leaf (NothingSkipped), the half edges cover every leaf's   *)
(* border and the forces at every hanging point cancel.                    *)
(*                                                                         *)
(* Every pass is followed by an exchange, so that what a rank reads is     *)
(* what the owner holds (ghost = data).  Inv says, for each group of data, *)
(* from which pass on it is what the later ones rely on.                   *)
(***************************************************************************)
EXTENDS HangingNodes, PartitionedForest_proofs

-----------------------------------------------------------------------------
(* The hanging edges, for themselves. *)

\* No rank that works on a hanging edge passes over it.
NothingSkipped ==
  \A h \in Hanging : \A c \in {h.parent, h.child[1], h.child[2]} :
    ~ Skips(mesh.owner[c], h)

LEMMA EdgeFits ==
  ASSUME NEW F \in BalancedForests, NEW h \in HangingEdges[F]
  PROVE  LET hang(i) == Point(h.child[i], WhichCorner(h, i))
             ends == {Point(h.parent, LowEnd[h.face]), Point(h.parent, HighEnd[h.face])}
         IN  /\ hang(1) = hang(2)
             /\ \A e \in ends : 2 * Distance(e, hang(1)) = Side(h.parent)
             /\ {Point(h.child[i], MasterCorner(h, i)) : i \in {1, 2}} = ends
             /\ \A i \in {1, 2} :
                  IF WhichSide(h, i) = "plus"
                  THEN Following[WhichCorner(h, i)] = MasterCorner(h, i)
                  ELSE Following[MasterCorner(h, i)] = WhichCorner(h, i)
<1> DEFINE a == h.child[1]
           b == h.child[2]
           m == Point(a, WhichCorner(h, 1))
           low == Point(h.parent, LowEnd[h.face])
           high == Point(h.parent, HighEnd[h.face])
           s == Side(a)
<1>1. h.face \in Face
  BY HangingEdgeParts
<1>2. /\ s \in Nat \ {0} /\ Side(h.parent) = 2 * s
      /\ m[1] \in Nat /\ m[2] \in Nat
      /\ Point(b, WhichCorner(h, 2)) = m
      /\ Point(a, MasterCorner(h, 1)) = low
      /\ Point(b, MasterCorner(h, 2)) = high
      /\ h.face \in {"LEFT", "RIGHT"} => low = <<m[1], m[2] - s>> /\ high = <<m[1], m[2] + s>>
      /\ h.face \in {"BOTTOM", "UP"} => low = <<m[1] - s, m[2]>> /\ high = <<m[1] + s, m[2]>>
  BY HangingPoints
<1>3. {Point(h.child[i], MasterCorner(h, i)) : i \in {1, 2}} = {low, high}
  BY <1>2
<1>4. \A i \in {1, 2} :
        IF WhichSide(h, i) = "plus"
        THEN Following[WhichCorner(h, i)] = MasterCorner(h, i)
        ELSE Following[MasterCorner(h, i)] = WhichCorner(h, i)
  <2>1. LET f == Opposite[h.face]
        IN  /\ WhichCorner(h, 1) = HighEnd[f] /\ MasterCorner(h, 1) = LowEnd[f]
            /\ WhichCorner(h, 2) = LowEnd[f] /\ MasterCorner(h, 2) = HighEnd[f]
            /\ WhichSide(h, 1) = OtherHalf[LowHalf[f]] /\ WhichSide(h, 2) = LowHalf[f]
    BY HangingTable
  <2> QED BY <1>1, <2>1 DEF Face, Following, HighEnd, LowEnd, Opposite, LowHalf, OtherHalf
<1> HIDE DEF m, low, high, s
<1>5. 2 * Distance(low, m) = 2 * s /\ 2 * Distance(high, m) = 2 * s
  <2>1. CASE h.face \in {"LEFT", "RIGHT"}
    BY <1>2, <2>1 DEF Distance, Abs
  <2>2. CASE h.face \in {"BOTTOM", "UP"}
    BY <1>2, <2>2 DEF Distance, Abs
  <2> QED BY <1>1, <2>1, <2>2 DEF Face
<1>6. \A e \in {low, high} : 2 * Distance(e, m) = Side(h.parent)
  BY <1>2, <1>5
<1> QED BY <1>2, <1>3, <1>4, <1>6 DEF m, low, high

\* The half edges of the large leaf at the hanging point.
LEMMA HalfOfParent ==
  ASSUME NEW F \in BalancedForests, NEW h \in HangingEdges[F], NEW k,
         k \in {LowEnd[h.face], HighEnd[h.face]}
  PROVE  HalfDistance(Point(h.parent, k), Point(h.child[1], WhichCorner(h, 1)))
           = Side(h.parent)
<1>1. 2 * Distance(Point(h.parent, k), Point(h.child[1], WhichCorner(h, 1))) = Side(h.parent)
  BY EdgeFits
<1> QED BY <1>1 DEF HalfDistance

\* Each half edge belongs to one edge of its leaf.
LEMMA OneEdgePerHalf ==
  ASSUME NEW e \in Face, NEW f \in Face, NEW t, t \in CutHalves(e), t \in CutHalves(f)
  PROVE  e = f
BY DEF Face, CutHalves, LowEnd, HighEnd, LowHalf, OtherHalf

\* Ends are corners, and halves are halves.
LEMMA CornerFacts ==
  /\ \A f \in Face : /\ LowEnd[f] \in Corner /\ HighEnd[f] \in Corner
                     /\ LowHalf[f] \in {"plus", "minus"}
                     /\ OtherHalf[LowHalf[f]] \in {"plus", "minus"}
                     /\ Opposite[f] \in Face
BY DEF Face, Corner, LowEnd, HighEnd, LowHalf, OtherHalf, Opposite

-----------------------------------------------------------------------------
(* The invariant.  From one pass to the next, what each group holds. *)

Phases ==
  <<"geometry", "children", "parents", "corners", "points", "velocity", "edges",
    "hanging", "hanging velocity", "forces">>
From(n) == {Phases[i] : i \in n..10}

\* The members of a leaf that passes overwrite one at a time.
Shaped(d) ==
  /\ DOMAIN d = {"half", "matrix", "point", "velocity", "flux", "edge"}
  /\ \A k \in Corner : DOMAIN d.point[k] = {"hanging", "length", "sum"}
  /\ \A f \in Face :
       DOMAIN d.edge[f] = {"constrained", "lengths", "matrix", "velocity", "flux"}

Placed ==
  /\ mesh \in Meshes /\ phase \in From(1)
  /\ ghost = data
  /\ \A c \in mesh.leaves : Shaped(data[c])

Hangs(c, f) == \E h \in Hanging : h.parent = c /\ h.face = f

\* Where corner k of leaf c hangs, on an edge that its owner does not skip.
Served(c, k) == {q \in HangsAt(c, k) : ~ Skips(mesh.owner[c], q[1])}

\* Lengths.
WholeHalves ==
  phase \in {"children", "parents"} =>
    \A c \in mesh.leaves : \A k \in Corner : \A s \in {"plus", "minus"} :
      data[c].half[k][s] = 2 * Side(c)
ChildrenTold ==
  phase = "parents" =>
    \A c \in mesh.leaves : \A k \in Corner :
      Served(c, k) # {} =>
        data[c].point[k].hanging = TRUE /\ data[c].point[k].length = 2 * Side(c)
ParentsTold ==
  phase \in From(4) /\ NothingSkipped =>
    \A h \in Hanging :
      /\ data[h.parent].edge[h.face].constrained = TRUE
      /\ data[h.parent].edge[h.face].lengths = <<Side(h.parent), Side(h.parent)>>
Covered == NothingSkipped => EdgesCovered

\* Flags of the edges that do not hang.
OthersFree ==
  phase \in From(4) =>
    \A c \in mesh.leaves : \A f \in Face :
      ~ Hangs(c, f) => data[c].edge[f].constrained = FALSE

\* Sums.
AllAround(c, k) ==
  {[leaf |-> q[1], at |-> q[2], matrix |-> {<<stage, <<>>>>}] :
     q \in {o \in mesh.leaves \X Corner : Point(o[1], o[2]) = Point(c, k)}}
MatricesNew ==
  phase \in From(5) => \A c \in mesh.leaves : data[c].matrix = stage
SumsWhole ==
  phase \in From(6) =>
    \A c \in mesh.leaves : \A k \in Corner :
      Regular(c, k) => data[c].point[k].sum = AllAround(c, k)
CornersSolved ==
  phase \in From(7) =>
    \A c \in mesh.leaves : \A k \in Corner :
      Regular(c, k) => data[c].velocity[k] = {AllAround(c, k)}
EdgesNew ==
  phase \in From(8) /\ NothingSkipped =>
    \A h \in Hanging :
      data[h.parent].edge[h.face].matrix
        = {<<stage, <<Side(h.parent), Side(h.parent)>>>>}
AllThree(h) ==
  {[leaf |-> h.child[j], at |-> WhichCorner(h, j), matrix |-> {<<stage, <<>>>>}] :
     j \in {1, 2}}
    \cup {[leaf |-> h.parent, at |-> h.face,
           matrix |-> {<<stage, <<Side(h.parent), Side(h.parent)>>>>}]}
HangingSums ==
  phase \in From(9) /\ NothingSkipped =>
    \A h \in Hanging : \A i \in {1, 2} :
      data[h.child[i]].point[WhichCorner(h, i)].sum = AllThree(h)
Cancelled == NothingSkipped => HangingForcesCancel

Inv ==
  /\ Placed
  /\ WholeHalves /\ ChildrenTold /\ ParentsTold /\ Covered
  /\ OthersFree /\ ConstrainedWhereHanging
  /\ MatricesNew /\ SumsWhole /\ CornersSolved
  /\ EdgesNew /\ HangingSums /\ Cancelled

-----------------------------------------------------------------------------
(* What the steps have in common. *)

\* The phases, written out.
LEMMA PhaseSets ==
  /\ From(1) = From(4) \cup {"geometry", "children", "parents"}
  /\ From(4) = From(5) \cup {"corners"}
  /\ From(5) = From(6) \cup {"points"}
  /\ From(6) = From(7) \cup {"velocity"}
  /\ From(7) = From(8) \cup {"edges"}
  /\ From(8) = From(9) \cup {"hanging"}
  /\ From(9) = {"hanging velocity", "forces"}
<1>1. /\ 1..10 = {1, 2, 3, 4, 5, 6, 7, 8, 9, 10} /\ 4..10 = {4, 5, 6, 7, 8, 9, 10}
      /\ 5..10 = {5, 6, 7, 8, 9, 10} /\ 6..10 = {6, 7, 8, 9, 10} /\ 7..10 = {7, 8, 9, 10}
      /\ 8..10 = {8, 9, 10} /\ 9..10 = {9, 10}
  OBVIOUS
<1>2. /\ From(1) = {Phases[1], Phases[2], Phases[3], Phases[4], Phases[5],
                    Phases[6], Phases[7], Phases[8], Phases[9], Phases[10]}
      /\ From(4) = {Phases[4], Phases[5], Phases[6], Phases[7], Phases[8], Phases[9],
                    Phases[10]}
      /\ From(5) = {Phases[5], Phases[6], Phases[7], Phases[8], Phases[9], Phases[10]}
      /\ From(6) = {Phases[6], Phases[7], Phases[8], Phases[9], Phases[10]}
      /\ From(7) = {Phases[7], Phases[8], Phases[9], Phases[10]}
      /\ From(8) = {Phases[8], Phases[9], Phases[10]}
      /\ From(9) = {Phases[9], Phases[10]}
  BY <1>1 DEF From
<1>3. /\ Phases[1] = "geometry" /\ Phases[2] = "children" /\ Phases[3] = "parents"
      /\ Phases[4] = "corners" /\ Phases[5] = "points" /\ Phases[6] = "velocity"
      /\ Phases[7] = "edges" /\ Phases[8] = "hanging" /\ Phases[9] = "hanging velocity"
      /\ Phases[10] = "forces"
  BY DEF Phases
<1>4. From(9) = {"hanging velocity", "forces"}
  BY <1>2, <1>3
<1>5. From(8) = From(9) \cup {"hanging"}
  BY <1>2, <1>3
<1>6. From(7) = From(8) \cup {"edges"}
  BY <1>2, <1>3
<1>7. From(6) = From(7) \cup {"velocity"}
  BY <1>2, <1>3
<1>8. From(5) = From(6) \cup {"points"}
  BY <1>2, <1>3
<1>9. From(4) = From(5) \cup {"corners"}
  BY <1>2, <1>3
<1>10. From(1) = From(4) \cup {"geometry", "children", "parents"}
  <2>1. From(1) = From(4) \cup {Phases[1], Phases[2], Phases[3]}
    BY <1>2
  <2> QED BY <1>3, <2>1
<1> QED BY <1>4, <1>5, <1>6, <1>7, <1>8, <1>9, <1>10

\* The leaves of a mesh are a balanced forest.
LEMMA MeshForest ==
  ASSUME NEW m \in Meshes
  PROVE  m.leaves \in BalancedForests
BY DEF Meshes

\* The three leaves at a hanging point.
LEMMA HangingLeaves ==
  ASSUME mesh \in Meshes, NEW h \in Hanging
  PROVE  /\ h \in HangingEdges[mesh.leaves]
         /\ h.parent \in mesh.leaves /\ h.child[1] \in mesh.leaves /\ h.child[2] \in mesh.leaves
         /\ h.face \in Face /\ LowEnd[h.face] \in Corner /\ HighEnd[h.face] \in Corner
         /\ WhichCorner(h, 1) \in Corner /\ WhichCorner(h, 2) \in Corner
         /\ WhichSide(h, 1) \in {"plus", "minus"} /\ WhichSide(h, 2) \in {"plus", "minus"}
<1>1. mesh.leaves \in BalancedForests /\ h \in HangingEdges[mesh.leaves]
  BY MeshForest DEF Hanging
<1>2. /\ h.parent \in mesh.leaves /\ h.child[1] \in mesh.leaves /\ h.child[2] \in mesh.leaves
      /\ h.face \in Face
  BY <1>1, HangingEdgeParts
<1>3. /\ WhichCorner(h, 1) = HighEnd[Opposite[h.face]]
      /\ WhichCorner(h, 2) = LowEnd[Opposite[h.face]]
      /\ WhichSide(h, 1) = OtherHalf[LowHalf[Opposite[h.face]]]
      /\ WhichSide(h, 2) = LowHalf[Opposite[h.face]]
  BY <1>1, HangingTable
<1> QED BY <1>1, <1>2, <1>3, CornerFacts

\* A place where a corner hangs is one of a hanging edge, and the only one.
LEMMA HangingPlacesAre ==
  ASSUME mesh \in Meshes, NEW c, NEW k, NEW q \in HangsAt(c, k)
  PROVE  /\ q[1] \in Hanging /\ q[2] \in {1, 2}
         /\ q[1].child[q[2]] = c /\ WhichCorner(q[1], q[2]) = k
         /\ HangsAt(c, k) = {q} /\ ~ Regular(c, k)
<1>1. mesh.leaves \in BalancedForests
  BY MeshForest
<1>2. \A r \in HangsAt(c, k) : r = q
  BY <1>1, OneHangingPlace DEF HangsAt
<1> QED BY <1>2 DEF HangsAt, HangingPlaces, Hanging, Regular

\* And every child of a hanging edge hangs there.
LEMMA ChildHangs ==
  ASSUME mesh \in Meshes, NEW h \in Hanging, NEW i \in {1, 2}
  PROVE  /\ <<h, i>> \in HangsAt(h.child[i], WhichCorner(h, i))
         /\ HangsAt(h.child[i], WhichCorner(h, i)) = {<<h, i>>}
         /\ ~ Regular(h.child[i], WhichCorner(h, i))
<1>1. <<h, i>> \in HangsAt(h.child[i], WhichCorner(h, i))
  BY DEF HangsAt, HangingPlaces, Hanging
<1> QED BY <1>1, HangingPlacesAre

\* An edge of a leaf hangs once.
LEMMA EdgeHangsOnce ==
  ASSUME mesh \in Meshes, NEW g \in Hanging, NEW h \in Hanging,
         g.parent = h.parent, g.face = h.face
  PROVE  g = h
BY MeshForest, OneHangingEdge DEF Hanging

\* Its ends do not hang.
LEMMA EndsRegular ==
  ASSUME mesh \in Meshes, NEW h \in Hanging
  PROVE  Regular(h.parent, LowEnd[h.face]) /\ Regular(h.parent, HighEnd[h.face])
BY MeshForest, EndsDoNotHang DEF Hanging, Regular, HangsAt

\* With the mesh stays what is derived from it.
LEMMA SameMesh ==
  ASSUME mesh' = mesh
  PROVE  /\ Hanging' = Hanging
         /\ NothingSkipped' <=> NothingSkipped
         /\ \A c, f : Hangs(c, f)' <=> Hangs(c, f)
         /\ \A c, k : HangsAt(c, k)' = HangsAt(c, k) /\ (Regular(c, k)' <=> Regular(c, k))
         /\ \A c, k : Served(c, k)' = Served(c, k)
         /\ stage' = stage => \A c, k : AllAround(c, k)' = AllAround(c, k)
         /\ stage' = stage => \A h : AllThree(h)' = AllThree(h)
<1>1. /\ Hanging' = Hanging
      /\ \A c, k : HangsAt(c, k)' = HangsAt(c, k) /\ (Regular(c, k)' <=> Regular(c, k))
  BY DEF Hanging, HangsAt, Regular
<1>2. \A r : Own(r)' = Own(r) /\ Layer(r)' = Layer(r)
  BY DEF Own, Layer
<1>3. \A r, h : Skips(r, h)' <=> Skips(r, h)
  BY <1>2 DEF Skips, Quadid
<1>4. NothingSkipped' <=> NothingSkipped
  BY <1>1, <1>3 DEF NothingSkipped
<1>5. \A c, f : Hangs(c, f)' <=> Hangs(c, f)
  BY <1>1 DEF Hangs
<1>6. stage' = stage => \A c, k : AllAround(c, k)' = AllAround(c, k)
  BY DEF AllAround
<1>7. stage' = stage => \A h : AllThree(h)' = AllThree(h)
  BY DEF AllThree
<1>8. \A c, k : Served(c, k)' = Served(c, k)
  BY <1>1, <1>3 DEF Served
<1> QED BY <1>1, <1>4, <1>5, <1>6, <1>7, <1>8

\* What a rank reads is what the owner holds.
LEMMA SeenIsHeld ==
  ASSUME Placed, NEW r, NEW c
  PROVE  Seen(r, c) = data[c]
BY DEF Placed, Seen

-----------------------------------------------------------------------------
(* The passes, one by one. *)

\* Half of either edge, at every corner.
LEMMA CornerGeometryKeeps ==
  ASSUME Inv, CornerGeometry
  PROVE  Inv'
<1>1. /\ mesh \in Meshes /\ mesh' = mesh /\ stage' = stage /\ ghost' = data'
      /\ phase' = "children"
  BY DEF Inv, Placed, CornerGeometry, Pass, Exchange
<1>2. \A c \in mesh.leaves :
        /\ Shaped(data'[c])
        /\ \A k \in Corner : \A s \in {"plus", "minus"} : data'[c].half[k][s] = 2 * Side(c)
  BY DEF Inv, Placed, Shaped, CornerGeometry, Pass
<1>3. phase' \in From(1) /\ phase' \notin From(4)
  BY <1>1, PhaseSets
<1>4. Placed' /\ WholeHalves'
  BY <1>1, <1>2, <1>3 DEF Placed, WholeHalves
<1> QED BY <1>1, <1>3, <1>4, PhaseSets
     DEF Inv, ChildrenTold, ParentsTold, Covered, EdgesCovered, OthersFree,
         ConstrainedWhereHanging, MatricesNew, SumsWhole, CornersSolved, EdgesNew,
         HangingSums, Cancelled, HangingForcesCancel

\* A hanging corner takes its own half edge.
LEMMA ChildrenHangingInfoKeeps ==
  ASSUME Inv, ChildrenHangingInfo
  PROVE  Inv'
<1>1. /\ mesh \in Meshes /\ mesh' = mesh /\ stage' = stage /\ ghost' = data'
      /\ phase = "children" /\ phase' = "parents"
  BY DEF Inv, Placed, ChildrenHangingInfo, Pass, Exchange
<1>2. ASSUME NEW c \in mesh.leaves
      PROVE  /\ Shaped(data'[c])
             /\ data'[c].half = data[c].half
             /\ \A k \in Corner : Served(c, k) # {} =>
                  /\ data'[c].point[k].hanging = TRUE
                  /\ \E s \in {"plus", "minus"} :
                       data'[c].point[k].length = data[c].half[k][s]
  <2> DEFINE told(k) ==
               IF \E q \in HangsAt(c, k) : ~Skips(mesh.owner[c], q[1])
               THEN LET q == CHOOSE q \in HangsAt(c, k) : TRUE
                    IN  [data[c].point[k] EXCEPT
                           !.hanging = TRUE,
                           !.length = data[c].half[k][WhichSide(q[1], q[2])]]
               ELSE data[c].point[k]
  <2>1. Shaped(data[c])
    BY DEF Inv, Placed
  <2>2. data'[c] = [data[c] EXCEPT !.point = [k \in Corner |-> told(k)]]
    BY DEF ChildrenHangingInfo, Pass
  <2>3. \A k \in Corner : DOMAIN told(k) = {"hanging", "length", "sum"}
    BY <2>1 DEF Shaped
  <2>4. ASSUME NEW k \in Corner, Served(c, k) # {}
        PROVE  /\ told(k).hanging = TRUE
               /\ \E s \in {"plus", "minus"} : told(k).length = data[c].half[k][s]
    <3>1. PICK q \in HangsAt(c, k) : ~ Skips(mesh.owner[c], q[1])
      BY <2>4 DEF Served
    <3>2. HangsAt(c, k) = {q} /\ WhichSide(q[1], q[2]) \in {"plus", "minus"}
      BY <1>1, HangingPlacesAre, HangingLeaves
    <3>3. (CHOOSE r \in HangsAt(c, k) : TRUE) = q
      BY <3>2
    <3>4. told(k) = [data[c].point[k] EXCEPT
                       !.hanging = TRUE, !.length = data[c].half[k][WhichSide(q[1], q[2])]]
      BY <3>1, <3>3
    <3> HIDE DEF told
    <3> QED BY <2>1, <3>2, <3>4 DEF Shaped
  <2> HIDE DEF told
  <2>5. /\ Shaped(data'[c]) /\ data'[c].half = data[c].half
        /\ \A k \in Corner : data'[c].point[k] = told(k)
    BY <2>1, <2>2, <2>3 DEF Shaped
  <2> QED BY <2>4, <2>5
<1>3. phase' \in From(1) /\ phase' \notin From(4)
  BY <1>1, PhaseSets
<1>4. Placed'
  BY <1>1, <1>2, <1>3 DEF Placed
<1>5. WholeHalves'
  <2>1. \A c \in mesh.leaves : \A k \in Corner : \A s \in {"plus", "minus"} :
          data[c].half[k][s] = 2 * Side(c)
    BY <1>1 DEF Inv, WholeHalves
  <2>2. ASSUME NEW c \in mesh.leaves, NEW k \in Corner, NEW s \in {"plus", "minus"}
        PROVE  data'[c].half[k][s] = 2 * Side(c)
    <3>1. data'[c].half = data[c].half
      BY <1>2
    <3> QED BY <2>1, <3>1
  <2> QED BY <1>1, <2>2 DEF WholeHalves
<1>6. ASSUME NEW c \in mesh.leaves, NEW k \in Corner, Served(c, k) # {}
      PROVE  data'[c].point[k].hanging = TRUE /\ data'[c].point[k].length = 2 * Side(c)
  <2>1. \A s \in {"plus", "minus"} : data[c].half[k][s] = 2 * Side(c)
    BY <1>1 DEF Inv, WholeHalves
  <2> QED BY <1>2, <1>6, <2>1
<1>7. ChildrenTold'
  <2>1. \A c, k : Served(c, k)' = Served(c, k)
    BY <1>1, SameMesh
  <2>2. ASSUME NEW c \in mesh'.leaves, NEW k \in Corner, Served(c, k)' # {}
        PROVE  data'[c].point[k].hanging = TRUE /\ data'[c].point[k].length = 2 * Side(c)
    BY <1>1, <1>6, <2>1, <2>2
  <2> QED BY <2>2 DEF ChildrenTold
<1> QED BY <1>1, <1>3, <1>4, <1>5, <1>7, PhaseSets
     DEF Inv, ParentsTold, Covered, EdgesCovered, OthersFree,
         ConstrainedWhereHanging, MatricesNew, SumsWhole, CornersSolved, EdgesNew,
         HangingSums, Cancelled, HangingForcesCancel

\* A parent's edge takes the lengths of both children.
LEMMA InitParentEdgesKeeps ==
  ASSUME Inv, InitParentEdges
  PROVE  Inv'
<1>1. /\ mesh \in Meshes /\ mesh' = mesh /\ stage' = stage /\ ghost' = data'
      /\ phase = "parents" /\ phase' = "corners"
  BY DEF Inv, Placed, InitParentEdges, Pass, Exchange
<1> DEFINE edge(c, f) ==
             LET e == ResetEdge(data[c].edge[f])
             IN  IF Divided(c, f) = {} THEN e
                 ELSE EdgeOfChildren(e, CHOOSE h \in Divided(c, f) : TRUE)
<1>2. ASSUME NEW c \in mesh.leaves
      PROVE  /\ Shaped(data'[c])
             /\ data'[c].half = HalvesOfParent(c)
             /\ \A f \in Face : data'[c].edge[f] = edge(c, f)
  <2>1. Shaped(data[c])
    BY DEF Inv, Placed
  <2>2. data'[c] = [data[c] EXCEPT
          !.half = HalvesOfParent(c), !.edge = [f \in Face |-> edge(c, f)]]
    BY DEF InitParentEdges, Pass
  <2>3. \A f \in Face :
          DOMAIN edge(c, f) = {"constrained", "lengths", "matrix", "velocity", "flux"}
    BY <2>1 DEF Shaped, ResetEdge, EdgeOfChildren
  <2> HIDE DEF edge
  <2> QED BY <2>1, <2>2, <2>3 DEF Shaped
<1>3. phase' \in From(1) /\ phase' \in From(4) /\ phase' \notin From(5)
  BY <1>1, PhaseSets
<1>4. Placed'
  <2> HIDE DEF edge
  <2> QED BY <1>1, <1>2, <1>3 DEF Placed
<1>5. ASSUME NEW c \in mesh.leaves, NEW f \in Face, Divided(c, f) = {}
      PROVE  data'[c].edge[f].constrained = FALSE
  <2>1. DOMAIN data[c].edge[f] = {"constrained", "lengths", "matrix", "velocity", "flux"}
    BY DEF Inv, Placed, Shaped
  <2>2. data'[c].edge[f] = ResetEdge(data[c].edge[f])
    BY <1>2, <1>5
  <2> QED BY <2>1, <2>2 DEF ResetEdge
<1>6. OthersFree'
  <2> SUFFICES ASSUME NEW c \in mesh.leaves, NEW f \in Face, ~ Hangs(c, f)
               PROVE  data'[c].edge[f].constrained = FALSE
    BY <1>1, SameMesh DEF OthersFree
  <2>1. Divided(c, f) = {}
    BY DEF Hangs, Divided
  <2> QED BY <1>5, <2>1
\* With nothing skipped, the children have told their parents.
<1>7. ASSUME NothingSkipped, NEW h \in Hanging
      PROVE  /\ Divided(h.parent, h.face) = {h}
             /\ data'[h.parent].edge[h.face].constrained = TRUE
             /\ data'[h.parent].edge[h.face].lengths = <<Side(h.parent), Side(h.parent)>>
  <2> DEFINE c == h.parent
             f == h.face
             r == mesh.owner[c]
             p(i) == data[h.child[i]].point[WhichCorner(h, i)]
  <2>1. c \in mesh.leaves /\ f \in Face
    BY <1>1, HangingLeaves
  <2>2. Divided(c, f) = {h}
    <3>1. h \in Divided(c, f)
      BY <1>7 DEF NothingSkipped, Divided
    <3>2. \A g \in Divided(c, f) : g = h
      BY <1>1, EdgeHangsOnce DEF Divided
    <3> QED BY <3>1, <3>2
  <2>3. data'[c].edge[f] = EdgeOfChildren(ResetEdge(data[c].edge[f]), h)
    <3>1. (CHOOSE g \in Divided(c, f) : TRUE) = h
      BY <2>2
    <3> QED BY <1>2, <2>1, <2>2, <3>1
  <2>4. ASSUME NEW i \in {1, 2}
        PROVE  p(i).hanging = TRUE /\ p(i).length = Side(c)
    <3>1. /\ h.child[i] \in mesh.leaves /\ WhichCorner(h, i) \in Corner
          /\ <<h, i>> \in HangsAt(h.child[i], WhichCorner(h, i))
          /\ ~ Skips(mesh.owner[h.child[i]], h)
          /\ Served(h.child[i], WhichCorner(h, i)) # {}
      <4>1. h.child[i] \in mesh.leaves /\ WhichCorner(h, i) \in Corner
        BY <1>1, HangingLeaves
      <4>2. <<h, i>> \in HangsAt(h.child[i], WhichCorner(h, i))
        BY <1>1, ChildHangs
      <4>3. h.child[i] \in {h.parent, h.child[1], h.child[2]}
        OBVIOUS
      <4>4. ~ Skips(mesh.owner[h.child[i]], h)
        BY <1>7, <4>3 DEF NothingSkipped
      <4>5. <<h, i>>[1] = h
        OBVIOUS
      <4>6. <<h, i>> \in Served(h.child[i], WhichCorner(h, i))
        BY <4>2, <4>4, <4>5 DEF Served
      <4> QED BY <4>1, <4>2, <4>4, <4>6
    <3>2. p(i).hanging = TRUE /\ p(i).length = 2 * Side(h.child[i])
      BY <1>1, <3>1 DEF Inv, ChildrenTold
    <3>3. 2 * Side(h.child[i]) = Side(c)
      BY <1>1, HangingLeaves, MeshForest, HangingPlace
    <3> QED BY <3>2, <3>3
  <2>5. DOMAIN data[c].edge[f] = {"constrained", "lengths", "matrix", "velocity", "flux"}
    BY <2>1 DEF Inv, Placed, Shaped
  <2>6. Seen(r, h.child[1]) = data[h.child[1]] /\ Seen(r, h.child[2]) = data[h.child[2]]
    BY SeenIsHeld DEF Inv
  <2>7. /\ data'[c].edge[f].constrained = p(1).hanging
        /\ data'[c].edge[f].lengths = <<p(1).length, p(2).length>>
    BY <2>3, <2>5, <2>6 DEF EdgeOfChildren, ResetEdge
  <2> HIDE DEF p
  <2> QED BY <2>2, <2>4, <2>7
<1>8. ParentsTold'
  BY <1>1, <1>7, SameMesh DEF ParentsTold
\* Of every edge, the halves at both ends.
<1>9. ASSUME NothingSkipped, NEW c \in mesh.leaves, NEW f \in Face, NEW k, NEW t,
             <<k, t>> \in CutHalves(f)
      PROVE  data'[c].half[k][t] = IF Hangs(c, f) THEN Side(c) ELSE 2 * Side(c)
  <2>1. k \in {LowEnd[f], HighEnd[f]} /\ k \in Corner /\ t \in {"plus", "minus"}
    BY <1>9, CornerFacts DEF CutHalves
  <2> DEFINE cut == \E e \in Face : Divided(c, e) # {} /\ <<k, t>> \in CutHalves(e)
             edges == UNION {Divided(c, e) : e \in Face}
             one == CHOOSE h \in edges : <<k, t>> \in CutHalves(h.face)
  <2>2. data'[c].half[k][t]
          = IF cut THEN HalfDistance(Point(c, k), Point(one.child[1], WhichCorner(one, 1)))
            ELSE data[c].half[k][t]
    <3>1. HalvesOfParent(c)[k][t]
            = IF cut THEN HalfDistance(Point(c, k), Point(one.child[1], WhichCorner(one, 1)))
              ELSE data[c].half[k][t]
      BY <2>1 DEF HalvesOfParent
    <3> HIDE DEF cut, edges, one, edge
    <3>2. data'[c].half = HalvesOfParent(c)
      BY <1>2
    <3> QED BY <3>1, <3>2
  <2>3. CASE Hangs(c, f)
    <3>1. PICK h \in Hanging : h.parent = c /\ h.face = f
      BY <2>3 DEF Hangs
    <3>2. Divided(c, f) = {h}
      BY <1>7, <1>9, <3>1
    <3>3. cut /\ h \in edges /\ <<k, t>> \in CutHalves(h.face)
      BY <1>9, <3>1, <3>2
    <3>4. ASSUME NEW g \in edges, <<k, t>> \in CutHalves(g.face) PROVE g = h
      <4>1. g \in Hanging /\ g.parent = c /\ g.face \in Face
        BY <3>4 DEF Divided
      <4>2. g.face = f
        BY <1>9, <3>4, <4>1, OneEdgePerHalf
      <4> QED BY <1>1, <3>1, <4>1, <4>2, EdgeHangsOnce
    <3>5. one = h
      BY <3>3, <3>4
    <3>6. HalfDistance(Point(c, k), Point(h.child[1], WhichCorner(h, 1))) = Side(c)
      BY <1>1, <2>1, <3>1, HangingLeaves, MeshForest, HalfOfParent
    <3> HIDE DEF cut, edges, one
    <3> QED BY <2>2, <2>3, <3>3, <3>5, <3>6
  <2>4. CASE ~ Hangs(c, f)
    <3>1. ASSUME NEW e \in Face, Divided(c, e) # {}, <<k, t>> \in CutHalves(e) PROVE FALSE
      <4>1. e = f
        BY <1>9, <3>1, OneEdgePerHalf
      <4> QED BY <2>4, <3>1, <4>1 DEF Divided, Hangs
    <3>2. ~ cut
      BY <3>1
    <3>3. data[c].half[k][t] = 2 * Side(c)
      BY <1>1, <2>1 DEF Inv, WholeHalves
    <3> HIDE DEF cut, edges, one
    <3> QED BY <2>2, <2>4, <3>2, <3>3
  <2> QED BY <2>3, <2>4
<1>10. ASSUME NothingSkipped, NEW c \in mesh.leaves, NEW f \in Face
       PROVE  LET low == data'[c].half[LowEnd[f]][LowHalf[f]]
                  high == data'[c].half[HighEnd[f]][OtherHalf[LowHalf[f]]]
                  e == data'[c].edge[f]
              IN  low + high + (IF e.constrained THEN e.lengths[1] + e.lengths[2] ELSE 0)
                    = 4 * Side(c)
  <2>1. /\ <<LowEnd[f], LowHalf[f]>> \in CutHalves(f)
        /\ <<HighEnd[f], OtherHalf[LowHalf[f]]>> \in CutHalves(f)
    BY DEF CutHalves
  <2>2. LET low == data'[c].half[LowEnd[f]][LowHalf[f]]
            high == data'[c].half[HighEnd[f]][OtherHalf[LowHalf[f]]]
        IN  /\ low = IF Hangs(c, f) THEN Side(c) ELSE 2 * Side(c)
            /\ high = IF Hangs(c, f) THEN Side(c) ELSE 2 * Side(c)
    BY <1>9, <1>10, <2>1
  <2>3. Side(c) \in Nat
    <3>1. c \in Cells
      BY <1>1, MeshForest, BalancedForest
    <3> QED BY <3>1, CellParts
  <2>4. CASE Hangs(c, f)
    <3>1. /\ data'[c].edge[f].constrained = TRUE
          /\ data'[c].edge[f].lengths = <<Side(c), Side(c)>>
      BY <1>7, <1>10, <2>4 DEF Hangs
    <3> QED BY <2>2, <2>3, <2>4, <3>1
  <2>5. CASE ~ Hangs(c, f)
    <3>1. data'[c].edge[f].constrained = FALSE
      BY <1>1, <1>3, <1>6, <2>5, SameMesh DEF OthersFree
    <3> QED BY <2>2, <2>3, <2>5, <3>1
  <2> QED BY <2>4, <2>5
<1>11. Covered'
  BY <1>1, <1>10, SameMesh DEF Covered, EdgesCovered
<1> QED BY <1>1, <1>3, <1>4, <1>6, <1>8, <1>11, PhaseSets
     DEF Inv, WholeHalves, ChildrenTold,
         ConstrainedWhereHanging, MatricesNew, SumsWhole, CornersSolved, EdgesNew,
         HangingSums, Cancelled, HangingForcesCancel

\* The matrices of this stage.
LEMMA AssembleCornersKeeps ==
  ASSUME Inv, AssembleCorners
  PROVE  Inv'
<1>1. /\ mesh \in Meshes /\ mesh' = mesh /\ stage' = stage /\ ghost' = data'
      /\ phase = "corners" /\ phase' = "points"
  BY DEF Inv, Placed, AssembleCorners, Pass, Exchange
<1>2. \A c \in mesh.leaves :
        /\ Shaped(data'[c])
        /\ data'[c].edge = data[c].edge
        /\ data'[c].matrix = stage
  BY DEF Inv, Placed, Shaped, AssembleCorners, Pass
<1>3. phase \in From(4) /\ phase' \in From(1) /\ phase' \in From(5) /\ phase' \notin From(6)
  BY <1>1, PhaseSets
<1>4. Placed' /\ MatricesNew'
  BY <1>1, <1>2, <1>3 DEF Placed, MatricesNew
<1>5. OthersFree'
  BY <1>1, <1>2, <1>3, SameMesh DEF Inv, OthersFree
<1>6. ParentsTold'
  BY <1>1, <1>2, <1>3, SameMesh, HangingLeaves DEF Inv, ParentsTold
<1> QED BY <1>1, <1>3, <1>4, <1>5, <1>6, PhaseSets
     DEF Inv, WholeHalves, ChildrenTold, Covered, EdgesCovered,
         ConstrainedWhereHanging, SumsWhole, CornersSolved, EdgesNew,
         HangingSums, Cancelled, HangingForcesCancel

\* A rank knows every leaf around a corner of a leaf of its own.
LEMMA RankKnowsCorner ==
  ASSUME mesh \in Meshes, NEW c \in mesh.leaves, NEW k, NEW d \in mesh.leaves, NEW l,
         Point(d, l) = Point(c, k)
  PROVE  d \in Own(mesh.owner[c]) \cup Layer(mesh.owner[c])
<1>1. c \in Cells /\ d \in Cells
  BY MeshForest, BalancedForest
<1>2. Touch(d, c)
  BY <1>1, CornerHeld, HeldTouch
<1> QED BY <1>2 DEF Own, Layer

\* The sum of all the leaves around the corner.
LEMMA SumIsWhole ==
  ASSUME Placed, \A c \in mesh.leaves : data[c].matrix = stage,
         NEW c \in mesh.leaves, NEW k \in Corner
  PROVE  SumAt(mesh.owner[c], Point(c, k)) = AllAround(c, k)
<1> DEFINE r == mesh.owner[c]
           p == Point(c, k)
           known == {o \in (Own(r) \cup Layer(r)) \X Corner : Point(o[1], o[2]) = p}
           all == {o \in mesh.leaves \X Corner : Point(o[1], o[2]) = p}
<1>1. known = all
  <2>1. known \subseteq all
    BY DEF Own, Layer
  <2>2. ASSUME NEW o \in all PROVE o \in known
    <3>1. o[1] \in Own(r) \cup Layer(r)
      BY RankKnowsCorner DEF Placed
    <3> QED BY <3>1
  <2> QED BY <2>1, <2>2
<1>2. \A q \in all :
        CornerPart(q[1], Seen(r, q[1]), q[2])
          = [leaf |-> q[1], at |-> q[2], matrix |-> {<<stage, <<>>>>}]
  <2> TAKE q \in all
  <2>1. q[1] \in mesh.leaves
    OBVIOUS
  <2>2. Seen(r, q[1]).matrix = stage
    BY <2>1, SeenIsHeld
  <2> QED BY <2>2 DEF CornerPart
<1>3. SumAt(r, p) = {CornerPart(q[1], Seen(r, q[1]), q[2]) : q \in known}
  BY DEF SumAt
<1>4. AllAround(c, k) = {[leaf |-> q[1], at |-> q[2], matrix |-> {<<stage, <<>>>>}] : q \in all}
  BY DEF AllAround
<1> HIDE DEF known, all, r, p
<1>5. {CornerPart(q[1], Seen(r, q[1]), q[2]) : q \in all}
        = {[leaf |-> q[1], at |-> q[2], matrix |-> {<<stage, <<>>>>}] : q \in all}
  BY <1>2
<1>6. SumAt(r, p) = AllAround(c, k)
  BY <1>1, <1>3, <1>4, <1>5
<1> QED BY <1>6 DEF r, p

\* The sums at the corners that do not hang.
LEMMA AssemblePointsKeeps ==
  ASSUME Inv, AssemblePoints
  PROVE  Inv'
<1>1. /\ mesh \in Meshes /\ mesh' = mesh /\ stage' = stage /\ ghost' = data'
      /\ phase = "points" /\ phase' = "velocity"
  BY DEF Inv, Placed, AssemblePoints, Pass, Exchange
<1>2. ASSUME NEW c \in mesh.leaves
      PROVE  /\ Shaped(data'[c])
             /\ data'[c].edge = data[c].edge /\ data'[c].matrix = data[c].matrix
             /\ \A k \in Corner : Regular(c, k) =>
                  data'[c].point[k].sum = SumAt(mesh.owner[c], Point(c, k))
  <2> DEFINE pt(k) == IF Regular(c, k)
                      THEN [data[c].point[k] EXCEPT !.sum = SumAt(mesh.owner[c], Point(c, k))]
                      ELSE data[c].point[k]
  <2>1. Shaped(data[c])
    BY DEF Inv, Placed
  <2>2. data'[c] = [data[c] EXCEPT !.point = [k \in Corner |-> pt(k)]]
    BY DEF AssemblePoints, Pass
  <2>3. \A k \in Corner : DOMAIN pt(k) = {"hanging", "length", "sum"}
    BY <2>1 DEF Shaped
  <2>4. \A k \in Corner : Regular(c, k) => pt(k).sum = SumAt(mesh.owner[c], Point(c, k))
    BY <2>1 DEF Shaped
  <2> HIDE DEF pt
  <2> QED BY <2>1, <2>2, <2>3, <2>4 DEF Shaped
<1>3. /\ phase \in From(4) /\ phase \in From(5) /\ phase' \in From(1) /\ phase' \in From(5)
      /\ phase' \in From(6) /\ phase' \notin From(7)
  BY <1>1, PhaseSets
<1>4. \A c \in mesh.leaves : data[c].matrix = stage
  BY <1>3 DEF Inv, MatricesNew
<1>5. Placed' /\ MatricesNew'
  BY <1>1, <1>2, <1>3, <1>4 DEF Placed, MatricesNew
<1>6. OthersFree'
  BY <1>1, <1>2, <1>3, SameMesh DEF Inv, OthersFree
<1>7. ParentsTold'
  BY <1>1, <1>2, <1>3, SameMesh, HangingLeaves DEF Inv, ParentsTold
<1>8. \A c \in mesh.leaves : \A k \in Corner :
        Regular(c, k) => data'[c].point[k].sum = AllAround(c, k)
  BY <1>2, <1>4, SumIsWhole DEF Inv
<1>9. SumsWhole'
  BY <1>1, <1>8, SameMesh DEF SumsWhole
<1> QED BY <1>1, <1>3, <1>5, <1>6, <1>7, <1>9, PhaseSets
     DEF Inv, WholeHalves, ChildrenTold, Covered, EdgesCovered,
         ConstrainedWhereHanging, CornersSolved, EdgesNew,
         HangingSums, Cancelled, HangingForcesCancel

\* The velocities of those corners.
LEMMA SolveCornersKeeps ==
  ASSUME Inv, SolveCorners
  PROVE  Inv'
<1>1. /\ mesh \in Meshes /\ mesh' = mesh /\ stage' = stage /\ ghost' = data'
      /\ phase = "velocity" /\ phase' = "edges"
  BY DEF Inv, Placed, SolveCorners, Pass, Exchange
<1>2. \A c \in mesh.leaves :
        /\ Shaped(data'[c])
        /\ data'[c].edge = data[c].edge /\ data'[c].matrix = data[c].matrix
        /\ data'[c].point = data[c].point
        /\ \A k \in Corner : Regular(c, k) => data'[c].velocity[k] = {data[c].point[k].sum}
  BY DEF Inv, Placed, Shaped, SolveCorners, Pass
<1>3. /\ phase \in From(4) /\ phase \in From(5) /\ phase \in From(6)
      /\ phase' \in From(1) /\ phase' \in From(6)
      /\ phase' \in From(7) /\ phase' \notin From(8)
  BY <1>1, PhaseSets
<1>4. Placed' /\ MatricesNew'
  BY <1>1, <1>2, <1>3 DEF Inv, Placed, MatricesNew
<1>5. OthersFree'
  BY <1>1, <1>2, <1>3, SameMesh DEF Inv, OthersFree
<1>6. ParentsTold'
  BY <1>1, <1>2, <1>3, SameMesh, HangingLeaves DEF Inv, ParentsTold
<1>7. \A c \in mesh.leaves : \A k \in Corner :
        Regular(c, k) => /\ data'[c].point[k].sum = AllAround(c, k)
                         /\ data'[c].velocity[k] = {AllAround(c, k)}
  BY <1>2, <1>3 DEF Inv, SumsWhole
<1>8. SumsWhole' /\ CornersSolved'
  BY <1>1, <1>7, SameMesh DEF SumsWhole, CornersSolved
<1> QED BY <1>1, <1>3, <1>4, <1>5, <1>6, <1>8, PhaseSets
     DEF Inv, WholeHalves, ChildrenTold, Covered, EdgesCovered,
         ConstrainedWhereHanging, EdgesNew,
         HangingSums, Cancelled, HangingForcesCancel

\* The matrices of the edges.
LEMMA AssembleEdgesKeeps ==
  ASSUME Inv, AssembleEdges
  PROVE  Inv'
<1>1. /\ mesh \in Meshes /\ mesh' = mesh /\ stage' = stage /\ ghost' = data'
      /\ phase = "edges" /\ phase' = "hanging"
  BY DEF Inv, Placed, AssembleEdges, Pass, Exchange
<1>2. ASSUME NEW c \in mesh.leaves
      PROVE  /\ Shaped(data'[c])
             /\ data'[c].matrix = data[c].matrix
             /\ data'[c].point = data[c].point /\ data'[c].velocity = data[c].velocity
             /\ \A f \in Face :
                  /\ data'[c].edge[f].constrained = data[c].edge[f].constrained
                  /\ data'[c].edge[f].lengths = data[c].edge[f].lengths
                  /\ data[c].edge[f].constrained =>
                       data'[c].edge[f].matrix = {<<stage, data[c].edge[f].lengths>>}
  <2> DEFINE edge(f) == EdgeMatrix(data[c].edge[f])
  <2>1. Shaped(data[c])
    BY DEF Inv, Placed
  <2>2. data'[c] = [data[c] EXCEPT !.edge = [f \in Face |-> edge(f)]]
    BY DEF AssembleEdges, Pass
  <2>3. \A f \in Face :
          /\ DOMAIN edge(f) = {"constrained", "lengths", "matrix", "velocity", "flux"}
          /\ edge(f).constrained = data[c].edge[f].constrained
          /\ edge(f).lengths = data[c].edge[f].lengths
          /\ data[c].edge[f].constrained =>
               edge(f).matrix = {<<stage, data[c].edge[f].lengths>>}
    BY <2>1 DEF Shaped, EdgeMatrix
  <2> HIDE DEF edge
  <2> QED BY <2>1, <2>2, <2>3 DEF Shaped
<1>3. /\ phase \in From(4) /\ phase \in From(5) /\ phase \in From(6) /\ phase \in From(7)
      /\ phase' \in From(1) /\ phase' \in From(7)
      /\ phase' \in From(8) /\ phase' \notin From(9)
  BY <1>1, PhaseSets
<1>4. Placed' /\ MatricesNew'
  BY <1>1, <1>2, <1>3 DEF Inv, Placed, MatricesNew
<1>5. OthersFree'
  BY <1>1, <1>2, <1>3, SameMesh DEF Inv, OthersFree
<1>6. ASSUME NothingSkipped, NEW h \in Hanging
      PROVE  /\ data'[h.parent].edge[h.face].constrained = TRUE
             /\ data'[h.parent].edge[h.face].lengths = <<Side(h.parent), Side(h.parent)>>
             /\ data'[h.parent].edge[h.face].matrix
                  = {<<stage, <<Side(h.parent), Side(h.parent)>>>>}
  <2>1. h.parent \in mesh.leaves /\ h.face \in Face
    BY <1>1, HangingLeaves
  <2>2. /\ data[h.parent].edge[h.face].constrained = TRUE
        /\ data[h.parent].edge[h.face].lengths = <<Side(h.parent), Side(h.parent)>>
    BY <1>3, <1>6 DEF Inv, ParentsTold
  <2> QED BY <1>2, <2>1, <2>2
<1>7. ParentsTold' /\ EdgesNew'
  <2>1. stage' = stage /\ Hanging' = Hanging /\ (NothingSkipped' <=> NothingSkipped)
    BY <1>1, SameMesh
  <2>2. ParentsTold'
    BY <1>6, <2>1 DEF ParentsTold
  <2>3. EdgesNew'
    BY <1>6, <2>1 DEF EdgesNew
  <2> QED BY <2>2, <2>3
<1>8. SumsWhole' /\ CornersSolved'
  BY <1>1, <1>2, <1>3, SameMesh DEF Inv, SumsWhole, CornersSolved
<1> QED BY <1>1, <1>3, <1>4, <1>5, <1>7, <1>8, PhaseSets
     DEF Inv, WholeHalves, ChildrenTold, Covered, EdgesCovered,
         ConstrainedWhereHanging, HangingSums, Cancelled, HangingForcesCancel

\* The sums at the hanging points.
LEMMA AssembleHangingKeeps ==
  ASSUME Inv, AssembleHanging
  PROVE  Inv'
<1>1. /\ mesh \in Meshes /\ mesh' = mesh /\ stage' = stage /\ ghost' = data'
      /\ phase = "hanging" /\ phase' = "hanging velocity"
  BY DEF Inv, Placed, AssembleHanging, Pass, Exchange
<1>2. ASSUME NEW c \in mesh.leaves
      PROVE  /\ Shaped(data'[c])
             /\ data'[c].matrix = data[c].matrix
             /\ data'[c].edge = data[c].edge /\ data'[c].velocity = data[c].velocity
             /\ \A k \in Corner : data'[c].point[k] = HangingPoint(c, k)
  <2>1. Shaped(data[c])
    BY DEF Inv, Placed
  <2>2. data'[c] = [data[c] EXCEPT !.point = [k \in Corner |-> HangingPoint(c, k)]]
    BY DEF AssembleHanging, Pass
  <2>3. \A k \in Corner : DOMAIN HangingPoint(c, k) = {"hanging", "length", "sum"}
    BY <2>1 DEF Shaped, HangingPoint
  <2> QED BY <2>1, <2>2, <2>3 DEF Shaped
<1>3. /\ phase \in From(4) /\ phase \in From(5) /\ phase \in From(6) /\ phase \in From(7)
      /\ phase \in From(8) /\ phase' \in From(1) /\ phase' \in From(8)
      /\ phase' \in From(9)
  BY <1>1, PhaseSets
<1>4. Placed' /\ MatricesNew'
  BY <1>1, <1>2, <1>3 DEF Inv, Placed, MatricesNew
<1>5. OthersFree'
  BY <1>1, <1>2, <1>3, SameMesh DEF Inv, OthersFree
<1>6. ParentsTold' /\ EdgesNew'
  BY <1>1, <1>2, <1>3, SameMesh, HangingLeaves DEF Inv, ParentsTold, EdgesNew
<1>7. ASSUME NEW c \in mesh.leaves, NEW k \in Corner, Regular(c, k)
      PROVE  data'[c].point[k] = data[c].point[k]
  <2>1. HangingPoint(c, k) = data[c].point[k]
    BY <1>7 DEF Regular, HangingPoint
  <2> QED BY <1>2, <2>1
<1>8. SumsWhole' /\ CornersSolved'
  <2>1. \A c \in mesh.leaves : \A k \in Corner :
          Regular(c, k) => /\ data'[c].point[k].sum = AllAround(c, k)
                           /\ data'[c].velocity[k] = {AllAround(c, k)}
    BY <1>2, <1>3, <1>7 DEF Inv, SumsWhole, CornersSolved
  <2>2. \A c \in mesh'.leaves : \A k \in Corner :
          Regular(c, k)' => /\ data'[c].point[k].sum = AllAround(c, k)'
                            /\ data'[c].velocity[k] = {AllAround(c, k)'}
    <3>1. \A c, k : (Regular(c, k)' <=> Regular(c, k)) /\ AllAround(c, k)' = AllAround(c, k)
      BY <1>1, SameMesh
    <3> QED BY <1>1, <2>1, <3>1
  <2>3. SumsWhole'
    BY <2>2 DEF SumsWhole
  <2>4. CornersSolved'
    BY <2>2 DEF CornersSolved
  <2> QED BY <2>3, <2>4
<1>9. ASSUME NothingSkipped, NEW h \in Hanging, NEW i \in {1, 2}
      PROVE  data'[h.child[i]].point[WhichCorner(h, i)].sum = AllThree(h)
  <2> DEFINE c == h.child[i]
             k == WhichCorner(h, i)
             r == mesh.owner[c]
  <2>1. /\ c \in mesh.leaves /\ k \in Corner
        /\ h.parent \in mesh.leaves /\ h.child[1] \in mesh.leaves /\ h.child[2] \in mesh.leaves
    BY <1>1, HangingLeaves
  <2>2. HangsAt(c, k) = {<<h, i>>} /\ <<h, i>>[1] = h
    BY <1>1, ChildHangs
  <2>3. ~ Skips(r, h)
    <3>1. c \in {h.parent, h.child[1], h.child[2]}
      OBVIOUS
    <3> QED BY <1>9, <3>1 DEF NothingSkipped
  <2>4. HangingPoint(c, k).sum = Aggregate(r, h)
    <3>1. \E q \in HangsAt(c, k) : ~ Skips(r, q[1])
      BY <2>2, <2>3
    <3>2. (CHOOSE q \in HangsAt(c, k) : TRUE) = <<h, i>>
      BY <2>2
    <3> HIDE DEF c, k
    <3> QED BY <2>2, <3>1, <3>2 DEF HangingPoint
  <2>5. Aggregate(r, h) = AllThree(h)
    <3>1. \A d : Seen(r, d) = data[d]
      BY SeenIsHeld DEF Inv
    <3>2. data[h.child[1]].matrix = stage /\ data[h.child[2]].matrix = stage
      BY <1>3, <2>1 DEF Inv, MatricesNew
    <3>3. data[h.parent].edge[h.face].matrix = {<<stage, <<Side(h.parent), Side(h.parent)>>>>}
      BY <1>3, <1>9 DEF Inv, EdgesNew
    <3>4. \A j \in {1, 2} :
            CornerPart(h.child[j], Seen(r, h.child[j]), WhichCorner(h, j))
              = [leaf |-> h.child[j], at |-> WhichCorner(h, j), matrix |-> {<<stage, <<>>>>}]
      BY <3>1, <3>2 DEF CornerPart
    <3>5. EdgePart(h.parent, Seen(r, h.parent), h.face)
            = [leaf |-> h.parent, at |-> h.face,
               matrix |-> {<<stage, <<Side(h.parent), Side(h.parent)>>>>}]
      BY <3>1, <3>3 DEF EdgePart
    <3> QED BY <3>4, <3>5 DEF Aggregate, AllThree
  <2> HIDE DEF c, k, r
  <2>6. data'[c].point[k].sum = AllThree(h)
    BY <1>2, <2>1, <2>4, <2>5
  <2> QED BY <2>6 DEF c, k
<1>10. HangingSums'
  BY <1>1, <1>9, SameMesh DEF HangingSums
<1> QED BY <1>1, <1>3, <1>4, <1>5, <1>6, <1>8, <1>10
     DEF Inv, WholeHalves, ChildrenTold, Covered, EdgesCovered,
         ConstrainedWhereHanging, Cancelled, HangingForcesCancel

\* The velocities of the hanging points and the shares of the force left there.
LEMMA SolveHangingKeeps ==
  ASSUME Inv, SolveHanging
  PROVE  Inv'
<1>1. /\ mesh \in Meshes /\ mesh' = mesh /\ stage' = stage /\ ghost' = data'
      /\ phase = "hanging velocity" /\ phase' = "forces"
  BY DEF Inv, Placed, SolveHanging, Pass, Exchange
<1> DEFINE velocity(c, k) ==
             IF Regular(c, k) THEN data[c].velocity[k]
             ELSE UNION {HangingVelocity(mesh.owner[c], q[1]) : q \in HangsAt(c, k)}
           flux(c, k) ==
             IF Regular(c, k) THEN data[c].flux[k]
             ELSE LET q == CHOOSE q \in HangsAt(c, k) : TRUE
                  IN  ShareOf(mesh.owner[c], q[1], q[2])
           edge(c, f) ==
             IF \E h \in Hanging : h.parent = c /\ h.face = f
             THEN LET h == CHOOSE h \in Hanging : h.parent = c /\ h.face = f
                  IN  [data[c].edge[f] EXCEPT
                         !.constrained = TRUE,
                         !.velocity = HangingVelocity(mesh.owner[c], h),
                         !.flux = ShareOf(mesh.owner[c], h, 3)]
             ELSE data[c].edge[f]
<1>2. ASSUME NEW c \in mesh.leaves
      PROVE  /\ Shaped(data'[c])
             /\ data'[c].matrix = data[c].matrix /\ data'[c].point = data[c].point
             /\ \A k \in Corner : /\ data'[c].velocity[k] = velocity(c, k)
                                  /\ data'[c].flux[k] = flux(c, k)
             /\ \A f \in Face : data'[c].edge[f] = edge(c, f)
  <2>1. Shaped(data[c])
    BY DEF Inv, Placed
  <2>2. data'[c] = [data[c] EXCEPT
                      !.velocity = [k \in Corner |-> velocity(c, k)],
                      !.flux = [k \in Corner |-> flux(c, k)],
                      !.edge = [f \in Face |-> edge(c, f)]]
    BY DEF SolveHanging, Pass
  <2>3. \A f \in Face :
          DOMAIN edge(c, f) = {"constrained", "lengths", "matrix", "velocity", "flux"}
    BY <2>1 DEF Shaped
  <2> HIDE DEF velocity, flux, edge
  <2> QED BY <2>1, <2>2, <2>3 DEF Shaped
<1>3. /\ phase \in From(4) /\ phase \in From(5) /\ phase \in From(6) /\ phase \in From(7)
      /\ phase \in From(8) /\ phase \in From(9) /\ phase' \in From(1) /\ phase' \in From(9)
      /\ phase' \in From(8)
  BY <1>1, PhaseSets
<1>4. Placed' /\ MatricesNew'
  <2> HIDE DEF velocity, flux, edge
  <2> QED BY <1>1, <1>2, <1>3 DEF Inv, Placed, MatricesNew
<1>5. ASSUME NEW c \in mesh.leaves, NEW f \in Face, ~ Hangs(c, f)
      PROVE  data'[c].edge[f] = data[c].edge[f]
  <2>1. edge(c, f) = data[c].edge[f]
    BY <1>5 DEF Hangs
  <2> QED BY <1>2, <2>1
<1>6. ASSUME NEW h \in Hanging
      PROVE  LET c == h.parent
                 e == data'[c].edge[h.face]
             IN  /\ c \in mesh.leaves /\ h.face \in Face
                 /\ e.constrained = TRUE
                 /\ e.lengths = data[c].edge[h.face].lengths
                 /\ e.matrix = data[c].edge[h.face].matrix
                 /\ e.velocity = HangingVelocity(mesh.owner[c], h)
                 /\ e.flux = ShareOf(mesh.owner[c], h, 3)
  <2> DEFINE c == h.parent
             f == h.face
  <2>1. c \in mesh.leaves /\ f \in Face
    BY <1>1, HangingLeaves
  <2>2. (CHOOSE g \in Hanging : g.parent = c /\ g.face = f) = h
    BY <1>1, EdgeHangsOnce
  <2>3. edge(c, f) = [data[c].edge[f] EXCEPT
                        !.constrained = TRUE,
                        !.velocity = HangingVelocity(mesh.owner[c], h),
                        !.flux = ShareOf(mesh.owner[c], h, 3)]
    BY <2>2
  <2>4. DOMAIN data[c].edge[f] = {"constrained", "lengths", "matrix", "velocity", "flux"}
    BY <2>1 DEF Inv, Placed, Shaped
  <2>5. data'[c].edge[f] = edge(c, f)
    BY <1>2, <2>1
  <2> HIDE DEF edge
  <2> QED BY <2>1, <2>3, <2>4, <2>5
<1>7. ASSUME NEW c \in mesh.leaves, NEW k \in Corner, Regular(c, k)
      PROVE  data'[c].velocity[k] = data[c].velocity[k]
  BY <1>2, <1>7
<1>8. ASSUME NEW h \in Hanging, NEW i \in {1, 2}
      PROVE  LET c == h.child[i]
                 k == WhichCorner(h, i)
             IN  /\ c \in mesh.leaves /\ k \in Corner
                 /\ data'[c].velocity[k] = HangingVelocity(mesh.owner[c], h)
                 /\ data'[c].flux[k] = ShareOf(mesh.owner[c], h, i)
  <2> DEFINE c == h.child[i]
             k == WhichCorner(h, i)
  <2>1. c \in mesh.leaves /\ k \in Corner
    BY <1>1, HangingLeaves
  <2>2. HangsAt(c, k) = {<<h, i>>} /\ ~ Regular(c, k) /\ <<h, i>>[1] = h /\ <<h, i>>[2] = i
    BY <1>1, ChildHangs
  <2>3. velocity(c, k) = HangingVelocity(mesh.owner[c], h)
    <3>1. UNION {HangingVelocity(mesh.owner[c], q[1]) : q \in {<<h, i>>}}
            = HangingVelocity(mesh.owner[c], h)
      OBVIOUS
    <3> HIDE DEF c, k
    <3> QED BY <2>2, <3>1
  <2>4. flux(c, k) = ShareOf(mesh.owner[c], h, i)
    <3>1. (CHOOSE q \in HangsAt(c, k) : TRUE) = <<h, i>>
      BY <2>2
    <3> HIDE DEF c, k
    <3> QED BY <2>2, <3>1
  <2> HIDE DEF velocity, flux
  <2> QED BY <1>2, <2>1, <2>3, <2>4
<1> HIDE DEF velocity, flux, edge
<1>9. OthersFree'
  <2>1. \A c \in mesh.leaves : \A f \in Face :
          ~ Hangs(c, f) => data'[c].edge[f].constrained = FALSE
    BY <1>3, <1>5 DEF Inv, OthersFree
  <2> QED BY <1>1, <2>1, SameMesh DEF OthersFree
<1>10. ConstrainedWhereHanging'
  <2>1. ASSUME NEW c \in mesh.leaves, NEW f \in Face
        PROVE  data'[c].edge[f].constrained <=> \E h \in Hanging : h.parent = c /\ h.face = f
    <3>1. CASE Hangs(c, f)
      BY <1>6, <3>1 DEF Hangs
    <3>2. CASE ~ Hangs(c, f)
      <4>1. data[c].edge[f].constrained = FALSE
        BY <1>3, <3>2 DEF Inv, OthersFree
      <4> QED BY <1>5, <3>2, <4>1 DEF Hangs
    <3> QED BY <3>1, <3>2
  <2>2. Hanging' = Hanging /\ mesh'.leaves = mesh.leaves
    BY <1>1, SameMesh
  <2> QED BY <2>1, <2>2 DEF ConstrainedWhereHanging
<1>11. ParentsTold' /\ EdgesNew'
  <2>1. ASSUME NothingSkipped, NEW h \in Hanging
        PROVE  /\ data'[h.parent].edge[h.face].constrained = TRUE
               /\ data'[h.parent].edge[h.face].lengths = <<Side(h.parent), Side(h.parent)>>
               /\ data'[h.parent].edge[h.face].matrix
                    = {<<stage, <<Side(h.parent), Side(h.parent)>>>>}
    BY <1>3, <1>6, <2>1 DEF Inv, ParentsTold, EdgesNew
  <2> QED BY <1>1, <2>1, SameMesh DEF ParentsTold, EdgesNew
<1>12. SumsWhole' /\ CornersSolved'
  <2>1. \A c \in mesh.leaves : \A k \in Corner :
          Regular(c, k) => /\ data'[c].point[k].sum = AllAround(c, k)
                           /\ data'[c].velocity[k] = {AllAround(c, k)}
    BY <1>2, <1>3, <1>7 DEF Inv, SumsWhole, CornersSolved
  <2>2. \A c \in mesh'.leaves : \A k \in Corner :
          Regular(c, k)' => /\ data'[c].point[k].sum = AllAround(c, k)'
                            /\ data'[c].velocity[k] = {AllAround(c, k)'}
    <3>1. \A c, k : (Regular(c, k)' <=> Regular(c, k)) /\ AllAround(c, k)' = AllAround(c, k)
      BY <1>1, SameMesh
    <3> QED BY <1>1, <2>1, <3>1
  <2>3. SumsWhole'
    BY <2>2 DEF SumsWhole
  <2>4. CornersSolved'
    BY <2>2 DEF CornersSolved
  <2> QED BY <2>3, <2>4
<1>13. ASSUME NothingSkipped, NEW h \in Hanging, NEW i \in {1, 2}
       PROVE  /\ data'[h.child[i]].point[WhichCorner(h, i)].sum = AllThree(h)
              /\ data[h.child[i]].point[WhichCorner(h, i)].sum = AllThree(h)
  BY <1>2, <1>3, <1>8, <1>13 DEF Inv, HangingSums
<1>14. HangingSums'
  BY <1>1, <1>13, SameMesh DEF HangingSums
\* One force, and the velocity of the ends, which do not hang.
<1>15. ASSUME NothingSkipped, NEW h \in Hanging
       PROVE  LET d(i) == data'[h.child[i]]
                  k(i) == WhichCorner(h, i)
                  e == data'[h.parent].edge[h.face]
                  force(i) == [sum |-> {CornerPart(h.child[j], d(j), k(j)) : j \in {1, 2}}
                                         \cup {EdgePart(h.parent, data'[h.parent], h.face)},
                               velocity |-> data'[h.parent].velocity[LowEnd[h.face]]
                                              \cup data'[h.parent].velocity[HighEnd[h.face]],
                               part |-> i]
              IN  /\ \A i \in {1, 2} : d(i).flux[k(i)] = force(i)
                  /\ e.flux = force(3)
                  /\ {d(1).velocity[k(1)], d(2).velocity[k(2)], e.velocity} = {force(3).velocity}
  <2> DEFINE d(i) == data'[h.child[i]]
             k(i) == WhichCorner(h, i)
             e == data'[h.parent].edge[h.face]
             sum == {CornerPart(h.child[j], d(j), k(j)) : j \in {1, 2}}
                      \cup {EdgePart(h.parent, data'[h.parent], h.face)}
             v == data'[h.parent].velocity[LowEnd[h.face]]
                    \cup data'[h.parent].velocity[HighEnd[h.face]]
  <2>1. \A r, c : Seen(r, c) = data[c]
    BY SeenIsHeld DEF Inv
  <2>2. \A r : HangingVelocity(r, h) = v
    <3>1. /\ data'[h.parent].velocity[LowEnd[h.face]] = data[h.parent].velocity[LowEnd[h.face]]
          /\ data'[h.parent].velocity[HighEnd[h.face]] = data[h.parent].velocity[HighEnd[h.face]]
      BY <1>1, <1>7, HangingLeaves, EndsRegular
    <3> QED BY <2>1, <3>1 DEF HangingVelocity
  <2>3. sum = AllThree(h)
    <3>0. h.child[1] \in mesh.leaves /\ h.child[2] \in mesh.leaves
      BY <1>1, HangingLeaves
    <3>1. data'[h.child[1]].matrix = stage /\ data'[h.child[2]].matrix = stage
      BY <1>2, <1>3, <3>0 DEF Inv, MatricesNew
    <3>2. e.matrix = {<<stage, <<Side(h.parent), Side(h.parent)>>>>}
      BY <1>3, <1>6, <1>15 DEF Inv, EdgesNew
    <3>3. \A j \in {1, 2} :
            CornerPart(h.child[j], d(j), k(j))
              = [leaf |-> h.child[j], at |-> WhichCorner(h, j), matrix |-> {<<stage, <<>>>>}]
      BY <3>1 DEF CornerPart
    <3>4. EdgePart(h.parent, data'[h.parent], h.face)
            = [leaf |-> h.parent, at |-> h.face,
               matrix |-> {<<stage, <<Side(h.parent), Side(h.parent)>>>>}]
      BY <3>2 DEF EdgePart
    <3> QED BY <3>3, <3>4 DEF AllThree
  <2>4. \A r, part : ShareOf(r, h, part) = [sum |-> sum, velocity |-> v, part |-> part]
    <3>1. data[h.child[1]].point[WhichCorner(h, 1)].sum = AllThree(h)
      BY <1>13, <1>15
    <3> HIDE DEF sum, v
    <3> QED BY <2>1, <2>2, <2>3, <3>1 DEF ShareOf
  <2>5. /\ \A i \in {1, 2} : d(i).flux[k(i)] = [sum |-> sum, velocity |-> v, part |-> i]
        /\ \A i \in {1, 2} : d(i).velocity[k(i)] = v
        /\ e.flux = [sum |-> sum, velocity |-> v, part |-> 3]
        /\ e.velocity = v
    <3> HIDE DEF sum, v
    <3>1. /\ e.velocity = HangingVelocity(mesh.owner[h.parent], h)
          /\ e.flux = ShareOf(mesh.owner[h.parent], h, 3)
      BY <1>6
    <3>2. ASSUME NEW i \in {1, 2}
          PROVE  /\ d(i).velocity[k(i)] = HangingVelocity(mesh.owner[h.child[i]], h)
                 /\ d(i).flux[k(i)] = ShareOf(mesh.owner[h.child[i]], h, i)
      BY <1>8
    <3> HIDE DEF d, k, e
    <3> QED BY <2>2, <2>4, <3>1, <3>2
  <2>6. /\ \A i \in {1, 2} : d(i).flux[k(i)] = [sum |-> sum, velocity |-> v, part |-> i]
        /\ e.flux = [sum |-> sum, velocity |-> v, part |-> 3]
        /\ {d(1).velocity[k(1)], d(2).velocity[k(2)], e.velocity} = {v}
    <3> HIDE DEF sum, v, d, k, e
    <3> QED BY <2>5
  <2> QED BY <2>6
<1>16. Cancelled'
  BY <1>1, <1>15, SameMesh DEF Cancelled, HangingForcesCancel
<1> QED BY <1>1, <1>3, <1>4, <1>9, <1>10, <1>11, <1>12, <1>14, <1>16
     DEF Inv, WholeHalves, ChildrenTold, Covered, EdgesCovered

-----------------------------------------------------------------------------
(* Between stages, and the invariance. *)

\* Before the corners are assembled only the flags and lengths matter.
LEMMA StartOfStage ==
  ASSUME Placed', phase' = "geometry"
  PROVE  Inv'
<1>1. phase' \notin From(4)
  BY PhaseSets
<1> QED BY <1>1, PhaseSets
     DEF Inv, WholeHalves, ChildrenTold, ParentsTold, Covered, EdgesCovered, OthersFree,
         ConstrainedWhereHanging, MatricesNew, SumsWhole, CornersSolved, EdgesNew,
         HangingSums, Cancelled, HangingForcesCancel

LEMMA NextStageKeeps ==
  ASSUME Inv, NextStage
  PROVE  Inv'
<1>1. phase' \in From(1)
  BY PhaseSets DEF NextStage
<1>2. Placed'
  BY <1>1 DEF Inv, Placed, NextStage
<1> QED BY <1>2, StartOfStage DEF NextStage

LEMMA ShapeOfNew ==
  ASSUME NEW garbage
  PROVE  Shaped(NewLeaf(garbage))
BY DEF Shaped, NewLeaf, NewPoint, NewEdge

LEMMA ShapeOfRefreshed ==
  ASSUME NEW d, Shaped(d)
  PROVE  Shaped(Refreshed(d))
BY DEF Shaped, Refreshed

LEMMA RemeshKeeps ==
  ASSUME Inv, Remesh
  PROVE  Inv'
<1>1. /\ mesh' \in Meshes /\ ghost' = data' /\ phase' = "geometry"
  BY DEF Remesh, Exchange
<1>2. ASSUME NEW c \in mesh'.leaves
      PROVE  Shaped(data'[c])
  <2>1. PICK garbage \in BOOLEAN :
          data' = [d \in mesh'.leaves |->
                     Refreshed(IF d \in mesh.leaves THEN data[d] ELSE NewLeaf(garbage))]
    BY DEF Remesh
  <2>2. data'[c] = Refreshed(IF c \in mesh.leaves THEN data[c] ELSE NewLeaf(garbage))
    BY <2>1
  <2>3. c \in mesh.leaves => Shaped(data[c])
    BY DEF Inv, Placed
  <2> QED BY <2>2, <2>3, ShapeOfNew, ShapeOfRefreshed
<1>3. Placed'
  BY <1>1, <1>2, PhaseSets DEF Placed
<1> QED BY <1>1, <1>3, StartOfStage

LEMMA InitInv == Init => Inv
<1> SUFFICES ASSUME Init
             PROVE  Inv
  OBVIOUS
<1>1. Placed
  <2>1. PICK garbage \in BOOLEAN : data = [c \in mesh.leaves |-> NewLeaf(garbage)]
    BY DEF Init
  <2>2. \A c \in mesh.leaves : Shaped(data[c])
    BY <2>1, ShapeOfNew
  <2> QED BY <2>2, PhaseSets DEF Init, Placed
<1>2. phase = "geometry" /\ phase \notin From(4)
  BY PhaseSets DEF Init
<1> QED BY <1>1, <1>2, PhaseSets
     DEF Inv, WholeHalves, ChildrenTold, ParentsTold, Covered, EdgesCovered, OthersFree,
         ConstrainedWhereHanging, MatricesNew, SumsWhole, CornersSolved, EdgesNew,
         HangingSums, Cancelled, HangingForcesCancel

LEMMA StutterKeeps ==
  ASSUME Inv, UNCHANGED vars
  PROVE  Inv'
<1>1. /\ mesh' = mesh /\ data' = data /\ ghost' = ghost /\ phase' = phase
      /\ stage' = stage
  BY DEF vars
<1>2. NothingSkipped' <=> NothingSkipped
  BY <1>1, SameMesh
<1>3. Placed' /\ WholeHalves' /\ ChildrenTold' /\ OthersFree' /\ ConstrainedWhereHanging'
  BY <1>1, SameMesh
     DEF Inv, Placed, WholeHalves, ChildrenTold, OthersFree, ConstrainedWhereHanging
<1>4. MatricesNew' /\ SumsWhole' /\ CornersSolved'
  BY <1>1, SameMesh DEF Inv, MatricesNew, SumsWhole, CornersSolved
<1>5. ParentsTold' /\ EdgesNew' /\ HangingSums'
  BY <1>1, SameMesh DEF Inv, ParentsTold, EdgesNew, HangingSums
<1>6. Covered'
  BY <1>1, <1>2 DEF Inv, Covered, EdgesCovered
<1>7. Cancelled'
  <2>1. HangingForcesCancel' <=> HangingForcesCancel
    BY <1>1 DEF HangingForcesCancel, Hanging
  <2> QED BY <1>2, <2>1 DEF Inv, Cancelled
<1> QED BY <1>3, <1>4, <1>5, <1>6, <1>7 DEF Inv

\* Inv holds before and after every pass, exchange and change of the forest.
THEOREM Invariance == Spec => []Inv
<1>1. Inv /\ [Next]_vars => Inv'
  BY CornerGeometryKeeps, ChildrenHangingInfoKeeps, InitParentEdgesKeeps,
     AssembleCornersKeeps, AssemblePointsKeeps, SolveCornersKeeps, AssembleEdgesKeeps,
     AssembleHangingKeeps, SolveHangingKeeps, NextStageKeeps, RemeshKeeps, StutterKeeps
     DEF Next
<1> QED BY InitInv, <1>1, PTL DEF Spec

-----------------------------------------------------------------------------
(* What follows. *)

\* get_hanging_edge_info_from_logical_position gives both children of every
\* hanging edge the middle of the parent's edge as their hanging corner, its
\* ends as their masters, and the half edge between the two.
THEOREM EdgesFit == Spec => []HangingEdgesFit
<1>1. Inv => HangingEdgesFit
  BY EdgeFits, MeshForest DEF Inv, Placed, Hanging, HangingEdgesFit
<1> QED BY <1>1, Invariance, PTL

\* When forces are computed, exactly the edges that hang are taken for such,
\* whatever the quadids: a flag left from a forest before, or never written,
\* reaches no force.
THEOREM Constrained == Spec => []ConstrainedWhereHanging
<1>1. Inv => ConstrainedWhereHanging
  BY DEF Inv
<1> QED BY <1>1, Invariance, PTL

\* When forces are computed, all leaves around a corner that does not hang
\* have the velocity solved from the sum of all of them, of this stage, on
\* whichever rank each was solved.
THEOREM CornersAgree == Spec => []SharedCornersAgree
<1>1. Inv => SharedCornersAgree
  BY PhaseSets DEF Inv, CornersSolved, SharedCornersAgree, AllAround
<1> QED BY <1>1, Invariance, PTL

\* While no rank takes the two children of a hanging edge for one leaf, the half
\* edges make up the border of every leaf when the corners are assembled.
THEOREM BordersCovered == Spec => [](NothingSkipped => EdgesCovered)
<1>1. Inv => (NothingSkipped => EdgesCovered)
  BY DEF Inv, Covered
<1> QED BY <1>1, Invariance, PTL

\* While no rank does, the owners of both children solve a hanging point from
\* the same sum, of the two corners and the parent's edge, of this stage.
THEOREM HangingSumsAgree == Spec => [](NothingSkipped => OneSumPerHangingPoint)
<1>1. Inv => (NothingSkipped => OneSumPerHangingPoint)
  BY PhaseSets DEF Inv, HangingSums, OneSumPerHangingPoint, AllThree
<1> QED BY <1>1, Invariance, PTL

\* While no rank does, the three leaves at a hanging point move with one
\* velocity and hold the three shares of one force.
THEOREM ForcesCancel == Spec => [](NothingSkipped => HangingForcesCancel)
<1>1. Inv => (NothingSkipped => HangingForcesCancel)
  BY DEF Inv, Cancelled
<1> QED BY <1>1, Invariance, PTL

-----------------------------------------------------------------------------
(* Where no rank takes two children for one. *)

\* No border between ranks runs between the two children of a hanging edge.
OneRankPerPair ==
  \A h \in Hanging : mesh.owner[h.child[1]] = mesh.owner[h.child[2]]

\* A place in the z-order is a number.
LEMMA ZOrderType ==
  ASSUME NEW c \in Cells
  PROVE  ZOrder(c) \in Nat
<1>1. /\ c.x \in Nat /\ c.y \in Nat /\ Side(c) \in Nat \ {0} /\ PowerOfTwo[Depth] \in Nat
      /\ c.x + Side(c) <= PowerOfTwo[Depth] /\ c.y + Side(c) <= PowerOfTwo[Depth]
  BY CellParts, CellInDomain, PowerOfTwoType, DepthAssumption
<1>2. c.x \in 0..(PowerOfTwo[Depth] - 1) /\ c.y \in 0..(PowerOfTwo[Depth] - 1)
  BY <1>1
<1>3. Spread[c.x] \in Nat /\ Spread[c.y] \in Nat
  BY <1>2, SpreadBound, DepthAssumption
<1> QED BY <1>3 DEF ZOrder

\* Of two squares of an array, the later one in z-order has the larger quadid.
LEMMA IndexGrows ==
  ASSUME NEW S, IsFiniteSet(S), \A d \in S : ZOrder(d) \in Int,
         NEW a \in S, NEW b \in S, ZOrder(a) < ZOrder(b)
  PROVE  Index(a, S) # Index(b, S)
<1> DEFINE A == {d \in S : ZOrder(d) < ZOrder(a)}
           B == {d \in S : ZOrder(d) < ZOrder(b)}
<1>1. A \subseteq B /\ a \in B /\ a \notin A /\ B \subseteq S
  OBVIOUS
<1>2. IsFiniteSet(B)
  BY <1>1, FS_Subset
<1> HIDE DEF A, B
<1>3. Cardinality(A) # Cardinality(B)
  BY <1>1, <1>2, FS_Subset
<1> QED BY <1>3 DEF A, B, Index

\* Two children on one rank are two in its own array, and two in the ghosts of
\* the rank of their larger neighbour.
LEMMA OneRankServes ==
  ASSUME mesh \in Meshes, NEW h \in Hanging,
         mesh.owner[h.child[1]] = mesh.owner[h.child[2]],
         NEW c \in {h.parent, h.child[1], h.child[2]}
  PROVE  ~ Skips(mesh.owner[c], h)
<1> DEFINE F == mesh.leaves
           p == h.parent
           a == h.child[1]
           b == h.child[2]
           r == mesh.owner[c]
<1>1. /\ F \in BalancedForests /\ h \in HangingEdges[F]
      /\ Tiling(F) /\ F \subseteq Cells /\ IsFiniteSet(F)
  BY MeshForest, BalancedForest, FiniteForest DEF Hanging
<1>2. PICK n \in Cells : /\ NextTo(p, h.face, n)
                         /\ a = Child(n, LowChild[h.face])
                         /\ b = Child(n, HighChild[h.face])
  BY <1>1, HangingEdgeParts
<1>3. /\ p \in F /\ a \in F /\ b \in F /\ p \in Cells /\ p.level < Depth /\ h.face \in Face
  BY <1>1, HangingEdgeParts
<1>4. Touch(a, p) /\ Touch(b, p) /\ ZOrder(a) < ZOrder(b)
  BY <1>2, <1>3, HalvesAcross
<1>5. \A d \in F : ZOrder(d) \in Int
  BY <1>1, ZOrderType
<1> HIDE DEF a, b, p
<1>6. CASE mesh.owner[a] = r
  <2>1. a \in Own(r) /\ b \in Own(r) /\ Own(r) \subseteq F
    BY <1>3, <1>6 DEF Own, a, b
  <2>2. Index(a, Own(r)) # Index(b, Own(r))
    BY <1>1, <1>4, <1>5, <2>1, IndexGrows, FS_Subset
  <2> QED BY <1>6, <2>2 DEF Skips, Quadid, a, b
<1>7. CASE mesh.owner[a] # r
  <2>1. c = p
    BY <1>7 DEF a, b, p
  <2>2. p \in Own(r) /\ a \notin Own(r) /\ b \notin Own(r)
    BY <1>3, <1>7, <2>1 DEF Own, a, b
  <2>3. a \in Layer(r) /\ b \in Layer(r) /\ Layer(r) \subseteq F
    BY <1>3, <1>4, <2>2 DEF Layer
  <2>4. Index(a, Layer(r)) # Index(b, Layer(r))
    BY <1>1, <1>4, <1>5, <2>3, IndexGrows, FS_Subset
  <2> QED BY <1>7, <2>4 DEF Skips, Quadid, a, b
<1> QED BY <1>6, <1>7

\* While no border runs between the children of a hanging edge, the half edges
\* make up the border of every leaf, both children's owners solve from one sum,
\* and the forces at every hanging point cancel.
THEOREM WholeOffBorders ==
  Spec => [](OneRankPerPair =>
               EdgesCovered /\ OneSumPerHangingPoint /\ HangingForcesCancel)
<1>1. Inv /\ OneRankPerPair => NothingSkipped
  BY OneRankServes DEF Inv, Placed, OneRankPerPair, NothingSkipped
<1>2. Inv => (OneRankPerPair =>
                EdgesCovered /\ OneSumPerHangingPoint /\ HangingForcesCancel)
  BY <1>1, PhaseSets
     DEF Inv, Covered, Cancelled, HangingSums, OneSumPerHangingPoint, AllThree
<1> QED BY <1>2, Invariance, PTL

\* One rank owns every leaf.
LEMMA OneRankOwnsAll ==
  ASSUME NumRanks = 1, mesh \in Meshes, NEW c \in mesh.leaves
  PROVE  mesh.owner[c] = 0
<1> DEFINE F == mesh.leaves
<1>1. mesh.owner \in Partitions(F)
  BY DEF Meshes
<1>2. 1..(NumRanks - 1) = {}
  OBVIOUS
<1>3. PICK b \in [1..(NumRanks - 1) -> 0..Cardinality(F)] :
        mesh.owner = [d \in F |-> Cardinality({i \in DOMAIN b : b[i] <= Index(d, F)})]
  BY <1>1 DEF Partitions
<1>4. {i \in DOMAIN b : b[i] <= Index(c, F)} = {}
  BY <1>2, <1>3
<1> QED BY <1>3, <1>4, FS_EmptySet

\* Run on one rank, the program covers every border and cancels the forces at
\* every hanging point.
THEOREM WholeOnOneRank ==
  NumRanks = 1 =>
    (Spec => [](EdgesCovered /\ OneSumPerHangingPoint /\ HangingForcesCancel))
<1> SUFFICES ASSUME NumRanks = 1
             PROVE  Spec => [](EdgesCovered /\ OneSumPerHangingPoint /\ HangingForcesCancel)
  OBVIOUS
<1>1. Inv => OneRankPerPair
  BY OneRankOwnsAll, HangingLeaves DEF Inv, Placed, OneRankPerPair
<1> QED BY <1>1, Invariance, WholeOffBorders, PTL
=============================================================================
