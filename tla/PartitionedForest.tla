-------------------------- MODULE PartitionedForest --------------------------
(***************************************************************************)
(* Forests of leaves, their hanging edges, and how ranks share them.       *)
(***************************************************************************)
EXTENDS Quadtree, Sequences, FiniteSetsExt

CONSTANTS
  NumRanks,     \* mpisize
  Forests,      \* sets of leaves offered to p4est_balance
  Drift         \* bound: leaves a border may lie away from an even partition

Ranks == 0..(NumRanks - 1)
Corner == {"LEFTBOTTOM", "LEFTUP", "RIGHTUP", "RIGHTBOTTOM"}
Face == {"LEFT", "RIGHT", "BOTTOM", "UP"}

ASSUME RanksAssumption == NumRanks \in Nat \ {0}
ASSUME ForestsAssumption ==
  \A F \in Forests : Tiling(F)
ASSUME DriftAssumption == Drift \in Nat

-----------------------------------------------------------------------------
(* Edges and corners of a square. *)

\* The two ends of an edge, in the direction of the axis.
LowEnd  == [LEFT |-> "LEFTBOTTOM", RIGHT |-> "RIGHTBOTTOM",
            BOTTOM |-> "LEFTBOTTOM", UP |-> "LEFTUP"]
HighEnd == [LEFT |-> "LEFTUP", RIGHT |-> "RIGHTUP",
            BOTTOM |-> "RIGHTBOTTOM", UP |-> "RIGHTUP"]
\* The half of the edge at its low end; the one at its high end is the other.
LowHalf == [LEFT |-> "plus", RIGHT |-> "minus", BOTTOM |-> "minus", UP |-> "plus"]
OtherHalf == [plus |-> "minus", minus |-> "plus"]
Opposite == [LEFT |-> "RIGHT", RIGHT |-> "LEFT", BOTTOM |-> "UP", UP |-> "BOTTOM"]

Point(c, k) ==
  <<c.x + IF k \in {"RIGHTUP", "RIGHTBOTTOM"} THEN Side(c) ELSE 0,
    c.y + IF k \in {"LEFTUP", "RIGHTUP"} THEN Side(c) ELSE 0>>
Abs(n) == IF n < 0 THEN -n ELSE n
Distance(p, q) == Abs(p[1] - q[1]) + Abs(p[2] - q[2])
HalfDistance(p, q) == 2 * Distance(p, q)   \* in quarters

\* Square d lies across edge f of square c.
Across(c, f, d) ==
  CASE f = "LEFT"   -> d.x + Side(d) = c.x /\ Cross(c.y, Side(c), d.y, Side(d))
    [] f = "RIGHT"  -> c.x + Side(c) = d.x /\ Cross(c.y, Side(c), d.y, Side(d))
    [] f = "BOTTOM" -> d.y + Side(d) = c.y /\ Cross(c.x, Side(c), d.x, Side(d))
    [] f = "UP"     -> c.y + Side(c) = d.y /\ Cross(c.x, Side(c), d.x, Side(d))

-----------------------------------------------------------------------------
(* Forests, their hanging edges and their partitions. *)

BalancedForests == {F \in Forests : CornerBalanced(F)}

\* The edges where a leaf, parent, meets two smaller ones, child.
HangingEdges ==
  [F \in BalancedForests |->
    {[parent |-> q[1], face |-> q[2],
      child |-> LET cs == {d \in F : Across(q[1], q[2], d)}
                IN  <<CHOOSE d \in cs : Index(d, cs) = 0,
                      CHOOSE d \in cs : Index(d, cs) = 1>>] :
     q \in {r \in F \X Face :
              \E d \in F : Across(r[1], r[2], d) /\ d.level > r[1].level}}]

\* Contiguous shares in z-order that part no family of leaves, near even ones.
Partitions(F) ==
  LET borders == {b \in [1..(NumRanks - 1) -> 0..Cardinality(F)] :
                    \A i \in DOMAIN b :
                      /\ i > 1 => b[i - 1] <= b[i]
                      /\ Abs(b[i] - (i * Cardinality(F)) \div NumRanks) <= Drift}
      shares == {[c \in F |-> Cardinality({i \in DOMAIN b : b[i] <= Index(c, F)})] :
                    b \in borders}
  IN  {owner \in shares : \A p \in Families(F) : ~Cut(p, owner)}

Meshes ==
  UNION {{[leaves |-> F, owner |-> owner] : owner \in Partitions(F)} :
           F \in BalancedForests}

\* get_hanging_edge_info_from_logical_position: of child i of edge h, whether
\* it is the further one along the edge, its end of its own edge that hangs,
\* its end that does not, and its half edge at the hanging end.
Ahead(h, i) ==
  LET c == h.child[i]
      d == h.child[3 - i]
  IN  IF h.face \in {"LEFT", "RIGHT"} THEN c.y = d.y + Side(c) ELSE c.x = d.x + Side(c)
\* WhichCorner with the ends taken the wrong way round.
WhichCorner_Reversed(h, i) ==
  LET f == Opposite[h.face] IN IF Ahead(h, i) THEN HighEnd[f] ELSE LowEnd[f]
WhichCorner(h, i) ==
  LET f == Opposite[h.face] IN IF Ahead(h, i) THEN LowEnd[f] ELSE HighEnd[f]
MasterCorner(h, i) ==
  LET f == Opposite[h.face] IN IF Ahead(h, i) THEN HighEnd[f] ELSE LowEnd[f]
WhichSide(h, i) ==
  LET s == LowHalf[Opposite[h.face]] IN IF Ahead(h, i) THEN s ELSE OtherHalf[s]

\* The places where corner k of leaf c of forest F hangs: at most one edge, as
\* its child i.
HangingPlaces(F, c, k) ==
  {q \in HangingEdges[F] \X {1, 2} :
     q[1].child[q[2]] = c /\ WhichCorner(q[1], q[2]) = k}

\* From one corner to the next: the order of EnumCorner.
Following == [LEFTBOTTOM |-> "LEFTUP", LEFTUP |-> "RIGHTUP",
              RIGHTUP |-> "RIGHTBOTTOM", RIGHTBOTTOM |-> "LEFTBOTTOM"]
=============================================================================
