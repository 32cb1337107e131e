------------------------------ MODULE AMRForest ------------------------------
(***************************************************************************)
(* The forest of leaves and what the AMR passes hand from leaf to leaf:    *)
(* AMRController::execute_amr with the criteria, the coarsening tags and   *)
(* Lagrangian_replace_quads, between the gradient passes of PreProcess and *)
(* the acceptance of the next stage, and the repartition, which decides    *)
(* what families of leaves p4est can coarsen.                              *)
(*                                                                         *)
(* Mass and energies are amounts, not densities: a leaf's share of a       *)
(* quantity per mass is that quantity times its mass.  The gas moves with  *)
(* one velocity, so the kinetic energy is a fixed amount per mass; it is   *)
(* left out of the total energy as well as of total minus internal.        *)
(*                                                                         *)
(* A definition named <Name>_<Fault> is <Name> with a bug a programmer     *)
(* could have made; the specification does not use it.                     *)
(***************************************************************************)
EXTENDS Quadtree, Sequences, FiniteSetsExt

CONSTANTS
  MinLevel,                   \* minus_level
  Criteria,                   \* refine_coarsen_enum: the values explored
  RefineError, CoarsenError,  \* refine_err, coarsen_error
  Mass(_),                    \* of the gas in every square; the mesh moves with it
  InitialEnergy,              \* of the leaves of the initial forest
  NumRanks,                   \* mpisize
  Fronts,                     \* where steep gradients may be: sets of squares
  Quantum,                    \* the energy a stage moves between two leaves
  Flows,                      \* bound: the pairs of leaves it may move it between
  MaxPasses,                  \* bound: AMR passes explored
  MaxTransfers                \* bound: stages that move energy

\* max_level: no square of a forest is smaller.
MaxLevel == Depth

\* enum RefineCriteria.
DensityGradient == 0
PressureGradient == 1
Distance == 5

\* What valid(MeshConfig) accepts.
ASSUME LevelAssumption ==
  MinLevel \in Nat /\ MinLevel <= MaxLevel
ASSUME CriterionAssumption == Criteria \subseteq 0..5
ASSUME ThresholdAssumption == RefineError \in Int /\ CoarsenError \in Int
ASSUME InitialAssumption ==
  /\ \A l \in MinLevel..MaxLevel : \A c \in LevelCells(l) :
       /\ Mass(c) \in Nat \ {0}
       /\ l < MaxLevel => Mass(c) = Mass(Child(c, 1)) + Mass(Child(c, 2))
                                      + Mass(Child(c, 3)) + Mass(Child(c, 4))
  /\ InitialEnergy \in [LevelCells(MinLevel) -> Nat \ {0}]
ASSUME RanksAssumption == NumRanks \in Nat \ {0}
ASSUME FlowAssumption == \A p \in Flows : Touch(p[1], p[2]) /\ ~Overlap(p[1], p[2])
ASSUME FrontAssumption == \A F \in Fronts : F \subseteq LevelCells(MaxLevel)
ASSUME BoundAssumption ==
  Quantum \in Nat /\ MaxPasses \in Nat /\ MaxTransfers \in Nat

VARIABLES
  criterion,  \* refine_coarsen_enum
  forest,     \* the leaves and their data, quad_data_t
  owner,      \* the rank each leaf lies on
  merged,     \* history: leaves coarsened to since the last repartition
  phase,      \* what the driver calls next
  passes, transfers,   \* the bounded counters
  trail       \* history: the forest before the pass and after its refinement

shares == <<owner, merged>>
vars == <<criterion, forest, shares, phase, passes, transfers, trail>>

-----------------------------------------------------------------------------
(* Leaf data.  parts is what a later refinement will give to the children: *)
(* ChildrenPhysicalVara and the volumes under ChildrenCnGeomVara.          *)

Unset == -1           \* a new leaf's member that nothing has written yet
Allowed == 2          \* CoarsingAllowed
NotAllowed == 3       \* CoarsingNotAllowed

\* generate_children_info_from_parent: the density and the internal energy per
\* mass of the leaf, over the volumes of its children, which are not all equal.
\* The smallest squares have no children.
Parts(c, d) ==
  IF c.level = MaxLevel THEN <<>>
  ELSE [k \in 1..4 |-> [mass |-> Mass(Child(c, k)),
                        internal |-> (d.internal * Mass(Child(c, k))) \div d.mass]]
WithParts(c, d) == [d EXCEPT !.parts = Parts(c, d)]

RefinedChild_NoGradient(f, c) ==          \* the cell members are not copied
  LET p == f[ParentOf(c)]
      part == p.parts[ChildId(c)]
  IN  WithParts(c, [mass |-> part.mass, internal |-> part.internal,
                    total |-> (p.total * part.mass) \div p.mass, parts |-> <<>>,
                    indicator |-> 0, coarsening |-> Allowed])

\* One child of Lagrangian_replace_quads: every cell member is the parent's
\* (total energy per mass, gradients, tags), then density, internal energy
\* and geometry come from the parent's parts, then its own parts are made.
RefinedChild(f, c) ==
  LET p == f[ParentOf(c)]
      part == p.parts[ChildId(c)]
  IN  WithParts(c, [p EXCEPT !.mass = part.mass, !.internal = part.internal,
                             !.total = (p.total * part.mass) \div p.mass])

\* A sum over the four children of c.
OverChildren(g(_), c) ==
  g(Child(c, 1)) + g(Child(c, 2)) + g(Child(c, 3)) + g(Child(c, 4))

CoarsenedParent_FreshParts(f, c) ==       \* as a stage would leave them
  LET sum(g(_)) == OverChildren(g, c)
      mass(d) == f[d].mass
      total(d) == f[d].total
  IN  WithParts(c, [mass |-> sum(mass), total |-> sum(total), internal |-> sum(total),
                    parts |-> <<>>, indicator |-> Unset, coarsening |-> Unset])

CoarsenedParent_PlainMean(f, c) ==        \* energy per mass not weighted by mass
  LET sum(g(_)) == OverChildren(g, c)
      mass(d) == f[d].mass
      perMass(d) == f[d].total \div f[d].mass
      total == (sum(perMass) * sum(mass)) \div 4
  IN  [mass |-> sum(mass), total |-> total, internal |-> total,
       parts |-> [k \in 1..4 |-> [mass |-> f[Child(c, k)].mass,
                                  internal |-> f[Child(c, k)].internal]],
       indicator |-> Unset, coarsening |-> Unset]

\* coarsen_children_to_parent: sums; the children stay in the parent's parts.
CoarsenedParent(f, c) ==
  LET sum(g(_)) == OverChildren(g, c)
      mass(d) == f[d].mass
      total(d) == f[d].total
  IN  [mass |-> sum(mass), total |-> sum(total), internal |-> sum(total),
       parts |-> [k \in 1..4 |-> [mass |-> f[Child(c, k)].mass,
                                  internal |-> f[Child(c, k)].internal]],
       indicator |-> Unset, coarsening |-> Unset]

RefineLeaves(f, R) ==
  [c \in (DOMAIN f \ R) \cup UNION {Children(p) : p \in R} |->
     IF c \in DOMAIN f THEN f[c] ELSE RefinedChild(f, c)]

CoarsenFamilies(f, P) ==
  [c \in (DOMAIN f \ UNION {Children(p) : p \in P}) \cup P |->
     IF c \in P THEN CoarsenedParent(f, c) ELSE f[c]]

-----------------------------------------------------------------------------
(* Criteria. *)

\* The gradient the passes of PreProcess leave on a leaf.
Steepness(c, front) ==
  CASE \E p \in front : Overlap(c, p) -> 2
    [] \E p \in front : Touch(c, p) /\ ~Overlap(c, p) -> 1
    [] OTHER -> 0

RefineErrorEstimate(f, c) ==
  \/ c.level < MinLevel
  \/ c.level < MaxLevel /\ f[c].indicator > RefineError

CoarsenErrorEstimate_NoMinimum(f, family) ==   \* minimum level forgotten
  /\ \A c \in family : f[c].coarsening # NotAllowed
  /\ \E c \in family : f[c].indicator < CoarsenError

CoarsenErrorEstimate(f, family) ==
  /\ \A c \in family : f[c].coarsening # NotAllowed /\ c.level > MinLevel
  /\ \/ \E c \in family : c.level > MaxLevel
     \/ \E c \in family : f[c].indicator < CoarsenError

\* Leaves that break the 2:1 rule over corners.
TooCoarse(leaves) ==
  {c \in leaves : \E d \in leaves : d.level - c.level > 1 /\ Touch(c, d)}

BalancedForest_EdgesOnly(f) ==                 \* P4EST_CONNECT_FACE
  LET coarse(leaves) == {c \in leaves : \E d \in leaves :
                           d.level - c.level > 1 /\ TouchAlongEdge(c, d)}
      round[i \in 0..2 * MaxLevel] ==
        IF i = 0 THEN f
        ELSE LET g == round[i - 1]
             IN  RefineLeaves(g, coarse(DOMAIN g))
  IN  round[2 * MaxLevel]

\* p4est_balance_ext: the least refinement that satisfies the 2:1 rule.
BalancedForest(f) ==
  LET round[i \in 0..2 * MaxLevel] ==
        IF i = 0 THEN f
        ELSE LET g == round[i - 1]
             IN  RefineLeaves(g, TooCoarse(DOMAIN g))
  IN  round[2 * MaxLevel]

-----------------------------------------------------------------------------
(* The ranks. *)

\* The places of leaves in z-order, from 0.
Places(leaves) ==
  LET z == [c \in leaves |-> ZOrder(c)]
  IN  [c \in leaves |-> Cardinality({d \in leaves : z[d] < z[c]})]

\* p4est_partition without its correction for families.
Partitions_CutAnywhere(leaves) ==
  LET place == Places(leaves)
  IN  {[c \in leaves |->
          Cardinality({i \in 1..(NumRanks - 1) :
                         (i * Cardinality(leaves)) \div NumRanks <= place[c]})]}

\* p4est_partition with partition_for_coarsening: contiguous shares of equal
\* size, each border moved to the nearest place that cuts no family.
Partitions(leaves) ==
  LET place == Places(leaves)
      even == [i \in 1..(NumRanks - 1) |-> (i * Cardinality(leaves)) \div NumRanks]
      inside(p) == {place[Child(p, 1)] + i : i \in 1..3}
      clear == (0..Cardinality(leaves)) \ UNION {inside(p) : p \in Families(leaves)}
      far(b, i) == IF b < even[i] THEN even[i] - b ELSE b - even[i]
      near == [i \in DOMAIN even |->
                 {b \in clear : \A e \in even[i] - 2..even[i] + 2 :
                    e \in clear => far(b, i) <= far(e, i)}]
  IN  {[c \in leaves |-> Cardinality({i \in DOMAIN even : border[i] <= place[c]})] :
         border \in {b \in [DOMAIN even -> UNION {near[i] : i \in DOMAIN even}] :
                        \A i \in DOMAIN even : b[i] \in near[i]}}

\* New leaves lie on the rank of the leaves they replace.
Inherited(f) ==
  [c \in DOMAIN f |->
     IF c \in DOMAIN owner THEN owner[c]
       ELSE owner[CHOOSE d \in DOMAIN owner : Overlap(c, d)]]
Carry(f) == owner' = Inherited(f) /\ merged' = merged \cap DOMAIN f

-----------------------------------------------------------------------------
(* Actions: the driver's calls in the order of one step. *)

Remember(f) == [start |-> f, refined |-> f]

Init ==
  /\ criterion \in Criteria
  /\ forest = [c \in LevelCells(MinLevel) |->
                 WithParts(c, [mass |-> Mass(c), total |-> InitialEnergy[c],
                               internal |-> InitialEnergy[c], parts |-> <<>>,
                               indicator |-> Unset, coarsening |-> Unset])]
  /\ owner \in Partitions(LevelCells(MinLevel)) /\ merged = {}
  /\ phase = "preprocess"
  /\ passes = 0 /\ transfers = 0
  /\ trail = Remember(forest)

\* The gradient passes select the variables of the configured criterion; the
\* selector aborts for the criteria it has no variables for.
Unsupported ==
  /\ phase = "preprocess"
  /\ criterion \notin {DensityGradient, PressureGradient}
  /\ phase' = "aborted"
  /\ UNCHANGED <<criterion, forest, shares, passes, transfers, trail>>

\* Gradients and default tags.  An AMR pass and a repartition follow when due.
PreProcess ==
  /\ phase = "preprocess"
  /\ criterion \in {DensityGradient, PressureGradient}
  /\ \E front \in Fronts :
       forest' = [c \in DOMAIN forest |->
                    [forest[c] EXCEPT !.indicator = Steepness(c, front),
                                      !.coarsening = Allowed]]
  /\ \/ passes < MaxPasses /\ phase' = "refine"
     \/ phase' \in {"partition", "stage"}
  /\ trail' = Remember(forest')
  /\ UNCHANGED <<criterion, shares, passes, transfers>>

Refine_Recursive ==                            \* recursive = 1, as in main
  /\ phase = "refine"
  /\ LET once(f) == RefineLeaves(f, {c \in DOMAIN f : RefineErrorEstimate(f, c)})
     IN  forest' = once(once(forest))
  /\ Carry(forest')
  /\ trail' = [trail EXCEPT !.refined = forest']
  /\ phase' = "tag" /\ passes' = passes + 1
  /\ UNCHANGED <<criterion, transfers>>

\* p4est_refine_ext, not recursive.
Refine ==
  /\ phase = "refine"
  /\ forest' = RefineLeaves(forest,
                 {c \in DOMAIN forest : RefineErrorEstimate(forest, c)})
  /\ Carry(forest')
  /\ trail' = [trail EXCEPT !.refined = forest']
  /\ phase' = "tag" /\ passes' = passes + 1
  /\ UNCHANGED <<criterion, transfers>>

TagCoarsening_Skipped ==                       \* tags keep their defaults
  /\ phase = "tag"
  /\ phase' = "coarsen"
  /\ UNCHANGED <<criterion, forest, shares, passes, transfers, trail>>

\* set_allowing_coarsening_tag, over edges and over corners.
TagCoarsening ==
  /\ phase = "tag"
  /\ forest' = [c \in DOMAIN forest |->
                  IF c \in TooCoarse(DOMAIN forest)
                    THEN [forest[c] EXCEPT !.coarsening = NotAllowed]
                    ELSE forest[c]]
  /\ phase' = "coarsen"
  /\ UNCHANGED <<criterion, shares, passes, transfers, trail>>

\* p4est_coarsen_ext, not recursive: families that lie on one rank.
Coarsen ==
  /\ phase = "coarsen"
  /\ LET families == {p \in Families(DOMAIN forest) :
                        ~Cut(p, owner) /\ CoarsenErrorEstimate(forest, Children(p))}
     IN  /\ forest' = CoarsenFamilies(forest, families)
         /\ owner' = Inherited(forest')
         /\ merged' = (merged \cap DOMAIN forest') \cup families
  /\ phase' = "balance"
  /\ UNCHANGED <<criterion, passes, transfers, trail>>

\* p4est_balance_ext with the same replace callback.
Balance ==
  /\ phase = "balance"
  /\ forest' = BalancedForest(forest)
  /\ Carry(forest')
  /\ phase' \in {"partition", "stage"}
  /\ UNCHANGED <<criterion, passes, transfers, trail>>

\* execute_partition: leaves move with their data.
Partition ==
  /\ phase = "partition"
  /\ owner' \in Partitions(DOMAIN forest)
  /\ merged' = {}
  /\ phase' = "stage"
  /\ UNCHANGED <<criterion, forest, passes, transfers, trail>>

\* The stage and accept_center_solution: energy flows between leaves that
\* touch, the same amount in total and in internal energy; then every leaf
\* makes its parts anew.
Flow(donor, receiver) ==
  [c \in DOMAIN forest |->
     LET gain == CASE c = receiver -> Quantum [] c = donor -> -Quantum
                   [] OTHER -> 0
     IN  WithParts(c, [forest[c] EXCEPT !.total = @ + gain,
                                       !.internal = @ + gain])]

Stage ==
  /\ phase = "stage"
  /\ \/ /\ forest' = [c \in DOMAIN forest |-> WithParts(c, forest[c])]
        /\ UNCHANGED transfers
     \/ /\ transfers < MaxTransfers
        /\ \E p \in Flows : \E a, b \in {p[1], p[2]} :
             /\ a # b /\ {a, b} \subseteq DOMAIN forest
             /\ forest[a].total > Quantum /\ forest[a].internal > Quantum
             /\ forest' = Flow(a, b)
        /\ transfers' = transfers + 1
  /\ trail' = Remember(forest')
  /\ phase' = "preprocess"
  /\ UNCHANGED <<criterion, shares, passes>>

Next ==
  \/ PreProcess \/ Unsupported
  \/ Refine \/ TagCoarsening \/ Coarsen \/ Balance \/ Partition
  \/ Stage

Spec == Init /\ [][Next]_vars

-----------------------------------------------------------------------------
(* Properties. *)

Phase == {"preprocess", "refine", "tag", "coarsen", "balance", "partition",
          "stage", "aborted"}

\* Every leaf lies between the two configured levels, whatever the balancing
\* refined, and the leaves cover the square exactly once.
LevelsBounded ==
  /\ \A c \in DOMAIN forest : c.level \in MinLevel..MaxLevel
  /\ Tiling(DOMAIN forest)

TypeOK ==
  /\ criterion \in Criteria
  /\ owner \in [DOMAIN forest -> 0..(NumRanks - 1)]
  /\ merged \subseteq DOMAIN forest
  /\ phase \in Phase
  /\ passes \in 0..MaxPasses /\ transfers \in 0..MaxTransfers
  /\ \A c \in DOMAIN forest :
       /\ forest[c].mass \in Nat \ {0}
       /\ forest[c].total \in Nat /\ forest[c].internal \in Nat
       /\ c.level < MaxLevel => DOMAIN forest[c].parts = 1..4
       /\ forest[c].indicator \in {Unset, 0, 1, 2}
       /\ forest[c].coarsening \in {Unset, Allowed, NotAllowed}
  /\ DOMAIN trail = {"start", "refined"}

\* Gradients, stage and hanging corners only ever see a forest whose touching
\* leaves differ by at most one level, across corners too: their tables know
\* no other neighbour.
BalancedWhenUsed ==
  phase \in {"preprocess", "stage"} => CornerBalanced(DOMAIN forest)

\* One AMR pass changes the level of the mesh at a point by at most one,
\* although a leaf may be refined, coarsened and balanced in the same pass.
OneLevelPerPass ==
  phase = "stage" =>
    \A c \in DOMAIN trail.start, d \in DOMAIN forest :
      Overlap(c, d) => c.level - d.level \in -1..1

\* A leaf that was just refined is not put together again by the coarsening
\* of the same pass: the children carry the gradient that refined the parent.
\* This needs a coarsening threshold that is not above the refining one.
NoFlap ==
  phase = "balance" /\ CoarsenError <= RefineError =>
    (DOMAIN trail.start \ DOMAIN trail.refined) \cap DOMAIN forest = {}

\* The tags keep a family together whose coarsening would leave a gap of three
\* levels: balancing starts from gaps of two.
GapsOfTwo ==
  phase = "balance" =>
    \A c, d \in DOMAIN forest : Touch(c, d) => c.level - d.level <= 2

\* Refining, coarsening and balancing lose no mass, in however many passes, and
\* what a leaf would give its children is its own mass.
Sum(f, get(_)) == SumFunction([c \in DOMAIN f |-> get(f[c])])
MassOf(d) == d.mass
TotalOf(d) == d.total
InternalOf(d) == d.internal
MassConserved ==
  /\ Sum(forest, MassOf) = SumFunction([c \in LevelCells(MinLevel) |-> Mass(c)])
  /\ \A c \in DOMAIN forest :
       c.level < MaxLevel => Sum(forest[c].parts, MassOf) = forest[c].mass

\* The squares that lie in a square.
Within == [c \in Cells |-> {e \in Cells : Overlap(c, e) /\ e.level >= c.level}]

\* Nor do they lose total energy, which the energy check of the pass relies on.
EnergyConserved == Sum(forest, TotalOf) = SumFunction(InitialEnergy)
\* Both, over any number of passes.
Conserved == MassConserved /\ EnergyConserved

\* A family that was coarsened and refined again by the balancing of the same
\* pass has each child's mass and internal energy back, not the average.
RestoredByBalance ==
  phase = "stage" =>
    \A c \in DOMAIN trail.refined :
      LET inside == [d \in Within[c] \cap DOMAIN forest |-> forest[d]]
      IN  DOMAIN inside # {} =>
            /\ Sum(inside, MassOf) = trail.refined[c].mass
            /\ Sum(inside, InternalOf) = trail.refined[c].internal

\* A family that p4est cannot coarsen because it lies on two ranks did not
\* exist at the last repartition, one of its members has been put together
\* since: with a repartition in every AMR pass every rank count coarsens alike.
CutFamiliesAreNew ==
  \A p \in Families(DOMAIN forest) :
    Cut(p, owner) => Children(p) \cap merged # {}

-----------------------------------------------------------------------------
(* A condition on the model's amounts, and nothing the code promises: it   *)
(* has doubles where the model has whole numbers.                          *)

\* At the energies per mass of every leaf, every square inside it has a whole
\* amount: the proofs about sums of energies suppose it.
NothingRounded ==
  \A c \in DOMAIN forest : \A e \in Within[c] :
    /\ (forest[c].total * Mass(e)) % forest[c].mass = 0
    /\ (forest[c].internal * Mass(e)) % forest[c].mass = 0

-----------------------------------------------------------------------------
(* What the repository says and the code does not do. *)

\* diagnostics/state_invariant_checker.h:22-23 (and history/reconstruction.md,
\* line 1000): total energy and internal plus kinetic energy are consistent
\* globally, though not leaf by leaf.
EnergiesAgreeGlobally == Sum(forest, TotalOf) = Sum(forest, InternalOf)

\* param.ini:1-15 and docs/sedov-amr-efficiency-case.md: the default
\* configuration is a run with the Distance criterion.
DistanceRuns == criterion = Distance => phase # "aborted"
=============================================================================
