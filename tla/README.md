# A TLA+ model of the Lagrangian AMR hydrodynamics code

The program (`src/src/`) is a two-dimensional Lagrangian hydrodynamics solver on
an adaptive quadtree mesh. It runs under MPI on top of the p4est library: every
rank owns a contiguous piece of the leaves, keeps read-only *ghost* copies of
the leaves that touch its own, and all ranks execute the same time loop. The
numerics are tested by regression against reference solutions. What those
tests hardly reach is the control around the numerics: which copies a pass reads,
which call meets which call on another rank, what survives a change of the
forest. That is what these modules model.

## 1. Inventory

| Component | Source | State | Operations | Interacts with |
|---|---|---|---|---|
| Time-step driver | `simulation/simulation.h` | step, time, time step, last output index (`p4est_data_t`), one `GhostSession` | `advance_time_step` | calls everything below |
| Ghost session | `mesh/ghost_session.h` | layer, buffers, `valid_`, generation, topology version | initialize, rebuild, destroy, invalidate, exchange, get, data, remote | p4est ghost layer; used by every pass that reads neighbours |
| Nodal epoch stamps | `nodal/epoch_*.h`, `nodal/nodal_storage.h` | a stamp per leaf | stamp, invalidate, validate, read_guard | session generation and topology version, step |
| Hydrodynamic stage | `hydro/hydro_controller.h`, `hydro/hydro_callbacks.h`, `solver/*` | members of each leaf (`quad_data_t`) | about twenty passes, thirteen exchanges | ghost session, hanging corners |
| AMR controller | `amr/amr_controller.h` | the forest | refine, rebuild, tag, coarsen, energy check, balance; partition | p4est, ghost session |
| AMR data transfer | `amr/amr_callbacks.h` (`Lagrangian_replace_quads`), `amr/amr_transfer.h` | cell members, children's buffers, coarsening tag | refine one leaf, coarsen a family, refresh of hanging corners | driver, stage |
| AMR criteria | `amr/amr_criteria.h`, `*_policy.h`, `refinement_variable_selector.h` | tags | refine and coarsen estimates, coarsening tag | gradients, configuration |
| Hanging corners | `amr/amr_callbacks.h` 82-228, 687-834, 1078-1205, `hydro_callbacks.h` 580-747, 1102-1290 | `points[]`, parent edges | find hanging corners, aggregate their matrices, solve, split fluxes | three leaves, up to three ranks |
| Time-step prediction | `physics/timestep_reduction.h`, `amr_callbacks.h` 39-79 | `local_dt` | local minimum, reduction | driver |
| Initial state | `main.cpp`, `init/*` | - | forest set-up, initial fields | p4est |
| Output, energy check | `io/*` | files | write_solution, profiles, `StatTotalEnergyError` | driver |
| Kernels | `alg.*`, `physics/*`, `nodal/*`, `hydro/*_kernel.h` | - | corner and hanging-point equations, forces, work, guards on doubles | stage |
| Diagnostics | `diagnostics/*`, `core/trace.h` | - | probes and traces, off by default | driver |
| p4est | `third_party/p4est` | the forest | refine, coarsen, balance, partition, iterate, ghost exchange | everything |

What is hard in this code: ranks that do not touch are not synchronised by an
exchange, so they may be several calls apart; all exchanges look alike on the
wire; a pass placed on the wrong side of an exchange reads old copies, only on
rank boundaries; between a change of the forest and the next layer the session
must not be used; `abort()` of one rank must end all; the clock is computed
redundantly by every rank and decides which collectives are called; refining,
coarsening and balancing in one pass hand conserved quantities from leaf to leaf;
a hanging corner is computed redundantly by up to three ranks from the leaves
around it; momentum, work and energy are three loops that must agree on what
pushes a leaf; a comparison with a NaN is false, and the guards of the code have
both forms.

Correctness, per component:

- *Driver*: all ranks take the same steps with the same time step, write the
  same files, write one in the last step, and stop; one rank's `abort()` does
  not leave the others waiting.
- *Ghost session*: whatever uses the layer uses the layer of the current forest;
  a message is received by the call it was sent for; a pass reads what the owner
  last wrote, but for the two passes at the head of a step.
- *Nodal stamps*: a record is accepted in the stage that wrote it and never later.
- *AMR*: the forest the stage sees is balanced across corners and between the
  configured levels, a pass changes it by one level, and no mass or energy is
  lost when leaves are refined, coarsened and balanced in one pass.
- *Hanging corners*: the three leaves at a hanging point, on up to three ranks,
  compute one velocity and three shares of one force from the same sum.
- *Mesh*: the corners that are one point stay one point, and a hanging corner
  stays in the middle of its edge.
- *Kernels*: forces around every point add up to what a wall gives back, no
  energy is lost, walls hold; a leaf with a double that is no number gets no
  further than the end of the step.

## 2. Plan

The order is that of importance: first what every step goes through, then
what is handed from leaf to leaf, then what leaves around a point have in common.

| Order | Modules | State |
|---|---|---|
| 1 | `GhostSession`, `NodalEpoch`, `Simulation`, with `TimeStepping` as its abstract specification | checked; all its invariants proved, with the refinement |
| 2 | `Quadtree`, `AMRForest`: leaves on several ranks, families cut by a repartition | checked; all its invariants proved, sums of energies as long as nothing is rounded |
| 3 | `PartitionedForest`, `HangingNodes`: who reads what around a hanging point | checked, all its invariants proved |
| 4 | `MeshMotion`: the corners over several steps | checked |
| 5 | `Residues`, `CornerStage`: the numbers of one stage, with boundaries | checked; all its invariants proved, forces and energy as long as nothing is singular |
| 6 | `FloatGuards`: doubles that are no numbers | checked, all its invariants proved |

How modules depend on each other: `Simulation` extends `GhostSession` and
`NodalEpoch` and instantiates `TimeStepping` under a refinement mapping;
`AMRForest` and `PartitionedForest` use `Quadtree`; `HangingNodes`,
`MeshMotion` and `CornerStage` extend `PartitionedForest`, `CornerStage` also
`Residues`; `FloatGuards` stands alone. `Simulation` shows that between two
exchanges a rank works with its own leaves and the copies it received, and that
an exchange pairs the same call on both sides; `HangingNodes` and `MeshMotion`
rest on that and let all ranks run a pass in one step. `HangingNodes` shows which
matrices and velocities every rank uses; `CornerStage` rests on that and has all leaves on
one rank.

What is worth doing next: the boundaries and schemes that `CornerStage` leaves out
(section 8).

## 3. The modules and the code

In every module a definition named `<Name>_<Fault>` is `<Name>` with a bug a
programmer could have made there. No specification uses these; they show
that each property notices a bug.

**`GhostSession`**, `mesh/ghost_session.h`. A session is a record (`present` for
`ghost_` and `data_`, `valid_`, `generation_`, `topology_version_`, and the
version of the forest its layer was built for), each method an operator:
`Destroyed`, `Invalidated`, `Built`. `Usable` is what the asserts
of `get`, `data`, `remote` and `exchange` demand (a release build has none of
them), and that the layer is current.

**`NodalEpoch`**, `nodal/epoch_*.h`. `MakeStamp`, `InvalidateStamp` and
`StampAccepted` (`validate_stamp`). The guard that would reject an old record,
`read_guard`, has no caller in the code: `OldStampsRejected` says it would work.

**`Simulation`**, `simulation/simulation.h` with the controllers it calls. Every
rank has a program counter, one value per pass over its leaves (or group of
passes without an exchange between them), per exchange and per
collective call. A pass is an action of a rank; an exchange is two
(`BeginExchange` sends to all neighbours, `EndExchange` waits for theirs); a
collective (reductions, everything that changes the forest or builds a layer) is
one action of all. The numbers are replaced by counters: the members of
`quad_data_t` form eleven groups, `own` counts how often a rank wrote each, and a
copy carries the counts of its owner at the send. All ranks run the same
program, so a copy is fresh exactly when it carries the reader's own count.
`Adjacencies` is what a forest may look like to the driver: who touches whom.
`forest.version` counts changes of the forest. The memory probe's variants of
exchange and rebuild make the same calls and are not told apart.

**`TimeStepping`** is the promise of the loop with all of that left out: ranks
accept steps of one common clock. `CommonClock` is the statement that
`Simulation` implements it, the clocks and the program counter mapped to times and to
`running`, `done` and `failed`.

**`AMRForest`**, `amr/*`. The leaves and the rank each lies on (`owner`), each with mass, total and
internal energy, gradient indicator, coarsening tag and the children's buffers
(`parts`). The actions are the driver's calls in order: `PreProcess`, `Refine`,
`TagCoarsening`, `Coarsen`, `Balance`, `Partition`, `Stage`; the replace callback is
`RefinedChild` and `CoarsenedParent`. What it abstracts: amounts stand for
densities, the gas moves with one velocity (so kinetic energy is a fixed
amount per mass and left out), the mass in every square is given (the mesh moves with the
gas, and four children have their parent's mass together), energies per mass are rounded
down, and a gradient is steep at given squares, not computed.
The tag pass is modelled by its meaning, a leaf more than one level below a
neighbour. `p4est_coarsen_ext` looks only at families on one rank (`Cut`). The
distance criterion ends in the variable selector's abort (`Unsupported`), so its
branches are never reached. Aborts for a non-positive energy are left out, and so is
`CoarsenedJustNow`, which nothing reads.

**`Quadtree`, `PartitionedForest`**. Squares of a quadtree, which touch and where;
forests, their hanging edges, the table of
`get_hanging_edge_info_from_logical_position`, and partitions: contiguous
shares in z-order that part no family of four leaves, as
`p4est_partition_ext(..., 1, ...)` makes them.

**`HangingNodes`**, the passes of one stage that concern corners, from
`CalculateCornerRcpLcpNcp` to the hanging solver. A pass is one step in which every
rank writes its own leaves from what it sees: its own leaves and the copies of
the last exchange. A matrix is the set of contributions added up in it, a
velocity is what it was solved from, and lengths are in quarters of a smallest
square, so that a
property can say *which* matrices a force was made from. A new leaf's unwritten flags
hold an arbitrary value. `quadid`s are modelled as the code uses them: an index
among a rank's leaves, or among its ghosts. Left out: the total energies that
weight the three shares (no pass of the solver writes them),
`unconstrained_master_corner`, which nothing reads, and corners on the boundary.

**`MeshMotion`**, the coordinates over several steps: how refining and coarsening
hand corners over, how `quadrant_update_after_balance` puts a hanging corner
back, how the stage moves them, and when copies are sent. A place is a
displacement along one axis (all means are linear, so the grid and the other axis
add nothing); leaves are convex, so that the centre is the average of the
corners; a time step has length one; the velocity of a regular point is any given
function of the point. Volumes, densities and pressures that the refresh
recomputes are left out.

**`Residues`, `CornerStage`**. One stage of the solver in numbers, from `GetBoundary` to
`Accept`, each pass as the loop over leaves or points it is: boundary codes of half edges,
corner matrices of both solvers, the sum at each point and its two boundary halves, the
velocities under walls and free boundaries, parent edges, the hanging point's constraint and
its shares, forces, new places, density, momentum, work and energies, and the mirrored nodal
records next to them. Doubles are residues of a prime: sums, products and quotients are
exact, so an identity of real numbers holds here, and what is no identity fails but for one
number in 46337. Residues have no order: absolute values and lengths off the axes are only
taken where they are known, which is why the mesh starts as the undeformed grid.

**`FloatGuards`**. Every double is replaced by its class (at most zero, at most `m_eps`,
larger, infinite, NaN), the arithmetic by the classes a result may have, and every guard of a
step by its comparison, in the order the passes run. The solver may return anything.

**Proof modules**: `Simulation_proofs`, `FloatGuards_proofs`, `Quadtree_proofs`,
`AMRForest_proofs`, `PartitionedForest_proofs`, `HangingNodes_proofs`, `CornerStage_proofs`,
`CornerStage_balance_proofs` (section 6).

## 4. The runs

| Run | Instance | What it shows |
|---|---|---|
| `steps` | 2 ranks, 5 units of time, local time steps 1 or 2, AMR every 2nd and repartition every 4th step, files by step, time and last step, one abort in any pass or a joint one after a reduction; fairness | `CommonClock` with its liveness, `OutputsAgree`, `LastStepWritten`; everybody stops, aborts included |
| `ghosts` | 3 ranks in a chain, 4 steps, AMR in step 3, repartition in step 4, second refresh on | the layer is current where it is used, stage passes read fresh copies, the early passes copies one accept old at most, messages match, stamps are accepted in their stage only |
| `forest` | levels 1 to 4 on 2 ranks, 4 passes, three places for steep gradients or none, a repartition after any pass, 1 transfer of energy, the density gradient and the distance criterion | balance, level bounds, one level per pass, no leaf refined and coarsened again, gaps of two before balancing, mass and energy conserved, families restored by balancing, only new families are cut |
| `forest_energies` | levels 1 to 3, 5 passes, 1 transfer | finding 1 |
| `forest_distance` | the shipped criterion | finding 2 |
| `hanging_stages` | all 16 forests of two levels, 3 ranks, all partitions with borders at most 3 leaves from even, 2 stages, 1 change between them | velocities and forces around every point fit, edges are covered, flags are set where edges hang |
| `hanging_quadid` | one forest of 16 leaves and three levels, 3 ranks | finding 3 |
| `mesh_steady` | all 16 forests of two levels, 2 ranks, 5 velocity fields, 4 steps, 3 changes | corners meet and hang in the middle while the field does not change |
| `mesh_coarsened` | 1 rank, one change of forest, one of field | finding 4 |
| `mesh_split` | the forest of 16 leaves, 3 ranks, no AMR | finding 5 |
| `stage` | all 16 forests of two levels and the one of 16 leaves, three problems, both solvers | two boundary halves per boundary point, walls hold, forces meet, the mesh stays whole, energy is kept and is internal plus kinetic, mirrored records match, nothing the solver divides by is zero (the hypothesis of two theorems) |
| `guards` | 2 leaves, solver results of any class, with and without prediction, any number of steps | no leaf with a NaN or an infinite energy is accepted, none is predicted from, an infinite density never reaches the solver |

Why the bounds are enough. The driver does the same in every step but for AMR,
repartition and output; four or five steps contain a step with each of them,
one with none, and one after each. What a rank waits for comes from neighbours
or from everyone, so two ranks meet all pairs of calls, and the chain of three adds
ranks that do not touch and therefore drift apart. An abort in a second process only
removes one more; the proofs (section 6) have no such bounds. In `AMRForest` level 4 gives room for what balancing can do
beyond a neighbour: gaps of two levels that spread over one leaf. In `HangingNodes`
everything stale is one stage old, so two stages show it, and three ranks give each leaf
at a hanging point its own. `MeshMotion` needs a step to move, one to change and one to
be refreshed; three changes contain refining, coarsening and repartition in any order.
`CornerStage` needs one stage, every kind of point (inside, on a wall, on a free boundary, in
each kind of corner of the domain, hanging on each face) and both solvers; the forests have
them all. A leaf of `FloatGuards` meets another only in the two reductions, where one that is
a NaN can hide one that is infinite: two leaves.

`TypeOK` is stated for the modules it tells something of; `steps` checks it, and for `AMRForest`,
`FloatGuards` and `CornerStage`, where it is part of the inductive invariant, the proofs do. In the others the
passes assign whole functions.

Runs that may stop (`MaxPasses`, `MaxStages`, `MaxSteps` are reached, the stage has ended, the
job was aborted) say `CHECK_DEADLOCK FALSE`. In `steps` and `ghosts` deadlock is checked:
a rank waiting in an exchange or a reduction for ever would be reported, and the only
idle step is `Terminated`, when all ranks have stopped.

## 5. Fairness

`FairSpec` asks for weak fairness of each rank's next step, of the collectives
and of `Kill`. A rank is a process the operating system runs; a blocking receive returns
once the message is there; a collective returns once all ranks have called it;
`mpirun` ends the job after the abort of one process. No fairness is asked of
`AbortInPass` and `AbortTogether`: nothing has to fail. The other modules state safety
only and have no fairness.

## 6. What is proved

Checked by TLAPS from the `ASSUME`s of the modules and no other, except for the three hypotheses named below
(`NothingSkipped`, `NothingRounded`, `NothingSingular`). For `Simulation` that is any finite non-empty
set of ranks, any adjacencies, periods, intervals, time steps, switches and number of aborts; for
the forests any depth, number of ranks, masses, thresholds and passes. One assumption of
`Simulation`, `LargestDtAssumption`, says that the time steps cells may ask for have a largest
(`TimeStepping` needs a bound); it is true of every finite set.

`Simulation_proofs`: `LayerInvariant`, `TypeCorrect`, `SessionAlwaysUsable`: no pass and no
exchange ever uses a session that is empty, invalidated, or built for an earlier forest.
`SessionUsable` by itself is not inductive: it says nothing of the session at the passes
between two uses. The invariant is
`LayerInv == TypeOK /\ PostedInExchange /\ LayerCurrent`. `LayerCurrent` says that
the layer is current at every call but those between a change of the forest and the
next layer, `PostedInExchange` that a rank waiting for messages is at an
exchange site. A pass keeps session and forest and leads from a site of `LayerSite` to another;
`BuildLayer` makes the layer current; `Balance` and `Partition` leave the session empty, and an
empty session is what sends the driver to `layer`; `Refine` and `Coarsen` are
followed only by sites outside `LayerSite`.

Also there: `OldRecordsRejected` (`OldStampsRejected`). A valid stamp is never
younger than its rank's step, and strictly older until the stage stamps (`StampInv`). The step
number alone carries it; generation and topology version of a stamp may well be the session's.

And `ClockInvariant`, `FilesAgree` (`OutputsAgree`),
`LastStepIsWritten`, `ImplementsTimeStepping`. Nobody compares clocks; they agree because the
energy check is a reduction. A rank is an accepted step ahead of another only while that
one is about to accept the same step, or has failed (`InStep`), and the reduced time step is
still in both clocks then. Output decisions have a position of their own (`Decided`): a rank that
has written is one decision ahead, and what it decided is a function of a clock the other still
has (`SameOutput`). The refinement theorem is the safety half of `CommonClock`: `Accept`,
`Finish` and the failures map to the actions of `TimeStepping`, every other step to a stutter.

Also there: `PathInvariant`, `EveryMessageMatches` (`MessagesMatch`),
`ChannelsStayBounded` (`ChannelsBounded`). Nothing in a message names the call it is for. What
pairs them is that, between two collectives, every rank follows the same path, and the path is
fixed by the step and the time, which `ClockInv` makes common. `StopAt` is the next exchange or
collective from a site, `LeftFrom` how often each group is still written up to the next
collective; both restate the program's control flow, and the lemmas `AssembleLegs`,
`SolveLegs`, `ControlLegs`, `HeadLegs` and `ExchangeLegs` check them against the actions.
`PathInv` says of two neighbours that they are at the same stop next (`Abreast`), or that one
waits for the rest of its neighbours while the other is at the next stop already (`Leads`); the
channel between them is exactly what the one has sent and the other not taken. A message is
`Good` when its step, forest and stamps are the receiver's and its writes, with those left on the
path, make up the receiver's total. A rank that fails leaves its messages; `Room` bounds
what its neighbours may still add. At a collective nobody waits, so every channel is empty and
all ranks have written equally often (`Gathered`), and the invariant starts afresh.

On the same paths: `CopiesInvariant`, `StageAlwaysReadsFresh` (`StageReadsFresh`),
`StaleByOneAcceptOnly` (`StaleByOneAccept`), `PublishedStampsAccepted`
(`PublishedStampsAgree`). Sender and receiver of a `Good` message are at the same call, so the
writes left to both are the same and the copies lag by nothing (`EndCopies`); `CopiesInv`
follows `Lag` through the passes up to the next exchange.

`FloatGuards_proofs`, for any set of leaves: `GuardInvariant`, `ClassesCorrect`,
`AcceptedLeavesUsable`, `PredictionSafe`, `SolverSafe`. The properties speak of the start of a
step; `GuardInv` carries what each pass leaves for the check that stops it: from the places to
the density (`Placed`) and from forces through work to both energies (`Heated`).

`Quadtree_proofs`, for squares of any depth: the four children fill their parent and nothing
else, two squares overlap only when one is inside the other, splitting a leaf or joining a
family leaves a tiling (`SplitTiling`, `JoinTiling`), and in z-order a square's leaves are
contiguous (`ZOrderInside`). The squares' sides and the z-order are recursive functions; that
they satisfy their equations, and what they grow like, goes by induction over sets of numbers
(`LeastNumber`, `SetInduction`), as no installed prover can instantiate an induction
theorem. The folds of the community modules are recursive functions too: at the end of
this module `SumOver` is the sum over a finite set, element by element, which `AMRForest_proofs` and
`CornerStage_proofs` both use.

`AMRForest_proofs`: `Invariance`, `Types` (`TypeOK`), `LevelBounds` (`LevelsBounded`), `Balanced`
(`BalancedWhenUsed`), `OneLevel` (`OneLevelPerPass`), `NoFlapping` (`NoFlap`), `Gaps`
(`GapsOfTwo`), `CutFamilies` (`CutFamiliesAreNew`), `MassIsConserved`, `EnergyIsConserved` and
`Conservation` (`Conserved`), `FamiliesRestored` (`RestoredByBalance`),
`ChildrenRestored`. The invariant of all but the three sums is
`Inv == DataInv /\ ShapeInv /\ PassInv /\ NoFlap /\ CutFamiliesAreNew`. `ShapeInv` says that the
leaves tile the square between the levels, with gaps of at most one level before a pass, two
in it; `PassInv` says how far the forest has moved from the one before the pass
and what balancing may rely on. Balancing starts from gaps of two. In every round the leaves refined
are old (`TooCoarseIsOld`: no leaf is split twice, which is why a pass changes the level by one at most),
and after round `i` the smaller leaf of a gap of two is `i` levels or more above the deepest; after
`2 * MaxLevel` rounds there is no such level. A repartition moves each border to a place that
is not inside a family; families are contiguous in z-order, so all four leaves count the same
borders before them (`PartitionCutsNoFamily`), and whatever family is cut later has a member
that was coarsened to. By `ChildrenRestored`, for every leaf of the forest after refining that is a leaf again
at the stage, mass and internal energy are what they were: what a coarsening keeps in the
parent's parts comes back bit by bit, without a rounding.

The sums. That every leaf holds the mass of its square is part of `Inv`; `MassOfForest` says that
then every forest between the levels holds the same mass. A counterexample with the fewest leaves is
not the first forest, so it has a deepest family, and joining that gives a smaller one. For the
energies the path counts. `PartsInv` says whose energy the stored parts divide: each leaf's own before a
pass, and after the refinement (`Divided`) that of the leaf the pass had refined to, which a family's
members still are shares of. The shares of a whole amount add up (`Share`, `SharesOfLeaf`), so
`RefinedEnergy`, `CoarsenedEnergy` and `BalancedEnergy`, by rounds, keep the sum, and a leaf that is cut up at the
stage is exactly its own four shares (`RefinedWhole`). *Whole* is a hypothesis: the model's
amounts are whole numbers and an energy per mass is rounded down where it is handed on, so
`EnergyIsConserved` and `FamiliesRestored` are `Spec /\ []NothingRounded => ...`. `NothingRounded` is a condition
on the model's numbers and says nothing of the program, so no run has it as a property. The run `forest` checks
`Conserved` and `RestoredByBalance` without it: its masses and energies are chosen so that every division is exact,
and a remainder lost on the way would show in the sums. For other amounts both sums
are off by the remainders, where the code's doubles are off by units in the last place, and the
tolerance of the energy check is there for that.

`PartitionedForest_proofs`, `HangingNodes_proofs`, for any balanced forests and any partitions: `EdgesFit`
(`HangingEdgesFit`), `Constrained` (`ConstrainedWhereHanging`), `CornersAgree`
(`SharedCornersAgree`), and `BordersCovered`, `HangingSumsAgree`, `ForcesCancel` (`EdgesCovered`,
`OneSumPerHangingPoint`, `HangingForcesCancel`) under `NothingSkipped`: no rank takes the two
children of a hanging edge for one leaf because their `quadid`s are equal. Without it they are
false; that is finding 3, and the run `hanging_stages` holds them because its forests have
no such pair. `WholeOffBorders` has the hypothesis in terms of the partition (both children of every hanging
edge on one rank), and `WholeOnOneRank` drops it for a single rank. In `Inv` every pass has a
conjunct that holds from its phase on (`From`): the copies equal the owners' data after
every exchange; flags of a forest before or never written are arbitrary until the pass that
clears them. That the sum at a corner is complete (`SumIsWhole`) rests on `HeldTouch`: leaves
that share a corner touch, so a rank that owns one has the others in its layer.

`CornerStage_proofs`, for any balanced forests, boundaries, gases, time steps and both solvers:
`Typing` (`TypeOK`), `TwoHalvesAlways` (`TwoHalvesAtBoundary`), `WallsAlwaysHold` (`WallsHold`),
`MastersAlwaysMatch` (`MastersMatch`), `EnergiesAlwaysAddUp` (`EnergiesAddUp`),
`MeshAlwaysWhole` (`MeshStaysWhole`), and in `CornerStage_balance_proofs`, under `NothingSingular`,
`ForcesAlwaysMeet` (`ForcesMeet`) and `EnergyAlwaysKept` (`EnergyKept`).
The invariant is `IInv == TypeOK /\ HalvesInv /\ BounsInv /\ WallInv`. Types alone are not inductive:
the solver takes the first two boundary halves of a point and would take them from an empty list
at a point that has none. `HalvesInv` says what each half edge is once the geometry is known (its
face's boundary, its face's normal, half of the side's length, or of half the side where the edge
is divided); the edge of a parent has the children's halves from the other side. From it
comes `TwoHalvesAtBoundary`: a point of the boundary is the end of two faces at the border,
the two along one side or one of each at a corner of the domain (`TwoMeet`), and for each there is
exactly one leaf (`BorderLeaf`, `OneBorderLeaf`), since the leaves tile the square. `BounsInv` keeps what was
recorded at the point, two halves in z-order, until the solver uses them, and `WallInv`
is what it makes of them: `AlongWall` leaves nothing across the wall, and two walls that
meet at a corner leave nothing at all. No hanging corner is on the boundary (`HangingInside`).

`MirrorInv` carries the local masters from the pass that writes them, before the solver, to the corner
matrices: the first segment of a face that is not divided is twice its low half, each end has half of
it, and the two faces at a corner are the faces of its two halves (`FacesOfCorner`).
`EnergyInv` says that until the cells are updated the velocity and both energies of the stage are those it
began with. That is what the sum of energies needs: the kinetic energy grows by the force times the mean
of the old and the new velocity only if the old one is also the one at half time (`UpdatedAddsUp`).

`PlaceInv` is what keeps the mesh whole. No corner moves before the new coordinates, so that points are places;
the sums at a point do not tell the corners there apart (`OneEquation`), so regular corners at one point are solved to
one velocity; a leaf with a corner at a hanging point is one of the two that hang there (`CornerAtMiddle`: any other
would overlap one of the three leaves), so the hanging ones get the velocity of the middle of one edge. Then corners
that met are still in one place (`Joined`) and a hanging corner is in the middle of its edge (`Middles`).
From these two, `WholeMesh`: a leaf's volume is what its four faces sweep (`VolumesAre`), and
every face is on the boundary, or has leaves of its own size, of smaller ones or of a larger one across (`FacesSorted`).
Two leaves of a size sweep opposite amounts along their edge (`EqualSum`); of the three leaves at a hanging edge the
parent sweeps what both children do, because there is no area between two places and the middle between them
(`MiddleTurns`, `HangingSum`). What is left is the boundary.

`ForcesAlwaysMeet` and `EnergyAlwaysKept` are `Spec /\ []NothingSingular => ...`: the solver divides by no zero
determinant, at no wall that does not yield, and by no zero sum of three energies. Of real numbers with positive densities,
sound speeds and lengths all three are positive; residues have no order, so it has to be said, and the run `stage` has it as
an invariant of the numbers it uses. Where it fails the code does what the model does: `MatrixInverse` returns zero, the velocity
is zero, and the forces do not meet.

The forces. The velocity of a regular point solves the sum of the equations there, but for what a wall
takes (`AlongWallSolves`, `WallPressure`); the force of a corner is its equation's right side less its matrix times the velocity,
so the forces at a point are what the solver left, which is nothing. At a hanging point the velocity is given and
something is left; the shares of parent and children are all of it, because the three add up to one.
`ForceInv` carries this from pass to pass: which equation each corner and edge has stated, that a regular corner has no flux, and that
points, then hanging points, meet.

The energy. `KeptInv` holds that corners and edges at a point have one velocity until the cells are updated, that a
wall holds its component, and that the forces meet: so a point does no work (`NoWorkAtPoint`). The work of a leaf is the sum over its
corners and divided edges, and a sum by leaves is the sum by points (`SumByGroups`, `TwoSumsByGroups`). A leaf
loses its work over its mass (`WorkTakesEnergy`), and its mass is never zero in the residues, being a power of two times a
density (`MassInv`), so no share of the work is lost in the quotient (`MassCancels`).

Residues are computed with by congruence (`Congruent`, closed under sums, products and halves), never by
expanding `%`. That every residue but zero has a reciprocal is `ReciprocalAssumption`, which TLC evaluates for
all of them in the run `stage`; the proofs use it for the type of
every quotient, and its second half for `Half`, inverses, shares and masses. `QuartersAssumption`
(`Depth > 0`) is what the problems' four gases ask for.

Only model-checked:

- liveness (`Terminates`, the fairness of `CommonClock`), outside the prover's reach;
- `MeshMotion`: its means are rounded down, and exact for the displacements of the runs;
- the hypothesis `NothingSingular`, an invariant of the run `stage`; `NothingSkipped` and `NothingRounded` are not
  true of all instances either, and the runs `hanging_stages` and `forest` check without them, on instances that
  satisfy them, what the theorems say under them.

## 7. Where the code does not do what the repository says

1. *Two energies drift apart* (`forest_energies`). Balancing gives a child its own
   internal energy and the average total energy; if the child is refined and
   coarsened later, the internal energy becomes total minus kinetic, and the sums
   over all leaves differ from then on. `state_invariant_checker.h:22` says they agree globally.
2. *The shipped configuration stops in its first step* (`forest_distance`). `param.ini`
   chooses the distance criterion; `refinement_variable_ids` aborts for it, as for three
   other criteria the configuration accepts.
3. *Equal quadids of different arrays* (`hanging_quadid`). The passes over hanging
   edges skip a pair of children with equal `quadid`, but one may be an index among the rank's
   leaves and the other among its ghosts. The solver serves the pair nevertheless, with
   matrices of an earlier stage.
4. *A hanging corner off the middle stays there* (`mesh_coarsened`). The refresh
   compares velocities only; `dist1` and `dist2` are computed and not used.
5. *Siblings on two ranks part* (`mesh_split`). In a step without AMR or repartition
   the refresh compares a remote sibling's velocity from before the last accept, finds
   a difference that is not there, and puts its own child's corner where the edge was a step ago.
   Configurations with `refine_period = 1`, like the benchmark, rebuild the layer in every step and do not see it.

Seen while reading, not worth a run:

- `PreProcess` and the refresh read copies from before the last accepted solution, while
  `history/communication_audit.md:92` says every such phase has its exchange.
  `StaleByOneAccept` bounds the lag: one accept, never more. The criteria may therefore decide
  otherwise on two ranks than on one, and the refresh comes to finding 5.
- The coarsening tags are set by a pass over the faces of a forest that is not balanced yet, for
  which `p4est_iterate.h:136` promises no callback.
- `courant_time_step` (`physics_alg.h:96-98`) takes a step below 1e-12 for no limit, and the
  factor is 0.25 in the code, 0.2 in `docs/math_formulation.md:452`, and `m_cfl` in the
  configuration, which nothing reads.
- The energy check (`io_callbacks.h:533`) and the energy update (`<= eps`) let a NaN pass; the
  comparisons at the end of the step stop it (`AcceptedIsUsable`). A leaf without volume is
  accepted with an infinite density and stops the next step (`SolverSeesNumbers`).
- The record of a hanging face (`FaceData`) holds only the two halves the parent was cut to, so
  `verify_cell_closure` would fail there, which `docs/nodal-refactor-execution-taskbook.md:236`
  asks for; only tests of the Python side call it.
- `CornerSolve` has no branch for a free boundary and an oblique wall and leaves the velocity zero.
- A child restored by balancing keeps the coarse parent's pressure and sound speed until
  the next stage.

## 8. What is not modelled

- In the stage: circle centre, polar, symmetry, pressure and velocity boundaries, oblique
  walls, the cylinder and the area-weighted scheme, moving boundary corners, deformed meshes
  (lengths and absolute areas have no order in `Residues`), the sound speed after the stage.
  The kernels `solve2x2` and `condensation` have no caller but tests.
- Rounding, overflow of sums and products, concave leaves, integrated centroids.
- In the AMR transfer: geometry (`MeshMotion` has the corners) and densities.
- The contents of output files, the fields of all nine problems but the three
  `CornerStage` starts from.
- Diagnostics and traces: off by default and without effect on the state.
- p4est and libsc (`src/include`, `src/third_party`): vendored; modelled only as the driver
  uses them. They make up about half of the lines a map could name.
- The Python tools and tests.

PROJECT.json lists every component with its status.
