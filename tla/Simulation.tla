----------------------------- MODULE Simulation -----------------------------
(***************************************************************************)
(* The time-step driver of the hydrodynamics code as every MPI rank runs   *)
(* it: Simulation::advance_time_step and what it calls, down to one action *)
(* per phase (a p4est_iterate pass or a group of purely local passes), per *)
(* ghost exchange and per collective call.                                 *)
(*                                                                         *)
(* Cell data is reduced to the groups of quad_data_t members that some     *)
(* pass reads through a ghost copy.  A rank counts the passes in which it  *)
(* wrote each group on its own leaves.  All ranks run the same program, so *)
(* a copy is what a serial run would read exactly when it carries as many  *)
(* writes as the reader has made itself.                                   *)
(*                                                                         *)
(* A definition named <Name>_<Fault> is <Name> with a bug a programmer     *)
(* could have made; the specification does not use it.  It shows that a    *)
(* property notices.                                                       *)
(***************************************************************************)
EXTENDS Integers, Sequences, FiniteSets, GhostSession, NodalEpoch

CONSTANTS
  Rank,                \* the MPI ranks
  Adjacencies,         \* which pairs of ranks may own touching leaves
  EndTime,             \* end_time, in units of the smallest time step
  MaxTimeStep,         \* max_time_step
  InitialDt,           \* delta_time as configured
  LocalDts,            \* what a rank's cells may ask for as a time step
  EqualDt,             \* equal_dt
  RefinePeriod, RepartitionPeriod, RefineCoarsenTime,
  WriteIntervalStep, WriteIntervalTime,
  RunRiemann,          \* SolverGate::should_run_riemann: plane coordinates
  CheckIdempotence,    \* refresh_idempotence_check_enabled()
  MaxAborts            \* bound: how many calls of abort() are explored

Irreflexive(A) == \A r \in Rank : <<r, r>> \notin A
Symmetric(A) == \A p \in A : <<p[2], p[1]>> \in A

ASSUME RankAssumption == IsFiniteSet(Rank) /\ Rank # {}
ASSUME AdjacencyAssumption ==
  /\ Adjacencies # {}
  /\ \A A \in Adjacencies :
       A \subseteq Rank \X Rank /\ Irreflexive(A) /\ Symmetric(A)
ASSUME ClockAssumption ==
  /\ EndTime \in Nat
  /\ MaxTimeStep \in Nat \ {0}
  /\ InitialDt \in Nat \ {0}
  /\ LocalDts # {} /\ LocalDts \subseteq Nat \ {0}
  /\ RefineCoarsenTime \in Nat
\* A cell asks for no more than some largest time step.
ASSUME LargestDtAssumption ==
  \E d \in LocalDts \cup {InitialDt} : \A e \in LocalDts \cup {InitialDt} : e <= d
ASSUME PeriodAssumption ==
  /\ RefinePeriod \in Nat \ {0} /\ RepartitionPeriod \in Nat \ {0}
  /\ WriteIntervalStep \in Nat \ {0} /\ WriteIntervalTime \in Nat \ {0}
ASSUME SwitchAssumption ==
  /\ EqualDt \in BOOLEAN /\ RunRiemann \in BOOLEAN
  /\ CheckIdempotence \in BOOLEAN /\ MaxAborts \in Nat

VARIABLES
  pc,          \* the call each rank executes next
  posted,      \* ranks inside p4est_ghost_exchange_data
  forest,      \* the distributed forest: its version and who touches whom
  session,     \* each rank's GhostSession
  own,         \* per rank: how often it wrote each group on its own leaves
  ghost,       \* per rank: the copies in its session, by owner
  channel,     \* messages in flight, from each rank to each rank
  stamps,      \* per rank: the epoch stamps its leaves carry
  clock,       \* per rank: its p4est_data_t clock
  localDt,     \* local_dt
  files,       \* per rank: the steps at which it wrote a solution file
  accepted     \* per rank: how many steps it has accepted

layers == <<forest, session, ghost, channel, posted>>
cells == <<own, stamps>>
schedule == <<clock, localDt, files, accepted>>
vars == <<pc, layers, cells, schedule>>

-----------------------------------------------------------------------------
(* Program text: groups, call sites, and what each pass reads remotely.    *)

Group ==
  {"cur",     \* *_cur members, corner coordinates, mass
   "velo",    \* corner velocities _lag and _relaxed
   "byd",     \* boundary codes of the half edges
   "geo",     \* Rcp, Lcp, Ncp of the half edges
   "half",    \* half-time coordinates
   "hang",    \* points[].IsHanging and TwoBouns of hanging corners
   "mcp",     \* corner matrices, right-hand sides, Zcp, delta_u_cp, Uc_cur
   "recon",   \* reconstructed velocity
   "emcp",    \* parent-edge matrices and right-hand sides
   "relx",    \* relaxed coordinates
   "pt"}      \* points[].MatrixP, RHS and boundary TwoBouns

\* The call sites of GhostSession::exchange and the call that follows each.
ExchangeThen ==
  [init_exchange |-> "loop",
   amr_exchange |-> "tag",
   layer_exchange |-> "refresh",
   refresh_exchange |-> IF EqualDt THEN "output" ELSE "predict",
   boundary_exchange |-> "hanging_info",
   hanging_exchange |-> "parent_edge",
   stamp_exchange |-> "validate",
   matrix_exchange |-> "point",
   point_exchange |-> "corner",
   corner_exchange |-> "relaxed",
   relaxed_exchange |-> "hanging_matrix",
   aggregate_exchange |-> "hanging_solve",
   velocity_exchange |-> "force"]

ExchangeSite == DOMAIN ExchangeThen

\* The passes handed session.get(), and the groups they read from copies.
GhostReads ==
  [preprocess |-> {"cur"},
   tag |-> {},
   refresh |-> {"cur", "velo"},
   hanging_info |-> {"geo", "mcp"},
   parent_edge |-> {"hang", "velo", "cur"},
   point |-> {"mcp", "byd", "geo"},
   corner |-> {"byd"},
   hanging_matrix |-> {"mcp", "emcp", "relx", "half", "geo", "recon"},
   hanging_solve |-> {"velo", "pt", "cur"}]

CollectiveSite ==
  {"init_layer", "refine", "amr_layer", "coarsen", "amr_energy", "balance",
   "partition", "layer", "recheck", "reduce_dt", "energy"}

LocalSite ==
  {"loop", "predict", "output", "boundary", "halftime", "geometry",
   "nodal_boundary", "validate", "matrix", "relaxed", "force",
   "conservative", "accept", "finish"}

Stopped == {"done", "aborted", "killed"}

Site ==
  ExchangeSite \cup DOMAIN GhostReads \cup CollectiveSite \cup LocalSite
    \cup Stopped

\* The sites at which the session's layer or copies are used.
SessionSite == ExchangeSite \cup DOMAIN GhostReads

\* The passes with a reachable abort() in a cell's callback.
AbortSite ==
  {"preprocess", "refine", "coarsen", "balance", "predict", "output",
   "halftime", "conservative", "accept"}

Neighbours(r) == {q \in Rank : <<r, q>> \in forest.adjacency}

Version == [Group -> Nat]

Message ==
  [site : ExchangeSite, step : Nat, forest : Nat,
   versions : Version, stamps : SUBSET StageStamp]

Clock == [step : Nat, time : Nat, dt : Nat \ {0}, lastOutput : Int]

TypeOK ==
  /\ pc \in [Rank -> Site]
  /\ posted \in SUBSET Rank
  /\ forest \in [version : Nat, adjacency : Adjacencies]
  /\ session \in [Rank -> Session]
  /\ own \in [Rank -> Version]
  /\ DOMAIN ghost = Rank
  /\ \A r \in Rank :
       /\ DOMAIN ghost[r] \subseteq Rank
       /\ \A q \in DOMAIN ghost[r] : ghost[r][q] \in Message
  /\ channel \in [Rank -> [Rank -> Seq(Message)]]
  /\ stamps \in [Rank -> SUBSET StageStamp]
  /\ clock \in [Rank -> Clock]
  /\ localDt \in [Rank -> Nat \ {0}]
  /\ files \in [Rank -> SUBSET Nat]
  /\ accepted \in [Rank -> Nat]

-----------------------------------------------------------------------------
(* main hands over a balanced, partitioned forest; no rank has a session.  *)

NoWrites == [g \in Group |-> 0]
NoCopies == [q \in {} |-> 0]

Init ==
  /\ pc = [r \in Rank |-> "init_layer"]
  /\ posted = {}
  /\ forest \in [version : {0}, adjacency : Adjacencies]
  /\ session = [r \in Rank |-> Unbuilt]
  /\ own = [r \in Rank |-> NoWrites]
  /\ ghost = [r \in Rank |-> NoCopies]
  /\ channel = [q \in Rank |-> [r \in Rank |-> <<>>]]
  /\ stamps = [r \in Rank |-> {ZeroStamp}]
  /\ clock = [r \in Rank |->
                [step |-> 0, time |-> 0, dt |-> InitialDt, lastOutput |-> -1]]
  /\ localDt = [r \in Rank |-> InitialDt]
  /\ files = [r \in Rank |-> {}]
  /\ accepted = [r \in Rank |-> 0]

Everyone(here) == \A r \in Rank : pc[r] = here

Goto(r, here, there) ==
  /\ pc[r] = here
  /\ pc' = [pc EXCEPT ![r] = there]

EveryoneGoto(here, there) ==
  /\ Everyone(here)
  /\ pc' = [r \in Rank |-> there]

Write(r, groups) ==
  own' = [own EXCEPT ![r] =
            [g \in Group |-> IF g \in groups THEN @[g] + 1 ELSE @[g]]]

\* A pass over a rank's own leaves that writes the given groups.
Pass(r, here, groups, there) ==
  /\ Goto(r, here, there)
  /\ Write(r, groups)
  /\ UNCHANGED <<layers, stamps, schedule>>

InvalidateNodalStamps(r) ==
  stamps' = [stamps EXCEPT ![r] = {InvalidateStamp(s) : s \in @}]

\* `if (!session.empty()) session.exchange();`
IfLayer(r, site) ==
  IF IsEmpty(session[r]) THEN ExchangeThen[site] ELSE site

-----------------------------------------------------------------------------
(* GhostSession::exchange.  p4est_ghost_exchange_data sends the mirrored   *)
(* leaves to every neighbour and then waits for the neighbours' leaves.    *)

MessageFrom(r) ==
  [site |-> pc[r], step |-> clock[r].step, forest |-> session[r].layer,
   versions |-> own[r], stamps |-> stamps[r]]

BeginExchange_Broadcast(r) ==
  /\ pc[r] \in ExchangeSite
  /\ r \notin posted
  /\ posted' = posted \cup {r}
  /\ channel' = [channel EXCEPT ![r] =
                   [q \in Rank |-> Append(@[q], MessageFrom(r))]]
  /\ UNCHANGED <<pc, forest, session, ghost, cells, schedule>>

BeginExchange(r) ==
  /\ pc[r] \in ExchangeSite
  /\ r \notin posted
  /\ posted' = posted \cup {r}
  /\ channel' = [channel EXCEPT ![r] =
                   [q \in Rank |-> IF q \in Neighbours(r)
                                     THEN Append(@[q], MessageFrom(r))
                                     ELSE @[q]]]
  /\ UNCHANGED <<pc, forest, session, ghost, cells, schedule>>

EndExchange(r) ==
  /\ r \in posted
  /\ \A q \in Neighbours(r) : channel[q][r] # <<>>
  /\ posted' = posted \ {r}
  /\ ghost' = [ghost EXCEPT ![r] =
                 [q \in Neighbours(r) |-> Head(channel[q][r])]]
  /\ channel' = [q \in Rank |->
                   [channel[q] EXCEPT ![r] =
                      IF q \in Neighbours(r) THEN Tail(@) ELSE @]]
  /\ pc' = [pc EXCEPT ![r] = ExchangeThen[pc[r]]]
  /\ UNCHANGED <<forest, session, cells, schedule>>

\* GhostSession::initialize: all ranks build the layer of the current forest
\* together (p4est_ghost_new) and go on to the exchange that closes it.
BuildLayer(here, there) ==
  /\ EveryoneGoto(here, there)
  /\ session' = [r \in Rank |-> Built(session[r], forest.version)]
  /\ ghost' = [r \in Rank |-> NoCopies]
  /\ UNCHANGED <<forest, channel, posted, cells, schedule>>

-----------------------------------------------------------------------------
(* The head of the time loop.                                              *)

Due(r, period) ==
  /\ clock[r].step # 0
  /\ clock[r].step % period = 0
  /\ clock[r].time > RefineCoarsenTime

AfterPartition(s) == IF IsEmpty(s) THEN "layer" ELSE "refresh"

AfterAmr(r, s) ==
  IF Due(r, RepartitionPeriod) THEN "partition" ELSE AfterPartition(s)

AfterPreProcess(r) ==
  IF Due(r, RefinePeriod) THEN "refine" ELSE AfterAmr(r, session[r])

FirstLayer == BuildLayer("init_layer", "init_exchange")

\* The loop condition t < end_time fails.
LeaveLoop(r) ==
  /\ clock[r].time >= EndTime
  /\ Goto(r, "loop", "finish")
  /\ UNCHANGED <<layers, cells, schedule>>

BeginStep(r) ==
  /\ clock[r].time < EndTime
  /\ Goto(r, "loop", IF clock[r].step + 1 > MaxTimeStep
                        THEN "finish" ELSE "preprocess")
  /\ clock' = [clock EXCEPT ![r].step = @ + 1]
  /\ UNCHANGED <<layers, cells, localDt, files, accepted>>

\* Gradients and the default refining and coarsening tags.
PreProcess(r) == Pass(r, "preprocess", {}, AfterPreProcess(r))

-----------------------------------------------------------------------------
(* AMRController: passes that change the forest.  New leaves get a zeroed  *)
(* nodal record; every group of a new leaf is new data.                    *)

ChangeForest(adjacency) ==
  /\ forest' = [version |-> forest.version + 1, adjacency |-> adjacency]
  /\ own' = [r \in Rank |-> [g \in Group |-> own[r][g] + 1]]

\* p4est_refine_ext, then the session is invalidated.
Refine ==
  /\ EveryoneGoto("refine", "amr_layer")
  /\ ChangeForest(forest.adjacency)
  /\ stamps' = [r \in Rank |-> stamps[r] \cup {ZeroStamp}]
  /\ session' = [r \in Rank |-> Invalidated(session[r])]
  /\ UNCHANGED <<ghost, channel, posted, schedule>>

RebuildLayer == BuildLayer("amr_layer", "amr_exchange")

\* set_allowing_coarsening_tag
TagCoarsening(r) == Pass(r, "tag", {}, "coarsen")

\* p4est_coarsen_ext; the session is left as it is.
Coarsen ==
  /\ EveryoneGoto("coarsen", "amr_energy")
  /\ ChangeForest(forest.adjacency)
  /\ stamps' = [r \in Rank |-> stamps[r] \cup {ZeroStamp}]
  /\ UNCHANGED <<session, ghost, channel, posted, schedule>>

\* StatTotalEnergyError within the error bound, called by execute_amr.
CheckAmrEnergy ==
  /\ EveryoneGoto("amr_energy", "balance")
  /\ UNCHANGED <<layers, cells, schedule>>

Balance_NoDestroy ==
  /\ Everyone("balance")
  /\ ChangeForest(forest.adjacency)
  /\ session' = [r \in Rank |-> Invalidated(session[r])]
  /\ stamps' = [r \in Rank |->
                  {InvalidateStamp(s) : s \in stamps[r] \cup {ZeroStamp}}]
  /\ pc' = [r \in Rank |-> AfterAmr(r, session'[r])]
  /\ UNCHANGED <<ghost, channel, posted, schedule>>

\* p4est_balance_ext; the session is invalidated and destroyed, and the
\* driver invalidates every nodal stamp.
Balance ==
  /\ Everyone("balance")
  /\ ChangeForest(forest.adjacency)
  /\ session' = [r \in Rank |-> Destroyed(Invalidated(session[r]))]
  /\ ghost' = [r \in Rank |-> NoCopies]
  /\ stamps' = [r \in Rank |->
                  {InvalidateStamp(s) : s \in stamps[r] \cup {ZeroStamp}}]
  /\ pc' = [r \in Rank |-> AfterAmr(r, session'[r])]
  /\ UNCHANGED <<channel, posted, schedule>>

\* execute_partition: leaves move between ranks, so any ranks may touch
\* afterwards; the leaves keep their data.
Partition ==
  /\ Everyone("partition")
  /\ \E A \in Adjacencies :
       forest' = [version |-> forest.version + 1, adjacency |-> A]
  /\ session' = [r \in Rank |-> Destroyed(Invalidated(session[r]))]
  /\ ghost' = [r \in Rank |-> NoCopies]
  /\ stamps' = [r \in Rank |->
                  {InvalidateStamp(s) : s \in UNION {stamps[q] : q \in Rank}}]
  /\ pc' = [r \in Rank |-> AfterPartition(session'[r])]
  /\ UNCHANGED <<own, channel, posted, schedule>>

NewLayer == BuildLayer("layer", "layer_exchange")

\* refresh_after_balance; the stamps are invalidated here and, when a layer
\* was just built, once before with nothing reading them in between.
Refresh(r) ==
  /\ Goto(r, "refresh",
          IF CheckIdempotence THEN "recheck" ELSE "refresh_exchange")
  /\ Write(r, {"cur", "velo", "hang"})
  /\ InvalidateNodalStamps(r)
  /\ UNCHANGED <<layers, schedule>>

\* The second refresh leaves the cells as they are: the reduction succeeds.
RecheckRefresh ==
  /\ EveryoneGoto("recheck", "refresh_exchange")
  /\ UNCHANGED <<layers, cells, schedule>>

-----------------------------------------------------------------------------
(* Time step and output.                                                   *)

PredictTimestep_ZeroStart(r) ==
  /\ Goto(r, "predict", "reduce_dt")
  /\ \E dt \in LocalDts \cup {0} : localDt' = [localDt EXCEPT ![r] = dt]
  /\ UNCHANGED <<layers, cells, clock, files, accepted>>

\* predict_timestep up to its reduction.
PredictTimestep(r) ==
  /\ Goto(r, "predict", "reduce_dt")
  /\ \E dt \in LocalDts : localDt' = [localDt EXCEPT ![r] = dt]
  /\ UNCHANGED <<layers, cells, clock, files, accepted>>

\* The MPI_MIN reduction of local_dt into everyone's delta_time.
ReduceTimestep ==
  /\ EveryoneGoto("reduce_dt", "output")
  /\ \E r \in Rank :
       /\ \A q \in Rank : localDt[r] <= localDt[q]
       /\ clock' = [q \in Rank |-> [clock[q] EXCEPT !.dt = localDt[r]]]
  /\ UNCHANGED <<layers, cells, localDt, files, accepted>>

OnStepInterval(c) == c.step % WriteIntervalStep = 0
OnTimeInterval(c) == c.time \div WriteIntervalTime > c.lastOutput
OnLastStep_Strict(c) == c.time + c.dt > EndTime
OnLastStep(c) == c.time + c.dt >= EndTime

\* Only the second of the three branches records the output index.
WriteFile(r, onLastStep) ==
  LET c == clock[r]
      byTime == ~OnStepInterval(c) /\ OnTimeInterval(c)
  IN  /\ Goto(r, "output", "boundary")
      /\ files' = [files EXCEPT ![r] =
                     IF OnStepInterval(c) \/ OnTimeInterval(c) \/ onLastStep
                       THEN @ \cup {c.step} ELSE @]
      /\ clock' = [clock EXCEPT ![r].lastOutput =
                     IF byTime THEN c.time \div WriteIntervalTime ELSE @]
      /\ UNCHANGED <<layers, cells, localDt, accepted>>

WriteSolution_LocalDt(r) == WriteFile(r, clock[r].time + localDt[r] >= EndTime)

WriteSolution(r) == WriteFile(r, OnLastStep(clock[r]))

-----------------------------------------------------------------------------
(* advance_single_stage: the hydrodynamic stage.                           *)

Boundary(r) == Pass(r, "boundary", {"byd"}, "halftime")
HalfTime(r) == Pass(r, "halftime", {"half"}, "geometry")
CornerGeometry(r) == Pass(r, "geometry", {"geo"}, "nodal_boundary")

\* InvalidateNodalStamps and MirrorNodalBoundary, before the exchange.
NodalBoundary(r) ==
  /\ Goto(r, "nodal_boundary", "boundary_exchange")
  /\ InvalidateNodalStamps(r)
  /\ UNCHANGED <<layers, own, schedule>>

\* Exchange only on ranks that found a hanging corner.
HangingInfo_IfAny(r) ==
  \/ Pass(r, "hanging_info", {"hang"}, IfLayer(r, "hanging_exchange"))
  \/ Pass(r, "hanging_info", {"hang"}, "parent_edge")

\* Get_AMR_BDY_info: reset and find the hanging corners, across an exchange.
HangingInfo(r) ==
  Pass(r, "hanging_info", {"hang"}, IfLayer(r, "hanging_exchange"))

ParentEdge_NoStamp(r) == Pass(r, "parent_edge", {"geo"}, "stamp_exchange")

\* The parent edges, the mirrored geometry and the stamp of this stage.
ParentEdge(r) ==
  /\ Goto(r, "parent_edge", "stamp_exchange")
  /\ Write(r, {"geo"})
  /\ stamps' = [stamps EXCEPT ![r] = {MakeStamp(session[r], clock[r].step)}]
  /\ UNCHANGED <<layers, schedule>>

\* ValidateNodalStamps only warns; then the gate of the Riemann solver.
ValidateStamps(r) ==
  Pass(r, "validate", {}, IF RunRiemann THEN "matrix" ELSE "conservative")

CornerMatrix(r) ==
  Pass(r, "matrix", {"mcp", "recon"}, IfLayer(r, "matrix_exchange"))
PointMatrix(r) == Pass(r, "point", {"pt"}, "point_exchange")
CornerVelocity(r) == Pass(r, "corner", {"velo"}, "corner_exchange")
RelaxedInfo_NoExchange(r) ==
  Pass(r, "relaxed", {"relx", "emcp"}, "hanging_matrix")
\* Exchange only on ranks with a parent edge.
RelaxedInfo_IfAny(r) ==
  \/ Pass(r, "relaxed", {"relx", "emcp"}, IfLayer(r, "relaxed_exchange"))
  \/ Pass(r, "relaxed", {"relx", "emcp"}, "hanging_matrix")
RelaxedInfo(r) ==
  Pass(r, "relaxed", {"relx", "emcp"}, IfLayer(r, "relaxed_exchange"))
HangingMatrix(r) ==
  Pass(r, "hanging_matrix", {"pt", "hang"}, IfLayer(r, "aggregate_exchange"))
HangingSolve_NoExchange(r) == Pass(r, "hanging_solve", {"velo"}, "force")
HangingSolve(r) == Pass(r, "hanging_solve", {"velo"}, "velocity_exchange")
CornerForce(r) == Pass(r, "force", {"recon"}, "conservative")

\* Divergence to sound speed: members no pass reads from a copy.
ConservativeUpdates(r) == Pass(r, "conservative", {}, "energy")

\* StatTotalEnergyError within the error bound.
CheckEnergy ==
  /\ EveryoneGoto("energy", "accept")
  /\ UNCHANGED <<layers, cells, schedule>>

AcceptSolution_LocalDt(r) ==
  /\ Goto(r, "accept", "loop")
  /\ Write(r, {"cur"})
  /\ clock' = [clock EXCEPT ![r].time = @ + localDt[r]]
  /\ accepted' = [accepted EXCEPT ![r] = @ + 1]
  /\ UNCHANGED <<layers, stamps, localDt, files>>

\* AcceptNumericalSolution and the end of the loop body.
AcceptSolution(r) ==
  /\ Goto(r, "accept", "loop")
  /\ Write(r, {"cur"})
  /\ clock' = [clock EXCEPT ![r].time = @ + clock[r].dt]
  /\ accepted' = [accepted EXCEPT ![r] = @ + 1]
  /\ UNCHANGED <<layers, stamps, localDt, files>>

\* write_distance_profiles and destroy().
Finish(r) ==
  /\ Goto(r, "finish", "done")
  /\ session' = [session EXCEPT ![r] = Destroyed(@)]
  /\ ghost' = [ghost EXCEPT ![r] = NoCopies]
  /\ UNCHANGED <<forest, channel, posted, cells, schedule>>

-----------------------------------------------------------------------------
(* Failures.  abort() ends one process; the MPI runtime then ends the job, *)
(* one process at a time.                                                  *)

Aborted == {r \in Rank : pc[r] = "aborted"}

\* A callback on r's cells calls abort().
AbortInPass(r) ==
  /\ Cardinality(Aborted) < MaxAborts
  /\ \E site \in AbortSite : Goto(r, site, "aborted")
  /\ UNCHANGED <<layers, cells, schedule>>

\* A reduction tells every rank that the energy error is too large, or that
\* the second refresh differs from the first.
AbortTogether ==
  /\ MaxAborts > 0
  /\ \E site \in {"amr_energy", "energy", "recheck"} :
       EveryoneGoto(site, "aborted")
  /\ UNCHANGED <<layers, cells, schedule>>

Kill(r) ==
  /\ Aborted # {}
  /\ pc[r] \notin Stopped
  /\ pc' = [pc EXCEPT ![r] = "killed"]
  /\ posted' = posted \ {r}
  /\ UNCHANGED <<forest, session, ghost, channel, cells, schedule>>

Terminated ==
  /\ \A r \in Rank : pc[r] \in Stopped
  /\ UNCHANGED vars

-----------------------------------------------------------------------------

Loop(r) == BeginStep(r) \/ LeaveLoop(r) \/ PreProcess(r) \/ Finish(r)

Adapt(r) == TagCoarsening(r) \/ Refresh(r)

Control(r) == PredictTimestep(r) \/ WriteSolution(r)

Assemble(r) ==
  \/ Boundary(r) \/ HalfTime(r) \/ CornerGeometry(r)
  \/ NodalBoundary(r) \/ HangingInfo(r) \/ ParentEdge(r) \/ ValidateStamps(r)

Solve(r) ==
  \/ CornerMatrix(r) \/ PointMatrix(r) \/ CornerVelocity(r)
  \/ RelaxedInfo(r) \/ HangingMatrix(r) \/ HangingSolve(r) \/ CornerForce(r)

Update(r) == ConservativeUpdates(r) \/ AcceptSolution(r)

Exchange(r) == BeginExchange(r) \/ EndExchange(r)

RankStep(r) ==
  \/ Loop(r) \/ Adapt(r) \/ Control(r)
  \/ Assemble(r) \/ Solve(r) \/ Update(r) \/ Exchange(r)

Collective ==
  \/ FirstLayer \/ Refine \/ RebuildLayer \/ Coarsen \/ CheckAmrEnergy
  \/ Balance \/ Partition \/ NewLayer \/ RecheckRefresh
  \/ ReduceTimestep \/ CheckEnergy

Next ==
  \/ \E r \in Rank : RankStep(r) \/ AbortInPass(r) \/ Kill(r)
  \/ Collective
  \/ AbortTogether
  \/ Terminated

\* Processes run, collectives complete once everyone has arrived, and the
\* runtime ends the job after an abort().  No process has to abort.
Fairness ==
  /\ \A r \in Rank : WF_vars(RankStep(r)) /\ WF_vars(Kill(r))
  /\ WF_vars(Collective)

Spec == Init /\ [][Next]_vars

FairSpec == Spec /\ Fairness

-----------------------------------------------------------------------------
(* Properties.                                                             *)

\* The asserts of GhostSession hold, and hold for the right layer: wherever a
\* pass or an exchange uses the session, it is valid, has its buffers, and
\* its layer is that of the forest as it is now (ghost_session.h 105-138).
SessionUsable ==
  \A r \in Rank :
    pc[r] \in SessionSite => Usable(session[r], forest.version)

Fresh(r, groups) ==
  \A q \in DOMAIN ghost[r], g \in groups :
    ghost[r][q].versions[g] = own[r][g]

\* The passes that run on copies of the step before: see StaleByOneAccept.
EarlySite == {"preprocess", "refresh"}

\* Every pass of the hydrodynamic stage that reads a group from ghost copies
\* finds in them what the owner has written since: an exchange lies between
\* the last write of each group it reads and the read.
StageReadsFresh ==
  \A r \in Rank :
    pc[r] \in DOMAIN GhostReads \ EarlySite =>
      /\ DOMAIN ghost[r] = Neighbours(r)
      /\ Fresh(r, GhostReads[pc[r]])

\* The gradients and the refresh of hanging corners may read copies from
\* before the last accepted solution, never older ones: when the layer was
\* not rebuilt in this step, the copies lag by that one write exactly.
StaleByOneAccept ==
  \A r \in Rank :
    /\ pc[r] = "preprocess" =>
         \A q \in Neighbours(r) :
           own[r]["cur"] - ghost[r][q].versions["cur"]
             = IF accepted[r] = 0 THEN 0 ELSE 1
    /\ pc[r] = "refresh" =>
         /\ Fresh(r, {"velo"})
         /\ \A q \in Neighbours(r) :
              own[r]["cur"] - ghost[r][q].versions["cur"] \in {0, 1}

\* All exchanges of a communicator use one tag, so only the order of the
\* calls pairs a send with its receive: the message a waiting rank takes was
\* sent from the same call, in the same step, over the same forest.
MessagesMatch ==
  \A r \in posted : \A q \in Neighbours(r) :
    channel[q][r] # <<>> =>
      LET m == Head(channel[q][r])
      IN  /\ m.site = pc[r]
          /\ m.step = clock[r].step
          /\ m.forest = session[r].layer

\* A forest operation never starts with an exchange message still in flight,
\* and no neighbour is ever more than one exchange ahead.
ChannelsBounded ==
  /\ \A q, r \in Rank : Len(channel[q][r]) <= 2
  /\ (\A r \in Rank : pc[r] \in CollectiveSite) =>
        \A q, r \in Rank : channel[q][r] = <<>>

\* When a rank validates the stamps it published, its own leaves and every
\* copy it received pass read_guard: all ranks count generations, topology
\* changes and steps alike (hydro_controller.h 466-468).
PublishedStampsAgree ==
  \A r \in Rank : pc[r] = "validate" =>
    \A stamp \in stamps[r] \cup UNION {ghost[r][q].stamps : q \in Neighbours(r)} :
      StampAccepted(stamp, session[r], clock[r].step)

\* The sites at which a nodal record of the current stage may exist.
StampedSite ==
  {"stamp_exchange", "validate", "matrix", "matrix_exchange", "point",
   "point_exchange", "corner", "corner_exchange", "relaxed",
   "relaxed_exchange", "hanging_matrix", "aggregate_exchange",
   "hanging_solve", "velocity_exchange", "force", "conservative", "energy",
   "accept", "loop", "finish"} \cup Stopped

\* No record outlives its stage: before a stage has stamped its leaves no
\* leaf passes the guard, whatever the forest went through since.
OldStampsRejected ==
  \A r \in Rank : pc[r] \notin StampedSite =>
    \A stamp \in stamps[r] : ~StampAccepted(stamp, session[r], clock[r].step)

\* All ranks write the same solution files: two ranks past the output of a
\* step have written the same pieces up to it.
OutputsAgree ==
  \A q, r \in Rank :
    clock[q].step <= clock[r].step =>
      \A n \in 1..(clock[q].step - 1) : n \in files[q] <=> n \in files[r]

\* A run that ends by reaching the end time wrote a file in its last step,
\* with the state that step began with (simulation.h 133-148).
LastStepWritten ==
  \A r \in Rank :
    pc[r] = "done" /\ clock[r].step > 0 /\ clock[r].step <= MaxTimeStep =>
      clock[r].step \in files[r]

\* The sites at which a layer of the current forest is at hand: all but those
\* between a change of the forest and the layer built on it.
LayerSite ==
  Site \ ({"init_layer", "amr_layer", "amr_energy", "balance", "partition",
            "layer"} \cup Stopped)

\* The inductive invariant of Simulation_proofs.
PostedInExchange == \A r \in posted : pc[r] \in ExchangeSite

LayerCurrent ==
  \A r \in Rank :
    pc[r] \in LayerSite => Usable(session[r], forest.version)

LayerInv == TypeOK /\ PostedInExchange /\ LayerCurrent

\* Unless the job fails, every rank leaves the loop; if one process aborts,
\* nobody is left waiting in a call.
Terminates == <>(\A r \in Rank : pc[r] \in Stopped)

LargestLocalDt == CHOOSE d \in LocalDts \cup {InitialDt} :
                    \A e \in LocalDts \cup {InitialDt} : e <= d

Status(r) ==
  CASE pc[r] = "done" -> "done"
    [] pc[r] \in {"aborted", "killed"} -> "failed"
    [] OTHER -> "running"

\* The ranks advance one common clock: the driver implements TimeStepping.
Abstract ==
  INSTANCE TimeStepping WITH
    LargestDt <- LargestLocalDt,
    time <- [r \in Rank |-> clock[r].time],
    status <- [r \in Rank |-> Status(r)]

CommonClock == Abstract!Spec
=============================================================================
