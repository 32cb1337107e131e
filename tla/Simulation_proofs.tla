------------------------- MODULE Simulation_proofs -------------------------
(***************************************************************************)
(* Simulation: for any set of ranks, any partition of the forest and any   *)
(* periods, the state is well typed, the ghost session is never used with  *)
(* a layer of an older forest, the ranks advance one clock, and every      *)
(* message is received by the call it was sent for.                        *)
(*                                                                         *)
(* SessionUsable is not inductive: the step that reaches an exchange says  *)
(* nothing of the session.  LayerCurrent states the same of every call     *)
(* that is not between a change of the forest and the next layer, and      *)
(* PostedInExchange that a rank waiting for messages is at an exchange.    *)
(***************************************************************************)
EXTENDS Simulation, SequenceTheorems, TLAPS

-----------------------------------------------------------------------------
(* The program text.                                                       *)

LEMMA SiteFacts ==
  /\ ExchangeSite \subseteq Site
  /\ SessionSite \subseteq LayerSite
  /\ Stopped \subseteq Site
  /\ \A site \in ExchangeSite :
       ExchangeThen[site] \in LayerSite /\ site \in LayerSite
BY DEF ExchangeSite, ExchangeThen, SessionSite, Site, GhostReads,
       CollectiveSite, LocalSite, Stopped, LayerSite

LEMMA AfterFacts ==
  ASSUME NEW r \in Rank, NEW s
  PROVE  /\ AfterPartition(s) \in Site
         /\ AfterAmr(r, s) \in Site
         /\ AfterPreProcess(r) \in Site
         /\ IsEmpty(s) => AfterPartition(s) \notin LayerSite
         /\ IsEmpty(s) => AfterAmr(r, s) \notin LayerSite
BY DEF AfterPartition, AfterAmr, AfterPreProcess, Site, GhostReads,
       CollectiveSite, LayerSite

LEMMA IfLayerSite ==
  ASSUME NEW r \in Rank, NEW site \in ExchangeSite
  PROVE  IfLayer(r, site) \in LayerSite /\ IfLayer(r, site) \in Site
BY SiteFacts DEF IfLayer, LayerSite

-----------------------------------------------------------------------------
(* The operators of GhostSession and NodalEpoch keep their types.          *)

LEMMA SessionType ==
  ASSUME NEW s \in Session, NEW version \in Nat
  PROVE  /\ Destroyed(s) \in Session
         /\ Invalidated(s) \in Session
         /\ Built(s, version) \in Session
         /\ IsEmpty(Destroyed(s))
         /\ Usable(Built(s, version), version)
<1>1. Destroyed(s) \in Session /\ IsEmpty(Destroyed(s))
  BY DEF Session, Destroyed, IsEmpty
<1>2. Invalidated(s) \in Session
  <2> DEFINE n == s.topologyVersion + 1
  <2>1. n \in Nat
    BY DEF Session
  <2> HIDE DEF n
  <2>2. [s EXCEPT !.valid = FALSE, !.topologyVersion = n] \in Session
    BY <2>1 DEF Session
  <2> QED
    BY <2>2 DEF Invalidated, n
<1>3. /\ Built(s, version) \in Session
      /\ Usable(Built(s, version), version)
  <2> DEFINE d == Destroyed(s)
             n == d.generation + 1
             b == [d EXCEPT !.present = TRUE, !.valid = TRUE,
                            !.generation = n, !.layer = version]
  <2>1. d \in Session /\ n \in Nat
    BY <1>1 DEF Session
  <2>2. Built(s, version) = b
    BY DEF Built
  <2> HIDE DEF d, n
  <2>3. b \in Session
    BY <2>1 DEF Session
  <2>4. Usable(b, version)
    BY <2>1 DEF Session, Usable
  <2> QED
    BY <2>2, <2>3, <2>4
<1> QED
  BY <1>1, <1>2, <1>3

LEMMA StampType ==
  /\ ZeroStamp \in StageStamp
  /\ \A stamp \in StageStamp : InvalidateStamp(stamp) \in StageStamp
  /\ \A s \in Session, step \in Nat : MakeStamp(s, step) \in StageStamp
BY DEF ZeroStamp, StageStamp, InvalidateStamp, MakeStamp, Session

LEMMA ClockType ==
  ASSUME NEW c \in Clock
  PROVE  /\ \A n \in Nat : /\ [c EXCEPT !.step = n] \in Clock
                          /\ [c EXCEPT !.time = n] \in Clock
         /\ \A n \in Nat \ {0} : [c EXCEPT !.dt = n] \in Clock
         /\ \A i \in Int : [c EXCEPT !.lastOutput = i] \in Clock
BY DEF Clock

LEMMA ClockFields ==
  ASSUME TypeOK, NEW r \in Rank
  PROVE  /\ clock[r] \in Clock
         /\ clock[r].step \in Nat
         /\ clock[r].time \in Nat
         /\ clock[r].dt \in Nat
         /\ clock[r].lastOutput \in Int
BY DEF TypeOK, Clock

-----------------------------------------------------------------------------
(* Helpers of the actions.                                                 *)

LEMMA WriteType ==
  ASSUME TypeOK, NEW r \in Rank, NEW groups, Write(r, groups)
  PROVE  own' \in [Rank -> Version]
BY DEF TypeOK, Write, Version

LEMMA InvalidateType ==
  ASSUME TypeOK, NEW r \in Rank, InvalidateNodalStamps(r)
  PROVE  stamps' \in [Rank -> SUBSET StageStamp]
BY StampType DEF TypeOK, InvalidateNodalStamps

LEMMA PassType ==
  ASSUME TypeOK, NEW r \in Rank, NEW here, NEW groups, NEW there \in Site,
         Pass(r, here, groups, there)
  PROVE  TypeOK'
<1>1. own' \in [Rank -> Version]
  BY WriteType DEF Pass
<1>2. pc' \in [Rank -> Site]
  BY DEF Pass, Goto, TypeOK
<1> QED
  BY <1>1, <1>2 DEF Pass, TypeOK, layers, schedule

LEMMA BuildLayerType ==
  ASSUME TypeOK, NEW here, NEW there \in Site, BuildLayer(here, there)
  PROVE  TypeOK'
<1>1. session' \in [Rank -> Session]
  BY SessionType DEF TypeOK, BuildLayer
<1>2. pc' \in [Rank -> Site]
  BY DEF BuildLayer, EveryoneGoto
<1>3. /\ DOMAIN ghost' = Rank
      /\ \A r \in Rank : DOMAIN ghost'[r] = {}
  BY DEF BuildLayer, NoCopies
<1> QED
  BY <1>1, <1>2, <1>3 DEF BuildLayer, TypeOK, cells, schedule

LEMMA ChangeForestType ==
  ASSUME TypeOK, NEW adjacency \in Adjacencies, ChangeForest(adjacency)
  PROVE  /\ forest' \in [version : Nat, adjacency : Adjacencies]
         /\ own' \in [Rank -> Version]
BY DEF TypeOK, ChangeForest, Version

LEMMA MessageFromType ==
  ASSUME TypeOK, NEW r \in Rank, pc[r] \in ExchangeSite
  PROVE  MessageFrom(r) \in Message
BY ClockFields DEF TypeOK, MessageFrom, Message, Session

-----------------------------------------------------------------------------
(* One rank's step away from a call that is no exchange, and a step of all *)
(* ranks together, cannot disturb what LayerInv says of waiting ranks.     *)

LEMMA LocalFrame ==
  ASSUME LayerInv, NEW r \in Rank, NEW here \in LayerSite \ ExchangeSite,
         NEW there \in Site, Goto(r, here, there),
         UNCHANGED <<posted, forest, session>>
  PROVE  /\ pc' \in [Rank -> Site]
         /\ PostedInExchange'
         /\ LayerCurrent'
<1>1. r \notin posted
  BY DEF LayerInv, PostedInExchange, Goto
<1>2. Usable(session[r], forest.version)
  BY DEF LayerInv, LayerCurrent, Goto
<1> QED
  BY <1>1, <1>2
  DEF LayerInv, TypeOK, Goto, PostedInExchange, LayerCurrent, Usable

LEMMA PassInv ==
  ASSUME LayerInv, NEW r \in Rank, NEW here \in LayerSite \ ExchangeSite,
         NEW groups, NEW there \in Site, Pass(r, here, groups, there)
  PROVE  LayerInv'
<1>1. TypeOK'
  BY PassType DEF LayerInv
<1>2. PostedInExchange' /\ LayerCurrent'
  BY LocalFrame DEF Pass, layers
<1> QED
  BY <1>1, <1>2 DEF LayerInv

LEMMA NobodyPosted ==
  ASSUME LayerInv, NEW here, here \notin ExchangeSite, Everyone(here)
  PROVE  posted = {}
BY DEF LayerInv, TypeOK, PostedInExchange, Everyone

LEMMA BuildLayerInv ==
  ASSUME LayerInv, NEW here, here \notin ExchangeSite, NEW there \in Site,
         BuildLayer(here, there)
  PROVE  LayerInv'
<1>1. TypeOK'
  BY BuildLayerType DEF LayerInv
<1>2. PostedInExchange'
  BY NobodyPosted DEF BuildLayer, EveryoneGoto, PostedInExchange
<1>3. LayerCurrent'
  <2> SUFFICES ASSUME NEW r \in Rank
               PROVE  Usable(session'[r], forest'.version)
    BY DEF LayerCurrent, Usable
  <2>1. session[r] \in Session /\ forest.version \in Nat
    BY DEF LayerInv, TypeOK
  <2>2. session'[r] = Built(session[r], forest.version)
    BY DEF BuildLayer
  <2> QED
    BY <2>1, <2>2, SessionType DEF BuildLayer
<1> QED
  BY <1>1, <1>2, <1>3 DEF LayerInv

\* A step that leaves every rank at a call that needs no layer.
LEMMA NoLayerFrame ==
  ASSUME LayerInv, NEW here, here \notin ExchangeSite, Everyone(here),
         pc' \in [Rank -> Site \ LayerSite], posted' = posted
  PROVE  PostedInExchange' /\ LayerCurrent'
BY NobodyPosted DEF PostedInExchange, LayerCurrent

\* A collective call that changes neither the forest nor a session.
LEMMA CollectiveFrame ==
  ASSUME LayerInv, NEW here \in LayerSite \ ExchangeSite,
         NEW there \in Site, EveryoneGoto(here, there), UNCHANGED layers
  PROVE  /\ pc' \in [Rank -> Site]
         /\ PostedInExchange'
         /\ LayerCurrent'
<1>1. PostedInExchange'
  BY NobodyPosted DEF EveryoneGoto, PostedInExchange, layers
<1>2. LayerCurrent'
  BY DEF LayerInv, LayerCurrent, EveryoneGoto, Everyone, Usable, layers
<1> QED
  BY <1>1, <1>2 DEF EveryoneGoto

LEMMA PassSites ==
  /\ {"preprocess", "tag", "boundary", "halftime", "geometry", "hanging_info",
      "validate", "matrix", "point", "corner", "relaxed", "hanging_matrix",
      "hanging_solve", "force", "conservative", "loop", "predict", "output",
      "refresh", "nodal_boundary", "parent_edge", "accept", "finish",
      "coarsen", "energy", "recheck", "reduce_dt", "refine"}
        \subseteq LayerSite \ ExchangeSite
  /\ {"init_layer", "amr_layer", "amr_energy", "balance", "partition",
      "layer", "done", "aborted", "killed"}
        \subseteq Site \ (LayerSite \cup ExchangeSite)
  /\ LayerSite \subseteq Site
BY DEF LayerSite, Site, ExchangeSite, ExchangeThen, GhostReads,
       CollectiveSite, LocalSite, Stopped

-----------------------------------------------------------------------------
(* One lemma for each group of Next's actions.                             *)

LEMMA LoopInv ==
  ASSUME LayerInv, NEW r \in Rank, Loop(r)
  PROVE  LayerInv'
<1>1. CASE BeginStep(r)
  <2>1. (IF clock[r].step + 1 > MaxTimeStep THEN "finish" ELSE "preprocess")
          \in Site
    BY PassSites
  <2>2. PostedInExchange' /\ LayerCurrent' /\ pc' \in [Rank -> Site]
    BY <1>1, <2>1, LocalFrame, PassSites DEF BeginStep, layers
  <2>3. clock' \in [Rank -> Clock]
    <3> DEFINE n == clock[r].step + 1
    <3>1. clock[r] \in Clock /\ n \in Nat
      BY ClockFields DEF LayerInv
    <3>2. clock' = [clock EXCEPT ![r] = [clock[r] EXCEPT !.step = n]]
      BY <1>1 DEF BeginStep
    <3> HIDE DEF n
    <3>3. [clock[r] EXCEPT !.step = n] \in Clock
      BY <3>1, ClockType
    <3> QED
      BY <3>2, <3>3 DEF LayerInv, TypeOK
  <2> QED
    BY <1>1, <2>2, <2>3 DEF BeginStep, LayerInv, TypeOK, layers, cells
<1>2. CASE LeaveLoop(r)
  <2>1. PostedInExchange' /\ LayerCurrent' /\ pc' \in [Rank -> Site]
    BY <1>2, LocalFrame, PassSites DEF LeaveLoop, layers
  <2> QED
    BY <1>2, <2>1 DEF LeaveLoop, LayerInv, TypeOK, layers, cells, schedule
<1>3. CASE PreProcess(r)
  BY <1>3, PassInv, PassSites, AfterFacts DEF PreProcess
<1>4. CASE Finish(r)
  <2>1. pc' \in [Rank -> Site] /\ pc'[r] = "done"
    BY <1>4, PassSites DEF Finish, Goto, LayerInv, TypeOK
  <2>2. session' \in [Rank -> Session]
    BY <1>4, SessionType DEF Finish, LayerInv, TypeOK
  <2>3. DOMAIN ghost' = Rank /\ ghost'[r] = NoCopies
          /\ \A q \in Rank \ {r} : ghost'[q] = ghost[q]
    BY <1>4 DEF Finish, LayerInv, TypeOK
  <2>4. TypeOK'
    BY <1>4, <2>1, <2>2, <2>3
    DEF Finish, LayerInv, TypeOK, NoCopies, cells, schedule
  <2>5. r \notin posted
    BY <1>4, PassSites DEF Finish, Goto, LayerInv, PostedInExchange
  <2>6. PostedInExchange'
    BY <1>4, <2>5 DEF Finish, Goto, LayerInv, TypeOK, PostedInExchange
  <2>7. LayerCurrent'
    BY <1>4, <2>1, PassSites
    DEF Finish, Goto, LayerInv, TypeOK, LayerCurrent, Usable
  <2> QED
    BY <2>4, <2>6, <2>7 DEF LayerInv
<1> QED
  BY <1>1, <1>2, <1>3, <1>4 DEF Loop

LEMMA AdaptInv ==
  ASSUME LayerInv, NEW r \in Rank, Adapt(r)
  PROVE  LayerInv'
<1>1. CASE TagCoarsening(r)
  BY <1>1, PassInv, PassSites DEF TagCoarsening
<1>2. CASE Refresh(r)
  <2>1. (IF CheckIdempotence THEN "recheck" ELSE "refresh_exchange") \in Site
    BY PassSites, SiteFacts DEF ExchangeSite, ExchangeThen
  <2>2. PostedInExchange' /\ LayerCurrent' /\ pc' \in [Rank -> Site]
    BY <1>2, <2>1, LocalFrame, PassSites DEF Refresh, layers
  <2>3. own' \in [Rank -> Version] /\ stamps' \in [Rank -> SUBSET StageStamp]
    BY <1>2, WriteType, InvalidateType DEF Refresh, LayerInv
  <2> QED
    BY <1>2, <2>2, <2>3 DEF Refresh, LayerInv, TypeOK, layers, schedule
<1> QED
  BY <1>1, <1>2 DEF Adapt

LEMMA ControlInv ==
  ASSUME LayerInv, NEW r \in Rank, Control(r)
  PROVE  LayerInv'
<1>1. CASE PredictTimestep(r)
  <2>1. PostedInExchange' /\ LayerCurrent' /\ pc' \in [Rank -> Site]
    BY <1>1, LocalFrame, PassSites DEF PredictTimestep, layers
  <2>2. localDt' \in [Rank -> Nat \ {0}]
    BY <1>1, ClockAssumption DEF PredictTimestep, LayerInv, TypeOK
  <2> QED
    BY <1>1, <2>1, <2>2 DEF PredictTimestep, LayerInv, TypeOK, layers, cells
<1>2. CASE WriteSolution(r)
  <2>1. PostedInExchange' /\ LayerCurrent' /\ pc' \in [Rank -> Site]
    BY <1>2, LocalFrame, PassSites DEF WriteSolution, WriteFile, layers
  <2>2. clock[r].time \div WriteIntervalTime \in Int
    BY PeriodAssumption, ClockFields DEF LayerInv
  <2>3. clock' \in [Rank -> Clock]
    <3> DEFINE c == clock[r]
               i == IF ~OnStepInterval(c) /\ OnTimeInterval(c)
                      THEN c.time \div WriteIntervalTime ELSE c.lastOutput
    <3>1. c \in Clock
      BY ClockFields DEF LayerInv
    <3>2. i \in Int
      BY <2>2, ClockFields DEF LayerInv
    <3>3. clock' = [clock EXCEPT ![r] = [c EXCEPT !.lastOutput = i]]
      BY <1>2 DEF WriteSolution, WriteFile
    <3> HIDE DEF i
    <3> QED
      BY <3>1, <3>2, <3>3, ClockType DEF LayerInv, TypeOK
  <2>4. files' \in [Rank -> SUBSET Nat]
    BY <1>2, ClockFields DEF WriteSolution, WriteFile, LayerInv, TypeOK
  <2> QED
    BY <1>2, <2>1, <2>3, <2>4 DEF WriteSolution, WriteFile, LayerInv, TypeOK, layers, cells
<1> QED
  BY <1>1, <1>2 DEF Control

LEMMA AssembleInv ==
  ASSUME LayerInv, NEW r \in Rank, Assemble(r)
  PROVE  LayerInv'
<1>1. CASE Boundary(r) \/ HalfTime(r) \/ CornerGeometry(r)
  BY <1>1, PassInv, PassSites DEF Boundary, HalfTime, CornerGeometry
<1>2. CASE NodalBoundary(r)
  <2>1. "boundary_exchange" \in Site
    BY SiteFacts DEF ExchangeSite, ExchangeThen
  <2>2. PostedInExchange' /\ LayerCurrent' /\ pc' \in [Rank -> Site]
    BY <1>2, <2>1, LocalFrame, PassSites DEF NodalBoundary, layers
  <2>3. stamps' \in [Rank -> SUBSET StageStamp]
    BY <1>2, InvalidateType DEF NodalBoundary, LayerInv
  <2> QED
    BY <1>2, <2>2, <2>3 DEF NodalBoundary, LayerInv, TypeOK, layers, schedule
<1>3. CASE HangingInfo(r)
  <2>1. IfLayer(r, "hanging_exchange") \in Site
    BY IfLayerSite DEF ExchangeSite, ExchangeThen
  <2> QED
    BY <1>3, <2>1, PassInv, PassSites DEF HangingInfo
<1>4. CASE ParentEdge(r)
  <2>1. "stamp_exchange" \in Site
    BY SiteFacts DEF ExchangeSite, ExchangeThen
  <2>2. PostedInExchange' /\ LayerCurrent' /\ pc' \in [Rank -> Site]
    BY <1>4, <2>1, LocalFrame, PassSites DEF ParentEdge, layers
  <2>3. MakeStamp(session[r], clock[r].step) \in StageStamp
    BY StampType, ClockFields DEF LayerInv, TypeOK
  <2>4. own' \in [Rank -> Version] /\ stamps' \in [Rank -> SUBSET StageStamp]
    BY <1>4, <2>3, WriteType DEF ParentEdge, LayerInv, TypeOK
  <2> QED
    BY <1>4, <2>2, <2>4 DEF ParentEdge, LayerInv, TypeOK, layers, schedule
<1>5. CASE ValidateStamps(r)
  BY <1>5, PassInv, PassSites DEF ValidateStamps
<1> QED
  BY <1>1, <1>2, <1>3, <1>4, <1>5 DEF Assemble

LEMMA SolveInv ==
  ASSUME LayerInv, NEW r \in Rank, Solve(r)
  PROVE  LayerInv'
<1>1. /\ IfLayer(r, "matrix_exchange") \in Site
      /\ IfLayer(r, "relaxed_exchange") \in Site
      /\ IfLayer(r, "aggregate_exchange") \in Site
  BY IfLayerSite DEF ExchangeSite, ExchangeThen
<1>2. {"point_exchange", "corner_exchange", "velocity_exchange"} \subseteq Site
  BY SiteFacts DEF ExchangeSite, ExchangeThen
<1>3. CASE CornerMatrix(r) \/ RelaxedInfo(r) \/ HangingMatrix(r)
  BY <1>1, <1>3, PassInv, PassSites DEF CornerMatrix, RelaxedInfo, HangingMatrix
<1>4. CASE PointMatrix(r) \/ CornerVelocity(r) \/ HangingSolve(r)
  BY <1>2, <1>4, PassInv, PassSites
  DEF PointMatrix, CornerVelocity, HangingSolve
<1>5. CASE CornerForce(r)
  BY <1>5, PassInv, PassSites DEF CornerForce
<1> QED
  BY <1>3, <1>4, <1>5 DEF Solve

LEMMA UpdateInv ==
  ASSUME LayerInv, NEW r \in Rank, Update(r)
  PROVE  LayerInv'
<1>1. CASE ConservativeUpdates(r)
  BY <1>1, PassInv, PassSites DEF ConservativeUpdates
<1>2. CASE AcceptSolution(r)
  <2>1. PostedInExchange' /\ LayerCurrent' /\ pc' \in [Rank -> Site]
    BY <1>2, LocalFrame, PassSites DEF AcceptSolution, layers
  <2>2. clock' \in [Rank -> Clock]
    <3> DEFINE n == clock[r].time + clock[r].dt
    <3>1. clock[r] \in Clock /\ n \in Nat
      BY ClockFields DEF LayerInv
    <3>2. clock' = [clock EXCEPT ![r] = [clock[r] EXCEPT !.time = n]]
      BY <1>2 DEF AcceptSolution
    <3> HIDE DEF n
    <3>3. [clock[r] EXCEPT !.time = n] \in Clock
      BY <3>1, ClockType
    <3> QED
      BY <3>2, <3>3 DEF LayerInv, TypeOK
  <2>3. own' \in [Rank -> Version]
    BY <1>2, WriteType DEF AcceptSolution, LayerInv
  <2>4. accepted' \in [Rank -> Nat]
    BY <1>2 DEF AcceptSolution, LayerInv, TypeOK
  <2> QED
    BY <1>2, <2>1, <2>2, <2>3, <2>4 DEF AcceptSolution, LayerInv, TypeOK, layers
<1> QED
  BY <1>1, <1>2 DEF Update

LEMMA ExchangeInv ==
  ASSUME LayerInv, NEW r \in Rank, Exchange(r)
  PROVE  LayerInv'
<1>1. CASE BeginExchange(r)
  <2>1. MessageFrom(r) \in Message
    BY <1>1, MessageFromType DEF BeginExchange, LayerInv
  <2>2. channel' \in [Rank -> [Rank -> Seq(Message)]]
    <3> DEFINE sent == [q \in Rank |-> IF q \in Neighbours(r)
                                        THEN Append(channel[r][q], MessageFrom(r))
                                        ELSE channel[r][q]]
    <3>1. \A q \in Rank : channel[r][q] \in Seq(Message)
      BY DEF LayerInv, TypeOK
    <3>2. sent \in [Rank -> Seq(Message)]
      BY <2>1, <3>1
    <3>3. channel' = [channel EXCEPT ![r] = sent]
      BY <1>1 DEF BeginExchange, LayerInv, TypeOK
    <3> QED
      BY <3>2, <3>3 DEF LayerInv, TypeOK
  <2>3. TypeOK'
    BY <1>1, <2>2 DEF BeginExchange, LayerInv, TypeOK, cells, schedule
  <2>4. PostedInExchange'
    BY <1>1 DEF BeginExchange, LayerInv, PostedInExchange
  <2>5. LayerCurrent'
    BY <1>1 DEF BeginExchange, LayerInv, LayerCurrent, Usable
  <2> QED
    BY <2>3, <2>4, <2>5 DEF LayerInv
<1>2. CASE EndExchange(r)
  <2>1. pc[r] \in ExchangeSite
    BY <1>2 DEF EndExchange, LayerInv, PostedInExchange
  <2>2. pc' \in [Rank -> Site]
    BY <1>2, <2>1, SiteFacts, PassSites DEF EndExchange, LayerInv, TypeOK
  <2>3. Neighbours(r) \subseteq Rank
    BY DEF Neighbours
  <2>4. \A q, s \in Rank : channel[q][s] \in Seq(Message)
    BY DEF LayerInv, TypeOK
  <2>5. \A q \in Neighbours(r) : /\ Head(channel[q][r]) \in Message
                                 /\ Tail(channel[q][r]) \in Seq(Message)
    BY <1>2, <2>3, <2>4 DEF EndExchange
  <2>6. channel' \in [Rank -> [Rank -> Seq(Message)]]
    <3> SUFFICES ASSUME NEW q \in Rank
                 PROVE  [channel[q] EXCEPT ![r] =
                           IF q \in Neighbours(r) THEN Tail(@) ELSE @]
                          \in [Rank -> Seq(Message)]
      BY <1>2 DEF EndExchange
    <3>1. channel[q] \in [Rank -> Seq(Message)]
      BY DEF LayerInv, TypeOK
    <3> QED
      BY <2>5, <3>1
  <2>7. /\ DOMAIN ghost' = Rank
        /\ DOMAIN ghost'[r] = Neighbours(r)
        /\ \A q \in Neighbours(r) : ghost'[r][q] \in Message
        /\ \A q \in Rank \ {r} : ghost'[q] = ghost[q]
    BY <1>2, <2>5 DEF EndExchange, LayerInv, TypeOK
  <2>8. posted' \in SUBSET Rank
    BY <1>2 DEF EndExchange, LayerInv, TypeOK
  <2>9. TypeOK'
    BY <1>2, <2>2, <2>3, <2>6, <2>7, <2>8
    DEF EndExchange, LayerInv, TypeOK, cells, schedule
  <2>10. PostedInExchange'
    BY <1>2 DEF EndExchange, LayerInv, TypeOK, PostedInExchange
  <2>11. LayerCurrent'
    BY <1>2, <2>1, SiteFacts
    DEF EndExchange, LayerInv, TypeOK, LayerCurrent, Usable
  <2> QED
    BY <2>9, <2>10, <2>11 DEF LayerInv
<1> QED
  BY <1>1, <1>2 DEF Exchange

LEMMA FailureInv ==
  ASSUME LayerInv, NEW r \in Rank, AbortInPass(r) \/ Kill(r)
  PROVE  LayerInv'
<1>2. AbortSite \cap ExchangeSite = {}
  BY DEF AbortSite, ExchangeSite, ExchangeThen
<1>3. pc' \in [Rank -> Site] /\ pc'[r] \in {"aborted", "killed"}
        /\ \A q \in Rank \ {r} : pc'[q] = pc[q]
  <2>1. \E there \in {"aborted", "killed"} : pc' = [pc EXCEPT ![r] = there]
    BY DEF AbortInPass, Kill, Goto
  <2>2. pc \in [Rank -> Site] /\ {"aborted", "killed"} \subseteq Site
    BY PassSites DEF LayerInv, TypeOK
  <2> QED
    BY <2>1, <2>2
<1>4. UNCHANGED <<forest, session, ghost, channel, cells, schedule>>
  BY DEF AbortInPass, Kill, layers
<1>5. posted' \in SUBSET Rank /\ r \notin posted' /\ posted' \subseteq posted
  BY <1>2 DEF AbortInPass, Kill, Goto, layers, LayerInv, TypeOK,
              PostedInExchange
<1>6. TypeOK'
  BY <1>3, <1>4, <1>5 DEF LayerInv, TypeOK, cells, schedule
<1>7. PostedInExchange'
  BY <1>3, <1>5 DEF LayerInv, TypeOK, PostedInExchange
<1>8. LayerCurrent'
  BY <1>3, <1>4, PassSites DEF LayerInv, LayerCurrent, Usable
<1> QED
  BY <1>6, <1>7, <1>8 DEF LayerInv

LEMMA CollectiveInv ==
  ASSUME LayerInv, Collective
  PROVE  LayerInv'
<1> USE DEF LayerInv
<1>1. forest.version \in Nat /\ forest.adjacency \in Adjacencies
        /\ \A r \in Rank : session[r] \in Session
  BY DEF TypeOK
<1>2. CASE FirstLayer \/ RebuildLayer \/ NewLayer
  <2>1. {"init_exchange", "amr_exchange", "layer_exchange"} \subseteq Site
    BY SiteFacts DEF ExchangeSite, ExchangeThen
  <2> QED
    BY <1>2, <2>1, BuildLayerInv, PassSites DEF FirstLayer, RebuildLayer, NewLayer
<1>3. CASE Refine
  <2>1. pc' \in [Rank -> Site \ LayerSite]
    BY <1>3, PassSites DEF Refine, EveryoneGoto
  <2>2. PostedInExchange' /\ LayerCurrent'
    BY <1>3, <2>1, NoLayerFrame, PassSites DEF Refine, EveryoneGoto
  <2>3. session' \in [Rank -> Session]
    BY <1>1, <1>3, SessionType DEF Refine
  <2>4. stamps' \in [Rank -> SUBSET StageStamp]
    BY <1>3, StampType DEF Refine, TypeOK
  <2>5. forest' \in [version : Nat, adjacency : Adjacencies]
          /\ own' \in [Rank -> Version]
    BY <1>1, <1>3, ChangeForestType DEF Refine
  <2>6. TypeOK'
    BY <1>3, <2>1, <2>3, <2>4, <2>5 DEF Refine, TypeOK, schedule
  <2> QED
    BY <2>2, <2>6
<1>4. CASE Coarsen
  <2>1. pc' \in [Rank -> Site \ LayerSite]
    BY <1>4, PassSites DEF Coarsen, EveryoneGoto
  <2>2. PostedInExchange' /\ LayerCurrent'
    BY <1>4, <2>1, NoLayerFrame, PassSites DEF Coarsen, EveryoneGoto
  <2>3. stamps' \in [Rank -> SUBSET StageStamp]
    BY <1>4, StampType DEF Coarsen, TypeOK
  <2>4. forest' \in [version : Nat, adjacency : Adjacencies]
          /\ own' \in [Rank -> Version]
    BY <1>1, <1>4, ChangeForestType DEF Coarsen
  <2>5. TypeOK'
    BY <1>4, <2>1, <2>3, <2>4 DEF Coarsen, TypeOK, schedule
  <2> QED
    BY <2>2, <2>5
<1>5. CASE Balance
  <2>1. \A r \in Rank : /\ session'[r] = Destroyed(Invalidated(session[r]))
                        /\ session'[r] \in Session
                        /\ IsEmpty(session'[r])
    BY <1>1, <1>5, SessionType DEF Balance
  <2>2. session' \in [Rank -> Session]
    BY <1>5, <2>1 DEF Balance
  <2>3. \A r \in Rank : /\ AfterAmr(r, session'[r]) \in Site
                        /\ AfterAmr(r, session'[r]) \notin LayerSite
    BY <2>1, AfterFacts
  <2>4. pc' \in [Rank -> Site \ LayerSite]
    BY <1>5, <2>3 DEF Balance
  <2>5. PostedInExchange' /\ LayerCurrent'
    BY <1>5, <2>4, NoLayerFrame, PassSites DEF Balance
  <2>6. stamps' \in [Rank -> SUBSET StageStamp]
    BY <1>5, StampType DEF Balance, TypeOK
  <2>7. forest' \in [version : Nat, adjacency : Adjacencies]
          /\ own' \in [Rank -> Version]
    BY <1>1, <1>5, ChangeForestType DEF Balance
  <2>8. DOMAIN ghost' = Rank /\ \A r \in Rank : DOMAIN ghost'[r] = {}
    BY <1>5 DEF Balance, NoCopies
  <2>9. TypeOK'
    BY <1>5, <2>2, <2>4, <2>6, <2>7, <2>8 DEF Balance, TypeOK, schedule
  <2> QED
    BY <2>5, <2>9
<1>6. CASE Partition
  <2>1. \A r \in Rank : /\ session'[r] = Destroyed(Invalidated(session[r]))
                        /\ session'[r] \in Session
                        /\ IsEmpty(session'[r])
    BY <1>1, <1>6, SessionType DEF Partition
  <2>2. session' \in [Rank -> Session]
    BY <1>6, <2>1 DEF Partition
  <2>3. \A r \in Rank : /\ AfterPartition(session'[r]) \in Site
                        /\ AfterPartition(session'[r]) \notin LayerSite
    BY <2>1, AfterFacts
  <2>4. pc' \in [Rank -> Site \ LayerSite]
    BY <1>6, <2>3 DEF Partition
  <2>5. PostedInExchange' /\ LayerCurrent'
    BY <1>6, <2>4, NoLayerFrame, PassSites DEF Partition
  <2>6. stamps' \in [Rank -> SUBSET StageStamp]
    BY <1>6, StampType DEF Partition, TypeOK
  <2>7. forest' \in [version : Nat, adjacency : Adjacencies]
    BY <1>1, <1>6 DEF Partition
  <2>8. DOMAIN ghost' = Rank /\ \A r \in Rank : DOMAIN ghost'[r] = {}
    BY <1>6 DEF Partition, NoCopies
  <2>9. TypeOK'
    BY <1>6, <2>2, <2>4, <2>6, <2>7, <2>8 DEF Partition, TypeOK, schedule
  <2> QED
    BY <2>5, <2>9
<1>7. CASE CheckAmrEnergy
  <2>1. pc' \in [Rank -> Site \ LayerSite]
    BY <1>7, PassSites DEF CheckAmrEnergy, EveryoneGoto
  <2>2. PostedInExchange' /\ LayerCurrent'
    BY <1>7, <2>1, NoLayerFrame, PassSites
    DEF CheckAmrEnergy, EveryoneGoto, layers
  <2>3. TypeOK'
    BY <1>7, <2>1 DEF CheckAmrEnergy, TypeOK, layers, cells, schedule
  <2> QED
    BY <2>2, <2>3
<1>8. CASE RecheckRefresh \/ CheckEnergy
  <2>1. "refresh_exchange" \in Site
    BY SiteFacts DEF ExchangeSite, ExchangeThen
  <2>2. PostedInExchange' /\ LayerCurrent' /\ pc' \in [Rank -> Site]
    BY <1>8, <2>1, CollectiveFrame, PassSites DEF RecheckRefresh, CheckEnergy
  <2>3. TypeOK'
    BY <1>8, <2>2
    DEF RecheckRefresh, CheckEnergy, TypeOK, layers, cells, schedule
  <2> QED
    BY <2>2, <2>3
<1>9. CASE ReduceTimestep
  <2>1. PostedInExchange' /\ LayerCurrent' /\ pc' \in [Rank -> Site]
    BY <1>9, CollectiveFrame, PassSites DEF ReduceTimestep
  <2>2. PICK r \in Rank :
          clock' = [q \in Rank |-> [clock[q] EXCEPT !.dt = localDt[r]]]
    BY <1>9 DEF ReduceTimestep
  <2>3. localDt[r] \in Nat \ {0} /\ \A q \in Rank : clock[q] \in Clock
    BY DEF TypeOK
  <2>4. \A q \in Rank : [clock[q] EXCEPT !.dt = localDt[r]] \in Clock
    BY <2>3, ClockType
  <2>5. clock' \in [Rank -> Clock]
    BY <2>2, <2>4
  <2>6. TypeOK'
    BY <1>9, <2>1, <2>5 DEF ReduceTimestep, TypeOK, layers, cells
  <2> QED
    BY <2>1, <2>6
<1> QED
  BY <1>2, <1>3, <1>4, <1>5, <1>6, <1>7, <1>8, <1>9 DEF Collective

LEMMA AbortTogetherInv ==
  ASSUME LayerInv, AbortTogether
  PROVE  LayerInv'
<1>1. pc' \in [Rank -> Site \ LayerSite] /\ UNCHANGED <<layers, cells, schedule>>
  BY PassSites DEF AbortTogether, EveryoneGoto
<1>2. posted = {}
  BY NobodyPosted, PassSites DEF AbortTogether, EveryoneGoto
<1>3. PostedInExchange' /\ LayerCurrent'
  BY <1>1, <1>2 DEF PostedInExchange, LayerCurrent, layers
<1> QED
  BY <1>1, <1>3 DEF LayerInv, TypeOK, layers, cells, schedule

-----------------------------------------------------------------------------
(* The invariant.                                                          *)

LEMMA InitInv == Init => LayerInv
<1> SUFFICES ASSUME Init
             PROVE  LayerInv
  OBVIOUS
<1>1. pc \in [Rank -> Site \ LayerSite]
  BY PassSites DEF Init
<1>2. session \in [Rank -> Session]
  BY DEF Init, Unbuilt, Session
<1>3. clock \in [Rank -> Clock] /\ localDt \in [Rank -> Nat \ {0}]
  BY ClockAssumption DEF Init, Clock
<1>4. own \in [Rank -> Version] /\ stamps \in [Rank -> SUBSET StageStamp]
  BY StampType DEF Init, NoWrites, Version
<1>5. DOMAIN ghost = Rank /\ \A r \in Rank : DOMAIN ghost[r] = {}
  BY DEF Init, NoCopies
<1>6. channel \in [Rank -> [Rank -> Seq(Message)]]
  BY DEF Init
<1>7. forest \in [version : Nat, adjacency : Adjacencies]
  BY DEF Init
<1>8. TypeOK
  BY <1>1, <1>2, <1>3, <1>4, <1>5, <1>6, <1>7 DEF Init, TypeOK
<1> QED
  BY <1>1, <1>8 DEF LayerInv, PostedInExchange, LayerCurrent, Init

LEMMA NextInv == LayerInv /\ [Next]_vars => LayerInv'
<1> SUFFICES ASSUME LayerInv, [Next]_vars
             PROVE  LayerInv'
  OBVIOUS
<1>1. ASSUME NEW r \in Rank, RankStep(r)
      PROVE  LayerInv'
  BY <1>1, LoopInv, AdaptInv, ControlInv, AssembleInv, SolveInv, UpdateInv,
     ExchangeInv DEF RankStep
<1>2. ASSUME NEW r \in Rank, AbortInPass(r) \/ Kill(r)
      PROVE  LayerInv'
  BY <1>2, FailureInv
<1>3. CASE Collective
  BY <1>3, CollectiveInv
<1>4. CASE AbortTogether
  BY <1>4, AbortTogetherInv
<1>5. CASE UNCHANGED vars
  BY <1>5 DEF vars, layers, cells, schedule, LayerInv, TypeOK,
              PostedInExchange, LayerCurrent, Usable
<1> QED
  BY <1>1, <1>2, <1>3, <1>4, <1>5 DEF Next, Terminated

\* Every reachable state satisfies the inductive invariant.
THEOREM LayerInvariant == Spec => []LayerInv
<1> QED
  BY InitInv, NextInv, PTL DEF Spec

\* The state keeps its types, for any number of ranks.
THEOREM TypeCorrect == Spec => []TypeOK
<1>1. LayerInv => TypeOK
  BY DEF LayerInv
<1> QED
  BY <1>1, LayerInvariant, PTL

\* GhostSession's asserts hold and its layer is never an older forest's,
\* wherever the driver, a pass or an exchange uses the session.
THEOREM SessionAlwaysUsable == Spec => []SessionUsable
<1>1. LayerInv => SessionUsable
  BY SiteFacts DEF LayerInv, LayerCurrent, SessionUsable
<1> QED
  BY <1>1, LayerInvariant, PTL

-----------------------------------------------------------------------------
(***************************************************************************)
(* No nodal record of an earlier stage passes the guard, for any number of *)
(* ranks and whatever the forest goes through.                             *)
(*                                                                         *)
(* A valid stamp is never younger than its rank's step (StampInv), and     *)
(* before the stage has stamped the leaves it is strictly older.  The step *)
(* number alone carries the argument: the generation and the topology      *)
(* version of a stamp may well be those of the session, since a step       *)
(* without AMR changes neither.                                            *)
(***************************************************************************)

StampInv ==
  \A r \in Rank : \A stamp \in stamps[r] : stamp.valid =>
    /\ stamp.step <= clock[r].step
    /\ pc[r] \notin StampedSite => stamp.step < clock[r].step

\* A step that makes no stamp valid, counts no step and leaves no stamped
\* site for another one.
Keeps ==
  \A r \in Rank :
    /\ \A stamp \in stamps'[r] : stamp.valid => stamp \in stamps[r]
    /\ clock'[r].step = clock[r].step
    /\ pc[r] \notin StampedSite \/ pc'[r] \in StampedSite

LEMMA KeepingStep == StampInv /\ Keeps => StampInv'
BY DEF StampInv, Keeps

LEMMA Invalid ==
  /\ ~ZeroStamp.valid
  /\ \A stamp \in StageStamp : ~InvalidateStamp(stamp).valid
BY DEF ZeroStamp, InvalidateStamp, StageStamp

\* Where a rank may go without leaving the stamped sites.
Onward(here, there) == here \notin StampedSite \/ there \in StampedSite

LEMMA KeepsGoto ==
  ASSUME TypeOK, NEW r \in Rank, NEW here, NEW there, Goto(r, here, there),
         Onward(here, there),
         \A q \in Rank : clock'[q].step = clock[q].step,
         UNCHANGED stamps \/ InvalidateNodalStamps(r)
  PROVE  Keeps
<1>1. \A q \in Rank : pc[q] \notin StampedSite \/ pc'[q] \in StampedSite
  BY DEF Goto, Onward, TypeOK
<1>2. CASE UNCHANGED stamps
  BY <1>1, <1>2 DEF Keeps
<1>3. CASE InvalidateNodalStamps(r)
  <2>1. /\ \A q \in Rank \ {r} : stamps'[q] = stamps[q]
        /\ stamps'[r] = {InvalidateStamp(s) : s \in stamps[r]}
        /\ stamps[r] \subseteq StageStamp
    BY <1>3 DEF InvalidateNodalStamps, TypeOK
  <2> QED
    BY <1>1, <2>1, Invalid DEF Keeps
<1> QED
  BY <1>2, <1>3

LEMMA KeepsPass ==
  ASSUME TypeOK, NEW r \in Rank, NEW here, NEW groups, NEW there,
         Pass(r, here, groups, there), Onward(here, there)
  PROVE  Keeps
BY KeepsGoto DEF Pass, schedule

\* The program leaves the stamped sites only where a step begins.
LEMMA OnwardFacts ==
  /\ \A here \in
       {"init_layer", "init_exchange", "preprocess", "refine", "amr_layer",
        "amr_exchange", "tag", "coarsen", "amr_energy", "balance", "partition",
        "layer", "layer_exchange", "refresh", "recheck", "refresh_exchange",
        "predict", "reduce_dt", "output", "boundary", "halftime", "geometry",
        "nodal_boundary", "boundary_exchange", "hanging_info",
        "hanging_exchange", "parent_edge"} : here \notin StampedSite
  /\ \A there \in
       {"stamp_exchange", "validate", "matrix", "matrix_exchange", "point",
        "point_exchange", "corner", "corner_exchange", "relaxed",
        "relaxed_exchange", "hanging_matrix", "aggregate_exchange",
        "hanging_solve", "velocity_exchange", "force", "conservative",
        "energy", "accept", "loop", "finish", "done", "aborted", "killed"} :
       there \in StampedSite
BY DEF StampedSite, Stopped

LEMMA OnwardExchange ==
  /\ \A site \in ExchangeSite : Onward(site, ExchangeThen[site])
  /\ \A r \in Rank : \A site \in {"matrix_exchange", "relaxed_exchange",
                                  "aggregate_exchange"} :
       IfLayer(r, site) \in StampedSite
<1>1. \A site \in ExchangeSite :
        ExchangeThen[site] \in StampedSite \/ site \notin StampedSite
  BY OnwardFacts DEF ExchangeSite, ExchangeThen
<1>2. \A site \in {"matrix_exchange", "relaxed_exchange", "aggregate_exchange"} :
        site \in StampedSite /\ ExchangeThen[site] \in StampedSite
  BY OnwardFacts DEF ExchangeThen
<1> QED
  BY <1>1, <1>2 DEF Onward, IfLayer

LEMMA InitStamps == Init => StampInv
<1> SUFFICES ASSUME Init PROVE StampInv
  OBVIOUS
<1>1. \A r \in Rank : stamps[r] = {ZeroStamp}
  BY DEF Init
<1>2. \A r \in Rank : \A stamp \in stamps[r] : ~stamp.valid
  BY <1>1, Invalid
<1> QED
  BY <1>2 DEF StampInv

LEMMA StepBegins ==
  ASSUME TypeOK, StampInv, NEW s \in Rank, BeginStep(s)
  PROVE  StampInv'
<1>1. /\ pc[s] = "loop" /\ UNCHANGED stamps
      /\ \A r \in Rank \ {s} : pc'[r] = pc[r] /\ clock'[r] = clock[r]
  BY DEF BeginStep, Goto, TypeOK, cells
<1>2. clock'[s].step = clock[s].step + 1 /\ clock[s].step \in Nat
  BY DEF BeginStep, TypeOK, Clock
<1>3. \A r \in Rank : \A stamp \in stamps[r] : stamp.step \in Nat
  BY DEF TypeOK, StageStamp
<1> QED
  BY <1>1, <1>2, <1>3 DEF StampInv

\* A stage stamps the leaves with the step it is in.
LEMMA StageStamps ==
  ASSUME TypeOK, StampInv, NEW s \in Rank, ParentEdge(s)
  PROVE  StampInv'
<1>1. /\ pc'[s] = "stamp_exchange" /\ UNCHANGED clock
      /\ stamps'[s] = {MakeStamp(session[s], clock[s].step)}
      /\ \A r \in Rank \ {s} : pc'[r] = pc[r] /\ stamps'[r] = stamps[r]
  BY DEF ParentEdge, Goto, TypeOK, schedule
<1>2. \A stamp \in stamps'[s] : stamp.step = clock[s].step
  BY <1>1 DEF MakeStamp
<1>3. clock[s].step \in Nat
  BY ClockFields
<1> QED
  BY <1>1, <1>2, <1>3, OnwardFacts DEF StampInv

LEMMA RankStamps ==
  ASSUME TypeOK, PostedInExchange, StampInv, NEW s \in Rank, RankStep(s)
  PROVE  StampInv'
<1> USE OnwardFacts DEF Onward
<1>1. CASE Loop(s)
  <2>1. CASE LeaveLoop(s) \/ PreProcess(s) \/ Finish(s)
    BY <2>1, KeepsGoto, KeepsPass, KeepingStep
    DEF LeaveLoop, PreProcess, Finish, cells, schedule
  <2> QED
    BY <1>1, <2>1, StepBegins DEF Loop
<1>2. CASE Adapt(s)
  <2>1. CASE TagCoarsening(s)
    BY <2>1, KeepsPass, KeepingStep DEF TagCoarsening
  <2>2. CASE Refresh(s)
    BY <2>2, KeepsGoto, KeepingStep DEF Refresh, schedule
  <2> QED
    BY <1>2, <2>1, <2>2 DEF Adapt
<1>3. CASE Control(s)
  <2>1. CASE PredictTimestep(s)
    BY <2>1, KeepsGoto, KeepingStep DEF PredictTimestep, cells
  <2>2. CASE WriteSolution(s)
    <3>1. \A q \in Rank : clock'[q].step = clock[q].step
      BY <2>2 DEF WriteSolution, WriteFile, TypeOK, Clock
    <3> QED
      BY <2>2, <3>1, KeepsGoto, KeepingStep DEF WriteSolution, WriteFile, cells
  <2> QED
    BY <1>3, <2>1, <2>2 DEF Control
<1>4. CASE Assemble(s)
  <2>1. CASE Boundary(s) \/ HalfTime(s) \/ CornerGeometry(s) \/ HangingInfo(s)
             \/ ValidateStamps(s)
    BY <2>1, KeepsPass, KeepingStep
    DEF Boundary, HalfTime, CornerGeometry, HangingInfo, ValidateStamps
  <2>2. CASE NodalBoundary(s)
    BY <2>2, KeepsGoto, KeepingStep DEF NodalBoundary, schedule
  <2> QED
    BY <1>4, <2>1, <2>2, StageStamps DEF Assemble
<1>5. CASE Solve(s)
  BY <1>5, OnwardExchange, KeepsPass, KeepingStep
  DEF Solve, CornerMatrix, PointMatrix, CornerVelocity, RelaxedInfo, HangingMatrix,
      HangingSolve, CornerForce
<1>6. CASE Update(s)
  <2>1. CASE ConservativeUpdates(s)
    BY <2>1, KeepsPass, KeepingStep DEF ConservativeUpdates
  <2>2. CASE AcceptSolution(s)
    <3>1. \A q \in Rank : clock'[q].step = clock[q].step
      BY <2>2 DEF AcceptSolution, TypeOK, Clock
    <3> QED
      BY <2>2, <3>1, KeepsGoto, KeepingStep DEF AcceptSolution
  <2> QED
    BY <1>6, <2>1, <2>2 DEF Update
<1>7. CASE Exchange(s)
  <2>1. CASE BeginExchange(s)
    BY <2>1, KeepingStep DEF BeginExchange, Keeps, cells, schedule
  <2>2. CASE EndExchange(s)
    BY <2>2, OnwardExchange, KeepsGoto, KeepingStep
    DEF EndExchange, Goto, PostedInExchange, cells, schedule
  <2> QED
    BY <1>7, <2>1, <2>2 DEF Exchange
<1> QED
  BY <1>1, <1>2, <1>3, <1>4, <1>5, <1>6, <1>7 DEF RankStep

LEMMA CollectiveStamps ==
  ASSUME TypeOK, StampInv, Collective
  PROVE  StampInv'
<1>1. \A r \in Rank : stamps[r] \subseteq StageStamp
  BY DEF TypeOK
<1>2. \A r \in Rank : \A stamp \in stamps'[r] : stamp.valid => stamp \in stamps[r]
  <2>1. CASE Refine \/ Coarsen
    BY <2>1, Invalid DEF Refine, Coarsen
  <2>2. CASE Balance
    <3>1. \A r \in Rank :
            stamps'[r] = {InvalidateStamp(s) : s \in stamps[r] \cup {ZeroStamp}}
      BY <2>2 DEF Balance
    <3> QED
      BY <1>1, <3>1, Invalid, StampType
  <2>3. CASE Partition
    <3>1. \A r \in Rank :
            stamps'[r] = {InvalidateStamp(s) : s \in UNION {stamps[q] : q \in Rank}}
      BY <2>3 DEF Partition
    <3> QED
      BY <1>1, <3>1, Invalid
  <2>4. CASE UNCHANGED stamps
    BY <2>4
  <2> QED
    BY <2>1, <2>2, <2>3, <2>4
    DEF Collective, FirstLayer, RebuildLayer, NewLayer, BuildLayer, CheckAmrEnergy,
        RecheckRefresh, ReduceTimestep, CheckEnergy, cells
<1>3. \A r \in Rank : clock'[r].step = clock[r].step
  <2>1. CASE ReduceTimestep
    BY <2>1 DEF ReduceTimestep, TypeOK, Clock
  <2>2. CASE ~ReduceTimestep
    BY <2>2 DEF Collective, FirstLayer, RebuildLayer, NewLayer, BuildLayer, Refine,
                Coarsen, CheckAmrEnergy, Balance, Partition, RecheckRefresh,
                CheckEnergy, schedule
  <2> QED
    BY <2>1, <2>2
<1>4. \A r \in Rank : pc[r] \notin StampedSite \/ pc'[r] \in StampedSite
  <2>1. CASE CheckEnergy
    BY <2>1, OnwardFacts DEF CheckEnergy, EveryoneGoto
  <2>2. CASE ~CheckEnergy
    BY <2>2, OnwardFacts
    DEF Collective, FirstLayer, RebuildLayer, NewLayer, BuildLayer, Refine, Coarsen,
        CheckAmrEnergy, Balance, Partition, RecheckRefresh, ReduceTimestep,
        EveryoneGoto, Everyone
  <2> QED
    BY <2>1, <2>2
<1> QED
  BY <1>2, <1>3, <1>4, KeepingStep DEF Keeps

LEMMA NextStamps == LayerInv /\ StampInv /\ [Next]_vars => StampInv'
<1> SUFFICES ASSUME LayerInv, StampInv, [Next]_vars PROVE StampInv'
  OBVIOUS
<1>1. TypeOK /\ PostedInExchange
  BY DEF LayerInv
<1>2. ASSUME NEW r \in Rank, AbortInPass(r) \/ Kill(r)
      PROVE  StampInv'
  <2>1. \A q \in Rank : pc'[q] = pc[q] \/ pc'[q] \in StampedSite
    BY <1>1, <1>2, OnwardFacts DEF AbortInPass, Kill, Goto, TypeOK
  <2> QED
    BY <1>2, <2>1, KeepingStep DEF Keeps, AbortInPass, Kill, cells, schedule
<1>3. CASE AbortTogether
  BY <1>3, OnwardFacts, KeepingStep
  DEF AbortTogether, EveryoneGoto, Keeps, cells, schedule
<1>4. CASE UNCHANGED vars
  BY <1>4, KeepingStep DEF vars, Keeps, cells, schedule
<1> QED
  BY <1>1, <1>2, <1>3, <1>4, RankStamps, CollectiveStamps DEF Next, Terminated

\* The guard that ValidateNodalStamps relies on never passes a record of an
\* earlier stage, though a leaf keeps it across steps, moves with it to other
\* ranks and sees the session rebuilt or left alone in between.
THEOREM OldRecordsRejected == Spec => []OldStampsRejected
<1>1. TypeOK /\ StampInv => OldStampsRejected
  <2> SUFFICES ASSUME TypeOK, StampInv, NEW r \in Rank, pc[r] \notin StampedSite,
                      NEW stamp \in stamps[r]
               PROVE  ~StampAccepted(stamp, session[r], clock[r].step)
    BY DEF OldStampsRejected
  <2>1. stamp \in StageStamp /\ clock[r].step \in Nat
    BY ClockFields DEF TypeOK
  <2>2. stamp.step \in Nat
    BY <2>1 DEF StageStamp
  <2> QED
    BY <2>1, <2>2 DEF StampInv, StampAccepted
<1>2. LayerInv => TypeOK
  BY DEF LayerInv
<1> QED
  BY <1>1, <1>2, InitStamps, NextStamps, LayerInvariant, PTL DEF Spec

-----------------------------------------------------------------------------
(* The clocks: for any number of ranks, any periods, intervals and aborts,  *)
(* the ranks advance one common clock, as TimeStepping says, and write the  *)
(* same files, the last step among them.                                    *)
(*                                                                          *)
(* Nobody compares clocks.  They agree because the energy check of a step   *)
(* is a reduction: a rank can be one accepted step ahead of another only    *)
(* while that one is about to accept the same step, or has failed           *)
(* (InStep).  The output index has a position of its own: a rank is also    *)
(* ahead when it has written the files of the step and another has not.     *)

Dts == LocalDts \cup {InitialDt}

-----------------------------------------------------------------------------
(* Where in a step a rank is. *)

Idle == {"init_layer", "init_exchange", "loop"}
Early ==
  {"preprocess", "refine", "amr_layer", "amr_exchange", "tag", "coarsen",
   "amr_energy", "balance", "partition", "layer", "layer_exchange", "refresh",
   "recheck", "refresh_exchange", "predict", "reduce_dt", "output"}
Late ==
  {"boundary", "halftime", "geometry", "nodal_boundary", "boundary_exchange",
   "hanging_info", "hanging_exchange", "parent_edge", "stamp_exchange",
   "validate", "matrix", "matrix_exchange", "point", "point_exchange",
   "corner", "corner_exchange", "relaxed", "relaxed_exchange",
   "hanging_matrix", "aggregate_exchange", "hanging_solve",
   "velocity_exchange", "force", "conservative", "energy"}
Failed == {"aborted", "killed"}
Over == {"finish", "done"}

\* The sites after the output of a step.
Written == Late \cup {"accept"}

\* How many steps' output a rank has decided; a rank that failed has lost its
\* place in the step.
Decided(r) == IF pc[r] \in Written THEN accepted[r] + 1 ELSE accepted[r]

\* What WriteSolution makes of the output index, and whether it writes.
NextOutput(step, time, last) ==
  IF step % WriteIntervalStep # 0 /\ time \div WriteIntervalTime > last
    THEN time \div WriteIntervalTime ELSE last
Writes(step, time, dt, last) ==
  \/ step % WriteIntervalStep = 0
  \/ time \div WriteIntervalTime > last
  \/ time + dt >= EndTime

-----------------------------------------------------------------------------
(* The invariant. *)

\* A rank's own clock.
OwnClock(r) ==
  /\ accepted[r] <= MaxTimeStep
  /\ clock[r].dt \in Dts /\ localDt[r] \in Dts
  /\ clock[r].step \in {accepted[r], accepted[r] + 1}
  /\ pc[r] \in Idle => clock[r].step = accepted[r]
  /\ pc[r] \in Early \cup Written =>
       /\ clock[r].step = accepted[r] + 1 /\ clock[r].step <= MaxTimeStep
       /\ clock[r].time < EndTime
  /\ pc[r] \in Over =>
       \/ clock[r].step = accepted[r] /\ clock[r].time >= EndTime
       \/ accepted[r] = MaxTimeStep /\ clock[r].step = MaxTimeStep + 1

\* A rank's own files: none of a step to come, and that of the last step.
OwnFiles(r) ==
  /\ pc[r] \notin Failed => \A n \in files[r] : n <= Decided(r)
  /\ pc[r] \in Written /\ clock[r].time + clock[r].dt >= EndTime =>
       clock[r].step \in files[r]
  /\ /\ pc[r] \in Idle \cup Over /\ clock[r].step = accepted[r]
     /\ clock[r].step > 0 /\ clock[r].time >= EndTime
     => clock[r].step \in files[r]

\* The clocks of two ranks.
InStep(q, r) ==
  /\ clock[q].dt = clock[r].dt
  /\ accepted[q] <= accepted[r] + 1
  /\ accepted[q] = accepted[r] => clock[q].time = clock[r].time
  /\ accepted[q] = accepted[r] + 1 =>
       /\ pc[r] \in {"accept"} \cup Failed
       /\ pc[q] # "accept"
       /\ clock[q].time = clock[r].time + clock[r].dt
  /\ pc[q] = "accept" /\ accepted[q] = accepted[r] =>
       pc[r] \in {"accept"} \cup Failed

\* The files of two ranks, and the output indices they are decided by.
SameFiles(q, r) ==
  \A n \in Nat : n > 0 /\ n <= Decided(q) /\ n <= Decided(r) =>
    (n \in files[q] <=> n \in files[r])
SameOutput(q, r) ==
  pc[q] \notin Failed /\ pc[r] \notin Failed =>
    /\ Decided(q) = Decided(r) => clock[q].lastOutput = clock[r].lastOutput
    /\ Decided(q) = Decided(r) + 1 =>
         LET c == clock[q]
             last == clock[r].lastOutput
         IN  /\ c.lastOutput = NextOutput(Decided(q), c.time, last)
             /\ Decided(q) \in files[q] <=> Writes(Decided(q), c.time, c.dt, last)

ClockInv ==
  /\ \A r \in Rank : OwnClock(r) /\ OwnFiles(r)
  /\ \A q, r \in Rank : InStep(q, r) /\ SameFiles(q, r) /\ SameOutput(q, r)

-----------------------------------------------------------------------------
(* The initial state, and steps that leave every rank in its part of the   *)
(* step.                                                                   *)

LEMMA Places ==
  /\ Site = Idle \cup Early \cup Written \cup Over \cup Failed
  /\ Idle \cap (Early \cup Written \cup Over \cup Failed) = {}
  /\ Early \cap (Written \cup Over \cup Failed) = {}
  /\ Written \cap (Over \cup Failed) = {}
  /\ Over \cap Failed = {}
  /\ "accept" \notin Late
BY DEF Site, ExchangeSite, ExchangeThen, GhostReads, CollectiveSite, LocalSite, Stopped,
       Idle, Early, Late, Over, Failed, Written

LEMMA ClockNumbers ==
  ASSUME TypeOK, NEW r \in Rank
  PROVE  /\ accepted[r] \in Nat /\ Decided(r) \in Nat
         /\ clock[r].step \in Nat /\ clock[r].time \in Nat /\ clock[r].dt \in Nat \ {0}
         /\ clock[r].lastOutput \in Int
         /\ files[r] \subseteq Nat
<1>1. clock[r].dt \in Nat \ {0}
  BY ClockFields DEF Clock
<1>2. accepted[r] \in Nat /\ files[r] \subseteq Nat
  BY DEF TypeOK
<1>3. Decided(r) \in Nat
  BY <1>1, <1>2, ClockFields DEF Decided
<1> QED
  BY <1>1, <1>2, <1>3, ClockFields

LEMMA InitClock == Init => ClockInv
<1> SUFFICES ASSUME Init PROVE ClockInv
  OBVIOUS
<1>1. \A r \in Rank :
        /\ pc[r] = "init_layer" /\ accepted[r] = 0 /\ localDt[r] = InitialDt
        /\ clock[r].step = 0 /\ clock[r].time = 0 /\ clock[r].dt = InitialDt
        /\ clock[r].lastOutput = -1 /\ files[r] = {}
  BY DEF Init
<1>2. "init_layer" \in Idle /\ "init_layer" \notin Early \cup Written \cup Over \cup Failed
  BY DEF Idle, Early, Written, Late, Over, Failed
<1>3. \A r \in Rank : Decided(r) = 0
  BY <1>1, <1>2 DEF Decided
<1>4. \A r \in Rank : OwnClock(r) /\ OwnFiles(r)
  BY <1>1, <1>2, <1>3, ClockAssumption DEF OwnClock, OwnFiles, Dts
<1>5. \A q, r \in Rank : InStep(q, r)
  BY <1>1 DEF InStep
<1>6. \A q, r \in Rank : SameFiles(q, r) /\ SameOutput(q, r)
  BY <1>1, <1>3 DEF SameFiles, SameOutput
<1> QED
  BY <1>4, <1>5, <1>6 DEF ClockInv

\* The rank stays in its part of the step.
Stays(r) ==
  \/ pc'[r] = pc[r]
  \/ pc[r] \in Idle /\ pc'[r] \in Idle
  \/ pc[r] \in Early /\ pc'[r] \in Early
  \/ pc[r] \in Late /\ pc'[r] \in Late
  \/ pc[r] \in Over /\ pc'[r] \in Over

LEMMA QuietStep ==
  ASSUME TypeOK, ClockInv, UNCHANGED <<clock, files, accepted>>,
         \A r \in Rank : Stays(r) /\ localDt'[r] \in Dts
  PROVE  ClockInv'
<1>1. \A r \in Rank :
        /\ pc'[r] \in Idle <=> pc[r] \in Idle
        /\ pc'[r] \in Early <=> pc[r] \in Early
        /\ pc'[r] \in Written <=> pc[r] \in Written
        /\ pc'[r] \in Over <=> pc[r] \in Over
        /\ pc'[r] \in Failed <=> pc[r] \in Failed
        /\ pc'[r] = "accept" <=> pc[r] = "accept"
  BY Places DEF Stays, Written
<1>2. \A r \in Rank : Decided(r)' = Decided(r)
  BY <1>1 DEF Decided
<1>3. \A r \in Rank : OwnClock(r)'
  BY <1>1 DEF ClockInv, OwnClock
<1>4. \A r \in Rank : OwnFiles(r)'
  BY <1>1, <1>2 DEF ClockInv, OwnFiles
<1>5. \A q, r \in Rank : InStep(q, r)'
  BY <1>1 DEF ClockInv, InStep
<1>6. \A q, r \in Rank : SameFiles(q, r)'
  BY <1>2 DEF ClockInv, SameFiles
<1>7. \A q, r \in Rank : SameOutput(q, r)'
  BY <1>1, <1>2 DEF ClockInv, SameOutput
<1> QED
  BY <1>3, <1>4, <1>5, <1>6, <1>7 DEF ClockInv

\* Some ranks fail where they are.
LEMMA FailingStep ==
  ASSUME TypeOK, ClockInv, UNCHANGED <<clock, files, accepted, localDt>>,
         \A r \in Rank : pc'[r] = pc[r] \/ pc'[r] \in Failed
  PROVE  ClockInv'
<1>1. \A r \in Rank :
        /\ accepted[r] \in Nat /\ Decided(r) \in Nat
        /\ pc'[r] = pc[r] => Decided(r)' = Decided(r)
        /\ Decided(r)' \in Nat /\ Decided(r)' <= Decided(r)
  BY ClockNumbers, Places DEF Decided
<1>2. \A r \in Rank : OwnClock(r)' /\ OwnFiles(r)'
  BY <1>1, Places DEF ClockInv, OwnClock, OwnFiles
<1>3. \A q, r \in Rank : InStep(q, r)'
  BY Places DEF ClockInv, InStep, Failed
<1>4. \A q, r \in Rank : SameFiles(q, r)'
  BY <1>1 DEF ClockInv, SameFiles
<1>5. \A q, r \in Rank : SameOutput(q, r)'
  BY <1>1 DEF ClockInv, SameOutput
<1> QED
  BY <1>2, <1>3, <1>4, <1>5 DEF ClockInv

-----------------------------------------------------------------------------
(* The steps that move the clock. *)

\* One rank leaves the loop, or begins a step.
LEMMA LoopClock ==
  ASSUME TypeOK, ClockInv, NEW s \in Rank, BeginStep(s) \/ LeaveLoop(s)
  PROVE  ClockInv'
<1>1. /\ pc[s] = "loop" /\ UNCHANGED <<files, accepted, localDt>>
      /\ \A r \in Rank \ {s} : pc'[r] = pc[r] /\ clock'[r] = clock[r]
      /\ clock'[s].time = clock[s].time /\ clock'[s].dt = clock[s].dt
      /\ clock'[s].lastOutput = clock[s].lastOutput
  BY DEF BeginStep, LeaveLoop, Goto, TypeOK, schedule, Clock
<1>2. \/ /\ pc'[s] = "finish" /\ clock[s].time >= EndTime
         /\ clock'[s].step = clock[s].step
      \/ /\ pc'[s] = "finish" /\ clock[s].step + 1 > MaxTimeStep
         /\ clock'[s].step = clock[s].step + 1
      \/ /\ pc'[s] = "preprocess" /\ clock[s].step + 1 <= MaxTimeStep
         /\ clock'[s].step = clock[s].step + 1 /\ clock[s].time < EndTime
  <2>1. CASE LeaveLoop(s)
    BY <2>1 DEF LeaveLoop, Goto, TypeOK, schedule
  <2>2. CASE BeginStep(s)
    <3>1. clock[s].step \in Nat /\ MaxTimeStep \in Nat
      BY ClockNumbers, ClockAssumption
    <3>2. clock'[s].step = clock[s].step + 1 /\ clock[s].time < EndTime
      BY <2>2 DEF BeginStep, TypeOK, Clock
    <3>3. pc'[s] = IF clock[s].step + 1 > MaxTimeStep THEN "finish" ELSE "preprocess"
      BY <2>2 DEF BeginStep, Goto, TypeOK
    <3> QED
      BY <3>1, <3>2, <3>3
  <2> QED
    BY <2>1, <2>2
<1>3. /\ "loop" \in Idle /\ "finish" \in Over /\ "preprocess" \in Early
      /\ "loop" \notin Written /\ "finish" \notin Written /\ "preprocess" \notin Written
      /\ "loop" \notin Failed
  BY Places DEF Idle, Over, Early, Failed
<1>4. \A r \in Rank : Decided(r)' = Decided(r)
  BY <1>1, <1>2, <1>3 DEF Decided
<1>5. \A r \in Rank :
        /\ accepted[r] \in Nat /\ Decided(r) \in Nat
        /\ clock[r].step \in Nat /\ clock[r].time \in Nat
        /\ files[r] \subseteq Nat
  BY ClockNumbers
<1>6. OwnClock(s) /\ OwnFiles(s) /\ clock[s].step = accepted[s]
  BY <1>1, <1>3 DEF ClockInv, OwnClock
<1>7. OwnClock(s)'
  <2> USE ClockAssumption
  <2>1. pc'[s] \notin Idle
    BY <1>2, <1>3, Places
  <2>2. accepted'[s] <= MaxTimeStep /\ clock'[s].dt \in Dts /\ localDt'[s] \in Dts
    BY <1>1, <1>6 DEF OwnClock
  <2>3. clock'[s].step \in {accepted'[s], accepted'[s] + 1}
    BY <1>1, <1>2, <1>6
  <2>4. ASSUME pc'[s] \in Early \cup Written
        PROVE  /\ clock'[s].step = accepted'[s] + 1 /\ clock'[s].step <= MaxTimeStep
               /\ clock'[s].time < EndTime
    <3>1. pc'[s] = "preprocess"
      BY <1>2, <1>3, <2>4, Places
    <3> QED
      BY <1>1, <1>2, <1>6, <3>1
  <2>5. ASSUME pc'[s] \in Over
        PROVE  \/ clock'[s].step = accepted'[s] /\ clock'[s].time >= EndTime
               \/ accepted'[s] = MaxTimeStep /\ clock'[s].step = MaxTimeStep + 1
    <3>1. pc'[s] = "finish"
      BY <1>2, <1>3, <2>5, Places
    <3>2. accepted[s] <= MaxTimeStep
      BY <1>6 DEF OwnClock
    <3> QED
      BY <1>1, <1>2, <1>5, <1>6, <3>1, <3>2
  <2> QED
    BY <2>1, <2>2, <2>3, <2>4, <2>5 DEF OwnClock
<1>8. OwnFiles(s)'
  <2>1. \A n \in files'[s] : n <= Decided(s)'
    BY <1>1, <1>3, <1>4, <1>6 DEF OwnFiles
  <2>2. pc'[s] \notin Written
    BY <1>2, <1>3
  <2>3. ASSUME clock'[s].step = accepted'[s], clock'[s].step > 0, clock'[s].time >= EndTime
        PROVE  clock'[s].step \in files'[s]
    BY <1>1, <1>2, <1>3, <1>5, <1>6, <2>3 DEF OwnFiles
  <2> QED
    BY <2>1, <2>2, <2>3 DEF OwnFiles
<1>9. \A r \in Rank \ {s} : OwnClock(r)' /\ OwnFiles(r)'
  BY <1>1, <1>4 DEF ClockInv, OwnClock, OwnFiles
<1>10. \A q, r \in Rank : InStep(q, r)'
  BY <1>1, <1>2 DEF ClockInv, InStep, Failed
<1>11. \A q, r \in Rank : SameFiles(q, r)'
  BY <1>1, <1>4 DEF ClockInv, SameFiles
<1>12. \A q, r \in Rank : SameOutput(q, r)'
  <2>1. \A r \in Rank :
          /\ clock'[r].lastOutput = clock[r].lastOutput
          /\ clock'[r].time = clock[r].time /\ clock'[r].dt = clock[r].dt
          /\ pc'[r] \notin Failed => pc[r] \notin Failed
    BY <1>1, <1>3
  <2> QED
    BY <1>1, <1>4, <2>1 DEF ClockInv, SameOutput
<1> QED
  BY <1>7, <1>8, <1>9, <1>10, <1>11, <1>12 DEF ClockInv

\* The reduction: everyone is before the output of the same step.
LEMMA ReduceClock ==
  ASSUME TypeOK, ClockInv, ReduceTimestep
  PROVE  ClockInv'
<1>1. PICK s \in Rank :
        clock' = [q \in Rank |-> [clock[q] EXCEPT !.dt = localDt[s]]]
  BY DEF ReduceTimestep
<1>2. /\ \A r \in Rank :
           /\ pc[r] = "reduce_dt" /\ pc'[r] = "output"
           /\ clock'[r].dt = localDt[s] /\ clock'[r].step = clock[r].step
           /\ clock'[r].time = clock[r].time /\ clock'[r].lastOutput = clock[r].lastOutput
      /\ UNCHANGED <<files, accepted, localDt>>
  <2>1. \A r \in Rank : pc[r] = "reduce_dt" /\ pc'[r] = "output"
    BY DEF ReduceTimestep, EveryoneGoto, Everyone
  <2>2. UNCHANGED <<files, accepted, localDt>>
    BY DEF ReduceTimestep
  <2>3. \A r \in Rank : clock[r] \in Clock
    BY ClockFields
  <2> QED
    BY <1>1, <2>1, <2>2, <2>3 DEF Clock
<1>3. /\ {"reduce_dt", "output"} \subseteq Early
      /\ \A p \in {"reduce_dt", "output"} : p \notin Idle \cup Written \cup Over \cup Failed
  BY Places DEF Early
<1>4. \A r \in Rank : Decided(r) = accepted[r] /\ Decided(r)' = accepted[r]
  BY <1>2, <1>3 DEF Decided
<1>5. \A r \in Rank : accepted[r] \in Nat
  BY ClockNumbers
<1>6. \A q, r \in Rank : accepted[q] # accepted[r] + 1
  BY <1>2, <1>3 DEF ClockInv, InStep
<1>7. \A r \in Rank : OwnClock(r)'
  BY <1>2, <1>3 DEF ClockInv, OwnClock
<1>8. \A r \in Rank : OwnFiles(r)'
  BY <1>2, <1>3, <1>4 DEF ClockInv, OwnFiles
<1>9. \A q, r \in Rank : InStep(q, r)'
  BY <1>2, <1>6 DEF ClockInv, InStep
<1>10. \A q, r \in Rank : SameFiles(q, r)'
  BY <1>2, <1>4 DEF ClockInv, SameFiles
<1>11. \A q, r \in Rank : SameOutput(q, r)'
  BY <1>2, <1>3, <1>4, <1>6 DEF ClockInv, SameOutput
<1> QED
  BY <1>7, <1>8, <1>9, <1>10, <1>11 DEF ClockInv

\* The energy check: everyone goes on to accept the same step.
LEMMA CheckClock ==
  ASSUME TypeOK, ClockInv, CheckEnergy
  PROVE  ClockInv'
<1>1. /\ \A r \in Rank : pc[r] = "energy" /\ pc'[r] = "accept"
      /\ UNCHANGED <<clock, files, accepted, localDt>>
  BY DEF CheckEnergy, EveryoneGoto, Everyone, schedule
<1>2. /\ {"energy", "accept"} \subseteq Written
      /\ \A p \in {"energy", "accept"} : p \notin Idle \cup Early \cup Over \cup Failed
  BY Places DEF Written, Late
<1>3. \A r \in Rank : Decided(r)' = Decided(r)
  BY <1>1, <1>2 DEF Decided
<1>4. \A r \in Rank : OwnClock(r)' /\ OwnFiles(r)'
  BY <1>1, <1>2, <1>3 DEF ClockInv, OwnClock, OwnFiles
<1>5. \A q, r \in Rank : accepted[q] # accepted[r] + 1
  BY <1>1, <1>2 DEF ClockInv, InStep
<1>6. \A q, r \in Rank : InStep(q, r)'
  BY <1>1, <1>5 DEF ClockInv, InStep
<1>7. \A q, r \in Rank : SameFiles(q, r)' /\ SameOutput(q, r)'
  BY <1>1, <1>2, <1>3 DEF ClockInv, SameFiles, SameOutput
<1> QED
  BY <1>4, <1>6, <1>7 DEF ClockInv

\* A rank decides the output of its step: no live rank is behind it.
LEMMA WriteClock ==
  ASSUME TypeOK, ClockInv, NEW s \in Rank, WriteSolution(s)
  PROVE  ClockInv'
<1> DEFINE c == clock[s]
           wrote == Writes(c.step, c.time, c.dt, c.lastOutput)
<1>1. /\ pc[s] = "output" /\ pc'[s] = "boundary" /\ UNCHANGED <<accepted, localDt>>
      /\ \A r \in Rank \ {s} :
           pc'[r] = pc[r] /\ clock'[r] = clock[r] /\ files'[r] = files[r]
  BY DEF WriteSolution, WriteFile, Goto, TypeOK
<1>2. /\ clock'[s].step = c.step /\ clock'[s].time = c.time /\ clock'[s].dt = c.dt
      /\ clock'[s].lastOutput = NextOutput(c.step, c.time, c.lastOutput)
  <2>1. c \in Clock
    BY ClockFields
  <2>2. clock'[s] = [c EXCEPT !.lastOutput = NextOutput(c.step, c.time, c.lastOutput)]
    BY DEF WriteSolution, WriteFile, TypeOK, NextOutput, OnStepInterval, OnTimeInterval
  <2> QED
    BY <2>1, <2>2 DEF Clock
<1>3. files'[s] = IF wrote THEN files[s] \cup {c.step} ELSE files[s]
  BY DEF WriteSolution, WriteFile, TypeOK, Writes, OnStepInterval, OnTimeInterval, OnLastStep
<1>4. c.time + c.dt >= EndTime => wrote
  BY DEF Writes
<1> HIDE DEF wrote
<1>5. /\ "output" \in Early /\ "boundary" \in Written
      /\ "output" \notin Idle \cup Written \cup Over \cup Failed
      /\ "boundary" \notin Idle \cup Early \cup Over \cup Failed
  BY Places DEF Early, Written, Late
<1>6. \A r \in Rank : accepted[r] \in Nat /\ Decided(r) \in Nat /\ files[r] \subseteq Nat
  BY ClockNumbers
<1>7. /\ Decided(s) = accepted[s] /\ Decided(s)' = accepted[s] + 1
      /\ \A r \in Rank \ {s} : Decided(r)' = Decided(r)
  BY <1>1, <1>5 DEF Decided
<1>8. OwnClock(s) /\ OwnFiles(s) /\ c.step = accepted[s] + 1
  BY <1>1, <1>5 DEF ClockInv, OwnClock
<1>9. OwnClock(s)'
  BY <1>1, <1>2, <1>5, <1>8 DEF OwnClock
<1>10. OwnFiles(s)'
  <2>1. \A n \in files'[s] : n <= Decided(s)'
    BY <1>1, <1>3, <1>5, <1>6, <1>7, <1>8 DEF OwnFiles
  <2>2. clock'[s].time + clock'[s].dt >= EndTime => clock'[s].step \in files'[s]
    BY <1>2, <1>3, <1>4
  <2> QED
    BY <1>1, <1>5, <2>1, <2>2 DEF OwnFiles
<1>11. \A r \in Rank \ {s} : OwnClock(r)' /\ OwnFiles(r)'
  BY <1>1, <1>7 DEF ClockInv, OwnClock, OwnFiles
<1>12. \A q, r \in Rank : InStep(q, r)'
  BY <1>1, <1>2 DEF ClockInv, InStep, Failed
\* Nobody is an accepted step ahead, and nobody live is behind but in "accept".
<1>13. \A q \in Rank \ {s} :
         /\ accepted[q] <= accepted[s] /\ accepted[s] <= accepted[q] + 1
         /\ accepted[q] = accepted[s] =>
              pc[q] # "accept" /\ clock[q].time = c.time
         /\ accepted[q] # accepted[s] /\ pc[q] \notin Failed => pc[q] = "accept"
         /\ clock[q].dt = c.dt
  BY <1>1, <1>5, <1>6 DEF ClockInv, InStep
<1>14. \A n \in Nat : /\ n <= accepted[s] => (n \in files'[s] <=> n \in files[s])
                      /\ n = accepted[s] + 1 => (n \in files'[s] <=> wrote)
  <2>1. \A n \in files[s] : n <= accepted[s]
    BY <1>1, <1>5, <1>7, <1>8 DEF OwnFiles
  <2> QED
    BY <1>3, <1>6, <1>8, <2>1
<1>15. ASSUME NEW q \in Rank \ {s}, Decided(q) > accepted[s]
       PROVE  /\ Decided(q) = accepted[s] + 1 /\ pc[q] \notin Failed
              /\ clock[q].time = c.time /\ clock[q].dt = c.dt
              /\ clock[q].lastOutput = NextOutput(c.step, c.time, c.lastOutput)
              /\ accepted[s] + 1 \in files[q] <=> wrote
  <2>1. accepted[q] \in Nat /\ accepted[s] \in Nat
    BY <1>6
  <2>2. accepted[q] = accepted[s] /\ pc[q] \in Written
    BY <1>13, <1>15, <2>1 DEF Decided
  <2>3. Decided(q) = accepted[s] + 1 /\ pc[q] \notin Failed /\ pc[s] \notin Failed
    BY <1>1, <1>5, <2>2, Places DEF Decided
  <2>4. SameOutput(q, s)
    BY DEF ClockInv
  <2>5. Decided(q) = Decided(s) + 1
    BY <1>7, <2>3
  <2> QED
    BY <1>8, <1>13, <2>2, <2>3, <2>4, <2>5 DEF SameOutput, wrote
<1>16. \A q, r \in Rank : SameFiles(q, r)'
  <2>1. ASSUME NEW q \in Rank \ {s}, NEW n \in Nat, n > 0, n <= Decided(q),
               n <= accepted[s] + 1
        PROVE  n \in files[q] <=> n \in files'[s]
    <3>1. CASE n <= accepted[s]
      <4>1. SameFiles(q, s)
        BY DEF ClockInv
      <4> QED
        BY <1>7, <1>14, <2>1, <3>1, <4>1 DEF SameFiles
    <3>2. CASE n = accepted[s] + 1
      <4>1. Decided(q) > accepted[s]
        BY <1>6, <2>1, <3>2
      <4> QED
        BY <1>14, <1>15, <3>2, <4>1
    <3> QED
      BY <1>6, <2>1, <3>1, <3>2
  <2>2. \A q, r \in Rank \ {s} : SameFiles(q, r)'
    BY <1>1, <1>7 DEF ClockInv, SameFiles
  <2>3. \A q \in Rank \ {s} : SameFiles(q, s)' /\ SameFiles(s, q)'
    BY <1>1, <1>7, <2>1 DEF SameFiles
  <2>4. SameFiles(s, s)'
    BY DEF SameFiles
  <2> QED
    BY <2>2, <2>3, <2>4
<1>17. \A q, r \in Rank : SameOutput(q, r)'
  <2>1. \A q, r \in Rank \ {s} : SameOutput(q, r)'
    BY <1>1, <1>7 DEF ClockInv, SameOutput
  <2>2. SameOutput(s, s)'
    BY <1>6, <1>7 DEF SameOutput
  <2>3. ASSUME NEW q \in Rank \ {s}, pc[q] \notin Failed
        PROVE  Decided(q) \in {accepted[s], accepted[s] + 1}
    <3>1. CASE accepted[q] = accepted[s]
      BY <1>6, <3>1 DEF Decided
    <3>2. CASE accepted[q] # accepted[s]
      <4>1. pc[q] = "accept"
        BY <1>13, <2>3, <3>2
      <4> QED
        BY <1>6, <1>13, <3>2, <4>1 DEF Decided, Written
    <3> QED
      BY <3>1, <3>2
  <2>4. ASSUME NEW q \in Rank \ {s}, pc[q] \notin Failed, Decided(q) = accepted[s]
        PROVE  SameOutput(q, s)' /\ SameOutput(s, q)'
    <3>1. clock[q].lastOutput = c.lastOutput
      BY <1>1, <1>5, <1>7, <2>4 DEF ClockInv, SameOutput
    <3>2. accepted[s] + 1 \in files'[s] <=> Writes(c.step, c.time, c.dt, c.lastOutput)
      BY <1>6, <1>14 DEF wrote
    <3> QED
      BY <1>1, <1>2, <1>6, <1>7, <1>8, <2>4, <3>1, <3>2 DEF SameOutput
  <2>5. ASSUME NEW q \in Rank \ {s}, pc[q] \notin Failed, Decided(q) = accepted[s] + 1
        PROVE  SameOutput(q, s)' /\ SameOutput(s, q)'
    <3>1. clock[q].lastOutput = clock'[s].lastOutput
      BY <1>2, <1>6, <1>15, <2>5
    <3> QED
      BY <1>1, <1>6, <1>7, <2>5, <3>1 DEF SameOutput
  <2>6. ASSUME NEW q \in Rank \ {s}, pc[q] \in Failed
        PROVE  SameOutput(q, s)' /\ SameOutput(s, q)'
    BY <1>1, <2>6 DEF SameOutput
  <2> QED
    BY <2>1, <2>2, <2>3, <2>4, <2>5, <2>6
<1> QED
  BY <1>9, <1>10, <1>11, <1>12, <1>16, <1>17 DEF ClockInv

\* A rank accepts the step: the others are about to, have, or have failed.
LEMMA AcceptClock ==
  ASSUME TypeOK, ClockInv, NEW s \in Rank, AcceptSolution(s)
  PROVE  ClockInv'
<1> DEFINE c == clock[s]
<1>1. /\ pc[s] = "accept" /\ pc'[s] = "loop" /\ UNCHANGED <<files, localDt>>
      /\ \A r \in Rank \ {s} :
           pc'[r] = pc[r] /\ clock'[r] = clock[r] /\ accepted'[r] = accepted[r]
      /\ accepted'[s] = accepted[s] + 1
  BY DEF AcceptSolution, Goto, TypeOK
<1>2. /\ clock'[s].step = c.step /\ clock'[s].time = c.time + c.dt /\ clock'[s].dt = c.dt
      /\ clock'[s].lastOutput = c.lastOutput
  <2>1. c \in Clock
    BY ClockFields
  <2>2. clock'[s] = [c EXCEPT !.time = c.time + c.dt]
    BY DEF AcceptSolution, TypeOK
  <2> QED
    BY <2>1, <2>2 DEF Clock
<1>3. /\ "accept" \in Written /\ "loop" \in Idle
      /\ "accept" \notin Idle \cup Early \cup Over \cup Failed
      /\ "loop" \notin Written \cup Early \cup Over \cup Failed
  BY Places DEF Idle, Written
<1>4. \A r \in Rank :
        /\ accepted[r] \in Nat /\ Decided(r) \in Nat /\ files[r] \subseteq Nat
        /\ clock[r].time \in Nat /\ clock[r].dt \in Nat
  BY ClockNumbers
<1>5. \A r \in Rank : Decided(r)' = Decided(r)
  BY <1>1, <1>3 DEF Decided
<1>6. Decided(s) = accepted[s] + 1
  BY <1>1, <1>3 DEF Decided
<1>7. OwnClock(s) /\ OwnFiles(s) /\ c.step = accepted[s] + 1 /\ c.step <= MaxTimeStep
  BY <1>1, <1>3 DEF ClockInv, OwnClock
<1>8. OwnClock(s)'
  BY <1>1, <1>2, <1>3, <1>4, <1>7 DEF OwnClock
<1>9. OwnFiles(s)'
  BY <1>1, <1>2, <1>3, <1>5, <1>7 DEF OwnFiles
<1>10. \A r \in Rank \ {s} : OwnClock(r)' /\ OwnFiles(r)'
  BY <1>1, <1>5 DEF ClockInv, OwnClock, OwnFiles
<1>11. \A q \in Rank \ {s} :
         /\ accepted[q] \in {accepted[s], accepted[s] + 1} /\ clock[q].dt = c.dt
         /\ accepted[q] = accepted[s] =>
              pc[q] \in {"accept"} \cup Failed /\ clock[q].time = c.time
         /\ accepted[q] = accepted[s] + 1 =>
              pc[q] # "accept" /\ clock[q].time = c.time + c.dt
  <2> SUFFICES ASSUME NEW q \in Rank \ {s}
               PROVE  /\ accepted[q] \in {accepted[s], accepted[s] + 1} /\ clock[q].dt = c.dt
                      /\ accepted[q] = accepted[s] =>
                           pc[q] \in {"accept"} \cup Failed /\ clock[q].time = c.time
                      /\ accepted[q] = accepted[s] + 1 =>
                           pc[q] # "accept" /\ clock[q].time = c.time + c.dt
    OBVIOUS
  <2>1. InStep(q, s) /\ InStep(s, q)
    BY DEF ClockInv
  <2> QED
    BY <1>1, <1>4, <2>1 DEF InStep
<1>12. \A q, r \in Rank : InStep(q, r)'
  <2>1. \A q, r \in Rank \ {s} : InStep(q, r)'
    BY <1>1 DEF ClockInv, InStep
  <2>2. InStep(s, s)'
    BY <1>1, <1>4 DEF InStep
  <2>3. \A q \in Rank \ {s} : InStep(q, s)' /\ InStep(s, q)'
    BY <1>1, <1>2, <1>4, <1>11 DEF InStep
  <2> QED
    BY <2>1, <2>2, <2>3
<1>13. \A q, r \in Rank : SameFiles(q, r)'
  BY <1>1, <1>5 DEF ClockInv, SameFiles
<1>14. \A q, r \in Rank : SameOutput(q, r)'
  <2>1. \A q \in Rank, r \in Rank : q # s => SameOutput(q, r)'
    BY <1>1, <1>2, <1>3, <1>5 DEF ClockInv, SameOutput
  <2>2. \A q \in Rank \ {s} : pc[q] \notin Failed => Decided(s) # Decided(q) + 1
    BY <1>3, <1>4, <1>6, <1>11 DEF Decided
  <2>3. Decided(s) # Decided(s) + 1
    BY <1>4
  <2>4. \A r \in Rank : SameOutput(s, r)'
    BY <1>1, <1>2, <1>3, <1>5, <2>2, <2>3 DEF ClockInv, SameOutput
  <2> QED
    BY <2>1, <2>4
<1> QED
  BY <1>8, <1>9, <1>10, <1>12, <1>13, <1>14 DEF ClockInv

-----------------------------------------------------------------------------
(* All other steps leave the clock alone and the ranks in their parts.     *)

LEMMA QuietGoto ==
  ASSUME TypeOK, ClockInv, NEW s \in Rank, NEW here, NEW there,
         Goto(s, here, there), UNCHANGED <<clock, files, accepted>>,
         UNCHANGED localDt \/ \E dt \in LocalDts : localDt' = [localDt EXCEPT ![s] = dt],
         \E part \in {Idle, Early, Late, Over} : here \in part /\ there \in part
  PROVE  ClockInv'
<1>1. \A r \in Rank : Stays(r)
  BY DEF Goto, TypeOK, Stays
<1>2. \A r \in Rank : localDt'[r] \in Dts
  BY DEF ClockInv, OwnClock, Dts, TypeOK
<1> QED
  BY <1>1, <1>2, QuietStep

LEMMA QuietTogether ==
  ASSUME TypeOK, ClockInv, NEW part \in {Idle, Early, Late},
         \A r \in Rank : pc[r] \in part /\ pc'[r] \in part,
         UNCHANGED <<clock, files, accepted, localDt>>
  PROVE  ClockInv'
<1>1. \A r \in Rank : Stays(r) /\ localDt'[r] \in Dts
  BY DEF Stays, ClockInv, OwnClock
<1> QED
  BY <1>1, QuietStep

LEMMA QuietPass ==
  ASSUME TypeOK, ClockInv, NEW s \in Rank, NEW here, NEW there, NEW groups,
         Pass(s, here, groups, there),
         \E part \in {Idle, Early, Late, Over} : here \in part /\ there \in part
  PROVE  ClockInv'
BY QuietGoto DEF Pass, schedule

\* Where the branches of the program go.
LEMMA Branches ==
  ASSUME NEW r \in Rank, NEW s
  PROVE  /\ AfterPartition(s) \in Early /\ AfterAmr(r, s) \in Early
         /\ AfterPreProcess(r) \in Early
         /\ \A site \in {"hanging_exchange", "matrix_exchange", "relaxed_exchange",
                         "aggregate_exchange"} : IfLayer(r, site) \in Late
BY DEF AfterPartition, AfterAmr, AfterPreProcess, IfLayer, ExchangeThen, Early, Late

LEMMA RankClock ==
  ASSUME TypeOK, PostedInExchange, ClockInv, NEW s \in Rank, RankStep(s)
  PROVE  ClockInv'
<1>1. CASE Loop(s)
  <2>1. CASE PreProcess(s)
    <3>1. "preprocess" \in Early
      BY DEF Early
    <3> QED
      BY <2>1, <3>1, Branches, QuietPass DEF PreProcess
  <2>2. CASE Finish(s)
    <3>1. "finish" \in Over /\ "done" \in Over
      BY DEF Over
    <3> QED
      BY <2>2, <3>1, QuietGoto DEF Finish, schedule
  <2> QED
    BY <1>1, <2>1, <2>2, LoopClock DEF Loop
<1>2. CASE Adapt(s)
  <2>1. {"tag", "coarsen", "refresh", "recheck", "refresh_exchange"} \subseteq Early
    BY DEF Early
  <2>2. CASE TagCoarsening(s)
    BY <2>1, <2>2, QuietPass DEF TagCoarsening
  <2>3. CASE Refresh(s)
    BY <2>1, <2>3, QuietGoto DEF Refresh, schedule
  <2> QED
    BY <1>2, <2>2, <2>3 DEF Adapt
<1>3. CASE Control(s)
  <2>1. {"predict", "reduce_dt"} \subseteq Early
    BY DEF Early
  <2>2. CASE PredictTimestep(s)
    BY <2>1, <2>2, QuietGoto DEF PredictTimestep
  <2> QED
    BY <1>3, <2>2, WriteClock DEF Control
<1>4. CASE Assemble(s)
  <2>1. {"boundary", "halftime", "geometry", "nodal_boundary", "boundary_exchange",
         "hanging_info", "parent_edge", "stamp_exchange", "validate", "matrix",
         "conservative"} \subseteq Late
    BY DEF Late
  <2>2. CASE Boundary(s) \/ HalfTime(s) \/ CornerGeometry(s) \/ ValidateStamps(s)
    BY <2>1, <2>2, QuietPass DEF Boundary, HalfTime, CornerGeometry, ValidateStamps
  <2>3. CASE NodalBoundary(s) \/ ParentEdge(s)
    BY <2>1, <2>3, QuietGoto DEF NodalBoundary, ParentEdge, schedule
  <2>4. CASE HangingInfo(s)
    BY <2>1, <2>4, Branches, QuietPass DEF HangingInfo
  <2> QED
    BY <1>4, <2>2, <2>3, <2>4 DEF Assemble
<1>5. CASE Solve(s)
  <2>1. {"matrix", "point", "point_exchange", "corner", "corner_exchange", "relaxed",
         "hanging_matrix", "hanging_solve", "velocity_exchange", "force",
         "conservative"} \subseteq Late
    BY DEF Late
  <2>2. CASE CornerMatrix(s) \/ RelaxedInfo(s) \/ HangingMatrix(s)
    BY <2>1, <2>2, Branches, QuietPass DEF CornerMatrix, RelaxedInfo, HangingMatrix
  <2>3. CASE PointMatrix(s) \/ CornerVelocity(s) \/ HangingSolve(s) \/ CornerForce(s)
    BY <2>1, <2>3, QuietPass DEF PointMatrix, CornerVelocity, HangingSolve, CornerForce
  <2> QED
    BY <1>5, <2>2, <2>3 DEF Solve
<1>6. CASE Update(s)
  <2>1. {"conservative", "energy"} \subseteq Late
    BY DEF Late
  <2>2. CASE ConservativeUpdates(s)
    BY <2>1, <2>2, QuietPass DEF ConservativeUpdates
  <2> QED
    BY <1>6, <2>2, AcceptClock DEF Update
<1>7. CASE Exchange(s)
  <2>1. CASE BeginExchange(s)
    <3>1. \A r \in Rank : Stays(r) /\ localDt'[r] \in Dts
      BY <2>1 DEF BeginExchange, schedule, Stays, ClockInv, OwnClock
    <3> QED
      BY <2>1, <3>1, QuietStep DEF BeginExchange, schedule
  <2>2. CASE EndExchange(s)
    <3>1. pc[s] \in ExchangeSite
      BY <2>2 DEF EndExchange, PostedInExchange
    <3>2. \E part \in {Idle, Early, Late, Over} :
            pc[s] \in part /\ ExchangeThen[pc[s]] \in part
      BY <3>1 DEF ExchangeSite, ExchangeThen, Idle, Early, Late
    <3> QED
      BY <2>2, <3>2, QuietGoto DEF EndExchange, Goto, schedule
  <2> QED
    BY <1>7, <2>1, <2>2 DEF Exchange
<1> QED
  BY <1>1, <1>2, <1>3, <1>4, <1>5, <1>6, <1>7 DEF RankStep

LEMMA CollectiveClock ==
  ASSUME TypeOK, ClockInv, Collective
  PROVE  ClockInv'
<1>1. CASE FirstLayer
  <2>1. "init_layer" \in Idle /\ "init_exchange" \in Idle
    BY DEF Idle
  <2> QED
    BY <1>1, <2>1, QuietTogether
    DEF FirstLayer, BuildLayer, EveryoneGoto, Everyone, schedule
<1>2. {"refine", "amr_layer", "amr_exchange", "coarsen", "amr_energy", "balance",
       "partition", "layer", "layer_exchange", "recheck", "refresh_exchange"}
         \subseteq Early
  BY DEF Early
<1>3. CASE RebuildLayer \/ NewLayer
  BY <1>2, <1>3, QuietTogether
  DEF RebuildLayer, NewLayer, BuildLayer, EveryoneGoto, Everyone, schedule
<1>4. CASE Refine \/ Coarsen \/ CheckAmrEnergy \/ RecheckRefresh
  BY <1>2, <1>4, QuietTogether
  DEF Refine, Coarsen, CheckAmrEnergy, RecheckRefresh, EveryoneGoto, Everyone, schedule
<1>5. CASE Balance
  <2>1. \A r \in Rank : pc'[r] \in Early
    BY <1>5, Branches DEF Balance
  <2> QED
    BY <1>2, <1>5, <2>1, QuietTogether DEF Balance, Everyone, schedule
<1>6. CASE Partition
  <2>1. \A r \in Rank : pc'[r] \in Early
    BY <1>6, Branches DEF Partition
  <2> QED
    BY <1>2, <1>6, <2>1, QuietTogether DEF Partition, Everyone, schedule
<1> QED
  BY <1>1, <1>3, <1>4, <1>5, <1>6, ReduceClock, CheckClock DEF Collective

LEMMA NextClock == LayerInv /\ ClockInv /\ [Next]_vars => ClockInv'
<1> SUFFICES ASSUME LayerInv, ClockInv, [Next]_vars
             PROVE  ClockInv'
  OBVIOUS
<1>1. TypeOK /\ PostedInExchange
  BY DEF LayerInv
<1>2. ASSUME NEW r \in Rank, AbortInPass(r) \/ Kill(r)
      PROVE  ClockInv'
  <2>1. \A q \in Rank : pc'[q] = pc[q] \/ pc'[q] \in Failed
    BY <1>1, <1>2 DEF AbortInPass, Kill, Goto, TypeOK, Failed
  <2> QED
    BY <1>1, <1>2, <2>1, FailingStep DEF AbortInPass, Kill, schedule
<1>3. CASE AbortTogether
  <2>1. \A q \in Rank : pc'[q] \in Failed
    BY <1>3 DEF AbortTogether, EveryoneGoto, Failed
  <2> QED
    BY <1>1, <1>3, <2>1, FailingStep DEF AbortTogether, schedule
<1>4. CASE UNCHANGED vars
  BY <1>1, <1>4, FailingStep DEF vars, schedule
<1> QED
  BY <1>1, <1>2, <1>3, <1>4, RankClock, CollectiveClock DEF Next, Terminated

-----------------------------------------------------------------------------
(* Theorems. *)

\* Every reachable state satisfies the invariant of the clocks.
THEOREM ClockInvariant == Spec => []ClockInv
<1> QED
  BY InitClock, NextClock, LayerInvariant, PTL DEF Spec

\* Any two ranks have written the same files of the steps both have behind
\* them, whatever the intervals and wherever a rank has failed.
THEOREM FilesAgree == Spec => []OutputsAgree
<1>1. LayerInv /\ ClockInv => OutputsAgree
  <2> SUFFICES ASSUME LayerInv, ClockInv, NEW q \in Rank, NEW r \in Rank,
                      clock[q].step <= clock[r].step, NEW n \in 1..(clock[q].step - 1)
               PROVE  n \in files[q] <=> n \in files[r]
    BY DEF OutputsAgree
  <2>1. TypeOK
    BY DEF LayerInv
  <2>2. /\ accepted[q] \in Nat /\ accepted[r] \in Nat
        /\ clock[q].step \in Nat /\ clock[r].step \in Nat
    BY <2>1, ClockNumbers
  <2>3. clock[q].step <= accepted[q] + 1 /\ clock[r].step <= accepted[r] + 1
    BY <2>2 DEF ClockInv, OwnClock
  <2>4. n <= Decided(q) /\ n <= Decided(r) /\ n > 0 /\ n \in Nat
    BY <2>2, <2>3 DEF Decided
  <2> QED
    BY <2>4 DEF ClockInv, SameFiles
<1> QED
  BY <1>1, ClockInvariant, LayerInvariant, PTL

\* The step that reaches the end time is written, though that is decided
\* before the step is taken and two other branches may fire.
THEOREM LastStepIsWritten == Spec => []LastStepWritten
<1>1. LayerInv /\ ClockInv => LastStepWritten
  <2> SUFFICES ASSUME LayerInv, ClockInv, NEW r \in Rank, pc[r] = "done",
                      clock[r].step > 0, clock[r].step <= MaxTimeStep
               PROVE  clock[r].step \in files[r]
    BY DEF LastStepWritten
  <2>1. "done" \in Over
    BY DEF Over
  <2>2. clock[r].step \in Nat /\ MaxTimeStep \in Nat
    BY ClockNumbers, ClockAssumption DEF LayerInv
  <2>3. clock[r].step = accepted[r] /\ clock[r].time >= EndTime
    BY <2>1, <2>2 DEF ClockInv, OwnClock
  <2> QED
    BY <2>1, <2>3 DEF ClockInv, OwnFiles
<1> QED
  BY <1>1, ClockInvariant, LayerInvariant, PTL

-----------------------------------------------------------------------------
(* The refinement. *)

Running(r) == pc[r] \notin Stopped

LEMMA StatusFacts ==
  ASSUME NEW r \in Rank
  PROVE  /\ pc[r] = "done" => Status(r) = "done"
         /\ pc[r] \in Failed => Status(r) = "failed"
         /\ Running(r) => Status(r) = "running"
BY Zenon DEF Status, Failed, Running, Stopped

LEMMA StatusFactsPrime ==
  ASSUME NEW r \in Rank
  PROVE  /\ pc'[r] = "done" => Status(r)' = "done"
         /\ pc'[r] \in Failed => Status(r)' = "failed"
         /\ pc'[r] \notin Stopped => Status(r)' = "running"
BY Zenon DEF Status, Failed, Stopped

\* A step in which every rank that runs goes on, and no clock moves.
Unseen ==
  /\ UNCHANGED accepted
  /\ \A r \in Rank :
       /\ pc'[r] = pc[r] \/ (pc[r] \notin Stopped /\ pc'[r] \notin Stopped)
       /\ clock'[r].time = clock[r].time

LEMMA UnseenStutters ==
  ASSUME Unseen
  PROVE  UNCHANGED Abstract!vars
<1>1. \A r \in Rank : Status(r)' = Status(r)
  BY StatusFacts, StatusFactsPrime DEF Unseen, Status, Running
<1>2. [r \in Rank |-> Status(r)]' = [r \in Rank |-> Status(r)]
  BY <1>1
<1>3. [r \in Rank |-> clock[r].time]' = [r \in Rank |-> clock[r].time]
  BY DEF Unseen
<1> QED
  BY <1>2, <1>3 DEF Unseen, Abstract!vars

LEMMA UnseenGoto ==
  ASSUME TypeOK, NEW s \in Rank, NEW here, NEW there, Goto(s, here, there),
         here \notin Stopped, there \notin Stopped, UNCHANGED accepted,
         \A r \in Rank : clock'[r].time = clock[r].time
  PROVE  Unseen
BY DEF Unseen, Goto, TypeOK

LEMMA UnseenPass ==
  ASSUME TypeOK, NEW s \in Rank, NEW here, NEW there, NEW groups,
         Pass(s, here, groups, there), here \notin Stopped, there \notin Stopped
  PROVE  Unseen
BY UnseenGoto DEF Pass, schedule

LEMMA UnseenTogether ==
  ASSUME \A r \in Rank : pc[r] \notin Stopped /\ pc'[r] \notin Stopped,
         UNCHANGED accepted, \A r \in Rank : clock'[r].time = clock[r].time
  PROVE  Unseen
BY DEF Unseen

\* No branch of the program ends it.
LEMMA LiveBranches ==
  ASSUME NEW r \in Rank, NEW s
  PROVE  /\ AfterPartition(s) \notin Stopped /\ AfterAmr(r, s) \notin Stopped
         /\ AfterPreProcess(r) \notin Stopped
         /\ \A site \in {"hanging_exchange", "matrix_exchange", "relaxed_exchange",
                         "aggregate_exchange"} : IfLayer(r, site) \notin Stopped
BY DEF AfterPartition, AfterAmr, AfterPreProcess, IfLayer, ExchangeThen, Stopped

LEMMA UnseenRankStep ==
  ASSUME TypeOK, PostedInExchange, NEW s \in Rank, RankStep(s)
  PROVE  Unseen \/ Finish(s) \/ AcceptSolution(s)
<1>1. CASE Loop(s)
  <2>1. CASE PreProcess(s)
    <3>1. "preprocess" \notin Stopped
      BY DEF Stopped
    <3> QED
      BY <2>1, <3>1, LiveBranches, UnseenPass DEF PreProcess
  <2>2. CASE BeginStep(s) \/ LeaveLoop(s)
    <3>1. "loop" \notin Stopped /\ "preprocess" \notin Stopped /\ "finish" \notin Stopped
      BY DEF Stopped
    <3>2. UNCHANGED accepted /\ \A r \in Rank \ {s} : clock'[r] = clock[r]
      BY <2>2 DEF BeginStep, LeaveLoop, TypeOK, schedule
    <3>3. clock'[s].time = clock[s].time
      BY <2>2 DEF BeginStep, LeaveLoop, TypeOK, Clock, schedule
    <3>4. Goto(s, "loop", "preprocess") \/ Goto(s, "loop", "finish")
      BY <2>2 DEF BeginStep, LeaveLoop
    <3> QED
      BY <3>1, <3>2, <3>3, <3>4, UnseenGoto
  <2> QED
    BY <1>1, <2>1, <2>2 DEF Loop
<1>2. CASE Adapt(s)
  <2>1. \A here \in {"tag", "coarsen", "refresh", "recheck", "refresh_exchange"} :
          here \notin Stopped
    BY DEF Stopped
  <2>2. CASE TagCoarsening(s)
    BY <2>1, <2>2, UnseenPass DEF TagCoarsening
  <2>3. CASE Refresh(s)
    BY <2>1, <2>3, UnseenGoto DEF Refresh, schedule
  <2> QED
    BY <1>2, <2>2, <2>3 DEF Adapt
<1>3. CASE Control(s)
  <2>1. \A here \in {"predict", "reduce_dt", "output", "boundary"} : here \notin Stopped
    BY DEF Stopped
  <2>2. CASE PredictTimestep(s)
    BY <2>1, <2>2, UnseenGoto DEF PredictTimestep
  <2>3. CASE WriteSolution(s)
    <3>1. \A r \in Rank : clock'[r].time = clock[r].time
      BY <2>3 DEF WriteSolution, WriteFile, TypeOK, Clock
    <3> QED
      BY <2>1, <2>3, <3>1, UnseenGoto DEF WriteSolution, WriteFile
  <2> QED
    BY <1>3, <2>2, <2>3 DEF Control
<1>4. CASE Assemble(s)
  <2>1. \A here \in {"boundary", "halftime", "geometry", "nodal_boundary",
                     "boundary_exchange", "hanging_info", "parent_edge",
                     "stamp_exchange", "validate", "matrix", "conservative"} :
          here \notin Stopped
    BY DEF Stopped
  <2>2. CASE Boundary(s) \/ HalfTime(s) \/ CornerGeometry(s) \/ ValidateStamps(s)
    BY <2>1, <2>2, UnseenPass DEF Boundary, HalfTime, CornerGeometry, ValidateStamps
  <2>3. CASE NodalBoundary(s) \/ ParentEdge(s)
    BY <2>1, <2>3, UnseenGoto DEF NodalBoundary, ParentEdge, schedule
  <2>4. CASE HangingInfo(s)
    BY <2>1, <2>4, LiveBranches, UnseenPass DEF HangingInfo
  <2> QED
    BY <1>4, <2>2, <2>3, <2>4 DEF Assemble
<1>5. CASE Solve(s)
  <2>1. \A here \in {"matrix", "point", "point_exchange", "corner", "corner_exchange",
                     "relaxed", "hanging_matrix", "hanging_solve",
                     "velocity_exchange", "force", "conservative"} :
          here \notin Stopped
    BY DEF Stopped
  <2>2. CASE CornerMatrix(s) \/ RelaxedInfo(s) \/ HangingMatrix(s)
    BY <2>1, <2>2, LiveBranches, UnseenPass DEF CornerMatrix, RelaxedInfo, HangingMatrix
  <2>3. CASE PointMatrix(s) \/ CornerVelocity(s) \/ HangingSolve(s) \/ CornerForce(s)
    BY <2>1, <2>3, UnseenPass DEF PointMatrix, CornerVelocity, HangingSolve, CornerForce
  <2> QED
    BY <1>5, <2>2, <2>3 DEF Solve
<1>6. CASE Update(s)
  <2>1. "conservative" \notin Stopped /\ "energy" \notin Stopped
    BY DEF Stopped
  <2>2. CASE ConservativeUpdates(s)
    BY <2>1, <2>2, UnseenPass DEF ConservativeUpdates
  <2> QED
    BY <1>6, <2>2 DEF Update
<1>7. CASE Exchange(s)
  <2>1. CASE BeginExchange(s)
    BY <2>1 DEF BeginExchange, schedule, Unseen
  <2>2. CASE EndExchange(s)
    <3>1. pc[s] \in ExchangeSite
      BY <2>2 DEF EndExchange, PostedInExchange
    <3>2. pc[s] \notin Stopped /\ ExchangeThen[pc[s]] \notin Stopped
      BY <3>1 DEF ExchangeSite, ExchangeThen, Stopped
    <3> QED
      BY <2>2, <3>2, UnseenGoto DEF EndExchange, Goto, schedule
  <2> QED
    BY <1>7, <2>1, <2>2 DEF Exchange
<1> QED
  BY <1>1, <1>2, <1>3, <1>4, <1>5, <1>6, <1>7 DEF RankStep

LEMMA UnseenCollective ==
  ASSUME TypeOK, Collective
  PROVE  Unseen
<1>1. \A here \in CollectiveSite \cup {"init_exchange", "amr_exchange", "layer_exchange",
                                      "refresh_exchange", "output", "accept"} :
        here \notin Stopped
  BY DEF CollectiveSite, Stopped
<1>2. UNCHANGED accepted
  BY DEF Collective, FirstLayer, RebuildLayer, NewLayer, BuildLayer, Refine, Coarsen,
         CheckAmrEnergy, Balance, Partition, RecheckRefresh, ReduceTimestep,
         CheckEnergy, schedule
<1>3. \A r \in Rank : clock'[r].time = clock[r].time
  <2>1. CASE ReduceTimestep
    BY <2>1 DEF ReduceTimestep, TypeOK, Clock
  <2>2. CASE ~ReduceTimestep
    BY <2>2 DEF Collective, FirstLayer, RebuildLayer, NewLayer, BuildLayer, Refine,
                Coarsen, CheckAmrEnergy, Balance, Partition, RecheckRefresh,
                CheckEnergy, schedule
  <2> QED
    BY <2>1, <2>2
<1>4. \A r \in Rank : pc[r] \notin Stopped /\ pc'[r] \notin Stopped
  <2>1. CASE FirstLayer \/ RebuildLayer \/ NewLayer
    BY <1>1, <2>1 DEF FirstLayer, RebuildLayer, NewLayer, BuildLayer, EveryoneGoto,
                      Everyone, CollectiveSite
  <2>2. CASE Refine \/ Coarsen \/ CheckAmrEnergy \/ RecheckRefresh \/ ReduceTimestep
             \/ CheckEnergy
    BY <1>1, <2>2 DEF Refine, Coarsen, CheckAmrEnergy, RecheckRefresh, ReduceTimestep,
                      CheckEnergy, EveryoneGoto, Everyone, CollectiveSite
  <2>3. CASE Balance
    BY <1>1, <2>3, LiveBranches DEF Balance, Everyone, CollectiveSite
  <2>4. CASE Partition
    BY <1>1, <2>4, LiveBranches DEF Partition, Everyone, CollectiveSite
  <2> QED
    BY <2>1, <2>2, <2>3, <2>4 DEF Collective
<1> QED
  BY <1>2, <1>3, <1>4, UnseenTogether

\* No step is longer than LargestLocalDt.
LEMMA LargestDtFacts ==
  LargestLocalDt \in Nat \ {0} /\ \A dt \in Dts : dt \in 1..LargestLocalDt
<1>1. LargestLocalDt \in Dts /\ \A dt \in Dts : dt <= LargestLocalDt
  BY LargestDtAssumption DEF LargestLocalDt, Dts
<1>2. Dts \subseteq Nat \ {0}
  BY ClockAssumption DEF Dts
<1> QED
  BY <1>1, <1>2

LEMMA AcceptRefines ==
  ASSUME TypeOK, ClockInv, NEW s \in Rank, AcceptSolution(s)
  PROVE  Abstract!Accept(s)
<1> DEFINE time == [r \in Rank |-> clock[r].time]
           status == [r \in Rank |-> Status(r)]
           dt == clock[s].dt
<1>1. /\ pc[s] = "accept" /\ pc'[s] = "loop"
      /\ \A r \in Rank \ {s} : pc'[r] = pc[r] /\ clock'[r] = clock[r]
      /\ clock'[s].time = clock[s].time + dt
      /\ accepted' = [accepted EXCEPT ![s] = @ + 1]
  BY DEF AcceptSolution, Goto, TypeOK, Clock
<1>2. "accept" \in Written /\ "accept" \notin Stopped /\ "loop" \notin Stopped
  BY DEF Written, Stopped
<1>3. /\ clock[s].step = accepted[s] + 1 /\ clock[s].step <= MaxTimeStep
      /\ clock[s].time < EndTime /\ dt \in Dts
  BY <1>1, <1>2 DEF ClockInv, OwnClock
<1>4. \A r \in Rank : accepted[r] \in Nat /\ clock[r].time \in Nat
  BY ClockNumbers
<1>5. status[s] = "running"
  BY <1>1, <1>2, StatusFacts DEF Running
<1>6. ~Abstract!AtEnd(s)
  <2>1. EndTime \in Nat /\ MaxTimeStep \in Nat
    BY ClockAssumption
  <2> QED
    BY <1>3, <1>4, <2>1 DEF Abstract!AtEnd
<1>7. ASSUME NEW q \in Rank
      PROVE  /\ accepted[q] >= accepted[s]
             /\ accepted[q] > accepted[s] => clock[q].time = clock[s].time + dt
  <2>1. InStep(q, s) /\ InStep(s, q)
    BY DEF ClockInv
  <2> QED
    BY <1>1, <1>4, <2>1 DEF InStep
<1>8. \A q \in Abstract!Ahead(s) : time[q] = time[s] + dt
  BY <1>7 DEF Abstract!Ahead
<1>9. time' = [time EXCEPT ![s] = @ + dt]
  BY <1>1
<1>10. status' = status
  <2>1. Status(s)' = Status(s)
    BY <1>1, <1>2, StatusFacts, StatusFactsPrime DEF Running
  <2>2. \A r \in Rank \ {s} : Status(r)' = Status(r)
    BY <1>1 DEF Status
  <2> QED
    BY <2>1, <2>2
<1>11. dt \in 1..LargestLocalDt
  BY <1>3, LargestDtFacts
<1> QED
  BY <1>1, <1>5, <1>6, <1>7, <1>8, <1>9, <1>10, <1>11 DEF Abstract!Accept

\* One rank's status changes, and nothing else.
LEMMA StatusStep ==
  ASSUME TypeOK, NEW s \in Rank, NEW there, pc' = [pc EXCEPT ![s] = there],
         UNCHANGED <<clock, accepted>>, pc[s] \notin Stopped
  PROVE  /\ Status(s) = "running"
         /\ [r \in Rank |-> Status(r)]'
              = [[r \in Rank |-> Status(r)] EXCEPT ![s] = Status(s)']
         /\ UNCHANGED <<accepted, [r \in Rank |-> clock[r].time]>>
<1>1. Status(s) = "running"
  BY StatusFacts DEF Running
<1>2. \A r \in Rank \ {s} : Status(r)' = Status(r)
  BY DEF Status, TypeOK
<1> QED
  BY <1>1, <1>2

LEMMA FinishRefines ==
  ASSUME TypeOK, ClockInv, NEW s \in Rank, Finish(s)
  PROVE  Abstract!Finish(s)
<1>1. /\ pc[s] = "finish" /\ pc' = [pc EXCEPT ![s] = "done"]
      /\ UNCHANGED <<clock, accepted>>
  BY DEF Finish, Goto, schedule
<1>2. "finish" \in Over /\ "finish" \notin Stopped
  BY DEF Over, Stopped
<1>3. clock[s].time >= EndTime \/ accepted[s] = MaxTimeStep
  BY <1>1, <1>2 DEF ClockInv, OwnClock
<1>4. Abstract!AtEnd(s)
  BY <1>3 DEF Abstract!AtEnd
<1>5. Status(s)' = "done"
  BY <1>1, StatusFactsPrime DEF TypeOK
<1> QED
  BY <1>1, <1>2, <1>4, <1>5, StatusStep DEF Abstract!Finish

LEMMA FailRefines ==
  ASSUME TypeOK, NEW s \in Rank, AbortInPass(s) \/ Kill(s)
  PROVE  Abstract!Fail(s)
<1>1. PICK there \in Failed :
        pc[s] \notin Stopped /\ pc' = [pc EXCEPT ![s] = there]
  BY DEF AbortInPass, Kill, Goto, AbortSite, Stopped, Failed
<1>2. UNCHANGED <<clock, accepted>>
  BY DEF AbortInPass, Kill, schedule
<1>3. Status(s)' = "failed"
  BY <1>1, StatusFactsPrime DEF TypeOK
<1> QED
  BY <1>1, <1>2, <1>3, StatusStep DEF Abstract!Fail

LEMMA FailTogetherRefines ==
  ASSUME AbortTogether
  PROVE  Abstract!FailTogether
<1>1. \A r \in Rank : pc[r] \notin Stopped /\ pc'[r] \in Failed
  BY DEF AbortTogether, EveryoneGoto, Everyone, Stopped, Failed
<1>2. \A r \in Rank : Status(r) = "running" /\ Status(r)' = "failed"
  BY <1>1, StatusFacts, StatusFactsPrime DEF Running
<1>3. UNCHANGED <<accepted, clock>>
  BY DEF AbortTogether, schedule
<1> QED
  BY <1>2, <1>3 DEF Abstract!FailTogether

\* The safety half of CommonClock: as far as the accepted steps, the times
\* and the ends of the ranks go, the driver's steps are those of TimeStepping.
THEOREM ImplementsTimeStepping ==
  Spec => Abstract!Init /\ [][Abstract!Next]_(Abstract!vars)
<1>1. Init => Abstract!Init
  <2> SUFFICES ASSUME Init PROVE Abstract!Init
    OBVIOUS
  <2>1. \A r \in Rank : pc[r] \notin Stopped /\ clock[r].time = 0
    BY DEF Init, Stopped
  <2>2. \A r \in Rank : Status(r) = "running"
    BY <2>1, StatusFacts DEF Running
  <2> QED
    BY <2>1, <2>2 DEF Init, Abstract!Init
<1>2. LayerInv /\ ClockInv /\ [Next]_vars => [Abstract!Next]_(Abstract!vars)
  <2> SUFFICES ASSUME LayerInv, ClockInv, [Next]_vars
               PROVE  Abstract!Next \/ UNCHANGED Abstract!vars
    OBVIOUS
  <2>1. TypeOK /\ PostedInExchange
    BY DEF LayerInv
  <2>2. ASSUME NEW s \in Rank, RankStep(s)
        PROVE  Abstract!Next \/ UNCHANGED Abstract!vars
    BY <2>1, <2>2, UnseenRankStep, UnseenStutters, AcceptRefines, FinishRefines
    DEF Abstract!Next
  <2>3. ASSUME NEW s \in Rank, AbortInPass(s) \/ Kill(s)
        PROVE  Abstract!Next
    BY <2>1, <2>3, FailRefines DEF Abstract!Next
  <2>4. CASE Collective
    BY <2>1, <2>4, UnseenCollective, UnseenStutters
  <2>5. CASE AbortTogether
    BY <2>5, FailTogetherRefines DEF Abstract!Next
  <2>6. CASE UNCHANGED vars
    BY <2>6, UnseenStutters DEF vars, schedule, Unseen
  <2> QED
    BY <2>2, <2>3, <2>4, <2>5, <2>6 DEF Next, Terminated
<1> QED
  BY <1>1, <1>2, ClockInvariant, LayerInvariant, PTL DEF Spec

-----------------------------------------------------------------------------
(***************************************************************************)
(* The messages.                                                           *)
(*                                                                         *)
(* Between two collectives the ranks are on their own, but on one path: it *)
(* is fixed by the step and the time, which they share (ClockInv).  Call   *)
(* an exchange or a collective a stop.  Two neighbours are at the same     *)
(* stop next, or one of them waits at a stop for the messages of all its   *)
(* neighbours while the other has got its own and is at the next (Abreast, *)
(* Leads).  The channel between them holds what the one has sent and the   *)
(* other not yet taken.  As to the data: what a rank has written and will  *)
(* have written before the next collective is the same for all (Total).    *)
(***************************************************************************)

Live(r) == pc[r] \notin Failed

-----------------------------------------------------------------------------
(* The path of a rank.                                                     *)

\* The step and the time with which a rank passes, or has passed, the head of
\* the loop.
StepOf(r) == IF pc[r] = "accept" THEN accepted[r] + 2 ELSE accepted[r] + 1
TimeOf(r) ==
  IF pc[r] = "accept" THEN clock[r].time + clock[r].dt ELSE clock[r].time

HeadSite == {"accept", "loop", "preprocess"}

Falls(step, time, period) ==
  step # 0 /\ step % period = 0 /\ time > RefineCoarsenTime

RefreshStop == IF CheckIdempotence THEN "recheck" ELSE "refresh_exchange"

\* The next stop from the head of the loop.
HeadStop(step, time) ==
  IF time >= EndTime \/ step > MaxTimeStep THEN "finish"
  ELSE IF Falls(step, time, RefinePeriod) THEN "refine"
  ELSE IF Falls(step, time, RepartitionPeriod) THEN "partition"
  ELSE RefreshStop

\* The next stop from the other passes.
StopFrom ==
  [tag |-> "coarsen",
   refresh |-> RefreshStop,
   predict |-> "reduce_dt",
   output |-> "boundary_exchange",
   boundary |-> "boundary_exchange",
   halftime |-> "boundary_exchange",
   geometry |-> "boundary_exchange",
   nodal_boundary |-> "boundary_exchange",
   hanging_info |-> "hanging_exchange",
   parent_edge |-> "stamp_exchange",
   validate |-> IF RunRiemann THEN "matrix_exchange" ELSE "energy",
   matrix |-> "matrix_exchange",
   point |-> "point_exchange",
   corner |-> "corner_exchange",
   relaxed |-> "relaxed_exchange",
   hanging_matrix |-> "aggregate_exchange",
   hanging_solve |-> "velocity_exchange",
   force |-> "energy",
   conservative |-> "energy",
   done |-> "finish"]

StopAt(site, step, time) ==
  IF site \in HeadSite THEN HeadStop(step, time)
  ELSE IF site \in DOMAIN StopFrom THEN StopFrom[site]
  ELSE site

NextStop(r) == StopAt(pc[r], StepOf(r), TimeOf(r))
StopAfter(r) == StopAt(ExchangeThen[NextStop(r)], StepOf(r), TimeOf(r))

\* How often a rank writes group g from a site up to the next collective.
Once(g, groups) == IF g \in groups THEN 1 ELSE 0
LeftFrom(g) ==
  LET force == Once(g, {"recon"})
      hanging_solve == Once(g, {"velo"}) + force
      hanging_matrix == Once(g, {"pt", "hang"}) + hanging_solve
      relaxed == Once(g, {"relx", "emcp"}) + hanging_matrix
      corner == Once(g, {"velo"}) + relaxed
      point == Once(g, {"pt"}) + corner
      matrix == Once(g, {"mcp", "recon"}) + point
      validate == IF RunRiemann THEN matrix ELSE 0
      parent_edge == Once(g, {"geo"}) + validate
      hanging_info == Once(g, {"hang"}) + parent_edge
      geometry == Once(g, {"geo"}) + hanging_info
      halftime == Once(g, {"half"}) + geometry
      boundary == Once(g, {"byd"}) + halftime
      refreshed == IF EqualDt THEN boundary ELSE 0
      refresh == Once(g, {"cur", "velo", "hang"})
                   + IF CheckIdempotence THEN 0 ELSE refreshed
  IN  [layer_exchange |-> refresh, refresh |-> refresh,
       refresh_exchange |-> refreshed,
       output |-> boundary, boundary |-> boundary, halftime |-> halftime,
       geometry |-> geometry, nodal_boundary |-> hanging_info,
       boundary_exchange |-> hanging_info, hanging_info |-> hanging_info,
       hanging_exchange |-> parent_edge, parent_edge |-> parent_edge,
       stamp_exchange |-> validate, validate |-> validate, matrix |-> matrix,
       matrix_exchange |-> point, point |-> point,
       point_exchange |-> corner, corner |-> corner,
       corner_exchange |-> relaxed, relaxed |-> relaxed,
       relaxed_exchange |-> hanging_matrix, hanging_matrix |-> hanging_matrix,
       aggregate_exchange |-> hanging_solve, hanging_solve |-> hanging_solve,
       velocity_exchange |-> force, force |-> force]

HeadLeft(g, step, time) ==
  IF HeadStop(step, time) = RefreshStop THEN LeftFrom(g).refresh ELSE 0

Left(site, g, step, time) ==
  IF site = "accept" THEN Once(g, {"cur"}) + HeadLeft(g, step, time)
  ELSE IF site \in {"init_exchange", "loop", "preprocess"} THEN HeadLeft(g, step, time)
  ELSE IF site \in DOMAIN LeftFrom(g) THEN LeftFrom(g)[site]
  ELSE 0

Total(r, g) == own[r][g] + Left(pc[r], g, StepOf(r), TimeOf(r))

-----------------------------------------------------------------------------
(* The invariant. *)

\* A message says what its receiver would say at the same call.
Good(m, r) ==
  /\ m.step = IF m.site = "init_exchange" THEN StepOf(r) - 1 ELSE StepOf(r)
  /\ m.forest = forest.version
  /\ \A g \in Group :
       m.versions[g] + Left(m.site, g, StepOf(r), TimeOf(r)) = Total(r, g)
  /\ m.site = "stamp_exchange" => m.stamps = {MakeStamp(session[r], StepOf(r))}

\* What has come from q is for the next two exchanges of r.
Inbox(q, r) ==
  LET c == channel[q][r]
  IN  /\ Len(c) <= 2
      /\ Len(c) > 0 => c[1].site = NextStop(r) /\ Good(c[1], r)
      /\ Len(c) > 1 => c[2].site = StopAfter(r) /\ Good(c[2], r)

Sent(r) == IF r \in posted THEN 1 ELSE 0

Abreast(q, r) ==
  /\ NextStop(q) = NextStop(r)
  /\ Len(channel[q][r]) = Sent(q) /\ Len(channel[r][q]) = Sent(r)
Leads(q, r) ==
  /\ r \in posted /\ NextStop(q) = StopAfter(r)
  /\ Len(channel[r][q]) = 0 /\ Len(channel[q][r]) = 1 + Sent(q)

\* What a rank can still send to a neighbour that has failed.
Room(q, r) == Len(channel[q][r]) + Len(channel[r][q]) + 1 - Sent(q) <= 2

Between(q, r) ==
  /\ Len(channel[q][r]) <= 2
  /\ Live(r) => Inbox(q, r) /\ Room(r, q)
  /\ Live(q) /\ Live(r) => Abreast(q, r) \/ Leads(q, r) \/ Leads(r, q)

\* Two sessions stamp alike.
SameSession(q, r) ==
  /\ session[q].generation = session[r].generation
  /\ session[q].topologyVersion = session[r].topologyVersion

SameTotal(q, r) ==
  Live(q) /\ Live(r) => \A g \in Group : Total(q, g) = Total(r, g)

Stamped(r) ==
  pc[r] \in {"stamp_exchange", "validate"} =>
    stamps[r] = {MakeStamp(session[r], StepOf(r))}

PathInv ==
  /\ \A q, r \in Rank : q \notin Neighbours(r) => channel[q][r] = <<>>
  /\ \A q, r \in Rank : SameSession(q, r) /\ SameTotal(q, r)
  /\ \A r \in Rank : \A q \in Neighbours(r) : Between(q, r)
  /\ \A r \in Rank : Stamped(r)

-----------------------------------------------------------------------------
(* The path. *)

\* A pass that writes the groups takes a rank from here to there.
Follows(here, groups, there, step, time) ==
  /\ StopAt(there, step, time) = StopAt(here, step, time)
  /\ \A g \in Group :
       Left(here, g, step, time) = Once(g, groups) + Left(there, g, step, time)

LEMMA LeftNumbers ==
  ASSUME NEW g \in Group
  PROVE  /\ \A site \in DOMAIN LeftFrom(g) : LeftFrom(g)[site] \in Nat
         /\ \A site, step, time : Left(site, g, step, time) \in Nat
<1>1. \A groups : Once(g, groups) \in {0, 1}
  BY DEF Once
<1>2. \A site \in DOMAIN LeftFrom(g) : LeftFrom(g)[site] \in Nat
  BY SwitchAssumption DEF LeftFrom, Once
<1>3. LeftFrom(g).refresh \in Nat
  BY <1>2 DEF LeftFrom
<1>4. \A step, time : HeadLeft(g, step, time) \in Nat
  BY <1>3 DEF HeadLeft
<1> QED
  BY <1>1, <1>2, <1>4 DEF Left, Once

LEMMA StopAtHead ==
  ASSUME NEW step, NEW time, NEW site \in HeadSite
  PROVE  StopAt(site, step, time) = HeadStop(step, time)
BY DEF StopAt

LEMMA StopInStage ==
  ASSUME NEW step, NEW time, NEW site \in DOMAIN StopFrom
  PROVE  StopAt(site, step, time) = StopFrom[site]
BY DEF StopAt, HeadSite, StopFrom

LEMMA StopHere ==
  ASSUME NEW step, NEW time,
         NEW site \in ExchangeSite \cup CollectiveSite \cup {"finish"}
  PROVE  StopAt(site, step, time) = site
BY DEF StopAt, HeadSite, StopFrom, ExchangeSite, ExchangeThen, CollectiveSite

LEMMA LeftAtHead ==
  ASSUME NEW g \in Group, NEW step, NEW time
  PROVE  /\ \A site \in {"loop", "preprocess", "init_exchange"} :
              Left(site, g, step, time) = HeadLeft(g, step, time)
         /\ Left("accept", g, step, time) = Once(g, {"cur"}) + HeadLeft(g, step, time)
BY DEF Left

LEMMA LeftInStage ==
  ASSUME NEW g \in Group, NEW step, NEW time, NEW site \in DOMAIN LeftFrom(g)
  PROVE  Left(site, g, step, time) = LeftFrom(g)[site]
BY DEF Left, LeftFrom

Idling == CollectiveSite \cup {"amr_exchange", "tag", "predict", "conservative",
                               "finish", "done"}

LEMMA NoneLeft ==
  ASSUME NEW g \in Group, NEW step, NEW time, NEW site \in Idling
  PROVE  Left(site, g, step, time) = 0
BY DEF Left, LeftFrom, CollectiveSite, Idling

\* LeftFrom, from one site to the next.
LEMMA Sums ==
  ASSUME NEW g \in Group
  PROVE  LET L == LeftFrom(g) IN
         /\ L.refresh = Once(g, {"cur", "velo", "hang"})
                          + IF CheckIdempotence THEN 0 ELSE L.refresh_exchange
         /\ L.layer_exchange = L.refresh
         /\ L.refresh_exchange = IF EqualDt THEN L.output ELSE 0
         /\ L.output = L.boundary
         /\ L.boundary = Once(g, {"byd"}) + L.halftime
         /\ L.halftime = Once(g, {"half"}) + L.geometry
         /\ L.geometry = Once(g, {"geo"}) + L.nodal_boundary
         /\ L.nodal_boundary = L.boundary_exchange
         /\ L.boundary_exchange = L.hanging_info
         /\ L.hanging_info = Once(g, {"hang"}) + L.hanging_exchange
         /\ L.hanging_exchange = L.parent_edge
         /\ L.parent_edge = Once(g, {"geo"}) + L.stamp_exchange
         /\ L.stamp_exchange = L.validate
         /\ L.validate = IF RunRiemann THEN L.matrix ELSE 0
         /\ L.matrix = Once(g, {"mcp", "recon"}) + L.matrix_exchange
         /\ L.matrix_exchange = L.point
         /\ L.point = Once(g, {"pt"}) + L.point_exchange
         /\ L.point_exchange = L.corner
         /\ L.corner = Once(g, {"velo"}) + L.corner_exchange
         /\ L.corner_exchange = L.relaxed
         /\ L.relaxed = Once(g, {"relx", "emcp"}) + L.relaxed_exchange
         /\ L.relaxed_exchange = L.hanging_matrix
         /\ L.hanging_matrix = Once(g, {"pt", "hang"}) + L.aggregate_exchange
         /\ L.aggregate_exchange = L.hanging_solve
         /\ L.hanging_solve = Once(g, {"velo"}) + L.velocity_exchange
         /\ L.velocity_exchange = L.force
         /\ L.force = Once(g, {"recon"})
BY DEF LeftFrom

\* A leg of the stage that starts and ends among the sites of LeftFrom.
LEMMA LegInStage ==
  ASSUME NEW here \in DOMAIN StopFrom, NEW groups, NEW there,
         \/ there \in DOMAIN StopFrom /\ StopFrom[there] = StopFrom[here]
         \/ there \in ExchangeSite \cup CollectiveSite /\ there = StopFrom[here],
         \A g \in Group :
           /\ {here, there} \subseteq DOMAIN LeftFrom(g)
           /\ LeftFrom(g)[here] = Once(g, groups) + LeftFrom(g)[there],
         NEW step, NEW time
  PROVE  Follows(here, groups, there, step, time)
<1>1. StopAt(there, step, time) = StopAt(here, step, time)
  BY StopInStage, StopHere
<1>2. ASSUME NEW g \in Group
      PROVE  Left(here, g, step, time) = Once(g, groups) + Left(there, g, step, time)
  BY <1>2, LeftInStage
<1> QED
  BY <1>1, <1>2 DEF Follows

LEMMA LeftSites ==
  ASSUME NEW g \in Group
  PROVE  DOMAIN LeftFrom(g) =
           {"layer_exchange", "refresh", "refresh_exchange", "output", "boundary",
            "halftime", "geometry", "nodal_boundary", "boundary_exchange",
            "hanging_info", "hanging_exchange", "parent_edge", "stamp_exchange",
            "validate", "matrix", "matrix_exchange", "point", "point_exchange",
            "corner", "corner_exchange", "relaxed", "relaxed_exchange",
            "hanging_matrix", "aggregate_exchange", "hanging_solve",
            "velocity_exchange", "force"}
BY DEF LeftFrom

LEMMA StopSites ==
  /\ DOMAIN StopFrom =
       {"tag", "refresh", "predict", "output", "boundary", "halftime", "geometry",
        "nodal_boundary", "hanging_info", "parent_edge", "validate", "matrix",
        "point", "corner", "relaxed", "hanging_matrix", "hanging_solve", "force",
        "conservative", "done"}
  /\ StopFrom.tag = "coarsen"
  /\ StopFrom.refresh = RefreshStop
  /\ StopFrom.predict = "reduce_dt"
  /\ StopFrom.output = "boundary_exchange"
  /\ StopFrom.boundary = "boundary_exchange"
  /\ StopFrom.halftime = "boundary_exchange"
  /\ StopFrom.geometry = "boundary_exchange"
  /\ StopFrom.nodal_boundary = "boundary_exchange"
  /\ StopFrom.hanging_info = "hanging_exchange"
  /\ StopFrom.parent_edge = "stamp_exchange"
  /\ StopFrom.validate = IF RunRiemann THEN "matrix_exchange" ELSE "energy"
  /\ StopFrom.matrix = "matrix_exchange"
  /\ StopFrom.point = "point_exchange"
  /\ StopFrom.corner = "corner_exchange"
  /\ StopFrom.relaxed = "relaxed_exchange"
  /\ StopFrom.hanging_matrix = "aggregate_exchange"
  /\ StopFrom.hanging_solve = "velocity_exchange"
  /\ StopFrom.force = "energy"
  /\ StopFrom.conservative = "energy"
  /\ StopFrom.done = "finish"
BY DEF StopFrom

LEMMA StopKinds ==
  /\ {"amr_exchange", "layer_exchange", "refresh_exchange", "boundary_exchange",
      "hanging_exchange", "stamp_exchange", "matrix_exchange", "point_exchange",
      "corner_exchange", "relaxed_exchange", "aggregate_exchange",
      "velocity_exchange", "init_exchange"} = ExchangeSite
  /\ {"coarsen", "reduce_dt", "energy", "recheck", "refine", "partition"}
        \subseteq CollectiveSite
  /\ RefreshStop \in ExchangeSite \cup CollectiveSite
BY DEF ExchangeSite, ExchangeThen, CollectiveSite, RefreshStop

\* Between the passes of a stage there are no branches.
LEMMA AssembleLegs ==
  ASSUME NEW step, NEW time
  PROVE  /\ Follows("output", {}, "boundary", step, time)
         /\ Follows("boundary", {"byd"}, "halftime", step, time)
         /\ Follows("halftime", {"half"}, "geometry", step, time)
         /\ Follows("geometry", {"geo"}, "nodal_boundary", step, time)
         /\ Follows("nodal_boundary", {}, "boundary_exchange", step, time)
         /\ Follows("hanging_info", {"hang"}, "hanging_exchange", step, time)
         /\ Follows("parent_edge", {"geo"}, "stamp_exchange", step, time)
<1> USE LeftSites, StopSites, StopKinds
<1>1. \A g \in Group : Once(g, {}) = 0 /\ LeftFrom(g).boundary \in Nat
                         /\ LeftFrom(g).boundary_exchange \in Nat
  BY LeftNumbers DEF Once
<1>2. Follows("output", {}, "boundary", step, time)
  BY <1>1, LegInStage, Sums
<1>3. Follows("boundary", {"byd"}, "halftime", step, time)
  BY LegInStage, Sums
<1>4. Follows("halftime", {"half"}, "geometry", step, time)
  BY LegInStage, Sums
<1>5. Follows("geometry", {"geo"}, "nodal_boundary", step, time)
  BY LegInStage, Sums
<1>6. Follows("nodal_boundary", {}, "boundary_exchange", step, time)
  BY <1>1, LegInStage, Sums
<1>7. Follows("hanging_info", {"hang"}, "hanging_exchange", step, time)
  BY LegInStage, Sums
<1>8. Follows("parent_edge", {"geo"}, "stamp_exchange", step, time)
  BY LegInStage, Sums
<1> QED
  BY <1>2, <1>3, <1>4, <1>5, <1>6, <1>7, <1>8

LEMMA SolveLegs ==
  ASSUME NEW step, NEW time
  PROVE  /\ Follows("validate", {}, IF RunRiemann THEN "matrix" ELSE "conservative",
                    step, time)
         /\ Follows("matrix", {"mcp", "recon"}, "matrix_exchange", step, time)
         /\ Follows("point", {"pt"}, "point_exchange", step, time)
         /\ Follows("corner", {"velo"}, "corner_exchange", step, time)
         /\ Follows("relaxed", {"relx", "emcp"}, "relaxed_exchange", step, time)
         /\ Follows("hanging_matrix", {"pt", "hang"}, "aggregate_exchange", step, time)
         /\ Follows("hanging_solve", {"velo"}, "velocity_exchange", step, time)
         /\ Follows("force", {"recon"}, "conservative", step, time)
         /\ Follows("conservative", {}, "energy", step, time)
<1> USE LeftSites, StopSites, StopKinds
<1>1. \A g \in Group : Once(g, {}) = 0 /\ LeftFrom(g).matrix \in Nat
  BY LeftNumbers DEF Once
<1>2. \A g \in Group : /\ Left("conservative", g, step, time) = 0
                       /\ Left("energy", g, step, time) = 0
  BY NoneLeft DEF Idling
<1>3. Follows("validate", {}, IF RunRiemann THEN "matrix" ELSE "conservative", step, time)
  <2>1. CASE RunRiemann
    BY <1>1, <2>1, LegInStage, Sums
  <2>2. CASE ~RunRiemann
    <3>1. /\ StopAt("validate", step, time) = "energy"
          /\ StopAt("conservative", step, time) = "energy"
      BY <2>2, StopInStage
    <3>2. \A g \in Group : Left("validate", g, step, time) = 0
      BY <2>2, LeftInStage, Sums
    <3> QED
      BY <1>1, <1>2, <2>2, <3>1, <3>2 DEF Follows
  <2> QED
    BY <2>1, <2>2
<1>4. Follows("matrix", {"mcp", "recon"}, "matrix_exchange", step, time)
  BY LegInStage, Sums
<1>5. Follows("point", {"pt"}, "point_exchange", step, time)
  BY LegInStage, Sums
<1>6. Follows("corner", {"velo"}, "corner_exchange", step, time)
  BY LegInStage, Sums
<1>7. Follows("relaxed", {"relx", "emcp"}, "relaxed_exchange", step, time)
  BY LegInStage, Sums
<1>8. Follows("hanging_matrix", {"pt", "hang"}, "aggregate_exchange", step, time)
  BY LegInStage, Sums
<1>9. Follows("hanging_solve", {"velo"}, "velocity_exchange", step, time)
  BY LegInStage, Sums
<1>10. Follows("force", {"recon"}, "conservative", step, time)
  <2>1. /\ StopAt("force", step, time) = "energy"
        /\ StopAt("conservative", step, time) = "energy"
    BY StopInStage
  <2>2. \A g \in Group : /\ Left("force", g, step, time) = Once(g, {"recon"})
                         /\ Once(g, {"recon"}) \in Nat
    BY LeftInStage, Sums DEF Once
  <2> QED
    BY <1>2, <2>1, <2>2 DEF Follows
<1>11. Follows("conservative", {}, "energy", step, time)
  <2>1. /\ StopAt("energy", step, time) = "energy"
        /\ StopAt("conservative", step, time) = "energy"
    BY StopInStage, StopHere
  <2> QED
    BY <1>1, <1>2, <2>1 DEF Follows
<1> QED
  BY <1>3, <1>4, <1>5, <1>6, <1>7, <1>8, <1>9, <1>10, <1>11

\* The other passes, branches apart.
LEMMA ControlLegs ==
  ASSUME NEW step, NEW time
  PROVE  /\ Follows("tag", {}, "coarsen", step, time)
         /\ Follows("refresh", {"cur", "velo", "hang"}, RefreshStop, step, time)
         /\ Follows("predict", {}, "reduce_dt", step, time)
         /\ Follows("accept", {"cur"}, "loop", step, time)
         /\ Follows("finish", {}, "done", step, time)
<1> USE LeftSites, StopSites, StopKinds
<1>1. \A g \in Group : Once(g, {}) = 0
  BY DEF Once
<1>2. \A g \in Group : \A site \in {"tag", "coarsen", "predict", "reduce_dt", "finish", "done"} :
        Left(site, g, step, time) = 0
  BY NoneLeft DEF Idling
<1>3. /\ StopAt("tag", step, time) = "coarsen" /\ StopAt("coarsen", step, time) = "coarsen"
      /\ StopAt("predict", step, time) = "reduce_dt"
      /\ StopAt("reduce_dt", step, time) = "reduce_dt"
      /\ StopAt("finish", step, time) = "finish" /\ StopAt("done", step, time) = "finish"
  BY StopInStage, StopHere
<1>4. Follows("refresh", {"cur", "velo", "hang"}, RefreshStop, step, time)
  <2>1. StopAt("refresh", step, time) = RefreshStop
          /\ StopAt(RefreshStop, step, time) = RefreshStop
    BY StopInStage, StopHere
  <2>2. ASSUME NEW g \in Group
        PROVE  Left(RefreshStop, g, step, time)
                 = IF CheckIdempotence THEN 0 ELSE LeftFrom(g).refresh_exchange
    <3>1. Left("recheck", g, step, time) = 0
      BY NoneLeft DEF Idling
    <3>2. Left("refresh_exchange", g, step, time) = LeftFrom(g).refresh_exchange
      BY LeftInStage
    <3> QED
      BY <3>1, <3>2 DEF RefreshStop
  <2>3. \A g \in Group : Left("refresh", g, step, time) = LeftFrom(g).refresh
    BY LeftInStage
  <2> QED
    BY <2>1, <2>2, <2>3, Sums DEF Follows
<1>5. Follows("accept", {"cur"}, "loop", step, time)
  BY StopAtHead, LeftAtHead DEF Follows, HeadSite
<1> QED
  BY <1>1, <1>2, <1>3, <1>4, <1>5 DEF Follows

\* The head of the loop.
LEMMA HeadLegs ==
  ASSUME NEW step, NEW time
  PROVE  /\ Follows("loop", {}, "preprocess", step, time)
         /\ HeadStop(step, time) = "finish" => Follows("loop", {}, "finish", step, time)
         /\ \A there \in {"refine", "partition"} : HeadStop(step, time) = there =>
              Follows("preprocess", {}, there, step, time)
         /\ HeadStop(step, time) = RefreshStop =>
              Follows("preprocess", {}, "refresh", step, time)
<1> USE LeftSites, StopSites, StopKinds
<1>1. \A g \in Group : Once(g, {}) = 0 /\ LeftFrom(g).refresh \in Nat
  BY LeftNumbers DEF Once
<1>2. /\ StopAt("loop", step, time) = HeadStop(step, time)
      /\ StopAt("preprocess", step, time) = HeadStop(step, time)
      /\ StopAt("refresh", step, time) = RefreshStop
      /\ \A there \in {"refine", "partition", "finish"} : StopAt(there, step, time) = there
  BY StopAtHead, StopInStage, StopHere DEF HeadSite
<1>3. ASSUME NEW g \in Group
      PROVE  /\ Left("loop", g, step, time) = HeadLeft(g, step, time)
             /\ Left("preprocess", g, step, time) = HeadLeft(g, step, time)
             /\ Left("refresh", g, step, time) = LeftFrom(g).refresh
             /\ \A there \in {"refine", "partition", "finish"} :
                  Left(there, g, step, time) = 0
             /\ HeadLeft(g, step, time) \in Nat
  BY <1>1, LeftAtHead, LeftInStage, NoneLeft DEF Idling, HeadLeft
<1>4. RefreshStop \notin {"refine", "partition", "finish"}
  BY DEF RefreshStop
<1> QED
  BY <1>1, <1>2, <1>3, <1>4 DEF Follows, HeadLeft

\* An exchange writes nothing.
LEMMA ExchangeLegs ==
  ASSUME NEW step, NEW time, NEW here \in ExchangeSite
  PROVE  \A g \in Group : Left(here, g, step, time) = Left(ExchangeThen[here], g, step, time)
<1> SUFFICES ASSUME NEW g \in Group
             PROVE  Left(here, g, step, time) = Left(ExchangeThen[here], g, step, time)
  OBVIOUS
<1> USE LeftSites, StopKinds
<1>1. CASE here = "init_exchange"
  BY <1>1, LeftAtHead DEF ExchangeThen
<1>2. CASE here = "amr_exchange"
  BY <1>2, NoneLeft DEF ExchangeThen, Idling
<1>3. CASE here = "refresh_exchange"
  <2>1. Left(here, g, step, time) = IF EqualDt THEN LeftFrom(g).output ELSE 0
    BY <1>3, LeftInStage, Sums
  <2>2. /\ Left("output", g, step, time) = LeftFrom(g).output
        /\ Left("predict", g, step, time) = 0
    BY LeftInStage, NoneLeft DEF Idling
  <2>3. ExchangeThen[here] = IF EqualDt THEN "output" ELSE "predict"
    BY <1>3 DEF ExchangeThen
  <2> QED
    BY <2>1, <2>2, <2>3
<1>4. CASE here \notin {"init_exchange", "amr_exchange", "refresh_exchange"}
  <2>1. /\ here \in DOMAIN LeftFrom(g) /\ ExchangeThen[here] \in DOMAIN LeftFrom(g)
        /\ LeftFrom(g)[here] = LeftFrom(g)[ExchangeThen[here]]
    BY <1>4, Sums DEF ExchangeThen
  <2> QED
    BY <2>1, LeftInStage
<1> QED
  BY <1>1, <1>2, <1>3, <1>4

-----------------------------------------------------------------------------
(* Steps that leave the path of every rank as it is.                       *)

\* Ranks that run are in the same step, at the same time.
SamePeriod ==
  \A q, r \in Rank : Live(q) /\ Live(r) =>
    StepOf(q) = StepOf(r) /\ TimeOf(q) = TimeOf(r)

LEMMA PeriodsAgree == TypeOK /\ ClockInv => SamePeriod
<1> SUFFICES ASSUME TypeOK, ClockInv, NEW q \in Rank, NEW r \in Rank, Live(q), Live(r)
             PROVE  StepOf(q) = StepOf(r) /\ TimeOf(q) = TimeOf(r)
  BY DEF SamePeriod
<1>1. /\ accepted[q] \in Nat /\ accepted[r] \in Nat
      /\ clock[q].time \in Nat /\ clock[r].time \in Nat
      /\ clock[q].dt \in Nat /\ clock[r].dt \in Nat
  BY ClockNumbers
<1>2. InStep(q, r) /\ InStep(r, q)
  BY DEF ClockInv
<1>3. pc[q] \notin Failed /\ pc[r] \notin Failed
  BY DEF Live
<1>4. CASE accepted[q] = accepted[r]
  BY <1>1, <1>2, <1>3, <1>4 DEF InStep, StepOf, TimeOf
<1>5. CASE accepted[q] = accepted[r] + 1
  BY <1>1, <1>2, <1>3, <1>5 DEF InStep, StepOf, TimeOf
<1>6. CASE accepted[r] = accepted[q] + 1
  BY <1>1, <1>2, <1>3, <1>6 DEF InStep, StepOf, TimeOf
<1> QED
  BY <1>1, <1>2, <1>4, <1>5, <1>6 DEF InStep

\* A rank that still runs after a step is where it was on the path.
OnPath(r) ==
  Live(r)' =>
    /\ Live(r)
    /\ r \in posted' <=> r \in posted
    /\ NextStop(r)' = NextStop(r)
    /\ StepOf(r)' = StepOf(r) /\ TimeOf(r)' = TimeOf(r)
    /\ \A g \in Group : Total(r, g)' = Total(r, g)

StampsAlike(r) ==
  /\ session'[r].generation = session[r].generation
  /\ session'[r].topologyVersion = session[r].topologyVersion

\* Finalisation destroys a session and leaves its stamps.
LEMMA FinishStamps ==
  ASSUME TypeOK, NEW s \in Rank, Finish(s)
  PROVE  \A r \in Rank : StampsAlike(r)
<1>1. session' = [session EXCEPT ![s] = Destroyed(session[s])] /\ session \in [Rank -> Session]
  BY DEF Finish, TypeOK
<1>2. \A r \in Rank \ {s} : session'[r] = session[r]
  BY <1>1
<1>3. session'[s] = Destroyed(session[s]) /\ session[s] \in Session
  BY <1>1
<1>4. /\ Destroyed(session[s]).generation = session[s].generation
      /\ Destroyed(session[s]).topologyVersion = session[s].topologyVersion
  BY <1>3 DEF Destroyed, Session
<1> QED
  BY <1>2, <1>3, <1>4 DEF StampsAlike

LEMMA GoodStays ==
  ASSUME NEW r \in Rank, OnPath(r), StampsAlike(r), Live(r)',
         forest' = forest, NEW m, Good(m, r)
  PROVE  Good(m, r)'
<1>1. StepOf(r)' = StepOf(r) /\ TimeOf(r)' = TimeOf(r)
  BY DEF OnPath
<1>2. \A g \in Group : Total(r, g)' = Total(r, g)
  BY DEF OnPath
<1>3. MakeStamp(session'[r], StepOf(r)') = MakeStamp(session[r], StepOf(r))
  BY <1>1 DEF StampsAlike, MakeStamp
<1> QED
  BY <1>1, <1>2, <1>3 DEF Good

LEMMA InboxStays ==
  ASSUME NEW q \in Rank, NEW r \in Rank, OnPath(r), StampsAlike(r), Live(r)',
         forest' = forest, channel' = channel, Inbox(q, r)
  PROVE  Inbox(q, r)'
<1>1. NextStop(r)' = NextStop(r) /\ StopAfter(r)' = StopAfter(r)
  BY DEF OnPath, StopAfter
<1>2. \A m : Good(m, r) => Good(m, r)'
  BY GoodStays
<1> QED
  BY <1>1, <1>2 DEF Inbox

LEMMA PathStays ==
  ASSUME PathInv, UNCHANGED <<forest, channel>>,
         \A r \in Rank : OnPath(r) /\ StampsAlike(r) /\ Stamped(r)'
  PROVE  PathInv'
<1>1. \A r \in Rank : Live(r)' =>
        /\ Live(r) /\ Sent(r)' = Sent(r)
        /\ NextStop(r)' = NextStop(r) /\ StopAfter(r)' = StopAfter(r)
        /\ r \in posted' <=> r \in posted
  BY DEF OnPath, StopAfter, Sent
<1>2. \A r \in Rank : Neighbours(r)' = Neighbours(r)
  BY DEF Neighbours
<1>3. ASSUME NEW r \in Rank, NEW q \in Neighbours(r)
      PROVE  Between(q, r)'
  <2>1. q \in Rank /\ Between(q, r)
    BY <1>3 DEF PathInv, Neighbours
  <2>2. Len(channel'[q][r]) <= 2
    BY <2>1 DEF Between
  <2>3. ASSUME Live(r)' PROVE Inbox(q, r)' /\ Room(r, q)'
    <3>1. Inbox(q, r) /\ Room(r, q)
      BY <1>1, <2>1, <2>3 DEF Between
    <3>2. Inbox(q, r)'
      BY <2>1, <2>3, <3>1, InboxStays
    <3>3. Sent(r)' = Sent(r)
      BY <1>1, <2>3
    <3>4. Room(r, q)'
      BY <3>1, <3>3 DEF Room
    <3> QED
      BY <3>2, <3>4
  <2>4. ASSUME Live(q)', Live(r)'
        PROVE  Abreast(q, r)' \/ Leads(q, r)' \/ Leads(r, q)'
    <3>1. Abreast(q, r) \/ Leads(q, r) \/ Leads(r, q)
      BY <1>1, <2>1, <2>4 DEF Between
    <3>2. /\ Sent(q)' = Sent(q) /\ Sent(r)' = Sent(r)
          /\ NextStop(q)' = NextStop(q) /\ NextStop(r)' = NextStop(r)
          /\ StopAfter(q)' = StopAfter(q) /\ StopAfter(r)' = StopAfter(r)
          /\ q \in posted' <=> q \in posted
          /\ r \in posted' <=> r \in posted
      BY <1>1, <2>1, <2>4
    <3> QED
      BY <3>1, <3>2 DEF Abreast, Leads
  <2> QED
    BY <2>2, <2>3, <2>4 DEF Between
<1>4. ASSUME NEW q \in Rank, NEW r \in Rank
      PROVE  SameSession(q, r)' /\ SameTotal(q, r)'
  <2>1. SameSession(q, r) /\ SameTotal(q, r)
    BY DEF PathInv
  <2>2. SameSession(q, r)'
    BY <2>1 DEF SameSession, StampsAlike
  <2>3. SameTotal(q, r)'
    BY <2>1 DEF SameTotal, OnPath
  <2> QED
    BY <2>2, <2>3
<1> QED
  BY <1>2, <1>3, <1>4 DEF PathInv

\* A rank goes on along its path and writes some groups.
Leg(s, here, groups, there) ==
  /\ Goto(s, here, there) /\ here \notin Failed
  /\ Write(s, groups)
  /\ StepOf(s)' = StepOf(s) /\ TimeOf(s)' = TimeOf(s)
  /\ UNCHANGED <<forest, channel, posted>>
  /\ \A r \in Rank : StampsAlike(r)
  /\ \A r \in Rank \ {s} :
       clock'[r] = clock[r] /\ accepted'[r] = accepted[r] /\ stamps'[r] = stamps[r]

LEMMA WroteOwn ==
  ASSUME TypeOK, NEW s \in Rank, NEW groups, Write(s, groups), NEW g \in Group
  PROVE  /\ own'[s][g] = own[s][g] + Once(g, groups)
         /\ own[s][g] \in Nat
         /\ \A r \in Rank \ {s} : own'[r] = own[r]
BY DEF TypeOK, Write, Version, Once

LEMMA WroteNothing ==
  ASSUME TypeOK, NEW s \in Rank, own' = own
  PROVE  Write(s, {})
<1>1. own[s] = [g \in Group |-> IF g \in {} THEN own[s][g] + 1 ELSE own[s][g]]
  BY DEF TypeOK, Version
<1>2. own = [own EXCEPT ![s] = own[s]]
  BY DEF TypeOK
<1> QED
  BY <1>1, <1>2 DEF Write

LEMMA LegOnPath ==
  ASSUME TypeOK, NEW s \in Rank, NEW here, NEW groups, NEW there,
         Leg(s, here, groups, there),
         Follows(here, groups, there, StepOf(s), TimeOf(s))
  PROVE  \A r \in Rank : OnPath(r)
<1>1. /\ pc[s] = here /\ pc'[s] = there /\ here \notin Failed
      /\ \A r \in Rank \ {s} : pc'[r] = pc[r]
  BY DEF Leg, Goto, TypeOK
<1>2. StepOf(s)' = StepOf(s) /\ TimeOf(s)' = TimeOf(s) /\ posted' = posted
  BY DEF Leg
<1>3. OnPath(s)
  <2>1. NextStop(s)' = NextStop(s)
    BY <1>1, <1>2 DEF NextStop, Follows
  <2>2. ASSUME NEW g \in Group
        PROVE  Total(s, g)' = Total(s, g)
    <3>1. own'[s][g] = own[s][g] + Once(g, groups) /\ own[s][g] \in Nat
      BY WroteOwn DEF Leg
    <3>2. Left(here, g, StepOf(s), TimeOf(s))
            = Once(g, groups) + Left(there, g, StepOf(s), TimeOf(s))
      BY DEF Follows
    <3>3. /\ Once(g, groups) \in Nat
          /\ Left(there, g, StepOf(s), TimeOf(s)) \in Nat
      BY LeftNumbers DEF Once
    <3>4. Total(s, g)' = own'[s][g] + Left(there, g, StepOf(s), TimeOf(s))
      BY <1>1, <1>2 DEF Total
    <3>5. Total(s, g) = own[s][g] + Left(here, g, StepOf(s), TimeOf(s))
      BY <1>1 DEF Total
    <3> QED
      BY <3>1, <3>2, <3>3, <3>4, <3>5
  <2> QED
    BY <1>1, <1>2, <2>1, <2>2 DEF OnPath, Live
<1>4. ASSUME NEW r \in Rank \ {s}
      PROVE  OnPath(r)
  <2>1. /\ pc'[r] = pc[r] /\ clock'[r] = clock[r] /\ accepted'[r] = accepted[r]
    BY <1>1 DEF Leg
  <2>2. StepOf(r)' = StepOf(r) /\ TimeOf(r)' = TimeOf(r)
    BY <2>1 DEF StepOf, TimeOf
  <2>3. \A g \in Group : own'[r] = own[r]
    BY WroteOwn DEF Leg
  <2>4. NextStop(r)' = NextStop(r)
    BY <2>1, <2>2 DEF NextStop
  <2>5. \A g \in Group : Total(r, g)' = Total(r, g)
    BY <2>1, <2>2, <2>3 DEF Total
  <2> QED
    BY <1>2, <2>1, <2>2, <2>4, <2>5 DEF OnPath, Live
<1> QED
  BY <1>3, <1>4

LEMMA LegKeepsPath ==
  ASSUME TypeOK, PathInv, NEW s \in Rank, NEW here, NEW groups, NEW there,
         Leg(s, here, groups, there),
         Follows(here, groups, there, StepOf(s), TimeOf(s)),
         Stamped(s)'
  PROVE  PathInv'
<1>1. \A r \in Rank : OnPath(r)
  BY LegOnPath
<1>2. ASSUME NEW r \in Rank \ {s}
      PROVE  Stamped(r)'
  <2>1. /\ pc'[r] = pc[r] /\ clock'[r] = clock[r] /\ accepted'[r] = accepted[r]
        /\ stamps'[r] = stamps[r] /\ StampsAlike(r)
    BY DEF Leg, Goto, TypeOK
  <2>2. StepOf(r)' = StepOf(r)
    BY <2>1 DEF StepOf
  <2>3. MakeStamp(session'[r], StepOf(r)') = MakeStamp(session[r], StepOf(r))
    BY <2>1, <2>2 DEF StampsAlike, MakeStamp
  <2>4. Stamped(r)
    BY DEF PathInv
  <2> QED
    BY <2>1, <2>3, <2>4 DEF Stamped
<1>3. \A r \in Rank : StampsAlike(r)
  BY DEF Leg
<1> QED
  BY <1>1, <1>2, <1>3, PathStays DEF Leg

\* Most legs are passes that leave the clock alone.
LEMMA PassKeepsPath ==
  ASSUME TypeOK, PathInv, NEW s \in Rank, NEW here, NEW groups, NEW there,
         Pass(s, here, groups, there),
         here \notin Failed \cup {"accept"},
         there \notin {"accept", "stamp_exchange", "validate"},
         Follows(here, groups, there, StepOf(s), TimeOf(s))
  PROVE  PathInv'
<1>1. pc[s] = here /\ pc'[s] = there
  BY DEF Pass, Goto, TypeOK
<1>2. StepOf(s)' = StepOf(s) /\ TimeOf(s)' = TimeOf(s)
  BY <1>1 DEF Pass, schedule, StepOf, TimeOf
<1>3. Leg(s, here, groups, there)
  BY <1>2 DEF Pass, Leg, StampsAlike, layers, schedule
<1>4. Stamped(s)'
  BY <1>1 DEF Stamped
<1> QED
  BY <1>3, <1>4, LegKeepsPath

\* A rank at a pass of the loop has a layer.
LEMMA HasLayer ==
  ASSUME LayerInv, NEW s \in Rank, pc[s] \in LayerSite
  PROVE  /\ session[s].present /\ ~IsEmpty(session[s])
         /\ \A site \in ExchangeSite : IfLayer(s, site) = site
BY DEF LayerInv, LayerCurrent, Usable, IsEmpty, IfLayer

LEMMA SolvePath ==
  ASSUME LayerInv, PathInv, NEW s \in Rank, Solve(s)
  PROVE  PathInv'
<1>1. /\ TypeOK
      /\ {"matrix", "relaxed", "hanging_matrix"} \subseteq LayerSite
      /\ {"matrix_exchange", "relaxed_exchange", "aggregate_exchange"} \subseteq ExchangeSite
  BY PassSites, StopKinds DEF LayerInv
<1>2. CASE CornerMatrix(s)
  BY <1>1, <1>2, HasLayer, PassKeepsPath, SolveLegs DEF CornerMatrix, Pass, Goto, Failed
<1>3. CASE RelaxedInfo(s)
  BY <1>1, <1>3, HasLayer, PassKeepsPath, SolveLegs DEF RelaxedInfo, Pass, Goto, Failed
<1>4. CASE HangingMatrix(s)
  BY <1>1, <1>4, HasLayer, PassKeepsPath, SolveLegs DEF HangingMatrix, Pass, Goto, Failed
<1>5. CASE PointMatrix(s)
  BY <1>1, <1>5, PassKeepsPath, SolveLegs DEF PointMatrix, Failed
<1>6. CASE CornerVelocity(s)
  BY <1>1, <1>6, PassKeepsPath, SolveLegs DEF CornerVelocity, Failed
<1>7. CASE HangingSolve(s)
  BY <1>1, <1>7, PassKeepsPath, SolveLegs DEF HangingSolve, Failed
<1>8. CASE CornerForce(s)
  BY <1>1, <1>8, PassKeepsPath, SolveLegs DEF CornerForce, Failed
<1> QED
  BY <1>2, <1>3, <1>4, <1>5, <1>6, <1>7, <1>8 DEF Solve

LEMMA AssemblePath ==
  ASSUME LayerInv, ClockInv, PathInv, NEW s \in Rank, Assemble(s)
  PROVE  PathInv'
<1>1. /\ TypeOK /\ "hanging_info" \in LayerSite /\ "hanging_exchange" \in ExchangeSite
  BY PassSites, StopKinds DEF LayerInv
<1>2. CASE Boundary(s)
  BY <1>1, <1>2, PassKeepsPath, AssembleLegs DEF Boundary, Failed
<1>3. CASE HalfTime(s)
  BY <1>1, <1>3, PassKeepsPath, AssembleLegs DEF HalfTime, Failed
<1>4. CASE CornerGeometry(s)
  BY <1>1, <1>4, PassKeepsPath, AssembleLegs DEF CornerGeometry, Failed
<1>5. CASE HangingInfo(s)
  BY <1>1, <1>5, HasLayer, PassKeepsPath, AssembleLegs DEF HangingInfo, Pass, Goto, Failed
<1>6. CASE ValidateStamps(s)
  BY <1>1, <1>6, PassKeepsPath, SolveLegs DEF ValidateStamps, Failed
<1>7. CASE NodalBoundary(s)
  <2>1. pc[s] = "nodal_boundary" /\ pc'[s] = "boundary_exchange"
    BY <1>1, <1>7 DEF NodalBoundary, Goto, TypeOK
  <2>2. StepOf(s)' = StepOf(s) /\ TimeOf(s)' = TimeOf(s)
    BY <1>7, <2>1 DEF NodalBoundary, schedule, StepOf, TimeOf
  <2>3. Leg(s, "nodal_boundary", {}, "boundary_exchange")
    BY <1>1, <1>7, <2>2, WroteNothing
    DEF NodalBoundary, InvalidateNodalStamps, Leg, StampsAlike, layers, schedule, TypeOK, Failed
  <2>4. Stamped(s)'
    BY <2>1 DEF Stamped
  <2> QED
    BY <1>1, <2>3, <2>4, LegKeepsPath, AssembleLegs
<1>8. CASE ParentEdge(s)
  <2>1. pc[s] = "parent_edge" /\ pc'[s] = "stamp_exchange"
    BY <1>1, <1>8 DEF ParentEdge, Goto, TypeOK
  <2>2. StepOf(s)' = StepOf(s) /\ TimeOf(s)' = TimeOf(s)
    BY <1>8, <2>1 DEF ParentEdge, schedule, StepOf, TimeOf
  <2>3. Leg(s, "parent_edge", {"geo"}, "stamp_exchange")
    BY <1>1, <1>8, <2>2 DEF ParentEdge, Leg, StampsAlike, layers, schedule, TypeOK, Failed
  <2>4. Stamped(s)'
    <3>1. "parent_edge" \in Written
      BY DEF Written, Late
    <3>2. clock[s].step = StepOf(s)
      BY <2>1, <3>1 DEF ClockInv, OwnClock, StepOf
    <3>3. stamps'[s] = {MakeStamp(session'[s], StepOf(s)')}
      BY <1>1, <1>8, <2>2, <3>2 DEF ParentEdge, TypeOK, layers
    <3> QED
      BY <3>3 DEF Stamped
  <2> QED
    BY <1>1, <2>3, <2>4, LegKeepsPath, AssembleLegs
<1> QED
  BY <1>2, <1>3, <1>4, <1>5, <1>6, <1>7, <1>8 DEF Assemble

LEMMA UpdatePath ==
  ASSUME LayerInv, PathInv, NEW s \in Rank, Update(s)
  PROVE  PathInv'
<1>1. TypeOK
  BY DEF LayerInv
<1>2. CASE ConservativeUpdates(s)
  BY <1>1, <1>2, PassKeepsPath, SolveLegs DEF ConservativeUpdates, Failed
<1>3. CASE AcceptSolution(s)
  <2>1. pc[s] = "accept" /\ pc'[s] = "loop"
    BY <1>1, <1>3 DEF AcceptSolution, Goto, TypeOK
  <2>2. /\ clock'[s].time = clock[s].time + clock[s].dt
        /\ accepted'[s] = accepted[s] + 1 /\ accepted[s] \in Nat
        /\ \A r \in Rank \ {s} : clock'[r] = clock[r] /\ accepted'[r] = accepted[r]
    BY <1>1, <1>3 DEF AcceptSolution, TypeOK, Clock
  <2>3. StepOf(s)' = StepOf(s) /\ TimeOf(s)' = TimeOf(s)
    BY <2>1, <2>2 DEF StepOf, TimeOf
  <2>4. Leg(s, "accept", {"cur"}, "loop")
    BY <1>3, <2>2, <2>3 DEF AcceptSolution, Leg, StampsAlike, layers, Failed
  <2>5. Stamped(s)'
    BY <2>1 DEF Stamped
  <2> QED
    BY <1>1, <2>4, <2>5, LegKeepsPath, ControlLegs
<1> QED
  BY <1>2, <1>3 DEF Update

LEMMA ControlPath ==
  ASSUME LayerInv, PathInv, NEW s \in Rank, Control(s)
  PROVE  PathInv'
<1>1. TypeOK
  BY DEF LayerInv
<1>2. CASE PredictTimestep(s)
  <2>1. pc[s] = "predict" /\ pc'[s] = "reduce_dt"
    BY <1>1, <1>2 DEF PredictTimestep, Goto, TypeOK
  <2>2. StepOf(s)' = StepOf(s) /\ TimeOf(s)' = TimeOf(s)
    BY <1>2, <2>1 DEF PredictTimestep, StepOf, TimeOf
  <2>3. Leg(s, "predict", {}, "reduce_dt")
    BY <1>1, <1>2, <2>2, WroteNothing
    DEF PredictTimestep, Leg, StampsAlike, layers, cells, Failed
  <2>4. Stamped(s)'
    BY <2>1 DEF Stamped
  <2> QED
    BY <1>1, <2>3, <2>4, LegKeepsPath, ControlLegs
<1>3. CASE WriteSolution(s)
  <2>1. pc[s] = "output" /\ pc'[s] = "boundary"
    BY <1>1, <1>3 DEF WriteSolution, WriteFile, Goto, TypeOK
  <2>2. /\ clock'[s].time = clock[s].time /\ accepted' = accepted
        /\ \A r \in Rank \ {s} : clock'[r] = clock[r]
    BY <1>1, <1>3 DEF WriteSolution, WriteFile, TypeOK, Clock
  <2>3. StepOf(s)' = StepOf(s) /\ TimeOf(s)' = TimeOf(s)
    BY <2>1, <2>2 DEF StepOf, TimeOf
  <2>4. Leg(s, "output", {}, "boundary")
    BY <1>1, <1>3, <2>2, <2>3, WroteNothing
    DEF WriteSolution, WriteFile, Leg, StampsAlike, layers, cells, Failed
  <2>5. Stamped(s)'
    BY <2>1 DEF Stamped
  <2> QED
    BY <1>1, <2>4, <2>5, LegKeepsPath, AssembleLegs
<1> QED
  BY <1>2, <1>3 DEF Control

LEMMA AdaptPath ==
  ASSUME LayerInv, PathInv, NEW s \in Rank, Adapt(s)
  PROVE  PathInv'
<1>1. TypeOK
  BY DEF LayerInv
<1>2. CASE TagCoarsening(s)
  BY <1>1, <1>2, PassKeepsPath, ControlLegs DEF TagCoarsening, Failed
<1>3. CASE Refresh(s)
  <2>1. pc[s] = "refresh" /\ pc'[s] = RefreshStop
    BY <1>1, <1>3 DEF Refresh, Goto, TypeOK, RefreshStop
  <2>2. pc'[s] \notin {"accept", "stamp_exchange", "validate"}
    BY <2>1 DEF RefreshStop
  <2>3. StepOf(s)' = StepOf(s) /\ TimeOf(s)' = TimeOf(s)
    BY <1>3, <2>1, <2>2 DEF Refresh, schedule, StepOf, TimeOf
  <2>4. Leg(s, "refresh", {"cur", "velo", "hang"}, RefreshStop)
    BY <1>1, <1>3, <2>3
    DEF Refresh, InvalidateNodalStamps, Leg, StampsAlike, layers, schedule, TypeOK, Failed, RefreshStop
  <2>5. Stamped(s)'
    BY <2>2 DEF Stamped
  <2> QED
    BY <1>1, <2>4, <2>5, LegKeepsPath, ControlLegs
<1> QED
  BY <1>2, <1>3 DEF Adapt

\* Where the head of the loop goes next.
LEMMA AfterHead ==
  ASSUME LayerInv, ClockInv, NEW s \in Rank, pc[s] = "preprocess"
  PROVE  LET stop == HeadStop(StepOf(s), TimeOf(s))
         IN  AfterPreProcess(s) = IF stop = RefreshStop THEN "refresh" ELSE stop
<1>1. "preprocess" \in Early /\ "preprocess" \in LayerSite
  BY PassSites DEF Early
<1>2. /\ clock[s].step \in Nat /\ clock[s].time \in Nat
      /\ MaxTimeStep \in Nat /\ EndTime \in Nat
  BY ClockNumbers, ClockAssumption DEF LayerInv
<1>3. /\ StepOf(s) = clock[s].step /\ TimeOf(s) = clock[s].time
      /\ ~(clock[s].step > MaxTimeStep) /\ ~(clock[s].time >= EndTime)
  BY <1>1, <1>2 DEF ClockInv, OwnClock, StepOf, TimeOf
<1>4. \A period : Due(s, period) <=> Falls(StepOf(s), TimeOf(s), period)
  BY <1>3 DEF Due, Falls
<1>5. ~IsEmpty(session[s])
  BY <1>1, HasLayer
<1> QED
  BY <1>3, <1>4, <1>5 DEF AfterPreProcess, AfterAmr, AfterPartition, HeadStop, RefreshStop

LEMMA HeadStops ==
  ASSUME NEW step, NEW time
  PROVE  HeadStop(step, time) \in {"finish", "refine", "partition", RefreshStop}
BY DEF HeadStop

LEMMA LoopPath ==
  ASSUME LayerInv, ClockInv, PathInv, NEW s \in Rank, Loop(s)
  PROVE  PathInv'
<1>1. TypeOK
  BY DEF LayerInv
<1>2. CASE BeginStep(s) \/ LeaveLoop(s)
  <2>1. /\ pc[s] = "loop" /\ own' = own
        /\ UNCHANGED <<forest, channel, posted, session, stamps, accepted>>
        /\ clock'[s].time = clock[s].time
        /\ \A r \in Rank \ {s} : clock'[r] = clock[r]
    BY <1>1, <1>2
    DEF BeginStep, LeaveLoop, Goto, TypeOK, Clock, layers, cells, schedule
  <2>2. PICK there \in {"finish", "preprocess"} :
          /\ Goto(s, "loop", there) /\ pc'[s] = there
          /\ Follows("loop", {}, there, StepOf(s), TimeOf(s))
    <3>1. "loop" \in Idle
      BY DEF Idle
    <3>2. /\ clock[s].step \in Nat /\ accepted[s] \in Nat /\ clock[s].time \in Nat
          /\ MaxTimeStep \in Nat /\ EndTime \in Nat
      BY <1>1, ClockNumbers, ClockAssumption
    <3>3. StepOf(s) = clock[s].step + 1 /\ TimeOf(s) = clock[s].time
      BY <2>1, <3>1 DEF ClockInv, OwnClock, StepOf, TimeOf
    <3>4. CASE LeaveLoop(s)
      <4>1. HeadStop(StepOf(s), TimeOf(s)) = "finish"
        BY <3>3, <3>4 DEF LeaveLoop, HeadStop
      <4> QED
        BY <1>1, <3>4, <4>1, HeadLegs DEF LeaveLoop, Goto, TypeOK
    <3>5. CASE BeginStep(s)
      <4>1. CASE clock[s].step + 1 > MaxTimeStep
        <5>1. HeadStop(StepOf(s), TimeOf(s)) = "finish"
          BY <3>3, <4>1 DEF HeadStop
        <5> QED
          BY <1>1, <3>5, <4>1, <5>1, HeadLegs DEF BeginStep, Goto, TypeOK
      <4>2. CASE ~(clock[s].step + 1 > MaxTimeStep)
        BY <1>1, <3>5, <4>2, HeadLegs DEF BeginStep, Goto, TypeOK
      <4> QED
        BY <4>1, <4>2
    <3> QED
      BY <1>2, <3>4, <3>5
  <2>3. StepOf(s)' = StepOf(s) /\ TimeOf(s)' = TimeOf(s)
    BY <2>1, <2>2 DEF StepOf, TimeOf
  <2>4. Leg(s, "loop", {}, there)
    BY <1>1, <2>1, <2>2, <2>3, WroteNothing DEF Leg, StampsAlike, Failed
  <2>5. Stamped(s)'
    BY <2>2 DEF Stamped
  <2> QED
    BY <1>1, <2>2, <2>4, <2>5, LegKeepsPath
<1>3. CASE PreProcess(s)
  <2> DEFINE there == AfterPreProcess(s)
             stop == HeadStop(StepOf(s), TimeOf(s))
  <2>1. pc[s] = "preprocess" /\ Pass(s, "preprocess", {}, there)
    BY <1>3 DEF PreProcess, Pass, Goto
  <2>2. there = IF stop = RefreshStop THEN "refresh" ELSE stop
    BY <2>1, AfterHead
  <2>3. /\ there \in Early
        /\ stop \in {"finish", "refine", "partition", RefreshStop}
    BY Branches, HeadStops
  <2> HIDE DEF there, stop
  <2>4. /\ "finish" \notin Early
        /\ there \notin {"accept", "stamp_exchange", "validate"}
    BY <2>3 DEF Early
  <2>5. Follows("preprocess", {}, there, StepOf(s), TimeOf(s))
    <3>1. CASE stop = RefreshStop
      BY <2>2, <3>1, HeadLegs DEF stop
    <3>2. CASE stop # RefreshStop
      <4>1. there = stop /\ stop \in {"refine", "partition"}
        BY <2>2, <2>3, <2>4, <3>2
      <4> QED
        BY <4>1, HeadLegs DEF stop
    <3> QED
      BY <3>1, <3>2
  <2> QED
    BY <1>1, <2>1, <2>4, <2>5, PassKeepsPath DEF Failed
<1>4. CASE Finish(s)
  <2>1. pc[s] = "finish" /\ pc'[s] = "done"
    BY <1>1, <1>4 DEF Finish, Goto, TypeOK
  <2>2. StepOf(s)' = StepOf(s) /\ TimeOf(s)' = TimeOf(s)
    BY <1>4, <2>1 DEF Finish, schedule, StepOf, TimeOf
  <2>3. \A r \in Rank : StampsAlike(r)
    BY <1>1, <1>4, FinishStamps
  <2>4. Leg(s, "finish", {}, "done")
    BY <1>1, <1>4, <2>2, <2>3, WroteNothing DEF Finish, Leg, cells, schedule, Failed
  <2>5. Stamped(s)'
    BY <2>1 DEF Stamped
  <2> QED
    BY <1>1, <2>4, <2>5, LegKeepsPath, ControlLegs
<1> QED
  BY <1>2, <1>3, <1>4 DEF Loop

\* Processes that fail drop out.
LEMMA FailurePath ==
  ASSUME TypeOK, PathInv,
         \/ \E r \in Rank : AbortInPass(r) \/ Kill(r)
         \/ AbortTogether
         \/ UNCHANGED vars
  PROVE  PathInv'
<1>1. /\ UNCHANGED <<forest, channel, session, own, stamps, clock, accepted>>
      /\ \A r \in Rank : Live(r)' =>
           pc'[r] = pc[r] /\ (r \in posted' <=> r \in posted)
  BY DEF AbortInPass, Kill, AbortTogether, vars, layers, cells, schedule,
         Goto, EveryoneGoto, TypeOK, Live, Failed
<1>2. \A r \in Rank : OnPath(r)
  BY <1>1 DEF OnPath, Live, NextStop, StepOf, TimeOf, Total
<1>3. \A r \in Rank : StampsAlike(r)
  BY <1>1 DEF StampsAlike
<1>4. ASSUME NEW r \in Rank
      PROVE  Stamped(r)'
  <2>1. Stamped(r)
    BY DEF PathInv
  <2>2. CASE Live(r)'
    BY <1>1, <2>1, <2>2 DEF Stamped, StepOf
  <2>3. CASE ~Live(r)'
    BY <2>3 DEF Stamped, Live, Failed
  <2> QED
    BY <2>2, <2>3
<1> QED
  BY <1>1, <1>2, <1>3, <1>4, PathStays

-----------------------------------------------------------------------------
(* A rank enters an exchange.                                              *)

LEMMA TouchBothWays ==
  ASSUME TypeOK, NEW q \in Rank, NEW r \in Rank
  PROVE  /\ q \in Neighbours(r) <=> r \in Neighbours(q)
         /\ r \notin Neighbours(r)
<1>1. forest.adjacency \in Adjacencies
  BY DEF TypeOK
<1>2. Symmetric(forest.adjacency) /\ Irreflexive(forest.adjacency)
  BY <1>1, AdjacencyAssumption
<1> QED
  BY <1>2 DEF Neighbours, Symmetric, Irreflexive

LEMMA Lengths ==
  ASSUME TypeOK, NEW q \in Rank, NEW r \in Rank
  PROVE  /\ channel[q][r] \in Seq(Message)
         /\ Len(channel[q][r]) \in Nat
         /\ Sent(q) \in {0, 1}
<1>1. channel[q][r] \in Seq(Message)
  BY DEF TypeOK
<1>2. Len(channel[q][r]) \in Nat
  BY <1>1
<1> QED
  BY <1>1, <1>2 DEF Sent

\* Two neighbours whom a step does not concern.
LEMMA BetweenStays ==
  ASSUME NEW q \in Rank, NEW r \in Rank, Between(q, r),
         channel'[q][r] = channel[q][r], channel'[r][q] = channel[r][q],
         Sent(q)' = Sent(q), Sent(r)' = Sent(r),
         NextStop(q)' = NextStop(q), NextStop(r)' = NextStop(r),
         StopAfter(q)' = StopAfter(q), StopAfter(r)' = StopAfter(r),
         Live(q)' <=> Live(q), Live(r)' <=> Live(r),
         \A n : Good(n, r)' <=> Good(n, r),
         q \in posted' <=> q \in posted, r \in posted' <=> r \in posted
  PROVE  Between(q, r)'
<1>1. Inbox(q, r) => Inbox(q, r)'
  BY DEF Inbox
<1>2. Room(r, q) => Room(r, q)'
  BY DEF Room
<1>3. /\ Abreast(q, r) => Abreast(q, r)'
      /\ Leads(q, r) => Leads(q, r)'
      /\ Leads(r, q) => Leads(r, q)'
  BY DEF Abreast, Leads
<1> QED
  BY <1>1, <1>2, <1>3 DEF Between

LEMMA AtExchange ==
  ASSUME NEW s \in Rank, pc[s] \in ExchangeSite
  PROVE  Live(s) /\ NextStop(s) = pc[s] /\ pc[s] \notin {"accept"}
BY StopHere, StopKinds DEF Live, Failed, NextStop

LEMMA SentMessage ==
  ASSUME LayerInv, ClockInv, PathInv, NEW s \in Rank, NEW r \in Rank,
         pc[s] \in ExchangeSite, Live(r)
  PROVE  Good(MessageFrom(s), r)
<1> DEFINE m == MessageFrom(s)
<1>1. TypeOK /\ SamePeriod
  BY PeriodsAgree DEF LayerInv
<1>2. Live(s) /\ pc[s] # "accept"
  BY AtExchange
<1>3. StepOf(s) = StepOf(r) /\ TimeOf(s) = TimeOf(r)
  BY <1>1, <1>2 DEF SamePeriod
<1>4. m.step = IF m.site = "init_exchange" THEN StepOf(r) - 1 ELSE StepOf(r)
  <2>1. clock[s].step \in Nat /\ accepted[s] \in Nat /\ OwnClock(s)
    BY <1>1, ClockNumbers DEF ClockInv
  <2>2. pc[s] \in Idle \cup Early \cup Written
    BY StopKinds DEF Idle, Early, Written, Late
  <2>3. pc[s] = "init_exchange" <=> pc[s] \in Idle
    BY StopKinds DEF Idle
  <2>4. m.step = clock[s].step /\ m.site = pc[s] /\ StepOf(s) = accepted[s] + 1
    BY <1>2 DEF MessageFrom, StepOf
  <2> QED
    BY <1>3, <2>1, <2>2, <2>3, <2>4 DEF OwnClock
<1>5. m.forest = forest.version
  BY SiteFacts DEF LayerInv, LayerCurrent, Usable, MessageFrom
<1>6. ASSUME NEW g \in Group
      PROVE  m.versions[g] + Left(m.site, g, StepOf(r), TimeOf(r)) = Total(r, g)
  <2>1. Total(s, g) = Total(r, g)
    BY <1>2 DEF PathInv, SameTotal
  <2> QED
    BY <1>3, <2>1 DEF Total, MessageFrom
<1>7. ASSUME m.site = "stamp_exchange"
      PROVE  m.stamps = {MakeStamp(session[r], StepOf(r))}
  <2>1. stamps[s] = {MakeStamp(session[s], StepOf(s))}
    BY <1>7 DEF PathInv, Stamped, MessageFrom
  <2>2. MakeStamp(session[s], StepOf(s)) = MakeStamp(session[r], StepOf(r))
    BY <1>3 DEF PathInv, SameSession, MakeStamp
  <2> QED
    BY <2>1, <2>2 DEF MessageFrom
<1> QED
  BY <1>4, <1>5, <1>6, <1>7 DEF Good

\* What the call does to a channel.
LEMMA Posting ==
  ASSUME TypeOK, NEW s \in Rank, BeginExchange(s)
  PROVE  /\ \A q, r \in Rank : q # s \/ r \notin Neighbours(s) =>
              channel'[q][r] = channel[q][r]
         /\ \A r \in Neighbours(s) :
              channel'[s][r] = Append(channel[s][r], MessageFrom(s))
         /\ Sent(s) = 0 /\ Sent(s)' = 1
         /\ \A r \in Rank \ {s} : Sent(r)' = Sent(r)
<1>1. \A r \in Neighbours(s) : r \in Rank
  BY DEF Neighbours
<1> QED
  BY <1>1 DEF BeginExchange, TypeOK, Sent

LEMMA SameWhilePosting ==
  ASSUME NEW s \in Rank, BeginExchange(s), NEW r \in Rank
  PROVE  /\ Live(r)' <=> Live(r)
         /\ NextStop(r)' = NextStop(r) /\ StopAfter(r)' = StopAfter(r)
         /\ Neighbours(r)' = Neighbours(r)
         /\ \A g \in Group : Total(r, g)' = Total(r, g)
         /\ \A m : Good(m, r)' <=> Good(m, r)
         /\ Stamped(r)' <=> Stamped(r)
         /\ \A q \in Rank : SameSession(q, r)' <=> SameSession(q, r)
<1>1. UNCHANGED <<pc, forest, session, own, stamps, clock, accepted>>
  BY DEF BeginExchange, cells, schedule
<1>2. StepOf(r)' = StepOf(r) /\ TimeOf(r)' = TimeOf(r)
  BY <1>1 DEF StepOf, TimeOf
<1>3. NextStop(r)' = NextStop(r)
  BY <1>1, <1>2 DEF NextStop
<1>4. \A g \in Group : Total(r, g)' = Total(r, g)
  BY <1>1, <1>2 DEF Total
<1>5. \A m : Good(m, r)' <=> Good(m, r)
  BY <1>1, <1>2, <1>4 DEF Good
<1>6. Stamped(r)' <=> Stamped(r)
  BY <1>1, <1>2 DEF Stamped
<1> QED
  BY <1>1, <1>2, <1>3, <1>4, <1>5, <1>6 DEF Live, StopAfter, Neighbours, SameSession

LEMMA AppendedMessage ==
  ASSUME NEW c \in Seq(Message), NEW m \in Message
  PROVE  /\ Len(Append(c, m)) = Len(c) + 1
         /\ Len(c) = 0 => Append(c, m)[1] = m
         /\ Len(c) = 1 => Append(c, m)[1] = c[1] /\ Append(c, m)[2] = m
<1>1. /\ Len(Append(c, m)) = Len(c) + 1
      /\ \A i \in 1..Len(c) : Append(c, m)[i] = c[i]
      /\ Append(c, m)[Len(c) + 1] = m
  BY AppendProperties
<1> QED
  BY <1>1

LEMMA PostingPair ==
  ASSUME LayerInv, ClockInv, PathInv, NEW s \in Rank, BeginExchange(s),
         NEW r \in Neighbours(s)
  PROVE  Between(s, r)' /\ Between(r, s)'
<1> DEFINE c == channel[s][r]
           d == channel[r][s]
           m == MessageFrom(s)
<1>1. /\ TypeOK /\ r \in Rank /\ r # s /\ s \in Neighbours(r)
      /\ pc[s] \in ExchangeSite /\ s \notin posted
  BY TouchBothWays DEF LayerInv, Neighbours, BeginExchange
<1>2. /\ Live(s) /\ NextStop(s) = pc[s]
  BY <1>1, AtExchange
<1>3. Between(s, r) /\ Between(r, s)
  BY <1>1 DEF PathInv
<1>4. /\ channel'[s][r] = Append(c, m) /\ channel'[r][s] = d
      /\ Sent(s) = 0 /\ Sent(s)' = 1 /\ Sent(r)' = Sent(r)
  BY <1>1, Posting
<1>5. Len(c) \in Nat /\ Len(d) \in Nat /\ Sent(r) \in {0, 1}
  BY <1>1, Lengths
<1>6. /\ Len(Append(c, m)) = Len(c) + 1
      /\ Len(c) = 0 => Append(c, m)[1] = m
      /\ Len(c) = 1 => Append(c, m)[1] = c[1] /\ Append(c, m)[2] = m
  <2>1. c \in Seq(Message) /\ m \in Message
    BY <1>1, Lengths, MessageFromType
  <2> QED
    BY <2>1, AppendedMessage
<1>7. /\ Live(s)' /\ (Live(r)' <=> Live(r))
      /\ NextStop(s)' = NextStop(s) /\ NextStop(r)' = NextStop(r)
      /\ StopAfter(s)' = StopAfter(s) /\ StopAfter(r)' = StopAfter(r)
      /\ \A n : Good(n, r)' <=> Good(n, r)
      /\ \A n : Good(n, s)' <=> Good(n, s)
  BY <1>1, <1>2, SameWhilePosting
<1>8. Room(s, r) /\ Inbox(r, s)
  BY <1>2, <1>3 DEF Between
<1> HIDE DEF c, d, m
<1>9. Len(c) + Len(d) <= 1
  <2>1. Sent(s) = 0 /\ Len(c) + Len(d) + 1 - Sent(s) <= 2
    BY <1>4, <1>8 DEF Room, c, d
  <2> QED
    BY <1>5, <2>1
<1>10. /\ Len(channel'[s][r]) = Len(c) + 1
       /\ Len(channel'[r][s]) = Len(d)
  BY <1>4, <1>6
<1>11. Room(s, r)' /\ Inbox(r, s)'
  <2>1. Room(s, r)'
    BY <1>4, <1>5, <1>9, <1>10 DEF Room
  <2>2. Inbox(r, s)'
    BY <1>4, <1>7, <1>8 DEF Inbox, d
  <2> QED
    BY <2>1, <2>2
<1>12. ASSUME Live(r)
       PROVE  /\ Room(r, s)' /\ Inbox(s, r)'
              /\ Abreast(s, r)' \/ Leads(s, r)'
  <2>1. Inbox(s, r) /\ (Abreast(s, r) \/ Leads(s, r))
    BY <1>1, <1>2, <1>3, <1>12 DEF Between, Leads
  <2>2. m.site = NextStop(s) /\ Good(m, r)
    BY <1>1, <1>2, <1>12, SentMessage DEF m, MessageFrom
  <2>3. CASE Abreast(s, r)
    <3>1. /\ Len(c) = 0 /\ Len(d) = Sent(r) /\ NextStop(s) = NextStop(r)
      BY <1>4, <2>3 DEF Abreast, c, d
    <3>2. Append(c, m)[1] = m
      BY <1>6, <3>1
    <3>3. Abreast(s, r)'
      BY <1>4, <1>7, <1>10, <3>1 DEF Abreast
    <3>4. Room(r, s)'
      BY <1>4, <1>5, <1>10, <3>1 DEF Room
    <3>5. Inbox(s, r)'
      BY <1>4, <1>6, <1>7, <2>2, <3>1, <3>2 DEF Inbox
    <3> QED
      BY <3>3, <3>4, <3>5
  <2>4. CASE Leads(s, r)
    <3>1. /\ r \in posted /\ NextStop(s) = StopAfter(r)
          /\ Len(d) = 0 /\ Len(c) = 1
      BY <1>4, <2>4 DEF Leads, c, d
    <3>2. /\ Append(c, m)[1] = c[1] /\ Append(c, m)[2] = m
      BY <1>6, <3>1
    <3>3. r \in posted' /\ Sent(r) = 1
      BY <3>1 DEF BeginExchange, Sent
    <3>4. Leads(s, r)'
      BY <1>4, <1>7, <1>10, <3>1, <3>3 DEF Leads
    <3>5. Room(r, s)'
      BY <1>4, <1>10, <3>1, <3>3 DEF Room
    <3>6. c[1].site = NextStop(r) /\ Good(c[1], r)
      BY <2>1, <3>1 DEF Inbox, c
    <3>7. Inbox(s, r)'
      BY <1>4, <1>6, <1>7, <2>2, <3>1, <3>2, <3>6 DEF Inbox
    <3> QED
      BY <3>4, <3>5, <3>7
  <2> QED
    BY <2>1, <2>3, <2>4
<1>13. Abreast(s, r)' => Abreast(r, s)'
  BY DEF Abreast
<1>14. Len(channel'[s][r]) <= 2 /\ Len(channel'[r][s]) <= 2
  BY <1>5, <1>9, <1>10
<1> QED
  BY <1>7, <1>11, <1>12, <1>13, <1>14 DEF Between

LEMMA BeginPath ==
  ASSUME LayerInv, ClockInv, PathInv, NEW s \in Rank, BeginExchange(s)
  PROVE  PathInv'
<1>1. TypeOK
  BY DEF LayerInv
<1>2. \A r \in Rank : Neighbours(r)' = Neighbours(r)
  BY SameWhilePosting
<1>3. ASSUME NEW r \in Rank, NEW q \in Neighbours(r)
      PROVE  Between(q, r)'
  <2>1. q \in Rank /\ q # r /\ Between(q, r)
    BY <1>1, <1>3, TouchBothWays DEF PathInv, Neighbours
  <2>2. CASE q = s
    BY <1>1, <1>3, <2>2, PostingPair, TouchBothWays
  <2>3. CASE r = s
    BY <1>3, <2>3, PostingPair
  <2>4. CASE q # s /\ r # s
    <3>1. /\ channel'[q][r] = channel[q][r] /\ channel'[r][q] = channel[r][q]
          /\ Sent(q)' = Sent(q) /\ Sent(r)' = Sent(r)
      BY <1>1, <2>1, <2>4, Posting
    <3>2. /\ NextStop(q)' = NextStop(q) /\ NextStop(r)' = NextStop(r)
          /\ StopAfter(q)' = StopAfter(q) /\ StopAfter(r)' = StopAfter(r)
          /\ (Live(q)' <=> Live(q)) /\ (Live(r)' <=> Live(r))
          /\ \A n : Good(n, r)' <=> Good(n, r)
      BY <2>1, SameWhilePosting
    <3>3. (q \in posted' <=> q \in posted) /\ (r \in posted' <=> r \in posted)
      BY <2>4 DEF BeginExchange
    <3> QED
      BY <2>1, <3>1, <3>2, <3>3, BetweenStays
  <2> QED
    BY <2>2, <2>3, <2>4
<1>4. ASSUME NEW q \in Rank, NEW r \in Rank
      PROVE  SameSession(q, r)' /\ SameTotal(q, r)'
  <2>1. SameSession(q, r) /\ SameTotal(q, r)
    BY DEF PathInv
  <2> QED
    BY <2>1, SameWhilePosting DEF SameTotal
<1>5. \A r \in Rank : Stamped(r)'
  BY SameWhilePosting DEF PathInv
<1>6. ASSUME NEW q \in Rank, NEW r \in Rank, q \notin Neighbours(r)
      PROVE  channel'[q][r] = <<>>
  <2>1. channel[q][r] = <<>> /\ r \notin Neighbours(q)
    BY <1>1, <1>6, TouchBothWays DEF PathInv
  <2> QED
    BY <1>1, <2>1, Posting
<1> QED
  BY <1>2, <1>3, <1>4, <1>5, <1>6 DEF PathInv

-----------------------------------------------------------------------------
(* A rank leaves an exchange.                                              *)

LEMMA Taking ==
  ASSUME TypeOK, NEW s \in Rank, EndExchange(s)
  PROVE  /\ \A q, r \in Rank : r # s \/ q \notin Neighbours(s) =>
              channel'[q][r] = channel[q][r]
         /\ \A q \in Neighbours(s) :
              /\ channel'[q][s] = Tail(channel[q][s])
              /\ Len(channel[q][s]) > 0
              /\ Len(channel'[q][s]) = Len(channel[q][s]) - 1
              /\ Len(channel[q][s]) > 1 => channel'[q][s][1] = channel[q][s][2]
         /\ Sent(s) = 1 /\ Sent(s)' = 0
         /\ \A r \in Rank \ {s} : Sent(r)' = Sent(r)
<1>1. /\ \A q, r \in Rank : r # s \/ q \notin Neighbours(s) =>
           channel'[q][r] = channel[q][r]
      /\ \A q \in Neighbours(s) : q \in Rank
  BY DEF EndExchange, TypeOK, Neighbours
<1>2. ASSUME NEW q \in Neighbours(s)
      PROVE  /\ channel'[q][s] = Tail(channel[q][s])
             /\ channel[q][s] # <<>> /\ channel[q][s] \in Seq(Message)
  BY <1>1, <1>2 DEF EndExchange, TypeOK
<1>3. ASSUME NEW c \in Seq(Message), c # <<>>
      PROVE  /\ Len(c) > 0 /\ Len(Tail(c)) = Len(c) - 1
             /\ Len(c) > 1 => Tail(c)[1] = c[2]
  BY <1>3
<1>4. /\ Sent(s) = 1 /\ Sent(s)' = 0
      /\ \A r \in Rank \ {s} : Sent(r)' = Sent(r)
  BY DEF EndExchange, Sent
<1> QED
  BY <1>1, <1>2, <1>3, <1>4

LEMMA SameWhileTaking ==
  ASSUME LayerInv, NEW s \in Rank, EndExchange(s), NEW r \in Rank
  PROVE  /\ Live(r)' <=> Live(r)
         /\ StepOf(r)' = StepOf(r) /\ TimeOf(r)' = TimeOf(r)
         /\ NextStop(r)' = IF r = s THEN StopAfter(s) ELSE NextStop(r)
         /\ r # s => StopAfter(r)' = StopAfter(r)
         /\ Neighbours(r)' = Neighbours(r)
         /\ \A g \in Group : Total(r, g)' = Total(r, g)
         /\ \A m : Good(m, r)' <=> Good(m, r)
<1>1. /\ TypeOK /\ pc[s] \in ExchangeSite
      /\ UNCHANGED <<forest, session, own, stamps, clock, accepted>>
      /\ pc'[s] = ExchangeThen[pc[s]]
      /\ \A q \in Rank \ {s} : pc'[q] = pc[q]
  BY DEF EndExchange, LayerInv, PostedInExchange, TypeOK, cells, schedule
<1>2. /\ Live(s) /\ NextStop(s) = pc[s] /\ pc[s] # "accept"
  BY <1>1, AtExchange
<1>3. pc'[s] # "accept" /\ Live(s)'
  BY <1>1 DEF ExchangeSite, ExchangeThen, Live, Failed
<1>4. StepOf(r)' = StepOf(r) /\ TimeOf(r)' = TimeOf(r)
  BY <1>1, <1>2, <1>3 DEF StepOf, TimeOf
<1>5. NextStop(r)' = IF r = s THEN StopAfter(s) ELSE NextStop(r)
  BY <1>1, <1>2, <1>4 DEF NextStop, StopAfter
<1>6. ASSUME NEW g \in Group
      PROVE  Total(r, g)' = Total(r, g)
  BY <1>1, <1>4, ExchangeLegs DEF Total
<1>7. \A m : Good(m, r)' <=> Good(m, r)
  BY <1>1, <1>4, <1>6 DEF Good
<1>8. r # s => StopAfter(r)' = StopAfter(r)
  BY <1>4, <1>5 DEF StopAfter
<1>9. Live(r)' <=> Live(r)
  BY <1>1, <1>2, <1>3 DEF Live
<1> QED
  BY <1>1, <1>4, <1>5, <1>6, <1>7, <1>8, <1>9 DEF Neighbours

LEMMA TakingPair ==
  ASSUME LayerInv, ClockInv, PathInv, NEW s \in Rank, EndExchange(s),
         NEW r \in Neighbours(s)
  PROVE  Between(s, r)' /\ Between(r, s)'
<1> DEFINE c == channel[s][r]
           d == channel[r][s]
<1>1. /\ TypeOK /\ r \in Rank /\ r # s /\ s \in Neighbours(r)
      /\ pc[s] \in ExchangeSite /\ s \in posted
  BY TouchBothWays DEF LayerInv, PostedInExchange, Neighbours, EndExchange
<1>2. /\ Live(s) /\ NextStop(s) = pc[s]
  BY <1>1, AtExchange
<1>3. Between(s, r) /\ Between(r, s)
  BY <1>1 DEF PathInv
<1>4. /\ channel'[s][r] = c /\ Len(channel'[r][s]) = Len(d) - 1
      /\ Len(d) > 0 /\ Len(d) > 1 => channel'[r][s][1] = d[2]
  BY <1>1, Taking
<1>5. Sent(s) = 1 /\ Sent(s)' = 0 /\ Sent(r)' = Sent(r)
  BY <1>1, Taking
<1>6. Len(c) \in Nat /\ Len(d) \in Nat /\ Sent(r) \in {0, 1}
  BY <1>1, Lengths
<1> HIDE DEF c, d
<1>7. /\ Live(s)' /\ (Live(r)' <=> Live(r))
      /\ NextStop(s)' = StopAfter(s) /\ NextStop(r)' = NextStop(r)
      /\ StopAfter(r)' = StopAfter(r)
      /\ \A n : Good(n, r)' <=> Good(n, r)
      /\ \A n : Good(n, s)' <=> Good(n, s)
  BY <1>1, <1>2, SameWhileTaking
<1>8. Len(c) + Len(d) <= 2 /\ Len(c) <= 2 /\ Len(d) <= 2 /\ Inbox(r, s)
  <2>1. /\ Len(c) + Len(d) + 1 - Sent(s) <= 2 /\ Inbox(r, s)
        /\ Len(c) <= 2 /\ Len(d) <= 2
    BY <1>2, <1>3 DEF Between, Room, c, d
  <2> QED
    BY <1>5, <1>6, <2>1
<1>9. Room(s, r)' /\ Inbox(r, s)'
  <2>1. Room(s, r)'
    BY <1>4, <1>5, <1>6, <1>8 DEF Room
  <2>2. Len(d) > 1 => d[2].site = StopAfter(s) /\ Good(d[2], s)
    BY <1>8 DEF Inbox, d
  <2>3. Inbox(r, s)'
    BY <1>4, <1>6, <1>7, <1>8, <2>2 DEF Inbox
  <2> QED
    BY <2>1, <2>3
<1>10. ASSUME Live(r)
       PROVE  /\ Room(r, s)' /\ Inbox(s, r)'
              /\ Leads(s, r)' \/ Abreast(s, r)'
  <2>1. Inbox(s, r) /\ Room(r, s)
    BY <1>3, <1>10 DEF Between
  <2>2. Room(r, s)'
    <3>1. Len(d) + Len(c) + 1 - Sent(r) <= 2
      BY <2>1 DEF Room, c, d
    <3> QED
      BY <1>4, <1>5, <1>6, <3>1 DEF Room
  <2>3. Inbox(s, r)'
    BY <1>4, <1>7, <2>1 DEF Inbox, c
  <2>4. Abreast(s, r) \/ Leads(r, s)
    BY <1>2, <1>3, <1>4, <1>10 DEF Between, Leads, d
  <2>5. CASE Abreast(s, r)
    <3>1. Len(c) = 1 /\ Len(d) = Sent(r) /\ NextStop(s) = NextStop(r)
      BY <1>5, <2>5 DEF Abreast, c, d
    <3>2. r \in posted /\ Sent(r) = 1
      BY <1>4, <1>6, <3>1 DEF Sent
    <3>3. StopAfter(s) = StopAfter(r)
      <4>1. StepOf(s) = StepOf(r) /\ TimeOf(s) = TimeOf(r)
        BY <1>1, <1>2, <1>10, PeriodsAgree DEF SamePeriod
      <4> QED
        BY <3>1, <4>1 DEF StopAfter
    <3>4. r \in posted'
      BY <1>1, <3>2 DEF EndExchange
    <3>5. Leads(s, r)'
      BY <1>4, <1>5, <1>7, <3>1, <3>2, <3>3, <3>4 DEF Leads
    <3> QED
      BY <2>2, <2>3, <3>5
  <2>6. CASE Leads(r, s)
    <3>1. Len(c) = 0 /\ Len(d) = 1 + Sent(r) /\ NextStop(r) = StopAfter(s)
      BY <2>6 DEF Leads, c, d
    <3>2. Abreast(s, r)'
      BY <1>4, <1>5, <1>6, <1>7, <3>1 DEF Abreast
    <3> QED
      BY <2>2, <2>3, <3>2
  <2> QED
    BY <2>4, <2>5, <2>6
<1>11. Abreast(s, r)' => Abreast(r, s)'
  BY DEF Abreast
<1>12. Len(channel'[s][r]) <= 2 /\ Len(channel'[r][s]) <= 2
  BY <1>4, <1>6, <1>8
<1> QED
  BY <1>7, <1>9, <1>10, <1>11, <1>12 DEF Between

LEMMA EndPath ==
  ASSUME LayerInv, ClockInv, PathInv, NEW s \in Rank, EndExchange(s)
  PROVE  PathInv'
<1>1. TypeOK
  BY DEF LayerInv
<1>2. \A r \in Rank : Neighbours(r)' = Neighbours(r)
  BY SameWhileTaking
<1>3. ASSUME NEW r \in Rank, NEW q \in Neighbours(r)
      PROVE  Between(q, r)'
  <2>1. q \in Rank /\ q # r /\ Between(q, r)
    BY <1>1, <1>3, TouchBothWays DEF PathInv, Neighbours
  <2>2. CASE q = s
    BY <1>1, <1>3, <2>2, TakingPair, TouchBothWays
  <2>3. CASE r = s
    BY <1>3, <2>3, TakingPair
  <2>4. CASE q # s /\ r # s
    <3>1. /\ channel'[q][r] = channel[q][r] /\ channel'[r][q] = channel[r][q]
          /\ Sent(q)' = Sent(q) /\ Sent(r)' = Sent(r)
      BY <1>1, <2>1, <2>4, Taking
    <3>2. /\ NextStop(q)' = NextStop(q) /\ NextStop(r)' = NextStop(r)
          /\ StopAfter(q)' = StopAfter(q) /\ StopAfter(r)' = StopAfter(r)
          /\ (Live(q)' <=> Live(q)) /\ (Live(r)' <=> Live(r))
          /\ \A n : Good(n, r)' <=> Good(n, r)
      BY <2>1, <2>4, SameWhileTaking
    <3>3. (q \in posted' <=> q \in posted) /\ (r \in posted' <=> r \in posted)
      BY <2>4 DEF EndExchange
    <3> QED
      BY <2>1, <3>1, <3>2, <3>3, BetweenStays
  <2> QED
    BY <2>2, <2>3, <2>4
<1>4. ASSUME NEW q \in Rank, NEW r \in Rank
      PROVE  SameSession(q, r)' /\ SameTotal(q, r)'
  <2>1. SameSession(q, r) /\ SameTotal(q, r)
    BY DEF PathInv
  <2>2. SameTotal(q, r)'
    BY <2>1, SameWhileTaking DEF SameTotal
  <2> QED
    BY <2>1, <2>2 DEF SameSession, EndExchange
<1>5. ASSUME NEW r \in Rank
      PROVE  Stamped(r)'
  <2>1. Stamped(r) /\ stamps' = stamps /\ session' = session /\ StepOf(r)' = StepOf(r)
    BY SameWhileTaking DEF PathInv, EndExchange, cells
  <2>2. CASE r # s
    BY <1>1, <2>1, <2>2 DEF Stamped, EndExchange, TypeOK
  <2>3. CASE r = s
    <3>1. pc[s] \in ExchangeSite /\ pc'[s] = ExchangeThen[pc[s]]
      BY <1>1 DEF EndExchange, LayerInv, PostedInExchange, TypeOK
    <3>2. pc'[s] \in {"stamp_exchange", "validate"} => pc[s] = "stamp_exchange"
      BY <3>1 DEF ExchangeSite, ExchangeThen
    <3> QED
      BY <2>1, <2>3, <3>2 DEF Stamped
  <2> QED
    BY <2>2, <2>3
<1>6. ASSUME NEW q \in Rank, NEW r \in Rank, q \notin Neighbours(r)
      PROVE  channel'[q][r] = <<>>
  <2>1. channel[q][r] = <<>>
    BY <1>6 DEF PathInv
  <2> QED
    BY <1>1, <1>6, <2>1, Taking
<1> QED
  BY <1>2, <1>3, <1>4, <1>5, <1>6 DEF PathInv

-----------------------------------------------------------------------------
(* At a collective call no message is left behind.                         *)

\* Every rank is at the same call, with nothing in flight.
Gathered ==
  /\ posted = {}
  /\ \A q, r \in Rank : channel[q][r] = <<>>
  /\ \A q, r \in Rank :
       /\ pc[q] = pc[r] /\ accepted[q] = accepted[r]
       /\ clock[q].step = clock[r].step
       /\ clock[q].time = clock[r].time /\ clock[q].dt = clock[r].dt
       /\ \A g \in Group : own[q][g] = own[r][g]
       /\ SameSession(q, r)
  /\ \A r \in Rank : Live(r) /\ pc[r] \notin {"stamp_exchange", "validate"}

LEMMA GatheredOnPath == Gathered => PathInv
<1> SUFFICES ASSUME Gathered PROVE PathInv
  OBVIOUS
<1>1. \A q, r \in Rank :
        /\ StepOf(q) = StepOf(r) /\ TimeOf(q) = TimeOf(r) /\ pc[q] = pc[r]
        /\ Sent(q) = 0 /\ Len(channel[q][r]) = 0
  BY DEF Gathered, StepOf, TimeOf, Sent
<1>2. \A q, r \in Rank : SameSession(q, r) /\ SameTotal(q, r)
  BY <1>1 DEF Gathered, SameTotal, Total
<1>3. ASSUME NEW r \in Rank, NEW q \in Neighbours(r)
      PROVE  Between(q, r)
  <2>1. q \in Rank
    BY <1>3 DEF Neighbours
  <2>2. /\ Len(channel[q][r]) = 0 /\ Len(channel[r][q]) = 0
        /\ Sent(q) = 0 /\ Sent(r) = 0
    BY <1>1, <2>1
  <2>3. NextStop(q) = NextStop(r)
    BY <1>1, <2>1 DEF NextStop
  <2> QED
    BY <2>2, <2>3 DEF Between, Inbox, Room, Abreast
<1>4. \A r \in Rank : Stamped(r)
  BY DEF Gathered, Stamped
<1>5. \A q, r \in Rank : channel[q][r] = <<>>
  BY DEF Gathered
<1> QED
  BY <1>2, <1>3, <1>4, <1>5 DEF PathInv

LEMMA GatheredThen == Gathered' => PathInv'
BY GatheredOnPath, PTL

\* Ranks at collectives have nothing in flight; it need not be the same call.
LEMMA NothingInFlight ==
  ASSUME LayerInv, PathInv, \A r \in Rank : pc[r] \in CollectiveSite
  PROVE  posted = {} /\ \A q, r \in Rank : channel[q][r] = <<>>
<1>1. TypeOK /\ \A r \in Rank : r \notin posted /\ Live(r)
  BY DEF LayerInv, PostedInExchange, CollectiveSite, ExchangeSite, ExchangeThen, Live, Failed
<1>2. posted = {}
  BY <1>1 DEF TypeOK
<1>3. ASSUME NEW q \in Rank, NEW r \in Rank
      PROVE  channel[q][r] = <<>>
  <2>1. CASE q \notin Neighbours(r)
    BY <2>1 DEF PathInv
  <2>2. CASE q \in Neighbours(r)
    <3>1. Abreast(q, r)
      BY <1>1, <2>2 DEF PathInv, Between, Leads
    <3>2. Len(channel[q][r]) = 0
      BY <1>1, <3>1 DEF Abreast, Sent
    <3>3. channel[q][r] \in Seq(Message)
      BY <1>1, Lengths
    <3> QED
      BY <3>2, <3>3
  <2> QED
    BY <2>1, <2>2
<1> QED
  BY <1>2, <1>3

LEMMA GatheredBefore ==
  ASSUME LayerInv, ClockInv, PathInv, NEW here \in CollectiveSite, Everyone(here)
  PROVE  Gathered
<1>1. TypeOK /\ SamePeriod
  BY PeriodsAgree DEF LayerInv
<1>2. /\ here \notin Failed \cup {"accept", "stamp_exchange", "validate"}
      /\ \A r \in Rank : pc[r] = here /\ Live(r)
  BY DEF CollectiveSite, Failed, Everyone, Live
<1>3. posted = {} /\ \A q, r \in Rank : channel[q][r] = <<>>
  BY NothingInFlight DEF Everyone
<1>4. ASSUME NEW q \in Rank, NEW r \in Rank
      PROVE  /\ accepted[q] = accepted[r] /\ clock[q].step = clock[r].step
             /\ clock[q].time = clock[r].time /\ clock[q].dt = clock[r].dt
             /\ \A g \in Group : own[q][g] = own[r][g]
  <2>1. StepOf(q) = StepOf(r) /\ TimeOf(q) = TimeOf(r)
    BY <1>1, <1>2 DEF SamePeriod
  <2>2. accepted[q] \in Nat /\ accepted[r] \in Nat
    BY <1>1, ClockNumbers
  <2>3. accepted[q] = accepted[r] /\ clock[q].time = clock[r].time
    BY <1>2, <2>1, <2>2 DEF StepOf, TimeOf
  <2>4. clock[q].dt = clock[r].dt
    BY DEF ClockInv, InStep
  <2>5. clock[q].step = clock[r].step
    <3>1. here \in Idle \cup Early \cup Written
      BY DEF CollectiveSite, Idle, Early, Written, Late
    <3>2. OwnClock(q) /\ OwnClock(r)
      BY DEF ClockInv
    <3> QED
      BY <1>2, <2>3, <3>1, <3>2 DEF OwnClock
  <2>6. ASSUME NEW g \in Group
        PROVE  own[q][g] = own[r][g]
    <3>1. Total(q, g) = Total(r, g)
      BY <1>2 DEF PathInv, SameTotal
    <3>2. /\ own[q][g] \in Nat /\ own[r][g] \in Nat
          /\ Left(here, g, StepOf(r), TimeOf(r)) \in Nat
      BY <1>1, LeftNumbers DEF TypeOK, Version
    <3>3. own[q][g] + Left(here, g, StepOf(r), TimeOf(r))
            = own[r][g] + Left(here, g, StepOf(r), TimeOf(r))
      BY <1>2, <2>1, <3>1 DEF Total
    <3> QED
      BY <3>2, <3>3
  <2> QED
    BY <2>3, <2>4, <2>5, <2>6
<1> QED
  BY <1>2, <1>3, <1>4 DEF Gathered, PathInv

LEMMA GatheredGoes ==
  ASSUME Gathered, UNCHANGED <<posted, channel, accepted, clock>>,
         NEW there, there \notin Failed \cup {"stamp_exchange", "validate"},
         \A r \in Rank : pc'[r] = there,
         \A q, r \in Rank : \A g \in Group : own'[q][g] = own'[r][g],
         \A q, r \in Rank : SameSession(q, r)'
  PROVE  Gathered'
BY DEF Gathered, Live

LEMMA SessionsAlike ==
  ASSUME TypeOK, Gathered,
         \/ session' = session
         \/ session' = [r \in Rank |-> Built(session[r], forest.version)]
         \/ session' = [r \in Rank |-> Invalidated(session[r])]
         \/ session' = [r \in Rank |-> Destroyed(Invalidated(session[r]))]
  PROVE  \A q, r \in Rank : SameSession(q, r)'
<1> SUFFICES ASSUME NEW q \in Rank, NEW r \in Rank
             PROVE  SameSession(q, r)'
  OBVIOUS
<1>1. /\ session[q] \in Session /\ session[r] \in Session
      /\ SameSession(q, r)
  BY DEF TypeOK, Gathered
<1>2. CASE session' = session
  BY <1>1, <1>2 DEF SameSession
<1>3. \A s \in Session :
        /\ Built(s, forest.version).generation = s.generation + 1
        /\ Built(s, forest.version).topologyVersion = s.topologyVersion
        /\ Invalidated(s).generation = s.generation
        /\ Invalidated(s).topologyVersion = s.topologyVersion + 1
        /\ Destroyed(Invalidated(s)).generation = s.generation
        /\ Destroyed(Invalidated(s)).topologyVersion = s.topologyVersion + 1
  BY DEF Session, Built, Invalidated, Destroyed
<1>4. CASE session' = [p \in Rank |-> Built(session[p], forest.version)]
  BY <1>1, <1>3, <1>4 DEF SameSession
<1>5. CASE session' = [p \in Rank |-> Invalidated(session[p])]
  BY <1>1, <1>3, <1>5 DEF SameSession
<1>6. CASE session' = [p \in Rank |-> Destroyed(Invalidated(session[p]))]
  BY <1>1, <1>3, <1>6 DEF SameSession
<1> QED
  BY <1>2, <1>4, <1>5, <1>6

LEMMA NewLeavesAlike ==
  ASSUME TypeOK, Gathered, NEW adjacency, ChangeForest(adjacency)
  PROVE  \A q, r \in Rank : \A g \in Group : own'[q][g] = own'[r][g]
BY DEF Gathered, ChangeForest

\* The branch after balance is the same for all.
LEMMA AfterBalance ==
  ASSUME TypeOK, Gathered, Balance
  PROVE  \E there \in {"partition", "layer"} : \A r \in Rank : pc'[r] = there
<1>1. \A r \in Rank : IsEmpty(session'[r])
  BY SessionType DEF Balance, TypeOK
<1>2. \A r \in Rank :
        pc'[r] = IF Due(r, RepartitionPeriod) THEN "partition" ELSE "layer"
  BY <1>1 DEF Balance, AfterAmr, AfterPartition
<1>3. \A q, r \in Rank :
        Due(q, RepartitionPeriod) <=> Due(r, RepartitionPeriod)
  BY DEF Gathered, Due
<1> QED
  BY <1>2, <1>3

LEMMA CollectiveGathered ==
  ASSUME TypeOK, Gathered, Collective
  PROVE  Gathered'
<1> DEFINE Sound(there) == there \notin Failed \cup {"stamp_exchange", "validate"}
<1>1. \A there \in {"init_exchange", "amr_layer", "amr_exchange", "amr_energy",
                    "balance", "partition", "layer", "layer_exchange",
                    "refresh_exchange", "output", "accept"} : Sound(there)
  BY DEF Failed
<1>2. \A q, r \in Rank : \A g \in Group : own[q][g] = own[r][g]
  BY DEF Gathered
<1>3. CASE FirstLayer \/ RebuildLayer \/ NewLayer
  <2>1. PICK there \in {"init_exchange", "amr_exchange", "layer_exchange"} :
          \E here : BuildLayer(here, there)
    BY <1>3 DEF FirstLayer, RebuildLayer, NewLayer
  <2>2. \A q, r \in Rank : SameSession(q, r)'
    BY <2>1, SessionsAlike DEF BuildLayer
  <2>3. /\ UNCHANGED <<posted, channel, accepted, clock, own>>
        /\ \A r \in Rank : pc'[r] = there
    BY <2>1 DEF BuildLayer, EveryoneGoto, cells, schedule
  <2> QED
    BY <1>1, <1>2, <2>1, <2>2, <2>3, GatheredGoes
<1>4. CASE Refine
  <2>1. \A q, r \in Rank : SameSession(q, r)'
    BY <1>4, SessionsAlike DEF Refine
  <2>2. \A q, r \in Rank : \A g \in Group : own'[q][g] = own'[r][g]
    BY <1>4, NewLeavesAlike DEF Refine
  <2>3. /\ UNCHANGED <<posted, channel, accepted, clock>>
        /\ \A r \in Rank : pc'[r] = "amr_layer"
    BY <1>4 DEF Refine, EveryoneGoto, schedule
  <2> QED
    BY <1>1, <2>1, <2>2, <2>3, GatheredGoes
<1>5. CASE Coarsen
  <2>1. \A q, r \in Rank : SameSession(q, r)'
    BY <1>5, SessionsAlike DEF Coarsen
  <2>2. \A q, r \in Rank : \A g \in Group : own'[q][g] = own'[r][g]
    BY <1>5, NewLeavesAlike DEF Coarsen
  <2>3. /\ UNCHANGED <<posted, channel, accepted, clock>>
        /\ \A r \in Rank : pc'[r] = "amr_energy"
    BY <1>5 DEF Coarsen, EveryoneGoto, schedule
  <2> QED
    BY <1>1, <2>1, <2>2, <2>3, GatheredGoes
<1>6. CASE Balance
  <2>1. \A q, r \in Rank : SameSession(q, r)'
    BY <1>6, SessionsAlike DEF Balance
  <2>2. \A q, r \in Rank : \A g \in Group : own'[q][g] = own'[r][g]
    BY <1>6, NewLeavesAlike DEF Balance
  <2>3. UNCHANGED <<posted, channel, accepted, clock>>
    BY <1>6 DEF Balance, schedule
  <2> QED
    BY <1>1, <1>6, <2>1, <2>2, <2>3, AfterBalance, GatheredGoes
<1>7. CASE Partition
  <2>1. \A q, r \in Rank : SameSession(q, r)'
    BY <1>7, SessionsAlike DEF Partition
  <2>2. \A r \in Rank : IsEmpty(session'[r])
    BY <1>7, SessionType DEF Partition, TypeOK
  <2>3. /\ UNCHANGED <<posted, channel, accepted, clock, own>>
        /\ \A r \in Rank : pc'[r] = "layer"
    BY <1>7, <2>2 DEF Partition, AfterPartition, schedule
  <2> QED
    BY <1>1, <1>2, <2>1, <2>3, GatheredGoes
<1>8. CASE CheckAmrEnergy \/ RecheckRefresh \/ CheckEnergy
  <2>1. \A q, r \in Rank : SameSession(q, r)'
    BY <1>8, SessionsAlike DEF CheckAmrEnergy, RecheckRefresh, CheckEnergy, layers
  <2>2. /\ UNCHANGED <<posted, channel, accepted, clock, own>>
        /\ \E there \in {"balance", "refresh_exchange", "accept"} :
             \A r \in Rank : pc'[r] = there
    BY <1>8 DEF CheckAmrEnergy, RecheckRefresh, CheckEnergy, EveryoneGoto,
                layers, cells, schedule
  <2> QED
    BY <1>1, <1>2, <2>1, <2>2, GatheredGoes
<1>9. CASE ReduceTimestep
  <2>1. \A q, r \in Rank : SameSession(q, r)'
    BY <1>9, SessionsAlike DEF ReduceTimestep, layers
  <2>2. /\ UNCHANGED <<posted, channel, accepted, own>>
        /\ \A r \in Rank : pc'[r] = "output"
    BY <1>9 DEF ReduceTimestep, EveryoneGoto, layers, cells
  <2>3. \A q, r \in Rank :
          /\ clock'[r].step = clock[r].step /\ clock'[r].time = clock[r].time
          /\ clock'[q].dt = clock'[r].dt
    <3>1. PICK p \in Rank :
            clock' = [q \in Rank |-> [clock[q] EXCEPT !.dt = localDt[p]]]
      BY <1>9 DEF ReduceTimestep
    <3>2. \A r \in Rank : clock[r] \in Clock
      BY ClockFields
    <3> QED
      BY <3>1, <3>2 DEF Clock
  <2>4. \A r \in Rank : Live(r)' /\ pc'[r] \notin {"stamp_exchange", "validate"}
    BY <2>2 DEF Live, Failed
  <2>5. /\ posted = {} /\ \A q, r \in Rank : channel[q][r] = <<>>
        /\ \A q, r \in Rank :
             /\ accepted[q] = accepted[r] /\ clock[q].step = clock[r].step
             /\ clock[q].time = clock[r].time
    BY DEF Gathered
  <2> QED
    BY <1>2, <2>1, <2>2, <2>3, <2>4, <2>5 DEF Gathered
<1> QED
  BY <1>3, <1>4, <1>5, <1>6, <1>7, <1>8, <1>9 DEF Collective

LEMMA CollectivePath ==
  ASSUME LayerInv, ClockInv, PathInv, Collective
  PROVE  PathInv'
<1>1. PICK here \in CollectiveSite : Everyone(here)
  BY DEF Collective, FirstLayer, Refine, RebuildLayer, Coarsen, CheckAmrEnergy, Balance,
         Partition, NewLayer, RecheckRefresh, ReduceTimestep, CheckEnergy,
         BuildLayer, EveryoneGoto, CollectiveSite
<1>2. Gathered
  BY <1>1, GatheredBefore
<1>3. Gathered'
  BY <1>2, CollectiveGathered DEF LayerInv
<1> QED
  BY <1>3, GatheredThen

LEMMA InitPath == Init => PathInv
<1> SUFFICES ASSUME Init PROVE Gathered
  BY GatheredOnPath
<1>1. \A r \in Rank :
        /\ pc[r] = "init_layer" /\ accepted[r] = 0 /\ session[r] = Unbuilt
        /\ own[r] = NoWrites /\ \A q \in Rank : channel[q][r] = <<>>
        /\ clock[r].step = 0 /\ clock[r].time = 0 /\ clock[r].dt = InitialDt
  BY DEF Init
<1>2. posted = {}
  BY DEF Init
<1> QED
  BY <1>1, <1>2 DEF Gathered, SameSession, Live, Failed

LEMMA NextPath == LayerInv /\ ClockInv /\ PathInv /\ [Next]_vars => PathInv'
<1> SUFFICES ASSUME LayerInv, ClockInv, PathInv, [Next]_vars
             PROVE  PathInv'
  OBVIOUS
<1>1. TypeOK
  BY DEF LayerInv
<1>2. ASSUME NEW r \in Rank, RankStep(r)
      PROVE  PathInv'
  BY <1>2, LoopPath, AdaptPath, ControlPath, AssemblePath, SolvePath, UpdatePath,
     BeginPath, EndPath DEF RankStep, Exchange
<1>3. CASE Collective
  BY <1>3, CollectivePath
<1> QED
  BY <1>1, <1>2, <1>3, FailurePath DEF Next, Terminated

\* In every reachable state the ranks are on one path.
THEOREM PathInvariant == Spec => []PathInv
<1> QED
  BY InitPath, NextPath, LayerInvariant, ClockInvariant, PTL DEF Spec

\* No message is ever taken by another call than the one it was sent for: the
\* head of every channel a waiting rank reads names its site, its step and its
\* layer of the forest, although all exchanges use one tag.
THEOREM EveryMessageMatches == Spec => []MessagesMatch
<1>1. LayerInv /\ ClockInv /\ PathInv => MessagesMatch
  <2> SUFFICES ASSUME LayerInv, ClockInv, PathInv, NEW r \in posted,
                      NEW q \in Neighbours(r), channel[q][r] # <<>>
               PROVE  LET m == Head(channel[q][r])
                      IN  /\ m.site = pc[r] /\ m.step = clock[r].step
                          /\ m.forest = session[r].layer
    BY DEF MessagesMatch
  <2> DEFINE m == channel[q][r][1]
  <2>1. TypeOK /\ r \in Rank /\ q \in Rank /\ pc[r] \in ExchangeSite
    BY DEF LayerInv, TypeOK, PostedInExchange, Neighbours
  <2>2. channel[q][r] \in Seq(Message) /\ Len(channel[q][r]) > 0 /\ Head(channel[q][r]) = m
    BY <2>1, Lengths
  <2>3. /\ Live(r) /\ NextStop(r) = pc[r] /\ pc[r] # "accept"
    BY <2>1, AtExchange
  <2>4. m.site = pc[r] /\ Good(m, r)
    BY <2>1, <2>2, <2>3 DEF PathInv, Between, Inbox
  <2> HIDE DEF m
  <2>5. m.step = clock[r].step
    <3>1. clock[r].step \in Nat /\ accepted[r] \in Nat /\ OwnClock(r)
      BY <2>1, ClockNumbers DEF ClockInv
    <3>2. /\ pc[r] \in Idle \cup Early \cup Written
          /\ pc[r] = "init_exchange" <=> pc[r] \in Idle
      BY <2>1, StopKinds DEF Idle, Early, Written, Late
    <3>3. StepOf(r) = accepted[r] + 1
      BY <2>3 DEF StepOf
    <3>4. m.step = IF m.site = "init_exchange" THEN StepOf(r) - 1 ELSE StepOf(r)
      BY <2>4 DEF Good
    <3> QED
      BY <2>4, <3>1, <3>2, <3>3, <3>4 DEF OwnClock
  <2>6. m.forest = session[r].layer
    BY <2>1, <2>4, SiteFacts DEF Good, LayerInv, LayerCurrent, Usable
  <2> QED
    BY <2>2, <2>4, <2>5, <2>6
<1> QED
  BY <1>1, LayerInvariant, ClockInvariant, PathInvariant, PTL

\* No neighbour is ever more than one exchange ahead, and a forest operation
\* finds every channel empty.
THEOREM ChannelsStayBounded == Spec => []ChannelsBounded
<1>1. LayerInv /\ PathInv => ChannelsBounded
  <2> SUFFICES ASSUME LayerInv, PathInv PROVE ChannelsBounded
    OBVIOUS
  <2>1. ASSUME NEW q \in Rank, NEW r \in Rank
        PROVE  Len(channel[q][r]) <= 2
    <3>1. CASE q \in Neighbours(r)
      BY <3>1 DEF PathInv, Between
    <3>2. CASE q \notin Neighbours(r)
      <4>1. channel[q][r] = <<>>
        BY <3>2 DEF PathInv
      <4> QED
        BY <4>1
    <3> QED
      BY <3>1, <3>2
  <2> QED
    BY <2>1, NothingInFlight DEF ChannelsBounded
<1> QED
  BY <1>1, LayerInvariant, PathInvariant, PTL

-----------------------------------------------------------------------------
(***************************************************************************)
(* Every pass of the stage reads what the owner has written, and the       *)
(* gradients nothing older than by one accepted solution.                  *)
(*                                                                         *)
(* PathInv says what a message in flight carries: together with what is    *)
(* left to write before the next collective, the receiver's own count of   *)
(* writes.  An exchange therefore brings copies without a lag (EndCopies). *)
(* CopiesInv follows the lag from there, through the passes that write a   *)
(* group they do not exchange, to the next exchange.                       *)
(***************************************************************************)

\* The passes that come right after an exchange, and how old copies may be
\* elsewhere.
ReadSite ==
  {"tag", "hanging_info", "parent_edge", "validate", "point", "corner",
   "hanging_matrix", "hanging_solve", "force"}

AgeingSite == {"conservative", "energy", "accept", "loop", "preprocess", "refresh"}

Lag(r, q, g) == own[r][g] - ghost[r][q].versions[g]

CopiesAt(r) ==
  /\ pc[r] \in {"init_layer", "init_exchange"} => accepted[r] = 0
  /\ pc[r] \in ReadSite \cup AgeingSite => DOMAIN ghost[r] = Neighbours(r)
  /\ \A q \in Neighbours(r) :
       /\ pc[r] \in ReadSite => \A g \in Group : Lag(r, q, g) = 0
       /\ pc[r] = "validate" =>
            ghost[r][q].stamps = {MakeStamp(session[r], StepOf(r))}
       /\ pc[r] \in AgeingSite => Lag(r, q, "velo") = 0
       /\ pc[r] \in {"conservative", "energy", "accept"} => Lag(r, q, "cur") = 0
       /\ pc[r] \in {"loop", "preprocess"} =>
            Lag(r, q, "cur") = IF accepted[r] = 0 THEN 0 ELSE 1
       /\ pc[r] = "refresh" => Lag(r, q, "cur") \in {0, 1}

CopiesInv == \A r \in Rank : CopiesAt(r)

-----------------------------------------------------------------------------
(* The copies.                                                             *)

CopySite == ReadSite \cup AgeingSite \cup {"init_layer", "init_exchange"}

LEMMA CopySites ==
  /\ {"boundary", "halftime", "geometry", "nodal_boundary", "matrix", "relaxed",
      "predict", "output", "finish"} \cap CopySite = {}
  /\ Failed \cap CopySite = {} /\ Stopped \cap CopySite = {}
  /\ (CollectiveSite \ {"init_layer", "energy"}) \cap CopySite = {}
  /\ (ExchangeSite \ {"init_exchange"}) \cap CopySite = {}
BY StopKinds
DEF CopySite, ReadSite, AgeingSite, Failed, Stopped, CollectiveSite

LEMMA NothingCopied ==
  ASSUME NEW r \in Rank, pc'[r] \notin CopySite
  PROVE  CopiesAt(r)'
BY DEF CopiesAt, CopySite, ReadSite, AgeingSite

LEMMA CopyNumbers ==
  ASSUME TypeOK, NEW r \in Rank, NEW q \in DOMAIN ghost[r], NEW g \in Group
  PROVE  own[r][g] \in Nat /\ ghost[r][q].versions[g] \in Nat
BY DEF TypeOK, Message, Version

\* A rank whom a step does not concern.
LEMMA CopiesStay ==
  ASSUME NEW r \in Rank, CopiesAt(r),
         pc'[r] = pc[r], accepted'[r] = accepted[r], own'[r] = own[r],
         ghost'[r] = ghost[r], StampsAlike(r), forest' = forest
  PROVE  CopiesAt(r)'
<1>1. Neighbours(r)' = Neighbours(r) /\ StepOf(r)' = StepOf(r)
  BY DEF Neighbours, StepOf
<1>2. MakeStamp(session'[r], StepOf(r)') = MakeStamp(session[r], StepOf(r))
  BY <1>1 DEF StampsAlike, MakeStamp
<1>3. \A q \in Neighbours(r) : \A g \in Group : Lag(r, q, g)' = Lag(r, q, g)
  BY DEF Lag
<1>4. {"velo", "cur"} \subseteq Group
  BY DEF Group
<1> QED
  BY <1>1, <1>2, <1>3, <1>4 DEF CopiesAt

\* One rank goes on and keeps its copies; the others keep everything.
CopiesKept(s, there) ==
  /\ pc'[s] = there
  /\ UNCHANGED <<forest, ghost>>
  /\ \A r \in Rank : StampsAlike(r)
  /\ \A r \in Rank \ {s} :
       pc'[r] = pc[r] /\ accepted'[r] = accepted[r] /\ own'[r] = own[r]

LEMMA OneGoesOn ==
  ASSUME CopiesInv, NEW s \in Rank, NEW there, CopiesKept(s, there), CopiesAt(s)'
  PROVE  CopiesInv'
<1>1. ASSUME NEW r \in Rank \ {s}
      PROVE  CopiesAt(r)'
  BY CopiesStay DEF CopiesKept, CopiesInv
<1> QED
  BY <1>1 DEF CopiesInv

LEMMA PassKeepsCopies ==
  ASSUME TypeOK, NEW s \in Rank, NEW here, NEW groups, NEW there,
         Pass(s, here, groups, there)
  PROVE  /\ CopiesKept(s, there) /\ pc[s] = here
         /\ accepted' = accepted /\ Write(s, groups)
BY WroteOwn DEF Pass, Goto, TypeOK, CopiesKept, StampsAlike, layers, schedule, Write

\* What the copies lack grows by what the rank writes.
LEMMA LagGrows ==
  ASSUME TypeOK, NEW s \in Rank, NEW groups, Write(s, groups),
         UNCHANGED <<forest, ghost>>, DOMAIN ghost[s] = Neighbours(s),
         NEW q \in Neighbours(s), NEW g \in Group
  PROVE  Lag(s, q, g)' = Lag(s, q, g) + Once(g, groups) /\ Lag(s, q, g) \in Int
<1>1. own'[s][g] = own[s][g] + Once(g, groups) /\ Once(g, groups) \in {0, 1}
  BY WroteOwn DEF Once
<1>2. own[s][g] \in Nat /\ ghost[s][q].versions[g] \in Nat
  BY CopyNumbers
<1> QED
  BY <1>1, <1>2 DEF Lag

\* A pass to a site that reads no copies.
LEMMA PassAway ==
  ASSUME TypeOK, CopiesInv, NEW s \in Rank, NEW here, NEW groups,
         NEW there, there \notin CopySite, Pass(s, here, groups, there)
  PROVE  CopiesInv'
<1>1. CopiesKept(s, there)
  BY PassKeepsCopies
<1> QED
  BY <1>1, NothingCopied, OneGoesOn DEF CopiesKept

\* The passes that are followed by others that use the copies.
LEMMA ToConservative ==
  ASSUME TypeOK, CopiesInv, NEW s \in Rank,
         \/ Pass(s, "validate", {}, "conservative")
         \/ Pass(s, "force", {"recon"}, "conservative")
         \/ Pass(s, "conservative", {}, "energy")
  PROVE  CopiesInv'
<1>1. PICK groups \in {{}, {"recon"}}, there \in {"conservative", "energy"} :
        /\ CopiesKept(s, there) /\ Write(s, groups)
        /\ pc[s] \in {"validate", "force", "conservative"}
  BY PassKeepsCopies
<1>2. {"velo", "cur"} \subseteq Group /\ "velo" # "recon" /\ "cur" # "recon"
  BY DEF Group
<1>3. /\ pc[s] \in ReadSite \cup AgeingSite
      /\ {"conservative", "energy"} \subseteq AgeingSite
      /\ {"conservative", "energy"} \cap (ReadSite \cup {"validate", "loop",
           "preprocess", "refresh", "init_layer", "init_exchange"}) = {}
  BY <1>1 DEF ReadSite, AgeingSite
<1>4. CopiesAt(s) /\ Neighbours(s)' = Neighbours(s) /\ ghost' = ghost
  BY <1>1 DEF CopiesInv, CopiesKept, Neighbours
<1>5. DOMAIN ghost[s] = Neighbours(s)
  BY <1>3, <1>4 DEF CopiesAt
<1>6. ASSUME NEW q \in Neighbours(s), NEW g \in {"velo", "cur"}
      PROVE  Lag(s, q, g)' = 0
  <2>1. Lag(s, q, g) = 0
    BY <1>1, <1>2, <1>4, <1>6 DEF CopiesAt, ReadSite, AgeingSite
  <2>2. Once(g, groups) = 0
    BY <1>2, <1>6 DEF Once
  <2> QED
    BY <1>1, <1>2, <1>5, <1>6, <2>1, <2>2, LagGrows DEF CopiesKept
<1>7. CopiesAt(s)'
  BY <1>1, <1>3, <1>4, <1>5, <1>6 DEF CopiesAt, CopiesKept
<1> QED
  BY <1>1, <1>7, OneGoesOn

LEMMA UpdateCopies ==
  ASSUME TypeOK, CopiesInv, NEW s \in Rank, AcceptSolution(s)
  PROVE  CopiesInv'
<1>1. /\ CopiesKept(s, "loop") /\ pc[s] = "accept" /\ Write(s, {"cur"})
      /\ accepted'[s] = accepted[s] + 1 /\ accepted[s] \in Nat
  BY WroteOwn
  DEF AcceptSolution, Goto, TypeOK, CopiesKept, StampsAlike, layers, Write
<1>2. CopiesAt(s) /\ Neighbours(s)' = Neighbours(s) /\ ghost' = ghost
  BY <1>1 DEF CopiesInv, CopiesKept, Neighbours
<1>3. /\ DOMAIN ghost[s] = Neighbours(s)
      /\ \A q \in Neighbours(s) : Lag(s, q, "velo") = 0 /\ Lag(s, q, "cur") = 0
  BY <1>1, <1>2 DEF CopiesAt, AgeingSite
<1>4. ASSUME NEW q \in Neighbours(s)
      PROVE  Lag(s, q, "velo")' = 0 /\ Lag(s, q, "cur")' = 1
  <2>1. {"velo", "cur"} \subseteq Group /\ Once("velo", {"cur"}) = 0 /\ Once("cur", {"cur"}) = 1
    BY DEF Group, Once
  <2>2. \A g \in {"velo", "cur"} : Lag(s, q, g)' = Lag(s, q, g) + Once(g, {"cur"})
    BY <1>1, <1>2, <1>3, <2>1, LagGrows DEF CopiesKept
  <2> QED
    BY <1>3, <2>1, <2>2
<1>5. /\ pc'[s] = "loop" /\ accepted'[s] # 0
      /\ "loop" \in AgeingSite /\ "loop" \notin ReadSite
  BY <1>1 DEF CopiesKept, AgeingSite, ReadSite
<1>6. CopiesAt(s)'
  BY <1>2, <1>3, <1>4, <1>5 DEF CopiesAt
<1> QED
  BY <1>1, <1>6, OneGoesOn

LEMMA LoopCopies ==
  ASSUME TypeOK, CopiesInv, NEW s \in Rank, Loop(s)
  PROVE  CopiesInv'
<1>1. CASE BeginStep(s) \/ LeaveLoop(s) \/ Finish(s)
  <2>1. /\ \E there \in {"preprocess", "finish", "done"} : pc'[s] = there
        /\ pc'[s] = "preprocess" => pc[s] = "loop" /\ ghost' = ghost
        /\ UNCHANGED <<forest, own, accepted>>
        /\ \A r \in Rank \ {s} : pc'[r] = pc[r] /\ ghost'[r] = ghost[r]
    <3>1. CASE Finish(s)
      BY <3>1 DEF Finish, Goto, TypeOK, cells, schedule
    <3>2. CASE BeginStep(s) \/ LeaveLoop(s)
      <4>1. pc[s] = "loop" /\ pc'[s] \in {"preprocess", "finish"}
        BY <3>2 DEF BeginStep, LeaveLoop, Goto, TypeOK
      <4> QED
        BY <3>2, <4>1 DEF BeginStep, LeaveLoop, Goto, TypeOK, layers, cells, schedule
    <3> QED
      BY <1>1, <3>1, <3>2
  <2>2. \A r \in Rank : StampsAlike(r)
    <3>1. CASE Finish(s)
      BY <3>1, FinishStamps
    <3>2. CASE BeginStep(s) \/ LeaveLoop(s)
      BY <3>2 DEF BeginStep, LeaveLoop, StampsAlike, layers
    <3> QED
      BY <1>1, <3>1, <3>2
  <2>3. ASSUME NEW r \in Rank \ {s}
        PROVE  CopiesAt(r)'
    <3>1. CopiesAt(r) /\ StampsAlike(r)
      BY <2>2 DEF CopiesInv
    <3> QED
      BY <2>1, <3>1, CopiesStay
  <2>4. CASE pc'[s] = "preprocess"
    <3>1. /\ CopiesAt(s) /\ pc[s] = "loop" /\ ghost' = ghost
          /\ Neighbours(s)' = Neighbours(s)
      BY <2>1, <2>4 DEF CopiesInv, Neighbours
    <3>2. \A q \in Neighbours(s), g \in {"velo", "cur"} : Lag(s, q, g)' = Lag(s, q, g)
      BY <2>1, <3>1 DEF Lag
    <3>3. CopiesAt(s)'
      BY <2>1, <2>4, <3>1, <3>2 DEF CopiesAt, ReadSite, AgeingSite
    <3> QED
      BY <2>3, <3>3 DEF CopiesInv
  <2>5. CASE pc'[s] # "preprocess"
    <3>1. pc'[s] \notin CopySite
      BY <2>1, <2>5, CopySites DEF Stopped
    <3> QED
      BY <2>3, <3>1, NothingCopied DEF CopiesInv
  <2> QED
    BY <2>4, <2>5
<1>2. CASE PreProcess(s)
  <2> DEFINE there == AfterPreProcess(s)
  <2>1. Pass(s, "preprocess", {}, there)
    BY <1>2 DEF PreProcess
  <2>2. there \in {"refine", "partition", "layer", "refresh"}
    BY DEF AfterPreProcess, AfterAmr, AfterPartition
  <2> HIDE DEF there
  <2>3. CASE there = "refresh"
    <3>1. /\ CopiesKept(s, "refresh") /\ pc[s] = "preprocess" /\ Write(s, {})
      BY <2>1, <2>3, PassKeepsCopies
    <3>2. CopiesAt(s) /\ Neighbours(s)' = Neighbours(s) /\ ghost' = ghost
      BY <3>1 DEF CopiesInv, CopiesKept, Neighbours
    <3>3. DOMAIN ghost[s] = Neighbours(s)
      BY <3>1, <3>2 DEF CopiesAt, AgeingSite
    <3>4. ASSUME NEW q \in Neighbours(s), NEW g \in {"velo", "cur"}
          PROVE  Lag(s, q, g)' = Lag(s, q, g)
      <4>1. g \in Group /\ Once(g, {}) = 0
        BY DEF Group, Once
      <4> QED
        BY <3>1, <3>2, <3>3, <4>1, LagGrows DEF CopiesKept
    <3>5. CopiesAt(s)'
      BY <3>1, <3>2, <3>3, <3>4 DEF CopiesAt, CopiesKept, ReadSite, AgeingSite
    <3> QED
      BY <3>1, <3>5, OneGoesOn
  <2>4. CASE there # "refresh"
    <3>1. there \notin CopySite
      BY <2>2, <2>4, CopySites DEF CollectiveSite
    <3> QED
      BY <2>1, <3>1, PassAway
  <2> QED
    BY <2>3, <2>4
<1> QED
  BY <1>1, <1>2 DEF Loop

LEMMA StepAway ==
  ASSUME CopiesInv, NEW s \in Rank, NEW there, there \notin CopySite,
         CopiesKept(s, there)
  PROVE  CopiesInv'
BY NothingCopied, OneGoesOn DEF CopiesKept

LEMMA StageCopies ==
  ASSUME LayerInv, CopiesInv, NEW s \in Rank,
         Adapt(s) \/ Control(s) \/ Assemble(s) \/ Solve(s) \/ ConservativeUpdates(s)
  PROVE  CopiesInv'
<1>1. /\ TypeOK
      /\ \A site \in ExchangeSite \ {"init_exchange"} : site \notin CopySite
      /\ \A site \in {"coarsen", "recheck", "reduce_dt"} : site \notin CopySite
      /\ \A site \in {"boundary", "halftime", "geometry", "nodal_boundary", "matrix"} :
           site \notin CopySite
  BY CopySites DEF LayerInv, CollectiveSite
<1>2. /\ {"hanging_info", "matrix", "relaxed", "hanging_matrix"} \subseteq LayerSite
      /\ {"refresh_exchange", "boundary_exchange", "hanging_exchange", "stamp_exchange",
          "matrix_exchange", "point_exchange", "corner_exchange", "relaxed_exchange",
          "aggregate_exchange", "velocity_exchange"} \subseteq ExchangeSite
  BY PassSites, StopKinds
<1>3. CASE ValidateStamps(s)
  <2>1. CASE RunRiemann
    BY <1>1, <1>3, <2>1, PassAway DEF ValidateStamps
  <2>2. CASE ~RunRiemann
    BY <1>1, <1>3, <2>2, ToConservative DEF ValidateStamps
  <2> QED
    BY <2>1, <2>2
<1>4. CASE CornerForce(s) \/ ConservativeUpdates(s)
  BY <1>1, <1>4, ToConservative DEF CornerForce, ConservativeUpdates
<1>5. CASE HangingInfo(s) \/ CornerMatrix(s) \/ RelaxedInfo(s) \/ HangingMatrix(s)
  <2>1. pc[s] \in LayerSite
    BY <1>2, <1>5 DEF HangingInfo, CornerMatrix, RelaxedInfo, HangingMatrix, Pass, Goto
  <2>2. \A site \in ExchangeSite : IfLayer(s, site) = site
    BY <2>1, HasLayer
  <2>3. \E here, groups : \E there \in ExchangeSite \ {"init_exchange"} :
          Pass(s, here, groups, there)
    BY <1>2, <1>5, <2>2 DEF HangingInfo, CornerMatrix, RelaxedInfo, HangingMatrix
  <2> QED
    BY <1>1, <2>3, PassAway
<1>6. CASE TagCoarsening(s) \/ Boundary(s) \/ HalfTime(s) \/ CornerGeometry(s)
  BY <1>1, <1>6, PassAway DEF TagCoarsening, Boundary, HalfTime, CornerGeometry
<1>7. CASE PointMatrix(s) \/ CornerVelocity(s) \/ HangingSolve(s)
  BY <1>1, <1>2, <1>7, PassAway DEF PointMatrix, CornerVelocity, HangingSolve
<1>8. CASE Refresh(s) \/ NodalBoundary(s) \/ ParentEdge(s)
  <2>1. PICK there \in {"recheck", "refresh_exchange", "boundary_exchange",
                        "stamp_exchange"} : pc'[s] = there
    BY <1>1, <1>8 DEF Refresh, NodalBoundary, ParentEdge, Goto, TypeOK
  <2>2. CopiesKept(s, there)
    BY <1>1, <1>8, <2>1
    DEF Refresh, NodalBoundary, ParentEdge, Goto, Write, TypeOK, CopiesKept,
        StampsAlike, layers, schedule
  <2> QED
    BY <1>1, <1>2, <2>2, StepAway
<1>9. CASE PredictTimestep(s) \/ WriteSolution(s)
  <2>1. PICK there \in {"reduce_dt", "boundary"} : pc'[s] = there
    BY <1>1, <1>9 DEF PredictTimestep, WriteSolution, WriteFile, Goto, TypeOK
  <2>2. CopiesKept(s, there)
    BY <1>1, <1>9, <2>1
    DEF PredictTimestep, WriteSolution, WriteFile, Goto, TypeOK, CopiesKept,
        StampsAlike, layers, cells
  <2> QED
    BY <1>1, <2>2, StepAway
<1> QED
  BY <1>3, <1>4, <1>5, <1>6, <1>7, <1>8, <1>9 DEF Adapt, Control, Assemble, Solve

LEMMA BeginCopies ==
  ASSUME CopiesInv, NEW s \in Rank, BeginExchange(s)
  PROVE  CopiesInv'
<1>1. \A r \in Rank : StampsAlike(r)
  BY DEF BeginExchange, StampsAlike
<1> QED
  BY <1>1, CopiesStay DEF CopiesInv, BeginExchange, cells, schedule

\* The copies an exchange brings are those of the owner's leaves as they are.
LEMMA EndCopies ==
  ASSUME LayerInv, PathInv, CopiesInv, NEW s \in Rank, EndExchange(s)
  PROVE  CopiesInv'
<1>1. /\ TypeOK /\ pc[s] \in ExchangeSite /\ pc'[s] = ExchangeThen[pc[s]]
      /\ UNCHANGED <<forest, session, own, stamps, clock, accepted>>
      /\ \A r \in Rank \ {s} : pc'[r] = pc[r] /\ ghost'[r] = ghost[r]
      /\ ghost'[s] = [q \in Neighbours(s) |-> Head(channel[q][s])]
  BY DEF EndExchange, LayerInv, PostedInExchange, TypeOK, cells, schedule
<1>2. /\ Live(s) /\ NextStop(s) = pc[s]
      /\ StepOf(s)' = StepOf(s) /\ Neighbours(s)' = Neighbours(s)
  BY <1>1, AtExchange, SameWhileTaking
<1>3. ASSUME NEW r \in Rank \ {s}
      PROVE  CopiesAt(r)'
  BY <1>1, CopiesStay DEF CopiesInv, StampsAlike
<1>4. ASSUME NEW q \in Neighbours(s)
      PROVE  /\ \A g \in Group : Lag(s, q, g)' = 0
             /\ pc[s] = "stamp_exchange" =>
                  ghost'[s][q].stamps = {MakeStamp(session[s], StepOf(s))}
  <2> DEFINE m == channel[q][s][1]
  <2>1. q \in Rank /\ Len(channel[q][s]) > 0 /\ channel[q][s] \in Seq(Message)
    BY <1>1, Taking, Lengths DEF Neighbours
  <2>2. ghost'[s][q] = m /\ m \in Message
    BY <1>1, <2>1
  <2>3. m.site = pc[s] /\ Good(m, s)
    BY <1>2, <2>1 DEF PathInv, Between, Inbox
  <2> HIDE DEF m
  <2>4. ASSUME NEW g \in Group
        PROVE  Lag(s, q, g)' = 0
    <3>1. /\ m.versions[g] \in Nat /\ own[s][g] \in Nat
          /\ Left(pc[s], g, StepOf(s), TimeOf(s)) \in Nat
      <4>1. m.versions \in Version
        BY <2>2 DEF Message
      <4>2. own[s] \in Version
        BY <1>1 DEF TypeOK, LayerInv
      <4> QED
        BY <4>1, <4>2, LeftNumbers DEF Version
    <3>2. m.versions[g] + Left(pc[s], g, StepOf(s), TimeOf(s))
            = own[s][g] + Left(pc[s], g, StepOf(s), TimeOf(s))
      BY <2>3 DEF Good, Total
    <3>3. m.versions[g] = own[s][g]
      BY <3>1, <3>2
    <3> QED
      BY <1>1, <2>2, <3>1, <3>3 DEF Lag
  <2> QED
    BY <2>2, <2>3, <2>4 DEF Good
<1>5. CopiesAt(s)'
  <2>1. /\ pc'[s] \notin {"conservative", "energy", "accept", "preprocess",
                          "init_layer", "init_exchange"}
        /\ pc'[s] = "validate" <=> pc[s] = "stamp_exchange"
        /\ pc'[s] = "loop" <=> pc[s] = "init_exchange"
    BY <1>1 DEF ExchangeSite, ExchangeThen
  <2>2. pc'[s] = "loop" => accepted'[s] = 0
    BY <1>1, <2>1 DEF CopiesInv, CopiesAt
  <2>3. {"velo", "cur"} \subseteq Group
    BY DEF Group
  <2>4. DOMAIN ghost'[s] = Neighbours(s)'
    BY <1>1, <1>2
  <2> QED
    BY <1>1, <1>2, <1>4, <2>1, <2>2, <2>3, <2>4 DEF CopiesAt
<1> QED
  BY <1>3, <1>5 DEF CopiesInv

LEMMA CollectiveCopies ==
  ASSUME TypeOK, CopiesInv, Collective
  PROVE  CopiesInv'
<1>1. CASE CheckEnergy
  <2>1. /\ UNCHANGED <<forest, session, ghost, own, accepted>>
        /\ \A r \in Rank : pc[r] = "energy" /\ pc'[r] = "accept"
    BY <1>1 DEF CheckEnergy, EveryoneGoto, Everyone, layers, cells, schedule
  <2>2. ASSUME NEW r \in Rank
        PROVE  CopiesAt(r)'
    <3>1. CopiesAt(r) /\ Neighbours(r)' = Neighbours(r)
      BY <2>1 DEF CopiesInv, Neighbours
    <3>2. \A q \in Neighbours(r), g \in Group : Lag(r, q, g)' = Lag(r, q, g)
      BY <2>1 DEF Lag
    <3>3. {"velo", "cur"} \subseteq Group
      BY DEF Group
    <3> QED
      BY <2>1, <3>1, <3>2, <3>3 DEF CopiesAt, ReadSite, AgeingSite
  <2> QED
    BY <2>2 DEF CopiesInv
<1>2. CASE FirstLayer
  <2>1. \A r \in Rank : /\ pc[r] = "init_layer" /\ pc'[r] = "init_exchange"
                        /\ accepted'[r] = accepted[r]
    BY <1>2 DEF FirstLayer, BuildLayer, EveryoneGoto, Everyone, schedule
  <2>2. \A r \in Rank : accepted'[r] = 0
    BY <2>1 DEF CopiesInv, CopiesAt
  <2> QED
    BY <2>1, <2>2 DEF CopiesInv, CopiesAt, ReadSite, AgeingSite
<1>3. CASE ~CheckEnergy /\ ~FirstLayer
  <2>1. \A r \in Rank :
          pc'[r] \in {"amr_layer", "amr_exchange", "amr_energy", "balance", "partition",
                      "layer", "layer_exchange", "refresh_exchange", "output"}
    <3>1. CASE Balance \/ Partition
      <4>1. \A r \in Rank : IsEmpty(session'[r])
        BY <3>1, SessionType DEF Balance, Partition, TypeOK
      <4> QED
        BY <3>1, <4>1 DEF Balance, Partition, AfterAmr, AfterPartition
    <3>2. CASE ~Balance /\ ~Partition
      BY <1>3, <3>2
      DEF Collective, Refine, RebuildLayer, Coarsen, CheckAmrEnergy, NewLayer,
          RecheckRefresh, ReduceTimestep, BuildLayer, EveryoneGoto
    <3> QED
      BY <3>1, <3>2
  <2>2. \A r \in Rank : pc'[r] \notin CopySite
    BY <2>1, CopySites, StopKinds DEF CollectiveSite
  <2> QED
    BY <2>2, NothingCopied DEF CopiesInv
<1> QED
  BY <1>1, <1>2, <1>3

LEMMA FailureCopies ==
  ASSUME TypeOK, CopiesInv,
         \/ \E r \in Rank : AbortInPass(r) \/ Kill(r)
         \/ AbortTogether
         \/ UNCHANGED vars
  PROVE  CopiesInv'
<1>1. /\ UNCHANGED <<forest, session, ghost, own, accepted>>
      /\ \A r \in Rank : pc'[r] \in Failed \/ pc'[r] = pc[r]
  BY DEF AbortInPass, Kill, AbortTogether, vars, layers, cells, schedule,
         Goto, EveryoneGoto, TypeOK, Failed
<1>2. ASSUME NEW r \in Rank
      PROVE  CopiesAt(r)'
  <2>1. CASE pc'[r] \in Failed
    BY <2>1, CopySites, NothingCopied
  <2>2. CASE pc'[r] = pc[r]
    <3>1. CopiesAt(r) /\ StampsAlike(r)
      BY <1>1 DEF CopiesInv, StampsAlike
    <3> QED
      BY <1>1, <2>2, <3>1, CopiesStay
  <2> QED
    BY <1>1, <2>1, <2>2
<1> QED
  BY <1>2 DEF CopiesInv

LEMMA InitCopies == Init => CopiesInv
<1> SUFFICES ASSUME Init PROVE CopiesInv
  OBVIOUS
<1>1. \A r \in Rank : pc[r] = "init_layer" /\ accepted[r] = 0
  BY DEF Init
<1> QED
  BY <1>1 DEF CopiesInv, CopiesAt, ReadSite, AgeingSite

LEMMA NextCopies == LayerInv /\ PathInv /\ CopiesInv /\ [Next]_vars => CopiesInv'
<1> SUFFICES ASSUME LayerInv, PathInv, CopiesInv, [Next]_vars
             PROVE  CopiesInv'
  OBVIOUS
<1>1. TypeOK
  BY DEF LayerInv
<1>2. ASSUME NEW r \in Rank, RankStep(r)
      PROVE  CopiesInv'
  BY <1>1, <1>2, LoopCopies, StageCopies, UpdateCopies, BeginCopies, EndCopies
  DEF RankStep, Update, Exchange
<1>3. CASE Collective
  BY <1>1, <1>3, CollectiveCopies
<1> QED
  BY <1>1, <1>2, <1>3, FailureCopies DEF Next, Terminated

\* In every reachable state the copies are as old as CopiesInv says.
THEOREM CopiesInvariant == Spec => []CopiesInv
<1> QED
  BY InitCopies, NextCopies, LayerInvariant, PathInvariant, PTL DEF Spec

-----------------------------------------------------------------------------
(* Theorems. *)

\* The stamps a rank reads when it validates, its own and its neighbours',
\* are those of this stage: none of the warnings of read_guard is printed.
THEOREM PublishedStampsAccepted == Spec => []PublishedStampsAgree
<1>1. LayerInv /\ ClockInv /\ PathInv /\ CopiesInv => PublishedStampsAgree
  <2> SUFFICES ASSUME LayerInv, ClockInv, PathInv, CopiesInv, NEW r \in Rank,
                      pc[r] = "validate",
                      NEW stamp \in stamps[r]
                        \cup UNION {ghost[r][q].stamps : q \in Neighbours(r)}
               PROVE  StampAccepted(stamp, session[r], clock[r].step)
    BY DEF PublishedStampsAgree
  <2>1. clock[r].step = StepOf(r)
    <3>1. "validate" \in Written
      BY DEF Written, Late
    <3> QED
      BY <3>1 DEF ClockInv, OwnClock, StepOf
  <2>2. stamps[r] = {MakeStamp(session[r], StepOf(r))}
    BY DEF PathInv, Stamped
  <2>3. \A q \in Neighbours(r) :
          ghost[r][q].stamps = {MakeStamp(session[r], StepOf(r))}
    BY DEF CopiesInv, CopiesAt
  <2>4. stamp = MakeStamp(session[r], StepOf(r))
    BY <2>2, <2>3
  <2> QED
    BY <2>1, <2>4 DEF StampAccepted, MakeStamp
<1> QED
  BY <1>1, LayerInvariant, ClockInvariant, PathInvariant, CopiesInvariant, PTL

LEMMA NoLag ==
  ASSUME TypeOK, NEW r \in Rank, DOMAIN ghost[r] = Neighbours(r), NEW groups \in SUBSET Group,
         \A q \in Neighbours(r), g \in groups : Lag(r, q, g) = 0
  PROVE  Fresh(r, groups)
<1> SUFFICES ASSUME NEW q \in DOMAIN ghost[r], NEW g \in groups
             PROVE  ghost[r][q].versions[g] = own[r][g]
  BY DEF Fresh
<1>1. own[r][g] \in Nat /\ ghost[r][q].versions[g] \in Nat
  BY CopyNumbers
<1>2. own[r][g] - ghost[r][q].versions[g] = 0
  BY DEF Lag
<1> QED
  BY <1>1, <1>2

\* Every pass of the stage that reads ghost copies reads what a serial run
\* would: the copies of each group carry every write made so far.
THEOREM StageAlwaysReadsFresh == Spec => []StageReadsFresh
<1>1. LayerInv /\ CopiesInv => StageReadsFresh
  <2> SUFFICES ASSUME LayerInv, CopiesInv, NEW r \in Rank,
                      pc[r] \in DOMAIN GhostReads \ EarlySite
               PROVE  DOMAIN ghost[r] = Neighbours(r) /\ Fresh(r, GhostReads[pc[r]])
    BY DEF StageReadsFresh
  <2>1. pc[r] \in ReadSite
    BY DEF GhostReads, EarlySite, ReadSite
  <2>2. GhostReads[pc[r]] \in SUBSET Group
    BY DEF GhostReads, Group
  <2>3. CopiesAt(r)
    BY DEF CopiesInv
  <2> QED
    BY <2>1, <2>2, <2>3, NoLag DEF LayerInv, CopiesAt
<1> QED
  BY <1>1, LayerInvariant, CopiesInvariant, PTL

\* The gradients read cell data older by the last accepted solution, and the
\* refresh by that or by nothing; neither reads anything older.
THEOREM StaleByOneAcceptOnly == Spec => []StaleByOneAccept
<1>1. LayerInv /\ CopiesInv => StaleByOneAccept
  <2> SUFFICES ASSUME LayerInv, CopiesInv, NEW r \in Rank
               PROVE  /\ pc[r] = "preprocess" =>
                           \A q \in Neighbours(r) :
                             Lag(r, q, "cur") = IF accepted[r] = 0 THEN 0 ELSE 1
                      /\ pc[r] = "refresh" =>
                           /\ Fresh(r, {"velo"})
                           /\ \A q \in Neighbours(r) : Lag(r, q, "cur") \in {0, 1}
    BY DEF StaleByOneAccept, Lag
  <2>1. CopiesAt(r)
    BY DEF CopiesInv
  <2>2. pc[r] = "refresh" => Fresh(r, {"velo"})
    BY <2>1, NoLag DEF LayerInv, CopiesAt, AgeingSite, Group
  <2> QED
    BY <2>1, <2>2 DEF CopiesAt
<1> QED
  BY <1>1, LayerInvariant, CopiesInvariant, PTL
=============================================================================
