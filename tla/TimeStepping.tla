---------------------------- MODULE TimeStepping ----------------------------
(***************************************************************************)
(* What Simulation::advance_time_step promises as a whole, with every      *)
(* message, ghost copy and phase left out: all ranks advance one common    *)
(* clock.  A rank accepts a step only when no rank is a step behind it,    *)
(* every rank gives the same step the same end time, nobody starts a step  *)
(* at or beyond the end time or the step limit, and the run stops.         *)
(***************************************************************************)
EXTENDS Naturals

CONSTANTS Rank, EndTime, MaxTimeStep, LargestDt

VARIABLES
  accepted,    \* per rank: the number of steps it has accepted
  time,        \* per rank: its physical time
  status       \* per rank: "running", "done" or "failed"

vars == <<accepted, time, status>>

TypeOK ==
  /\ accepted \in [Rank -> 0..MaxTimeStep]
  /\ time \in [Rank -> Nat]
  /\ status \in [Rank -> {"running", "done", "failed"}]

Init ==
  /\ accepted = [r \in Rank |-> 0]
  /\ time = [r \in Rank |-> 0]
  /\ status = [r \in Rank |-> "running"]

\* The run is over for a rank that reached the end time or the step limit.
AtEnd(r) == time[r] >= EndTime \/ accepted[r] = MaxTimeStep

Ahead(r) == {q \in Rank : accepted[q] > accepted[r]}

\* The first rank to accept a step decides how long it is, the others follow;
\* nobody accepts a step while a rank is still in an earlier one.
Accept(r) ==
  /\ status[r] = "running"
  /\ ~AtEnd(r)
  /\ \A q \in Rank : accepted[q] >= accepted[r]
  /\ accepted' = [accepted EXCEPT ![r] = @ + 1]
  /\ \E dt \in 1..LargestDt :
       /\ \A q \in Ahead(r) : time[q] = time[r] + dt
       /\ time' = [time EXCEPT ![r] = @ + dt]
  /\ UNCHANGED status

Finish(r) ==
  /\ status[r] = "running"
  /\ AtEnd(r)
  /\ status' = [status EXCEPT ![r] = "done"]
  /\ UNCHANGED <<accepted, time>>

\* abort(), of this rank or of another one: always possible while running.
Fail(r) ==
  /\ status[r] = "running"
  /\ status' = [status EXCEPT ![r] = "failed"]
  /\ UNCHANGED <<accepted, time>>

\* A reduction in which every rank learns of the failure at once.
FailTogether ==
  /\ \A r \in Rank : status[r] = "running"
  /\ status' = [r \in Rank |-> "failed"]
  /\ UNCHANGED <<accepted, time>>

Next == FailTogether \/ \E r \in Rank : Accept(r) \/ Finish(r) \/ Fail(r)

Spec == Init /\ [][Next]_vars /\ \A r \in Rank : WF_vars(Accept(r) \/ Finish(r))
=============================================================================
