----------------------------- MODULE NodalEpoch -----------------------------
(***************************************************************************)
(* The epoch stamps of the nodal records (src/nodal/epoch_lifecycle.h and  *)
(* epoch_runtime.h): each leaf carries a stamp naming the stage that wrote *)
(* its nodal record, and a reader's context must agree with it.  Sub-stage *)
(* and phase are the constants 0 and Assemble at the only place that       *)
(* stamps, so a stamp is told apart by the other three numbers.            *)
(***************************************************************************)
EXTENDS Naturals

StageStamp ==
  [generation : Nat, topologyVersion : Nat, step : Nat, valid : BOOLEAN]

\* reset_storage: the record of a new leaf is all zero bytes.
ZeroStamp ==
  [generation |-> 0, topologyVersion |-> 0, step |-> 0, valid |-> FALSE]

\* make_stage_context + make_stamp for a session s in the given step.
MakeStamp(s, step) ==
  [generation |-> s.generation, topologyVersion |-> s.topologyVersion,
   step |-> step, valid |-> TRUE]

\* invalidate_stamp: only the validity byte changes.
InvalidateStamp(stamp) == [stamp EXCEPT !.valid = FALSE]

\* A faulty variant that would accept the record of an earlier step.
StampAccepted_AnyStep(stamp, s, step) ==
  /\ stamp.valid
  /\ stamp.generation = s.generation
  /\ stamp.topologyVersion = s.topologyVersion

\* validate_stamp accepts: every field of the stamp matches the context.
StampAccepted(stamp, s, step) ==
  /\ stamp.valid
  /\ stamp.generation = s.generation
  /\ stamp.topologyVersion = s.topologyVersion
  /\ stamp.step = step
=============================================================================
