---------------------------- MODULE GhostSession ----------------------------
(***************************************************************************)
(* One rank's GhostSession (src/mesh/ghost_session.h): the wrapper around  *)
(* the p4est ghost layer that counts generations and topology versions and *)
(* asserts, in get(), data(), remote() and exchange(), that the layer it   *)
(* hands out belongs to the current forest.                                *)
(*                                                                         *)
(* The layer is represented by the version of the forest it was built for; *)
(* that version is not a field of the class, it is what the class promises *)
(* about ghost_.                                                           *)
(***************************************************************************)
EXTENDS Naturals

Session ==
  [present : BOOLEAN,           \* ghost_ and data_ are not NULL
   valid : BOOLEAN,             \* valid_
   generation : Nat,            \* generation_
   topologyVersion : Nat,       \* topology_version_
   layer : Nat]                 \* the forest version ghost_ was built for

\* The default constructor.
Unbuilt ==
  [present |-> FALSE, valid |-> FALSE,
   generation |-> 0, topologyVersion |-> 0, layer |-> 0]

\* destroy(): free the layer and the copies; safe on an empty session.
Destroyed(s) == [s EXCEPT !.present = FALSE, !.valid = FALSE]

\* invalidate_after_topology_change(): the layer is kept until destroy().
Invalidated(s) ==
  [s EXCEPT !.valid = FALSE, !.topologyVersion = @ + 1]

\* initialize() and rebuild(), up to their closing exchange(): destroy(), then
\* build the layer of the forest as it is now.
Built(s, version) ==
  [Destroyed(s) EXCEPT !.present = TRUE, !.valid = TRUE,
                       !.generation = @ + 1, !.layer = version]

\* empty()
IsEmpty(s) == ~s.present

\* What the assertions of exchange(), get(), data() and remote() demand, and
\* what they cannot see: that the layer is that of the current forest.
Usable(s, version) == s.present /\ s.valid /\ s.layer = version
=============================================================================
