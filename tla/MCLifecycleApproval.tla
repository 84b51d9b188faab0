------------------------- MODULE MCLifecycleApproval -------------------------
(***************************************************************************)
(* LifecycleApproval for TLC: four users that may all submit and approve   *)
(* (enough for a rejection beside a quorum of two), and event types that   *)
(* depend on each other, two of which can come first only as a migration   *)
(* bootstrap.  Ids are handed out in any order, so two events of the same  *)
(* occurred_at are already in every order.                                 *)
(***************************************************************************)
EXTENDS LifecycleApproval

CONSTANTS ann, ben, cleo, dan

Staff      == {ann, ben, cleo, dan}
Symmetry   == Permutations(Staff)
FewTypes   == {"ASSET_REGISTERED", "ASSET_PROCURED", "ASSET_SHIPPED"}
==============================================================================
