----------------------------- MODULE DIRFinality -----------------------------
(***************************************************************************)
(* What Proof of Verified Infrastructure promises for one height: at most  *)
(* one candidate DIR is ever certified, and it stays certified.            *)
(***************************************************************************)
CONSTANT DIRs

VARIABLE certified      \* the candidates that a COMMIT quorum certifies

Init == certified = {}
Certify == certified = {} /\ \E D \in DIRs : certified' = {D}
Spec == Init /\ [][Certify]_certified
==============================================================================
