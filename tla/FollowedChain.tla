---------------------------- MODULE FollowedChain ----------------------------
(***************************************************************************)
(* What a read-only follower promises: the chain of finalized DIRs grows   *)
(* one height at a time, and the follower's durable trusted head only ever *)
(* moves forward along it, never past what has been finalized, and only    *)
(* while the follower is busy with proofs.  One that may forget can lose   *)
(* the head while it is busy, and begins again from genesis.               *)
(***************************************************************************)
EXTENDS Naturals

CONSTANT Forgets

VARIABLES final, busy, trusted

TypeOK == final \in Nat /\ busy \in BOOLEAN /\ trusted \in 0..final

Init == final \in Nat /\ busy = FALSE /\ trusted = 0

\* The validators finalize the DIR of the next height.
Finalize == final' = final + 1 /\ UNCHANGED <<busy, trusted>>

\* The follower takes up proofs, or leaves them.
Turn == busy' \in BOOLEAN /\ UNCHANGED <<final, trusted>>

\* It verifies a run of proofs.
Follow == busy /\ trusted' \in (trusted + 1)..final /\ UNCHANGED <<final, busy>>

\* It loses its head, and has to begin again.
Lose == Forgets /\ busy /\ ~busy' /\ trusted' = 0 /\ UNCHANGED final

Next == Finalize \/ Turn \/ Follow \/ Lose

Spec == Init /\ [][Next]_<<final, busy, trusted>>

=============================================================================
