-------------------------- MODULE MCPoVIConsensus --------------------------
(***************************************************************************)
(* PoVIConsensus for TLC: four validators, one of them Byzantine, or the   *)
(* three of the pilot network, and two candidates of round 0.              *)
(***************************************************************************)
EXTENDS PoVIConsensus, TLC

CONSTANTS A, B, v1, v2, v3, v4

TwoDIRs     == {A, B}
Four        == {v1, v2, v3, v4}
Three       == {v1, v2, v3}
OneFaulty   == {v4}
BothThenB   == (0 :> {A, B}) @@ (1 :> {B})
AThenB      == (0 :> {A}) @@ (1 :> {B})
ThenOther   == (0 :> {A}) @@ (1 :> {B}) @@ (2 :> {B})
SameAgain   == (0 :> {A}) @@ (1 :> {A})
HeaderZero  == [D \in TwoDIRs |-> 0]

Symmetry == Permutations({v1, v2, v3})

\* A state PoVI can be in after round 0: v1 and v2 voted for A, v1 saw the
\* quorum, locked A and sent its COMMIT, the others did not, and everyone
\* changed to round 1.
AfterRoundZero ==
    LET decide(record, step, D, new) ==
            NextRecord(record, [height |-> 1, round |-> 0, newRound |-> new, step |-> step,
                                proposal |-> D, msg |-> NONE, unlockRound |-> NoRound,
                                finalized |-> NONE])
        forA     == decide(Bootstrap, "VERIFY", A, NoRound)
        atCommit == decide(decide(forA, "LOCK", A, NoRound), "COMMIT", A, NoRound)
        change(record) == decide(record, "ROUND_CHANGE", NONE, 1)
        round1   == [FreshState EXCEPT !.round = 1]
    IN  /\ verified = {<<v1, 0, A>>, <<v2, 0, A>>}
        /\ committed = {<<v1, 0, A>>}
        /\ changed = Correct \X {1}
        /\ last = [v \in Correct |->
              CASE v = v1 -> change(atCommit)
                [] v = v2 -> change(forA)
                [] v = v3 -> change(Bootstrap)]
        /\ state = [v \in Correct |->
              IF v = v1 THEN [round1 EXCEPT !.lockedDIR = A, !.lockedRound = 0,
                                            !.validDIR = A, !.validRound = 0]
                        ELSE round1]

SpecAfterRoundZero == AfterRoundZero /\ [][Next]_vars
=============================================================================
