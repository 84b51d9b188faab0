-------------------------- MODULE SafetyRulesProofs --------------------------
(***************************************************************************)
(* What validateSafetyTransition guarantees of a record appended to the    *)
(* consensus-safety journal, for any previous record and any decision.     *)
(***************************************************************************)
EXTENDS SafetyRules, TLAPS

\* A decision that names a DIR where the record needs one (validateDecisionShape).
Shaped(d) ==
    /\ d \in DecisionType
    /\ d.step = "LOCK" => d.proposal \in DIRs
    /\ d.step = "VERIFY" => d.proposal # NONE

\* safetyStepRank of every step.
LEMMA StepRanks ==
    /\ StepRank("BOOTSTRAP") = 0 /\ StepRank("VERIFY") = 10 /\ StepRank("LOCK") = 20
    /\ StepRank("COMMIT") = 30 /\ StepRank("ROUND_CHANGE") = 40 /\ StepRank("FINALIZE") = 50
BY DEF StepRank

\* Every step of a record has a rank.
LEMMA RankIsNat ==
    ASSUME NEW step \in Steps \cup {"BOOTSTRAP"}
    PROVE  StepRank(step) \in Nat
BY StepRanks DEF Steps, VoteSteps

\* The record written for a decision is a record of that decision.
LEMMA NextRecordType ==
    ASSUME NEW prev \in RecordType, NEW d, Shaped(d)
    PROVE  /\ NextRecord(prev, d) \in RecordType
           /\ NextRecord(prev, d).height = d.height
           /\ NextRecord(prev, d).round = d.round
           /\ NextRecord(prev, d).newRound = d.newRound
           /\ NextRecord(prev, d).step = d.step
           /\ NextRecord(prev, d).proposal = d.proposal
           /\ NextRecord(prev, d).msg = d.msg
           /\ NextRecord(prev, d).unlockRound = d.unlockRound
<1>1. Conflicts(prev, d) => d.proposal \in DIRs
      BY DEF Conflicts, Shaped, DecisionType
<1>2. d.step = "LOCK" => d.proposal \in DIRs
      BY DEF Shaped
<1> QED BY <1>1, <1>2 DEF NextRecord, Shaped, DecisionType, RecordType, OptDIR, OptRound, OptDigest

\* The lock and the valid value of the record at the same height.
LEMMA NextRecordLock ==
    ASSUME NEW prev \in RecordType, NEW d, Shaped(d), d.height = prev.height,
           NEW r, r = NextRecord(prev, d)
    PROVE  /\ d.step = "LOCK" =>
                /\ r.lockedDIR = d.proposal /\ r.lockedRound = d.round
                /\ r.validDIR = d.proposal /\ r.validRound = d.round
           /\ d.step # "LOCK" =>
                /\ r.lockedDIR = prev.lockedDIR /\ r.lockedRound = prev.lockedRound
                /\ \/ r.validDIR = prev.validDIR /\ r.validRound = prev.validRound
                   \/ /\ Conflicts(prev, d)
                      /\ r.validDIR = d.proposal /\ r.validRound = d.unlockRound
           /\ d.step # "FINALIZE" => r.finalized = prev.finalized
<1>1. d.height <= prev.height
      BY DEF RecordType
<1> QED BY <1>1 DEF NextRecord

\* A record of a new height starts without a lock.
LEMMA NextRecordNewHeight ==
    ASSUME NEW prev \in RecordType, NEW d, Shaped(d), d.height > prev.height,
           Accepts(prev, d), NEW r, r = NextRecord(prev, d)
    PROVE  /\ d.step \in {"VERIFY", "ROUND_CHANGE"}
           /\ prev.height = 0 \/ prev.finalized # NONE
           /\ r.lockedDIR = NONE /\ r.lockedRound = NoRound
           /\ r.validDIR = NONE /\ r.validRound = NoRound /\ r.finalized = NONE
<1>1. r.height = d.height /\ r.step = d.step
      BY NextRecordType
<1> QED BY <1>1 DEF Accepts, ValidTransition, AdvanceOK, Shaped, DecisionType, RecordType

\* An accepted decision of the same height is later than the previous record:
\* a higher round, or a higher step of the round that did not end in a round
\* change.
LEMMA AcceptedOrder ==
    ASSUME NEW prev \in RecordType, NEW d, Shaped(d), Accepts(prev, d)
    PROVE  /\ d.height >= prev.height
           /\ d.height = prev.height =>
                /\ d.round >= MinimumRoundAfter(prev)
                /\ d.round = prev.round => StepRank(d.step) > StepRank(prev.step)
<1> DEFINE r == NextRecord(prev, d)
<1>1. r.height = d.height /\ r.round = d.round /\ r.step = d.step
      BY NextRecordType
<1>2. OrderOK(prev, r)
      BY DEF Accepts, ValidTransition
<1> HIDE DEF r
<1> QED BY <1>1, <1>2 DEF OrderOK

\* What the lock of the height lets a decision be: a conflicting VERIFY cites a
\* round between the lock and its own, a COMMIT is for the lock of its round, a
\* FINALIZE for the lock.
LEMMA AcceptedByLock ==
    ASSUME NEW prev \in RecordType, NEW d, Shaped(d), Accepts(prev, d)
    PROVE  /\ d.height = prev.height /\ Conflicts(prev, d) =>
                prev.lockedRound < d.unlockRound /\ d.unlockRound < d.round
           /\ d.step = "LOCK" => d.height = prev.height
           /\ d.step = "COMMIT" =>
                /\ d.height = prev.height /\ prev.lockedDIR # NONE
                /\ d.proposal = prev.lockedDIR /\ d.round = prev.lockedRound
           /\ d.step = "FINALIZE" =>
                /\ d.height = prev.height /\ prev.lockedDIR # NONE
                /\ d.proposal = prev.lockedDIR
<1> DEFINE r == NextRecord(prev, d)
<1>1. /\ r.height = d.height /\ r.round = d.round /\ r.step = d.step
      /\ r.proposal = d.proposal /\ r.unlockRound = d.unlockRound
      BY NextRecordType
<1>2. UnlockOK(prev, r) /\ LockOK(prev, r) /\ CommitOK(prev, r) /\ FinalizeOK(prev, r)
      BY DEF Accepts, ValidTransition
<1>3. Conflicts(prev, d) = Conflicts(prev, r)
      BY <1>1 DEF Conflicts
<1> HIDE DEF r
<1> QED BY <1>1, <1>2, <1>3 DEF UnlockOK, LockOK, CommitOK, FinalizeOK, MatchesLock
=============================================================================
