----------------------------- MODULE SafetyRules -----------------------------
(***************************************************************************)
(* What one safety record may follow another: the decision and record      *)
(* types of src/tools/portable-validator/consensus_safety.go, the shape of *)
(* a decision, the record built for it and the transition rules that both  *)
(* the writer and every reader of the journal apply.  A digest             *)
(* (messageHash, stateRoot, finalizedDIRHash) is a member of Digests, a    *)
(* proposal hash a member of DIRs.  An unlock proof is its round: hash and *)
(* round are always supplied together.                                     *)
(***************************************************************************)
EXTENDS Integers

CONSTANTS
    DIRs,           \* proposal hashes
    Digests,        \* message hashes and finalized DIR hashes
    NONE,           \* an absent string
    NIL             \* the "NIL" proposal of a VERIFY vote

ASSUME NamesAssumption == NONE \notin DIRs \cup Digests /\ NIL \notin DIRs /\ NIL # NONE
------------------------------------------------------------------------------
NoRound  == -1                          \* a nil *uint64
OptRound == Nat \cup {NoRound}
VoteSteps == {"VERIFY", "COMMIT", "ROUND_CHANGE"}
Steps     == VoteSteps \cup {"LOCK", "FINALIZE"}
OptDIR    == DIRs \cup {NONE}
OptDigest == Digests \cup {NONE}

DecisionType ==
    [height : Nat, round : Nat, newRound : OptRound, step : Steps,
     proposal : DIRs \cup {NIL, NONE}, msg : OptDigest,
     unlockRound : OptRound, finalized : OptDigest]

RecordType ==
    [height : Nat, round : Nat, newRound : OptRound,
     step : Steps \cup {"BOOTSTRAP"},
     proposal : DIRs \cup {NIL, NONE}, msg : OptDigest, unlockRound : OptRound,
     lockedDIR : OptDIR, lockedRound : OptRound,
     validDIR : OptDIR, validRound : OptRound, finalized : OptDigest]

------------------------------------------------------------------------------
StepRank(step) ==
    CASE step = "BOOTSTRAP"    -> 0
      [] step = "VERIFY"       -> 10
      [] step = "LOCK"         -> 20
      [] step = "COMMIT"       -> 30
      [] step = "ROUND_CHANGE" -> 40
      [] step = "FINALIZE"     -> 50

Bootstrap ==
    [height |-> 0, round |-> 0, newRound |-> NoRound, step |-> "BOOTSTRAP",
     proposal |-> NONE, msg |-> NONE, unlockRound |-> NoRound,
     lockedDIR |-> NONE, lockedRound |-> NoRound,
     validDIR |-> NONE, validRound |-> NoRound, finalized |-> NONE]

WellShaped(d) ==
    /\ d.height > 0
    /\ IF d.step = "ROUND_CHANGE" THEN d.newRound > d.round
                                  ELSE d.newRound = NoRound
    /\ d.step \in VoteSteps => d.msg # NONE
    /\ d.step = "VERIFY" => d.proposal # NONE
    /\ d.step \in {"LOCK", "COMMIT", "FINALIZE"} => d.proposal \in DIRs
    /\ d.step = "FINALIZE" => d.finalized # NONE

MinimumRoundAfter(r) == IF r.step = "ROUND_CHANGE" THEN r.newRound ELSE r.round

\* A VERIFY for another DIR than the one locked.
Conflicts(prev, r) ==
    /\ r.step = "VERIFY" /\ r.proposal # NIL
    /\ prev.lockedDIR # NONE /\ r.proposal # prev.lockedDIR

OrderOK(prev, r) ==
    /\ r.height >= prev.height
    /\ r.height = prev.height =>
          /\ r.round >= MinimumRoundAfter(prev)
          /\ r.round = prev.round => StepRank(r.step) > StepRank(prev.step)

\* Variant: a height is left without its FINALIZE.
AdvanceUnfinalizedOK(prev, r) ==
    r.height > prev.height =>
        /\ r.step \in {"VERIFY", "ROUND_CHANGE"}
        /\ r.lockedDIR = NONE /\ r.lockedRound = NoRound
        /\ r.validDIR = NONE /\ r.validRound = NoRound /\ r.finalized = NONE

AdvanceOK(prev, r) ==
    r.height > prev.height =>
        /\ prev.height = 0 \/ prev.finalized # NONE
        /\ r.step \in {"VERIFY", "ROUND_CHANGE"}
        /\ r.lockedDIR = NONE /\ r.lockedRound = NoRound
        /\ r.validDIR = NONE /\ r.validRound = NoRound /\ r.finalized = NONE

\* Variant: the unlock proof may be of a round before the lock.
UnlockByAnyRoundOK(prev, r) ==
    r.height = prev.height /\ Conflicts(prev, r) => r.unlockRound < r.round

UnlockOK(prev, r) ==
    r.height = prev.height /\ Conflicts(prev, r) =>
        prev.lockedRound < r.unlockRound /\ r.unlockRound < r.round

LockOK(prev, r) ==
    IF r.step = "LOCK"
    THEN r.height = prev.height /\ r.lockedDIR = r.proposal /\ r.lockedRound = r.round
    ELSE r.height = prev.height =>
            r.lockedDIR = prev.lockedDIR /\ r.lockedRound = prev.lockedRound

\* Variant: the proposal is not compared with the lock.
MatchesAnyLock(prev, r) == r.height = prev.height

MatchesLock(prev, r) ==
    r.height = prev.height /\ prev.lockedDIR # NONE /\ r.proposal = prev.lockedDIR

CommitOK(prev, r) ==
    r.step = "COMMIT" => MatchesLock(prev, r) /\ prev.lockedRound = r.round

FinalizeOK(prev, r) ==
    r.step = "FINALIZE" => MatchesLock(prev, r) /\ StepRank(prev.step) >= StepRank("COMMIT")

ValidTransition(prev, r) ==
    /\ OrderOK(prev, r)
    /\ AdvanceOK(prev, r)
    /\ UnlockOK(prev, r)
    /\ LockOK(prev, r)
    /\ CommitOK(prev, r)
    /\ FinalizeOK(prev, r)

\* The record recordConsensusSafetyDecision builds for d after prev.
NextRecord(prev, d) ==
    LET same == d.height <= prev.height
    IN  [height |-> d.height, round |-> d.round, newRound |-> d.newRound,
         step |-> d.step, proposal |-> d.proposal, msg |-> d.msg,
         unlockRound |-> d.unlockRound,
         lockedDIR   |-> IF d.step = "LOCK" THEN d.proposal
                         ELSE IF same THEN prev.lockedDIR ELSE NONE,
         lockedRound |-> IF d.step = "LOCK" THEN d.round
                         ELSE IF same THEN prev.lockedRound ELSE NoRound,
         validDIR    |-> IF d.step = "LOCK" \/ (same /\ Conflicts(prev, d)) THEN d.proposal
                         ELSE IF same THEN prev.validDIR ELSE NONE,
         validRound  |-> IF d.step = "LOCK" THEN d.round
                         ELSE IF same /\ Conflicts(prev, d) THEN d.unlockRound
                         ELSE IF same THEN prev.validRound ELSE NoRound,
         finalized   |-> IF d.step = "FINALIZE" THEN d.finalized
                         ELSE IF same THEN prev.finalized ELSE NONE]

\* Variant: the new record is not validated.
AcceptsUnvalidated(prev, d) == TRUE

Accepts(prev, d) == ValidTransition(prev, NextRecord(prev, d))
==============================================================================
