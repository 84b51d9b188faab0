---------------------------- MODULE PoVIConsensus ----------------------------
(***************************************************************************)
(* PoVI at one height: correct validators that each run the height state   *)
(* machine (src/lib/redbook/povi/state-machine.ts) over their safety       *)
(* journal (SafetyRules), and Byzantine validators that sign anything.     *)
(* The repository verifies certificates and journals votes but does not    *)
(* yet run the loop between the two; a step here needs both to allow it.   *)
(*                                                                         *)
(* Votes are published for good and may be received late, twice, in any    *)
(* order or never: a validator's verifyVotes and commitVotes maps are      *)
(* abstracted to the call that completes a quorum, which may come at any   *)
(* time after the votes were cast.  Every signature of a Byzantine         *)
(* validator is taken to exist from the start.  The journal is written     *)
(* atomically here (SafetyJournal has the steps) and survives a restart,   *)
(* which loses the state machine's memory.                                 *)
(***************************************************************************)
EXTENDS SafetyRules, FiniteSets

CONSTANTS
    Validators,     \* the ACTIVE validators of the height
    Faulty,         \* those that are Byzantine
    HeaderRound,    \* the round in the header a proposal hash commits to
    MaxRound,       \* bound on the rounds
    Offered         \* the DIRs proposed in each round

Correct == Validators \ Faulty
Rounds  == 0 .. MaxRound
Choices == DIRs \cup {NIL}

ASSUME ValidatorsAssumption ==
    /\ IsFiniteSet(Validators) /\ Faulty \subseteq Validators
    /\ 3 * Cardinality(Faulty) < Cardinality(Validators)
ASSUME BoundsAssumption ==
    /\ MaxRound \in Nat /\ HeaderRound \in [DIRs -> Nat]
    /\ Offered \in [0 .. MaxRound -> SUBSET DIRs]
    /\ DIRs \subseteq Digests      \* a finalized DIR goes by its proposal hash

VARIABLES
    state,          \* PoVIHeightState of each correct validator
    last,           \* the last safety record of each correct validator
    verified,       \* VERIFY votes <<validator, round, choice>> signed
    committed,      \* COMMIT votes <<validator, round, DIR>> signed
    changed         \* ROUND_CHANGE votes <<validator, newRound>> signed

vars == <<state, last, verified, committed, changed>>

Phase == {"PROPOSE", "VERIFY", "LOCK", "COMMIT", "FINALIZE", "FINALIZED"}

HeightState ==
    [round : Rounds, phase : Phase, proposal : OptDIR,
     lockedDIR : OptDIR, lockedRound : OptRound,
     validDIR : OptDIR, validRound : OptRound]

------------------------------------------------------------------------------
\* Variant: the quorum is two thirds, not more than two thirds.
TwoThirds(n) == (2 * n) \div 3

RequiredQuorum(n) == (2 * n) \div 3 + 1

quorum      == RequiredQuorum(Cardinality(Validators))
IsQuorum(S) == Cardinality(S) >= quorum

VerifiedBy(r, c)  == {v \in Correct : <<v, r, c>> \in verified} \cup Faulty
CommittedBy(r, D) == {v \in Correct : <<v, r, D>> \in committed} \cup Faulty
ChangedBy(r)      == {v \in Correct : <<v, r>> \in changed} \cup Faulty

\* A lock certificate (PLC) for D of round r, a COMMIT certificate for D of
\* round r, ROUND_CHANGE evidence for round r.
PLC(D, r)           == IsQuorum(VerifiedBy(r, D))
CommitQuorum(D, r)  == IsQuorum(CommittedBy(r, D))
RoundChangeQuorum(r) == IsQuorum(ChangedBy(r))

\* verifyDIRFinalityProof also binds the round of the COMMIT votes to the one
\* in the header that the proposal hash commits to.
FinalityProof(D, r) == CommitQuorum(D, r) /\ HeaderRound[D] = r

------------------------------------------------------------------------------
\* The decision v asks its journal to record at height 1.
Decision(v, step, proposal) ==
    [height |-> 1, round |-> state[v].round, newRound |-> NoRound, step |-> step,
     proposal |-> proposal, msg |-> NONE, unlockRound |-> NoRound, finalized |-> NONE]

Journal(v, d) ==
    /\ Accepts(last[v], d)
    /\ last' = [last EXCEPT ![v] = NextRecord(last[v], d)]

Update(v, s) == state' = [state EXCEPT ![v] = s]

FreshState == [round |-> 0, phase |-> "PROPOSE", proposal |-> NONE,
               lockedDIR |-> NONE, lockedRound |-> NoRound,
               validDIR |-> NONE, validRound |-> NoRound]

Init ==
    /\ state = [v \in Correct |-> FreshState]
    /\ last = [v \in Correct |-> Bootstrap]
    /\ verified = {} /\ committed = {} /\ changed = {}

AcceptProposal(v, D) ==
    /\ D \in Offered[state[v].round]
    /\ state[v].phase # "FINALIZED"
    /\ state[v].lockedDIR \in {NONE, D}
    /\ Update(v, [state[v] EXCEPT !.phase = "VERIFY", !.proposal = D])
    /\ UNCHANGED <<last, verified, committed, changed>>

\* Variant: the lock certificate is not checked.
AcceptProposalWithAnyRound(v, D, r) ==
    /\ D \in Offered[state[v].round]
    /\ state[v].phase # "FINALIZED"
    /\ state[v].lockedDIR \notin {NONE, D}
    /\ state[v].lockedRound < r /\ r < state[v].round
    /\ Update(v, [state[v] EXCEPT !.phase = "VERIFY", !.proposal = D,
                                  !.validDIR = D, !.validRound = r])
    /\ UNCHANGED <<last, verified, committed, changed>>

\* A proposal for another DIR than the locked one, with the lock certificate of
\* a round after the lock and before this one.
AcceptProposalWithHigherRoundPLC(v, D, r) ==
    /\ D \in Offered[state[v].round]
    /\ state[v].phase # "FINALIZED"
    /\ state[v].lockedDIR \notin {NONE, D}
    /\ state[v].lockedRound < r /\ r < state[v].round
    /\ PLC(D, r)
    /\ Update(v, [state[v] EXCEPT !.phase = "VERIFY", !.proposal = D,
                                  !.validDIR = D, !.validRound = r])
    /\ UNCHANGED <<last, verified, committed, changed>>

\* The validator votes for the proposal it accepted, citing its certificate if
\* the proposal conflicts with its lock, or votes NIL.
CastVerify(v, c) ==
    /\ \/ c = NIL /\ state[v].phase \in {"PROPOSE", "VERIFY"}
       \/ c \in DIRs /\ c = state[v].proposal /\ state[v].phase = "VERIFY"
    /\ LET d == Decision(v, "VERIFY", c)
       IN  Journal(v, IF Conflicts(last[v], d)
                      THEN [d EXCEPT !.unlockRound = state[v].validRound] ELSE d)
    /\ verified' = verified \cup {<<v, state[v].round, c>>}
    /\ UNCHANGED <<state, committed, changed>>

\* recordVerifyVote, on the vote that completes the quorum: the lock moves to
\* the proposal, in the state machine and in the journal.
Lock(v) ==
    /\ state[v].phase = "VERIFY"
    /\ PLC(state[v].proposal, state[v].round)
    /\ Journal(v, Decision(v, "LOCK", state[v].proposal))
    /\ Update(v, [state[v] EXCEPT !.phase = "LOCK",
                     !.lockedDIR = state[v].proposal, !.lockedRound = state[v].round,
                     !.validDIR = state[v].proposal, !.validRound = state[v].round])
    /\ UNCHANGED <<verified, committed, changed>>

BeginCommit(v) ==
    /\ state[v].phase = "LOCK"
    /\ Update(v, [state[v] EXCEPT !.phase = "COMMIT"])
    /\ UNCHANGED <<last, verified, committed, changed>>

CastCommit(v) ==
    /\ state[v].phase = "COMMIT"
    /\ Journal(v, Decision(v, "COMMIT", state[v].lockedDIR))
    /\ committed' = committed \cup {<<v, state[v].round, state[v].lockedDIR>>}
    /\ UNCHANGED <<state, verified, changed>>

\* recordCommitVote, on the vote that completes the quorum.
RecordCommitQuorum(v) ==
    /\ state[v].phase = "COMMIT"
    /\ CommitQuorum(state[v].lockedDIR, state[v].round)
    /\ Update(v, [state[v] EXCEPT !.phase = "FINALIZE"])
    /\ UNCHANGED <<last, verified, committed, changed>>

Finalize(v) ==
    /\ state[v].phase = "FINALIZE"
    /\ state[v].proposal = state[v].lockedDIR
    /\ FinalityProof(state[v].proposal, state[v].round)
    /\ Journal(v, [Decision(v, "FINALIZE", state[v].proposal)
                     EXCEPT !.finalized = state[v].proposal])
    /\ Update(v, [state[v] EXCEPT !.phase = "FINALIZED"])
    /\ UNCHANGED <<verified, committed, changed>>

CastRoundChange(v, r) ==
    /\ state[v].phase # "FINALIZED" /\ state[v].round < r
    /\ Journal(v, [Decision(v, "ROUND_CHANGE", NONE) EXCEPT !.newRound = r])
    /\ changed' = changed \cup {<<v, r>>}
    /\ UNCHANGED <<state, verified, committed>>

EnterHigherRound(v, r) ==
    /\ state[v].phase # "FINALIZED" /\ state[v].round < r
    /\ RoundChangeQuorum(r)
    /\ Update(v, [state[v] EXCEPT !.round = r, !.phase = "PROPOSE", !.proposal = NONE])
    /\ UNCHANGED <<last, verified, committed, changed>>

\* Variant: the lock in the journal is not read back.
RestartUnlocked(v) ==
    /\ last[v].finalized = NONE
    /\ Update(v, [FreshState EXCEPT !.round = MinimumRoundAfter(last[v])])
    /\ UNCHANGED <<last, verified, committed, changed>>

\* Variant: the round of a ROUND_CHANGE is read from every record.
RestartAtNewRound(v) ==
    /\ last[v].finalized = NONE
    /\ Update(v, [FreshState EXCEPT
                     !.round = last[v].newRound,
                     !.lockedDIR = last[v].lockedDIR, !.lockedRound = last[v].lockedRound,
                     !.validDIR = last[v].validDIR, !.validRound = last[v].validRound])
    /\ UNCHANGED <<last, verified, committed, changed>>

\* The validator restarts with what its journal says: recoveredConsensusRound,
\* the lock and the valid value.
Restart(v) ==
    /\ last[v].finalized = NONE
    /\ Update(v, [FreshState EXCEPT
                     !.round = MinimumRoundAfter(last[v]),
                     !.lockedDIR = last[v].lockedDIR, !.lockedRound = last[v].lockedRound,
                     !.validDIR = last[v].validDIR, !.validRound = last[v].validRound])
    /\ UNCHANGED <<last, verified, committed, changed>>

Next ==
    \E v \in Correct :
        \/ \E D \in DIRs : AcceptProposal(v, D)
        \/ \E D \in DIRs, r \in Rounds : AcceptProposalWithHigherRoundPLC(v, D, r)
        \/ \E c \in Choices : CastVerify(v, c)
        \/ Lock(v) \/ BeginCommit(v) \/ CastCommit(v)
        \/ RecordCommitQuorum(v) \/ Finalize(v)
        \/ \E r \in Rounds : CastRoundChange(v, r) \/ EnterHigherRound(v, r)
        \/ Restart(v)

Spec == Init /\ [][Next]_vars

------------------------------------------------------------------------------
TypeOK ==
    /\ state \in [Correct -> HeightState]
    /\ last \in [Correct -> RecordType]
    /\ verified \subseteq Correct \X Rounds \X Choices
    /\ committed \subseteq Correct \X Rounds \X DIRs
    /\ changed \subseteq Correct \X Rounds

\* The DIRs that COMMIT certificates of any round name.
Certificates == {D \in DIRs : \E r \in Rounds : CommitQuorum(D, r)}

\* Two COMMIT certificates of one height certify the same DIR, whatever rounds
\* they are of and whatever the Byzantine validators sign.
Agreement == \A D, E \in Certificates : D = E

\* The lock the state machine acts on is the lock in the journal, across
\* restarts.
LockIsJournaled ==
    \A v \in Correct :
        /\ state[v].lockedDIR = last[v].lockedDIR
        /\ state[v].lockedRound = last[v].lockedRound

\* A correct validator that votes in a later round for another DIR than one it
\* committed to does so because some other DIR was locked by a quorum in between,
\* even if it restarted in the meantime.
UnlockJustified ==
    \A c \in committed, e \in verified :
        c[1] = e[1] /\ c[2] < e[2] /\ e[3] \notin {c[3], NIL} =>
            \E F \in DIRs \ {c[3]}, p \in Rounds : c[2] < p /\ p < e[2] /\ PLC(F, p)

\* A DIR locked by a quorum in its own round and proposed again in a later one
\* ("safe higher-round reproposal") finalizes there: a validator that reached
\* its COMMIT quorum holds a proof the finality verifier accepts.
ReproposalFinalizes ==
    \A v \in Correct :
        state[v].phase = "FINALIZE" /\ PLC(state[v].lockedDIR, HeaderRound[state[v].lockedDIR])
            => FinalityProof(state[v].lockedDIR, state[v].round)

------------------------------------------------------------------------------
Finality == INSTANCE DIRFinality WITH certified <- Certificates

\* The votes of the height implement DIRFinality: one candidate at most, for good.
ImplementsFinality == Finality!Spec
==============================================================================
