------------------------ MODULE PoVIConsensusProofs ------------------------
(***************************************************************************)
(* Proofs about PoVIConsensus, for any number of validators of which fewer *)
(* than a third are Byzantine, any set of DIRs and any number of rounds.   *)
(* The inductive invariant says what the journal lets a correct validator  *)
(* have signed: one VERIFY vote a round, COMMIT votes only for the lock,   *)
(* and behind every lock a quorum of VERIFY votes of its round.  Agreement *)
(* follows by taking the first round, after a COMMIT certificate, in which *)
(* a quorum verified another DIR: one correct validator is in both quorums *)
(* and would have needed such a round even earlier to be unlocked.         *)
(***************************************************************************)
EXTENDS PoVIConsensus, SafetyRulesProofs, FiniteSetTheorems

\* Any two quorums share a correct validator: requiredPoviQuorum is floor(2n/3)+1
\* and fewer than a third of the validators are Byzantine.
LEMMA QuorumIntersection ==
    ASSUME NEW S \in SUBSET Correct, NEW T \in SUBSET Correct,
           IsQuorum(S \cup Faulty), IsQuorum(T \cup Faulty)
    PROVE  S \cap T # {}
<1> SUFFICES ASSUME S \cap T = {} PROVE FALSE
    OBVIOUS
<1> DEFINE n == Cardinality(Validators)
           f == Cardinality(Faulty)
           s == Cardinality(S \cup Faulty)
           t == Cardinality(T \cup Faulty)
<1>1. /\ IsFiniteSet(Validators) /\ IsFiniteSet(Faulty)
      /\ IsFiniteSet(S \cup Faulty) /\ IsFiniteSet(T \cup Faulty)
      /\ IsFiniteSet(S \cup T \cup Faulty)
      /\ Cardinality(S \cup T \cup Faulty) <= n
  <2>1. /\ Faulty \in SUBSET Validators
        /\ S \cup Faulty \in SUBSET Validators /\ T \cup Faulty \in SUBSET Validators
        /\ S \cup T \cup Faulty \in SUBSET Validators
        BY ValidatorsAssumption DEF Correct
  <2> QED BY <2>1, ValidatorsAssumption, FS_Subset
<1>2. /\ (S \cup Faulty) \cup (T \cup Faulty) = S \cup T \cup Faulty
      /\ (S \cup Faulty) \cap (T \cup Faulty) = Faulty
      OBVIOUS
<1>3. Cardinality(S \cup T \cup Faulty) = s + t - f
      BY <1>1, <1>2, FS_Union
<1>4. n \in Nat /\ f \in Nat /\ s \in Nat /\ t \in Nat
      BY <1>1, FS_CardinalityType
<1>5. s >= (2 * n) \div 3 + 1 /\ t >= (2 * n) \div 3 + 1
      BY DEF IsQuorum, quorum, RequiredQuorum
<1>6. 3 * f < n
      BY ValidatorsAssumption
<1>7. s + t - f <= n
      BY <1>1, <1>3
<1> HIDE DEF n, f, s, t
<1> QED BY <1>4, <1>5, <1>6, <1>7

\* A nonempty set of rounds has a least element.
LEMMA LeastRound ==
    ASSUME NEW Q \in SUBSET Nat, Q # {}
    PROVE  \E q \in Q : \A p \in Q : q <= p
<1> DEFINE R  == StrictSubsetOrdering(Nat)
           FF == FiniteSubsetsOf(Nat)
           T  == {0 .. q : q \in Q}
<1>1. T \subseteq FF
  <2>1. ASSUME NEW q \in Q PROVE 0 .. q \in SUBSET Nat /\ IsFiniteSet(0 .. q)
    <3>1. q \in Int /\ 0 \in Int /\ 0 .. q \in SUBSET Nat
          OBVIOUS
    <3> QED BY <3>1, FS_Interval
  <2> QED BY <2>1 DEF FiniteSubsetsOf
<1>2. T # {}
      OBVIOUS
<1>3. PICK x \in T : \A y \in T : ~ (<<y, x>> \in R)
  <2> HIDE DEF R, FF, T
  <2>1. IsWellFoundedOn(R, FF)
        BY FS_StrictSubsetOrderingWellFounded DEF R, FF
  <2> QED BY <1>1, <1>2, <2>1, WFMin
<1>4. PICK q \in Q : x = 0 .. q
      OBVIOUS
<1>5. ASSUME NEW p \in Q, p < q PROVE FALSE
  <2>1. 0 .. p \in T /\ 0 .. p \subseteq 0 .. q /\ q \in 0 .. q /\ q \notin 0 .. p
        BY <1>5
  <2>2. <<0 .. p, 0 .. q>> \in R
        BY <2>1 DEF StrictSubsetOrdering
  <2> QED BY <1>3, <1>4, <2>1, <2>2
<1> QED BY <1>5

------------------------------------------------------------------------------
(***************************************************************************)
(* The inductive invariant.                                                *)
(***************************************************************************)

\* The journal is at the height's first record or before it, in bounds, and a
\* ROUND_CHANGE leads forward.
JournalInBounds ==
    \A v \in Correct :
        /\ last[v].height \in {0, 1} /\ last[v].round \in Rounds
        /\ last[v].height = 0 => last[v] = Bootstrap
        /\ last[v].height = 1 => last[v].step # "BOOTSTRAP"
        /\ last[v].step = "ROUND_CHANGE" =>
              last[v].newRound \in Rounds /\ last[v].newRound > last[v].round

\* What a validator votes on, and why it may leave its lock for it.
ProposalJustified ==
    \A v \in Correct :
        state[v].phase # "PROPOSE" =>
            /\ state[v].proposal \in DIRs
            /\ state[v].phase = "VERIFY" /\ state[v].proposal # state[v].lockedDIR
                  => state[v].lockedDIR = NONE \/ state[v].validDIR = state[v].proposal

\* Every vote signed is at or before the last record, a COMMIT vote strictly
\* before whatever is locked next.
VotesBehindJournal ==
    /\ \A e \in verified :
          last[e[1]].height = 1 /\ e[2] <= last[e[1]].round
    /\ \A c \in committed :
          /\ last[c[1]].height = 1 /\ c[2] <= last[c[1]].round
          /\ c[2] = last[c[1]].round => StepRank(last[c[1]].step) >= 30

OneVerifyPerRound ==
    \A e, g \in verified : e[1] = g[1] /\ e[2] = g[2] => e = g

\* The lock is of the current round or before and is never below a COMMIT.
LockAboveCommits ==
    /\ \A v \in Correct :
          /\ last[v].lockedRound <= last[v].round
          /\ last[v].lockedDIR = NONE <=> last[v].lockedRound = NoRound
    /\ \A c \in committed :
          /\ c[2] <= last[c[1]].lockedRound
          /\ c[2] = last[c[1]].lockedRound => c[3] = last[c[1]].lockedDIR

\* Locks, valid values and COMMIT votes have a lock certificate behind them.
Certified ==
    /\ \A v \in Correct :
          /\ last[v].lockedRound # NoRound => PLC(last[v].lockedDIR, last[v].lockedRound)
          /\ last[v].validRound # NoRound => PLC(last[v].validDIR, last[v].validRound)
          /\ state[v].validRound # NoRound => PLC(state[v].validDIR, state[v].validRound)
    /\ \A c \in committed : PLC(c[3], c[2])

IInv ==
    /\ TypeOK
    /\ JournalInBounds
    /\ LockIsJournaled
    /\ ProposalJustified
    /\ VotesBehindJournal
    /\ OneVerifyPerRound
    /\ LockAboveCommits
    /\ Certified
    /\ UnlockJustified
------------------------------------------------------------------------------
(***************************************************************************)
(* Steps.                                                                  *)
(***************************************************************************)

\* A vote more never takes a lock certificate away.
LEMMA CertificatesStay ==
    ASSUME verified \subseteq verified', NEW D, NEW r, PLC(D, r)
    PROVE  PLC(D, r)'
<1> DEFINE S == VerifiedBy(r, D)
           T == VerifiedBy(r, D)'
<1>1. S \subseteq T /\ T \subseteq Validators
      BY ValidatorsAssumption DEF VerifiedBy, Correct
<1>2. IsFiniteSet(T) /\ Cardinality(S) <= Cardinality(T)
      BY <1>1, ValidatorsAssumption, FS_Subset
<1>3. Cardinality(S) \in Nat /\ Cardinality(T) \in Nat /\ Cardinality(Validators) \in Nat
      BY <1>1, <1>2, ValidatorsAssumption, FS_Subset, FS_CardinalityType
<1> HIDE DEF S, T
<1>4. Cardinality(S) >= (2 * Cardinality(Validators)) \div 3 + 1
      BY DEF PLC, IsQuorum, quorum, RequiredQuorum, S
<1>5. Cardinality(T) >= (2 * Cardinality(Validators)) \div 3 + 1
      BY <1>2, <1>3, <1>4
<1> QED BY <1>5 DEF PLC, IsQuorum, quorum, RequiredQuorum, T

\* A height starts with no votes, no locks and an empty journal.
LEMMA InitInv == Init => IInv
<1> SUFFICES ASSUME Init PROVE IInv
    OBVIOUS
<1> USE DEF Init
<1>1. /\ FreshState \in HeightState /\ Bootstrap \in RecordType /\ 0 \in Rounds
      BY BoundsAssumption DEF FreshState, HeightState, Phase, Rounds, OptDIR, OptRound,
         NoRound, Bootstrap, RecordType, OptDigest
<1>2. TypeOK
      BY <1>1 DEF TypeOK
<1>3. JournalInBounds /\ LockIsJournaled /\ ProposalJustified
      BY <1>1 DEF JournalInBounds, LockIsJournaled, ProposalJustified, Bootstrap, FreshState
<1>4. VotesBehindJournal /\ OneVerifyPerRound /\ UnlockJustified
      BY DEF VotesBehindJournal, OneVerifyPerRound, UnlockJustified
<1>5. LockAboveCommits /\ Certified
      BY DEF LockAboveCommits, Certified, Bootstrap, FreshState, NoRound
<1> QED BY <1>2, <1>3, <1>4, <1>5 DEF IInv

\* A step of the state machine alone: the lock stays and the valid value is a
\* certified one.
LEMMA StateStep ==
    ASSUME IInv, NEW v \in Correct, NEW s \in HeightState, Update(v, s),
           UNCHANGED <<last, verified, committed>>,
           changed' \subseteq Correct \X Rounds,
           s.lockedDIR = state[v].lockedDIR, s.lockedRound = state[v].lockedRound,
           s.phase # "PROPOSE" =>
               /\ s.proposal \in DIRs
               /\ s.phase = "VERIFY" /\ s.proposal # s.lockedDIR =>
                     s.lockedDIR = NONE \/ s.validDIR = s.proposal,
           s.validRound # NoRound => PLC(s.validDIR, s.validRound)
    PROVE  IInv'
<1>0. state' = [state EXCEPT ![v] = s] /\ state \in [Correct -> HeightState]
      BY DEF Update, IInv, TypeOK
<1>1. TypeOK'
      BY <1>0 DEF IInv, TypeOK
<1>2. JournalInBounds' /\ VotesBehindJournal' /\ OneVerifyPerRound' /\ LockAboveCommits'
      BY DEF IInv, JournalInBounds, VotesBehindJournal, OneVerifyPerRound, LockAboveCommits
<1>3. LockIsJournaled'
      BY <1>0 DEF IInv, LockIsJournaled
<1>4. ProposalJustified'
      BY <1>0 DEF IInv, ProposalJustified
<1>5. \A D, r : PLC(D, r)' = PLC(D, r)
      BY DEF PLC, VerifiedBy, IsQuorum, quorum
<1>6. Certified'
      BY <1>0, <1>5 DEF IInv, Certified
<1>7. UnlockJustified'
      BY <1>5 DEF IInv, UnlockJustified
<1> QED BY <1>1, <1>2, <1>3, <1>4, <1>6, <1>7 DEF IInv

\* What a recorded decision does to the journal.
LEMMA JournalStep ==
    ASSUME IInv, NEW v \in Correct, NEW d, Shaped(d), Journal(v, d),
           d.height = 1, d.round \in Rounds,
           d.step = "ROUND_CHANGE" => d.newRound \in Rounds /\ d.newRound > d.round
    PROVE  /\ last' \in [Correct -> RecordType]
           /\ \A w \in Correct \ {v} : last'[w] = last[w]
           /\ JournalInBounds'
           /\ last'[v].height = 1 /\ last'[v].round = d.round /\ last'[v].step = d.step
           /\ last[v].round <= d.round
           /\ last[v].height = 1 /\ last[v].round = d.round =>
                 StepRank(d.step) > StepRank(last[v].step)
           /\ d.step = "LOCK" =>
                 /\ last[v].height = 1
                 /\ last'[v].lockedDIR = d.proposal /\ last'[v].lockedRound = d.round
                 /\ last'[v].validDIR = d.proposal /\ last'[v].validRound = d.round
           /\ d.step # "LOCK" =>
                 /\ last'[v].lockedDIR = last[v].lockedDIR
                 /\ last'[v].lockedRound = last[v].lockedRound
                 /\ \/ /\ last'[v].validDIR = last[v].validDIR
                       /\ last'[v].validRound = last[v].validRound
                    \/ /\ Conflicts(last[v], d)
                       /\ last'[v].validDIR = d.proposal
                       /\ last'[v].validRound = d.unlockRound
           /\ Conflicts(last[v], d) =>
                 last[v].lockedRound < d.unlockRound /\ d.unlockRound < d.round
           /\ d.step = "COMMIT" =>
                 last[v].height = 1 /\ d.proposal = last[v].lockedDIR
                 /\ d.round = last[v].lockedRound /\ last[v].lockedDIR # NONE
<1> DEFINE prev == last[v]
           r == NextRecord(prev, d)
<1>1. /\ prev \in RecordType /\ Accepts(prev, d)
      /\ last' = [last EXCEPT ![v] = r] /\ last \in [Correct -> RecordType]
      BY DEF Journal, IInv, TypeOK
<1>2. /\ r \in RecordType /\ r.height = 1 /\ r.round = d.round
      /\ r.newRound = d.newRound /\ r.step = d.step
      BY <1>1, NextRecordType
<1>3. /\ last' \in [Correct -> RecordType] /\ last'[v] = r
      /\ \A w \in Correct \ {v} : last'[w] = last[w]
      BY <1>1, <1>2
<1>4. /\ prev.height \in {0, 1} /\ prev.round \in Rounds
      /\ prev.height = 0 => prev = Bootstrap
      /\ prev.height = 1 => prev.step # "BOOTSTRAP"
      /\ prev.step = "ROUND_CHANGE" => prev.newRound \in Rounds /\ prev.newRound > prev.round
      BY DEF IInv, JournalInBounds
<1> HIDE DEF r, prev
<1>5. JournalInBounds'
  <2>1. d.step # "BOOTSTRAP"
        BY DEF Shaped, DecisionType, Steps, VoteSteps
  <2>2. ASSUME NEW w \in Correct
        PROVE  /\ last'[w].height \in {0, 1} /\ last'[w].round \in Rounds
               /\ last'[w].height = 0 => last'[w] = Bootstrap
               /\ last'[w].height = 1 => last'[w].step # "BOOTSTRAP"
               /\ last'[w].step = "ROUND_CHANGE" =>
                     last'[w].newRound \in Rounds /\ last'[w].newRound > last'[w].round
    <3>1. CASE w = v
          BY <3>1, <1>2, <1>3, <2>1
    <3>2. CASE w # v
          BY <3>2, <1>3 DEF IInv, JournalInBounds
    <3> QED BY <3>1, <3>2
  <2> QED BY <2>2 DEF JournalInBounds
<1>6. /\ prev.height = 1 =>
            /\ d.round >= MinimumRoundAfter(prev)
            /\ d.round = prev.round => StepRank(d.step) > StepRank(prev.step)
      BY <1>1, AcceptedOrder
<1>7. prev.round <= d.round
  <2>1. CASE prev.height = 1
        BY <2>1, <1>4, <1>6, BoundsAssumption DEF MinimumRoundAfter, Rounds
  <2>2. CASE prev.height = 0
        BY <2>2, <1>4, BoundsAssumption DEF Bootstrap, Rounds
  <2> QED BY <1>4, <2>1, <2>2
<1>8. CASE prev.height = 1
  <2>1. /\ d.step = "LOCK" =>
             /\ r.lockedDIR = d.proposal /\ r.lockedRound = d.round
             /\ r.validDIR = d.proposal /\ r.validRound = d.round
        /\ d.step # "LOCK" =>
             /\ r.lockedDIR = prev.lockedDIR /\ r.lockedRound = prev.lockedRound
             /\ \/ r.validDIR = prev.validDIR /\ r.validRound = prev.validRound
                \/ /\ Conflicts(prev, d)
                   /\ r.validDIR = d.proposal /\ r.validRound = d.unlockRound
        BY <1>1, <1>8, NextRecordLock DEF r
  <2>2. /\ Conflicts(prev, d) => prev.lockedRound < d.unlockRound /\ d.unlockRound < d.round
        /\ d.step = "COMMIT" =>
             /\ prev.lockedDIR # NONE
             /\ d.proposal = prev.lockedDIR /\ d.round = prev.lockedRound
        BY <1>1, <1>8, AcceptedByLock
  <2> QED BY <1>2, <1>3, <1>5, <1>6, <1>7, <1>8, <2>1, <2>2 DEF prev
<1>9. CASE prev.height = 0
  <2>1. prev = Bootstrap /\ ~ Conflicts(prev, d)
        BY <1>4, <1>9 DEF Bootstrap, Conflicts
  <2>2. /\ d.step \in {"VERIFY", "ROUND_CHANGE"}
        /\ r.lockedDIR = NONE /\ r.lockedRound = NoRound
        /\ r.validDIR = NONE /\ r.validRound = NoRound
        BY <1>1, <1>9, NextRecordNewHeight DEF r
  <2>3. /\ r.lockedDIR = prev.lockedDIR /\ r.lockedRound = prev.lockedRound
        /\ r.validDIR = prev.validDIR /\ r.validRound = prev.validRound
        BY <2>1, <2>2 DEF Bootstrap
  <2> QED BY <1>2, <1>3, <1>5, <1>7, <1>9, <2>1, <2>2, <2>3 DEF prev
<1> QED BY <1>4, <1>8, <1>9

\* The actions that only move the state machine.
LEMMA StateMachineSteps ==
    ASSUME IInv, NEW v \in Correct,
           \/ \E D \in DIRs : AcceptProposal(v, D)
           \/ \E D \in DIRs, r \in Rounds : AcceptProposalWithHigherRoundPLC(v, D, r)
           \/ BeginCommit(v) \/ RecordCommitQuorum(v)
           \/ \E r \in Rounds : EnterHigherRound(v, r)
           \/ Restart(v)
    PROVE  IInv'
<1>1. /\ state[v] \in HeightState /\ last[v] \in RecordType
      /\ changed \subseteq Correct \X Rounds
      BY DEF IInv, TypeOK
<1>2. /\ state[v].phase # "PROPOSE" => state[v].proposal \in DIRs
      /\ state[v].validRound # NoRound => PLC(state[v].validDIR, state[v].validRound)
      /\ last[v].validRound # NoRound => PLC(last[v].validDIR, last[v].validRound)
      BY DEF IInv, ProposalJustified, Certified
<1> USE DEF HeightState, Phase, OptDIR, OptRound
<1>3. ASSUME NEW D \in DIRs, AcceptProposal(v, D) PROVE IInv'
  <2> DEFINE s == [state[v] EXCEPT !.phase = "VERIFY", !.proposal = D]
  <2>1. s \in HeightState
        BY <1>1
  <2>2. Update(v, s) /\ UNCHANGED <<last, verified, committed, changed>>
        /\ state[v].lockedDIR \in {NONE, D}
        BY <1>3 DEF AcceptProposal
  <2> QED BY <1>1, <1>2, <2>1, <2>2, StateStep
<1>4. ASSUME NEW D \in DIRs, NEW r \in Rounds, AcceptProposalWithHigherRoundPLC(v, D, r)
      PROVE  IInv'
  <2> DEFINE s == [state[v] EXCEPT !.phase = "VERIFY", !.proposal = D,
                                   !.validDIR = D, !.validRound = r]
  <2>0. r \in Nat
        BY BoundsAssumption DEF Rounds
  <2>1. s \in HeightState
        BY <1>1, <2>0
  <2>2. Update(v, s) /\ UNCHANGED <<last, verified, committed, changed>> /\ PLC(D, r)
        BY <1>4 DEF AcceptProposalWithHigherRoundPLC
  <2> QED BY <1>1, <1>2, <2>1, <2>2, StateStep
<1>5. CASE BeginCommit(v)
  <2> DEFINE s == [state[v] EXCEPT !.phase = "COMMIT"]
  <2>1. s \in HeightState
        BY <1>1
  <2>2. Update(v, s) /\ UNCHANGED <<last, verified, committed, changed>>
        /\ state[v].phase = "LOCK"
        BY <1>5 DEF BeginCommit
  <2> QED BY <1>1, <1>2, <2>1, <2>2, StateStep
<1>6. CASE RecordCommitQuorum(v)
  <2> DEFINE s == [state[v] EXCEPT !.phase = "FINALIZE"]
  <2>1. s \in HeightState
        BY <1>1
  <2>2. Update(v, s) /\ UNCHANGED <<last, verified, committed, changed>>
        /\ state[v].phase = "COMMIT"
        BY <1>6 DEF RecordCommitQuorum
  <2> QED BY <1>1, <1>2, <2>1, <2>2, StateStep
<1>7. ASSUME NEW r \in Rounds, EnterHigherRound(v, r) PROVE IInv'
  <2> DEFINE s == [state[v] EXCEPT !.round = r, !.phase = "PROPOSE", !.proposal = NONE]
  <2>1. s \in HeightState
        BY <1>1
  <2>2. Update(v, s) /\ UNCHANGED <<last, verified, committed, changed>>
        BY <1>7 DEF EnterHigherRound
  <2> QED BY <1>1, <1>2, <2>1, <2>2, StateStep
<1>8. CASE Restart(v)
  <2> DEFINE s == [FreshState EXCEPT
                     !.round = MinimumRoundAfter(last[v]),
                     !.lockedDIR = last[v].lockedDIR, !.lockedRound = last[v].lockedRound,
                     !.validDIR = last[v].validDIR, !.validRound = last[v].validRound]
  <2>1. MinimumRoundAfter(last[v]) \in Rounds
        BY DEF IInv, JournalInBounds, MinimumRoundAfter
  <2>2. /\ last[v].lockedDIR \in OptDIR /\ last[v].lockedRound \in OptRound
        /\ last[v].validDIR \in OptDIR /\ last[v].validRound \in OptRound
        BY <1>1 DEF RecordType
  <2>3. s \in HeightState
        BY <2>1, <2>2 DEF FreshState
  <2>4. Update(v, s) /\ UNCHANGED <<last, verified, committed, changed>>
        BY <1>8 DEF Restart
  <2>5. s.lockedDIR = state[v].lockedDIR /\ s.lockedRound = state[v].lockedRound
        BY DEF IInv, LockIsJournaled, FreshState
  <2>6. s.phase = "PROPOSE" /\ s.validDIR = last[v].validDIR /\ s.validRound = last[v].validRound
        BY DEF FreshState
  <2> HIDE DEF s
  <2> QED BY <1>1, <1>2, <2>3, <2>4, <2>5, <2>6, StateStep
<1> QED BY <1>3, <1>4, <1>5, <1>6, <1>7, <1>8

\* What recording a decision other than LOCK does to the invariant, apart from
\* the vote it is recorded for.
JournalInv ==
    /\ last \in [Correct -> RecordType]
    /\ JournalInBounds
    /\ \A v \in Correct :
          /\ last[v].lockedRound <= last[v].round
          /\ last[v].lockedDIR = NONE <=> last[v].lockedRound = NoRound
          /\ last[v].lockedRound # NoRound => PLC(last[v].lockedDIR, last[v].lockedRound)
          /\ last[v].validRound # NoRound => PLC(last[v].validDIR, last[v].validRound)

\* A record accepted for a decision of the current round keeps the journal in
\* bounds, its lock behind it and its certificates.
LEMMA RecordStep ==
    ASSUME IInv, NEW v \in Correct, NEW d, Shaped(d), Journal(v, d),
           d.height = 1, d.round \in Rounds, d.step # "LOCK",
           d.step = "ROUND_CHANGE" => d.newRound \in Rounds /\ d.newRound > d.round,
           Conflicts(last[v], d) => d.unlockRound # NoRound /\ PLC(d.proposal, d.unlockRound),
           verified \subseteq verified'
    PROVE  /\ JournalInv'
           /\ \A w \in Correct : /\ last'[w].lockedDIR = last[w].lockedDIR
                                 /\ last'[w].lockedRound = last[w].lockedRound
           /\ \A w \in Correct :
                 last[w].height = 1 =>
                    /\ last'[w].height = 1 /\ last[w].round <= last'[w].round
                    /\ last[w].round = last'[w].round =>
                          StepRank(last[w].step) <= StepRank(last'[w].step)
<1>1. \A D, r : PLC(D, r) => PLC(D, r)'
      BY CertificatesStay
<1>2. /\ last' \in [Correct -> RecordType] /\ JournalInBounds'
      /\ \A w \in Correct \ {v} : last'[w] = last[w]
      /\ last'[v].height = 1 /\ last'[v].round = d.round /\ last'[v].step = d.step
      /\ last[v].round <= d.round
      /\ last[v].height = 1 /\ last[v].round = d.round =>
            StepRank(d.step) > StepRank(last[v].step)
      /\ last'[v].lockedDIR = last[v].lockedDIR
      /\ last'[v].lockedRound = last[v].lockedRound
      /\ \/ last'[v].validDIR = last[v].validDIR /\ last'[v].validRound = last[v].validRound
         \/ /\ Conflicts(last[v], d)
            /\ last'[v].validDIR = d.proposal /\ last'[v].validRound = d.unlockRound
      BY JournalStep
<1>3. \A w \in Correct : /\ last'[w].lockedDIR = last[w].lockedDIR
                         /\ last'[w].lockedRound = last[w].lockedRound
      BY <1>2
<1>4. \A w \in Correct :
         last[w].height = 1 =>
            /\ last'[w].height = 1 /\ last[w].round <= last'[w].round
            /\ last[w].round = last'[w].round =>
                  StepRank(last[w].step) <= StepRank(last'[w].step)
  <2> TAKE w \in Correct
  <2>1. CASE w = v
    <3>1. StepRank(last[v].step) \in Nat /\ StepRank(d.step) \in Nat
          BY RankIsNat DEF IInv, TypeOK, RecordType, Shaped, DecisionType
    <3> QED BY <2>1, <1>2, <3>1
  <2>2. CASE w # v
    <3>1. StepRank(last[w].step) \in Nat /\ last[w].round \in Nat
          BY RankIsNat DEF IInv, TypeOK, RecordType
    <3> QED BY <2>2, <1>2, <3>1
  <2> QED BY <2>1, <2>2
<1>5. ASSUME NEW w \in Correct
      PROVE  (/\ last[w].lockedRound <= last[w].round
              /\ last[w].lockedDIR = NONE <=> last[w].lockedRound = NoRound
              /\ last[w].lockedRound # NoRound => PLC(last[w].lockedDIR, last[w].lockedRound)
              /\ last[w].validRound # NoRound => PLC(last[w].validDIR, last[w].validRound))'
  <2>1. /\ last[w].lockedRound <= last[w].round
        /\ last[w].lockedDIR = NONE <=> last[w].lockedRound = NoRound
        /\ last[w].lockedRound # NoRound => PLC(last[w].lockedDIR, last[w].lockedRound)
        /\ last[w].validRound # NoRound => PLC(last[w].validDIR, last[w].validRound)
        BY DEF IInv, LockAboveCommits, Certified
  <2>2. last[w].lockedRound \in Int /\ last[w].round \in Int /\ d.round \in Int
        BY BoundsAssumption DEF IInv, TypeOK, RecordType, OptRound, NoRound, Rounds
  <2>3. CASE w = v
    <3>1. /\ last'[v].lockedRound <= last'[v].round
          /\ last'[v].lockedDIR = NONE <=> last'[v].lockedRound = NoRound
          BY <1>2, <2>1, <2>2, <2>3
    <3>2. (last[v].lockedRound # NoRound => PLC(last[v].lockedDIR, last[v].lockedRound))'
      <4>1. PICK D, q : D = last[v].lockedDIR /\ q = last[v].lockedRound
            OBVIOUS
      <4>2. q # NoRound => PLC(D, q)'
            BY <1>1, <2>1, <2>3, <4>1
      <4>3. last'[v].lockedDIR = D /\ last'[v].lockedRound = q
            BY <1>2, <4>1
      <4> QED BY <4>2, <4>3 DEF PLC, VerifiedBy
    <3>3. (last[v].validRound # NoRound => PLC(last[v].validDIR, last[v].validRound))'
      <4>1. CASE last'[v].validDIR = last[v].validDIR /\ last'[v].validRound = last[v].validRound
        <5>1. PICK D, q : D = last[v].validDIR /\ q = last[v].validRound
              OBVIOUS
        <5>2. q # NoRound => PLC(D, q)'
              BY <1>1, <2>1, <2>3, <5>1
        <5>3. last'[v].validDIR = D /\ last'[v].validRound = q
              BY <4>1, <5>1
        <5> QED BY <5>2, <5>3 DEF PLC, VerifiedBy
      <4>2. CASE /\ Conflicts(last[v], d)
                 /\ last'[v].validDIR = d.proposal /\ last'[v].validRound = d.unlockRound
        <5>1. PLC(d.proposal, d.unlockRound)
              BY <4>2
        <5>2. PLC(d.proposal, d.unlockRound)'
              BY <1>1, <5>1 DEF PLC, VerifiedBy
        <5> QED BY <4>2, <5>2 DEF PLC, VerifiedBy
      <4> QED BY <1>2, <4>1, <4>2
    <3> QED BY <2>3, <3>1, <3>2, <3>3
  <2>4. CASE w # v
    <3>1. last'[w] = last[w]
          BY <1>2, <2>4
    <3>2. PICK rec : rec = last[w]
          OBVIOUS
    <3>3. /\ rec.lockedRound # NoRound => PLC(rec.lockedDIR, rec.lockedRound)'
          /\ rec.validRound # NoRound => PLC(rec.validDIR, rec.validRound)'
          BY <1>1, <2>1, <3>2
    <3> QED BY <2>1, <3>1, <3>2, <3>3 DEF PLC, VerifiedBy
  <2> QED BY <2>3, <2>4
<1> QED BY <1>2, <1>3, <1>4, <1>5 DEF JournalInv

\* A COMMIT vote stays behind a journal that only grows.
LEMMA CommitBehind ==
    ASSUME IInv, NEW e \in committed, JournalInv',
           \A w \in Correct :
              last[w].height = 1 =>
                 /\ last'[w].height = 1 /\ last[w].round <= last'[w].round
                 /\ last[w].round = last'[w].round =>
                       StepRank(last[w].step) <= StepRank(last'[w].step)
    PROVE  /\ last'[e[1]].height = 1 /\ e[2] <= last'[e[1]].round
           /\ e[2] = last'[e[1]].round => StepRank(last'[e[1]].step) >= 30
<1> DEFINE w == e[1]
<1>1. /\ w \in Correct /\ e[2] \in Rounds /\ last[w].height = 1 /\ e[2] <= last[w].round
      /\ e[2] = last[w].round => StepRank(last[w].step) >= 30
      BY DEF IInv, TypeOK, VotesBehindJournal
<1>2. /\ last'[w].height = 1 /\ last[w].round <= last'[w].round
      /\ last[w].round = last'[w].round =>
            StepRank(last[w].step) <= StepRank(last'[w].step)
      BY <1>1
<1>3. /\ last[w] \in RecordType /\ last'[w] \in RecordType
      BY <1>1 DEF IInv, TypeOK, JournalInv
<1>4. /\ last[w].round \in Nat /\ last'[w].round \in Nat /\ e[2] \in Nat
      /\ StepRank(last[w].step) \in Nat /\ StepRank(last'[w].step) \in Nat
      BY <1>1, <1>3, RankIsNat, BoundsAssumption DEF RecordType, Rounds
<1> QED BY <1>1, <1>2, <1>4

\* Certificates of the state machine and of COMMIT votes stay behind them.
LEMMA CertifiedStays ==
    ASSUME IInv, JournalInv', verified \subseteq verified', committed' = committed,
           \A w \in Correct : /\ state'[w].validRound = state[w].validRound
                              /\ state'[w].validDIR = state[w].validDIR
    PROVE  Certified'
<1>1. ASSUME NEW w \in Correct
      PROVE  (state[w].validRound # NoRound => PLC(state[w].validDIR, state[w].validRound))'
  <2>1. PICK D, r : D = state[w].validDIR /\ r = state[w].validRound
        OBVIOUS
  <2>2. r # NoRound => PLC(D, r)'
        BY <2>1, CertificatesStay DEF IInv, Certified
  <2>3. state'[w].validDIR = D /\ state'[w].validRound = r
        BY <2>1
  <2> QED BY <2>2, <2>3 DEF PLC, VerifiedBy
<1>2. ASSUME NEW c \in committed'
      PROVE  PLC(c[3], c[2])'
      BY CertificatesStay DEF IInv, Certified
<1> QED BY <1>1, <1>2 DEF Certified, JournalInv

\* A VERIFY vote: it is the first of its round, and a vote against an earlier
\* COMMIT of the validator has a lock certificate in between.
LEMMA CastVerifyStep ==
    ASSUME IInv, NEW v \in Correct, NEW c \in Choices, CastVerify(v, c)
    PROVE  IInv'
<1> DEFINE r == state[v].round
           plain == Decision(v, "VERIFY", c)
           d == IF Conflicts(last[v], plain)
                THEN [plain EXCEPT !.unlockRound = state[v].validRound] ELSE plain
<1>1. /\ state[v] \in HeightState /\ r \in Rounds /\ r \in Nat
      /\ last[v] \in RecordType /\ state[v].validRound \in OptRound
      BY BoundsAssumption DEF IInv, TypeOK, HeightState, Rounds
<1>2. /\ Journal(v, d) /\ verified' = verified \cup {<<v, r, c>>}
      /\ UNCHANGED <<state, committed, changed>>
      /\ c # NIL => state[v].phase = "VERIFY" /\ c = state[v].proposal
      BY NamesAssumption DEF CastVerify
<1>3. /\ d.height = 1 /\ d.round = r /\ d.step = "VERIFY" /\ d.proposal = c
      /\ d.unlockRound \in OptRound
      /\ Conflicts(last[v], plain) => d.unlockRound = state[v].validRound
      /\ Conflicts(last[v], d) <=> Conflicts(last[v], plain)
      BY <1>1 DEF Decision, Conflicts, OptRound, NoRound
<1>4. Shaped(d)
  <2>1. plain \in DecisionType
        BY <1>1 DEF Decision, DecisionType, Choices, OptRound, NoRound, OptDigest, Steps,
           VoteSteps
  <2>2. d \in DecisionType
        BY <1>1, <2>1 DEF DecisionType
  <2> QED BY <1>3, <2>2, NamesAssumption DEF Shaped, Choices
<1> HIDE DEF d, r, plain
<1>5. /\ last' \in [Correct -> RecordType] /\ JournalInBounds'
      /\ \A w \in Correct \ {v} : last'[w] = last[w]
      /\ last'[v].height = 1 /\ last'[v].round = r /\ last'[v].step = "VERIFY"
      /\ last[v].round <= r
      /\ last[v].height = 1 /\ last[v].round = r => 10 > StepRank(last[v].step)
      /\ Conflicts(last[v], d) =>
            last[v].lockedRound < d.unlockRound /\ d.unlockRound < r
      BY <1>1, <1>2, <1>3, <1>4, JournalStep, StepRanks
\* Every earlier vote of v is of an earlier round.
<1>6. last[v].height = 1 => last[v].round < r
  <2>a. last[v].round \in Nat /\ r \in Nat
        BY <1>1 DEF RecordType
  <2>b. last[v].round <= r
        BY <1>5
  <2> SUFFICES ASSUME last[v].height = 1, last[v].round = r PROVE FALSE
      BY <2>a, <2>b
  <2>1. last[v].step \in Steps
        BY <1>1 DEF IInv, JournalInBounds, RecordType
  <2>2. StepRank(last[v].step) >= 10
        BY <2>1, StepRanks DEF Steps, VoteSteps
  <2>3. StepRank(last[v].step) \in Nat
        BY <2>1, RankIsNat
  <2> QED BY <1>5, <2>2, <2>3
\* A conflicting vote goes to a DIR with a lock certificate.
<1>7. Conflicts(last[v], d) =>
         /\ c \in DIRs /\ d.unlockRound # NoRound /\ PLC(c, d.unlockRound)
         /\ last[v].lockedRound < d.unlockRound /\ d.unlockRound < r
         /\ d.unlockRound \in Rounds
  <2> SUFFICES ASSUME Conflicts(last[v], d)
               PROVE  /\ c \in DIRs /\ d.unlockRound # NoRound /\ PLC(c, d.unlockRound)
                      /\ d.unlockRound \in Rounds
      BY <1>5
  <2>1. /\ c # NIL /\ last[v].lockedDIR # NONE /\ c # last[v].lockedDIR
        BY <1>3 DEF Conflicts
  <2>2. state[v].validDIR = c /\ c \in DIRs
        BY <1>2, <2>1 DEF IInv, ProposalJustified, LockIsJournaled, Choices
  <2>3. last[v].lockedRound \in OptRound
        BY <1>1 DEF RecordType
  <2>4. d.unlockRound \in Nat /\ d.unlockRound < r
        BY <1>3, <1>5, <2>3 DEF OptRound, NoRound
  <2>5. d.unlockRound # NoRound /\ d.unlockRound \in Rounds
        BY <1>1, <2>4, BoundsAssumption DEF NoRound, Rounds
  <2> QED BY <1>3, <2>2, <2>5 DEF IInv, Certified
<1>8. /\ JournalInv'
      /\ \A w \in Correct : /\ last'[w].lockedDIR = last[w].lockedDIR
                            /\ last'[w].lockedRound = last[w].lockedRound
      /\ \A w \in Correct :
            last[w].height = 1 =>
               /\ last'[w].height = 1 /\ last[w].round <= last'[w].round
               /\ last[w].round = last'[w].round =>
                     StepRank(last[w].step) <= StepRank(last'[w].step)
      BY <1>1, <1>2, <1>3, <1>4, <1>7, RecordStep
<1>9. TypeOK'
      BY <1>1, <1>2, <1>5 DEF IInv, TypeOK
<1>10. LockIsJournaled' /\ ProposalJustified'
      BY <1>2, <1>8 DEF IInv, LockIsJournaled, ProposalJustified
<1>11. /\ verified \subseteq Correct \X Rounds \X Choices
       /\ committed \subseteq Correct \X Rounds \X DIRs
      BY DEF IInv, TypeOK
<1>12. VotesBehindJournal'
  <2>1. ASSUME NEW e \in verified'
        PROVE  last'[e[1]].height = 1 /\ e[2] <= last'[e[1]].round
    <3>1. CASE e = <<v, r, c>>
          BY <1>1, <1>5, <3>1
    <3>2. CASE e \in verified
      <4>1. /\ e[1] \in Correct /\ e[2] \in Rounds
            /\ last[e[1]].height = 1 /\ e[2] <= last[e[1]].round
            BY <1>11, <3>2 DEF IInv, VotesBehindJournal
      <4>2. /\ last'[e[1]].height = 1 /\ last[e[1]].round <= last'[e[1]].round
            /\ last[e[1]].round \in Rounds /\ last'[e[1]].round \in Rounds
            BY <1>5, <1>8, <4>1 DEF IInv, JournalInBounds
      <4> QED BY <4>1, <4>2, BoundsAssumption DEF Rounds
    <3> QED BY <1>2, <3>1, <3>2
  <2>2. ASSUME NEW e \in committed
        PROVE  /\ last'[e[1]].height = 1 /\ e[2] <= last'[e[1]].round
               /\ e[2] = last'[e[1]].round => StepRank(last'[e[1]].step) >= 30
        BY <1>8, <1>11, <2>2, CommitBehind
  <2> QED BY <1>2, <2>1, <2>2 DEF VotesBehindJournal
<1>13. OneVerifyPerRound'
  <2>1. ASSUME NEW e \in verified, e[1] = v, e[2] = r PROVE FALSE
    <3>1. last[v].height = 1 /\ e[2] <= last[v].round /\ last[v].round \in Nat
          BY <1>1, <2>1 DEF IInv, VotesBehindJournal, RecordType
    <3> QED BY <1>1, <1>6, <2>1, <3>1
  <2> QED BY <1>2, <2>1 DEF IInv, OneVerifyPerRound
<1>14. LockAboveCommits'
      BY <1>2, <1>8, <1>11 DEF IInv, LockAboveCommits, JournalInv
<1>15. \A D, p : PLC(D, p) => PLC(D, p)'
      BY <1>2, CertificatesStay
<1>16. Certified'
      BY <1>2, <1>8, CertifiedStays
<1>17. UnlockJustified'
  <2> SUFFICES ASSUME NEW e \in committed, NEW g \in verified', e[1] = g[1], e[2] < g[2],
                      g[3] \notin {e[3], NIL}
               PROVE  \E F \in DIRs \ {e[3]}, p \in Rounds :
                         e[2] < p /\ p < g[2] /\ PLC(F, p)'
      BY <1>2 DEF UnlockJustified
  <2>1. CASE g \in verified
    <3>1. PICK F \in DIRs \ {e[3]}, p \in Rounds : e[2] < p /\ p < g[2] /\ PLC(F, p)
          BY <2>1 DEF IInv, UnlockJustified
    <3> QED BY <1>15, <3>1
  <2>2. CASE g = <<v, r, c>>
    <3>1. /\ e[1] = v /\ e[2] < r /\ c # e[3] /\ c # NIL /\ c \in DIRs
          /\ e[2] \in Nat /\ e[3] \in DIRs
          BY <1>11, <2>2, BoundsAssumption DEF Choices, Rounds
    <3>2. /\ e[2] <= last[v].lockedRound
          /\ e[2] = last[v].lockedRound => e[3] = last[v].lockedDIR
          /\ last[v].lockedRound <= last[v].round
          /\ last[v].lockedDIR = NONE <=> last[v].lockedRound = NoRound
          /\ last[v].height = 1
          BY <3>1 DEF IInv, LockAboveCommits, VotesBehindJournal
    <3>3. /\ last[v].lockedRound \in Nat /\ last[v].lockedDIR \in DIRs
          /\ last[v].round \in Nat
          BY <1>1, <3>1, <3>2 DEF RecordType, OptRound, OptDIR, NoRound
    <3>4. CASE c = last[v].lockedDIR
      <4>1. e[2] < last[v].lockedRound /\ last[v].lockedRound < r
            BY <1>1, <1>6, <3>1, <3>2, <3>3, <3>4
      <4>2. PLC(c, last[v].lockedRound) /\ last[v].lockedRound \in Rounds
            BY <1>1, <3>3, <3>4, <4>1, BoundsAssumption DEF IInv, Certified, NoRound, Rounds
      <4> QED BY <1>15, <2>2, <3>1, <4>1, <4>2
    <3>5. CASE c # last[v].lockedDIR
      <4>1. Conflicts(last[v], d)
            BY <1>3, <3>1, <3>3, <3>5, NamesAssumption DEF Conflicts
      <4>2. d.unlockRound \in Nat
            BY <1>7, <4>1, BoundsAssumption DEF Rounds
      <4>3. e[2] < d.unlockRound
            BY <1>7, <3>1, <3>2, <3>3, <4>1, <4>2
      <4> QED BY <1>7, <1>15, <2>2, <3>1, <4>1, <4>3
    <3> QED BY <3>4, <3>5
  <2> QED BY <1>2, <2>1, <2>2
<1> QED BY <1>5, <1>9, <1>10, <1>12, <1>13, <1>14, <1>16, <1>17 DEF IInv

\* A record written for no VERIFY vote and no COMMIT vote: ROUND_CHANGE and
\* FINALIZE.
LEMMA RecordWithoutVote ==
    ASSUME IInv, NEW v \in Correct, NEW d, Shaped(d), Journal(v, d),
           d.height = 1, d.round \in Rounds, d.step \in {"ROUND_CHANGE", "FINALIZE"},
           d.step = "ROUND_CHANGE" => d.newRound \in Rounds /\ d.newRound > d.round,
           UNCHANGED <<verified, committed>>, TypeOK', ProposalJustified',
           \A w \in Correct : /\ state'[w].lockedDIR = state[w].lockedDIR
                              /\ state'[w].lockedRound = state[w].lockedRound
                              /\ state'[w].validDIR = state[w].validDIR
                              /\ state'[w].validRound = state[w].validRound
    PROVE  IInv'
<1>1. /\ JournalInv'
      /\ \A w \in Correct : /\ last'[w].lockedDIR = last[w].lockedDIR
                            /\ last'[w].lockedRound = last[w].lockedRound
      /\ \A w \in Correct :
            last[w].height = 1 =>
               /\ last'[w].height = 1 /\ last[w].round <= last'[w].round
               /\ last[w].round = last'[w].round =>
                     StepRank(last[w].step) <= StepRank(last'[w].step)
      BY RecordStep DEF Conflicts
<1>2. /\ verified \subseteq Correct \X Rounds \X Choices
      /\ committed \subseteq Correct \X Rounds \X DIRs
      BY DEF IInv, TypeOK
<1>3. JournalInBounds'
      BY <1>1 DEF JournalInv
<1>4. LockIsJournaled'
      BY <1>1 DEF IInv, LockIsJournaled
<1>5. VotesBehindJournal'
  <2>1. ASSUME NEW e \in verified
        PROVE  last'[e[1]].height = 1 /\ e[2] <= last'[e[1]].round
    <3>1. /\ e[1] \in Correct /\ e[2] \in Rounds
          /\ last[e[1]].height = 1 /\ e[2] <= last[e[1]].round
          BY <1>2 DEF IInv, VotesBehindJournal
    <3>2. /\ last'[e[1]].height = 1 /\ last[e[1]].round <= last'[e[1]].round
          /\ last[e[1]].round \in Rounds /\ last'[e[1]].round \in Rounds
          BY <1>1, <1>3, <3>1 DEF IInv, JournalInBounds
    <3> QED BY <3>1, <3>2, BoundsAssumption DEF Rounds
  <2>2. ASSUME NEW e \in committed
        PROVE  /\ last'[e[1]].height = 1 /\ e[2] <= last'[e[1]].round
               /\ e[2] = last'[e[1]].round => StepRank(last'[e[1]].step) >= 30
        BY <1>1, CommitBehind
  <2> QED BY <2>1, <2>2 DEF VotesBehindJournal
<1>6. OneVerifyPerRound'
      BY DEF IInv, OneVerifyPerRound
<1>7. LockAboveCommits'
      BY <1>1, <1>2 DEF IInv, LockAboveCommits, JournalInv
<1>8. Certified'
      BY <1>1, CertifiedStays
<1>9. UnlockJustified'
      BY DEF IInv, UnlockJustified, PLC, VerifiedBy
<1> QED BY <1>3, <1>4, <1>5, <1>6, <1>7, <1>8, <1>9 DEF IInv

\* A ROUND_CHANGE vote is only a record, and its new round is ahead.
LEMMA CastRoundChangeStep ==
    ASSUME IInv, NEW v \in Correct, NEW r \in Rounds, CastRoundChange(v, r)
    PROVE  IInv'
<1> DEFINE d == [Decision(v, "ROUND_CHANGE", NONE) EXCEPT !.newRound = r]
<1>1. /\ state[v] \in HeightState /\ state[v].round \in Rounds
      /\ state[v].round \in Nat /\ r \in Nat
      BY BoundsAssumption DEF IInv, TypeOK, HeightState, Rounds
<1>2. /\ Journal(v, d) /\ state[v].round < r
      /\ UNCHANGED <<state, verified, committed>> /\ changed' = changed \cup {<<v, r>>}
      BY DEF CastRoundChange
<1>3. /\ d.height = 1 /\ d.round = state[v].round /\ d.step = "ROUND_CHANGE"
      /\ d.newRound = r /\ d.proposal = NONE
      BY DEF Decision
<1>4. Shaped(d)
  <2>1. d \in DecisionType
        BY <1>1 DEF Decision, DecisionType, OptRound, NoRound, OptDigest, Steps, VoteSteps
  <2> QED BY <1>3, <2>1 DEF Shaped
<1> HIDE DEF d
<1>5. last' \in [Correct -> RecordType]
      BY <1>1, <1>2, <1>3, <1>4, JournalStep
<1>6. TypeOK'
      BY <1>2, <1>5 DEF IInv, TypeOK
<1>7. ProposalJustified'
      BY <1>2 DEF IInv, ProposalJustified
<1> QED BY <1>1, <1>2, <1>3, <1>4, <1>6, <1>7, RecordWithoutVote

\* A FINALIZE is only a record and the end of the height's state machine.
LEMMA FinalizeStep ==
    ASSUME IInv, NEW v \in Correct, Finalize(v)
    PROVE  IInv'
<1> DEFINE s == [state[v] EXCEPT !.phase = "FINALIZED"]
           D == state[v].proposal
           d == [Decision(v, "FINALIZE", D) EXCEPT !.finalized = D]
<1>1. /\ state \in [Correct -> HeightState] /\ state[v] \in HeightState
      /\ state[v].round \in Rounds /\ state[v].round \in Nat
      BY BoundsAssumption DEF IInv, TypeOK, HeightState, Rounds
<1>2. /\ Journal(v, d) /\ state' = [state EXCEPT ![v] = s]
      /\ state[v].phase = "FINALIZE" /\ UNCHANGED <<verified, committed, changed>>
      BY DEF Finalize, Update
<1>3. D \in DIRs
      BY <1>2 DEF IInv, ProposalJustified
<1>4. /\ d.height = 1 /\ d.round = state[v].round /\ d.step = "FINALIZE"
      BY DEF Decision
<1>5. Shaped(d)
  <2>1. d \in DecisionType
        BY <1>1, <1>3, BoundsAssumption
        DEF Decision, DecisionType, OptRound, NoRound, OptDigest, Steps
  <2> QED BY <1>4, <2>1 DEF Shaped
<1> HIDE DEF d, D
<1>6. last' \in [Correct -> RecordType]
      BY <1>1, <1>2, <1>4, <1>5, JournalStep
<1>7. s \in HeightState
      BY <1>1 DEF HeightState, Phase
<1>8. TypeOK'
      BY <1>1, <1>2, <1>6, <1>7 DEF IInv, TypeOK
<1>9. \A w \in Correct : /\ state'[w].lockedDIR = state[w].lockedDIR
                         /\ state'[w].lockedRound = state[w].lockedRound
                         /\ state'[w].validDIR = state[w].validDIR
                         /\ state'[w].validRound = state[w].validRound
                         /\ state'[w].proposal = state[w].proposal
                         /\ state'[w].phase = IF w = v THEN "FINALIZED" ELSE state[w].phase
      BY <1>1, <1>2 DEF HeightState
<1>10. ProposalJustified'
      BY <1>2, <1>9 DEF IInv, ProposalJustified
<1> QED BY <1>1, <1>2, <1>4, <1>5, <1>8, <1>9, <1>10, RecordWithoutVote

\* A COMMIT vote: it is for the lock of its round, which has a certificate, and
\* no VERIFY vote is ahead of it.
LEMMA CastCommitStep ==
    ASSUME IInv, NEW v \in Correct, CastCommit(v)
    PROVE  IInv'
<1> DEFINE r == state[v].round
           D == state[v].lockedDIR
           d == Decision(v, "COMMIT", D)
<1>1. /\ state[v] \in HeightState /\ r \in Rounds /\ r \in Nat /\ D \in OptDIR
      /\ last[v] \in RecordType /\ last[v].round \in Nat
      /\ D = last[v].lockedDIR
      BY BoundsAssumption DEF IInv, TypeOK, HeightState, Rounds, LockIsJournaled, RecordType
<1>2. /\ Journal(v, d) /\ committed' = committed \cup {<<v, r, D>>}
      /\ UNCHANGED <<state, verified, changed>>
      BY DEF CastCommit
<1>3. d.height = 1 /\ d.round = r /\ d.step = "COMMIT" /\ d.proposal = D
      BY DEF Decision
<1>4. Shaped(d)
  <2>1. d \in DecisionType
        BY <1>1 DEF Decision, DecisionType, OptRound, NoRound, OptDigest, Steps, VoteSteps, OptDIR
  <2> QED BY <1>3, <2>1 DEF Shaped
<1> HIDE DEF d, r, D
<1>5. /\ last' \in [Correct -> RecordType] /\ JournalInBounds'
      /\ last'[v].height = 1 /\ last'[v].round = r /\ last'[v].step = "COMMIT"
      /\ last[v].round <= r /\ last[v].height = 1
      /\ last[v].lockedRound = r /\ D \in DIRs
  <2>1. /\ last' \in [Correct -> RecordType] /\ JournalInBounds'
        /\ last'[v].height = 1 /\ last'[v].round = r /\ last'[v].step = "COMMIT"
        /\ last[v].round <= r /\ last[v].height = 1
        /\ last[v].lockedRound = r /\ last[v].lockedDIR # NONE
        BY <1>1, <1>2, <1>3, <1>4, JournalStep
  <2> QED BY <1>1, <2>1 DEF OptDIR
<1>6. /\ JournalInv'
      /\ \A w \in Correct : /\ last'[w].lockedDIR = last[w].lockedDIR
                            /\ last'[w].lockedRound = last[w].lockedRound
      /\ \A w \in Correct :
            last[w].height = 1 =>
               /\ last'[w].height = 1 /\ last[w].round <= last'[w].round
               /\ last[w].round = last'[w].round =>
                     StepRank(last[w].step) <= StepRank(last'[w].step)
      BY <1>1, <1>2, <1>3, <1>4, RecordStep DEF Conflicts
<1>7. /\ verified \subseteq Correct \X Rounds \X Choices
      /\ committed \subseteq Correct \X Rounds \X DIRs
      BY DEF IInv, TypeOK
<1>8. TypeOK'
      BY <1>1, <1>2, <1>5 DEF IInv, TypeOK
<1>9. LockIsJournaled' /\ ProposalJustified'
      BY <1>2, <1>6 DEF IInv, LockIsJournaled, ProposalJustified
<1>10. VotesBehindJournal'
  <2>1. ASSUME NEW e \in verified
        PROVE  last'[e[1]].height = 1 /\ e[2] <= last'[e[1]].round
    <3>1. /\ e[1] \in Correct /\ e[2] \in Rounds
          /\ last[e[1]].height = 1 /\ e[2] <= last[e[1]].round
          BY <1>7 DEF IInv, VotesBehindJournal
    <3>2. /\ last'[e[1]].height = 1 /\ last[e[1]].round <= last'[e[1]].round
          /\ last[e[1]].round \in Rounds /\ last'[e[1]].round \in Rounds
          BY <1>5, <1>6, <3>1 DEF IInv, JournalInBounds
    <3> QED BY <3>1, <3>2, BoundsAssumption DEF Rounds
  <2>2. ASSUME NEW e \in committed'
        PROVE  /\ last'[e[1]].height = 1 /\ e[2] <= last'[e[1]].round
               /\ e[2] = last'[e[1]].round => StepRank(last'[e[1]].step) >= 30
    <3>1. CASE e \in committed
          BY <1>6, <3>1, CommitBehind
    <3>2. CASE e = <<v, r, D>>
          BY <1>1, <1>5, <3>2, StepRanks
    <3> QED BY <1>2, <3>1, <3>2
  <2> QED BY <1>2, <2>1, <2>2 DEF VotesBehindJournal
<1>11. OneVerifyPerRound'
      BY <1>2 DEF IInv, OneVerifyPerRound
<1>12. LockAboveCommits'
      BY <1>1, <1>2, <1>5, <1>6, <1>7 DEF IInv, LockAboveCommits, JournalInv
<1>13. Certified'
  <2>2. PLC(D, r)
        BY <1>1, <1>5 DEF IInv, Certified, NoRound
  <2>3. ASSUME NEW e \in committed'
        PROVE  PLC(e[3], e[2])'
    <3>1. PLC(e[3], e[2])
          BY <1>2, <2>2 DEF IInv, Certified
    <3> QED BY <1>2, <3>1, CertificatesStay
  <2>4. ASSUME NEW w \in Correct
        PROVE  (state[w].validRound # NoRound => PLC(state[w].validDIR, state[w].validRound))'
        BY <1>2 DEF IInv, Certified, PLC, VerifiedBy
  <2> QED BY <1>6, <2>3, <2>4 DEF Certified, JournalInv
<1>14. UnlockJustified'
  <2> SUFFICES ASSUME NEW e \in committed', NEW g \in verified, e[1] = g[1], e[2] < g[2],
                      g[3] \notin {e[3], NIL}
               PROVE  \E F \in DIRs \ {e[3]}, p \in Rounds :
                         e[2] < p /\ p < g[2] /\ PLC(F, p)'
      BY <1>2 DEF UnlockJustified
  <2>1. CASE e \in committed
    <3>1. PICK F \in DIRs \ {e[3]}, p \in Rounds : e[2] < p /\ p < g[2] /\ PLC(F, p)
          BY <2>1 DEF IInv, UnlockJustified
    <3> QED BY <1>2, <3>1, CertificatesStay
  <2>2. CASE e = <<v, r, D>>
    <3>1. /\ g[2] <= last[v].round /\ g[2] \in Nat
          BY <1>7, <2>2, BoundsAssumption DEF IInv, VotesBehindJournal, Rounds
    <3> QED BY <1>1, <1>5, <2>2, <3>1
  <2> QED BY <1>2, <2>1, <2>2
<1> QED BY <1>5, <1>8, <1>9, <1>10, <1>11, <1>12, <1>13, <1>14 DEF IInv

\* The lock moves to a DIR with a certificate of this round, past every COMMIT.
LEMMA LockStep ==
    ASSUME IInv, NEW v \in Correct, Lock(v)
    PROVE  IInv'
<1> DEFINE r == state[v].round
           D == state[v].proposal
           d == Decision(v, "LOCK", D)
           s == [state[v] EXCEPT !.phase = "LOCK", !.lockedDIR = D, !.lockedRound = r,
                                 !.validDIR = D, !.validRound = r]
<1>1. /\ state \in [Correct -> HeightState] /\ last \in [Correct -> RecordType]
      /\ state[v] \in HeightState /\ last[v] \in RecordType
      /\ r \in Rounds /\ r \in Nat /\ last[v].round \in Nat
      BY BoundsAssumption DEF IInv, TypeOK, HeightState, Rounds, RecordType
<1>2. /\ Journal(v, d) /\ PLC(D, r) /\ state' = [state EXCEPT ![v] = s]
      /\ state[v].phase = "VERIFY" /\ UNCHANGED <<verified, committed, changed>>
      BY DEF Lock, Update
<1>3. D \in DIRs
      BY <1>2 DEF IInv, ProposalJustified
<1>4. d.height = 1 /\ d.round = r /\ d.step = "LOCK" /\ d.proposal = D
      BY DEF Decision
<1>5. Shaped(d)
  <2>1. d \in DecisionType
        BY <1>1, <1>3 DEF Decision, DecisionType, OptRound, NoRound, OptDigest, Steps
  <2> QED BY <1>3, <1>4, <2>1 DEF Shaped
<1>6. s \in HeightState
      BY <1>1, <1>3 DEF HeightState, Phase, OptDIR, OptRound
<1>7. /\ state'[v] = s /\ \A w \in Correct \ {v} : state'[w] = state[w]
      BY <1>1, <1>2
<1>8. /\ s.phase = "LOCK" /\ s.proposal = D /\ s.lockedDIR = D /\ s.lockedRound = r
      /\ s.validDIR = D /\ s.validRound = r
      BY <1>1 DEF HeightState
<1> HIDE DEF d, r, D, s
<1>9. /\ last' \in [Correct -> RecordType] /\ JournalInBounds'
      /\ \A w \in Correct \ {v} : last'[w] = last[w]
      /\ last'[v].height = 1 /\ last'[v].round = r /\ last'[v].step = "LOCK"
      /\ last[v].round <= r /\ last[v].height = 1
      /\ last[v].round = r => 20 > StepRank(last[v].step)
      /\ last'[v].lockedDIR = D /\ last'[v].lockedRound = r
      /\ last'[v].validDIR = D /\ last'[v].validRound = r
      BY <1>1, <1>2, <1>4, <1>5, JournalStep, StepRanks
<1>10. /\ verified \subseteq Correct \X Rounds \X Choices
       /\ committed \subseteq Correct \X Rounds \X DIRs
      BY DEF IInv, TypeOK
<1>11. ASSUME NEW e \in committed, e[1] = v
       PROVE  e[2] < r
  <2>1. /\ e[2] <= last[v].round /\ e[2] \in Nat
        /\ e[2] = last[v].round => StepRank(last[v].step) >= 30
        BY <1>10, <1>11, BoundsAssumption DEF IInv, VotesBehindJournal, Rounds
  <2>2. StepRank(last[v].step) \in Nat
        BY <1>1, RankIsNat DEF RecordType
  <2> QED BY <1>1, <1>9, <2>1, <2>2
<1>12. TypeOK'
      BY <1>1, <1>2, <1>6, <1>9 DEF IInv, TypeOK
<1>13. LockIsJournaled' /\ ProposalJustified'
  <2>1. ASSUME NEW w \in Correct
        PROVE  /\ state'[w].lockedDIR = last'[w].lockedDIR
               /\ state'[w].lockedRound = last'[w].lockedRound
        BY <1>7, <1>8, <1>9 DEF IInv, LockIsJournaled
  <2>2. ProposalJustified'
        BY <1>3, <1>7, <1>8 DEF IInv, ProposalJustified
  <2> QED BY <2>1, <2>2 DEF LockIsJournaled
<1>14. VotesBehindJournal'
  <2>1. ASSUME NEW e \in verified
        PROVE  last'[e[1]].height = 1 /\ e[2] <= last'[e[1]].round
    <3>1. /\ e[1] \in Correct /\ e[2] \in Nat
          /\ last[e[1]].height = 1 /\ e[2] <= last[e[1]].round
          BY <1>10, BoundsAssumption DEF IInv, VotesBehindJournal, Rounds
    <3> QED BY <1>1, <1>9, <3>1
  <2>2. ASSUME NEW e \in committed
        PROVE  /\ last'[e[1]].height = 1 /\ e[2] <= last'[e[1]].round
               /\ e[2] = last'[e[1]].round => StepRank(last'[e[1]].step) >= 30
    <3>1. /\ e[1] \in Correct /\ e[2] \in Nat
          /\ last[e[1]].height = 1 /\ e[2] <= last[e[1]].round
          /\ e[2] = last[e[1]].round => StepRank(last[e[1]].step) >= 30
          BY <1>10, BoundsAssumption DEF IInv, VotesBehindJournal, Rounds
    <3> QED BY <1>1, <1>9, <1>11, <3>1
  <2> QED BY <1>2, <2>1, <2>2 DEF VotesBehindJournal
<1>15. OneVerifyPerRound'
      BY <1>2 DEF IInv, OneVerifyPerRound
<1>16. LockAboveCommits'
  <2>1. ASSUME NEW w \in Correct
        PROVE  /\ last'[w].lockedRound <= last'[w].round
               /\ last'[w].lockedDIR = NONE <=> last'[w].lockedRound = NoRound
        BY <1>1, <1>3, <1>9, NamesAssumption DEF IInv, LockAboveCommits, NoRound
  <2>2. ASSUME NEW e \in committed
        PROVE  /\ e[2] <= last'[e[1]].lockedRound
               /\ e[2] = last'[e[1]].lockedRound => e[3] = last'[e[1]].lockedDIR
    <3>1. e[1] \in Correct /\ e[2] \in Nat
          BY <1>10, BoundsAssumption DEF Rounds
    <3> QED BY <1>1, <1>9, <1>11, <3>1 DEF IInv, LockAboveCommits
  <2> QED BY <1>2, <2>1, <2>2 DEF LockAboveCommits
<1>17. Certified'
  <2>1. ASSUME NEW w \in Correct
        PROVE  /\ (last[w].lockedRound # NoRound => PLC(last[w].lockedDIR, last[w].lockedRound))'
               /\ (last[w].validRound # NoRound => PLC(last[w].validDIR, last[w].validRound))'
               /\ (state[w].validRound # NoRound => PLC(state[w].validDIR, state[w].validRound))'
    <3>1. CASE w = v
      <4>1. PICK E, q : E = D /\ q = r
            OBVIOUS
      <4>2. PLC(E, q)'
            BY <1>2, <4>1, CertificatesStay
      <4>3. /\ last'[w].lockedDIR = E /\ last'[w].lockedRound = q
            /\ last'[w].validDIR = E /\ last'[w].validRound = q
            /\ state'[w].validDIR = E /\ state'[w].validRound = q
            BY <1>7, <1>8, <1>9, <3>1, <4>1
      <4>4. (last[w].lockedRound # NoRound => PLC(last[w].lockedDIR, last[w].lockedRound))'
            BY <4>2, <4>3 DEF PLC, VerifiedBy
      <4>5. (last[w].validRound # NoRound => PLC(last[w].validDIR, last[w].validRound))'
            BY <4>2, <4>3 DEF PLC, VerifiedBy
      <4>6. (state[w].validRound # NoRound => PLC(state[w].validDIR, state[w].validRound))'
            BY <4>2, <4>3 DEF PLC, VerifiedBy
      <4> QED BY <4>4, <4>5, <4>6
    <3>2. CASE w # v
      <4>1. last'[w] = last[w] /\ state'[w] = state[w] /\ verified' = verified
            BY <1>2, <1>7, <1>9, <3>2
      <4>2. /\ last[w].lockedRound # NoRound => PLC(last[w].lockedDIR, last[w].lockedRound)
            /\ last[w].validRound # NoRound => PLC(last[w].validDIR, last[w].validRound)
            /\ state[w].validRound # NoRound => PLC(state[w].validDIR, state[w].validRound)
            BY DEF IInv, Certified
      <4> QED BY <4>1, <4>2 DEF PLC, VerifiedBy
    <3> QED BY <3>1, <3>2
  <2>2. ASSUME NEW e \in committed'
        PROVE  PLC(e[3], e[2])'
        BY <1>2, CertificatesStay DEF IInv, Certified
  <2> QED BY <2>1, <2>2 DEF Certified
<1>18. UnlockJustified'
      BY <1>2 DEF IInv, UnlockJustified, PLC, VerifiedBy
<1> QED BY <1>9, <1>12, <1>13, <1>14, <1>15, <1>16, <1>17, <1>18 DEF IInv

\* Every step of every validator keeps the inductive invariant.
LEMMA NextInv == IInv /\ [Next]_vars => IInv'
<1> SUFFICES ASSUME IInv, [Next]_vars PROVE IInv'
    OBVIOUS
<1>1. CASE UNCHANGED vars
  <2> USE <1>1 DEF vars
  <2>1. TypeOK' /\ JournalInBounds' /\ LockIsJournaled' /\ ProposalJustified'
        BY DEF IInv, TypeOK, JournalInBounds, LockIsJournaled, ProposalJustified
  <2>2. VotesBehindJournal' /\ OneVerifyPerRound' /\ LockAboveCommits'
        BY DEF IInv, VotesBehindJournal, OneVerifyPerRound, LockAboveCommits
  <2>3. Certified'
        BY DEF IInv, Certified, PLC, VerifiedBy
  <2>4. UnlockJustified'
        BY DEF IInv, UnlockJustified, PLC, VerifiedBy
  <2> QED BY <2>1, <2>2, <2>3, <2>4 DEF IInv
<1>2. ASSUME NEW v \in Correct,
             \/ \E D \in DIRs : AcceptProposal(v, D)
             \/ \E D \in DIRs, r \in Rounds : AcceptProposalWithHigherRoundPLC(v, D, r)
             \/ BeginCommit(v) \/ RecordCommitQuorum(v)
             \/ \E r \in Rounds : EnterHigherRound(v, r)
             \/ Restart(v)
      PROVE  IInv'
      BY <1>2, StateMachineSteps
<1>3. ASSUME NEW v \in Correct, NEW c \in Choices, CastVerify(v, c) PROVE IInv'
      BY <1>3, CastVerifyStep
<1>4. ASSUME NEW v \in Correct, Lock(v) PROVE IInv'
      BY <1>4, LockStep
<1>5. ASSUME NEW v \in Correct, CastCommit(v) PROVE IInv'
      BY <1>5, CastCommitStep
<1>6. ASSUME NEW v \in Correct, Finalize(v) PROVE IInv'
      BY <1>6, FinalizeStep
<1>7. ASSUME NEW v \in Correct, NEW r \in Rounds, CastRoundChange(v, r) PROVE IInv'
      BY <1>7, CastRoundChangeStep
<1> QED BY <1>1, <1>2, <1>3, <1>4, <1>5, <1>6, <1>7 DEF Next

------------------------------------------------------------------------------
(***************************************************************************)
(* What the invariant implies.                                             *)
(***************************************************************************)

\* Two lock certificates of one round are for the same DIR.
LEMMA OneCertificatePerRound ==
    ASSUME IInv, NEW D \in DIRs, NEW E \in DIRs, NEW r \in Rounds, PLC(D, r), PLC(E, r)
    PROVE  D = E
<1> DEFINE S == {v \in Correct : <<v, r, D>> \in verified}
           T == {v \in Correct : <<v, r, E>> \in verified}
<1>1. S \in SUBSET Correct /\ T \in SUBSET Correct
      OBVIOUS
<1>2. IsQuorum(S \cup Faulty) /\ IsQuorum(T \cup Faulty)
      BY DEF PLC, VerifiedBy
<1>3. PICK v \in Correct : <<v, r, D>> \in verified /\ <<v, r, E>> \in verified
  <2> HIDE DEF S, T
  <2>1. S \cap T # {}
        BY <1>1, <1>2, QuorumIntersection
  <2> QED BY <2>1 DEF S, T
<1>4. <<v, r, D>> = <<v, r, E>>
      BY <1>3 DEF IInv, OneVerifyPerRound
<1> QED BY <1>4

\* After a COMMIT certificate no other DIR is ever locked by a quorum: the first
\* such lock would need a correct validator that committed and was justified by
\* an even earlier one.
LEMMA CommitForever ==
    ASSUME IInv, NEW D \in DIRs, NEW r \in Rounds, CommitQuorum(D, r)
    PROVE  \A E \in DIRs, q \in Rounds : r < q /\ PLC(E, q) => E = D
<1> DEFINE Q == {q \in Rounds : r < q /\ \E E \in DIRs \ {D} : PLC(E, q)}
<1> SUFFICES ASSUME Q # {} PROVE FALSE
    OBVIOUS
<1>1. Q \in SUBSET Nat
      BY BoundsAssumption DEF Rounds
<1>2. PICK q \in Q : \A p \in Q : q <= p
  <2> HIDE DEF Q
  <2> QED BY <1>1, LeastRound
<1>3. PICK E \in DIRs \ {D} : PLC(E, q)
      BY <1>2
<1> DEFINE S == {v \in Correct : <<v, r, D>> \in committed}
           T == {v \in Correct : <<v, q, E>> \in verified}
<1>4. /\ S \in SUBSET Correct /\ T \in SUBSET Correct
      /\ IsQuorum(S \cup Faulty) /\ IsQuorum(T \cup Faulty)
      BY <1>3 DEF PLC, VerifiedBy, CommitQuorum, CommittedBy
<1>5. PICK v \in Correct : <<v, r, D>> \in committed /\ <<v, q, E>> \in verified
  <2> HIDE DEF S, T
  <2>1. S \cap T # {}
        BY <1>4, QuorumIntersection
  <2> QED BY <2>1 DEF S, T
<1>6. PICK F \in DIRs \ {D}, p \in Rounds : r < p /\ p < q /\ PLC(F, p)
  <2>1. E \notin {D, NIL} /\ r < q
        BY <1>2, <1>3, NamesAssumption
  <2> QED BY <1>5, <2>1 DEF IInv, UnlockJustified
<1>7. p \in Q
      BY <1>6
<1> QED BY <1>1, <1>2, <1>6, <1>7

\* Behind a COMMIT certificate is a lock certificate of the same round.
LEMMA CommitHasPLC ==
    ASSUME IInv, NEW D \in DIRs, NEW r \in Rounds, CommitQuorum(D, r)
    PROVE  PLC(D, r)
<1> DEFINE S == {v \in Correct : <<v, r, D>> \in committed}
<1>1. S \in SUBSET Correct /\ IsQuorum(S \cup Faulty)
      BY DEF CommitQuorum, CommittedBy
<1>2. PICK v \in Correct : <<v, r, D>> \in committed
  <2> HIDE DEF S
  <2>1. S \cap S # {}
        BY <1>1, QuorumIntersection
  <2> QED BY <2>1 DEF S
<1> QED BY <1>2 DEF IInv, Certified

\* Of two COMMIT certificates the earlier one excludes every other DIR from the
\* later one.
LEMMA InvAgreement == IInv => Agreement
<1> SUFFICES ASSUME IInv, NEW D \in Certificates, NEW E \in Certificates PROVE D = E
    BY DEF Agreement
<1>1. PICK r \in Rounds : CommitQuorum(D, r)
      BY DEF Certificates
<1>2. PICK q \in Rounds : CommitQuorum(E, q)
      BY DEF Certificates
<1>3. D \in DIRs /\ E \in DIRs /\ r \in Int /\ q \in Int
      BY BoundsAssumption DEF Certificates, Rounds
<1>4. PLC(D, r)
      BY <1>1, <1>3, CommitHasPLC
<1>5. PLC(E, q)
      BY <1>2, <1>3, CommitHasPLC
<1>6. CASE r = q
      BY <1>3, <1>4, <1>5, <1>6, OneCertificatePerRound
<1>7. CASE r < q
      BY <1>1, <1>3, <1>5, <1>7, CommitForever
<1>8. CASE q < r
      BY <1>2, <1>3, <1>4, <1>8, CommitForever
<1> QED BY <1>3, <1>6, <1>7, <1>8

------------------------------------------------------------------------------
\* The inductive invariant holds throughout.
THEOREM Invariance == Spec => []IInv
<1>1. Init => IInv
      BY InitInv
<1>2. IInv /\ [Next]_vars => IInv'
      BY NextInv
<1> QED BY <1>1, <1>2, PTL DEF Spec

\* The height state, the journal and the votes of every validator keep their
\* types, for every number of validators, DIRs and rounds.
THEOREM TypeCorrect == Spec => []TypeOK
<1>1. IInv => TypeOK
      BY DEF IInv
<1> QED BY <1>1, Invariance, PTL

\* The state machine's lock is the journal's, through any number of restarts.
THEOREM LockRecovered == Spec => []LockIsJournaled
<1>1. IInv => LockIsJournaled
      BY DEF IInv
<1> QED BY <1>1, Invariance, PTL

\* A correct validator deserts a DIR it committed to only for a certificate.
THEOREM UnlockSafe == Spec => []UnlockJustified
<1>1. IInv => UnlockJustified
      BY DEF IInv
<1> QED BY <1>1, Invariance, PTL

\* With fewer than a third of the validators Byzantine, no height has COMMIT
\* certificates for two DIRs, in whatever rounds.
THEOREM Safety == Spec => []Agreement
<1> QED BY InvAgreement, Invariance, PTL

------------------------------------------------------------------------------
(***************************************************************************)
(* Refinement: the votes of a height implement DIRFinality.                *)
(***************************************************************************)

\* No step takes a COMMIT vote back.
LEMMA CommitsStay == [Next]_vars => committed \subseteq committed'
<1> SUFFICES ASSUME [Next]_vars PROVE committed \subseteq committed'
    OBVIOUS
<1>1. CASE UNCHANGED vars
      BY <1>1 DEF vars
<1>2. ASSUME NEW v \in Correct, CastCommit(v) PROVE committed \subseteq committed'
      BY <1>2 DEF CastCommit
<1>3. ASSUME NEW v \in Correct,
             \/ \E D \in DIRs : AcceptProposal(v, D)
             \/ \E D \in DIRs, r \in Rounds : AcceptProposalWithHigherRoundPLC(v, D, r)
             \/ \E c \in Choices : CastVerify(v, c)
             \/ Lock(v) \/ BeginCommit(v) \/ RecordCommitQuorum(v) \/ Finalize(v)
             \/ \E r \in Rounds : CastRoundChange(v, r) \/ EnterHigherRound(v, r)
             \/ Restart(v)
      PROVE  committed' = committed
      BY <1>3 DEF AcceptProposal, AcceptProposalWithHigherRoundPLC, CastVerify, Lock,
         BeginCommit, RecordCommitQuorum, Finalize, CastRoundChange, EnterHigherRound, Restart
<1> QED BY <1>1, <1>2, <1>3 DEF Next

\* A COMMIT certificate stays a certificate.
LEMMA CertificatesGrow ==
    ASSUME committed \subseteq committed'
    PROVE  Certificates \subseteq Certificates'
<1> SUFFICES ASSUME NEW D \in DIRs, NEW r \in Rounds, CommitQuorum(D, r)
             PROVE  CommitQuorum(D, r)'
    BY DEF Certificates
<1> DEFINE S == CommittedBy(r, D)
           T == CommittedBy(r, D)'
<1>1. S \subseteq T /\ T \subseteq Validators
      BY ValidatorsAssumption DEF CommittedBy, Correct
<1>2. /\ IsFiniteSet(T) /\ Cardinality(S) <= Cardinality(T)
      /\ Cardinality(S) \in Nat /\ Cardinality(T) \in Nat /\ Cardinality(Validators) \in Nat
  <2>1. IsFiniteSet(T) /\ IsFiniteSet(S)
        BY <1>1, ValidatorsAssumption, FS_Subset
  <2> QED BY <1>1, <2>1, ValidatorsAssumption, FS_Subset, FS_CardinalityType
<1> HIDE DEF S, T
<1>3. Cardinality(S) >= (2 * Cardinality(Validators)) \div 3 + 1
      BY DEF CommitQuorum, IsQuorum, quorum, RequiredQuorum, S
<1>4. Cardinality(T) >= (2 * Cardinality(Validators)) \div 3 + 1
      BY <1>2, <1>3
<1> QED BY <1>4 DEF CommitQuorum, IsQuorum, quorum, RequiredQuorum, T

\* A height starts with no certified candidate.
LEMMA NoCertificateAtFirst == Init => Certificates = {}
<1> SUFFICES ASSUME Init, NEW D \in DIRs, NEW r \in Rounds, CommitQuorum(D, r) PROVE FALSE
    BY DEF Certificates
<1>1. IsQuorum({} \cup Faulty)
      BY DEF Init, CommitQuorum, CommittedBy
<1>2. {} \cap {} # {}
  <2>1. {} \in SUBSET Correct
        OBVIOUS
  <2> QED BY <1>1, <2>1, QuorumIntersection
<1> QED BY <1>2

\* What TLC checks of four validators in povi_finality: a height certifies one
\* candidate at most, and never takes it back.
THEOREM Refinement == Spec => ImplementsFinality
<1>1. Init => Finality!Init
      BY NoCertificateAtFirst DEF Finality!Init
<1>2. IInv /\ IInv' /\ [Next]_vars => [Finality!Certify]_Certificates
  <2> SUFFICES ASSUME IInv, IInv', [Next]_vars, Certificates' # Certificates
               PROVE  Certificates = {} /\ \E D \in DIRs : Certificates' = {D}
      BY DEF Finality!Certify
  <2>1. Certificates \subseteq Certificates'
        BY CommitsStay, CertificatesGrow
  <2>2. Agreement'
        BY InvAgreement, PTL
  <2>3. \A D, E \in Certificates' : D = E
        BY <2>2 DEF Agreement
  <2>4. PICK D \in Certificates' : Certificates' = {D}
        BY <2>1, <2>3
  <2>5. Certificates = {}
        BY <2>1, <2>4
  <2>6. D \in DIRs
        BY DEF Certificates
  <2> QED BY <2>4, <2>5, <2>6
<1> QED BY <1>1, <1>2, Invariance, PTL DEF Spec, ImplementsFinality, Finality!Spec
=============================================================================
