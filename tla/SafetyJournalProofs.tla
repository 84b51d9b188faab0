------------------------ MODULE SafetyJournalProofs ------------------------
(***************************************************************************)
(* Proofs about SafetyJournal.  Types are right for any number of writers. *)
(* The history is right for one writer at a time (two of them overwrite    *)
(* each other's records, run journal_two_writers), whatever else fails.    *)
(* What is signed and what the cache shows needs, besides, a machine that  *)
(* may lose power or have its directory fsyncs cut off but not both (run   *)
(* journal_dir_sync); then the journal is an atomic one.                   *)
(***************************************************************************)
EXTENDS SafetyJournal, SafetyRulesProofs, SequenceTheorems

------------------------------------------------------------------------------
(***************************************************************************)
(* The inductive invariant.                                                *)
(***************************************************************************)

\* What a writer carries between two steps, for any number of writers.
JobShape ==
    \A w \in Writers :
        /\ pc[w] # "idle" => job[w].seq \in 1 .. Len(journal) + 1
        /\ pc[w] = "sign" => job[w].msg # NONE
        /\ job[w].msg # NONE =>
              job[w].rec.step \in VoteSteps /\ job[w].rec.msg = job[w].msg

Before(a, b) ==
    \/ a.height < b.height
    \/ /\ a.height = b.height
       /\ \/ a.round < b.round
          \/ a.round = b.round /\ StepRank(a.step) < StepRank(b.step)

Ordered == \A i, j \in DOMAIN journal : i < j => Before(journal[i], journal[j])

RoundChangesAdvance ==
    \A i \in DOMAIN journal :
        journal[i].step = "ROUND_CHANGE" => journal[i].newRound > journal[i].round

\* A record that carries a finalized DIR has the FINALIZE of its height behind it.
FinalizedBehind ==
    \A i \in DOMAIN journal :
        journal[i].finalized # NONE =>
            \E k \in 1 .. i :
                journal[k].height = journal[i].height /\ journal[k].step = "FINALIZE"

HistoryInv ==
    /\ AlwaysReadable
    /\ RoundChangesAdvance
    /\ Ordered
    /\ LockSurvives
    /\ ConflictingVerifyJustified
    /\ CommitAndFinalizeFollowLock
    /\ FinalizedBehind
    /\ FinalityBeforeAdvance

\* A record that may be written after the journal j.
Follows(j, r) ==
    IF j = <<>> THEN r = Bootstrap
    ELSE \E d \in Decisions :
            /\ WellShaped(d)
            /\ Accepts(j[Len(j)], d)
            /\ r = NextRecord(j[Len(j)], d)

WriterPosition ==
    \A w \in Writers :
        /\ pc[w] \in {"stat", "rename"} =>
              job[w].seq = Len(journal) + 1 /\ Follows(journal, job[w].rec)
        /\ pc[w] \in {"sync", "cache", "sign"} =>
              job[w].seq \in DOMAIN journal /\ journal[job[w].seq] = job[w].rec

\* What survives a power loss is a prefix of what the processes see.
OnDisk == Len(disk) <= Len(journal) /\ \A i \in DOMAIN disk : disk[i] = journal[i]

\* The one record that may be renamed into place but not yet fsynced.
Unsynced ==
    \A w \in Writers :
        fault = "PowerLoss" /\ pc[w] = "sync" =>
            journal = Append(disk, job[w].rec) /\ Follows(disk, job[w].rec)

Durable ==
    /\ Unsynced
    /\ fault = "PowerLoss" /\ (\A w \in Writers : pc[w] # "sync") => disk = journal
    /\ \A u \in signed : \E i \in DOMAIN Kept : VoteOf(Kept[i]) = u
    /\ cache # NONE => \E i \in DOMAIN Kept : Kept[i] = cache

IInv ==
    /\ TypeOK
    /\ JobShape
    /\ HistoryInv
    /\ WriterPosition
    /\ OnDisk
    /\ fault \in Faults
    /\ fault # "Both" => Durable

OneWriter     == \E w : Writers = {w}
NoDoubleFault == "Both" \notin Faults

------------------------------------------------------------------------------
(***************************************************************************)
(* Types.                                                                  *)
(***************************************************************************)

\* A decision that passes the shape check names what its step needs.
LEMMA DecisionsAreShaped ==
    ASSUME NEW d \in Decisions, WellShaped(d)
    PROVE  Shaped(d)
BY InputsAssumption DEF WellShaped, Shaped

\* The BOOTSTRAP record and an idle writer's job have their types.
LEMMA IdleType == Bootstrap \in RecordType /\ Idle \in JobType
BY DEF Bootstrap, Idle, RecordType, JobType, OptDIR, OptRound, NoRound, OptDigest

\* What an appended journal looks like.
LEMMA AppendedJournal ==
    ASSUME NEW j \in Seq(RecordType), NEW r \in RecordType
    PROVE  /\ Append(j, r) \in Seq(RecordType) /\ Len(Append(j, r)) = Len(j) + 1
           /\ DOMAIN Append(j, r) = 1 .. Len(j) + 1 /\ Append(j, r)[Len(j) + 1] = r
           /\ \A i \in 1 .. Len(j) : Append(j, r)[i] = j[i]
           /\ DOMAIN j = 1 .. Len(j) /\ Len(j) \in Nat
OBVIOUS

\* An empty directory and idle writers have their types.
LEMMA TypeInit == Init => TypeOK /\ JobShape
<1> SUFFICES ASSUME Init PROVE TypeOK /\ JobShape
    OBVIOUS
<1>1. <<>> \in Seq(RecordType)
      OBVIOUS
<1>2. TypeOK
      BY <1>1, IdleType, InputsAssumption DEF Init, TypeOK
<1>3. JobShape
      BY DEF Init, JobShape, Idle
<1> QED BY <1>2, <1>3

\* Every step of every writer keeps the types and what the writers carry.
LEMMA TypeNext == TypeOK /\ JobShape /\ [Next]_vars => TypeOK' /\ JobShape'
<1> SUFFICES ASSUME TypeOK, JobShape, [Next]_vars PROVE TypeOK' /\ JobShape'
    OBVIOUS
<1> USE DEF TypeOK, JobShape, Goto
<1>0. Len(journal) \in Nat /\ DOMAIN journal = 1 .. Len(journal)
      OBVIOUS
<1>1. CASE UNCHANGED vars
      BY <1>1 DEF vars
<1>2. ASSUME NEW w \in Writers, NEW label \in {"stat", "sign"}, NEW r \in RecordType,
             NEW i \in 1 .. Len(journal) + 1, NEW msg \in OptDigest,
             Start(w, label, r, i, msg), UNCHANGED <<journal, disk, cache, signed, fault>>,
             label = "sign" => msg # NONE,
             msg # NONE => r.step \in VoteSteps /\ r.msg = msg
      PROVE  TypeOK' /\ JobShape'
  <2>1. [rec |-> r, seq |-> i, msg |-> msg] \in JobType
        BY <1>0, <1>2 DEF JobType
  <2> QED BY <1>2, <2>1 DEF Start
<1>3. ASSUME NEW w \in Writers, Initialize(w) PROVE TypeOK' /\ JobShape'
  <2>1. 1 \in 1 .. Len(journal) + 1
        BY <1>0
  <2> QED BY <1>2, <1>3, <2>1, IdleType DEF Initialize, OptDigest
<1>4. ASSUME NEW w \in Writers, NEW d \in Decisions, NEW sign \in BOOLEAN, Prepare(w, d, sign)
      PROVE  TypeOK' /\ JobShape'
  <2> DEFINE prev == journal[Len(journal)]
             r == NextRecord(prev, d)
             msg == IF sign THEN d.msg ELSE NONE
  <2>1. /\ HistoryVerifies(journal) /\ WellShaped(d) /\ (sign => MaySign(d))
        /\ Start(w, "stat", r, Len(journal) + 1, msg)
        /\ UNCHANGED <<journal, disk, cache, signed, fault>>
        BY <1>4 DEF Prepare
  <2>2. Len(journal) \in 1 .. Len(journal) /\ Len(journal) + 1 \in 1 .. Len(journal) + 1
        BY <1>0, <2>1 DEF HistoryVerifies
  <2>3. prev \in RecordType
        BY <2>2
  <2>4. r \in RecordType /\ r.step = d.step /\ r.msg = d.msg
        BY <2>1, <2>3, NextRecordType, DecisionsAreShaped
  <2>5. msg \in OptDigest /\ (msg # NONE => d.step \in VoteSteps /\ d.msg = msg)
        BY <2>1, InputsAssumption DEF MaySign, DecisionType, OptDigest
  <2> HIDE DEF prev, r, msg
  <2> QED BY <1>2, <2>1, <2>2, <2>4, <2>5
<1>5. ASSUME NEW w \in Writers, NEW d \in Decisions, Replay(w, d) PROVE TypeOK' /\ JobShape'
  <2>1. PICK i \in DOMAIN journal :
           /\ SameSlot(journal[i], d) /\ SameDecision(journal[i], d)
           /\ Start(w, "sign", journal[i], i, d.msg)
        BY <1>5 DEF Replay, FirstInSlot
  <2>2. /\ MaySign(d) /\ UNCHANGED <<journal, disk, cache, signed, fault>>
        BY <1>5 DEF Replay
  <2>3. /\ journal[i] \in RecordType /\ i \in 1 .. Len(journal) + 1
        /\ d.msg \in OptDigest /\ d.msg # NONE
        BY <1>0, <2>2, InputsAssumption DEF MaySign, DecisionType
  <2>4. journal[i].step \in VoteSteps /\ journal[i].msg = d.msg
        BY <2>1, <2>2 DEF SameSlot, SameDecision, MaySign
  <2> QED BY <1>2, <2>1, <2>2, <2>3, <2>4
<1>6. ASSUME NEW w \in Writers, pc[w] # "idle", Finish(w), UNCHANGED <<journal, disk, fault>>,
             cache' \in RecordType \cup {NONE}, signed' \subseteq VoteType
      PROVE  TypeOK' /\ JobShape'
      BY <1>6, IdleType DEF Finish, Idle
<1>7. ASSUME NEW w \in Writers, NEW label \in {"rename", "sync", "cache", "sign"},
             pc[w] # "idle", Goto(w, label), label = "sign" => job[w].msg # NONE,
             journal' \in Seq(RecordType), Len(journal') >= Len(journal),
             disk' \in Seq(RecordType), cache' \in RecordType \cup {NONE},
             UNCHANGED <<job, signed, fault>>
      PROVE  TypeOK' /\ JobShape'
  <2>1. Len(journal') \in Nat
        BY <1>7
  <2> QED BY <1>0, <1>7, <2>1
<1>8. ASSUME NEW w \in Writers, Stat(w) PROVE TypeOK' /\ JobShape'
      BY <1>0, <1>6, <1>7, <1>8 DEF Stat
<1>9. ASSUME NEW w \in Writers, Rename(w) PROVE TypeOK' /\ JobShape'
  <2>1. job[w].seq \in 1 .. Len(journal) + 1 /\ job[w].rec \in RecordType
        BY <1>9 DEF Rename, JobType
  <2>2. journal' \in Seq(RecordType) /\ Len(journal') >= Len(journal)
    <3>1. CASE job[w].seq <= Len(journal)
      <4>1. job[w].seq \in 1 .. Len(journal)
            BY <1>0, <2>1, <3>1
      <4>2. journal' = [journal EXCEPT ![job[w].seq] = job[w].rec]
            BY <1>9, <3>1 DEF Rename
      <4> QED BY <1>0, <2>1, <4>1, <4>2, ExceptSeq
    <3>2. CASE ~ (job[w].seq <= Len(journal))
      <4>1. journal' = Append(journal, job[w].rec)
            BY <1>9, <3>2 DEF Rename
      <4> QED BY <1>0, <2>1, <4>1, AppendedJournal
    <3> QED BY <3>1, <3>2
  <2> QED BY <1>7, <1>9, <2>2 DEF Rename
<1>10. ASSUME NEW w \in Writers, DirSync(w) PROVE TypeOK' /\ JobShape'
      BY <1>0, <1>7, <1>10 DEF DirSync
<1>11. ASSUME NEW w \in Writers, WriteCache(w) PROVE TypeOK' /\ JobShape'
  <2>1. job[w].rec \in RecordType
        BY DEF JobType
  <2> QED BY <1>0, <1>6, <1>7, <1>11, <2>1 DEF WriteCache
<1>12. ASSUME NEW w \in Writers, Sign(w) PROVE TypeOK' /\ JobShape'
  <2>1. Vote(job[w].rec, job[w].msg) \in VoteType
        BY <1>12 DEF Sign, Vote, VoteType, JobType, RecordType, OptDigest
  <2> QED BY <1>6, <1>12, <2>1 DEF Sign
<1>13. ASSUME NEW w \in Writers, RepairCache(w) PROVE TypeOK' /\ JobShape'
  <2>1. journal[Len(journal)] \in RecordType
        BY <1>0, <1>13 DEF RepairCache, HistoryVerifies
  <2> QED BY <1>13, <2>1 DEF RepairCache
<1>14. ASSUME NEW w \in Writers, Interrupted(w) PROVE TypeOK' /\ JobShape'
      BY <1>6, <1>14 DEF Interrupted
<1>15. CASE PowerLoss
      BY <1>15, IdleType DEF PowerLoss, Idle
<1> QED BY <1>1, <1>3, <1>4, <1>5, <1>8, <1>9, <1>10, <1>11, <1>12, <1>13, <1>14, <1>15 DEF Next

\* Journal, cache, writers and signatures keep their types whatever the number
\* of writers and whatever fails.
THEOREM TypeCorrect == Spec => []TypeOK
<1>1. Init => TypeOK /\ JobShape
      BY TypeInit
<1>2. TypeOK /\ JobShape /\ [Next]_vars => (TypeOK /\ JobShape)'
      BY TypeNext
<1> QED BY <1>1, <1>2, PTL DEF Spec

------------------------------------------------------------------------------
(***************************************************************************)
(* The history.                                                            *)
(***************************************************************************)

\* What is true of a journal is true of a prefix of it.
LEMMA PrefixHistory ==
    ASSUME HistoryInv, journal \in Seq(RecordType), journal' \in Seq(RecordType),
           Len(journal') <= Len(journal),
           \A i \in 1 .. Len(journal') : journal'[i] = journal[i]
    PROVE  HistoryInv'
<1>0. /\ Len(journal) \in Nat /\ DOMAIN journal = 1 .. Len(journal)
      /\ Len(journal') \in Nat /\ DOMAIN journal' = 1 .. Len(journal')
      /\ DOMAIN journal' \subseteq DOMAIN journal
      OBVIOUS
<1>1. AlwaysReadable'
  <2> SUFFICES ASSUME journal' # <<>>
               PROVE  /\ journal'[1] = Bootstrap
                      /\ \A i \in 1 .. Len(journal') - 1 : ValidTransition(journal'[i], journal'[i + 1])
      BY DEF AlwaysReadable, HistoryVerifies
  <2>1. 1 \in 1 .. Len(journal') /\ journal # <<>>
        BY <1>0
  <2>2. journal'[1] = Bootstrap
        BY <2>1 DEF HistoryInv, AlwaysReadable, HistoryVerifies
  <2>3. ASSUME NEW i \in 1 .. Len(journal') - 1
        PROVE  ValidTransition(journal'[i], journal'[i + 1])
    <3>1. /\ i \in 1 .. Len(journal') /\ i + 1 \in 1 .. Len(journal')
          /\ i \in 1 .. Len(journal) - 1
          BY <1>0
    <3>2. ValidTransition(journal[i], journal[i + 1])
          BY <2>1, <3>1 DEF HistoryInv, AlwaysReadable, HistoryVerifies
    <3> QED BY <3>1, <3>2
  <2> QED BY <2>2, <2>3
<1>2. RoundChangesAdvance' /\ Ordered'
      BY <1>0 DEF HistoryInv, RoundChangesAdvance, Ordered
<1>3. LockSurvives'
  <2> SUFFICES ASSUME NEW i \in DOMAIN journal'
               PROVE  IF journal'[i].lockedDIR = NONE
                      THEN \A k \in 1 .. i :
                              journal'[k].height = journal'[i].height => journal'[k].step # "LOCK"
                      ELSE \E k \in 1 .. i :
                              /\ journal'[k].step = "LOCK" /\ journal'[k].height = journal'[i].height
                              /\ journal'[k].proposal = journal'[i].lockedDIR
                              /\ journal'[k].round = journal'[i].lockedRound
                              /\ \A n \in k + 1 .. i : journal'[n].step # "LOCK"
      BY DEF LockSurvives
  <2>1. \A k \in 1 .. i : k \in DOMAIN journal' /\ journal'[k] = journal[k]
        BY <1>0
  <2>2. \A k \in 1 .. i : \A n \in k + 1 .. i : journal'[n] = journal[n]
        BY <1>0
  <2>3. i \in DOMAIN journal /\ journal'[i] = journal[i]
        BY <1>0
  <2>4. CASE journal[i].lockedDIR = NONE
        BY <2>1, <2>3, <2>4 DEF HistoryInv, LockSurvives
  <2>5. CASE journal[i].lockedDIR # NONE
        BY <2>1, <2>2, <2>3, <2>5 DEF HistoryInv, LockSurvives
  <2> QED BY <2>4, <2>5
<1>4. ConflictingVerifyJustified'
  <2> SUFFICES ASSUME NEW k \in DOMAIN journal', NEW i \in DOMAIN journal',
                      k < i, journal'[k].step = "LOCK", journal'[i].step = "VERIFY",
                      journal'[k].height = journal'[i].height,
                      journal'[i].proposal \notin {NIL, journal'[k].proposal},
                      \A n \in k + 1 .. i : journal'[n].step # "LOCK"
               PROVE  /\ journal'[k].round < journal'[i].unlockRound
                      /\ journal'[i].unlockRound < journal'[i].round
      BY DEF ConflictingVerifyJustified
  <2>1. \A n \in k + 1 .. i : n \in DOMAIN journal' /\ journal'[n] = journal[n]
        BY <1>0
  <2> QED BY <1>0, <2>1 DEF HistoryInv, ConflictingVerifyJustified
<1>5. CommitAndFinalizeFollowLock'
  <2> SUFFICES ASSUME NEW i \in DOMAIN journal', journal'[i].step \in {"COMMIT", "FINALIZE"}
               PROVE  \E k \in 1 .. i - 1 :
                         /\ journal'[k].step = "LOCK" /\ journal'[k].height = journal'[i].height
                         /\ journal'[k].proposal = journal'[i].proposal
                         /\ journal'[i].step = "COMMIT" => journal'[k].round = journal'[i].round
      BY DEF CommitAndFinalizeFollowLock
  <2>1. \A k \in 1 .. i - 1 : k \in DOMAIN journal' /\ journal'[k] = journal[k]
        BY <1>0
  <2> QED BY <1>0, <2>1 DEF HistoryInv, CommitAndFinalizeFollowLock
<1>6. FinalizedBehind'
  <2> SUFFICES ASSUME NEW i \in DOMAIN journal', journal'[i].finalized # NONE
               PROVE  \E k \in 1 .. i : /\ journal'[k].height = journal'[i].height
                                        /\ journal'[k].step = "FINALIZE"
      BY DEF FinalizedBehind
  <2>1. \A k \in 1 .. i : k \in DOMAIN journal' /\ journal'[k] = journal[k]
        BY <1>0
  <2> QED BY <1>0, <2>1 DEF HistoryInv, FinalizedBehind
<1>7. FinalityBeforeAdvance'
  <2> SUFFICES ASSUME NEW i \in DOMAIN journal', NEW j \in DOMAIN journal',
                      0 < journal'[i].height, journal'[i].height < journal'[j].height
               PROVE  \E k \in 1 .. j - 1 : /\ journal'[k].height = journal'[i].height
                                            /\ journal'[k].step = "FINALIZE"
      BY DEF FinalityBeforeAdvance
  <2>1. \A k \in 1 .. j - 1 : k \in DOMAIN journal' /\ journal'[k] = journal[k]
        BY <1>0
  <2> QED BY <1>0, <2>1 DEF HistoryInv, FinalityBeforeAdvance
<1> QED BY <1>1, <1>2, <1>3, <1>4, <1>5, <1>6, <1>7 DEF HistoryInv

\* Heights never go down along a journal.
LEMMA HeightsGrow ==
    ASSUME Ordered, journal \in Seq(RecordType), NEW i \in DOMAIN journal, NEW j \in DOMAIN journal, i <= j
    PROVE  journal[i].height <= journal[j].height
<1>1. /\ journal[i] \in RecordType /\ journal[j] \in RecordType
      /\ DOMAIN journal = 1 .. Len(journal)
      OBVIOUS
<1>2. journal[i].height \in Nat /\ journal[j].height \in Nat
      BY <1>1 DEF RecordType
<1> QED BY <1>1, <1>2 DEF Ordered, Before

\* The order of records (height, round, step) is transitive.
LEMMA BeforeTransitive ==
    ASSUME NEW a \in RecordType, NEW b \in RecordType, NEW c \in RecordType,
           Before(a, b), Before(b, c)
    PROVE  Before(a, c)
<1>1. /\ a.height \in Nat /\ b.height \in Nat /\ c.height \in Nat
      /\ a.round \in Nat /\ b.round \in Nat /\ c.round \in Nat
      BY DEF RecordType
<1>2. StepRank(a.step) \in Nat /\ StepRank(b.step) \in Nat /\ StepRank(c.step) \in Nat
      BY RankIsNat DEF RecordType
<1> DEFINE x == StepRank(a.step)
           y == StepRank(b.step)
           z == StepRank(c.step)
<1>3. /\ a.height < b.height \/ (a.height = b.height /\ (a.round < b.round \/ (a.round = b.round /\ x < y)))
      /\ b.height < c.height \/ (b.height = c.height /\ (b.round < c.round \/ (b.round = c.round /\ y < z)))
      BY DEF Before
<1>4. x \in Nat /\ y \in Nat /\ z \in Nat
      BY <1>2
<1> HIDE DEF x, y, z
<1>5. a.height < c.height \/ (a.height = c.height /\ (a.round < c.round \/ (a.round = c.round /\ x < z)))
      BY <1>1, <1>3, <1>4
<1> QED BY <1>5 DEF Before, x, z

\* The record recordConsensusSafetyDecision appends keeps everything readers and
\* callers rely on.
LEMMA AppendHistory ==
    ASSUME HistoryInv, journal \in Seq(RecordType), journal # <<>>,
           NEW d \in Decisions, WellShaped(d), NEW r,
           Accepts(journal[Len(journal)], d), r = NextRecord(journal[Len(journal)], d),
           journal' = Append(journal, r)
    PROVE  HistoryInv'
<1> DEFINE L == Len(journal)
           prev == journal[L]
<1>0. /\ L \in Nat /\ L > 0 /\ DOMAIN journal = 1 .. L /\ L \in 1 .. L
      /\ prev \in RecordType /\ Shaped(d)
      BY DecisionsAreShaped
<1>1. /\ r \in RecordType
      /\ r.height = d.height /\ r.round = d.round /\ r.newRound = d.newRound
      /\ r.step = d.step /\ r.proposal = d.proposal /\ r.unlockRound = d.unlockRound
      BY <1>0, NextRecordType
<1>2. /\ journal' \in Seq(RecordType) /\ Len(journal') = L + 1
      /\ DOMAIN journal' = 1 .. L + 1 /\ journal'[L + 1] = r
      /\ \A i \in 1 .. L : journal'[i] = journal[i]
      BY <1>1, AppendedJournal
<1>3. /\ d.height >= prev.height
      /\ d.height = prev.height =>
            /\ d.round >= MinimumRoundAfter(prev)
            /\ d.round = prev.round => StepRank(d.step) > StepRank(prev.step)
      BY <1>0, AcceptedOrder
<1>4. /\ d.height = prev.height /\ Conflicts(prev, d) =>
             prev.lockedRound < d.unlockRound /\ d.unlockRound < d.round
      /\ d.step = "LOCK" => d.height = prev.height
      /\ d.step = "COMMIT" =>
             /\ d.height = prev.height /\ prev.lockedDIR # NONE
             /\ d.proposal = prev.lockedDIR /\ d.round = prev.lockedRound
      /\ d.step = "FINALIZE" =>
             /\ d.height = prev.height /\ prev.lockedDIR # NONE
             /\ d.proposal = prev.lockedDIR
      BY <1>0, AcceptedByLock
<1>5. d.height = prev.height =>
         /\ d.step = "LOCK" => r.lockedDIR = d.proposal /\ r.lockedRound = d.round
         /\ d.step # "LOCK" => r.lockedDIR = prev.lockedDIR /\ r.lockedRound = prev.lockedRound
         /\ d.step # "FINALIZE" => r.finalized = prev.finalized
      BY <1>0, NextRecordLock
<1>6. d.height > prev.height =>
         /\ d.step \in {"VERIFY", "ROUND_CHANGE"}
         /\ prev.height = 0 \/ prev.finalized # NONE
         /\ r.lockedDIR = NONE /\ r.finalized = NONE
      BY <1>0, NextRecordNewHeight
<1>7. /\ prev.height \in Nat /\ d.height \in Nat /\ prev.round \in Nat /\ d.round \in Nat
      /\ StepRank(prev.step) \in Nat /\ StepRank(d.step) \in Nat
      BY <1>0, <1>1, RankIsNat DEF RecordType
<1> HIDE DEF L, prev
<1>8. AlwaysReadable'
  <2>1. HistoryVerifies(journal)
        BY DEF HistoryInv, AlwaysReadable
  <2>2. ValidTransition(prev, r)
        BY DEF Accepts, L, prev
  <2>3. ASSUME NEW i \in 1 .. L PROVE ValidTransition(journal'[i], journal'[i + 1])
    <3>1. CASE i = L
          BY <1>0, <1>2, <2>2, <3>1 DEF prev
    <3>2. CASE i # L
      <4>1. i \in 1 .. L - 1 /\ i + 1 \in 1 .. L
            BY <1>0, <3>2
      <4>2. ValidTransition(journal[i], journal[i + 1])
            BY <2>1, <4>1 DEF HistoryVerifies, L
      <4> QED BY <1>2, <4>1, <4>2
    <3> QED BY <3>1, <3>2
  <2>4. journal'[1] = Bootstrap
        BY <1>0, <1>2, <2>1 DEF HistoryVerifies
  <2>5. journal' # <<>> /\ Len(journal') - 1 = L
        BY <1>0, <1>2
  <2> QED BY <2>3, <2>4, <2>5 DEF AlwaysReadable, HistoryVerifies
<1>9. RoundChangesAdvance'
  <2>1. d.step = "ROUND_CHANGE" => d.newRound > d.round
        BY DEF WellShaped
  <2>2. ASSUME NEW i \in 1 .. L + 1
        PROVE  journal'[i].step = "ROUND_CHANGE" => journal'[i].newRound > journal'[i].round
    <3>1. CASE i = L + 1
          BY <1>1, <1>2, <2>1, <3>1
    <3>2. CASE i \in 1 .. L
          BY <1>0, <1>2, <3>2 DEF HistoryInv, RoundChangesAdvance
    <3> QED BY <1>0, <3>1, <3>2
  <2> QED BY <1>2, <2>2 DEF RoundChangesAdvance
<1>10. Before(prev, r)
  <2>1. CASE d.height > prev.height
        BY <1>1, <1>7, <2>1 DEF Before
  <2>2. CASE d.height = prev.height
    <3>1. prev.step = "ROUND_CHANGE" => prev.newRound > prev.round
          BY <1>0 DEF HistoryInv, RoundChangesAdvance, prev
    <3>2. MinimumRoundAfter(prev) >= prev.round /\ MinimumRoundAfter(prev) \in Int
          BY <1>0, <1>7, <3>1 DEF MinimumRoundAfter, RecordType, OptRound, NoRound
    <3>3. d.round >= prev.round
          BY <1>3, <1>7, <2>2, <3>2
    <3> QED BY <1>1, <1>3, <1>7, <2>2, <3>3 DEF Before
  <2> QED BY <1>3, <1>7, <2>1, <2>2
<1>11. \A i \in 1 .. L : Before(journal[i], r)
  <2> TAKE i \in 1 .. L
  <2>1. CASE i = L
        BY <1>10, <2>1 DEF prev
  <2>2. CASE i < L
    <3>1. Before(journal[i], prev)
          BY <1>0, <2>2 DEF HistoryInv, Ordered, prev
    <3>2. journal[i] \in RecordType
          BY <1>0
    <3> QED BY <1>0, <1>1, <1>10, <3>1, <3>2, BeforeTransitive
  <2> QED BY <1>0, <2>1, <2>2
<1>12. Ordered'
      BY <1>0, <1>2, <1>11 DEF HistoryInv, Ordered
\* Where the previous record's lock comes from.
<1>13. IF prev.lockedDIR = NONE
       THEN \A k \in 1 .. L : journal[k].height = prev.height => journal[k].step # "LOCK"
       ELSE \E k \in 1 .. L :
               /\ journal[k].step = "LOCK" /\ journal[k].height = prev.height
               /\ journal[k].proposal = prev.lockedDIR /\ journal[k].round = prev.lockedRound
               /\ \A n \in k + 1 .. L : journal[n].step # "LOCK"
      BY <1>0 DEF HistoryInv, LockSurvives, prev
<1>14. \A k \in 1 .. L : journal[k].height <= prev.height
      BY <1>0, HeightsGrow DEF HistoryInv, prev
<1>15. LockSurvives'
  <2> SUFFICES ASSUME NEW i \in 1 .. L + 1
               PROVE  IF journal'[i].lockedDIR = NONE
                      THEN \A k \in 1 .. i :
                              journal'[k].height = journal'[i].height => journal'[k].step # "LOCK"
                      ELSE \E k \in 1 .. i :
                              /\ journal'[k].step = "LOCK" /\ journal'[k].height = journal'[i].height
                              /\ journal'[k].proposal = journal'[i].lockedDIR
                              /\ journal'[k].round = journal'[i].lockedRound
                              /\ \A n \in k + 1 .. i : journal'[n].step # "LOCK"
      BY <1>2 DEF LockSurvives
  <2>1. CASE i \in 1 .. L
    <3>1. \A k \in 1 .. i : journal'[k] = journal[k]
          BY <1>0, <1>2, <2>1
    <3>2. \A k \in 1 .. i : \A n \in k + 1 .. i : journal'[n] = journal[n]
          BY <1>0, <1>2, <2>1
    <3>3. journal'[i] = journal[i]
          BY <1>2, <2>1
    <3>4. CASE journal[i].lockedDIR = NONE
          BY <1>0, <2>1, <3>1, <3>3, <3>4 DEF HistoryInv, LockSurvives
    <3>5. CASE journal[i].lockedDIR # NONE
          BY <1>0, <2>1, <3>1, <3>2, <3>3, <3>5 DEF HistoryInv, LockSurvives
    <3> QED BY <3>4, <3>5
  <2>2. CASE i = L + 1 /\ d.step = "LOCK"
    <3>1. r.lockedDIR = d.proposal /\ r.lockedRound = d.round /\ r.lockedDIR # NONE
          BY <1>0, <1>4, <1>5, <2>2, NamesAssumption DEF Shaped
    <3>2. L + 1 \in 1 .. L + 1 /\ \A n \in L + 2 .. L + 1 : FALSE
          BY <1>0
    <3> QED BY <1>0, <1>1, <1>2, <2>2, <3>1, <3>2
  <2>3. CASE i = L + 1 /\ d.step # "LOCK" /\ d.height = prev.height
    <3>1. r.lockedDIR = prev.lockedDIR /\ r.lockedRound = prev.lockedRound
          BY <1>5, <2>3
    <3>2. CASE prev.lockedDIR = NONE
      <4>1. \A k \in 1 .. L : journal[k].height = r.height => journal[k].step # "LOCK"
            BY <1>1, <1>13, <2>3, <3>2
      <4>2. \A k \in 1 .. L + 1 : journal'[k].height = r.height => journal'[k].step # "LOCK"
            BY <1>0, <1>1, <1>2, <2>3, <4>1
      <4> QED BY <1>2, <2>3, <3>1, <3>2, <4>2
    <3>3. CASE prev.lockedDIR # NONE
      <4>1. PICK k \in 1 .. L :
               /\ journal[k].step = "LOCK" /\ journal[k].height = prev.height
               /\ journal[k].proposal = prev.lockedDIR /\ journal[k].round = prev.lockedRound
               /\ \A n \in k + 1 .. L : journal[n].step # "LOCK"
            BY <1>13, <3>3
      <4>2. \A n \in k + 1 .. L + 1 : journal'[n].step # "LOCK"
            BY <1>0, <1>1, <1>2, <2>3, <4>1
      <4>3. k \in 1 .. L + 1 /\ journal'[k] = journal[k]
            BY <1>0, <1>2
      <4> QED BY <1>1, <1>2, <2>3, <3>1, <3>3, <4>1, <4>2, <4>3
    <3> QED BY <3>2, <3>3
  <2>4. CASE i = L + 1 /\ d.height > prev.height
    <3>1. r.lockedDIR = NONE /\ r.step # "LOCK"
          BY <1>1, <1>6, <2>4
    <3>2. \A k \in 1 .. L : journal[k].height # r.height
          BY <1>0, <1>1, <1>7, <1>14, <2>4, SMTT(30) DEF RecordType
    <3>3. \A k \in 1 .. L + 1 : journal'[k].height = r.height => journal'[k].step # "LOCK"
          BY <1>0, <1>2, <3>1, <3>2
    <3> QED BY <1>2, <2>4, <3>1, <3>3
  <2>5. d.height = prev.height \/ d.height > prev.height
        BY <1>3, <1>7
  <2>6. i \in 1 .. L \/ i = L + 1
        BY <1>0
  <2>7. CASE i = L + 1
        BY <2>2, <2>3, <2>4, <2>5, <2>7
  <2> QED BY <2>1, <2>6, <2>7
<1>16. ConflictingVerifyJustified'
  <2> SUFFICES ASSUME NEW k \in 1 .. L + 1, NEW i \in 1 .. L + 1,
                      k < i, journal'[k].step = "LOCK", journal'[i].step = "VERIFY",
                      journal'[k].height = journal'[i].height,
                      journal'[i].proposal \notin {NIL, journal'[k].proposal},
                      \A n \in k + 1 .. i : journal'[n].step # "LOCK"
               PROVE  /\ journal'[k].round < journal'[i].unlockRound
                      /\ journal'[i].unlockRound < journal'[i].round
      BY <1>2, SMTT(30) DEF ConflictingVerifyJustified
  <2>1. k \in 1 .. L /\ journal'[k] = journal[k]
        BY <1>0, <1>2
  <2>2. CASE i \in 1 .. L
    <3>1. \A n \in k + 1 .. i : journal'[n] = journal[n]
          BY <1>0, <1>2, <2>1, <2>2
    <3>2. \A n \in k + 1 .. i : journal[n].step # "LOCK"
          BY <3>1
    <3> QED BY <1>0, <1>2, <2>1, <2>2, <3>2 DEF HistoryInv, ConflictingVerifyJustified
  <2>3. CASE i = L + 1
    <3>1. journal'[i] = r /\ d.step = "VERIFY" /\ journal[k].height = d.height
          BY <1>1, <1>2, <2>1, <2>3
    <3>2. d.height = prev.height
          BY <1>3, <1>7, <1>14, <2>1, <3>1
    <3>3. prev.lockedDIR # NONE
          BY <1>13, <2>1, <3>1, <3>2
    <3>4. PICK m \in 1 .. L :
             /\ journal[m].step = "LOCK" /\ journal[m].proposal = prev.lockedDIR
             /\ journal[m].round = prev.lockedRound
             /\ \A n \in m + 1 .. L : journal[n].step # "LOCK"
          BY <1>13, <3>3
    <3>5. \A n \in k + 1 .. L : journal[n].step # "LOCK"
      <4>1. \A n \in k + 1 .. L : n \in 1 .. L /\ n \in k + 1 .. i /\ journal'[n] = journal[n]
            BY <1>0, <1>2, <2>1, <2>3
      <4> QED BY <4>1
    <3>6. k = m
      <4>1. ~ (k < m) /\ ~ (m < k)
            BY <1>0, <2>1, <3>4, <3>5
      <4> QED BY <2>1, <3>4, <4>1
    <3>7. Conflicts(prev, d)
          BY <1>1, <2>1, <3>1, <3>3, <3>4, <3>6 DEF Conflicts
    <3> QED BY <1>1, <1>4, <2>1, <3>1, <3>2, <3>4, <3>6, <3>7
  <2> QED BY <1>0, <2>2, <2>3
<1>17. CommitAndFinalizeFollowLock'
  <2> SUFFICES ASSUME NEW i \in 1 .. L + 1, journal'[i].step \in {"COMMIT", "FINALIZE"}
               PROVE  \E k \in 1 .. i - 1 :
                         /\ journal'[k].step = "LOCK" /\ journal'[k].height = journal'[i].height
                         /\ journal'[k].proposal = journal'[i].proposal
                         /\ journal'[i].step = "COMMIT" => journal'[k].round = journal'[i].round
      BY <1>2 DEF CommitAndFinalizeFollowLock
  <2>1. CASE i \in 1 .. L
    <3>1. \A k \in 1 .. i - 1 : journal'[k] = journal[k]
          BY <1>0, <1>2, <2>1
    <3>2. journal'[i] = journal[i]
          BY <1>2, <2>1
    <3> QED BY <1>0, <2>1, <3>1, <3>2 DEF HistoryInv, CommitAndFinalizeFollowLock
  <2>2. CASE i = L + 1
    <3>1. /\ journal'[i] = r /\ d.step \in {"COMMIT", "FINALIZE"}
          /\ d.height = prev.height /\ prev.lockedDIR # NONE /\ d.proposal = prev.lockedDIR
          /\ d.step = "COMMIT" => d.round = prev.lockedRound
          BY <1>1, <1>2, <1>4, <2>2
    <3>2. PICK k \in 1 .. L :
             /\ journal[k].step = "LOCK" /\ journal[k].height = prev.height
             /\ journal[k].proposal = prev.lockedDIR /\ journal[k].round = prev.lockedRound
          BY <1>13, <3>1
    <3>3. k \in 1 .. i - 1 /\ journal'[k] = journal[k]
          BY <1>0, <1>2, <2>2
    <3>4. /\ journal'[k].step = "LOCK" /\ journal'[k].height = journal'[i].height
          /\ journal'[k].proposal = journal'[i].proposal
          /\ journal'[i].step = "COMMIT" => journal'[k].round = journal'[i].round
          BY <1>1, <3>1, <3>2, <3>3
    <3> QED BY <3>3, <3>4
  <2> QED BY <1>0, <2>1, <2>2
\* Where the previous record's finalized DIR comes from.
<1>18. prev.finalized # NONE =>
          \E k \in 1 .. L : journal[k].height = prev.height /\ journal[k].step = "FINALIZE"
      BY <1>0 DEF HistoryInv, FinalizedBehind, prev
<1>19. FinalizedBehind'
  <2> SUFFICES ASSUME NEW i \in 1 .. L + 1, journal'[i].finalized # NONE
               PROVE  \E k \in 1 .. i : /\ journal'[k].height = journal'[i].height
                                        /\ journal'[k].step = "FINALIZE"
      BY <1>2 DEF FinalizedBehind
  <2>1. CASE i \in 1 .. L
    <3>1. \A k \in 1 .. i : journal'[k] = journal[k]
          BY <1>0, <1>2, <2>1
    <3>2. journal'[i] = journal[i]
          BY <1>2, <2>1
    <3> QED BY <1>0, <2>1, <3>1, <3>2 DEF HistoryInv, FinalizedBehind
  <2>2. CASE i = L + 1 /\ d.step = "FINALIZE"
        BY <1>0, <1>1, <1>2, <2>2
  <2>3. CASE i = L + 1 /\ d.step # "FINALIZE"
    <3>1. d.height = prev.height /\ prev.finalized # NONE
          BY <1>2, <1>3, <1>5, <1>6, <1>7, <2>3
    <3>2. PICK k \in 1 .. L : journal[k].height = prev.height /\ journal[k].step = "FINALIZE"
          BY <1>18, <3>1
    <3>3. k \in 1 .. i /\ journal'[k] = journal[k]
          BY <1>0, <1>2, <2>3
    <3> QED BY <1>1, <1>2, <2>3, <3>1, <3>2, <3>3
  <2> QED BY <1>0, <2>1, <2>2, <2>3
<1>20. FinalityBeforeAdvance'
  <2> SUFFICES ASSUME NEW i \in 1 .. L + 1, NEW j \in 1 .. L + 1,
                      0 < journal'[i].height, journal'[i].height < journal'[j].height
               PROVE  \E k \in 1 .. j - 1 : /\ journal'[k].height = journal'[i].height
                                            /\ journal'[k].step = "FINALIZE"
      BY <1>2 DEF FinalityBeforeAdvance
  <2>1. CASE j \in 1 .. L /\ i \in 1 .. L
    <3>1. /\ \A k \in 1 .. j - 1 : journal'[k] = journal[k]
          /\ journal'[i] = journal[i] /\ journal'[j] = journal[j]
          BY <1>0, <1>2, <2>1
    <3>2. PICK k \in 1 .. j - 1 : journal[k].height = journal[i].height /\ journal[k].step = "FINALIZE"
          BY <1>0, <2>1, <3>1 DEF HistoryInv, FinalityBeforeAdvance
    <3> QED BY <3>1, <3>2
  <2>2. CASE i = L + 1
    <3>1. journal'[i].height = d.height /\ j \in 1 .. L + 1
          BY <1>1, <1>2, <2>2
    <3>2. CASE j = L + 1
          BY <1>1, <1>2, <1>7, <2>2, <3>2
    <3>3. CASE j \in 1 .. L
      <4>1. journal'[j] = journal[j] /\ journal[j] \in RecordType /\ journal[j].height <= prev.height
            BY <1>0, <1>2, <1>14, <3>3
      <4>2. journal[j].height \in Nat
            BY <4>1 DEF RecordType
      <4>3. d.height < journal[j].height
            BY <3>1, <4>1
      <4> QED BY <1>3, <1>7, <4>1, <4>2, <4>3
    <3> QED BY <1>0, <3>2, <3>3
  <2>3. CASE j = L + 1 /\ i \in 1 .. L
    <3>0. journal'[i] = journal[i] /\ journal'[j] = r /\ journal[i] \in RecordType
          BY <1>0, <1>2, <2>3
    <3>1. journal'[i] = journal[i] /\ journal'[j].height = d.height /\ journal[i].height \in Nat
          BY <1>1, <3>0 DEF RecordType
    <3>2. PICK k \in 1 .. L : journal[k].height = journal[i].height /\ journal[k].step = "FINALIZE"
      <4>1. CASE journal[i].height < prev.height
        <5>1. PICK k \in 1 .. L - 1 : journal[k].height = journal[i].height /\ journal[k].step = "FINALIZE"
              BY <1>0, <2>3, <3>1, <4>1 DEF HistoryInv, FinalityBeforeAdvance, prev
        <5>2. k \in 1 .. L
              BY <1>0
        <5> QED BY <5>1, <5>2
      <4>2. CASE journal[i].height = prev.height
        <5>1. d.height > prev.height /\ prev.height # 0
              BY <1>7, <3>1, <4>2
        <5> QED BY <1>6, <1>18, <4>2, <5>1
      <4> QED BY <1>7, <1>14, <2>3, <3>1, <4>1, <4>2
    <3>3. k \in 1 .. j - 1 /\ journal'[k] = journal[k]
          BY <1>0, <1>2, <2>3
    <3> QED BY <3>1, <3>2, <3>3
  <2> QED BY <1>0, <2>1, <2>2, <2>3
<1> QED BY <1>8, <1>9, <1>12, <1>15, <1>16, <1>17, <1>19, <1>20 DEF HistoryInv

\* The first record of a journal is the BOOTSTRAP record.
LEMMA FirstHistory ==
    ASSUME journal = <<>>, journal' = Append(journal, Bootstrap)
    PROVE  HistoryInv'
<1>1. /\ Len(journal') = 1 /\ DOMAIN journal' = {1} /\ journal'[1] = Bootstrap /\ journal' # <<>>
      OBVIOUS
<1>2. /\ Bootstrap.height = 0 /\ Bootstrap.step = "BOOTSTRAP" /\ Bootstrap.lockedDIR = NONE
      /\ Bootstrap.finalized = NONE
      BY DEF Bootstrap
<1>3. AlwaysReadable' /\ RoundChangesAdvance' /\ Ordered' /\ ConflictingVerifyJustified'
      BY <1>1, <1>2 DEF AlwaysReadable, HistoryVerifies, RoundChangesAdvance, Ordered, ConflictingVerifyJustified
<1>4. LockSurvives' /\ CommitAndFinalizeFollowLock'
      BY <1>1, <1>2 DEF LockSurvives, CommitAndFinalizeFollowLock
<1>5. FinalizedBehind' /\ FinalityBeforeAdvance'
      BY <1>1, <1>2 DEF FinalizedBehind, FinalityBeforeAdvance
<1> QED BY <1>3, <1>4, <1>5 DEF HistoryInv

------------------------------------------------------------------------------
(***************************************************************************)
(* The steps of one writer.                                                *)
(***************************************************************************)

\* An empty directory satisfies the inductive invariant.
LEMMA InitInv == Init => IInv
<1> SUFFICES ASSUME Init PROVE IInv
    OBVIOUS
<1>1. TypeOK /\ JobShape
      BY TypeInit
<1>2. DOMAIN journal = {} /\ journal = <<>> /\ Len(journal) = 0 /\ disk = journal
      BY DEF Init
<1>3. HistoryInv
      BY <1>2 DEF HistoryInv, AlwaysReadable, RoundChangesAdvance, Ordered, LockSurvives,
                  ConflictingVerifyJustified, CommitAndFinalizeFollowLock, FinalizedBehind,
                  FinalityBeforeAdvance
<1>4. WriterPosition
      BY DEF Init, WriterPosition
<1>5. OnDisk /\ Durable
      BY <1>2 DEF Init, OnDisk, Durable, Unsynced
<1> QED BY <1>1, <1>3, <1>4, <1>5 DEF IInv, Init

\* Nothing unsynced is in the journal unless a writer is about to fsync it.
LEMMA KeptIsJournal ==
    ASSUME Durable, fault = "PowerLoss" => \A w \in Writers : pc[w] # "sync"
    PROVE  Kept = journal
BY DEF Durable, Kept

\* The durable records are the first ones of the journal.
LEMMA DurablePrefix ==
    ASSUME TypeOK, OnDisk
    PROVE  \A i \in DOMAIN disk : i \in DOMAIN journal /\ disk[i] = journal[i]
<1>1. /\ DOMAIN disk = 1 .. Len(disk) /\ DOMAIN journal = 1 .. Len(journal)
      /\ Len(disk) \in Nat /\ Len(journal) \in Nat
      BY DEF TypeOK
<1> QED BY <1>1 DEF OnDisk

\* A step that writes no record and signs nothing.
LEMMA QuietStep ==
    ASSUME IInv, TypeOK', JobShape', WriterPosition', UNCHANGED <<journal, disk, signed, fault>>,
           fault # "Both" /\ cache' # NONE => \E i \in DOMAIN Kept : Kept[i] = cache',
           fault = "PowerLoss" => \A w \in Writers : pc[w] = "sync" => pc'[w] = "sync",
           \A w \in Writers : pc'[w] = "sync" => pc[w] = "sync" /\ job'[w] = job[w]
    PROVE  IInv'
<1>1. HistoryInv'
  <2>1. journal \in Seq(RecordType) /\ HistoryInv
        BY DEF IInv, TypeOK
  <2>2. Len(journal') <= Len(journal)
        BY <2>1
  <2> QED BY <2>1, <2>2, PrefixHistory
<1>2. Kept' = Kept
      BY DEF Kept
<1>3. OnDisk'
      BY DEF IInv, OnDisk
<1>4. ASSUME fault # "Both" PROVE Durable'
  <2>1. Unsynced'
        BY <1>4 DEF IInv, Durable, Unsynced, Follows
  <2> QED BY <1>2, <1>4, <2>1 DEF IInv, Durable
<1> QED BY <1>1, <1>3, <1>4 DEF IInv

\* A writer that renames its record appends it to the journal.
LEMMA RenameStep ==
    ASSUME IInv, TypeOK', JobShape', NEW w \in Writers, \A v \in Writers : v = w, Rename(w)
    PROVE  IInv'
<1> USE DEF IInv
<1> DEFINE r == job[w].rec
<1>1. /\ pc[w] = "rename" /\ UNCHANGED <<disk, cache, job, signed, fault>>
      /\ pc' = [pc EXCEPT ![w] = "sync"]
      BY DEF Rename, Goto
<1>2. job[w].seq = Len(journal) + 1 /\ Follows(journal, r)
      BY <1>1 DEF WriterPosition
<1>3. /\ journal \in Seq(RecordType) /\ r \in RecordType /\ Len(journal) \in Nat
      /\ DOMAIN pc = Writers
      BY DEF TypeOK, JobType
<1>4. journal' = Append(journal, r)
  <2>1. ~ (job[w].seq <= Len(journal))
        BY <1>2, <1>3
  <2> QED BY <2>1 DEF Rename
<1> HIDE DEF r
<1>5. /\ Len(journal') = Len(journal) + 1 /\ DOMAIN journal' = 1 .. Len(journal) + 1
      /\ journal'[Len(journal) + 1] = r
      /\ \A i \in 1 .. Len(journal) : journal'[i] = journal[i]
      /\ DOMAIN journal = 1 .. Len(journal)
      BY <1>3, <1>4, AppendedJournal
<1>6. HistoryInv'
  <2>1. CASE journal = <<>>
        BY <1>2, <1>4, <2>1, FirstHistory DEF Follows
  <2>2. CASE journal # <<>>
    <3>1. PICK d \in Decisions :
             /\ WellShaped(d) /\ Accepts(journal[Len(journal)], d)
             /\ r = NextRecord(journal[Len(journal)], d)
          BY <1>2, <2>2 DEF Follows
    <3> QED BY <1>3, <1>4, <2>2, <3>1, AppendHistory
  <2> QED BY <2>1, <2>2
<1>7. WriterPosition'
  <2>1. pc'[w] = "sync" /\ job'[w].seq = Len(journal) + 1 /\ job'[w].rec = r
        BY <1>1, <1>2, <1>3 DEF r
  <2>2. Len(journal) + 1 \in DOMAIN journal'
        BY <1>3, <1>5
  <2> QED BY <1>5, <2>1, <2>2 DEF WriterPosition
<1>8. \A i \in DOMAIN Kept : i \in DOMAIN Kept' /\ Kept'[i] = Kept[i]
      BY <1>1, <1>3, <1>5 DEF Kept
<1>9. OnDisk'
  <2>1. Len(disk) \in Nat /\ DOMAIN disk = 1 .. Len(disk)
        BY DEF TypeOK
  <2> QED BY <1>1, <1>3, <1>5, <2>1 DEF OnDisk
<1>10. ASSUME fault # "Both" PROVE Durable'
  <2>1. pc'[w] = "sync" /\ job'[w].rec = r
        BY <1>1, <1>3 DEF r
  <2>2. Unsynced'
    <3> SUFFICES ASSUME fault = "PowerLoss"
                 PROVE  journal' = Append(disk, r) /\ Follows(disk, r)
        BY <1>1, <2>1 DEF Unsynced, Follows
    <3>1. disk = journal
          BY <1>1, <1>10 DEF Durable
    <3> QED BY <1>2, <1>4, <3>1
  <2>3. \A u \in signed' : \E i \in DOMAIN Kept' : VoteOf(Kept'[i]) = u
        BY <1>1, <1>8, <1>10 DEF Durable
  <2>4. cache' # NONE => \E i \in DOMAIN Kept' : Kept'[i] = cache'
        BY <1>1, <1>8, <1>10 DEF Durable
  <2> QED BY <1>1, <2>1, <2>2, <2>3, <2>4 DEF Durable
<1> QED BY <1>1, <1>6, <1>7, <1>9, <1>10

\* A directory fsync makes the whole journal durable.
LEMMA DirSyncStep ==
    ASSUME IInv, TypeOK', JobShape', NEW w \in Writers, \A v \in Writers : v = w, DirSync(w)
    PROVE  IInv'
<1> USE DEF IInv
<1>1. /\ pc[w] = "sync" /\ disk' = journal /\ UNCHANGED <<journal, cache, job, signed, fault>>
      /\ pc' = [pc EXCEPT ![w] = "cache"] /\ DOMAIN pc = Writers
      BY DEF DirSync, Goto, TypeOK
<1>2. HistoryInv'
  <2>1. journal \in Seq(RecordType) /\ Len(journal') <= Len(journal)
        BY <1>1 DEF TypeOK
  <2> QED BY <1>1, <2>1, PrefixHistory
<1>3. WriterPosition'
      BY <1>1 DEF WriterPosition
<1>4. \A i \in DOMAIN Kept : i \in DOMAIN Kept' /\ Kept'[i] = Kept[i]
      BY <1>1, DurablePrefix DEF Kept
<1>5. OnDisk'
      BY <1>1 DEF TypeOK, OnDisk
<1>6. ASSUME fault # "Both" PROVE Durable'
      BY <1>1, <1>4, <1>6 DEF Durable, Unsynced
<1> QED BY <1>1, <1>2, <1>3, <1>5, <1>6

\* What prepareConsensusSignature signs is in a record that cannot be lost.
LEMMA SignStep ==
    ASSUME IInv, TypeOK', JobShape', NEW w \in Writers, \A v \in Writers : v = w, Sign(w)
    PROVE  IInv'
<1> USE DEF IInv
<1>1. /\ pc[w] = "sign" /\ pc'[w] = "idle" /\ UNCHANGED <<journal, disk, cache, fault>>
      /\ signed' = signed \cup {Vote(job[w].rec, job[w].msg)}
      BY DEF Sign, Finish, Goto, TypeOK
<1>2. HistoryInv'
  <2>1. journal \in Seq(RecordType) /\ Len(journal') <= Len(journal)
        BY <1>1 DEF TypeOK
  <2> QED BY <1>1, <2>1, PrefixHistory
<1>3. WriterPosition'
      BY <1>1 DEF WriterPosition
<1>4. OnDisk'
      BY <1>1 DEF OnDisk
<1>5. ASSUME fault # "Both" PROVE Durable'
  <2>1. Kept = journal /\ Kept' = Kept
    <3>1. Kept = journal
          BY <1>1, <1>5, KeptIsJournal
    <3> QED BY <1>1, <3>1 DEF Kept
  <2>2. /\ job[w].seq \in DOMAIN Kept /\ Kept[job[w].seq] = job[w].rec
        /\ job[w].rec.msg = job[w].msg
        BY <1>1, <2>1 DEF WriterPosition, JobShape
  <2>3. \A u \in signed' : \E i \in DOMAIN Kept' : VoteOf(Kept'[i]) = u
        BY <1>1, <1>5, <2>1, <2>2 DEF Durable, VoteOf, Vote
  <2>4. Unsynced'
        BY <1>1 DEF Unsynced
  <2> QED BY <1>1, <1>5, <2>1, <2>3, <2>4 DEF Durable
<1> QED BY <1>1, <1>2, <1>3, <1>4, <1>5

\* A power loss takes back only what was never fsynced.
LEMMA PowerLossStep ==
    ASSUME IInv, TypeOK', JobShape', PowerLoss
    PROVE  IInv'
<1> USE DEF IInv
<1>1. /\ fault \in {"PowerLoss", "Both"} /\ journal' \in {journal, disk} /\ disk' = journal'
      /\ cache' \in {cache, NONE} /\ UNCHANGED <<signed, fault>>
      /\ \A w \in Writers : pc'[w] = "idle"
      BY DEF PowerLoss
<1>2. /\ journal \in Seq(RecordType) /\ disk \in Seq(RecordType)
      /\ DOMAIN disk = 1 .. Len(disk) /\ DOMAIN journal = 1 .. Len(journal)
      /\ Len(disk) \in Nat /\ Len(journal) \in Nat
      /\ Len(disk) <= Len(journal) /\ \A i \in DOMAIN disk : disk[i] = journal[i]
      BY DEF TypeOK, OnDisk
<1>3. HistoryInv'
  <2>1. /\ journal' \in Seq(RecordType) /\ Len(journal') <= Len(journal)
        /\ \A i \in 1 .. Len(journal') : journal'[i] = journal[i]
        BY <1>1, <1>2
  <2> QED BY <1>2, <2>1, PrefixHistory
<1>4. WriterPosition'
      BY <1>1 DEF WriterPosition
<1>5. OnDisk'
      BY <1>1, <1>2 DEF OnDisk
<1>6. ASSUME fault # "Both" PROVE Durable'
  <2>1. fault = "PowerLoss"
        BY <1>1, <1>6
  <2>2. \A i \in DOMAIN Kept : i \in DOMAIN Kept' /\ Kept'[i] = Kept[i]
        BY <1>1, <1>2, <2>1 DEF Kept
  <2>3. /\ \A u \in signed' : \E i \in DOMAIN Kept' : VoteOf(Kept'[i]) = u
        /\ cache' # NONE => \E i \in DOMAIN Kept' : Kept'[i] = cache'
        BY <1>1, <1>6, <2>2 DEF Durable
  <2>4. Unsynced'
        BY <1>1 DEF Unsynced
  <2> QED BY <1>1, <2>3, <2>4 DEF Durable
<1> QED BY <1>1, <1>3, <1>4, <1>5, <1>6

\* The steps that only move a writer or rewrite the cache.
LEMMA QuietSteps ==
    ASSUME IInv, TypeOK', JobShape', NEW w \in Writers, \A v \in Writers : v = w,
           \/ Initialize(w)
           \/ \E d \in Decisions : \E sign \in BOOLEAN : Prepare(w, d, sign)
           \/ \E d \in Decisions : Replay(w, d)
           \/ Stat(w) \/ WriteCache(w) \/ RepairCache(w) \/ Interrupted(w)
    PROVE  IInv'
<1> USE DEF IInv
<1>0. /\ journal \in Seq(RecordType) /\ DOMAIN journal = 1 .. Len(journal) /\ Len(journal) \in Nat
      /\ DOMAIN pc = Writers /\ DOMAIN job = Writers
      BY DEF TypeOK
<1>1. ASSUME UNCHANGED <<journal, disk, signed, fault>>, pc'[w] # "idle" => pc'[w] \in {"stat", "rename"},
             pc'[w] # "idle" => job'[w].seq = Len(journal) + 1 /\ Follows(journal, job'[w].rec)
      PROVE  WriterPosition'
      BY <1>1 DEF WriterPosition, Follows
<1>2. ASSUME UNCHANGED <<journal, disk, signed, fault>>, pc'[w] \in {"idle", "sign"},
             pc'[w] = "sign" => job'[w].seq \in DOMAIN journal /\ journal[job'[w].seq] = job'[w].rec
      PROVE  WriterPosition'
      BY <1>2 DEF WriterPosition
<1>3. fault # "Both" /\ cache # NONE => \E i \in DOMAIN Kept : Kept[i] = cache
      BY DEF Durable
<1>4. CASE Initialize(w)
  <2>1. /\ pc[w] = "idle" /\ journal = <<>> /\ UNCHANGED <<journal, disk, cache, signed, fault>>
        /\ pc'[w] = "stat" /\ job'[w].seq = 1 /\ job'[w].rec = Bootstrap
        BY <1>0, <1>4 DEF Initialize, Start, Goto
  <2>2. Len(journal) + 1 = 1 /\ Follows(journal, Bootstrap)
        BY <2>1 DEF Follows
  <2>3. WriterPosition'
        BY <1>1, <2>1, <2>2
  <2> QED BY <1>3, <2>1, <2>3, QuietStep
<1>5. ASSUME NEW d \in Decisions, NEW sign \in BOOLEAN, Prepare(w, d, sign)
      PROVE  IInv'
  <2> DEFINE r == NextRecord(journal[Len(journal)], d)
  <2>1. /\ pc[w] = "idle" /\ UNCHANGED <<journal, disk, cache, signed, fault>>
        /\ WellShaped(d) /\ HistoryVerifies(journal) /\ Accepts(journal[Len(journal)], d)
        /\ pc'[w] = "stat" /\ job'[w].seq = Len(journal) + 1 /\ job'[w].rec = r
        BY <1>0, <1>5 DEF Prepare, Start, Goto
  <2>2. Follows(journal, r)
        BY <2>1 DEF Follows, HistoryVerifies
  <2> HIDE DEF r
  <2>3. WriterPosition'
        BY <1>1, <2>1, <2>2
  <2> QED BY <1>3, <2>1, <2>3, QuietStep
<1>6. ASSUME NEW d \in Decisions, Replay(w, d)
      PROVE  IInv'
  <2>1. PICK i \in DOMAIN journal : Start(w, "sign", journal[i], i, d.msg)
        BY <1>6 DEF Replay
  <2>2. /\ pc[w] = "idle" /\ UNCHANGED <<journal, disk, cache, signed, fault>>
        /\ pc'[w] = "sign" /\ job'[w].seq = i /\ job'[w].rec = journal[i]
        BY <1>0, <1>6, <2>1 DEF Replay, Start, Goto
  <2>3. WriterPosition'
        BY <1>2, <2>2
  <2> QED BY <1>3, <2>2, <2>3, QuietStep
<1>7. CASE Stat(w)
  <2>1. /\ pc[w] = "stat" /\ UNCHANGED <<journal, disk, cache, signed, fault>>
        /\ job[w].seq = Len(journal) + 1 /\ Follows(journal, job[w].rec)
        BY <1>7 DEF Stat, WriterPosition
  <2>2. job[w].seq \notin DOMAIN journal
        BY <1>0, <2>1
  <2>3. pc'[w] = "rename" /\ job' = job
        BY <1>0, <1>7, <2>2 DEF Stat, Goto
  <2>4. WriterPosition'
        BY <1>1, <2>1, <2>3
  <2> QED BY <1>3, <2>1, <2>3, <2>4, QuietStep
<1>8. CASE WriteCache(w)
  <2>1. /\ pc[w] = "cache" /\ UNCHANGED <<journal, disk, signed, fault>> /\ cache' = job[w].rec
        /\ job[w].seq \in DOMAIN journal /\ journal[job[w].seq] = job[w].rec
        BY <1>8 DEF WriteCache, WriterPosition
  <2>2. pc'[w] = "idle" \/ (pc'[w] = "sign" /\ job' = job)
        BY <1>0, <1>8 DEF WriteCache, Finish, Goto
  <2>3. WriterPosition'
        BY <1>2, <2>1, <2>2
  <2>4. fault # "Both" => Kept = journal
        BY <2>1, KeptIsJournal
  <2>5. fault # "Both" /\ cache' # NONE => \E i \in DOMAIN Kept : Kept[i] = cache'
        BY <2>1, <2>4
  <2>6. \A v \in Writers : pc[v] # "sync" /\ pc'[v] # "sync"
        BY <2>1, <2>2
  <2> QED BY <2>1, <2>3, <2>5, <2>6, QuietStep
<1>9. CASE RepairCache(w)
  <2>1. /\ pc[w] = "idle" /\ UNCHANGED <<journal, disk, pc, job, signed, fault>>
        /\ HistoryVerifies(journal) /\ cache' = journal[Len(journal)]
        BY <1>9 DEF RepairCache
  <2>2. Len(journal) \in DOMAIN journal
        BY <1>0, <2>1 DEF HistoryVerifies
  <2>3. WriterPosition'
        BY <1>2, <2>1
  <2>4. fault # "Both" => Kept = journal
        BY <2>1, KeptIsJournal
  <2> QED BY <2>1, <2>2, <2>3, <2>4, QuietStep
<1>10. CASE Interrupted(w)
  <2>1. /\ UNCHANGED <<journal, disk, cache, signed, fault>> /\ pc'[w] = "idle"
        /\ pc[w] = "sync" => fault # "PowerLoss"
        BY <1>0, <1>10 DEF Interrupted, Finish, Goto
  <2>2. WriterPosition'
        BY <1>2, <2>1
  <2> QED BY <1>3, <2>1, <2>2, QuietStep
<1> QED BY <1>4, <1>5, <1>6, <1>7, <1>8, <1>9, <1>10

\* Every step of the one writer, and a power loss, keeps the inductive invariant.
LEMMA NextInv == IInv /\ OneWriter /\ [Next]_vars => IInv'
<1> SUFFICES ASSUME IInv, OneWriter, [Next]_vars PROVE IInv'
    OBVIOUS
<1>1. TypeOK' /\ JobShape'
      BY TypeNext DEF IInv
<1>2. CASE UNCHANGED vars
  <2>1. UNCHANGED <<journal, disk, signed, fault>> /\ cache' = cache /\ pc' = pc /\ job' = job
        BY <1>2 DEF vars
  <2>2. WriterPosition'
        BY <1>2 DEF vars, IInv, WriterPosition, Follows
  <2>3. fault # "Both" /\ cache # NONE => \E i \in DOMAIN Kept : Kept[i] = cache
        BY DEF IInv, Durable
  <2> QED BY <1>1, <1>2, <2>1, <2>2, <2>3, QuietStep
<1>3. ASSUME NEW w \in Writers,
             \/ Initialize(w)
             \/ \E d \in Decisions : \E sign \in BOOLEAN : Prepare(w, d, sign)
             \/ \E d \in Decisions : Replay(w, d)
             \/ Stat(w) \/ Rename(w) \/ DirSync(w)
             \/ WriteCache(w) \/ Sign(w) \/ RepairCache(w) \/ Interrupted(w)
      PROVE  IInv'
  <2>1. \A v \in Writers : v = w
        BY DEF OneWriter
  <2> QED BY <1>1, <1>3, <2>1, QuietSteps, RenameStep, DirSyncStep, SignStep
<1>4. CASE PowerLoss
      BY <1>1, <1>4, PowerLossStep
<1> QED BY <1>2, <1>3, <1>4 DEF Next

------------------------------------------------------------------------------
(***************************************************************************)
(* What the journal guarantees with one writer at a time.                  *)
(***************************************************************************)

\* One slot of the journal holds one record.
LEMMA OneRecordPerSlot ==
    ASSUME TypeOK, Ordered, NEW i \in DOMAIN journal, NEW j \in DOMAIN journal,
           SameSlot(journal[i], journal[j])
    PROVE  i = j
<1>1. /\ i \in Int /\ j \in Int /\ journal[i] \in RecordType /\ journal[j] \in RecordType
      BY DEF TypeOK
<1>2. /\ journal[i].height \in Nat /\ journal[i].round \in Nat /\ StepRank(journal[i].step) \in Nat
      BY <1>1, RankIsNat DEF RecordType
<1>3. ~ Before(journal[i], journal[j]) /\ ~ Before(journal[j], journal[i])
      BY <1>2 DEF SameSlot, Before
<1> QED BY <1>1, <1>3 DEF Ordered

\* Two signed votes of one slot are in the journal, which holds one record of it.
LEMMA InvNoEquivocation == IInv /\ NoDoubleFault => NoEquivocation
<1> SUFFICES ASSUME IInv, NoDoubleFault, NEW u \in signed, NEW v \in signed,
                    u.height = v.height, u.round = v.round, u.step = v.step
             PROVE  u = v
    BY DEF NoEquivocation
<1>1. PICK i \in DOMAIN Kept : VoteOf(Kept[i]) = u
      BY DEF IInv, Durable, NoDoubleFault
<1>2. PICK j \in DOMAIN Kept : VoteOf(Kept[j]) = v
      BY DEF IInv, Durable, NoDoubleFault
<1>3. \A k \in DOMAIN Kept : k \in DOMAIN journal /\ Kept[k] = journal[k]
      BY DurablePrefix DEF IInv, Kept
<1>4. SameSlot(journal[i], journal[j])
      BY <1>1, <1>2, <1>3 DEF VoteOf, Vote, SameSlot
<1>5. i = j
      BY <1>3, <1>4, OneRecordPerSlot DEF IInv, HistoryInv
<1> QED BY <1>1, <1>2, <1>5

\* The inductive invariant holds throughout, whatever fails.
THEOREM Invariance ==
    ASSUME OneWriter PROVE Spec => []IInv
<1>1. Init => IInv
      BY InitInv
<1>2. IInv /\ [Next]_vars => IInv'
      BY NextInv
<1> QED BY <1>1, <1>2, PTL DEF Spec

\* A validator whose processes take turns never signs two different votes for one
\* height, round and step, through kills, failed calls, lost cache files, power
\* losses and repeated requests, for any set of decisions and any journal length.
THEOREM Safety ==
    ASSUME OneWriter, NoDoubleFault PROVE Spec => []NoEquivocation
<1>1. IInv => NoEquivocation
      BY InvNoEquivocation
<1> QED BY <1>1, Invariance, PTL

\* The record appended after a lock, a round change or a restart is always one
\* that readConsensusSafetyHistory accepts.
THEOREM Readable ==
    ASSUME OneWriter PROVE Spec => []AlwaysReadable
<1>1. IInv => AlwaysReadable
      BY DEF IInv, HistoryInv
<1> QED BY <1>1, Invariance, PTL

\* The lock of a height survives everything up to the next height: each record
\* copies the one before (recordConsensusSafetyDecision).
THEOREM LocksKept ==
    ASSUME OneWriter PROVE Spec => []LockSurvives
<1>1. IInv => LockSurvives
      BY DEF IInv, HistoryInv
<1> QED BY <1>1, Invariance, PTL

\* A VERIFY against the lock cites an unlock proof of a later round, through any
\* number of rounds and restarts (validateSafetyTransition).
THEOREM UnlocksProved ==
    ASSUME OneWriter PROVE Spec => []ConflictingVerifyJustified
<1>1. IInv => ConflictingVerifyJustified
      BY DEF IInv, HistoryInv
<1> QED BY <1>1, Invariance, PTL

\* A COMMIT has a LOCK record of its round and DIR, a FINALIZE one of its height,
\* not only a lock carried along to compare with (validateSafetyTransition).
THEOREM LocksFollowed ==
    ASSUME OneWriter PROVE Spec => []CommitAndFinalizeFollowLock
<1>1. IInv => CommitAndFinalizeFollowLock
      BY DEF IInv, HistoryInv
<1> QED BY <1>1, Invariance, PTL

\* A height is left only through its FINALIZE.
THEOREM HeightsFinalized ==
    ASSUME OneWriter PROVE Spec => []FinalityBeforeAdvance
<1>1. IInv => FinalityBeforeAdvance
      BY DEF IInv, HistoryInv
<1> QED BY <1>1, Invariance, PTL

\* The cache never shows a decision that the journal does not have, whichever
\* step of the write is cut off (recordConsensusSafetyDecision).
THEOREM CacheFollows ==
    ASSUME OneWriter, NoDoubleFault PROVE Spec => []CacheIsJournaled
<1>1. IInv => CacheIsJournaled
  <2> SUFFICES ASSUME IInv PROVE CacheIsJournaled
      OBVIOUS
  <2>1. \A k \in DOMAIN Kept : k \in DOMAIN journal /\ Kept[k] = journal[k]
        BY DurablePrefix DEF IInv, Kept
  <2> QED BY <2>1 DEF IInv, Durable, NoDoubleFault, CacheIsJournaled
<1> QED BY <1>1, Invariance, PTL

\* A signature is never ahead of what a power loss leaves
\* (prepareConsensusSignature signs what is recorded).
THEOREM Persistence ==
    ASSUME OneWriter PROVE Spec => []SignedSurvivesPowerLoss
<1>1. IInv => SignedSurvivesPowerLoss
      BY DEF IInv, Durable, Kept, SignedSurvivesPowerLoss, PersistBeforeSign
<1> QED BY <1>1, Invariance, PTL

\* With one writer at a time no record file is ever replaced.
THEOREM Immutable ==
    ASSUME OneWriter PROVE Spec => RecordsImmutable
<1> DEFINE Stay == \A i \in DOMAIN journal \cap DOMAIN journal' : journal'[i] = journal[i]
<1>1. IInv /\ [Next]_vars => [Stay]_journal
  <2> SUFFICES ASSUME IInv, [Next]_vars, journal' # journal PROVE Stay
      OBVIOUS
  <2>1. CASE PowerLoss
    <3>1. \A i \in DOMAIN disk : disk[i] = journal[i]
          BY DEF IInv, OnDisk
    <3> QED BY <2>1, <3>1 DEF PowerLoss
  <2>2. ASSUME NEW w \in Writers, Rename(w) PROVE Stay
    <3>1. job[w].seq = Len(journal) + 1 /\ journal \in Seq(RecordType) /\ Len(journal) \in Nat
          BY <2>2 DEF IInv, WriterPosition, Rename, TypeOK
    <3>2. journal' = Append(journal, job[w].rec)
          BY <2>2, <3>1 DEF Rename
    <3> QED BY <3>1, <3>2
  <2>3. PowerLoss \/ \E w \in Writers : Rename(w)
        BY DEF Next, vars, Initialize, Prepare, Replay, Stat, DirSync, WriteCache, Sign,
               RepairCache, Interrupted
  <2> QED BY <2>1, <2>2, <2>3
<1> QED BY <1>1, Invariance, PTL DEF Spec, RecordsImmutable

------------------------------------------------------------------------------
(***************************************************************************)
(* The journal is an atomic one.                                           *)
(***************************************************************************)

\* The abstract journal applies the rules of this one.
LEMMA SameRules ==
    /\ Atomic!Bootstrap = Bootstrap /\ Atomic!VoteSteps = VoteSteps
    /\ \A d : Atomic!WellShaped(d) = WellShaped(d)
    /\ \A p, d : Atomic!NextRecord(p, d) = NextRecord(p, d)
    /\ \A p, d : Atomic!Accepts(p, d) = Accepts(p, d)
<1>1. /\ Atomic!Bootstrap = Bootstrap /\ Atomic!VoteSteps = VoteSteps
      BY DEF Atomic!Bootstrap, Bootstrap, Atomic!NoRound, NoRound, Atomic!VoteSteps, VoteSteps
<1>2. \A d : Atomic!WellShaped(d) = WellShaped(d)
      BY DEF Atomic!WellShaped, WellShaped, Atomic!NoRound, NoRound, Atomic!VoteSteps, VoteSteps
<1>3. \A p, r : Atomic!Conflicts(p, r) = Conflicts(p, r)
      BY DEF Atomic!Conflicts, Conflicts
<1>4. \A p, d : Atomic!NextRecord(p, d) = NextRecord(p, d)
      BY <1>3 DEF Atomic!NextRecord, NextRecord, Atomic!NoRound, NoRound
<1>5. \A p, r : Atomic!ValidTransition(p, r) = ValidTransition(p, r)
  <2> SUFFICES ASSUME NEW p, NEW r PROVE Atomic!ValidTransition(p, r) = ValidTransition(p, r)
      OBVIOUS
  <2>1. \A s : Atomic!StepRank(s) = StepRank(s)
        BY DEF Atomic!StepRank, StepRank
  <2>2. Atomic!OrderOK(p, r) = OrderOK(p, r)
        BY <2>1 DEF Atomic!OrderOK, OrderOK, Atomic!MinimumRoundAfter, MinimumRoundAfter
  <2>3. Atomic!AdvanceOK(p, r) = AdvanceOK(p, r)
        BY DEF Atomic!AdvanceOK, AdvanceOK, Atomic!NoRound, NoRound
  <2>4. Atomic!UnlockOK(p, r) = UnlockOK(p, r) /\ Atomic!LockOK(p, r) = LockOK(p, r)
        BY <1>3 DEF Atomic!UnlockOK, UnlockOK, Atomic!LockOK, LockOK
  <2>5. Atomic!CommitOK(p, r) = CommitOK(p, r) /\ Atomic!FinalizeOK(p, r) = FinalizeOK(p, r)
        BY <2>1 DEF Atomic!CommitOK, CommitOK, Atomic!FinalizeOK, FinalizeOK,
                    Atomic!MatchesLock, MatchesLock
  <2> QED BY <2>2, <2>3, <2>4, <2>5 DEF Atomic!ValidTransition, ValidTransition
<1>6. \A p, d : Atomic!Accepts(p, d) = Accepts(p, d)
      BY <1>4, <1>5 DEF Atomic!Accepts, Accepts
<1> QED BY <1>1, <1>2, <1>4, <1>6

\* A legal record after all the others is a decision of the abstract journal.
LEMMA AppendDecides ==
    ASSUME Kept \in Seq(RecordType), NEW r \in RecordType, Follows(Kept, r),
           \A i \in DOMAIN Kept : Before(Kept[i], r),
           Kept' = Append(Kept, r), UNCHANGED signed
    PROVE  Atomic!Next
<1>1. CASE Kept = <<>>
  <2>1. Kept' = <<Bootstrap>>
        BY <1>1 DEF Follows
  <2> QED BY <1>1, <2>1, SameRules DEF Atomic!Next, Atomic!Begin
<1>2. CASE Kept # <<>>
  <2>1. PICK d \in Decisions :
           /\ WellShaped(d) /\ Accepts(Kept[Len(Kept)], d)
           /\ r = NextRecord(Kept[Len(Kept)], d)
        BY <1>2 DEF Follows
  <2>2. r.height = d.height /\ r.round = d.round /\ r.step = d.step
        BY <2>1 DEF NextRecord
  <2>3. ASSUME NEW i \in DOMAIN Kept PROVE ~ Atomic!SameSlot(Kept[i], d)
    <3>1. Kept[i] \in RecordType /\ Before(Kept[i], r)
          BY <2>3
    <3>2. /\ r.height \in Nat /\ r.round \in Nat /\ StepRank(r.step) \in Nat
          BY RankIsNat DEF RecordType
    <3> QED BY <2>2, <3>1, <3>2 DEF Before, Atomic!SameSlot
  <2>4. Atomic!Decide(d)
        BY <1>2, <2>1, <2>3, SameRules DEF Atomic!Decide
  <2> QED BY <2>4 DEF Atomic!Next
<1> QED BY <1>1, <1>2

\* A record renamed into place comes after all the others.
LEMMA LastIsAfter ==
    ASSUME Ordered, NEW j \in Seq(RecordType), NEW r \in RecordType, journal = Append(j, r)
    PROVE  \A i \in DOMAIN j : Before(j[i], r)
<1> SUFFICES ASSUME NEW i \in DOMAIN j PROVE Before(j[i], r)
    OBVIOUS
<1>1. /\ i \in 1 .. Len(j) /\ Len(j) \in Nat /\ DOMAIN journal = 1 .. Len(j) + 1
      /\ journal[i] = j[i] /\ journal[Len(j) + 1] = r
      BY AppendedJournal
<1>2. i < Len(j) + 1 /\ i \in DOMAIN journal /\ Len(j) + 1 \in DOMAIN journal
      BY <1>1
<1> QED BY <1>1, <1>2 DEF Ordered

\* A power loss keeps what is kept, and with it the unsynced record or not.
LEMMA PowerLossImplements ==
    ASSUME IInv, fault # "Both", OneWriter, PowerLoss
    PROVE  Atomic!Next \/ UNCHANGED <<Kept, signed>>
<1> USE DEF IInv
<1>1. /\ fault = "PowerLoss" /\ Kept = disk /\ Kept' = journal' /\ journal' \in {journal, disk}
      /\ UNCHANGED signed
      BY DEF PowerLoss, Kept
<1>2. CASE journal' = disk
      BY <1>1, <1>2
<1>3. CASE journal' = journal /\ journal # disk
  <2>1. PICK w \in Writers : journal = Append(disk, job[w].rec) /\ Follows(disk, job[w].rec)
        BY <1>1, <1>3 DEF Durable, Unsynced
  <2> DEFINE r == job[w].rec
  <2>2. r \in RecordType /\ disk \in Seq(RecordType)
        BY DEF TypeOK, JobType
  <2>3. journal = Append(disk, r) /\ Follows(disk, r)
        BY <2>1
  <2> HIDE DEF r
  <2>4. \A i \in DOMAIN disk : Before(disk[i], r)
        BY <2>2, <2>3, LastIsAfter DEF HistoryInv
  <2> QED BY <1>1, <1>3, <2>2, <2>3, <2>4, AppendDecides
<1> QED BY <1>1, <1>2, <1>3

\* A rename is the decision when nothing can be lost, the directory fsync when
\* the unsynced can.
LEMMA WriteImplements ==
    ASSUME IInv, Ordered', fault # "Both", NEW w \in Writers, \A v \in Writers : v = w,
           Rename(w) \/ DirSync(w)
    PROVE  Atomic!Next \/ UNCHANGED <<Kept, signed>>
<1> USE DEF IInv
<1> DEFINE r == job[w].rec
<1>1. /\ UNCHANGED <<job, signed, fault>>
      /\ journal \in Seq(RecordType) /\ disk \in Seq(RecordType) /\ r \in RecordType
      /\ Len(journal) \in Nat
      BY DEF Rename, DirSync, TypeOK, JobType
<1>2. CASE Rename(w)
  <2>1. job[w].seq = Len(journal) + 1 /\ Follows(journal, r) /\ UNCHANGED disk
        BY <1>2 DEF Rename, WriterPosition
  <2>2. journal' = Append(journal, r)
    <3>1. ~ (job[w].seq <= Len(journal))
          BY <1>1, <2>1
    <3> QED BY <1>2, <3>1 DEF Rename
  <2>3. CASE fault = "PowerLoss"
        BY <1>1, <2>1, <2>3 DEF Kept
  <2>4. CASE fault # "PowerLoss"
    <3>1. Kept = journal /\ Kept' = journal'
          BY <1>1, <2>4 DEF Kept
    <3> HIDE DEF r
    <3>2. /\ Len(journal') = Len(journal) + 1 /\ journal'[Len(journal) + 1] = r
          /\ DOMAIN journal' = 1 .. Len(journal) + 1 /\ DOMAIN journal = 1 .. Len(journal)
          /\ \A i \in 1 .. Len(journal) : journal'[i] = journal[i]
          BY <1>1, <2>2, AppendedJournal
    <3>3. \A i \in DOMAIN journal : Before(journal[i], r)
      <4> SUFFICES ASSUME NEW i \in 1 .. Len(journal) PROVE Before(journal[i], r)
          BY <3>2
      <4>1. /\ i \in DOMAIN journal' /\ Len(journal) + 1 \in DOMAIN journal' /\ i < Len(journal) + 1
            BY <1>1, <3>2
      <4> QED BY <3>2, <4>1 DEF HistoryInv, Ordered
    <3> QED BY <1>1, <2>1, <2>2, <3>1, <3>3, AppendDecides
  <2> QED BY <2>3, <2>4
<1>3. CASE DirSync(w)
  <2>1. pc[w] = "sync" /\ disk' = journal /\ UNCHANGED journal
        BY <1>3 DEF DirSync
  <2>2. CASE fault # "PowerLoss"
        BY <1>1, <2>1, <2>2 DEF Kept
  <2>3. CASE fault = "PowerLoss"
    <3>1. Kept = disk /\ Kept' = journal
          BY <1>1, <2>1, <2>3 DEF Kept
    <3>2. journal = Append(disk, r) /\ Follows(disk, r)
          BY <2>1, <2>3 DEF Durable, Unsynced
    <3> HIDE DEF r
    <3>3. \A i \in DOMAIN disk : Before(disk[i], r)
          BY <1>1, <3>2, LastIsAfter DEF HistoryInv
    <3> QED BY <1>1, <3>1, <3>2, <3>3, AppendDecides
  <2> QED BY <2>2, <2>3
<1> QED BY <1>2, <1>3

\* A signature is of a vote that is kept.
LEMMA SignImplements ==
    ASSUME IInv, fault # "Both", NEW w \in Writers, \A v \in Writers : v = w, Sign(w)
    PROVE  Atomic!Next
<1> USE DEF IInv
<1> DEFINE i == job[w].seq
<1>1. /\ pc[w] = "sign" /\ UNCHANGED <<journal, disk, fault>>
      /\ signed' = signed \cup {Vote(job[w].rec, job[w].msg)}
      BY DEF Sign
<1>2. Kept = journal /\ UNCHANGED Kept
  <2>1. Kept = journal
        BY <1>1, KeptIsJournal
  <2> QED BY <1>1, <2>1 DEF Kept
<1>3. /\ i \in DOMAIN Kept /\ Kept[i] = job[w].rec
      /\ Kept[i].step \in VoteSteps /\ Kept[i].msg = job[w].msg
      BY <1>1, <1>2 DEF WriterPosition, JobShape
<1>4. Vote(job[w].rec, job[w].msg)
        = [height |-> Kept[i].height, round |-> Kept[i].round, step |-> Kept[i].step,
           msg |-> Kept[i].msg]
      BY <1>3 DEF Vote
<1>5. Atomic!Sign(i)
      BY <1>1, <1>2, <1>3, <1>4, SameRules DEF Atomic!Sign
<1> QED BY <1>3, <1>5 DEF Atomic!Next

\* One process at a time, killed at any step or with power losses: what is kept of
\* its journal is the log of a validator that decides and keeps in one step
\* (recordConsensusSafetyDecision, prepareConsensusSignature).
THEOREM Refinement ==
    ASSUME OneWriter, NoDoubleFault PROVE Spec => ImplementsAtomicJournal
<1>1. Init => Atomic!Init
      BY DEF Init, Atomic!Init, Kept
<1>2. IInv /\ IInv' /\ [Next]_vars => [Atomic!Next]_<<Kept, signed>>
  <2> SUFFICES ASSUME IInv, IInv', [Next]_vars
               PROVE  Atomic!Next \/ UNCHANGED <<Kept, signed>>
      OBVIOUS
  <2>1. fault # "Both"
        BY DEF IInv, NoDoubleFault
  <2>2. ASSUME NEW w \in Writers, Rename(w) \/ DirSync(w) \/ Sign(w)
        PROVE  Atomic!Next \/ UNCHANGED <<Kept, signed>>
    <3>1. \A v \in Writers : v = w
          BY DEF OneWriter
    <3>2. Ordered'
          BY DEF IInv, HistoryInv
    <3> QED BY <2>1, <2>2, <3>1, <3>2, WriteImplements, SignImplements
  <2>3. CASE PowerLoss
        BY <2>1, <2>3, PowerLossImplements
  <2>4. CASE UNCHANGED <<journal, disk, signed, fault>>
        BY <2>4 DEF Kept
  <2> QED BY <2>2, <2>3, <2>4 DEF Next, vars, Initialize, Prepare, Replay, Stat, WriteCache,
                              RepairCache, Interrupted
<1>3. Spec => []IInv
      BY Invariance
<1> QED BY <1>1, <1>2, <1>3, PTL DEF Spec, ImplementsAtomicJournal, Atomic!Spec
=============================================================================
