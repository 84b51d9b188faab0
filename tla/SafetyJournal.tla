---------------------------- MODULE SafetyJournal ----------------------------
(***************************************************************************)
(* The crash/restart consensus-safety journal of one validator:            *)
(* src/tools/portable-validator/consensus_safety.go.                       *)
(*                                                                         *)
(* Before a vote is signed, the decision is appended to a journal of       *)
(* immutable record files; every process that signs reads the whole        *)
(* journal first and refuses a decision that contradicts it.  No lock      *)
(* serialises the processes: a writer reads the history, builds a record,  *)
(* checks that its file does not exist, renames a temporary file onto it,  *)
(* fsyncs the directory, rewrites the cache and then signs, and another    *)
(* process, a kill, a failed call or a power loss may come between any two *)
(* of those steps.  Hash links and record signatures are left out because  *)
(* nothing here forges a record.                                           *)
(***************************************************************************)
EXTENDS SafetyRules, Sequences

CONSTANTS
    Decisions,      \* the decisions callers submit
    Writers,        \* processes working on the same validator directory
    Faults,         \* the fault models explored, see Fault
    VoteAuthority,  \* cfg.VoteAuthority
    MaxRecords      \* bound on the length of the journal

VARIABLES
    journal,        \* the record files as processes see them, in sequence order
    disk,           \* the record files that survive a power loss
    cache,          \* consensus-safety.json, or NONE
    pc,             \* where each writer is in recordConsensusSafetyDecision
    job,            \* what each writer is about to write or sign
    signed,         \* votes whose signature left the validator
    fault           \* the fault model of this behaviour

vars == <<journal, disk, cache, pc, job, signed, fault>>

VoteType == [height : Nat, round : Nat, step : VoteSteps, msg : Digests]

\* A writer may be killed or fail anywhere else in every model.  SyncInterrupted:
\* also between its rename and its directory fsync.  PowerLoss: the machine may
\* lose power.
Fault == {"None", "SyncInterrupted", "PowerLoss", "Both"}

ASSUME InputsAssumption == Decisions \subseteq DecisionType /\ Faults \subseteq Fault
ASSUME ConfigAssumption == VoteAuthority \in BOOLEAN /\ MaxRecords \in Nat

\* readConsensusSafetyHistory accepts the files it finds.
HistoryVerifies(j) ==
    /\ j # <<>> /\ j[1] = Bootstrap
    /\ \A i \in 1 .. Len(j) - 1 : ValidTransition(j[i], j[i + 1])

------------------------------------------------------------------------------
SameSlot(r, d) == r.height = d.height /\ r.round = d.round /\ r.step = d.step

\* Variant: the message hash is not compared.
SameDecisionButMessage(r, d) ==
    /\ r.newRound = d.newRound /\ r.proposal = d.proposal
    /\ r.unlockRound = d.unlockRound /\ r.finalized = d.finalized

SameDecision(r, d) ==
    /\ r.newRound = d.newRound /\ r.proposal = d.proposal /\ r.msg = d.msg
    /\ r.unlockRound = d.unlockRound /\ r.finalized = d.finalized

\* findSafetyDecision looks at the first record of the slot only.
FirstInSlot(d, i) ==
    /\ i \in DOMAIN journal /\ SameSlot(journal[i], d)
    /\ \A k \in 1 .. i - 1 : ~SameSlot(journal[k], d)

Undecided(d) == \A i \in DOMAIN journal : ~SameSlot(journal[i], d)

\* Variant: any recorded decision may be signed.
MaySignAnyStep(d) == VoteAuthority

\* prepareConsensusSignature: who may have d signed.
MaySign(d) == VoteAuthority /\ d.step \in VoteSteps /\ d.msg # NONE

\* What a writer carries: the record, its sequence number (counted from 1) and
\* the message hash to sign, or NONE.
JobType == [rec : RecordType, seq : Nat, msg : OptDigest]
Idle    == [rec |-> Bootstrap, seq |-> 0, msg |-> NONE]

Goto(w, label) == pc' = [pc EXCEPT ![w] = label]
Start(w, label, r, i, msg) ==
    /\ Goto(w, label)
    /\ job' = [job EXCEPT ![w] = [rec |-> r, seq |-> i, msg |-> msg]]
Finish(w) == Goto(w, "idle") /\ job' = [job EXCEPT ![w] = Idle]

------------------------------------------------------------------------------
Init ==
    /\ journal = <<>> /\ disk = <<>> /\ cache = NONE
    /\ pc = [w \in Writers |-> "idle"]
    /\ job = [w \in Writers |-> Idle]
    /\ signed = {}
    /\ fault \in Faults

\* initializeConsensusSafety on an empty directory.
Initialize(w) ==
    /\ pc[w] = "idle" /\ journal = <<>>
    /\ Start(w, "stat", Bootstrap, 1, NONE)
    /\ UNCHANGED <<journal, disk, cache, signed, fault>>

\* recordConsensusSafetyDecision up to the signing of the record: a fresh
\* decision, validated against the latest record.
Prepare(w, d, sign) ==
    /\ pc[w] = "idle"
    /\ sign => MaySign(d)
    /\ WellShaped(d)
    /\ HistoryVerifies(journal)
    /\ Undecided(d)
    /\ Len(journal) < MaxRecords
    /\ LET prev == journal[Len(journal)]
       IN  /\ Accepts(prev, d)
           /\ Start(w, "stat", NextRecord(prev, d), Len(journal) + 1,
                    IF sign THEN d.msg ELSE NONE)
    /\ UNCHANGED <<journal, disk, cache, signed, fault>>

\* The decision is already recorded: the existing record is returned and a
\* vote is signed again.  Nothing is written.
Replay(w, d) ==
    /\ pc[w] = "idle"
    /\ MaySign(d)
    /\ WellShaped(d)
    /\ HistoryVerifies(journal)
    /\ \E i \in DOMAIN journal :
          /\ FirstInSlot(d, i) /\ SameDecision(journal[i], d)
          /\ Start(w, "sign", journal[i], i, d.msg)
    /\ UNCHANGED <<journal, disk, cache, signed, fault>>

\* Variant: the cache is written before the record.
StatThenCache(w) ==
    /\ pc[w] = "stat"
    /\ cache' = job[w].rec
    /\ IF job[w].seq \in DOMAIN journal THEN Finish(w) ELSE Goto(w, "rename") /\ UNCHANGED job
    /\ UNCHANGED <<journal, disk, signed, fault>>

\* writeImmutableSafetyRecord: os.Stat refuses an existing file ...
Stat(w) ==
    /\ pc[w] = "stat"
    /\ IF job[w].seq \in DOMAIN journal THEN Finish(w) ELSE Goto(w, "rename") /\ UNCHANGED job
    /\ UNCHANGED <<journal, disk, cache, signed, fault>>

\* ... os.Rename of the written and fsynced temporary file replaces whatever
\* is there by then ...
Rename(w) ==
    /\ pc[w] = "rename"
    /\ journal' = IF job[w].seq <= Len(journal)
                  THEN [journal EXCEPT ![job[w].seq] = job[w].rec]
                  ELSE Append(journal, job[w].rec)
    /\ Goto(w, "sync")
    /\ UNCHANGED <<disk, cache, job, signed, fault>>

\* Variant: the directory is not fsynced.
NoDirSync(w) ==
    /\ pc[w] = "sync"
    /\ Goto(w, "cache")
    /\ UNCHANGED <<journal, disk, cache, job, signed, fault>>

\* ... and the directory is fsynced, which makes the renames durable.
DirSync(w) ==
    /\ pc[w] = "sync"
    /\ disk' = journal
    /\ Goto(w, "cache")
    /\ UNCHANGED <<journal, cache, job, signed, fault>>

\* writeSafetyCache, the last write of recordConsensusSafetyDecision.
WriteCache(w) ==
    /\ pc[w] = "cache"
    /\ cache' = job[w].rec
    /\ IF job[w].msg = NONE THEN Finish(w) ELSE Goto(w, "sign") /\ UNCHANGED job
    /\ UNCHANGED <<journal, disk, signed, fault>>

\* prepareConsensusSignature signs decision.MessageHash.
Vote(r, msg) == [height |-> r.height, round |-> r.round, step |-> r.step, msg |-> msg]
VoteOf(r)    == Vote(r, r.msg)

Sign(w) ==
    /\ pc[w] = "sign"
    /\ signed' = signed \cup {Vote(job[w].rec, job[w].msg)}
    /\ Finish(w)
    /\ UNCHANGED <<journal, disk, cache, fault>>

\* verify-consensus-safety -repair-cache.
RepairCache(w) ==
    /\ pc[w] = "idle" /\ HistoryVerifies(journal)
    /\ cache' = journal[Len(journal)]
    /\ UNCHANGED <<journal, disk, pc, job, signed, fault>>

\* The process is killed, or a call fails and the error is returned: what was
\* written stays.
Interrupted(w) ==
    /\ pc[w] # "idle"
    /\ pc[w] = "sync" => fault \in {"SyncInterrupted", "Both"}
    /\ Finish(w)
    /\ UNCHANGED <<journal, disk, cache, signed, fault>>

\* The machine stops; unsynced renames may be lost, and so may the cache,
\* which is never fsynced.
PowerLoss ==
    /\ fault \in {"PowerLoss", "Both"}
    /\ journal' \in {journal, disk} /\ disk' = journal'
    /\ cache' \in {cache, NONE}
    /\ pc' = [w \in Writers |-> "idle"] /\ job' = [w \in Writers |-> Idle]
    /\ UNCHANGED <<signed, fault>>

Next ==
    \/ \E w \in Writers :
          \/ Initialize(w)
          \/ \E d \in Decisions : \E sign \in BOOLEAN : Prepare(w, d, sign)
          \/ \E d \in Decisions : Replay(w, d)
          \/ Stat(w) \/ Rename(w) \/ DirSync(w)
          \/ WriteCache(w) \/ Sign(w) \/ RepairCache(w) \/ Interrupted(w)
    \/ PowerLoss

Spec == Init /\ [][Next]_vars

------------------------------------------------------------------------------
TypeOK ==
    /\ journal \in Seq(RecordType) /\ disk \in Seq(RecordType)
    /\ cache \in RecordType \cup {NONE}
    /\ pc \in [Writers -> {"idle", "stat", "rename", "sync", "cache", "sign"}]
    /\ job \in [Writers -> JobType]
    /\ signed \subseteq VoteType
    /\ fault \in Fault

\* The validator never signs two different votes for one height, round and
\* step, whatever is retried after kills, failed calls and power losses
\* (findSafetyDecision and the order of record and signature in
\* prepareConsensusSignature).
NoEquivocation ==
    \A u, v \in signed :
        u.height = v.height /\ u.round = v.round /\ u.step = v.step => u = v

\* The part of the journal the fault model can never take back.
Kept == IF fault = "PowerLoss" THEN disk ELSE journal

\* Seen from what is kept, writing a decision is one atomic step: the renames,
\* fsyncs, kills, replays and power losses of a write never take a decision
\* back, add an illegal or a second one for a slot, or sign one that could be
\* lost (recordConsensusSafetyDecision and prepareConsensusSignature).
Atomic == INSTANCE AtomicJournal WITH log <- Kept
ImplementsAtomicJournal == Atomic!Spec

\* Every signed vote is in a record that a power loss cannot take back: the
\* journal is persisted durably before the signature exists.
PersistBeforeSign == \A v \in signed : \E i \in DOMAIN disk : VoteOf(disk[i]) = v

\* As long as no directory fsync is cut off, persist-before-sign holds through
\* any power loss.
SignedSurvivesPowerLoss == fault = "PowerLoss" => PersistBeforeSign

\* What a writer appends is what every later reader accepts: the validator
\* never locks itself out of its own journal (the checks of
\* recordConsensusSafetyDecision and of readConsensusSafetyHistory agree).
AlwaysReadable == journal # <<>> => HistoryVerifies(journal)

\* The lock a record carries is the last LOCK decision of its height, through
\* every round change, restart and conflicting VERIFY; a record without a lock
\* has no LOCK decision behind it at its height.
LockSurvives ==
    \A i \in DOMAIN journal :
        IF journal[i].lockedDIR = NONE
        THEN \A k \in 1 .. i :
                journal[k].height = journal[i].height => journal[k].step # "LOCK"
        ELSE \E k \in 1 .. i :
                /\ journal[k].step = "LOCK" /\ journal[k].height = journal[i].height
                /\ journal[k].proposal = journal[i].lockedDIR
                /\ journal[k].round = journal[i].lockedRound
                /\ \A n \in k + 1 .. i : journal[n].step # "LOCK"

\* A VERIFY for another DIR than the last one locked at its height cites an
\* unlock proof of a round between that lock and the vote.
ConflictingVerifyJustified ==
    \A k, i \in DOMAIN journal :
        /\ k < i /\ journal[k].step = "LOCK" /\ journal[i].step = "VERIFY"
        /\ journal[k].height = journal[i].height
        /\ journal[i].proposal \notin {NIL, journal[k].proposal}
        /\ \A n \in k + 1 .. i : journal[n].step # "LOCK"
        => /\ journal[k].round < journal[i].unlockRound
           /\ journal[i].unlockRound < journal[i].round

\* A COMMIT vote is for the DIR locked in the same round, and a FINALIZE names
\* a DIR that was locked at that height.
CommitAndFinalizeFollowLock ==
    \A i \in DOMAIN journal :
        journal[i].step \in {"COMMIT", "FINALIZE"} =>
            \E k \in 1 .. i - 1 :
                /\ journal[k].step = "LOCK" /\ journal[k].height = journal[i].height
                /\ journal[k].proposal = journal[i].proposal
                /\ journal[i].step = "COMMIT" => journal[k].round = journal[i].round

\* Locks are dropped only by moving to a higher height, and only after a
\* FINALIZE of the height left behind is in the journal.
FinalityBeforeAdvance ==
    \A i, j \in DOMAIN journal :
        0 < journal[i].height /\ journal[i].height < journal[j].height =>
            \E k \in 1 .. j - 1 :
                journal[k].height = journal[i].height /\ journal[k].step = "FINALIZE"

\* The cache never shows a decision that is not in the journal, whichever step
\* of a write a kill or a power loss cuts off.
CacheIsJournaled == cache # NONE => \E i \in DOMAIN journal : cache = journal[i]

\* A record file is never replaced (writeImmutableSafetyRecord: "refusing to
\* overwrite immutable consensus safety record").
RecordsImmutable ==
    [][\A i \in DOMAIN journal \cap DOMAIN journal' : journal'[i] = journal[i]]_journal

\* FINALIZE is never recorded for a round change that no COMMIT of that height
\* precedes (validateSafetyTransition: "FINALIZE cannot be recorded before
\* COMMIT").
FinalizeAfterCommit ==
    \A i \in DOMAIN journal :
        journal[i].step = "FINALIZE" =>
            \E k \in 1 .. i - 1 :
                journal[k].height = journal[i].height /\ journal[k].step = "COMMIT"
==============================================================================
