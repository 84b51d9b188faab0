# TLA+ specifications of StratumTwinChain

StratumTwinChain records the life of electrical assets (registration, installation,
tests, energization) as events that people approve and a chain of Digital Integrity
Records (DIRs) finalizes. This directory models the parts of it whose correctness
depends on the order of steps: the consensus-safety journal of a validator, the PoVI
consensus of one height on top of it, the signed sessions between validators, the
follower that brings a node up to date from peers it does not trust, the submission,
approval and anchoring of lifecycle events, and the queue that carries an inspection
from a device in the field to them. TLC checks the models on small instances; TLAPS
proves every safety property the passing runs check for every value of the constants,
under the hypotheses its theorems name.

Contents: [the system](#the-system) · [modules](#modules) · [properties and
runs](#properties-and-runs) · [where code and text
disagree](#where-the-code-and-its-own-words-disagree) · [proofs](#proofs) · [not
modelled](#not-modelled) · [plan](#plan) · [running](#running)

## The system

The repository is a Next.js application (`app/`, `lib/`, `components/`), a TypeScript
library of protocol rules (`lib/redbook/`), and a Go command-line validator
(`tools/portable-validator/`). Paths below are relative to `src/`.

| Component | State it keeps | Operations | What it must get right |
|---|---|---|---|
| **Consensus-safety journal** `tools/portable-validator/consensus_safety.go` | a directory of immutable signed record files; a cache of the last one | initialize, record a decision, prepare (record and sign), replay, repair the cache, verify | one vote per height, round and step, whatever is retried after a crash; a lock is never forgotten |
| **PoVI height state machine** `lib/redbook/povi/state-machine.ts`, `quorum.ts`, `plc.ts`, `liveness.ts`, `finality-proof.ts` | round, phase, proposal, lock, valid value, vote maps | accept a proposal (also with a lock certificate), record VERIFY and COMMIT votes, begin commit, enter a higher round, finalize | two certificates of a height never name different DIRs; a lock yields only to a certificate |
| **Asset lifecycle registry** `lib/redbook/registry/` | none (a table) | validate a transition, derive a state from a history | required events come first |
| **Lifecycle events and approvals** `app/api/lifecycle`, `evidence`, `approvals`, `lib/server/db.ts`, `chain.ts` | database tables of events, evidence, approvals, ledger records; the DIR chain behind an RPC | submit, add evidence, reject, approve, anchor | no event is anchored or VERIFIED without its quorum and evidence; decisions are final |
| **Peer session** `peer_session.go`, `peer_transport.go` | outbound sequence, replay state, in one file | sign the next envelope, accept one | no sequence reused, no envelope handled twice |
| **Proof-verified sync** `peer_sync.go`, `peer_sync_governance.go`, `peer_sync_ancestry.go`, `peer_sync_server.go` | durable trusted head | apply a proof bundle, serve one | the head only moves along verified proofs, all of a bundle or none |
| **Survey and resolution** `peer_sync_multi.go`, `peer_sync_resolve*.go` | none between cycles | survey peers, classify, select | conflicts halt, they are not outvoted |
| **Follower** `peer_sync_follower*.go` | status file, backoff | cycle: survey, select, advance in batches | it catches up; it halts on a safety conflict |
| **Evidence and quarantine** `peer_sync_evidence_*.go`, `peer_sync_quarantine.go`, `peer_head_*.go`, `peer_quarantine_command.go` | evidence journal, quarantine state, last head of each peer: three files | record an observation, release, prune | evidence a quarantine points at is kept; a quarantine is not lost |
| **Reliability scores** `peer_reliability*.go` | counters for each peer | record an outcome | – |
| **Validator governance** `validator_governance.go`, `lib/redbook/validator-governance.ts` | chain of validator-set transitions | verify, apply | continuity of roots and activation heights |
| **Certificates, snapshots, genesis, VRF, schemas** | none | verify one document | – |
| **Field offline queue** `lib/field-offline-queue.ts`, `components/InspectionSession.tsx`, `app/api/evidence/upload` | evidence files and queued inspections in IndexedDB, a draft in localStorage | add and remove evidence, submit, synchronize, record an error | an inspection is not lost, not doubled, and not shown as synchronized before it is |
| **Source vault, Z reviews, attestations, auth, telemetry, other routes** `app/api/**` | database tables | one or a few statements each | – |
| **Spatial and electrical interpretation** `lib/*.ts` | none | geometry, OCR, heuristics | – |

How they interact. A signing process asks the journal for a record before it signs a
vote; the votes of the validators make the certificates on which the height state
machine moves; certificates and headers are what peers exchange and what sync verifies;
the web application calls the DIR chain through `getLedger().anchor` inside the
transaction of the approval that completes a quorum. A follower is a client of peer
sessions: it signs each request, verifies the answer, surveys the heads its peers claim,
keeps what contradicts itself as evidence, and applies the proofs of one eligible peer
to its trusted head. The field queue calls the lifecycle and the evidence routes, which
make a repeated request harmless. The consensus loop itself is not yet implemented
(`tools/portable-validator/README.md:261`): the journal and the state machine have
callers in tests only. The models join them the way their checks require.

What is hard in this code:

- **Crashes and power losses** between the steps of a journal write, and the retry after
  them (file systems keep a rename only once the directory is synced).
- **Unlocked processes**: signing commands, the follower and operator commands read,
  modify and write the same files.
- **Byzantine validators and message order** in PoVI: certificates of several rounds,
  late votes, validators that restart in the middle of a height.
- **Concurrent transactions**: approvals of one event are serialized by a lock on the
  event, those of the other events of the same asset are not, and a submission takes no
  lock.
- **A remote call inside a transaction**: the anchor may succeed and its answer be lost,
  and the chain does not roll back.
- **Peers that lie, lag or restart**: what a follower holds against a peer is spread
  over three files saved one after the other, and an honest peer that lags looks much
  like a faulty one.
- **A device that goes offline or is closed** between the steps of a synchronization,
  with a request still under way and another tab working on the same queue.

`PROJECT.json` has the complete list of components and of hazards, each at its line.

## Modules

| Module | What it is |
|---|---|
| `SafetyRules` | the pure rules of the journal: `validateSafetyTransition` (`ValidTransition`) and the record built from a decision (`NextRecord`) |
| `SafetyJournal` | the journal as files, and the processes that write and sign |
| `AtomicJournal` | what the journal promises: one log in which a slot is decided once, and signatures only of votes in it |
| `PoVIConsensus` | the validators of one height; uses `SafetyRules` for what each journal allows |
| `DIRFinality` | what a height promises: at most one candidate is ever certified, for good |
| `AssetTransitions` | the transition table, `TransitionOK`, `DeriveState` |
| `LifecycleApproval` | the routes over the database and the chain; uses `AssetTransitions` |
| `ApprovalLedger` | what approval promises: an event is decided once, and the last approval, the record on the chain and VERIFIED are one step |
| `GovernedSync` | what a peer serves (`Serve`), what a bundle of proofs makes of a head (`Apply`), ancestry, and how a survey is classified: operators only |
| `PeerEvidence` | evidence, quarantine entries and retention: operators only |
| `PeerFollower` | the follower with its files, its peers and an operator; uses the two above |
| `FollowedChain` | what a follower promises: its head moves only forward along the finalized chain |
| `PeerSession` | the sequence and replay state of the processes of each validator, over a network |
| `FIFODelivery` | what sessions promise: the envelopes of a sender are delivered in order, each at most once |
| `FieldQueue` | the pages of a browser, its storage, and the two routes they call |
| `InspectionOutbox` | what the queue promises: each inspection and each of its files reaches the server once, and is called delivered only then |
| `MC…` | instances for TLC |
| `…Proofs` | theorems |

`SafetyRules` is shared on purpose: the rules a record passes when it is written are the
ones `PoVIConsensus` relies on when a validator votes, so a change in the Go code is
changed in one place and both levels are checked and proved again.

Six modules have no file, process, message or failure in them: `AtomicJournal`,
`DIRFinality`, `ApprovalLedger`, `FollowedChain`, `FIFODelivery` and `InspectionOutbox`
say in a page each what a component promises its callers. The component's module
instantiates one with a mapping of its variables (`Atomic`, `Finality`, `Ledger`,
`Following`, `Delivery`, `Outbox`), a run has the instance's `Spec` as a property, and a
theorem `Refinement` proves it. All six are about safety only: a step of theirs may be
taken or not, but nothing else may happen.

### SafetyJournal

One action for each step at which another process or a failure can come in between:
`Prepare` is everything `recordConsensusSafetyDecision` does up to the record it will
write (read and verify the history, look for the slot, build the record, validate the
transition); `Stat`, `Rename` and `DirSync` are the three system calls of
`writeImmutableSafetyRecord` that matter; `WriteCache` and `Sign` follow. `Replay` is
the early return with the record that exists. `journal` is the directory as processes
see it, `disk` what survives a power loss: a rename reaches `disk` when the directory is
synced. (The content of the temporary file is synced before the rename, so a file is
never torn.) The Windows build does not sync the directory (`:622`): what is said of
power losses is of the other builds, what is said of kills and failed calls of all.
Sequence numbers are counted from 1, as sequences are; the code counts from 0.

`fault` is chosen once for a behaviour. In every model a process may be killed, or its
call may fail, at any step but the one between rename and directory fsync;
`SyncInterrupted` adds that one, `PowerLoss` adds power losses. `Both` at once is not a
case in which the journal keeps its promise (see
[below](#where-the-code-and-its-own-words-disagree)), so the passing run has the two
separately.

`AtomicJournal` is implemented by `Kept`, the records no fault of the behaviour can take
back (with power losses the directory as synced, otherwise the directory): a vote is
decided when its record gets there, and signed after that.

Abstracted: hashes of DIRs and messages are model values; the hash chain, signatures and
time stamps of records are left out, since nothing forges a record. `unlockRound` stands
for the unlock proof's round and hash, which the code requires together.

### PoVIConsensus

One height, height 1 of the journal. Votes are sets of what was ever signed; a validator
can count any of them at any time, or never. Therefore the vote maps of the code are not
variables: "the vote that completes the quorum" may come at any moment after enough were
cast, which covers every order, loss and duplication. A Byzantine validator counts
towards every quorum. A vote is cast by a step that passes the phase of the state
machine **and** the rules of the journal. `Restart` forgets the state machine and
rebuilds it from the last record, as `recoveredConsensusRound` and the record's lock
allow. A restart of a validator that recorded FINALIZE is left out: its height is over.

`HeaderRound` gives each candidate the round in its header, which its hash commits to;
`verifyDIRFinalityProof` compares it with the round of the COMMIT votes.

### LifecycleApproval

The events of one asset. `Submit` is one transaction: the transition is checked against
the history of VERIFIED events at that moment and never again. A decision is one of
`Reject`, `ApprovePending` (the quorum is not complete) and `SendAnchor` (it is): the
last leaves the approval transaction open, holding the event's lock, with its approval
not yet visible to others. `Anchor` is the chain's step and the only external one; it
can come at any time after the request, also when the sender has rolled back. `Finalize`
commits the transaction, `Rollback` covers a failed call, a lost answer, a bad receipt
and a dead server, which all leave the same database. `History` orders events by
`occurred_at`, which the client supplies, and id.

### GovernedSync, PeerEvidence and PeerFollower

There is one finalized chain, and certificates exist for nothing else: that is what
`PoVIConsensus` shows of the validators. So a head is a height and whether it is the
chain's (`true`), the right DIR with a wrong state or validator-set root (`state`,
`set`), or another DIR (`forged`). A faulty peer may claim any head at any time, but can
prove only what an honest peer has verified.

A cycle of the follower is one run through `pc`. `Survey` asks every peer. `Record(p)`
is `recordAuthenticatedPeerHead` for the next peer of `--targets`: a contradiction is
written to the journal, then (`Convict`) to the quarantine, then (`Remember`) the claim
is stored; these are three saves to three files, and the process may die between them.
`Retain` is `enforcePeerEvidenceRetention`, `Resolve` the classification with its
ancestry proofs, `Blame` and `Punish` are `persistResolverEvidence`, `Conclude` selects
a peer or halts, `Fetch` is one batch, verified and saved, `Finish` compares the head
reached with the one surveyed. `Fail`, `Stop` and `Crash` may come at the places the
code allows. `LoadRelease` and `SaveRelease` are the two halves of
`peer-quarantine-release`, which takes no lock.

Two saves of a head are more than one step. On Windows (`RemovesFirst`)
`savePeerSyncTrustedHeadAtomic` removes the old file before it renames the new one into
its place: `LoseHead` is the save that gets no further, by a kill or a failed rename,
after which the next cycle finds no file and starts from genesis. And an ancestry proof
keeps its heads in a temporary directory of the follower: when a bundle verifies and
that save fails, the code reports the peer as `HISTORICAL_DIVERGENCE`, records it as
evidence and halts, as if the proof had been wrong (`peer_sync_resolve_context.go:169`).
`AncestryOutcomes` has this as `UNSAVED`, possible whenever the first batch applies,
also of an honest peer; `Reported` is what the code makes of it, and `unsaved` remembers
that this is what the survey was resolved with.

Abstracted: IDLE and BACKOFF are one step, `wait`, and of the status file only
SAFETY_HALT is kept; the reliability scores order the eligible peers, the model takes
any of them; evidence is known by its peer and type; loading and saving the quarantine
is one step of the follower, whose own writes do not race. Bounds in the model: one
release by an operator in a behaviour (`released` stays set), and `calm`, the assumption
that from now on nothing fails, begins while the follower waits. Left out: `--once`, and
`peer-sync-survey` and `peer-sync-resolve`, which record evidence beside the follower.

### PeerSession

`disk` is the state file of each validator, `mem` the copy each process reads at its
start, keeps, and writes whole. `Sign` raises the counter, saves and sends; when the
save fails the counter is lowered again and nothing leaves. The save of a process that
runs the Windows build (`Windows`) removes the file before it renames the new one into
its place; cut off or failed in between (`SaveFails`) it leaves no file (`gone`). The
process that made it goes on with its memory and may still save later; one that starts
meanwhile takes the default state, and its validator is then in `forgot` for good.
`Receive` raises the watermark in memory, then saves or fails to save; `Refuse` is a
replay, whose pruning of old nonces stays in memory. A server's handler is a `Receive`
and a `Sign` under one mutex. The nonce of an envelope is its place in `sent`; `sent`
only grows, and any envelope may arrive anywhere, any number of times, in any order, or
never. Pruning may remove any set of nonces: which ones have expired is a matter of
clocks.

### FieldQueue

A page runs the code of `syncQueuedInspection` one await at a time: `Take` an item and
look for its files, wait for the `Answer` to the lifecycle request and to each upload,
`Remove` the item, `Clean` up its files, `Mark` the draft; on an error `ReadForError`
and `PutError` are the two transactions of `updateQueueError`. `Submit` and `MarkQueued`
are what precedes: the item is queued before the draft says so. Storage survives
`Close`; a request a page no longer waits for may still reach the server (`late`).
`Handle` is both routes with their replay checks, each one transaction under its
advisory lock.

The queue belongs to the browser and the session to whoever signed in last:
`SwitchUser` changes the session and leaves queue, drafts and pages as they are. A
request carries the user whose session goes with it (`by`), and the lifecycle route
looks it up by organization, user and identifier, so `records` and `evidence` are kept
for each user: what a user retries is answered as before, what another retries is a new
record. Files go to the event of the answer, whoever made it. A refusal is an answer the
page treats as a failure, and is put into the item's error. Two refusals last: a file
over the limit (`oversize`, chosen once), and an asset whose state takes no such event
(`open`; it may come and go, so before `calm` it is one of the errors of
`NetworkError`). A request without a session, or of a user whose role or organization
has no access, is one of these errors too.

Facts of the code the model keeps: a page that synchronizes because the browser came
online still sees the draft of its first render, so `Mark` may leave the draft as it is;
removing evidence from the draft removes the file also when a queued inspection lists
it; a file the page of the asset still has in memory (`held`, the `filesRef` of the
component) is submitted without a look at the store, where a synchronization may have
removed it; an item whose error is written back can return after another page has
finished with it. Evidence can be added only to an idle page; files are digests; one
asset; one organization.

Left out: the branch of `submit` that only completes an inspection locally
(`InspectionSession.tsx:90-93`), which is for a reference asset, while the route that
resolves assets answers `live` for every asset it finds. The page does not disable the
input for evidence once a draft is queued or synchronized: what is added then is in the
draft and the store, where the model has it, but in no inspection, and is never sent.

## Properties and runs

Deadlock is checked in every run but four. In `povi`, `povi_finality` and
`povi_reproposal` a height may come to rest, with bounded rounds and offers; in
`field_queue` nothing is left to do once every page is closed or has synchronized all
there is. That the `follower` run has no deadlock says that no step of a cycle is ever
stuck, whatever was surveyed, recorded or pruned.

Safety runs use `Init /\ [][Next]_vars`. Two runs check liveness under `FairSpec`.
`WF_vars(FollowerStep)` of the follower: its loop waits for a bounded time and runs the
next cycle, and gives up only at a safety halt or a signal
(`peer_sync_follower_managed.go`). Weak fairness is on the loop as a whole; nothing is
assumed of the network, the operator, the peers, or a process that was stopped.
`WF_vars(PageStep(p))` of the field queue: an async function that has started goes on,
and, in `calm`, a request is answered. Nobody need open a page, press the button or go
online.

| Run | Instance | Result |
|---|---|---|
| `journal` | one process, 15 decisions at two heights and three rounds, journals of up to 6 records, power losses or interrupted syncs (315 440 states) | nine invariants hold, `AtomicJournal` is implemented |
| `journal_two_writers` | two processes | `RecordsImmutable` is violated |
| `journal_dir_sync` | one process, interrupted syncs | `PersistBeforeSign` is violated |
| `journal_finalize` | one process, no faults | `FinalizeAfterCommit` is violated |
| `povi` | four validators, one Byzantine, rounds 0 and 1, candidates A and B in round 0 and B in round 1, restarts (961 834 states) | `Agreement` holds |
| `povi_finality` | the same network, A in round 0 and B in round 1, restarts (178 277 states) | `LockIsJournaled` holds, `DIRFinality` is implemented |
| `povi_unlock` | the same network after a round 0 in which one validator locked A and committed; B is offered in rounds 1 and 2 (352 160 states) | `TypeOK`, `UnlockJustified` hold |
| `povi_reproposal` | the three validators of the pilot network, none faulty; A is offered again in round 1 | `ReproposalFinalizes` is violated |
| `follower` | two honest peers, one ahead and serving a snapshot, one faulty; heights to 2, batches of 2, a new validator set at height 2, saves that remove the old head first (313 736 states) | `TypeOK` and four invariants hold, `ContradictionRemembered` holds, `FollowedChain` is implemented, `CalmCyclesArrive` and `CatchesUp` hold |
| `peer_session` | two validators with one process of the Windows build each, two envelopes, three acceptances each (692 697 states) | `TypeOK` and three invariants hold, `FIFODelivery` is implemented |
| `field_queue` | two pages, two users who sign in one after the other, two inspections, one submitted before the change, one file, one late request at a time (620 610 states) | `TypeOK` and three invariants hold, `InspectionOutbox` is implemented, `SyncFinishes` holds |
| `lifecycle` | two events, four users, quorum of two, evidence required, two requests an event (517 718 states) | `TypeOK` and three invariants hold, `ApprovalLedger` is implemented |

**Journal.** `NoEquivocation` is the point of the component: no two different votes of
one height, round and step are signed, whatever is retried. `SignedSurvivesPowerLoss`
says that a signed vote is in a record no power loss takes back, `AlwaysReadable` that
the writer never produces a journal its own reader refuses, `CacheIsJournaled` that the
cache never runs ahead. `LockSurvives` compares the lock that records copy from one to
the next with the LOCK decisions in the journal; `ConflictingVerifyJustified`,
`CommitAndFinalizeFollowLock` and `FinalityBeforeAdvance` say the same of what depends
on the lock. `ImplementsAtomicJournal` is all of it seen from outside: whatever is cut
off, retried or lost, what lasts is one log, each record of which was legal after the
one before and the first of its slot when it got there, and a signature is of a vote
that is in it already.

Why the bounds are enough: the rules compare a record with the one before and carry a
lock, a valid value and a finalized hash. Six records hold BOOTSTRAP, VERIFY, LOCK, a
round change, an unlocking VERIFY and a second LOCK, or a whole height and the first
vote of the next. A slot is decided by its first record, so two digests show every
conflict. What six records cannot show, longer journals and more decisions, is covered
by the proofs.

**PoVI.** `Agreement` speaks of certificates, not of what validators saw, so it covers
every subset of votes a peer may collect. `LockIsJournaled` ties the two implementations
together across restarts. `UnlockJustified` looks at a validator's own two votes, in
rounds that may be far apart. With four validators and one Byzantine a quorum is three:
two quorums may share just one correct validator, the smallest such network. `povi` lets
both candidates be proposed in round 0, so that the Byzantine validator can split the
vote; the abstract specification constrains every step rather than every state and is
checked where one candidate is proposed a round, in `povi_finality`. Rounds 0 and 1 do
not take a validator through an unlock. The unlock path needs three rounds, which is too
many from the initial state, so `povi_unlock` starts in a state reachable after round 0
and goes on to round 2. Its initial state is one that `povi`'s actions lead to (v1, v2
and the Byzantine v4 voted for A; v1 counted them; everyone voted to change the round).

**Lifecycle.** `AnchorBacked` is about everything that reaches the chain, also from
transactions that rolled back, because the chain does not forget. `VerifiedIsAnchored`
is about concurrent approvers, `PrerequisitesVerified` about interleaved events of one
asset: the events a rule requires are verified and stay so. It does not say that the
asset is still in the state the rule starts from when the event is approved; the code
does not check that again, and nothing promises it. `ImplementsLedger` puts them into
steps: the approval that completes a quorum, the record on the chain and the VERIFIED
status are one step to whoever looks at the tables and the chain, although a remote call
lies in the middle of the transaction, its answer may be lost and another approver may
come in between; a decision is not revised; what the chain holds of an approval that was
rolled back had its quorum and its evidence. Two events suffice for a prerequisite and
its dependent; three types (registered, procured, shipped) give events that depend on
one another and events that get in through the migration bootstrap. Four users are a
performer, a quorum of two and someone who rejects. Two requests for each event give one
lost answer and one retry. Ids are handed out in any order, so one value of
`occurred_at` already lets events appear in the history in either order.

**Follower.** `FollowsChain` is the refinement: whatever the peers claim and wherever
the process dies, the durable head is on the finalized chain and does not go back, but
for one case: where a save removes the file first, the head may be lost in a fetch, and
starts again from genesis. The run has this case; without `RemovesFirst` the abstract
`Lose` is disabled and the head only moves forward. `HaltBlamesFaulty` is as weak as the
code as well: a follower that cannot write its own temporary directory halts with
evidence against an honest peer (an operator must then look at the reason recorded with
it). Nobody is quarantined for that, so `HonestNeverQuarantined` has no such exception.
`HonestNeverQuarantined`, `HaltBlamesFaulty` and `ConvictedNotFollowed` are about whom
the follower blames, stops for and believes. `QuarantineBacked` relates two files that
are saved apart, pruned, and overwritten by a release; were it false, retention would
refuse every later cycle. `ContradictionRemembered` is about the order of those saves.
`CalmCyclesArrive` is about one cycle: started once nothing fails any more, it does not
end short of the heads it surveyed, unless a peer has moved on meanwhile. A survey of
honest peers must be judged to agree or to prove its lag, the check before advancing
must pass, and each batch must be served, accepted and saved, across a checkpoint and a
new validator set. `CatchesUp` says that a running follower gets to any height an honest
peer serves, once nothing fails. Both have a premise on snapshots, and TLC refutes
`CatchesUp` without: a peer answers every request below its snapshot from the snapshot
up, and with an error when the range asked for ends at or before it, so a follower more
than a batch below the only snapshot is stuck (`peer_sync_governance.go:214`), and so is
one that must prove a lag from below it. Two heights with a batch of two give bundles
that end below and above the snapshot, cross the change of the validator set, or take
two requests after a failure; a third height adds a longer way with the same cases. Two
honest peers and a faulty one give agreement, lag and conflict, with and without an
honest peer among the claimants. `MaxUnpinned` is 0, which prunes whatever may be
pruned; 1 was also run (817 000 states) with the same result but takes too long for a
routine run.

**Peer session.** `SequenceUnique` needs the save before the envelope leaves;
`AcceptedInOrder` must hold on the watermark alone, since nonces are pruned;
`NeverLockedOut` relates the memory of one process to that of another: a sender that
fell behind its own watermark would be refused for good. All three, and the delivery,
end where a process has started without the file that a Windows save had removed
(`forgot`): its numbers begin again at 1 and peers refuse them. In the run this may
happen to either validator, to both or to none; the properties go on to hold of one that
still has its file, as a sender in `SequenceUnique` and `NeverLockedOut`, as a receiver
in `AcceptedInOrder`. `DeliversInOrder` is what all of it is for: seen without numbers,
nonces, watermarks and files, a validator delivers the envelopes of each sender in
order, each at most once, and takes no delivery back. Two envelopes are two in sequence,
or one from each side, or a first one, a failed acceptance and its repetition; three
acceptances let a validator that forgot accept again. Three envelopes were also run with
saves that replace the file in one step (995 227 states) with the same result. The
proofs cover any number.

**Field queue.** `NeverLost` is about the time between the server's answers and the
removal of the item: the inspection stays in the queue until the server has it with
every file it lists. It does not say that the device still has the files: removing them
from the draft, or finishing another inspection that lists the same file, deletes them,
and the item then waits until the inspector selects them again. `SubmittedIsTrue` is
about what the inspector is told. `OnceOnServer` is about retries from two pages and
requests that come late, for each user: when a second user of the device retries what a
first one had sent and no answer came, the server has one event of each, which the
abstract outbox allows too. `ImplementsOutbox` is about every step: no page, route or
late request records what was not submitted, records it twice in one name, stores a file
before its event, takes an inspection out of the queue or calls it synchronized before
the server has it all in one name, or gives its identifier to another.

`SyncFinishes` says that a page that has listed an inspection brings it to the server
and out of the queue, once nothing fails and nobody else signs in. Its premises are all
needed: the server takes it (the asset's state allows the event, or the user's record is
there already, and no file is over the limit: such an item is refused each time and
stays in the queue with its error), the files are on the device, no other inspection
lists one of them (removing an inspection's files takes them from the other), and no
page is about to put a failed attempt of it back.

Two pages and two inspections give every overlap of two synchronizations; one file is
enough for shared files and for removal, since files are sent and removed one at a time.
Two users give a retry by the one who sent the request and by the one who did not.
`MaxSwitches` bounds how often another user signs in and `MaxShared` the identifiers in
use from then on, 1 each: one inspection that both users meet shows every order of their
requests, and before the change there may be two. With `MaxSwitches` 2, in which the
first user comes back, the safety properties were also run (774 002 states).

Each property of a passing run has a mutant in `PROJECT.json`: a definition replaced by
a plausible mistake (named `Variant` in the modules), which TLC finds.

## Where the code and its own words disagree

The four runs that end in a violation show these. Details are under `findings`.

1. **Immutable records can be replaced** (`consensus_safety.go:584`). `os.Stat` and
   `os.Rename` are two calls; two processes that pass the check before either renames
   write the same sequence number, the second over a record the first may already have
   signed for. Opening the final name with `O_EXCL`, `os.Link`, or a lock on the
   directory would close this.
2. **A replay signs what is not yet durable** (`:503`). If a process is cut off after
   its rename and before the directory fsync, the record is visible, a retry returns it
   and signs, and a power loss then removes it: persist-before-sign fails. Syncing the
   directory before returning an existing record would close this.
3. **FINALIZE without COMMIT** (`:361`). The guard compares ranks and ROUND_CHANGE ranks
   above COMMIT, so FINALIZE passes after LOCK and ROUND_CHANGE.
4. **A reproposed DIR cannot be finalized** (`finality-proof.ts:62`). Locked validators
   accept only the same proposal hash in a later round, the hash commits to a header
   that contains the first round, and the finality proof requires the COMMIT votes to be
   of the header's round.

## Proofs

| Module | Theorems | Assumptions |
|---|---|---|
| `SafetyRulesProofs` | lemmas about step ranks, `NextRecord` and `ValidTransition` | those of `SafetyRules` |
| `SafetyJournalProofs` | `TypeCorrect`; `Readable`, `LocksKept`, `UnlocksProved`, `LocksFollowed`, `HeightsFinalized`, `Persistence`, `Immutable`; `Safety` (NoEquivocation), `CacheFollows`, `Refinement` (ImplementsAtomicJournal) | for the first none; for the next seven one writer (`OneWriter`); for the last three also faults not `Both` (`NoDoubleFault`) |
| `PoVIConsensusProofs` | `TypeCorrect`, `Safety` (Agreement), `LockRecovered`, `UnlockSafe`, `Refinement` (ImplementsFinality) | fewer than a third Byzantine; `DIRs \subseteq Digests`; names distinct |
| `LifecycleApprovalProofs` | `TypeCorrect`, `Backed` (AnchorBacked), `Anchored` (VerifiedIsAnchored), `Prerequisites`, `Final`, `Refinement` (ImplementsLedger) | policy and events as the `ASSUME`s say |
| `GovernedSyncProofs` | `ServedLeadsUp`, `HonestNeverDiverges`, `HonestProves` | `NoTransitionAtFirst` |
| `PeerFollowerProofs` | `Typed`, `EvidenceFirst` (QuarantineBacked), `HonestPeersStay`, `ConvictedExcluded`, `ClaimsAccountable` (ContradictionRemembered), `Refinement` (FollowsChain), `CyclesEnd`; `HaltsAreCaused` (HaltBlamesFaulty), `CyclesArrive` (CalmCyclesArrive) | for the last two: `NoTransitionAtFirst` |
| `PeerSessionProofs` | `Typed`, `SequencesNeverReused`, `NothingReplayed`, `SendersStayAcceptable`, `Refinement` (DeliversInOrder) | for all but the first: `OneProcess` |
| `FieldQueueProofs` | `Typed`, `InspectionsAreKept`, `ShownIsSynchronised`, `RetriesAreIdempotent`, `Refinement` (ImplementsOutbox), `SyncsEnd` | none |

Every property of the passing runs is proved for all values of the constants, but for
the two that are liveness.

The hypotheses are those the counterexamples ask for: `journal_two_writers` shows that
one writer is needed and `journal_dir_sync` that both faults at once are too many. They
stand where they are needed: with both faults the journal stays readable and keeps its
locks, and only what is signed and cached may be of a record that was lost. `OneProcess`
says that no two processes share a state file: with two, the second writes its own
counter over the first one's and a number is signed twice, which the default path of the
file (`state/peer-session.json`) lets happen to a server and a follower. What a Windows
save can lose is not a hypothesis but in the statements: they are about the validators
that have not started without their file, and where no process is of that build these
are all of them.
`NoTransitionAtFirst` says that the validator set does not change at height 1: a
transition is authorized by the set whose root the head below binds, and the genesis
head binds none, so the proofs of an honest peer that served such a transition would be
refused and held against it. That the head stays on the chain does not depend on it. All
of these stand in the statements of the theorems, not in the models.

**Journal.** No property is inductive alone. The invariant `IInv` adds: what a writer
carries matches where it is (`WriterPosition`: before the rename its record is the valid
successor of the last one, after it the record is in the journal); the order of records
(`Ordered`: strictly increasing by height, round and step, from which uniqueness of
slots follows); how far round changes and finalization have come; and `Durable`: what of
the journal no fault of this behaviour can take back, and that every signed vote and the
cache are in that part. NoEquivocation follows as two signed votes of one slot are in
two records of one slot, hence in the same one. The refinement of `AtomicJournal` takes
each step on `Kept`: the rename with kills only, the directory fsync with power losses,
is `Decide`. That it adds one record, legal after the last kept one, is
`WriterPosition`; that the slot is free is `Ordered`; that a signature is of a kept
record is `Durable`; and every other step, also a power loss, leaves `Kept` as it is.

**PoVI.** `QuorumIntersection` proves from cardinalities that two quorums share a
correct validator when `3f < n` and a quorum is `floor(2n/3) + 1`. The inductive
invariant says of a correct validator that it votes once a round, that its journal
position is at or past each of its votes, that a lock has a lock certificate behind it,
and that once it committed to D in round r it stays locked on D, or holds a certificate
of a later round. `CommitForever` is the core: a COMMIT quorum for D in round r leaves
no lock certificate for another DIR in any later round, by strong induction over rounds,
which the library's induction theorems cannot express here: the proof takes a least
counterexample instead. Agreement follows, and from Agreement and the fact that votes
are never withdrawn, that `DIRFinality` is implemented.

**Lifecycle.** The invariant adds that open transactions belong to SUBMITTED events and
to a request that was sent (`OpenSubmitted`), that a request carries a quorum at the
moment it is sent and evidence and approvals only grow (`SentBacked`), and that a
performer never approves and a rejected event stays rejected (`SeparationOfDuties`,
`RejectionsStand`). The commit of an approval is the ledger's `Verify` because of
`OpenSubmitted` (the event is still open, nobody else could decide on it) and
`SentBacked` (the quorum counted when the request was sent is still one); sending the
request and rolling back change nothing the ledger sees, and `Anchor` may come at any
time since `SentBacked` holds of a request for good. `Final` is proved without a run of
its own: the ledger never changes a decision.

**Follower.** The invariant has a part for each question. `InSurvey` ties the step of
the cycle to the peers it is about. `Backed` adds to `QuarantineBacked` that evidence is
in the journal before its conviction, and that a release was loaded from entries that
only grew since: therefore saving it late cites nothing new. `Unblamed` says that every
record of an honest peer, stored or surveyed, is a head of the chain: two of those never
contradict each other. `Excluded` carries a conviction from the quarantine to the claims
that are left. `OnChain` has the trusted head on the chain. Two arguments carry the
weight. A bundle a node accepts, whoever serves it, ends on the chain, not above what
some honest peer has verified, and ahead of the old head (`ServeBound`,
`ApplyAdvances`): this alone gives `Refinement`, in which a lost head is the abstract
`Lose`. And what an honest peer serves is
accepted by a node on the chain and ends where it was asked to (`ServedLeadsUp`), so its
claim is proved or unproved, never refuted (`HonestNeverDiverges`), and proved when its
snapshot is not above the lower head (`HonestProves`). The least refuted batch is taken
with the well-foundedness of the naturals. `HaltsAreCaused` uses the second of these (an
honest peer is then blamed only by an `UNSAVED` outcome, which `unsaved` records),
`CyclesArrive` the third.

`CatchesUp` is liveness and stays with TLC, but what it rests on is proved. `CyclesEnd`:
every step of a cycle moves it to a later phase, or leaves it fewer peers to record, to
blame or to write down, or raises the trusted head, and no step of the peers or the
operator undoes this; so a cycle has an end. `CyclesArrive`: once nothing fails, the end
is at the heads surveyed. Its invariant `Surveyed` says that in the calm only honest
peers have been heard and that between the classification and the last batch the
follower may still advance; `ResolveAdvances` shows that honest claims are judged to
agree or to prove their lag, `FetchSucceeds` that no batch fails. What is left to
fairness is that the loop goes on and that the peers stop moving.

**Peer session.** `Safe` says that the counter in memory is the saved one, that every
envelope is counted in the saved counter of its sender, that saved watermarks are at
most those in memory and these at most the saved counter of the sender, and that what
was accepted is at or below the saved watermark; each of these of the validators that
have not forgotten, for which a missing file is one whose process still has all of it in
memory. A restart therefore forgets only
watermarks of envelopes that were not accepted. The order of delivery follows: numbers
of a sender grow with the place in `sent`, so an envelope above the watermark was posted
after everything accepted from it.

**Field queue.** `IInv` says what the server has for each step a page can be at
(`Progress`: past the lifecycle answer the record of the user in whose name the page
sends is there, and every file that is not left to send), that pages work only on
inspections that were queued, and that the draft follows the queue. For the refinement
`Messages` adds that nothing is under way, and no page has a file left to send, but of
an inspection that was submitted and of a file it lists: only therefore does every
record and row come from a `Post`. `SyncsEnd` is the core of `SyncFinishes`: each step
of a page that synchronizes leaves it fewer inspections, a later step of the same one,
or fewer files, and what other pages, the server and the inspector do does not change
how far it is.

Only model-checked: the two liveness properties, `CatchesUp` and `SyncFinishes`, and
that the four disagreements exist (they are violations). Out of TLAPS's reach: liveness
and `ENABLED`; the step from "every step is nearer to the end" to "there is an end",
which is an induction over a well-founded order; what a recursive definition computes
for every input, such as `DeriveState` over a history (nothing proved depends on its
value).

## Not modelled

See `components` in `PROJECT.json` for each part. By reason:

- *Out of reach.* The spatial and electrical code in `lib/*.ts` and `workers/` and the
  components that show it are by far the largest part of the repository (floating-point
  geometry, OCR, heuristics over text and drawings, rendering). They are pure functions
  of large inputs, not steps that interleave.
- *Pure checks of one document.* Certificates, snapshots, genesis, VRF, schemas,
  hashing. Where a model counts a quorum or verifies a proof it takes the check as
  sound.
- *No protocol of their own.* Authentication, telemetry, attestations and most routes
  are single statements over a database.
- *Candidates.* The source vault (chunks, retries), the hash chain of Z reviews.

Within the modelled parts, left out are: the vote maps of the height state machine and
what clearing them costs; timeouts and the choice of a new round, which the repository
does not have yet, and with them the liveness of a height; an approval policy changed
while approvals are in progress; roles beyond "may approve"; the expiry of certificates;
hash links and signatures of the journal; a power loss between the rename of a
peer-session file or of a trusted head and the sync of its directory (the code syncs the
file and not the directory, so `SequenceUnique` cannot hold after one); two processes on
one peer-session file; a second process that records evidence beside the follower;
evidence added to a draft that is queued already, and the local-only inspection of a
reference asset; and the older peer sync without governance.

## Plan

What would add most, in this order:

1. `PoVIHeightState`: the state machine with its vote maps and vote messages, shown to
   implement `PoVIConsensus` for one validator's choices, and, once a live loop exists,
   whether a height finishes.
2. A second evidence recorder (`peer-sync-survey`, `peer-sync-resolve`) in
   `PeerFollower`: pruning saves the journal it loaded, so `QuarantineBacked` is
   expected to fail.
3. Power losses and a shared state file in `PeerSession`, and power losses of the
   trusted head in `PeerFollower`.
4. `SourceVault`: chunks, retries, concurrent uploads.
5. `LifecycleApproval`: the terminal flag of retirement, when the code gives it a
   reader.

## Running

    tlc -workers 2 -config SafetyJournal.cfg MCSafetyJournal
    tlc -workers 2 -config PoVIConsensus.cfg MCPoVIConsensus
    tlc -workers 2 -config PeerFollower.cfg MCPeerFollower
    tlapm PoVIConsensusProofs.tla

`PROJECT.json` pairs each configuration with its module.
