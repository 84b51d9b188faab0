---------------------------- MODULE PeerFollower ----------------------------
(***************************************************************************)
(* The read-only follower of a CANDIDATE node: it surveys the finalized    *)
(* heads its peers claim, holds contradictions against them, decides       *)
(* whether what they say may be followed, and moves its trusted head along *)
(* the proofs of one of them                                               *)
(* (tools/portable-validator/peer_sync_follower*.go, peer_sync_resolve_*,  *)
(* peer_head_*.go).                                                        *)
(*                                                                         *)
(* Honest peers serve what the network finalized and they have verified.   *)
(* The others may claim any head, contradict themselves, or not answer;    *)
(* certificates of anything but the finalized chain do not exist.          *)
(* Every save of the follower's files replaces the file in one step, but   *)
(* for that of the trusted head in the Windows build.                      *)
(***************************************************************************)
EXTENDS GovernedSync, PeerEvidence

CONSTANTS Honest,        \* the peers that run the governed sync server
          Reach,         \* bound on the height each of them gets to
          FaultyClaims,  \* the heads the others may claim
          Order,         \* the order of the peers in --targets
          RemovesFirst,  \* a save of the trusted head removes the old one first
          None           \* no peer, no release

Faulty == Peers \ Honest

ASSUME FollowerAssumption ==
    /\ Honest \subseteq Peers
    /\ EvidencePeers = Peers
    /\ Reach \in [Honest -> Heights]
    /\ FaultyClaims \subseteq TrustedHead
    /\ Order \in [Peers -> Nat]
    /\ RemovesFirst \in BOOLEAN
    /\ MaxUnpinned \in Nat
    /\ None \notin Peers

VARIABLES
    \* The peers.
    served,      \* the verified head each honest peer serves
    calm,        \* from now on nothing fails and only honest peers answer
    \* The follower's files.
    trusted,     \* its proof-verified head
    heads,       \* the last head each peer was seen to claim
    journal,     \* the evidence
    quarantine,  \* the quarantine entries
    halted,      \* the state it last reported is SAFETY_HALT
    \* The cycle it is in.
    pc,
    obs,         \* the heads claimed in this survey
    todo,        \* the peers whose claim is not recorded yet
    convicted,   \* the peers that contradicted what they had claimed
    class,       \* how the survey was resolved
    unsaved,     \* a head proved for it could not be saved
    blame,       \* the evidence still to be written for it
    current,     \* the peer being convicted, blamed or followed
    \* An operator running peer-quarantine-release.
    release,     \* the peer to release and the entries it has loaded
    released     \* it has saved them

env      == <<served, calm>>
files    == <<trusted, heads, journal, quarantine>>
cycle    == <<obs, todo, convicted, class, unsaved, blame, current>>
operator == <<release, released>>
vars     == <<env, files, halted, pc, cycle, operator>>

Classes  == {"NONE", "NO_AUTHENTICATED_PEERS", "FINALIZED_HEAD_CONFLICT",
             "EXACT_HEAD_AGREEMENT", "PROVEN_LAG", "HISTORICAL_DIVERGENCE",
             "ANCESTRY_UNVERIFIED"}
Steps    == {"stopped", "wait", "survey", "record", "convict", "remember",
             "resolve", "blame", "punish", "fetch"}

TypeOK ==
    /\ served \in [Honest -> Heights]
    /\ calm \in BOOLEAN
    /\ trusted \in TrustedHead
    /\ heads \in [Peers -> TrustedHead \cup {Absent}]
    /\ journal \subseteq Evidence
    /\ quarantine \in Quarantine
    /\ halted \in BOOLEAN
    /\ pc \in Steps
    /\ obs \in [Peers -> TrustedHead \cup {Absent}]
    /\ todo \subseteq Peers
    /\ convicted \subseteq Peers
    /\ class \in Classes
    /\ unsaved \in BOOLEAN
    /\ blame \subseteq Evidence
    /\ current \in Peers \cup {None}
    /\ release \in [peer : Peers, loaded : Quarantine] \cup {None}
    /\ released \in BOOLEAN

NoClaims == [p \in Peers |-> Absent]

Init ==
    /\ served \in [Honest -> Heights]
    /\ \A p \in Honest : Snapshot[p] <= served[p] /\ served[p] <= Reach[p]
    /\ calm = FALSE
    /\ trusted = TrueHead(0)
    /\ heads = NoClaims
    /\ journal = {}
    /\ quarantine = [p \in Peers |-> NoEntry]
    /\ halted = FALSE
    /\ pc = "stopped"
    /\ obs = NoClaims
    /\ todo = {}
    /\ convicted = {}
    /\ class = "NONE"
    /\ unsaved = FALSE
    /\ blame = {}
    /\ current = None
    /\ release = None
    /\ released = FALSE

-----------------------------------------------------------------------------
\* The network and the peers.
Advance(p) ==
    /\ served[p] < Reach[p]
    /\ served' = [served EXCEPT ![p] = @ + 1]
    /\ UNCHANGED <<calm, files, halted, pc, cycle, operator>>

\* Looked at between two cycles.
CalmDown ==
    /\ ~calm /\ pc = "wait"
    /\ calm' = TRUE
    /\ UNCHANGED <<served, files, halted, pc, cycle, operator>>

\* The chain as far as any honest peer has verified it.
final == IF Honest = {} THEN 0
         ELSE served[CHOOSE p \in Honest : \A q \in Honest : served[q] <= served[p]]

\* What a peer may be seen to claim in a survey.
Claims(p) ==
    IF p \in Honest
    THEN {TrueHead(served[p])} \cup (IF calm THEN {} ELSE {Absent})
    ELSE {Absent} \cup (IF calm THEN {} ELSE FaultyClaims)

-----------------------------------------------------------------------------
\* The process.  What a cycle has gathered is gone when it ends.
EndCycle(where, halt) ==
    /\ halted' = halt
    /\ pc' = where
    /\ obs' = NoClaims
    /\ todo' = {}
    /\ convicted' = {}
    /\ class' = "NONE"
    /\ unsaved' = FALSE
    /\ blame' = {}
    /\ current' = None
    /\ UNCHANGED <<env, operator>>

\* IDLE or BACKOFF is reported, the cycle is over.
Wait == EndCycle("wait", FALSE)

\* peer-sync-follow, after a stop, a crash or a halt.
Start ==
    /\ pc = "stopped"
    /\ EndCycle("survey", FALSE)
    /\ UNCHANGED files

\* The poll interval or the retry delay has passed.
NextCycle ==
    /\ pc = "wait"
    /\ EndCycle("survey", FALSE)
    /\ UNCHANGED files

\* SIGTERM, noticed where the context of the cycle is looked at.
Stop ==
    /\ pc \in {"wait", "survey", "resolve", "fetch"}
    /\ ~calm
    /\ EndCycle("stopped", FALSE)
    /\ UNCHANGED files

Crash ==
    /\ pc # "stopped"
    /\ ~calm
    /\ EndCycle("stopped", halted)
    /\ UNCHANGED files

\* A file cannot be read or written, or the peer cannot be reached.
Fail ==
    /\ pc \notin {"stopped", "wait"}
    /\ ~calm
    /\ Wait
    /\ UNCHANGED files

-----------------------------------------------------------------------------
\* Every target is asked for its head.
Survey ==
    /\ pc = "survey"
    /\ obs' \in {o \in [Peers -> UNION {Claims(p) : p \in Peers}] :
                   \A p \in Peers : o[p] \in Claims(p)}
    /\ todo' = Seen(obs')
    /\ pc' = "record"
    /\ UNCHANGED <<env, files, halted, convicted, class, unsaved, blame, current, operator>>

\* recordAuthenticatedPeerHead of one of the peers: a claim that contradicts
\* the last one becomes evidence, then a quarantine entry, and only then the
\* last claim.
Equivocation(p) == [peer |-> p, type |-> "HEAD_EQUIVOCATION"]

InTurn(p) == p \in todo /\ \A q \in todo : Order[p] <= Order[q]

\* Variant: the new claim is stored before its contradiction is written.
RecordFirst(p) ==
    /\ pc = "record" /\ InTurn(p)
    /\ todo' = todo \ {p}
    /\ heads' = [heads EXCEPT ![p] = obs[p]]
    /\ IF heads[p] # Absent /\ Contradicts(heads[p], obs[p])
       THEN pc' = "convict" /\ current' = p
       ELSE UNCHANGED <<current, pc>>
    /\ UNCHANGED <<env, trusted, journal, quarantine, halted, operator>>
    /\ UNCHANGED <<obs, convicted, class, unsaved, blame>>

Record(p) ==
    /\ pc = "record" /\ InTurn(p)
    /\ todo' = todo \ {p}
    /\ IF heads[p] # Absent /\ Contradicts(heads[p], obs[p])
       THEN /\ journal' = journal \cup {Equivocation(p)}
            /\ current' = p
            /\ pc' = "convict"
            /\ UNCHANGED heads
       ELSE /\ heads' = [heads EXCEPT ![p] = obs[p]]
            /\ UNCHANGED <<journal, current, pc>>
    /\ UNCHANGED <<env, trusted, quarantine, halted, obs, convicted, class, unsaved, blame, operator>>

Convict ==
    /\ pc = "convict"
    /\ quarantine' = QuarantinePeer(quarantine, Equivocation(current))
    /\ pc' = "remember"
    /\ UNCHANGED <<env, trusted, heads, journal, halted, cycle, operator>>

Remember ==
    /\ pc = "remember"
    /\ heads' = [heads EXCEPT ![current] = obs[current]]
    /\ convicted' = convicted \cup {current}
    /\ current' = None
    /\ pc' = "record"
    /\ UNCHANGED <<env, trusted, journal, quarantine, halted, obs, todo, class, unsaved, blame, operator>>

\* enforcePeerEvidenceRetention once all heads are recorded.
Retain ==
    /\ pc = "record" /\ todo = {}
    /\ IF RetentionRefused(journal, quarantine)
       THEN Wait /\ UNCHANGED files
       ELSE /\ journal' \in Retained(journal, quarantine)
            /\ pc' = "resolve"
            /\ UNCHANGED <<env, trusted, heads, quarantine, halted, cycle, operator>>

-----------------------------------------------------------------------------
\* Variant: the quarantine is read before this survey's heads are recorded.
AllowedBefore ==
    [p \in Peers |-> IF IsQuarantined(quarantine, p) /\ p \notin convicted
                    THEN Absent ELSE obs[p]]

\* The claims of the peers that are not quarantined.
Allowed == [p \in Peers |-> IF IsQuarantined(quarantine, p) THEN Absent ELSE obs[p]]

Outcomes == {"PROVEN_LAG", "PROOF_HEAD_MISMATCH", "HISTORICAL_DIVERGENCE", "UNSAVED",
             "ANCESTRY_UNVERIFIED"}

\* A head that was proved but could not be saved is reported as an error of the
\* proof.
Reported(outcome) == IF outcome = "UNSAVED" THEN "HISTORICAL_DIVERGENCE" ELSE outcome

\* What asking p to prove its claim from the lower head may give.
AncestryOutcomes(p, lower, claim) ==
    IF p \in Honest
    THEN {Ancestry(p, served[p], lower, claim)}
         \cup (IF calm THEN {} ELSE {"ANCESTRY_UNVERIFIED"})
         \cup (IF ~calm /\ FirstBatchApplies(p, served[p], lower, claim) THEN {"UNSAVED"} ELSE {})
    ELSE {Ancestry(p, final, lower, claim), "ANCESTRY_UNVERIFIED", "HISTORICAL_DIVERGENCE"}

\* Variant: a peer that did not prove its claim is blamed as well.
BlamedUnproven == Outcomes \ {"PROVEN_LAG"}

\* The outcomes that are evidence against a peer.
Blamed == {"PROOF_HEAD_MISMATCH", "HISTORICAL_DIVERGENCE", "UNSAVED"}

\* resolvePeerSurveyContext and what persistResolverEvidence will write of it.
Resolve ==
    /\ pc = "resolve"
    /\ obs' = Allowed
    /\ LET survey == Classify(Allowed)
       IN  IF survey # "UNRESOLVED_HEIGHT_SKEW"
           THEN /\ class' = survey
                /\ blame' = IF survey = "FINALIZED_HEAD_CONFLICT"
                            THEN {[peer |-> p, type |-> survey] : p \in Seen(Allowed)}
                            ELSE {}
                /\ UNCHANGED unsaved
           ELSE \E lower \in Lowest(Allowed), outcome \in [Highest(Allowed) -> Outcomes] :
                    /\ \A p \in Highest(Allowed) :
                           outcome[p] \in AncestryOutcomes(p, Allowed[lower], Allowed[p])
                    /\ LET diverged == {p \in Highest(Allowed) : outcome[p] \in Blamed}
                       IN  /\ class' = IF \A p \in Highest(Allowed) : outcome[p] = "PROVEN_LAG"
                                       THEN "PROVEN_LAG"
                                       ELSE IF diverged # {} THEN "HISTORICAL_DIVERGENCE"
                                       ELSE "ANCESTRY_UNVERIFIED"
                           /\ blame' = {[peer |-> p, type |-> Reported(outcome[p])] : p \in diverged}
                    /\ unsaved' = \E p \in Highest(Allowed) : outcome[p] = "UNSAVED"
    /\ pc' = "blame"
    /\ UNCHANGED <<env, files, halted, todo, convicted, current, operator>>

\* persistResolverEvidence: each piece is appended; a head its own proofs
\* refute also quarantines the peer.
Blame(e) ==
    /\ pc = "blame"
    /\ journal' = journal \cup {e}
    /\ blame' = blame \ {e}
    /\ IF e.type = "PROOF_HEAD_MISMATCH"
       THEN pc' = "punish" /\ current' = e.peer
       ELSE UNCHANGED <<pc, current>>
    /\ UNCHANGED <<env, trusted, heads, quarantine, halted, obs, todo, convicted, class, unsaved, operator>>

Punish ==
    /\ pc = "punish"
    /\ quarantine' = QuarantinePeer(quarantine, [peer |-> current, type |-> "PROOF_HEAD_MISMATCH"])
    /\ current' = None
    /\ pc' = "blame"
    /\ UNCHANGED <<env, trusted, heads, journal, halted, obs, todo, convicted, class, unsaved, blame, operator>>

SafetyHalt == class \in {"FINALIZED_HEAD_CONFLICT", "HISTORICAL_DIVERGENCE"}
MayAdvance == class \in {"EXACT_HEAD_AGREEMENT", "PROVEN_LAG"}

\* Variant: those of the lowest head, on which no proof was asked.
EligibleLowest == Lowest(obs)

\* The peers followerEligiblePeers leaves: all of them agree, or all of the
\* highest have proved their claim.
Eligible == Highest(obs)

\* syncGovernedFollowerToObservedHeadContext asks the one chosen again: it
\* must still claim the surveyed head.  A head that is not ahead of the trusted
\* one ends the cycle, with IDLE or, if it is another DIR, an error.
Follow(p) ==
    \/ /\ p \in Honest => obs[p] = TrueHead(served[p])
       /\ IF trusted.height < obs[p].height
          THEN /\ current' = p
               /\ pc' = "fetch"
               /\ UNCHANGED <<env, halted, obs, todo, convicted, class, unsaved, blame, operator>>
          ELSE Wait
    \/ /\ p \in Honest => obs[p] # TrueHead(served[p])
       /\ Wait

\* All is written: retention once more, and the follower goes on, retries
\* later, or leaves its loop.
Conclude ==
    /\ pc = "blame" /\ blame = {}
    /\ IF RetentionRefused(journal, quarantine)
       THEN Wait /\ UNCHANGED files
       ELSE /\ journal' \in Retained(journal, quarantine)
            /\ UNCHANGED <<trusted, heads, quarantine>>
            /\ IF MayAdvance THEN \E p \in Eligible : Follow(p)
               ELSE IF SafetyHalt THEN EndCycle("stopped", TRUE) ELSE Wait

\* The bundles the peer may answer with.
Served(p, to) ==
    IF p \in Honest THEN {Serve(p, served[p], trusted.height, to)}
    ELSE {Serve(p, final, trusted.height, h) : h \in Heights}

Fetching == pc = "fetch" /\ trusted.height < obs[current].height

\* What a bundle of the next batch makes of the trusted head.
Applied ==
    {IF b = Refused THEN Refused ELSE Apply(trusted, b) :
        b \in Served(current, BatchEnd(trusted.height, obs[current]))}

\* Variant: the head the peer claims is saved, not the one that was verified.
FetchClaimed ==
    /\ Fetching
    /\ \E reached \in Applied :
           IF reached \in {Refused, trusted}
           THEN Wait /\ UNCHANGED files
           ELSE /\ trusted' = obs[current]
                /\ UNCHANGED <<env, heads, journal, quarantine, halted, pc, cycle, operator>>

\* One batch, verified and saved; it must move the trusted head.
Fetch ==
    /\ Fetching
    /\ \E reached \in Applied :
           IF reached \in {Refused, trusted}
           THEN Wait /\ UNCHANGED files
           ELSE /\ trusted' = reached
                /\ UNCHANGED <<env, heads, journal, quarantine, halted, pc, cycle, operator>>

\* The save removes the old head and gets no further: it fails, or the process
\* dies.  The next cycle finds no file and starts at genesis.
LoseHead ==
    /\ Fetching /\ RemovesFirst /\ ~calm
    /\ Applied \ {Refused, trusted} # {}
    /\ trusted' = TrueHead(0)
    /\ Wait \/ EndCycle("stopped", halted)
    /\ UNCHANGED <<heads, journal, quarantine>>

\* The surveyed height is reached: IDLE if it is the DIR claimed, else an error.
Finish ==
    /\ pc = "fetch" /\ trusted.height >= obs[current].height
    /\ Wait
    /\ UNCHANGED files

-----------------------------------------------------------------------------
\* peer-quarantine-release loads the entries and later saves them, with no
\* lock against the follower.
LoadRelease(p) ==
    /\ release = None /\ ~released /\ ~calm
    /\ IsQuarantined(quarantine, p)
    /\ release' = [peer |-> p, loaded |-> quarantine]
    /\ UNCHANGED <<env, files, halted, pc, cycle, released>>

SaveRelease ==
    /\ release # None
    /\ quarantine' = ReleasePeer(release.loaded, release.peer)
    /\ release' = None
    /\ released' = TRUE
    /\ UNCHANGED <<env, trusted, heads, journal, halted, pc, cycle>>

-----------------------------------------------------------------------------
\* The follower's own loop, once it runs.
FollowerStep ==
    \/ NextCycle \/ Survey
    \/ \E p \in Peers : Record(p)
    \/ Convict \/ Remember \/ Retain \/ Resolve
    \/ \E e \in blame : Blame(e)
    \/ Punish \/ Conclude \/ Fetch \/ Finish

Next ==
    \/ CalmDown
    \/ \E p \in Honest : Advance(p)
    \/ Start \/ Stop \/ Crash \/ Fail \/ LoseHead
    \/ FollowerStep
    \/ \E p \in Peers : LoadRelease(p)
    \/ SaveRelease

Spec == Init /\ [][Next]_vars

\* The loop never gives up on its own: it waits, for a bounded time, and runs
\* the next cycle.  Nothing is assumed of the network, the operator or a
\* stopped process.
FairSpec == Spec /\ WF_vars(FollowerStep)

-----------------------------------------------------------------------------
\* No order of claims, proofs, crashes and releases makes the follower
\* quarantine a peer that reports what it has verified.
HonestNeverQuarantined == \A p \in Honest : quarantine[p] = NoEntry

\* Evidence that a quarantine entry cites is in the journal, across the crash
\* points between the two files, pruning and stale releases: otherwise
\* enforcePeerEvidenceRetention refuses every later cycle.
QuarantineBacked == Pinned(quarantine) \subseteq journal

\* A survey that stops the follower for good was answered by a faulty peer, or
\* the follower itself could not save a head that was proved to it: peers that
\* merely lag, or change validator sets, never do it.
HaltBlamesFaulty == SafetyHalt => Seen(obs) \cap Faulty # {} \/ unsaved

\* A peer caught in a contradiction in this cycle is not followed in it,
\* unless an operator's release was saved over its entry.
ConvictedNotFollowed ==
    pc = "fetch" /\ current \in convicted => released

\* A claim gives way to one that contradicts it only with the contradiction
\* in the journal: afterwards nobody could tell.
ContradictionRemembered ==
    [][\A p \in Peers :
          heads[p] # Absent /\ Contradicts(heads[p], heads'[p]) =>
              Equivocation(p) \in journal']_vars

\* The trusted head is one of the finalized chain and only moves forward, and
\* only in a fetch, whatever the peers claim and wherever the process dies; in
\* the Windows build a fetch may lose it.
Following == INSTANCE FollowedChain WITH
    Forgets <- RemovesFirst, busy <- pc = "fetch",
    trusted <- IF trusted.kind = "true" THEN trusted.height ELSE MaxHeight + 1
FollowsChain == Following!Spec

\* Once nothing fails, a running follower reaches what any honest peer
\* serves, unless a faulty peer makes it halt before: provided that the
\* checkpoint a peer serves lies within a batch of the trusted head, below its
\* own head and not above the head of a peer that lags.
CanCatchUp ==
    /\ calm /\ pc # "stopped"
    /\ \A p, q \in Honest : Snapshot[p] > 0 =>
           Snapshot[p] < trusted.height + Batch /\ Snapshot[p] < served[p] /\ Snapshot[p] <= served[q]

\* No honest peer is ahead of what it was surveyed at.
Unmoved == \A p \in Honest : obs[p] = TrueHead(served[p])

\* In the calm no cycle is wasted: when it ends the trusted head is at the
\* highest head surveyed, unless an honest peer has moved on, through
\* checkpoints, batches and changes of the validator set.
CalmCyclesArrive ==
    [][CanCatchUp /\ Unmoved /\ pc # "wait" /\ pc' \in {"wait", "stopped"} =>
           \A p \in Honest : served[p] <= trusted.height]_vars

CatchesUp ==
    \A h \in Heights \ {0} :
        CanCatchUp /\ (\E p \in Honest : served[p] >= h) ~> trusted.height >= h \/ halted

=============================================================================
