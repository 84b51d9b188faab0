---------------------------- MODULE GovernedSync ----------------------------
(***************************************************************************)
(* The proofs a peer serves and what a node that holds a head accepts of   *)
(* them (tools/portable-validator/peer_sync_governance.go), the head claims*)
(* of several peers and how they are told apart (peer_sync_multi.go).      *)
(*                                                                         *)
(* There is one finalized chain: COMMIT certificates, governance           *)
(* certificates and snapshot certificates exist for it and for nothing     *)
(* else, which is what PoVIConsensus shows of the validators.  A DIR of    *)
(* the chain is its height.                                                *)
(***************************************************************************)
EXTENDS Integers

CONSTANTS Peers,      \* the validators a follower is pointed at
          MaxHeight,  \* bound on the heights
          Batch,      \* finality proofs a request asks for
          Sets,       \* validator sets
          SetOf,      \* the validator set that governs a height
          Snapshot,   \* the height of the snapshot a peer serves, 0 for none
          Absent,     \* no head was observed
          Refused     \* no bundle, or one that is not accepted

Heights == 0..MaxHeight

ASSUME SyncAssumption ==
    /\ MaxHeight \in Nat
    /\ Batch \in Nat \ {0}
    /\ SetOf \in [Heights -> Sets]
    /\ Snapshot \in [Peers -> Heights]

-----------------------------------------------------------------------------
\* A head: the one of the chain at its height, one of that DIR with a wrong
\* state or validator-set root, or one of another DIR.
Kinds == {"true", "state", "set", "forged"}
TrustedHead == [height : Heights, kind : Kinds]

TrueHead(h) == [height |-> h, kind |-> "true"]

\* LatestDIRHash is all a conflict is about.
SameDIR(a, b) == (a.kind = "forged") <=> (b.kind = "forged")

\* Variant: any other head.
Differs(a, b) == a # b

\* Two heads that one validator cannot both have finalized.
Contradicts(a, b) == a.height = b.height /\ ~SameDIR(a, b)

-----------------------------------------------------------------------------
\* A governed SYNC_PROOF bundle: the validator set it starts from, a snapshot
\* certificate, the heights of its transitions and of its finality proofs.
Bundle == [snapshot : Heights, set : Sets, transitions : SUBSET Heights,
           first : Heights, last : Heights]

ASSUME AbsenceAssumption == Absent \notin TrustedHead /\ Refused \notin TrustedHead \cup Bundle

\* The heights at which governance changed the validator set.
Transitions == {h \in Heights \ {0} : SetOf[h] # SetOf[h - 1]}

\* Variant: the transition of the first height served is left out.
TransitionsAfterFirst(base, to) == {h \in Transitions : h > base + 1 /\ h <= to}

ServedTransitions(base, to) == {h \in Transitions : h > base /\ h <= to}

\* What an honest peer whose verified head is at height "verified" answers to
\* a SYNC_PROOF request for (from, to].
Serve(p, verified, from, to) ==
    LET base == IF Snapshot[p] > from THEN Snapshot[p] ELSE from
    IN  IF to > from /\ to <= verified /\ base < to
        THEN [snapshot |-> Snapshot[p], set |-> SetOf[base],
              transitions |-> ServedTransitions(base, to),
              first |-> base + 1, last |-> to]
        ELSE Refused

\* The validator set the verifier expects at h, going up from start.
ExpectedSet(b, start, h) == IF h = start.height + 1 THEN b.set ELSE SetOf[h - 1]

\* verifySyncValidatorTransition: a transition is authorized by the set whose
\* root the head below binds; the genesis head binds none.
Authorized(b, h) == h \in b.transitions /\ h > 1

\* The new heights of a bundle, each linked to the one below, under the set
\* expected there or one a transition from it authorizes.
LinksUp(b, start) ==
    \A h \in (start.height + 1)..b.last :
        /\ b.first <= start.height + 1
        /\ start.kind # "forged"
        /\ \/ SetOf[h] = ExpectedSet(b, start, h)
           \/ Authorized(b, h)

\* No transition of the heights gone over may be superfluous.
TransitionsUsed(b, head, start, end) ==
    \A h \in b.transitions : head.height < h /\ h <= end.height =>
        h > start.height /\ SetOf[h] # ExpectedSet(b, start, h)

\* The head that results, the old one if the bundle is not ahead of it.
Apply(head, b) ==
    LET jump  == b.snapshot > head.height
        start == IF jump THEN TrueHead(b.snapshot) ELSE head
        end   == IF b.last > start.height THEN TrueHead(b.last) ELSE start
    IN  IF /\ b.first <= b.last
           /\ jump => b.set = SetOf[b.snapshot]
           /\ start.height > 0 => b.set = SetOf[start.height] /\ start.kind # "set"
           /\ LinksUp(b, start)
           /\ TransitionsUsed(b, head, start, end)
        THEN IF end.height <= head.height THEN head ELSE end
        ELSE Refused

-----------------------------------------------------------------------------
\* classifyPeerHeads over the observations obs \in [Peers -> TrustedHead + Absent].
Seen(obs) == {p \in Peers : obs[p] # Absent}

Highest(obs) == {p \in Seen(obs) : \A q \in Seen(obs) : obs[q].height <= obs[p].height}
Lowest(obs)  == {p \in Seen(obs) : \A q \in Seen(obs) : obs[p].height <= obs[q].height}

Classify(obs) ==
    IF Seen(obs) = {} THEN "NO_AUTHENTICATED_PEERS"
    ELSE IF \E p, q \in Seen(obs) : Contradicts(obs[p], obs[q]) THEN "FINALIZED_HEAD_CONFLICT"
    ELSE IF Highest(obs) # Lowest(obs) THEN "UNRESOLVED_HEIGHT_SKEW"
    ELSE "EXACT_HEAD_AGREEMENT"

-----------------------------------------------------------------------------
\* Whether p, that verified "known" heights, proves that the head it claims
\* descends from a lower one, asked batch by batch from height h up.
BatchEnd(h, claim) == IF h + Batch < claim.height THEN h + Batch ELSE claim.height
BatchStarts(lower, claim) ==
    {h \in Heights : /\ lower.height <= h /\ h < claim.height
                     /\ (h - lower.height) % Batch = 0}

\* Whether its first batch is good, so that the head reached is saved, in a
\* temporary directory, before the next one is asked for.
FirstBatchApplies(p, known, lower, claim) ==
    LET reply == Serve(p, known, lower.height, BatchEnd(lower.height, claim))
    IN  /\ reply # Refused
        /\ reply.snapshot <= lower.height /\ reply.first = lower.height + 1
        /\ Apply(lower, reply) # Refused

Ancestry(p, known, lower, claim) ==
    LET Reply(h)    == Serve(p, known, h, BatchEnd(h, claim))
        Reached(h)  == IF h = lower.height THEN lower ELSE TrueHead(h)
        Partial(h)  == \/ Reply(h) = Refused
                       \/ Reply(h).snapshot > lower.height
                       \/ Reply(h).first # h + 1
        Diverges(h) == ~Partial(h) /\ Apply(Reached(h), Reply(h)) = Refused
        Ends        == {h \in BatchStarts(lower, claim) : Partial(h) \/ Diverges(h)}
        End         == CHOOSE h \in Ends : \A i \in Ends : h <= i
    IN  IF Ends # {}
        THEN IF Partial(End) THEN "ANCESTRY_UNVERIFIED" ELSE "HISTORICAL_DIVERGENCE"
        ELSE IF claim = TrueHead(claim.height) THEN "PROVEN_LAG" ELSE "PROOF_HEAD_MISMATCH"

=============================================================================
