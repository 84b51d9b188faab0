------------------------- MODULE GovernedSyncProofs -------------------------
(***************************************************************************)
(* Proofs about the bundles of GovernedSync: what an honest peer serves    *)
(* leads the one that asks to the height it asked for, and is never held   *)
(* against the peer, for any snapshots, batches and validator sets.        *)
(***************************************************************************)
EXTENDS GovernedSync, WellFoundedInduction, TLAPS

\* The genesis head binds no validator set that could authorize a transition,
\* so the chain has none at its first height (verifySyncValidatorTransition).
NoTransitionAtFirst == MaxHeight > 0 => SetOf[1] = SetOf[0]

-----------------------------------------------------------------------------
\* A nonempty set of heights has a lowest.
LEMMA LowestHeight ==
    ASSUME NEW S \in SUBSET Heights, S # {}
    PROVE  \E m \in S : \A i \in S : m <= i
<1> DEFINE R == {ss \in Nat \X Nat : ss[1] < ss[2]}
<1>1. IsWellFoundedOn(R, Nat)
  BY NatLessThanWellFounded DEF OpToRel
<1>2. S \subseteq Nat
  BY SyncAssumption DEF Heights
<1>3. PICK m \in S : \A i \in S : ~(<<i, m>> \in R)
  <2> HIDE DEF R
  <2> QED  BY <1>1, <1>2, WFMin
<1>4. \A i \in S : ~(i < m)
  BY <1>2, <1>3
<1> QED  BY <1>2, <1>4

\* What a peer serves is a bundle of what it has verified.
LEMMA ServeBound ==
    ASSUME NEW p \in Peers, NEW verified \in Heights, NEW from \in Heights, NEW to \in Heights,
           Serve(p, verified, from, to) # Refused
    PROVE  /\ Serve(p, verified, from, to) \in Bundle
           /\ Serve(p, verified, from, to).snapshot <= verified
           /\ Serve(p, verified, from, to).last <= verified
<1> DEFINE base == IF Snapshot[p] > from THEN Snapshot[p] ELSE from
           b == [snapshot |-> Snapshot[p], set |-> SetOf[base],
                 transitions |-> ServedTransitions(base, to), first |-> base + 1, last |-> to]
<1>1. to <= verified /\ base < to /\ Serve(p, verified, from, to) = b
  BY DEF Serve
<1>2. base \in Heights /\ Snapshot[p] \in Heights /\ Snapshot[p] <= base
  BY SyncAssumption DEF Heights
<1>3. base + 1 \in Heights
  BY <1>1, <1>2, SyncAssumption DEF Heights
<1>4. SetOf[base] \in Sets /\ ServedTransitions(base, to) \subseteq Heights
  BY <1>2, SyncAssumption DEF ServedTransitions, Transitions
<1>5. b \in Bundle
  <2> HIDE DEF base
  <2> QED  BY <1>2, <1>3, <1>4 DEF Bundle
<1>6. Snapshot[p] <= verified
  BY <1>1, <1>2, SyncAssumption DEF Heights
<1> QED  BY <1>1, <1>5, <1>6

\* A bundle is refused, changes nothing, or leads to a finalized DIR of its
\* own that is ahead of the head it is applied to.
LEMMA ApplyAdvances ==
    ASSUME NEW head \in TrustedHead, NEW b \in Bundle
    PROVE  \/ Apply(head, b) \in {Refused, head}
           \/ \E k \in Heights : /\ Apply(head, b) = TrueHead(k)
                                 /\ head.height < k
                                 /\ k <= b.snapshot \/ k <= b.last
<1> DEFINE start == IF b.snapshot > head.height THEN TrueHead(b.snapshot) ELSE head
           end   == IF b.last > start.height THEN TrueHead(b.last) ELSE start
<1>1. Apply(head, b) \in {Refused, head} \/ (Apply(head, b) = end /\ ~(end.height <= head.height))
  BY DEF Apply
<1>2. /\ b.snapshot \in Heights /\ b.last \in Heights /\ head.height \in Heights
      /\ b.snapshot \in Nat /\ b.last \in Nat /\ head.height \in Nat
  BY SyncAssumption DEF Bundle, TrustedHead, Heights
<1>3. TrueHead(b.last).height = b.last /\ TrueHead(b.snapshot).height = b.snapshot
  BY DEF TrueHead
<1> SUFFICES ASSUME Apply(head, b) = end, ~(end.height <= head.height)
             PROVE  \E k \in Heights : /\ end = TrueHead(k)
                                       /\ head.height < k
                                       /\ k <= b.snapshot \/ k <= b.last
  BY <1>1
<1>4. ~(end.height <= head.height)
  OBVIOUS
<1>5. end \in {TrueHead(b.last), TrueHead(b.snapshot), head}
  OBVIOUS
<1> HIDE DEF end, start
<1>6. end # head
  BY <1>2, <1>4
<1>7. CASE end = TrueHead(b.last)
  <2>1. end.height = b.last
    BY <1>3, <1>7
  <2> QED  BY <1>2, <1>4, <1>7, <2>1
<1>8. CASE end = TrueHead(b.snapshot)
  <2>1. end.height = b.snapshot
    BY <1>3, <1>8
  <2> QED  BY <1>2, <1>4, <1>8, <2>1
<1> QED  BY <1>5, <1>6, <1>7, <1>8

\* A peer answers when it is ahead of the height asked for and its checkpoint is
\* below that height.
LEMMA ServedWhenAble ==
    ASSUME NEW p \in Peers, NEW verified \in Heights, NEW from \in Heights, NEW to \in Heights,
           from < to, to <= verified, Snapshot[p] < to
    PROVE  /\ Serve(p, verified, from, to) # Refused
           /\ Serve(p, verified, from, to).snapshot = Snapshot[p]
           /\ Snapshot[p] <= from => Serve(p, verified, from, to).first = from + 1
<1> DEFINE base == IF Snapshot[p] > from THEN Snapshot[p] ELSE from
           b == [snapshot |-> Snapshot[p], set |-> SetOf[base],
                 transitions |-> ServedTransitions(base, to), first |-> base + 1, last |-> to]
<1>1. /\ from \in Nat /\ to \in Nat /\ Snapshot[p] \in Nat /\ base \in Nat
      /\ Heights = 0..MaxHeight /\ MaxHeight \in Nat /\ to <= MaxHeight
  BY SyncAssumption DEF Heights
<1>2. base < to
  OBVIOUS
<1>3. Serve(p, verified, from, to) = b
  BY <1>2 DEF Serve
<1>4. Snapshot[p] <= from => base = from
  BY <1>1
<1> HIDE DEF base
<1>5. b \in Bundle
  <2>1. base \in Heights /\ base + 1 \in Heights
    BY <1>1, <1>2
  <2>2. SetOf[base] \in Sets /\ Snapshot[p] \in Heights /\ ServedTransitions(base, to) \subseteq Heights
    BY <2>1, SyncAssumption DEF ServedTransitions, Transitions
  <2> QED  BY <2>1, <2>2 DEF Bundle
<1> QED  BY <1>3, <1>4, <1>5, AbsenceAssumption

\* What an honest peer serves leads from any head of the chain to the height
\* asked for, also through a checkpoint above that head and across changes of
\* the validator set (governedPeerSyncHandler and verifyGovernedSyncBundle agree).
THEOREM ServedLeadsUp ==
    ASSUME NoTransitionAtFirst,
           NEW p \in Peers, NEW verified \in Heights, NEW from \in Heights, NEW to \in Heights,
           Serve(p, verified, from, to) # Refused
    PROVE  Apply(TrueHead(from), Serve(p, verified, from, to)) = TrueHead(to)
<1> DEFINE base == IF Snapshot[p] > from THEN Snapshot[p] ELSE from
           b == Serve(p, verified, from, to)
           head == TrueHead(from)
           start == IF b.snapshot > head.height THEN TrueHead(b.snapshot) ELSE head
           end == IF b.last > start.height THEN TrueHead(b.last) ELSE start
<1>1. b = [snapshot |-> Snapshot[p], set |-> SetOf[base],
           transitions |-> ServedTransitions(base, to), first |-> base + 1, last |-> to]
      /\ from < to /\ base < to
  BY DEF Serve
<1>2. /\ head.height = from /\ head.kind = "true"
      /\ TrueHead(to).height = to
      /\ TrueHead(base).height = base /\ TrueHead(base).kind = "true"
      /\ b.first = base + 1 /\ b.last = to /\ b.snapshot = Snapshot[p]
      /\ b.set = SetOf[base] /\ b.transitions = ServedTransitions(base, to)
  BY <1>1 DEF TrueHead
<1>3. /\ from \in Nat /\ to \in Nat /\ base \in Nat /\ from <= base
      /\ Heights = 0..MaxHeight /\ MaxHeight \in Nat /\ to <= MaxHeight
  BY SyncAssumption DEF Heights
<1>4. start = TrueHead(base) /\ end = TrueHead(to)
  <2>1. start = TrueHead(base)
    BY <1>2
  <2> HIDE DEF base, start, b
  <2> QED  BY <1>1, <1>2, <1>3, <2>1
<1>5. b.snapshot > head.height => b.set = SetOf[b.snapshot]
  BY <1>2
<1> HIDE DEF b, head, base, start, end
<1>6. LinksUp(b, start)
  <2> SUFFICES ASSUME NEW h \in (base + 1)..to,
                      SetOf[h] # ExpectedSet(b, start, h)
               PROVE  Authorized(b, h)
    BY <1>2, <1>3, <1>4 DEF LinksUp
  <2>1. h \in Heights \ {0} /\ base < h /\ h <= to
    BY <1>1, <1>3
  <2>2. SetOf[h] # SetOf[h - 1]
    <3>1. CASE h = base + 1
      BY <1>2, <1>3, <1>4, <3>1 DEF ExpectedSet
    <3>2. CASE h # base + 1
      BY <1>2, <1>4, <3>2 DEF ExpectedSet
    <3> QED  BY <3>1, <3>2
  <2>3. h \in ServedTransitions(base, to)
    BY <2>1, <2>2 DEF ServedTransitions, Transitions
  <2>4. h > 1
    BY <1>3, <2>1, <2>2 DEF NoTransitionAtFirst
  <2> QED  BY <1>2, <2>3, <2>4 DEF Authorized
<1>7. TransitionsUsed(b, head, start, end)
  <2> SUFFICES ASSUME NEW h \in ServedTransitions(base, to)
               PROVE  h > start.height /\ SetOf[h] # ExpectedSet(b, start, h)
    BY <1>2 DEF TransitionsUsed
  <2>1. h \in Heights \ {0} /\ SetOf[h] # SetOf[h - 1] /\ h > base
    BY DEF ServedTransitions, Transitions
  <2>2. ExpectedSet(b, start, h) = SetOf[h - 1]
    <3>1. CASE h = base + 1
      BY <1>2, <1>3, <1>4, <3>1 DEF ExpectedSet
    <3>2. CASE h # base + 1
      BY <1>2, <1>4, <3>2 DEF ExpectedSet
    <3> QED  BY <3>1, <3>2
  <2> QED  BY <1>2, <1>4, <2>1, <2>2
<1>8. /\ b.first <= b.last
      /\ start.height > 0 => b.set = SetOf[start.height] /\ start.kind # "set"
      /\ ~(end.height <= head.height)
  <2>1. b.first <= b.last
    BY <1>1, <1>2, <1>3
  <2>2. b.set = SetOf[start.height] /\ start.kind # "set"
    BY <1>2, <1>4
  <2>3. end.height = to /\ head.height = from
    BY <1>2, <1>4
  <2> QED  BY <1>1, <1>3, <2>1, <2>2, <2>3
<1>9. Apply(head, b) = end
  BY <1>5, <1>6, <1>7, <1>8 DEF Apply, start, end
<1> QED  BY <1>4, <1>9 DEF b, head

\* An honest peer asked to prove its claim from a lower head of the chain is
\* never found to diverge: at worst it proves nothing (classifyPeerAncestry).
THEOREM HonestNeverDiverges ==
    ASSUME NoTransitionAtFirst,
           NEW p \in Peers, NEW known \in Heights, NEW low \in Heights, NEW top \in Heights
    PROVE  Ancestry(p, known, TrueHead(low), TrueHead(top)) \in {"PROVEN_LAG", "ANCESTRY_UNVERIFIED"}
<1> DEFINE lower == TrueHead(low)
           claim == TrueHead(top)
           Reply(h)    == Serve(p, known, h, BatchEnd(h, claim))
           Reached(h)  == IF h = lower.height THEN lower ELSE TrueHead(h)
           Partial(h)  == \/ Reply(h) = Refused
                          \/ Reply(h).snapshot > lower.height
                          \/ Reply(h).first # h + 1
           Diverges(h) == ~Partial(h) /\ Apply(Reached(h), Reply(h)) = Refused
           Ends        == {h \in BatchStarts(lower, claim) : Partial(h) \/ Diverges(h)}
           End         == CHOOSE h \in Ends : \A i \in Ends : h <= i
<1>1. lower.height = low /\ claim.height = top /\ low \in Nat /\ top \in Nat
      /\ Heights = 0..MaxHeight /\ MaxHeight \in Nat /\ Batch \in Nat \ {0}
  BY SyncAssumption DEF TrueHead, Heights
<1>2. \A h \in BatchStarts(lower, claim) : ~Diverges(h)
  <2> SUFFICES ASSUME NEW h \in BatchStarts(lower, claim), ~Partial(h)
               PROVE  Apply(Reached(h), Reply(h)) # Refused
    OBVIOUS
  <2>1. h \in Heights /\ low <= h /\ h < top
    BY <1>1 DEF BatchStarts
  <2>2. Reached(h) = TrueHead(h)
    BY <1>1
  <2>3. BatchEnd(h, claim) \in Heights
    BY <1>1, <2>1 DEF BatchEnd
  <2>4. Reply(h) # Refused
    OBVIOUS
  <2> HIDE DEF claim
  <2>5. TrueHead(BatchEnd(h, TrueHead(top))) # Refused
    BY <2>3, AbsenceAssumption DEF claim, TrueHead, TrustedHead, Kinds
  <2> QED  BY <2>1, <2>2, <2>3, <2>4, <2>5, ServedLeadsUp DEF claim
<1>3. Ends # {} => Partial(End)
  <2> SUFFICES ASSUME Ends # {} PROVE Partial(End)
    OBVIOUS
  <2>1. Ends \in SUBSET Heights
    BY DEF BatchStarts
  <2>2. End \in Ends
    <3> HIDE DEF Ends
    <3> QED  BY <2>1, LowestHeight
  <2> QED  BY <1>2, <2>2
<1>4. Ancestry(p, known, lower, claim) =
         IF Ends # {}
         THEN IF Partial(End) THEN "ANCESTRY_UNVERIFIED" ELSE "HISTORICAL_DIVERGENCE"
         ELSE IF claim = TrueHead(claim.height) THEN "PROVEN_LAG" ELSE "PROOF_HEAD_MISMATCH"
  BY DEF Ancestry
<1>5. claim = TrueHead(claim.height)
  BY <1>1
<1> HIDE DEF Ends, End, Partial, lower, claim
<1>6. Ancestry(p, known, lower, claim) \in {"PROVEN_LAG", "ANCESTRY_UNVERIFIED"}
  BY <1>3, <1>4, <1>5
<1> QED  BY <1>6 DEF lower, claim

\* One that has verified what it claims, and whose checkpoint is not above the
\* lower head, proves it: batch after batch it is served, linked and accepted
\* (classifyPeerAncestry).
THEOREM HonestProves ==
    ASSUME NoTransitionAtFirst,
           NEW p \in Peers, NEW known \in Heights, NEW low \in Heights, NEW top \in Heights,
           top <= known, Snapshot[p] <= low
    PROVE  Ancestry(p, known, TrueHead(low), TrueHead(top)) = "PROVEN_LAG"
<1> DEFINE lower == TrueHead(low)
           claim == TrueHead(top)
           Reply(h)    == Serve(p, known, h, BatchEnd(h, claim))
           Reached(h)  == IF h = lower.height THEN lower ELSE TrueHead(h)
           Partial(h)  == \/ Reply(h) = Refused
                          \/ Reply(h).snapshot > lower.height
                          \/ Reply(h).first # h + 1
           Diverges(h) == ~Partial(h) /\ Apply(Reached(h), Reply(h)) = Refused
           Ends        == {h \in BatchStarts(lower, claim) : Partial(h) \/ Diverges(h)}
<1>1. lower.height = low /\ claim.height = top
      /\ low \in Nat /\ top \in Nat /\ known \in Nat /\ known <= MaxHeight
      /\ Heights = 0..MaxHeight /\ MaxHeight \in Nat /\ Batch \in Nat \ {0}
      /\ Snapshot[p] \in Nat
  BY SyncAssumption DEF TrueHead, Heights
<1>2. ASSUME NEW h \in BatchStarts(lower, claim) PROVE ~Partial(h) /\ ~Diverges(h)
  <2> DEFINE end == BatchEnd(h, claim)
  <2>1. h \in Heights /\ h \in Nat /\ low <= h /\ h < top
    BY <1>1, <1>2 DEF BatchStarts
  <2>2. h < end /\ end <= top /\ end \in Nat
    BY <1>1, <2>1 DEF BatchEnd
  <2>3. Reached(h) = TrueHead(h)
    BY <1>1
  <2> HIDE DEF claim, end
  <2>4. end \in Heights /\ end <= known /\ Snapshot[p] <= h /\ Snapshot[p] < end
    BY <1>1, <2>1, <2>2
  <2>5. /\ Serve(p, known, h, end) # Refused
        /\ Serve(p, known, h, end).snapshot = Snapshot[p]
        /\ Serve(p, known, h, end).first = h + 1
    BY <2>1, <2>2, <2>4, ServedWhenAble
  <2>6. ~(Snapshot[p] > lower.height)
    BY <1>1
  <2>7. ~Partial(h)
    BY <2>5, <2>6 DEF end
  <2>8. Apply(TrueHead(h), Serve(p, known, h, end)) = TrueHead(end)
    BY <2>1, <2>4, <2>5, ServedLeadsUp
  <2>9. TrueHead(end) # Refused
    BY <2>4, AbsenceAssumption DEF TrueHead, TrustedHead, Kinds
  <2> QED  BY <2>3, <2>7, <2>8, <2>9 DEF end
<1>3. Ends = {}
  BY <1>2
<1>4. Ancestry(p, known, lower, claim) =
         IF Ends # {}
         THEN IF Partial(CHOOSE h \in Ends : \A i \in Ends : h <= i)
              THEN "ANCESTRY_UNVERIFIED" ELSE "HISTORICAL_DIVERGENCE"
         ELSE IF claim = TrueHead(claim.height) THEN "PROVEN_LAG" ELSE "PROOF_HEAD_MISMATCH"
  BY DEF Ancestry
<1>5. claim = TrueHead(claim.height)
  BY <1>1
<1> HIDE DEF Ends, Partial, lower, claim
<1>6. Ancestry(p, known, lower, claim) = "PROVEN_LAG"
  BY <1>3, <1>4, <1>5
<1> QED  BY <1>6 DEF lower, claim

=============================================================================
