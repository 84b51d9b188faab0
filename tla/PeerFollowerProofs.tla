------------------------- MODULE PeerFollowerProofs -------------------------
(***************************************************************************)
(* Proofs about PeerFollower: evidence is written before what cites it,    *)
(* honest peers are neither quarantined nor the cause of a halt, and the   *)
(* trusted head follows the finalized chain, up to what the honest peers   *)
(* serve when nothing fails, for any peers, claims, snapshots, validator   *)
(* sets and bounds.                                                        *)
(***************************************************************************)
EXTENDS PeerFollower, GovernedSyncProofs

-----------------------------------------------------------------------------
\* Some honest peer serves what no other exceeds.
LEMMA HighestServed ==
    ASSUME NEW s \in [Honest -> Heights], Honest # {}
    PROVE  \E p \in Honest : \A q \in Honest : s[q] <= s[p]
<1> DEFINE S == {MaxHeight - s[p] : p \in Honest}
<1>1. S \in SUBSET Heights /\ S # {}
  BY SyncAssumption DEF Heights
<1>2. PICK m \in S : \A i \in S : m <= i
  <2> HIDE DEF S
  <2> QED  BY <1>1, LowestHeight
<1>3. PICK p \in Honest : m = MaxHeight - s[p]
  BY <1>2
<1> SUFFICES ASSUME NEW q \in Honest PROVE s[q] <= s[p]
  OBVIOUS
<1>4. MaxHeight - s[p] <= MaxHeight - s[q]
  BY <1>2, <1>3
<1> QED  BY <1>4, SyncAssumption DEF Heights

\* final is what one honest peer serves and no honest peer exceeds it.
LEMMA FinalIsHighest ==
    ASSUME served \in [Honest -> Heights]
    PROVE  /\ final \in Heights
           /\ \A p \in Honest : served[p] <= final
           /\ Honest # {} => \E p \in Honest : final = served[p]
<1>1. CASE Honest = {}
  BY <1>1, SyncAssumption DEF final, Heights
<1>2. CASE Honest # {}
  <2> DEFINE top == CHOOSE r \in Honest : \A q \in Honest : served[q] <= served[r]
  <2>1. top \in Honest /\ \A q \in Honest : served[q] <= served[top]
    BY <1>2, HighestServed
  <2>2. final = served[top]
    BY <1>2 DEF final
  <2> QED  BY <1>2, <2>1, <2>2
<1> QED  BY <1>1, <1>2

\* When an honest peer advances, the chain it has verified grows by one height
\* or not at all.
LEMMA FinalGrows ==
    ASSUME TypeOK, TypeOK', NEW p \in Honest, Advance(p)
    PROVE  /\ final \in Heights /\ final' \in Heights
           /\ final' = final \/ final' = final + 1
<1> DEFINE top == CHOOSE r \in Honest : \A q \in Honest : served'[q] <= served'[r]
<1>1. served \in [Honest -> Heights] /\ served' \in [Honest -> Heights]
  BY DEF TypeOK
<1>2. top \in Honest /\ \A q \in Honest : served'[q] <= served'[top]
  BY <1>1, HighestServed
<1>3. final' = served'[top]
  BY DEF final
<1>4. final \in Heights /\ \A q \in Honest : served[q] <= final
  BY <1>1, FinalIsHighest
<1>5. PICK r \in Honest : final = served[r]
  BY <1>1, FinalIsHighest
<1> HIDE DEF top
<1>6. \A q \in Honest : served'[q] = IF q = p THEN served[q] + 1 ELSE served[q]
  BY <1>1 DEF Advance
<1>7. /\ final' \in Heights /\ final \in Nat /\ final' \in Nat
      /\ \A q \in Honest : served[q] \in Nat
  BY <1>1, <1>2, <1>3, <1>4, SyncAssumption DEF Heights
<1>8. final' <= final + 1
  BY <1>2, <1>3, <1>4, <1>6, <1>7
<1>9. final <= final'
  <2>1. served'[r] <= served'[top] /\ served[r] <= served'[r]
    BY <1>2, <1>6, <1>7
  <2>2. served'[r] \in Nat
    BY <1>6, <1>7
  <2> QED  BY <1>3, <1>5, <1>7, <2>1, <2>2
<1> QED  BY <1>4, <1>7, <1>8, <1>9

-----------------------------------------------------------------------------
\* Steps that end or begin a cycle: what it had gathered is gone.
Forgotten ==
    /\ obs' = NoClaims /\ todo' = {} /\ convicted' = {}
    /\ class' = "NONE" /\ unsaved' = FALSE /\ blame' = {} /\ current' = None
    /\ halted' \in BOOLEAN /\ pc' \in {"stopped", "wait", "survey"}
    /\ pc \notin {"stopped", "wait"} => pc' # "survey"
    /\ UNCHANGED <<env, operator, heads, quarantine>>

\* Retention leaves what is cited in the journal.
Pruned ==
    /\ ~RetentionRefused(journal, quarantine)
    /\ journal' \in Retained(journal, quarantine)
    /\ UNCHANGED <<env, operator, trusted, heads, quarantine>>

Ended == Forgotten /\ UNCHANGED <<trusted, journal>>

\* A save of the Windows build that removed the head and got no further.
Lost == /\ pc = "fetch" /\ RemovesFirst /\ Forgotten
        /\ trusted' = TrueHead(0) /\ UNCHANGED journal

\* Retain and Conclude when retention is not refused.
GoesOn     == pc = "record" /\ todo = {} /\ pc' = "resolve" /\ Pruned /\ UNCHANGED <<halted, cycle>>
Concluded  == pc = "blame" /\ Forgotten /\ Pruned
Selects(p) == /\ pc = "blame" /\ pc' = "fetch" /\ current' = p /\ p \in Eligible /\ Pruned
              /\ UNCHANGED <<halted, obs, todo, convicted, class, unsaved, blame>>

Saves == /\ pc = "fetch" /\ trusted.height < obs[current].height
         /\ trusted' \in Applied \ {Refused, trusted}
         /\ UNCHANGED <<env, heads, journal, quarantine, halted, pc, cycle, operator>>

\* The steps that may end a cycle.
LEMMA LoopSteps ==
    ASSUME Retain \/ Conclude \/ Fetch \/ Finish
    PROVE  Ended \/ GoesOn \/ Concluded \/ (\E p \in Peers : Selects(p)) \/ Saves
<1>1. ASSUME Finish PROVE Ended
  BY <1>1 DEF Finish, Wait, EndCycle, Ended, Forgotten, files
<1>2. ASSUME Retain PROVE Ended \/ GoesOn
  BY <1>2 DEF Retain, Wait, EndCycle, Ended, Forgotten, files, GoesOn, Pruned
<1>3. ASSUME Conclude PROVE Ended \/ Concluded \/ \E p \in Peers : Selects(p)
  <2>1. CASE RetentionRefused(journal, quarantine)
    BY <1>3, <2>1 DEF Conclude, Wait, EndCycle, Ended, Forgotten, files
  <2>2. CASE ~RetentionRefused(journal, quarantine)
    <3>1. /\ pc = "blame" /\ journal' \in Retained(journal, quarantine)
          /\ UNCHANGED <<trusted, heads, quarantine>>
          /\ IF MayAdvance THEN \E p \in Eligible : Follow(p)
             ELSE IF SafetyHalt THEN EndCycle("stopped", TRUE) ELSE Wait
      BY <1>3, <2>2 DEF Conclude
    <3>2. ASSUME \/ EndCycle("stopped", TRUE) \/ Wait PROVE Concluded
      BY <2>2, <3>1, <3>2 DEF Wait, EndCycle, Concluded, Forgotten, Pruned
    <3>3. ASSUME NEW p \in Eligible, Follow(p) PROVE Wait \/ Selects(p)
      BY <2>2, <3>1, <3>3 DEF Follow, Selects, Pruned
    <3>4. Eligible \subseteq Peers
      BY DEF Eligible, Highest, Seen
    <3> QED  BY <3>1, <3>2, <3>3, <3>4
  <2> QED  BY <2>1, <2>2
<1>4. ASSUME Fetch PROVE Ended \/ Saves
  <2>1. PICK reached \in Applied :
           IF reached \in {Refused, trusted} THEN Wait /\ UNCHANGED files
           ELSE trusted' = reached
                /\ UNCHANGED <<env, heads, journal, quarantine, halted, pc, cycle, operator>>
    BY <1>4 DEF Fetch
  <2>2. CASE reached \in {Refused, trusted}
    BY <2>1, <2>2 DEF Wait, EndCycle, Ended, Forgotten, files
  <2>3. CASE reached \notin {Refused, trusted}
    BY <1>4, <2>1, <2>3 DEF Fetch, Fetching, Saves
  <2> QED  BY <2>2, <2>3
<1> QED  BY <1>1, <1>2, <1>3, <1>4

\* The steps that the invariants tell apart.
LEMMA StepCases ==
    ASSUME TypeOK, [Next]_vars
    PROVE  \/ UNCHANGED vars \/ CalmDown \/ (\E p \in Honest : Advance(p))
           \/ Ended \/ Lost \/ Survey \/ (\E p \in Peers : Record(p)) \/ Convict \/ Remember
           \/ GoesOn \/ Resolve \/ (\E e \in blame : Blame(e)) \/ Punish
           \/ Concluded \/ (\E p \in Peers : Selects(p)) \/ Saves
           \/ (\E p \in Peers : LoadRelease(p)) \/ SaveRelease
<1>1. ASSUME Start \/ Stop \/ Crash \/ Fail \/ NextCycle PROVE Ended
  BY <1>1 DEF Start, Stop, Crash, Fail, NextCycle, Wait, EndCycle, Ended, Forgotten, files, TypeOK
<1>2. ASSUME LoseHead PROVE Lost
  BY <1>2 DEF LoseHead, Fetching, Wait, EndCycle, Lost, Forgotten, TypeOK
<1> QED  BY <1>1, <1>2, LoopSteps DEF Next, FollowerStep

-----------------------------------------------------------------------------
LEMMA TypeInit == Init => TypeOK
<1> SUFFICES ASSUME Init PROVE TypeOK
  OBVIOUS
<1>1. TrueHead(0) \in TrustedHead
  BY SyncAssumption DEF TrueHead, TrustedHead, Kinds, Heights
<1>2. [p \in Peers |-> NoEntry] \in Quarantine
  BY FollowerAssumption DEF Quarantine, Entry, QuarantineStatus, NoEntry
<1> QED  BY <1>1, <1>2 DEF Init, TypeOK, NoClaims, Classes, Steps

\* An entry stays one when evidence is added or it is released.
LEMMA QuarantineTypes ==
    ASSUME NEW q \in Quarantine
    PROVE  /\ \A e \in Evidence : QuarantinePeer(q, e) \in Quarantine
           /\ \A p \in Peers : ReleasePeer(q, p) \in Quarantine
<1>1. ASSUME NEW e \in Evidence PROVE QuarantinePeer(q, e) \in Quarantine
  BY <1>1 DEF QuarantinePeer, Quarantine, Entry, QuarantineStatus, Evidence
<1>2. ASSUME NEW p \in Peers PROVE ReleasePeer(q, p) \in Quarantine
  BY <1>2, FollowerAssumption DEF ReleasePeer, Quarantine, Entry, QuarantineStatus
<1> QED  BY <1>1, <1>2

\* The peer a step is about is a peer of the survey, and every claim still to
\* be recorded was made in it.
InSurvey ==
    /\ pc \in {"convict", "remember", "punish", "fetch"} => current \in Peers
    /\ pc = "fetch" => obs[current] # Absent
    /\ todo \subseteq Seen(obs)
    /\ pc \notin {"record", "convict", "remember"} => todo = {}

\* What the peer followed answers is a bundle of what the honest peers serve.
LEMMA ServedBundles ==
    ASSUME TypeOK, InSurvey, Fetching,
           NEW b \in Served(current, BatchEnd(trusted.height, obs[current])), b # Refused
    PROVE  b \in Bundle /\ b.snapshot <= final /\ b.last <= final
<1> DEFINE to == BatchEnd(trusted.height, obs[current])
<1>1. current \in Peers /\ trusted.height \in Heights /\ obs[current].height \in Heights
      /\ trusted.height < obs[current].height
  BY DEF Fetching, InSurvey, TypeOK, TrustedHead
<1>2. to \in Heights
  BY <1>1, SyncAssumption DEF BatchEnd, Heights
<1>3. final \in Heights /\ \A p \in Honest : served[p] <= final /\ served[p] \in Heights
  BY FinalIsHighest DEF TypeOK
<1>4. CASE current \in Honest
  <2>1. b = Serve(current, served[current], trusted.height, to)
    BY <1>4 DEF Served
  <2> HIDE DEF to
  <2>2. b \in Bundle /\ b.snapshot <= served[current] /\ b.last <= served[current]
    BY <1>1, <1>2, <1>3, <1>4, <2>1, ServeBound
  <2>3. served[current] \in Nat /\ final \in Nat /\ served[current] <= final
        /\ b.snapshot \in Nat /\ b.last \in Nat
    BY <1>3, <1>4, <2>2, SyncAssumption DEF Heights, Bundle
  <2> QED  BY <2>2, <2>3
<1>5. CASE current \notin Honest
  <2>1. PICK h \in Heights : b = Serve(current, final, trusted.height, h)
    BY <1>5 DEF Served
  <2> QED  BY <1>1, <1>3, <2>1, ServeBound
<1> QED  BY <1>4, <1>5

\* A saved head is a DIR of the chain ahead of the trusted one.
LEMMA SavesAdvances ==
    ASSUME TypeOK, InSurvey, Saves
    PROVE  \E k \in Heights : trusted' = TrueHead(k) /\ trusted.height < k /\ k <= final
<1>1. PICK b \in Served(current, BatchEnd(trusted.height, obs[current])) :
          b # Refused /\ trusted' = Apply(trusted, b)
  BY DEF Saves, Applied
<1>2. Fetching
  BY DEF Saves, Fetching
<1>3. b \in Bundle /\ b.snapshot <= final /\ b.last <= final
  BY <1>1, <1>2, ServedBundles
<1>4. trusted \in TrustedHead /\ trusted' \notin {Refused, trusted}
  BY DEF TypeOK, Saves
<1>5. PICK k \in Heights : /\ Apply(trusted, b) = TrueHead(k)
                           /\ trusted.height < k
                           /\ k <= b.snapshot \/ k <= b.last
  BY <1>1, <1>3, <1>4, ApplyAdvances
<1>6. final \in Heights
  BY FinalIsHighest DEF TypeOK
<1>7. k <= final
  BY <1>3, <1>5, <1>6, SyncAssumption DEF Bundle, Heights
<1> QED  BY <1>1, <1>5, <1>7

LEMMA TypeStep ==
    ASSUME TypeOK, InSurvey, [Next]_vars
    PROVE  TypeOK' /\ InSurvey'
<1> DEFINE G == TypeOK' /\ InSurvey'
<1>1. ASSUME CalmDown \/ UNCHANGED vars PROVE G
  BY <1>1 DEF CalmDown, vars, env, files, cycle, operator, TypeOK, InSurvey, Seen
<1>2. ASSUME NEW p \in Honest, Advance(p) PROVE G
  <2>1. served[p] + 1 \in Heights
    <3>1. served[p] \in 0..MaxHeight /\ Reach[p] \in 0..MaxHeight /\ served[p] < Reach[p]
      BY <1>2, FollowerAssumption DEF Advance, TypeOK, Heights
    <3> QED  BY <3>1, SyncAssumption DEF Heights
  <2>2. served' \in [Honest -> Heights]
    BY <1>2, <2>1 DEF Advance, TypeOK
  <2> QED  BY <1>2, <2>2 DEF Advance, files, cycle, operator, TypeOK, InSurvey, Seen
<1>3. ASSUME NEW p \in Peers, LoadRelease(p) PROVE G
  BY <1>3 DEF LoadRelease, env, files, cycle, TypeOK, InSurvey, Seen
<1>4. ASSUME SaveRelease PROVE G
  <2>1. quarantine' \in Quarantine
    BY <1>4, QuarantineTypes DEF SaveRelease, TypeOK
  <2> QED  BY <1>4, <2>1 DEF SaveRelease, env, cycle, TypeOK, InSurvey, Seen
<1>5. ASSUME Pruned PROVE journal' \subseteq Evidence
  BY <1>5 DEF Pruned, Retained, TypeOK
<1>6. ASSUME Ended \/ Concluded PROVE G
  BY <1>5, <1>6 DEF Ended, Concluded, Forgotten, Pruned, env, operator, NoClaims, TypeOK, Classes, Steps,
              InSurvey, Seen
<1>7. ASSUME Survey PROVE G
  <2>1. UNION {Claims(p) : p \in Peers} \subseteq TrustedHead \cup {Absent}
    BY FollowerAssumption DEF Claims, TrueHead, TrustedHead, Kinds, TypeOK
  <2>2. obs' \in [Peers -> TrustedHead \cup {Absent}]
    BY <1>7, <2>1 DEF Survey
  <2> QED  BY <1>7, <2>2 DEF Survey, env, files, operator, TypeOK, Steps, InSurvey, Seen
<1>8. ASSUME NEW p \in Peers, Record(p) PROVE G
  <2>1. journal' \subseteq Evidence /\ heads' \in [Peers -> TrustedHead \cup {Absent}]
        /\ current' \in Peers \cup {None}
    BY <1>8, FollowerAssumption DEF Record, TypeOK, Equivocation, Evidence, EvidenceTypes
  <2>2. pc' \in {"record", "convict"} /\ (pc' = "convict" => current' \in Peers)
    BY <1>8 DEF Record
  <2> QED  BY <1>8, <2>1, <2>2 DEF Record, env, operator, TypeOK, Steps, InSurvey, Seen
<1>9. ASSUME Convict PROVE G
  <2>1. Equivocation(current) \in Evidence
    BY <1>9, FollowerAssumption DEF Convict, InSurvey, Equivocation, Evidence, EvidenceTypes
  <2>2. quarantine' \in Quarantine
    BY <1>9, <2>1, QuarantineTypes DEF Convict, TypeOK
  <2> QED  BY <1>9, <2>2 DEF Convict, env, cycle, operator, TypeOK, Steps, InSurvey, Seen
<1>10. ASSUME Remember PROVE G
  <2>1. current \in Peers
    BY <1>10 DEF Remember, InSurvey
  <2>2. heads' \in [Peers -> TrustedHead \cup {Absent}] /\ convicted' \subseteq Peers
    BY <1>10, <2>1 DEF Remember, TypeOK
  <2>3. TypeOK'
    BY <1>10, <2>2 DEF Remember, env, operator, TypeOK, Steps
  <2>4. InSurvey'
    BY <1>10 DEF Remember, InSurvey, Seen
  <2> QED  BY <2>3, <2>4
<1>11. ASSUME GoesOn PROVE G
  BY <1>5, <1>11 DEF GoesOn, Pruned, env, cycle, operator, TypeOK, Steps, InSurvey, Seen
<1>12. ASSUME NEW p \in Peers, Selects(p) PROVE G
  <2>1. obs[p] # Absent
    BY <1>12 DEF Selects, Eligible, Highest, Seen
  <2> QED  BY <1>5, <1>12, <2>1 DEF Selects, Pruned, env, cycle, operator, TypeOK, Steps, InSurvey, Seen
<1>13. ASSUME Resolve PROVE G
  <2>1. Allowed \in [Peers -> TrustedHead \cup {Absent}]
    BY DEF Allowed, TypeOK
  <2>2. todo = {}
    BY <1>13 DEF Resolve, InSurvey
  <2>3. class' \in Classes /\ blame' \subseteq Evidence /\ unsaved' \in BOOLEAN
    <3>1. Seen(Allowed) \subseteq Peers /\ Highest(Allowed) \subseteq Peers
      BY DEF Seen, Highest
    <3>2. CASE Classify(Allowed) # "UNRESOLVED_HEIGHT_SKEW"
      BY <1>13, <3>1, <3>2, FollowerAssumption
      DEF Resolve, Classify, Classes, Evidence, EvidenceTypes, TypeOK
    <3>3. CASE Classify(Allowed) = "UNRESOLVED_HEIGHT_SKEW"
      <4>1. PICK outcome \in [Highest(Allowed) -> Outcomes] :
               LET diverged == {p \in Highest(Allowed) : outcome[p] \in Blamed}
               IN  /\ class' = IF \A p \in Highest(Allowed) : outcome[p] = "PROVEN_LAG"
                               THEN "PROVEN_LAG"
                               ELSE IF diverged # {} THEN "HISTORICAL_DIVERGENCE"
                               ELSE "ANCESTRY_UNVERIFIED"
                   /\ blame' = {[peer |-> p, type |-> Reported(outcome[p])] : p \in diverged}
                   /\ unsaved' = \E p \in Highest(Allowed) : outcome[p] = "UNSAVED"
        BY <1>13, <3>3 DEF Resolve
      <4>2. class' \in Classes
        BY <4>1 DEF Classes
      <4>3. blame' \subseteq Evidence
        BY <3>1, <4>1, FollowerAssumption DEF Evidence, EvidenceTypes, Blamed, Reported
      <4>4. unsaved' \in BOOLEAN
        BY <4>1
      <4> QED  BY <4>2, <4>3, <4>4
    <3> QED  BY <3>2, <3>3
  <2> QED  BY <1>13, <2>1, <2>2, <2>3 DEF Resolve, env, files, operator, TypeOK, Steps, InSurvey, Seen
<1>14. ASSUME NEW e \in blame, Blame(e) PROVE G
  <2>1. e \in Evidence /\ e.peer \in Peers
    BY FollowerAssumption DEF TypeOK, Evidence
  <2> QED  BY <1>14, <2>1 DEF Blame, env, operator, TypeOK, Steps, InSurvey, Seen
<1>15. ASSUME Punish PROVE G
  <2>1. [peer |-> current, type |-> "PROOF_HEAD_MISMATCH"] \in Evidence
    BY <1>15, FollowerAssumption DEF Punish, InSurvey, Evidence, EvidenceTypes
  <2>2. quarantine' \in Quarantine
    BY <1>15, <2>1, QuarantineTypes DEF Punish, TypeOK
  <2> QED  BY <1>15, <2>2 DEF Punish, env, operator, TypeOK, Steps, InSurvey, Seen
<1>16. ASSUME Saves PROVE G
  <2>1. trusted' \in TrustedHead
    BY <1>16, SavesAdvances DEF TrueHead, TrustedHead, Kinds
  <2> QED  BY <1>16, <2>1 DEF Saves, env, cycle, operator, TypeOK, InSurvey, Seen
<1>17. ASSUME Lost PROVE G
  <2>1. TrueHead(0) \in TrustedHead
    BY SyncAssumption DEF TrueHead, TrustedHead, Kinds, Heights
  <2> QED  BY <1>17, <2>1 DEF Lost, Forgotten, env, operator, NoClaims, TypeOK, Classes, Steps,
              InSurvey, Seen
<1> QED
  BY <1>1, <1>2, <1>3, <1>4, <1>6, <1>7, <1>8, <1>9, <1>10, <1>11, <1>12, <1>13, <1>14, <1>15,
     <1>16, <1>17, StepCases

-----------------------------------------------------------------------------
\* What a quarantine entry will cite is in the journal before, and the entries
\* a release has loaded cite nothing the present ones do not.
Backed ==
    /\ QuarantineBacked
    /\ pc \in {"convict", "remember"} => Equivocation(current) \in journal
    /\ pc = "punish" => [peer |-> current, type |-> "PROOF_HEAD_MISMATCH"] \in journal
    /\ release # None =>
           \A p \in Peers : release.loaded[p].hashes \subseteq quarantine[p].hashes

\* Pruning never drops what is cited.
LEMMA PrunedBacked == Pruned => Pinned(quarantine) \subseteq journal'
BY DEF Pruned, Retained, RetentionRefused

LEMMA BackedStep ==
    ASSUME TypeOK, InSurvey, Backed, [Next]_vars
    PROVE  Backed'
<1>1. ASSUME UNCHANGED <<journal, quarantine, release>>,
             \/ UNCHANGED <<pc, current>>
             \/ pc' \notin {"convict", "remember", "punish"}
      PROVE  Backed'
  BY <1>1 DEF Backed, QuarantineBacked, Equivocation
<1>2. ASSUME \/ UNCHANGED vars \/ CalmDown \/ (\E p \in Honest : Advance(p)) \/ Ended \/ Lost
             \/ Survey \/ Resolve \/ Saves
      PROVE  Backed'
  BY <1>1, <1>2 DEF vars, env, files, cycle, operator, CalmDown, Advance, Ended, Lost, Forgotten,
                    Survey, Resolve, Saves
<1>3. ASSUME Pruned, pc' \notin {"convict", "remember", "punish"} PROVE Backed'
  BY <1>3, PrunedBacked DEF Pruned, operator, Backed, QuarantineBacked
<1>4. ASSUME \/ GoesOn \/ Concluded \/ \E p \in Peers : Selects(p) PROVE Backed'
  BY <1>3, <1>4 DEF GoesOn, Concluded, Forgotten, Selects
<1>5. ASSUME NEW p \in Peers, Record(p) PROVE Backed'
  <2>1. journal \subseteq journal' /\ UNCHANGED <<quarantine, release>>
    BY <1>5 DEF Record, operator
  <2>2. pc' \in {"record", "convict"} /\ (pc' = "convict" => Equivocation(current') \in journal')
    BY <1>5 DEF Record
  <2> QED  BY <2>1, <2>2 DEF Backed, QuarantineBacked, Equivocation
\* An entry that cites what is in the journal may be written.
<1>6. ASSUME NEW e \in Evidence, e \in journal, quarantine' = QuarantinePeer(quarantine, e),
             UNCHANGED <<journal, release>>
      PROVE  /\ QuarantineBacked'
             /\ release' # None =>
                  \A p \in Peers : release'.loaded[p].hashes \subseteq quarantine'[p].hashes
  <2>1. e.peer \in Peers
    BY FollowerAssumption DEF Evidence
  <2>2. \A p \in Peers : quarantine'[p].hashes =
            IF p = e.peer THEN quarantine[p].hashes \cup {e} ELSE quarantine[p].hashes
    BY <1>6, <2>1, FollowerAssumption DEF QuarantinePeer, TypeOK, Quarantine, Entry
  <2>3. QuarantineBacked'
    <3> SUFFICES ASSUME NEW p \in Peers, NEW x \in quarantine'[p].hashes PROVE x \in journal'
      BY FollowerAssumption DEF QuarantineBacked, Pinned
    <3>1. x \in quarantine[p].hashes \/ x = e
      BY <2>2
    <3>2. quarantine[p].hashes \subseteq journal
      BY FollowerAssumption DEF Backed, QuarantineBacked, Pinned
    <3> QED  BY <1>6, <3>1, <3>2
  <2> QED  BY <1>6, <2>2, <2>3 DEF Backed
<1>7. ASSUME Convict PROVE Backed'
  <2>1. Equivocation(current) \in Evidence /\ Equivocation(current) \in journal
    BY <1>7, FollowerAssumption
    DEF Convict, InSurvey, Backed, Equivocation, Evidence, EvidenceTypes
  <2>2. /\ quarantine' = QuarantinePeer(quarantine, Equivocation(current))
        /\ UNCHANGED <<journal, release, current>> /\ pc' = "remember"
    BY <1>7 DEF Convict, cycle, operator
  <2>3. Equivocation(current') \in journal'
    BY <2>1, <2>2 DEF Equivocation
  <2> QED  BY <1>6, <2>1, <2>2, <2>3 DEF Backed
<1>8. ASSUME Punish PROVE Backed'
  <2> DEFINE e == [peer |-> current, type |-> "PROOF_HEAD_MISMATCH"]
  <2>1. e \in Evidence /\ e \in journal
    BY <1>8, FollowerAssumption DEF Punish, InSurvey, Backed, Evidence, EvidenceTypes
  <2>2. /\ quarantine' = QuarantinePeer(quarantine, e)
        /\ UNCHANGED <<journal, release>> /\ pc' = "blame"
    BY <1>8 DEF Punish, operator
  <2> QED  BY <1>6, <2>1, <2>2 DEF Backed
<1>9. ASSUME Remember PROVE Backed'
  BY <1>1, <1>9 DEF Remember, operator
<1>10. ASSUME NEW e \in blame, Blame(e) PROVE Backed'
  <2>1. e \in [peer : Peers, type : EvidenceTypes]
    BY FollowerAssumption DEF TypeOK, Evidence
  <2>2. journal' = journal \cup {e} /\ UNCHANGED <<quarantine, release>>
        /\ pc' \in {"blame", "punish"}
        /\ (pc' = "punish" => current' = e.peer /\ e.type = "PROOF_HEAD_MISMATCH")
    BY <1>10 DEF Blame, operator
  <2>3. pc' = "punish" => [peer |-> current', type |-> "PROOF_HEAD_MISMATCH"] = e
    BY <2>1, <2>2
  <2> QED  BY <2>2, <2>3 DEF Backed, QuarantineBacked
<1>11. ASSUME NEW p \in Peers, LoadRelease(p) PROVE Backed'
  BY <1>11 DEF LoadRelease, files, cycle, Backed, QuarantineBacked, Equivocation
<1>12. ASSUME SaveRelease PROVE Backed'
  <2>1. release \in [peer : Peers, loaded : Quarantine]
    BY <1>12 DEF SaveRelease, TypeOK
  <2>2. \A p \in Peers : quarantine'[p].hashes \subseteq quarantine[p].hashes
    <3>1. \A p \in Peers : quarantine'[p].hashes = release.loaded[p].hashes
      BY <1>12, <2>1, FollowerAssumption DEF SaveRelease, ReleasePeer, Quarantine, Entry
    <3> QED  BY <1>12, <3>1 DEF SaveRelease, Backed
  <2>3. QuarantineBacked'
    BY <1>12, <2>2, FollowerAssumption DEF SaveRelease, Backed, QuarantineBacked, Pinned
  <2> QED  BY <1>12, <2>3 DEF SaveRelease, cycle, Backed, Equivocation
<1> QED
  BY <1>2, <1>4, <1>5, <1>7, <1>8, <1>9, <1>10, <1>11, <1>12, StepCases

-----------------------------------------------------------------------------
\* Honest peers claim heads of the chain, so nothing is ever held against one.
Unblamed ==
    /\ HonestNeverQuarantined
    /\ \A p \in Honest : heads[p] # Absent => heads[p].kind = "true"
    /\ \A p \in Honest : obs[p] # Absent => obs[p].kind = "true"
    /\ pc \in {"convict", "remember", "punish"} => current \notin Honest
    /\ \A e \in blame : e.type = "PROOF_HEAD_MISMATCH" => e.peer \notin Honest
    /\ release # None =>
           release.peer \notin Honest /\ \A p \in Honest : release.loaded[p] = NoEntry

\* The claims of peers that are not quarantined are claims of the survey.
LEMMA AllowedClaims ==
    ASSUME Unblamed
    PROVE  \A p \in Honest : Allowed[p] # Absent => Allowed[p].kind = "true"
BY FollowerAssumption DEF Unblamed, Allowed

\* How a survey is resolved, without the outcomes of the peers that prove.
LEMMA ResolveOutcome ==
    ASSUME Resolve
    PROVE  \/ /\ class' = Classify(Allowed)
              /\ blame' = IF class' = "FINALIZED_HEAD_CONFLICT"
                          THEN {[peer |-> p, type |-> class'] : p \in Seen(Allowed)}
                          ELSE {}
              /\ unsaved' = unsaved
           \/ \E lower \in Lowest(Allowed), outcome \in [Highest(Allowed) -> Outcomes] :
                 /\ \A p \in Highest(Allowed) :
                        outcome[p] \in AncestryOutcomes(p, Allowed[lower], Allowed[p])
                 /\ class' \in {"PROVEN_LAG", "HISTORICAL_DIVERGENCE", "ANCESTRY_UNVERIFIED"}
                 /\ class' = "HISTORICAL_DIVERGENCE" =>
                        \E p \in Highest(Allowed) : outcome[p] \in Blamed
                 /\ blame' = {[peer |-> p, type |-> Reported(outcome[p])] :
                                 p \in {q \in Highest(Allowed) : outcome[q] \in Blamed}}
                 /\ unsaved' = \E p \in Highest(Allowed) : outcome[p] = "UNSAVED"
BY DEF Resolve

\* A claim that is a head of the chain is never refuted by its own proofs.
LEMMA TrueClaimProves ==
    ASSUME NEW p, NEW known, NEW lower, NEW claim, claim = TrueHead(claim.height)
    PROVE  Ancestry(p, known, lower, claim) # "PROOF_HEAD_MISMATCH"
BY DEF Ancestry

LEMMA UnblamedStep ==
    ASSUME TypeOK, InSurvey, Unblamed, [Next]_vars
    PROVE  Unblamed'
<1> USE FollowerAssumption
<1>1. ASSUME UNCHANGED <<heads, quarantine>>, UNCHANGED release,
             obs' \in {obs, NoClaims}, blame' \subseteq blame,
             \/ UNCHANGED <<pc, current>>
             \/ pc' \notin {"convict", "remember", "punish"}
      PROVE  Unblamed'
  BY <1>1 DEF Unblamed, HonestNeverQuarantined, NoClaims
<1>2. ASSUME \/ UNCHANGED vars \/ CalmDown \/ (\E p \in Honest : Advance(p)) \/ Ended \/ Lost
             \/ GoesOn \/ Concluded \/ (\E p \in Peers : Selects(p)) \/ Saves
      PROVE  Unblamed'
  BY <1>1, <1>2 DEF vars, env, files, cycle, operator, CalmDown, Advance, Ended, Lost,
                    Concluded, Forgotten, Pruned, GoesOn, Selects, Saves
<1>3. ASSUME Survey PROVE Unblamed'
  <2>1. \A p \in Honest : obs'[p] \in Claims(p)
    BY <1>3 DEF Survey
  <2>2. \A p \in Honest : obs'[p] # Absent => obs'[p].kind = "true"
    BY <2>1 DEF Claims, TrueHead
  <2> QED  BY <1>3, <2>2 DEF Survey, files, operator, Unblamed, HonestNeverQuarantined
<1>4. ASSUME NEW p \in Peers, Record(p) PROVE Unblamed'
  <2>1. p \in Honest => ~(heads[p] # Absent /\ Contradicts(heads[p], obs[p]))
    <3>1. obs[p] # Absent
      BY <1>4 DEF Record, InTurn, InSurvey, Seen
    <3> QED  BY <3>1 DEF Unblamed, Contradicts, SameDIR
  <2>2. /\ pc' = "convict" => current' \notin Honest
        /\ pc' \in {"record", "convict"}
    BY <1>4, <2>1 DEF Record
  <2>3. \A q \in Honest : heads'[q] # Absent => heads'[q].kind = "true"
    BY <1>4 DEF Record, Unblamed, TypeOK
  <2> QED  BY <1>4, <2>2, <2>3 DEF Record, operator, Unblamed, HonestNeverQuarantined
<1>5. ASSUME NEW e \in Evidence, e.peer \notin Honest, quarantine' = QuarantinePeer(quarantine, e)
      PROVE  HonestNeverQuarantined'
  BY <1>5 DEF Unblamed, HonestNeverQuarantined, QuarantinePeer, TypeOK, Quarantine, Evidence
<1>6. ASSUME Convict PROVE Unblamed'
  <2>1. Equivocation(current) \in Evidence /\ current \notin Honest
    BY <1>6 DEF Convict, InSurvey, Unblamed, Equivocation, Evidence, EvidenceTypes
  <2>2. HonestNeverQuarantined'
    BY <1>5, <1>6, <2>1 DEF Convict, Equivocation
  <2> QED  BY <1>6, <2>1, <2>2 DEF Convict, cycle, operator, Unblamed
<1>7. ASSUME Punish PROVE Unblamed'
  <2> DEFINE e == [peer |-> current, type |-> "PROOF_HEAD_MISMATCH"]
  <2>1. e \in Evidence /\ e.peer = current /\ current \notin Honest
    BY <1>7 DEF Punish, InSurvey, Unblamed, Evidence, EvidenceTypes
  <2>2. quarantine' = QuarantinePeer(quarantine, e)
    BY <1>7 DEF Punish
  <2>3. HonestNeverQuarantined'
    <3> HIDE DEF e
    <3> QED  BY <1>5, <2>1, <2>2
  <2> QED  BY <1>7, <2>3 DEF Punish, operator, Unblamed
<1>8. ASSUME Remember PROVE Unblamed'
  <2>1. \A q \in Honest : heads'[q] = heads[q]
    BY <1>8 DEF Remember, Unblamed, TypeOK
  <2> QED  BY <1>8, <2>1 DEF Remember, operator, Unblamed, HonestNeverQuarantined
<1>9. ASSUME NEW e \in blame, Blame(e) PROVE Unblamed'
  BY <1>9 DEF Blame, operator, Unblamed, HonestNeverQuarantined
<1>10. ASSUME NEW p \in Peers, LoadRelease(p) PROVE Unblamed'
  <2>1. p \notin Honest
    BY <1>10 DEF LoadRelease, IsQuarantined, Unblamed, HonestNeverQuarantined, NoEntry
  <2> QED  BY <1>10, <2>1 DEF LoadRelease, files, cycle, Unblamed, HonestNeverQuarantined
<1>11. ASSUME SaveRelease PROVE Unblamed'
  <2>1. release \in [peer : Peers, loaded : Quarantine]
    BY <1>11 DEF SaveRelease, TypeOK
  <2>2. \A p \in Honest : quarantine'[p] = NoEntry
    BY <1>11, <2>1 DEF SaveRelease, ReleasePeer, Quarantine, Unblamed
  <2> QED  BY <1>11, <2>2 DEF SaveRelease, cycle, Unblamed, HonestNeverQuarantined
<1>12. ASSUME Resolve PROVE Unblamed'
  <2>1. \A p \in Honest : Allowed[p] # Absent => Allowed[p].kind = "true"
    BY AllowedClaims
  <2>2. \A e \in blame' : e.type = "PROOF_HEAD_MISMATCH" => e.peer \notin Honest
    <3>1. CASE /\ class' = Classify(Allowed)
               /\ blame' = IF class' = "FINALIZED_HEAD_CONFLICT"
                           THEN {[peer |-> p, type |-> class'] : p \in Seen(Allowed)}
                           ELSE {}
      BY <3>1
    <3>2. ASSUME NEW lower \in Lowest(Allowed), NEW outcome \in [Highest(Allowed) -> Outcomes],
                 \A p \in Highest(Allowed) :
                     outcome[p] \in AncestryOutcomes(p, Allowed[lower], Allowed[p]),
                 blame' = {[peer |-> p, type |-> Reported(outcome[p])] :
                              p \in {q \in Highest(Allowed) : outcome[q] \in Blamed}},
                 NEW e \in blame', e.type = "PROOF_HEAD_MISMATCH", e.peer \in Honest
          PROVE  FALSE
      <4>1. PICK p \in Highest(Allowed) : e = [peer |-> p, type |-> Reported(outcome[p])]
        BY <3>2
      <4>2. p \in Honest /\ outcome[p] = "PROOF_HEAD_MISMATCH"
        BY <3>2, <4>1 DEF Reported
      <4>3. Ancestry(p, served[p], Allowed[lower], Allowed[p]) = "PROOF_HEAD_MISMATCH"
        BY <3>2, <4>1, <4>2 DEF AncestryOutcomes
      <4>4. Allowed[p] \in TrustedHead /\ Allowed[p].kind = "true"
        BY <2>1, <4>1, <4>2 DEF Highest, Seen, Allowed, TypeOK
      <4>5. Allowed[p] = TrueHead(Allowed[p].height)
        BY <4>4 DEF TrustedHead, TrueHead
      <4> QED  BY <4>3, <4>5, TrueClaimProves
    <3> QED  BY <1>12, <3>1, <3>2, ResolveOutcome
  <2>3. obs' = Allowed /\ pc' = "blame" /\ UNCHANGED <<heads, quarantine, release>>
    BY <1>12 DEF Resolve, files, operator
  <2> QED  BY <2>1, <2>2, <2>3 DEF Unblamed, HonestNeverQuarantined
<1> QED
  BY <1>2, <1>3, <1>4, <1>6, <1>7, <1>8, <1>9, <1>10, <1>11, <1>12, StepCases

-----------------------------------------------------------------------------
\* A peer convicted in this cycle is quarantined and its claim not considered,
\* unless a release has been saved.
Excluded ==
    /\ pc = "remember" => released \/ IsQuarantined(quarantine, current)
    /\ \A p \in convicted : released \/ IsQuarantined(quarantine, p)
    /\ pc \in {"blame", "punish", "fetch"} => \A p \in convicted : released \/ obs[p] = Absent

LEMMA ExcludedStep ==
    ASSUME TypeOK, InSurvey, Excluded, [Next]_vars
    PROVE  Excluded'
<1> USE FollowerAssumption
<1>1. ASSUME released' PROVE Excluded'
  BY <1>1 DEF Excluded
<1>2. ASSUME UNCHANGED <<quarantine, released, convicted>>, UNCHANGED obs, UNCHANGED pc
      PROVE  UNCHANGED current => Excluded'
  BY <1>2 DEF Excluded, IsQuarantined
<1>3. ASSUME \/ UNCHANGED vars \/ CalmDown \/ (\E p \in Honest : Advance(p)) \/ Saves
             \/ (\E p \in Peers : LoadRelease(p))
      PROVE  Excluded'
  BY <1>2, <1>3 DEF vars, env, files, cycle, operator, CalmDown, Advance, Saves, LoadRelease
<1>4. ASSUME \/ Ended \/ Lost \/ Concluded PROVE Excluded'
  BY <1>4 DEF Ended, Lost, Concluded, Forgotten, Excluded
<1>5. ASSUME Survey \/ (\E p \in Peers : Record(p)) PROVE Excluded'
  <2>1. pc' \notin {"remember", "blame", "punish", "fetch"}
        /\ UNCHANGED <<quarantine, convicted, released>>
    BY <1>5 DEF Survey, Record, files, operator
  <2> QED  BY <2>1 DEF Excluded, IsQuarantined
<1>6. ASSUME GoesOn \/ (\E e \in blame : Blame(e)) \/ (\E p \in Peers : Selects(p))
      PROVE  Excluded'
  <2>1. pc' # "remember" /\ UNCHANGED <<quarantine, convicted, released, obs>>
        /\ (pc' \in {"blame", "punish", "fetch"} => pc \in {"blame", "punish", "fetch"})
    BY <1>6 DEF GoesOn, Blame, Selects, Pruned, cycle, operator
  <2> QED  BY <2>1 DEF Excluded, IsQuarantined
<1>7. ASSUME NEW e \in Evidence, quarantine' = QuarantinePeer(quarantine, e)
      PROVE  /\ IsQuarantined(quarantine', e.peer)
             /\ \A p \in Peers : IsQuarantined(quarantine, p) => IsQuarantined(quarantine', p)
  BY <1>7 DEF QuarantinePeer, IsQuarantined, TypeOK, Quarantine, Evidence
<1>8. ASSUME Convict PROVE Excluded'
  <2>1. Equivocation(current) \in Evidence /\ Equivocation(current).peer = current
    BY <1>8 DEF Convict, InSurvey, Equivocation, Evidence, EvidenceTypes
  <2>2. quarantine' = QuarantinePeer(quarantine, Equivocation(current)) /\ pc' = "remember"
        /\ UNCHANGED <<convicted, released, current>>
    BY <1>8 DEF Convict, cycle, operator
  <2>3. convicted \subseteq Peers
    BY DEF TypeOK
  <2> QED  BY <1>7, <2>1, <2>2, <2>3 DEF Excluded, IsQuarantined
<1>9. ASSUME Punish PROVE Excluded'
  <2> DEFINE e == [peer |-> current, type |-> "PROOF_HEAD_MISMATCH"]
  <2>1. e \in Evidence
    BY <1>9 DEF Punish, InSurvey, Evidence, EvidenceTypes
  <2>2. quarantine' = QuarantinePeer(quarantine, e) /\ pc = "punish" /\ pc' = "blame"
        /\ UNCHANGED <<convicted, released, obs>>
    BY <1>9 DEF Punish, operator
  <2>3. convicted \subseteq Peers
    BY DEF TypeOK
  <2> HIDE DEF e
  <2> QED  BY <1>7, <2>1, <2>2, <2>3 DEF Excluded, IsQuarantined
<1>10. ASSUME Remember PROVE Excluded'
  <2>1. pc = "remember" /\ pc' = "record" /\ convicted' = convicted \cup {current}
        /\ UNCHANGED <<quarantine, released>>
    BY <1>10 DEF Remember, operator
  <2> QED  BY <2>1 DEF Excluded, IsQuarantined
<1>11. ASSUME Resolve PROVE Excluded'
  <2>1. obs' = Allowed /\ pc' = "blame" /\ UNCHANGED <<quarantine, released, convicted>>
    BY <1>11 DEF Resolve, files, operator
  <2>2. convicted \subseteq Peers
    BY DEF TypeOK
  <2> QED  BY <2>1, <2>2 DEF Excluded, IsQuarantined, Allowed
<1>12. ASSUME SaveRelease PROVE Excluded'
  BY <1>1, <1>12 DEF SaveRelease
<1> QED
  BY <1>3, <1>4, <1>5, <1>6, <1>8, <1>9, <1>10, <1>11, <1>12, StepCases

\* The peer that is followed was among those the quarantine allows.
LEMMA ExcludedSuffices == InSurvey /\ Excluded => ConvictedNotFollowed
BY DEF InSurvey, Excluded, ConvictedNotFollowed

-----------------------------------------------------------------------------
\* The trusted head is on the chain.
OnChain == trusted.kind = "true" /\ trusted.height <= final

LEMMA OnChainStep ==
    ASSUME TypeOK, TypeOK', InSurvey, OnChain, [Next]_vars
    PROVE  OnChain'
<1>1. final \in Nat /\ trusted.height \in Nat /\ Heights \subseteq Nat
  BY FinalIsHighest, SyncAssumption DEF TypeOK, TrustedHead, Heights
<1>2. served' = served => final' = final
  BY DEF final
<1>3. ASSUME NEW p \in Honest, Advance(p) PROVE OnChain'
  <2>1. final' \in Nat /\ final <= final'
    BY <1>1, <1>3, FinalGrows
  <2>2. trusted.height <= final'
    BY <1>1, <2>1 DEF OnChain
  <2>3. trusted' = trusted
    BY <1>3 DEF Advance, files
  <2> QED  BY <2>2, <2>3 DEF OnChain
<1>4. CASE UNCHANGED <<served, trusted>>
  BY <1>2, <1>4 DEF OnChain
<1>5. ASSUME Saves PROVE OnChain'
  <2>1. PICK k \in Heights : trusted' = TrueHead(k) /\ trusted.height < k /\ k <= final
    BY <1>5, SavesAdvances
  <2>2. trusted'.kind = "true" /\ trusted'.height <= final /\ UNCHANGED served
    BY <1>5, <2>1 DEF TrueHead, Saves, env
  <2> QED  BY <1>2, <2>2 DEF OnChain
<1>6. ASSUME Lost PROVE OnChain'
  BY <1>1, <1>2, <1>6 DEF Lost, Forgotten, env, OnChain, TrueHead
<1>7. \/ \E p \in Honest : Advance(p)
      \/ Saves
      \/ Lost
      \/ UNCHANGED <<served, trusted>>
  BY StepCases
  DEF vars, env, files, cycle, operator, CalmDown, Ended, Concluded, Forgotten, Pruned,
      GoesOn, Selects, Survey, Record, Convict, Remember, Resolve, Blame, Punish, LoadRelease,
      SaveRelease
<1> QED  BY <1>3, <1>4, <1>5, <1>6, <1>7

-----------------------------------------------------------------------------
\* A survey is judged only by its answers.
Judged ==
    /\ pc \notin {"blame", "punish", "fetch"} => class = "NONE"
    /\ HaltBlamesFaulty

\* A survey that stops the follower has a claim of a faulty peer in it, or a
\* proof of it could not be saved.
LEMMA ResolveBlames ==
    ASSUME NoTransitionAtFirst, TypeOK, Unblamed, Resolve,
           class' \in {"FINALIZED_HEAD_CONFLICT", "HISTORICAL_DIVERGENCE"}
    PROVE  Seen(Allowed) \cap Faulty # {} \/ unsaved'
<1> USE FollowerAssumption
<1>1. \A p \in Honest : Allowed[p] # Absent => Allowed[p].kind = "true"
  BY AllowedClaims
<1>2. CASE class' = Classify(Allowed)
  <2>1. PICK p \in Seen(Allowed), q \in Seen(Allowed) : Contradicts(Allowed[p], Allowed[q])
    BY <1>2 DEF Classify
  <2>2. p \notin Honest \/ q \notin Honest
    BY <1>1, <2>1 DEF Contradicts, SameDIR, Seen
  <2> QED  BY <2>1, <2>2 DEF Faulty, Seen
<1>3. CASE \E lower \in Lowest(Allowed), outcome \in [Highest(Allowed) -> Outcomes] :
               /\ \A p \in Highest(Allowed) :
                      outcome[p] \in AncestryOutcomes(p, Allowed[lower], Allowed[p])
               /\ \E p \in Highest(Allowed) : outcome[p] \in Blamed
               /\ unsaved' = \E p \in Highest(Allowed) : outcome[p] = "UNSAVED"
  <2>1. PICK lower \in Lowest(Allowed), outcome \in [Highest(Allowed) -> Outcomes] :
               /\ \A p \in Highest(Allowed) :
                      outcome[p] \in AncestryOutcomes(p, Allowed[lower], Allowed[p])
               /\ \E p \in Highest(Allowed) : outcome[p] \in Blamed
               /\ unsaved' = \E p \in Highest(Allowed) : outcome[p] = "UNSAVED"
    BY <1>3
  <2>2. PICK p \in Highest(Allowed) : outcome[p] \in Blamed
    BY <2>1
  <2>3. p \in Seen(Allowed) /\ lower \in Seen(Allowed) /\ Seen(Allowed) \subseteq Peers
    BY <2>1, <2>2 DEF Highest, Lowest, Seen
  <2>4. ASSUME p \in Honest, lower \in Honest, ~unsaved' PROVE FALSE
    <3>1. Allowed[p] \in TrustedHead /\ Allowed[lower] \in TrustedHead
          /\ Allowed[p].kind = "true" /\ Allowed[lower].kind = "true"
      BY <1>1, <2>3, <2>4 DEF Seen, Allowed, TypeOK
    <3>2. /\ Allowed[p] = TrueHead(Allowed[p].height) /\ Allowed[p].height \in Heights
          /\ Allowed[lower] = TrueHead(Allowed[lower].height) /\ Allowed[lower].height \in Heights
      BY <3>1 DEF TrustedHead, TrueHead
    <3>3. served[p] \in Heights /\ p \in Peers
      BY <2>4 DEF TypeOK
    <3>4. Ancestry(p, served[p], Allowed[lower], Allowed[p])
              \in {"PROVEN_LAG", "ANCESTRY_UNVERIFIED"}
      BY <3>2, <3>3, HonestNeverDiverges
    <3>5. outcome[p] \in {"PROVEN_LAG", "ANCESTRY_UNVERIFIED"}
      <4>1. outcome[p] # "UNSAVED"
        BY <2>1, <2>2, <2>4
      <4> QED  BY <2>1, <2>2, <2>4, <3>4, <4>1 DEF AncestryOutcomes
    <3> QED  BY <2>2, <3>5 DEF Blamed
  <2> QED  BY <2>3, <2>4 DEF Faulty
<1> QED  BY <1>2, <1>3, ResolveOutcome

LEMMA JudgedStep ==
    ASSUME NoTransitionAtFirst, TypeOK, Unblamed, Judged, [Next]_vars
    PROVE  Judged'
<1>1. ASSUME \/ UNCHANGED <<pc, class, obs, unsaved>>
             \/ class' = "NONE"
      PROVE  Judged'
  BY <1>1 DEF Judged, HaltBlamesFaulty, SafetyHalt, Seen
<1>2. ASSUME \/ UNCHANGED vars \/ CalmDown \/ (\E p \in Honest : Advance(p)) \/ Saves
             \/ (\E p \in Peers : LoadRelease(p)) \/ SaveRelease \/ Ended \/ Lost
             \/ Concluded
      PROVE  Judged'
  BY <1>1, <1>2 DEF vars, cycle, CalmDown, Advance, Saves, LoadRelease, SaveRelease, Ended, Lost,
                    Concluded, Forgotten
<1>3. ASSUME \/ Survey \/ (\E p \in Peers : Record(p)) \/ Convict \/ Remember \/ GoesOn
      PROVE  Judged'
  <2>1. class' = class /\ pc \notin {"blame", "punish", "fetch"}
    BY <1>3 DEF Survey, Record, Convict, Remember, GoesOn, cycle
  <2> QED  BY <1>1, <2>1 DEF Judged
<1>4. ASSUME \/ (\E e \in blame : Blame(e)) \/ Punish \/ (\E p \in Peers : Selects(p))
      PROVE  Judged'
  <2>1. UNCHANGED <<class, obs, unsaved>> /\ pc' \in {"blame", "punish", "fetch"}
    BY <1>4 DEF Blame, Punish, Selects
  <2> QED  BY <2>1 DEF Judged, HaltBlamesFaulty, SafetyHalt, Seen
<1>5. ASSUME Resolve PROVE Judged'
  <2>1. obs' = Allowed /\ pc' = "blame"
    BY <1>5 DEF Resolve
  <2>2. SafetyHalt' => Seen(obs') \cap Faulty # {} \/ unsaved'
    BY <1>5, <2>1, ResolveBlames DEF SafetyHalt
  <2> QED  BY <2>1, <2>2 DEF Judged, HaltBlamesFaulty, Seen
<1> QED
  BY <1>2, <1>3, <1>4, <1>5, StepCases

-----------------------------------------------------------------------------
\* No checkpoint of an honest peer is above the head of another.
SnapshotsBelow == \A p, q \in Honest : Snapshot[p] > 0 => Snapshot[p] <= served[q]

\* What a cycle of the calm makes of its survey: only honest peers have
\* answered, and unless one has moved on since, the follower may advance to the
\* highest of their heads.
Surveyed ==
    /\ pc = "wait" => obs = NoClaims
    /\ \A p \in Honest : obs[p] # Absent => obs[p].height <= served[p]
    /\ calm => \A p \in Faulty : obs[p] = Absent
    /\ pc = "fetch" => current \in Highest(obs)
    /\ calm /\ pc \in {"blame", "punish", "fetch"} /\ Honest # {} /\ SnapshotsBelow /\ Unmoved =>
           MayAdvance

\* Peers that all claim what they serve are judged to agree or to prove it.
LEMMA ResolveAdvances ==
    ASSUME NoTransitionAtFirst, TypeOK, Unblamed, Resolve, calm, Honest # {}, SnapshotsBelow,
           \A p \in Faulty : obs[p] = Absent,
           \A p \in Honest : Allowed[p] = TrueHead(served[p])
    PROVE  class' \in {"EXACT_HEAD_AGREEMENT", "PROVEN_LAG"}
<1> USE FollowerAssumption
<1>1. \A p \in Honest : Allowed[p] \in TrustedHead /\ Allowed[p] # Absent
                        /\ Allowed[p].height = served[p] /\ Allowed[p].kind = "true"
                        /\ served[p] \in Heights
  <2>1. \A h \in Heights : TrueHead(h) \in TrustedHead /\ TrueHead(h).height = h
                           /\ TrueHead(h).kind = "true"
    BY DEF TrueHead, TrustedHead, Kinds
  <2> QED  BY <2>1, AbsenceAssumption DEF TypeOK
<1>2. Seen(Allowed) = Honest
  BY <1>1 DEF Seen, Allowed, Faulty
<1>3. \A p, q \in Seen(Allowed) : ~Contradicts(Allowed[p], Allowed[q])
  BY <1>1, <1>2 DEF Contradicts, SameDIR
<1>4. Classify(Allowed) \in {"EXACT_HEAD_AGREEMENT", "UNRESOLVED_HEIGHT_SKEW"}
  BY <1>2, <1>3 DEF Classify
<1>5. CASE Classify(Allowed) = "EXACT_HEAD_AGREEMENT"
  BY <1>5 DEF Resolve
<1>6. CASE Classify(Allowed) = "UNRESOLVED_HEIGHT_SKEW"
  <2>1. PICK lower \in Lowest(Allowed), outcome \in [Highest(Allowed) -> Outcomes] :
           /\ \A p \in Highest(Allowed) :
                  outcome[p] \in AncestryOutcomes(p, Allowed[lower], Allowed[p])
           /\ class' = IF \A p \in Highest(Allowed) : outcome[p] = "PROVEN_LAG"
                       THEN "PROVEN_LAG"
                       ELSE IF {p \in Highest(Allowed) : outcome[p] \in Blamed} # {}
                            THEN "HISTORICAL_DIVERGENCE"
                            ELSE "ANCESTRY_UNVERIFIED"
    BY <1>6 DEF Resolve
  <2>2. lower \in Honest /\ Highest(Allowed) \subseteq Honest
    BY <1>2, <2>1 DEF Lowest, Highest
  <2>3. ASSUME NEW p \in Highest(Allowed) PROVE outcome[p] = "PROVEN_LAG"
    <3>1. p \in Honest /\ p \in Peers /\ served[p] \in Heights /\ served[lower] \in Heights
      BY <1>1, <2>2, <2>3
    <3>2. Snapshot[p] \in Nat /\ served[p] \in Nat /\ served[lower] \in Nat
      BY <3>1, SyncAssumption DEF Heights
    <3>3. Snapshot[p] <= served[lower] /\ served[p] <= served[p]
      <4>1. Snapshot[p] > 0 => Snapshot[p] <= served[lower]
        BY <2>2, <3>1 DEF SnapshotsBelow
      <4> QED  BY <3>2, <4>1
    <3>4. Ancestry(p, served[p], TrueHead(served[lower]), TrueHead(served[p])) = "PROVEN_LAG"
      BY <3>1, <3>3, HonestProves
    <3> QED  BY <2>1, <2>2, <2>3, <3>1, <3>4 DEF AncestryOutcomes
  <2> QED  BY <2>1, <2>3
<1> QED  BY <1>4, <1>5, <1>6

LEMMA SurveyedStep ==
    ASSUME NoTransitionAtFirst, TypeOK, TypeOK', Unblamed, Surveyed, [Next]_vars
    PROVE  Surveyed'
<1> USE FollowerAssumption
<1>1. ASSUME \/ Ended \/ Lost \/ Concluded PROVE Surveyed'
  BY <1>1 DEF Ended, Lost, Concluded, Forgotten, NoClaims, Surveyed, Faulty
\* Steps that leave the survey and the peers alone.
<1>2. ASSUME UNCHANGED <<env, obs, class>>, pc' # "wait",
             pc' = "fetch" => (pc = "fetch" /\ UNCHANGED current) \/ current' \in Highest(obs),
             pc' \in {"blame", "punish", "fetch"} => pc \in {"blame", "punish", "fetch"}
      PROVE  Surveyed'
  BY <1>2 DEF env, Surveyed, Unmoved, SnapshotsBelow, MayAdvance, Highest, Seen
<1>3. ASSUME \/ (\E p \in Peers : Record(p)) \/ Convict \/ Remember \/ GoesOn
             \/ (\E e \in blame : Blame(e)) \/ Punish \/ (\E p \in Peers : Selects(p)) \/ Saves
      PROVE  Surveyed'
  BY <1>2, <1>3
  DEF cycle, Record, Convict, Remember, GoesOn, Pruned, Blame, Punish, Selects, Eligible, Saves
<1>4. ASSUME \/ UNCHANGED vars \/ (\E p \in Peers : LoadRelease(p)) \/ SaveRelease
      PROVE  Surveyed'
  BY <1>4
  DEF vars, env, cycle, LoadRelease, SaveRelease, Surveyed, Unmoved, SnapshotsBelow, MayAdvance,
      Highest, Seen
<1>5. ASSUME CalmDown PROVE Surveyed'
  BY <1>5 DEF CalmDown, cycle, Surveyed, NoClaims, Faulty
<1>6. ASSUME NEW p \in Honest, Advance(p) PROVE Surveyed'
  <2>1. UNCHANGED <<calm, pc, obs, current>> /\ served' = [served EXCEPT ![p] = served[p] + 1]
    BY <1>6 DEF Advance, cycle
  <2>2. \A q \in Honest : /\ served[q] \in Nat
                          /\ served'[q] = IF q = p THEN served[q] + 1 ELSE served[q]
                          /\ obs[q] # Absent => obs[q].height \in Nat
    BY <2>1, SyncAssumption DEF TypeOK, Heights, TrustedHead
  <2>3. \A q \in Honest : obs[q] # Absent => obs[q].height <= served'[q]
    BY <2>2 DEF Surveyed
  <2>4. ~Unmoved'
    <3>1. SUFFICES ASSUME obs[p] = TrueHead(served'[p]) PROVE FALSE
      BY <2>1 DEF Unmoved
    <3>2. obs[p] # Absent
      BY <3>1, AbsenceAssumption DEF TypeOK, TrueHead, TrustedHead, Kinds
    <3> QED  BY <2>2, <3>1, <3>2 DEF TrueHead, Surveyed
  <2> QED  BY <2>1, <2>3, <2>4 DEF Surveyed, Highest, Seen
<1>7. ASSUME Survey PROVE Surveyed'
  <2>1. pc' = "record" /\ UNCHANGED env /\ \A p \in Peers : obs'[p] \in Claims(p)
    BY <1>7 DEF Survey
  <2>2. \A p \in Honest : obs'[p] # Absent => obs'[p] = TrueHead(served[p])
    BY <2>1 DEF Claims
  <2>3. \A p \in Honest : served[p] <= served[p]
    BY SyncAssumption DEF TypeOK, Heights
  <2>4. ASSUME NEW p \in Honest, obs'[p] # Absent PROVE obs'[p].height <= served[p]
    <3>1. obs'[p] = TrueHead(served[p])
      BY <2>2, <2>4
    <3>2. obs'[p].height = served[p]
      BY <3>1 DEF TrueHead
    <3> QED  BY <2>3, <3>2
  <2>5. calm => \A p \in Faulty : obs'[p] = Absent
    BY <2>1 DEF Claims, Faulty
  <2> QED  BY <2>1, <2>4, <2>5 DEF Surveyed, env
<1>8. ASSUME Resolve PROVE Surveyed'
  <2>1. obs' = Allowed /\ pc' = "blame" /\ UNCHANGED env
    BY <1>8 DEF Resolve
  <2>2. \A p \in Peers : Allowed[p] \in {obs[p], Absent}
    BY DEF Allowed
  <2>3. /\ \A p \in Honest : obs'[p] # Absent => obs'[p].height <= served'[p]
        /\ calm' => \A p \in Faulty : obs'[p] = Absent
    BY <2>1, <2>2 DEF env, Surveyed, Faulty
  <2>4. ASSUME calm', Honest # {}, SnapshotsBelow', Unmoved' PROVE MayAdvance'
    <3>1. calm /\ SnapshotsBelow /\ \A p \in Honest : Allowed[p] = TrueHead(served[p])
      BY <2>1, <2>4 DEF env, SnapshotsBelow, Unmoved
    <3> QED  BY <1>8, <2>4, <3>1, ResolveAdvances DEF Surveyed, MayAdvance
  <2> QED  BY <2>1, <2>3, <2>4 DEF Surveyed
<1> QED
  BY <1>1, <1>3, <1>4, <1>5, <1>6, <1>7, <1>8, StepCases

-----------------------------------------------------------------------------
Inv == TypeOK /\ InSurvey /\ Backed /\ Unblamed /\ Excluded /\ OnChain

LEMMA OnChainInit == Init => OnChain
<1> SUFFICES ASSUME Init PROVE OnChain
  OBVIOUS
<1>1. TypeOK
  BY TypeInit
<1>2. final \in Nat
  BY <1>1, FinalIsHighest, SyncAssumption DEF TypeOK, Heights
<1>3. trusted.kind = "true" /\ trusted.height <= final
  BY <1>2 DEF Init, TrueHead
<1> QED  BY <1>3 DEF OnChain

LEMMA InvInit == Init => Inv
<1> SUFFICES ASSUME Init PROVE Inv
  OBVIOUS
<1>1. TypeOK
  BY TypeInit
<1>2. Pinned(quarantine) = {}
  BY FollowerAssumption DEF Init, Pinned, NoEntry
<1>3. HonestNeverQuarantined
  BY FollowerAssumption DEF Init, HonestNeverQuarantined
<1>4. \A p \in Honest : heads[p] = Absent /\ obs[p] = Absent
  BY FollowerAssumption DEF Init, NoClaims
<1> QED
  BY <1>1, <1>2, <1>3, <1>4, OnChainInit
  DEF Init, Inv, InSurvey, Backed, QuarantineBacked, Unblamed, Excluded

LEMMA InvStep == Inv /\ [Next]_vars => Inv'
BY TypeStep, BackedStep, UnblamedStep, ExcludedStep, OnChainStep DEF Inv

LEMMA Invariance == Spec => []Inv
BY InvInit, InvStep, PTL DEF Spec

\* Every reachable state is well typed: what the follower's files hold and what
\* a cycle has gathered (peer_sync_follower_context.go).
THEOREM Typed == Spec => []TypeOK
<1>1. Inv => TypeOK
  BY DEF Inv
<1> QED  BY <1>1, Invariance, PTL

\* The evidence an entry cites is in the journal, wherever the follower dies
\* between its files, whatever is pruned, and whichever stale entries a release
\* saves (recordAuthenticatedPeerHead, persistResolverEvidence,
\* enforcePeerEvidenceRetention).
THEOREM EvidenceFirst == Spec => []QuarantineBacked
<1>1. Inv => QuarantineBacked
  BY DEF Inv, Backed
<1> QED  BY <1>1, Invariance, PTL

\* No peer that reports what it has verified is quarantined, whatever the
\* others claim (recordAuthenticatedPeerHead, resolvePeerSurveyContext).
THEOREM HonestPeersStay == Spec => []HonestNeverQuarantined
<1>1. Inv => HonestNeverQuarantined
  BY DEF Inv, Unblamed
<1> QED  BY <1>1, Invariance, PTL

\* A peer convicted in a cycle is not the one selected in it, unless an
\* operator's release overwrote its entry (resolvePeerSurveyContext after
\* recordSurveyHeads).
THEOREM ConvictedExcluded == Spec => []ConvictedNotFollowed
<1>1. Inv => ConvictedNotFollowed
  BY ExcludedSuffices DEF Inv
<1> QED  BY <1>1, Invariance, PTL

\* The last claim of a peer gives way to a contradicting one only after the
\* contradiction is in the journal (recordAuthenticatedPeerHead).
THEOREM ClaimsAccountable == Spec => ContradictionRemembered
<1> DEFINE A == \A p \in Peers : heads[p] # Absent /\ Contradicts(heads[p], heads'[p]) =>
                                     Equivocation(p) \in journal'
<1>1. Inv /\ [Next]_vars => [A]_vars
  <2> SUFFICES ASSUME Inv, [Next]_vars, NEW p \in Peers,
                      heads[p] # Absent, Contradicts(heads[p], heads'[p])
               PROVE  Equivocation(p) \in journal'
    OBVIOUS
  <2>1. ~Contradicts(heads[p], heads[p])
    BY DEF Contradicts, SameDIR
  <2>2. heads' # heads
    BY <2>1
  <2>3. \/ \E q \in Peers : Record(q)
        \/ Remember
    BY <2>2, StepCases
    DEF Inv, vars, env, files, cycle, operator, CalmDown, Advance, Ended, Lost, Concluded,
        Forgotten, Pruned, GoesOn, Selects, Saves, Survey, Convict, Resolve, Blame, Punish, LoadRelease,
        SaveRelease
  <2>4. ASSUME NEW q \in Peers, Record(q) PROVE FALSE
    <3>1. heads' = [heads EXCEPT ![q] = obs[q]]
          /\ ~(heads[q] # Absent /\ Contradicts(heads[q], obs[q]))
      BY <2>2, <2>4 DEF Record
    <3>2. heads'[p] = IF p = q THEN obs[q] ELSE heads[p]
      BY <3>1 DEF Inv, TypeOK
    <3> QED  BY <2>1, <3>1, <3>2
  <2>5. CASE Remember
    <3>1. current \in Peers /\ heads' = [heads EXCEPT ![current] = obs[current]]
          /\ journal' = journal /\ Equivocation(current) \in journal
      BY <2>5 DEF Remember, Inv, InSurvey, Backed
    <3>2. p = current
      BY <2>1, <3>1 DEF Inv, TypeOK
    <3> QED  BY <3>1, <3>2
  <2> QED  BY <2>3, <2>4, <2>5
<1>2. ContradictionRemembered <=> [][A]_vars
  BY PTL DEF ContradictionRemembered
<1> QED  BY <1>1, <1>2, Invariance, PTL DEF Spec

-----------------------------------------------------------------------------
LEMMA JudgedInvariance == ASSUME NoTransitionAtFirst PROVE Spec => [](Inv /\ Judged)
<1>1. Init => Judged
  BY DEF Init, Judged, HaltBlamesFaulty, SafetyHalt
<1>2. Inv /\ Judged /\ [Next]_vars => Judged'
  BY NoTransitionAtFirst, JudgedStep DEF Inv
<1> QED  BY <1>1, <1>2, InvInit, InvStep, PTL DEF Spec

\* A survey on which the follower halts for good has a claim of a faulty peer
\* in it, or the follower could not save a head that was proved to it in its
\* own temporary directory: honest peers that lag, serve checkpoints or change
\* validator sets never cause one (resolvePeerSurveyContext,
\* verifyHigherPeerAncestryBatchedContext).
THEOREM HaltsAreCaused == ASSUME NoTransitionAtFirst PROVE Spec => []HaltBlamesFaulty
<1>1. Judged => HaltBlamesFaulty
  BY DEF Judged
<1> QED  BY <1>1, JudgedInvariance, PTL

\* The follower implements FollowedChain: its durable head only moves forward
\* along the finalized chain, and only in a fetch; where a save removes the old
\* head first a fetch may lose it, and nothing else does
\* (syncGovernedFollowerToObservedHeadContext, savePeerSyncTrustedHeadAtomic).
THEOREM Refinement == Spec => FollowsChain
<1> DEFINE at == IF trusted.kind = "true" THEN trusted.height ELSE MaxHeight + 1
           busy == pc = "fetch"
<1>1. Init => Following!Init
  <2> SUFFICES ASSUME Init PROVE Following!Init
    OBVIOUS
  <2>1. final \in Nat
    BY TypeInit, FinalIsHighest, SyncAssumption DEF TypeOK, Heights
  <2>2. at = 0 /\ busy = FALSE
    BY DEF Init, TrueHead
  <2> QED  BY <2>1, <2>2 DEF Following!Init
<1>2. Inv /\ Inv' /\ [Next]_vars => [Following!Next]_<<final, busy, at>>
  <2> SUFFICES ASSUME Inv, Inv', [Next]_vars
               PROVE  [Following!Next]_<<final, busy, at>>
    OBVIOUS
  <2>1. at = trusted.height /\ at' = trusted'.height
    BY DEF Inv, OnChain
  <2>2. final \in Nat
    BY FinalIsHighest, SyncAssumption DEF Inv, TypeOK, Heights
  <2>3. served' = served => final' = final
    BY DEF final
  <2>4. ASSUME NEW p \in Honest, Advance(p) PROVE [Following!Next]_<<final, busy, at>>
    <3>1. final' = final \/ final' = final + 1
      BY <2>4, FinalGrows DEF Inv
    <3>2. trusted' = trusted /\ pc' = pc
      BY <2>4 DEF Advance, files
    <3>3. at' = at /\ busy' = busy
      BY <3>2
    <3> QED  BY <3>1, <3>3 DEF Following!Next, Following!Finalize
  <2>5. ASSUME Saves PROVE [Following!Next]_<<final, busy, at>>
    <3>1. PICK k \in Heights : trusted' = TrueHead(k) /\ trusted.height < k /\ k <= final
      BY <2>5, SavesAdvances DEF Inv
    <3>2. at' = k /\ at < k /\ at \in Nat /\ k \in Nat
      BY <2>1, <3>1, SyncAssumption DEF TrueHead, Heights, Inv, TypeOK, TrustedHead
    <3>3. final' = final
      BY <2>3, <2>5 DEF Saves, env
    <3>4. at' \in (at + 1)..final
      <4> HIDE DEF at
      <4> QED  BY <2>2, <3>1, <3>2
    <3>5. busy = TRUE /\ busy' = TRUE
      BY <2>5 DEF Saves
    <3> QED  BY <3>3, <3>4, <3>5 DEF Following!Next, Following!Follow
  <2>6. ASSUME Lost PROVE [Following!Next]_<<final, busy, at>>
    <3>1. at' = 0 /\ final' = final
      BY <2>3, <2>6 DEF Lost, Forgotten, env, TrueHead
    <3>2. RemovesFirst /\ busy = TRUE /\ busy' = FALSE
      BY <2>6 DEF Lost, Forgotten
    <3> QED  BY <3>1, <3>2 DEF Following!Next, Following!Lose
  <2>7. CASE UNCHANGED <<served, trusted>>
    <3>1. final' = final /\ at' = at
      BY <2>3, <2>7
    <3>2. busy' \in BOOLEAN
      OBVIOUS
    <3>3. Following!Turn
      BY <3>1, <3>2 DEF Following!Turn
    <3> QED  BY <3>3 DEF Following!Next
  <2>8. \/ \E p \in Honest : Advance(p)
        \/ Saves
        \/ Lost
        \/ UNCHANGED <<served, trusted>>
    BY StepCases
    DEF Inv, vars, env, files, cycle, operator, CalmDown, Ended, Concluded, Forgotten, Pruned,
        GoesOn, Selects, Survey, Record, Convict, Remember, Resolve, Blame, Punish, LoadRelease,
        SaveRelease
  <2> QED  BY <2>4, <2>5, <2>6, <2>7, <2>8
<1> QED
  BY <1>1, <1>2, Invariance, PTL DEF Spec, FollowsChain, Following!Spec

-----------------------------------------------------------------------------
\* A batch asked of an honest peer that is ahead moves the trusted head: the
\* checkpoint the peer serves is within the batch or below the trusted head.
LEMMA FetchSucceeds ==
    ASSUME NoTransitionAtFirst, TypeOK, OnChain, CanCatchUp, Fetching, current \in Honest,
           obs[current] = TrueHead(served[current]),
           NEW reached \in Applied
    PROVE  reached \notin {Refused, trusted}
<1> DEFINE to == BatchEnd(trusted.height, obs[current])
           b == Serve(current, served[current], trusted.height, to)
<1>1. /\ current \in Peers /\ served[current] \in Heights /\ trusted.height \in Heights
      /\ trusted = TrueHead(trusted.height)
      /\ obs[current].height = served[current] /\ trusted.height < served[current]
  BY FollowerAssumption DEF TypeOK, TrustedHead, TrueHead, OnChain, Fetching
<1>2. /\ served[current] \in Nat /\ trusted.height \in Nat /\ Snapshot[current] \in Nat
      /\ Batch \in Nat \ {0} /\ MaxHeight \in Nat /\ Heights = 0..MaxHeight
  BY <1>1, SyncAssumption DEF Heights
<1>3. to \in Nat /\ trusted.height < to /\ to <= served[current]
      /\ to \in {trusted.height + Batch, served[current]}
  BY <1>1, <1>2 DEF BatchEnd
<1>4. Snapshot[current] < to
  BY <1>2, <1>3 DEF CanCatchUp
<1>5. reached = IF b = Refused THEN Refused ELSE Apply(trusted, b)
  BY DEF Applied, Served
<1> HIDE DEF to
<1>6. to \in Heights
  BY <1>1, <1>2, <1>3
<1>7. b # Refused
  BY <1>1, <1>3, <1>4, <1>6, ServedWhenAble
<1>8. Apply(TrueHead(trusted.height), b) = TrueHead(to)
  BY <1>1, <1>6, <1>7, ServedLeadsUp
<1> HIDE DEF b
<1>9. TrueHead(to) \in TrustedHead /\ TrueHead(to).height = to
  BY <1>6 DEF TrueHead, TrustedHead, Kinds
<1>10. reached = TrueHead(to)
  BY <1>1, <1>5, <1>7, <1>8
<1>11. reached # trusted
  BY <1>2, <1>3, <1>9, <1>10
<1> QED  BY <1>9, <1>10, <1>11, AbsenceAssumption

\* The only ways a cycle of the calm ends.
LEMMA CycleArrives ==
    ASSUME NoTransitionAtFirst, Inv, Surveyed, Next, CanCatchUp, Unmoved,
           pc # "wait", pc' \in {"wait", "stopped"}
    PROVE  \A p \in Honest : served[p] <= trusted.height
<1> USE FollowerAssumption
<1>1. /\ TypeOK /\ InSurvey /\ Unblamed /\ OnChain /\ calm /\ pc # "stopped"
      /\ ~RetentionRefused(journal, quarantine)
  BY DEF Inv, CanCatchUp, Backed, QuarantineBacked, RetentionRefused
<1>2. /\ Seen(obs) = Honest
      /\ \A p \in Honest : obs[p].height = served[p] /\ served[p] \in Nat
      /\ trusted.height \in Nat
  <2>1. \A h \in Heights : TrueHead(h) \in TrustedHead /\ TrueHead(h).height = h
    BY DEF TrueHead, TrustedHead, Kinds
  <2>2. \A p \in Honest : served[p] \in Heights /\ obs[p] = TrueHead(served[p])
    BY <1>1 DEF Unmoved, TypeOK
  <2>3. \A p \in Honest : obs[p] # Absent /\ obs[p].height = served[p] /\ served[p] \in Nat
    BY <2>1, <2>2, AbsenceAssumption, SyncAssumption DEF Heights
  <2>4. Seen(obs) = Honest
    BY <1>1, <2>3 DEF Surveyed, Seen, Faulty
  <2>5. trusted.height \in Nat
    BY <1>1, SyncAssumption DEF TypeOK, TrustedHead, Heights
  <2> QED  BY <2>3, <2>4, <2>5
<1>3. ASSUME NEW p \in Highest(obs), trusted.height >= obs[p].height
      PROVE  \A q \in Honest : served[q] <= trusted.height
  <2>1. p \in Honest /\ \A q \in Honest : obs[q].height <= obs[p].height
    BY <1>2 DEF Highest
  <2> QED  BY <1>2, <1>3, <2>1
<1>4. Conclude \/ Fetch \/ Finish
  BY <1>1
  DEF Next, FollowerStep, CalmDown, Advance, Start, Stop, Crash, Fail, LoseHead, NextCycle, Survey, Record,
      Convict, Remember, Retain, Resolve, Blame, Punish, LoadRelease, SaveRelease, EndCycle, Wait
<1>5. CASE Finish
  BY <1>3, <1>5 DEF Finish, Surveyed
<1>6. CASE Fetch
  <2>1. pc = "fetch" /\ Fetching
    BY <1>6 DEF Fetch, Fetching
  <2>2. current \in Highest(obs) /\ current \in Honest
    BY <1>2, <2>1 DEF Surveyed, Highest
  <2>3. obs[current] = TrueHead(served[current])
    BY <2>2 DEF Unmoved
  <2>4. \A reached \in Applied : reached \notin {Refused, trusted}
    BY <1>1, <2>1, <2>2, <2>3, FetchSucceeds
  <2>5. pc' = pc
    BY <1>6, <2>4 DEF Fetch
  <2> QED  BY <1>1, <2>5
<1>7. CASE Conclude
  <2>1. CASE Honest = {}
    BY <2>1
  <2>2. CASE Honest # {}
    <3>1. pc = "blame" /\ SnapshotsBelow
      BY <1>7 DEF Conclude, CanCatchUp, SnapshotsBelow
    <3>2. MayAdvance
      BY <1>1, <2>2, <3>1 DEF Surveyed
    <3>3. PICK p \in Highest(obs) : Follow(p)
      BY <1>1, <1>7, <3>2 DEF Conclude, Eligible
    <3>4. p \in Honest /\ obs[p] = TrueHead(served[p])
      BY <1>2 DEF Highest, Unmoved
    <3>5. ~(trusted.height < obs[p].height)
      BY <3>3, <3>4 DEF Follow
    <3> QED  BY <1>2, <1>3, <3>4, <3>5
  <2> QED  BY <2>1, <2>2
<1> QED  BY <1>4, <1>5, <1>6, <1>7

\* When nothing fails a cycle of the follower, from the survey to its last
\* batch, ends at the highest head an honest peer serves or because one has
\* moved on: no checkpoint, batch boundary, change of the validator set, earlier
\* evidence or stale release makes it end short
\* (runGovernedFollowerCycleContext, syncGovernedFollowerToObservedHeadContext).
THEOREM CyclesArrive == ASSUME NoTransitionAtFirst PROVE Spec => CalmCyclesArrive
<1> DEFINE A == CanCatchUp /\ Unmoved /\ pc # "wait" /\ pc' \in {"wait", "stopped"} =>
                    \A p \in Honest : served[p] <= trusted.height
<1>1. Init => Surveyed
  BY FollowerAssumption DEF Init, Surveyed, NoClaims, Faulty
<1>2. Inv /\ Inv' /\ Surveyed /\ [Next]_vars => Surveyed'
  BY NoTransitionAtFirst, SurveyedStep DEF Inv
<1>3. Inv /\ Surveyed /\ [Next]_vars => [A]_vars
  BY NoTransitionAtFirst, CycleArrives
<1>4. CalmCyclesArrive <=> [][A]_vars
  BY PTL DEF CalmCyclesArrive
<1> QED  BY <1>1, <1>2, <1>3, <1>4, InvInit, InvStep, PTL DEF Spec

-----------------------------------------------------------------------------
\* How far a cycle is from its end: by its phase, then by the claims still to be
\* recorded, the evidence still to be written, the step within one of these, and
\* the heights still to be fetched.
Phase == [stopped |-> 0, wait |-> 0, fetch |-> 1, blame |-> 2, punish |-> 2, resolve |-> 3,
          record |-> 4, convict |-> 4, remember |-> 4, survey |-> 5]
Substep == [stopped |-> 0, wait |-> 0, fetch |-> 0, blame |-> 0, punish |-> 1, resolve |-> 0,
            record |-> 0, convict |-> 2, remember |-> 1, survey |-> 0]

Fewer(S, T) == S \subseteq T /\ S # T

Nearer ==
    \/ Phase[pc'] < Phase[pc]
    \/ /\ Phase[pc'] = Phase[pc] /\ pc # "fetch"
       /\ \/ Fewer(todo', todo) /\ UNCHANGED blame
          \/ Fewer(blame', blame) /\ UNCHANGED todo
          \/ Substep[pc'] < Substep[pc] /\ UNCHANGED <<todo, blame>>
    \/ /\ UNCHANGED <<pc, obs, current>>
       /\ trusted.height < obs[current].height /\ trusted.height < trusted'.height

\* The step of StepCases that a step is one of brings the cycle nearer.
LEMMA StepNearer ==
    ASSUME TypeOK, InSurvey,
           \/ Survey \/ (\E p \in Peers : Record(p)) \/ Convict \/ Remember \/ GoesOn \/ Resolve
           \/ (\E e \in blame : Blame(e)) \/ Punish \/ (\E p \in Peers : Selects(p)) \/ Saves
    PROVE  Nearer
<1> USE DEF Nearer, Phase, Substep, Fewer
<1>1. ASSUME Survey \/ GoesOn \/ Resolve \/ \E p \in Peers : Selects(p) PROVE Nearer
  <2>1. \/ pc = "survey" /\ pc' = "record"
        \/ pc = "record" /\ pc' = "resolve"
        \/ pc = "resolve" /\ pc' = "blame"
        \/ pc = "blame" /\ pc' = "fetch"
    BY <1>1 DEF Survey, GoesOn, Resolve, Selects
  <2> QED  BY <2>1
<1>2. ASSUME NEW p \in Peers, Record(p) PROVE Nearer
  <2>1. pc = "record" /\ pc' \in {"record", "convict"} /\ p \in todo /\ todo' = todo \ {p}
        /\ blame' = blame
    BY <1>2 DEF Record, InTurn
  <2> QED  BY <2>1
<1>3. ASSUME Convict \/ Remember \/ Punish PROVE Nearer
  <2>1. /\ UNCHANGED <<todo, blame>>
        /\ \/ pc = "convict" /\ pc' = "remember"
           \/ pc = "remember" /\ pc' = "record"
           \/ pc = "punish" /\ pc' = "blame"
    BY <1>3 DEF Convict, Remember, Punish, cycle
  <2> QED  BY <2>1
<1>4. ASSUME NEW e \in blame, Blame(e) PROVE Nearer
  <2>1. pc = "blame" /\ pc' \in {"blame", "punish"} /\ blame' = blame \ {e} /\ todo' = todo
    BY <1>4 DEF Blame
  <2> QED  BY <2>1
<1>5. ASSUME Saves PROVE Nearer
  <2>1. \E k \in Heights : trusted' = TrueHead(k) /\ trusted.height < k
    BY <1>5, SavesAdvances
  <2>2. trusted.height < trusted'.height
    BY <2>1 DEF TrueHead
  <2> QED  BY <1>5, <2>2 DEF Saves, cycle
<1> QED  BY <1>1, <1>2, <1>3, <1>4, <1>5

\* Every step of a cycle brings it nearer to its end, and no other step takes it
\* further from it: with finitely many peers no cycle goes on forever, whatever
\* the peers answer, also one that serves batch after batch (recordSurveyHeads,
\* persistResolverEvidence, syncGovernedFollowerToObservedHeadContext).
THEOREM CyclesEnd ==
    Spec => [][/\ FollowerStep /\ pc # "wait" => Nearer
               /\ pc \notin {"wait", "stopped"} => Nearer \/ UNCHANGED <<pc, cycle, trusted>>]_vars
<1> DEFINE A == /\ FollowerStep /\ pc # "wait" => Nearer
                /\ pc \notin {"wait", "stopped"} => Nearer \/ UNCHANGED <<pc, cycle, trusted>>
<1>1. Inv /\ [Next]_vars => [A]_vars
  <2> SUFFICES ASSUME Inv, Next PROVE A
    OBVIOUS
  <2>1. TypeOK /\ InSurvey
    BY DEF Inv
  <2>2. ASSUME pc \notin {"wait", "stopped"}, pc' \in {"wait", "stopped"} PROVE Nearer
    BY <2>1, <2>2 DEF Nearer, Phase, TypeOK, Steps
  <2>3. ASSUME Ended \/ Lost \/ Concluded, pc \notin {"wait", "stopped"} PROVE Nearer
    <3>1. pc' \in {"wait", "stopped"}
      BY <2>3 DEF Ended, Lost, Concluded, Forgotten
    <3> QED  BY <2>2, <2>3, <3>1
  <2>4. ASSUME \/ UNCHANGED vars \/ CalmDown \/ (\E p \in Honest : Advance(p))
               \/ (\E p \in Peers : LoadRelease(p)) \/ SaveRelease
        PROVE  UNCHANGED <<pc, cycle, trusted>>
    BY <2>4 DEF vars, files, CalmDown, Advance, LoadRelease, SaveRelease
  <2>5. pc \notin {"wait", "stopped"} => Nearer \/ UNCHANGED <<pc, cycle, trusted>>
    BY <2>1, <2>3, <2>4, StepNearer, StepCases
  <2>6. ASSUME FollowerStep, pc # "wait" PROVE Nearer
    <3>1. pc # "stopped"
      BY <2>6
      DEF FollowerStep, NextCycle, Survey, Record, Convict, Remember, Retain, Resolve, Blame,
          Punish, Conclude, Fetch, Fetching, Finish
    <3>2. CASE Retain \/ Conclude \/ Fetch \/ Finish
      <4>1. Ended \/ GoesOn \/ Concluded \/ (\E p \in Peers : Selects(p)) \/ Saves
        BY <2>1, <3>2, LoopSteps
      <4> QED  BY <2>1, <2>3, <2>6, <3>1, <4>1, StepNearer
    <3>3. CASE ~(Retain \/ Conclude \/ Fetch \/ Finish)
      BY <2>1, <2>6, <3>3, StepNearer DEF FollowerStep, NextCycle
    <3> QED  BY <3>2, <3>3
  <2> QED  BY <2>5, <2>6
<1> QED  BY <1>1, Invariance, PTL DEF Spec

=============================================================================
