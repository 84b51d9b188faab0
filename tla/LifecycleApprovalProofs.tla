------------------------ MODULE LifecycleApprovalProofs ------------------------
(***************************************************************************)
(* Proofs about LifecycleApproval, for any number of events, users, files  *)
(* and anchor requests and any policy.  What makes its invariants          *)
(* inductive: an open transaction belongs to a SUBMITTED event (the lock), *)
(* a request was sent with its quorum and the approvals it counted are     *)
(* never deleted, and a rejection is recorded together with its status.    *)
(***************************************************************************)
EXTENDS LifecycleApproval, FiniteSetTheorems, TLAPS

\* The performer is not among those who decided on an event.
SeparationOfDuties ==
    \A x \in approvals : event[x[1]].status # "ABSENT" /\ event[x[1]].by # x[2]

\* A transaction that awaits its anchor holds a SUBMITTED event.
OpenSubmitted ==
    \A i \in Ids :
        open[i] # NONE =>
            open[i] \in sent /\ open[i].event = i /\ event[i].status = "SUBMITTED"

\* What was true when a request was sent is still true.
SentBacked ==
    \A r \in sent :
        /\ event[r.event].status # "ABSENT" /\ event[r.event].by # r.by
        /\ Quorum(ApprovedBy(r.event) \cup {r.by})
        /\ requireEvidence => r.package # {}
        /\ r.package \subseteq evidence[r.event]

VerifiedBacked ==
    \A i \in Verified :
        event[i].receipt \in chain /\ event[i].receipt.event = i /\ Quorum(ApprovedBy(i))

\* A rejection and the REJECTED status are written together.
RejectionsStand ==
    \A x \in approvals : x[3] = "REJECTED" => event[x[1]].status = "REJECTED"

IInv ==
    /\ TypeOK
    /\ IsFiniteSet(sent)
    /\ SeparationOfDuties
    /\ OpenSubmitted
    /\ SentBacked
    /\ VerifiedBacked
    /\ RejectionsStand
    /\ PrerequisitesVerified

\* More approvals keep a quorum.
LEMMA QuorumGrows ==
    ASSUME NEW S \in SUBSET Users, NEW T \in SUBSET Users, S \subseteq T, Quorum(S)
    PROVE  Quorum(T)
  <1>1. IsFiniteSet(S) /\ IsFiniteSet(T)
    BY FS_Subset, PolicyAssumption
  <1>2. Cardinality(S) <= Cardinality(T) /\ Cardinality(S) \in Nat /\ Cardinality(T) \in Nat
    BY <1>1, FS_Subset, FS_CardinalityType
  <1> QED
    BY <1>2, PolicyAssumption DEF Quorum

\* The initial states have all of it.
LEMMA InitInv == Init => IInv
  <1> SUFFICES ASSUME Init PROVE IInv
    OBVIOUS
  <1>1. TypeOK
    BY RequestsAssumption DEF Init, TypeOK, Event, NoEvent
  <1>2. PrerequisitesVerified
    BY DEF Init, NoEvent, PrerequisitesVerified
  <1>3. VerifiedBacked
    BY DEF Init, NoEvent, Verified, VerifiedBacked
  <1>4. IsFiniteSet(sent)
    BY FS_EmptySet DEF Init
  <1> QED
    BY <1>1, <1>2, <1>3, <1>4
    DEF Init, IInv, SeparationOfDuties, OpenSubmitted, SentBacked, RejectionsStand

\* Every step keeps the types.
LEMMA TypeStep == TypeOK /\ IsFiniteSet(sent) /\ [Next]_vars => TypeOK'
  <1> SUFFICES ASSUME TypeOK, IsFiniteSet(sent), [Next]_vars PROVE TypeOK'
    OBVIOUS
  <1> USE DEF TypeOK
  <1>1. ASSUME NEW u \in Users, NEW i \in Ids, NEW type \in Types, NEW at \in Times,
               Submit(u, i, type, at)
        PROVE  TypeOK'
    <2> DEFINE ok == TransitionOK(type, currentState, Finalized)
               new == [type |-> type, at |-> at, by |-> u, checked |-> ok,
                       status |-> "SUBMITTED", receipt |-> NONE]
    <2>1. ok \in BOOLEAN
      BY DEF TransitionOK
    <2> HIDE DEF ok
    <2>2. new \in Event
      BY <2>1 DEF Event
    <2>3. event' = [event EXCEPT ![i] = new]
      BY <1>1 DEF Submit, ok
    <2> HIDE DEF new
    <2> QED
      BY <2>2, <2>3, <1>1 DEF Submit
  <1>2. ASSUME NEW i \in Ids, NEW f \in Files, AddEvidence(i, f)
        PROVE  TypeOK'
    BY <1>2 DEF AddEvidence
  <1>3. ASSUME NEW i \in Ids, NEW u \in Users, Reject(i, u)
        PROVE  TypeOK'
    BY <1>3 DEF Reject, Event
  <1>4. ASSUME NEW i \in Ids, NEW u \in Users, ApprovePending(i, u)
        PROVE  TypeOK'
    BY <1>4 DEF ApprovePending
  <1>5. ASSUME NEW i \in Ids, NEW u \in Users, SendAnchor(i, u)
        PROVE  TypeOK'
    <2> DEFINE n == Cardinality({r \in sent : r.event = i}) + 1
               request == [event |-> i, attempt |-> n, by |-> u, package |-> evidence[i]]
    <2>1. n <= MaxRequests
      BY <1>5 DEF SendAnchor
    <2>2. sent' = sent \cup {request} /\ open' = [open EXCEPT ![i] = request]
          /\ UNCHANGED <<event, evidence, approvals, chain>>
      BY <1>5 DEF SendAnchor
    <2>3. Cardinality({r \in sent : r.event = i}) \in Nat
      BY FS_Subset, FS_CardinalityType
    <2>4. n \in 1 .. MaxRequests
      BY <2>1, <2>3, RequestsAssumption
    <2>5. request \in Request
      BY <2>4 DEF Request
    <2> HIDE DEF request
    <2> QED
      BY <2>2, <2>5
  <1>6. ASSUME NEW i \in Ids, Finalize(i)
        PROVE  TypeOK'
    <2> DEFINE r == open[i]
               new == [event[i] EXCEPT !.status = "VERIFIED", !.receipt = r]
    <2>1. r \in Request
      BY <1>6 DEF Finalize
    <2>2. r.by \in Users
      BY <2>1 DEF Request
    <2> HIDE DEF r
    <2>3. new \in Event
      BY <2>1 DEF Event
    <2>4. event' = [event EXCEPT ![i] = new] /\ open' = [open EXCEPT ![i] = NONE]
          /\ approvals' = approvals \cup {<<i, r.by, "APPROVED">>}
          /\ UNCHANGED <<evidence, sent, chain>>
      BY <1>6 DEF Finalize, r
    <2> HIDE DEF new
    <2> QED
      BY <2>2, <2>3, <2>4
  <1>7. ASSUME NEW i \in Ids, Rollback(i)
        PROVE  TypeOK'
    BY <1>7 DEF Rollback
  <1>8. ASSUME NEW r \in sent, Anchor(r)
        PROVE  TypeOK'
    BY <1>8 DEF Anchor
  <1>9. CASE UNCHANGED vars
    BY <1>9 DEF vars
  <1> QED
    BY <1>1, <1>2, <1>3, <1>4, <1>5, <1>6, <1>7, <1>8, <1>9 DEF Next

\* What a step never takes back: approvals, requests, anchored records, evidence,
\* who performed an event of which type, and a final status.
Monotone ==
    /\ approvals \subseteq approvals' /\ sent \subseteq sent' /\ chain \subseteq chain'
    /\ \A i \in Ids : evidence[i] \subseteq evidence'[i]
    /\ \A i \in Ids : event[i].status # "ABSENT" =>
          /\ event'[i].status # "ABSENT" /\ event'[i].by = event[i].by
          /\ event'[i].type = event[i].type /\ event'[i].checked = event[i].checked
    /\ \A i \in Ids : event[i].status \in {"VERIFIED", "REJECTED"} => event'[i] = event[i]

LEMMA StepMonotone == TypeOK /\ OpenSubmitted /\ [Next]_vars => Monotone
  <1> SUFFICES ASSUME TypeOK, OpenSubmitted, [Next]_vars PROVE Monotone
    OBVIOUS
  <1> USE DEF Monotone
  <1>1. ASSUME NEW u \in Users, NEW i \in Ids, NEW type \in Types, NEW at \in Times,
               Submit(u, i, type, at)
        PROVE  Monotone
    <2>1. event[i].status = "ABSENT"
          /\ (\E new : event' = [event EXCEPT ![i] = new])
          /\ UNCHANGED <<evidence, approvals, open, sent, chain>>
      BY <1>1 DEF Submit
    <2> QED
      BY <2>1 DEF TypeOK
  <1>2. ASSUME NEW i \in Ids, NEW f \in Files, AddEvidence(i, f)
        PROVE  Monotone
    BY <1>2 DEF AddEvidence, TypeOK
  <1>3. ASSUME NEW i \in Ids, NEW u \in Users, Reject(i, u)
        PROVE  Monotone
    BY <1>3 DEF Reject, MayDecide, TypeOK, Event
  <1>4. ASSUME NEW i \in Ids, NEW u \in Users, ApprovePending(i, u)
        PROVE  Monotone
    BY <1>4 DEF ApprovePending
  <1>5. ASSUME NEW i \in Ids, NEW u \in Users, SendAnchor(i, u)
        PROVE  Monotone
    BY <1>5 DEF SendAnchor
  <1>6. ASSUME NEW i \in Ids, Finalize(i)
        PROVE  Monotone
    <2>1. event[i].status = "SUBMITTED"
      BY <1>6 DEF Finalize, OpenSubmitted
    <2> QED
      BY <1>6, <2>1 DEF Finalize, TypeOK, Event
  <1>7. ASSUME NEW i \in Ids, Rollback(i)
        PROVE  Monotone
    BY <1>7 DEF Rollback
  <1>8. ASSUME NEW r \in sent, Anchor(r)
        PROVE  Monotone
    BY <1>8 DEF Anchor
  <1>9. CASE UNCHANGED vars
    BY <1>9 DEF vars
  <1> QED
    BY <1>1, <1>2, <1>3, <1>4, <1>5, <1>6, <1>7, <1>8, <1>9 DEF Next

\* A decision is recorded for a submitted event and by another than its
\* performer, also when it waited for an anchor.
LEMMA SeparationStep == IInv /\ [Next]_vars => SeparationOfDuties'
  <1> SUFFICES ASSUME IInv, [Next]_vars PROVE SeparationOfDuties'
    OBVIOUS
  <1> USE DEF IInv
  <1>1. Monotone
    BY StepMonotone
  <1>2. ASSUME NEW x \in approvals PROVE event'[x[1]].status # "ABSENT" /\ event'[x[1]].by # x[2]
    BY <1>1 DEF Monotone, SeparationOfDuties, TypeOK
  <1>3. ASSUME NEW i \in Ids, NEW u \in Users, NEW d,
               approvals' = approvals \cup {<<i, u, d>>},
               event[i].status # "ABSENT", event[i].by # u
        PROVE  SeparationOfDuties'
    BY <1>1, <1>2, <1>3 DEF Monotone, SeparationOfDuties
  <1>4. ASSUME NEW i \in Ids, NEW u \in Users, Reject(i, u) \/ ApprovePending(i, u)
        PROVE  SeparationOfDuties'
    BY <1>3, <1>4 DEF Reject, ApprovePending, MayDecide
  <1>5. ASSUME NEW i \in Ids, Finalize(i)
        PROVE  SeparationOfDuties'
    <2>1. /\ open[i] \in sent /\ open[i].event = i
          /\ approvals' = approvals \cup {<<i, open[i].by, "APPROVED">>}
      BY <1>5 DEF Finalize, OpenSubmitted
    <2>2. open[i].by \in Users
      BY <2>1 DEF TypeOK, Request
    <2>3. event[i].status # "ABSENT" /\ event[i].by # open[i].by
      BY <2>1 DEF SentBacked
    <2> QED
      BY <1>3, <2>1, <2>2, <2>3
  <1>6. CASE approvals' = approvals
    BY <1>2, <1>6 DEF SeparationOfDuties
  <1> QED
    BY <1>4, <1>5, <1>6 DEF Next, vars, Submit, AddEvidence, SendAnchor, Rollback, Anchor

\* Only the step that ends a transaction decides on an event while it is open.
LEMMA OpenStep == IInv /\ [Next]_vars => OpenSubmitted'
  <1> SUFFICES ASSUME IInv, [Next]_vars PROVE OpenSubmitted'
    OBVIOUS
  <1> USE DEF IInv, TypeOK
  <1>1. ASSUME NEW u \in Users, NEW i \in Ids, NEW type \in Types, NEW at \in Times,
               Submit(u, i, type, at)
        PROVE  OpenSubmitted'
    <2>1. event[i].status = "ABSENT"
          /\ (\E new : event' = [event EXCEPT ![i] = new])
          /\ UNCHANGED <<open, sent>>
      BY <1>1 DEF Submit
    <2> QED
      BY <2>1 DEF OpenSubmitted
  <1>2. ASSUME NEW i \in Ids, NEW f \in Files, AddEvidence(i, f)
        PROVE  OpenSubmitted'
    BY <1>2 DEF AddEvidence, OpenSubmitted
  <1>3. ASSUME NEW i \in Ids, NEW u \in Users, Reject(i, u)
        PROVE  OpenSubmitted'
    BY <1>3 DEF Reject, MayDecide, OpenSubmitted
  <1>4. ASSUME NEW i \in Ids, NEW u \in Users, ApprovePending(i, u)
        PROVE  OpenSubmitted'
    BY <1>4 DEF ApprovePending, OpenSubmitted
  <1>5. ASSUME NEW i \in Ids, NEW u \in Users, SendAnchor(i, u)
        PROVE  OpenSubmitted'
    <2>1. PICK request :
            /\ request.event = i /\ sent' = sent \cup {request}
            /\ open' = [open EXCEPT ![i] = request]
            /\ event' = event
      BY <1>5 DEF SendAnchor
    <2> QED
      BY <1>5, <2>1 DEF SendAnchor, MayDecide, OpenSubmitted
  <1>6. ASSUME NEW i \in Ids, Finalize(i) \/ Rollback(i)
        PROVE  OpenSubmitted'
    BY <1>6 DEF Finalize, Rollback, OpenSubmitted
  <1>7. ASSUME NEW r \in sent, Anchor(r)
        PROVE  OpenSubmitted'
    BY <1>7 DEF Anchor, OpenSubmitted
  <1>8. CASE UNCHANGED vars
    BY <1>8 DEF vars, OpenSubmitted
  <1> QED
    BY <1>1, <1>2, <1>3, <1>4, <1>5, <1>6, <1>7, <1>8 DEF Next

\* More approvals never undo what a quorum allowed.
LEMMA ApprovalsGrow ==
    ASSUME TypeOK, TypeOK', approvals \subseteq approvals', NEW i \in Ids, NEW U \in SUBSET Users,
           Quorum(ApprovedBy(i) \cup U)
    PROVE  Quorum((ApprovedBy(i) \cup U)')
  <1> QED
    BY QuorumGrows DEF ApprovedBy

\* A request is sent with its quorum and evidence, and keeps them.
LEMMA SentStep == IInv /\ [Next]_vars => SentBacked' /\ IsFiniteSet(sent)'
  <1> SUFFICES ASSUME IInv, [Next]_vars PROVE SentBacked' /\ IsFiniteSet(sent)'
    OBVIOUS
  <1> USE DEF IInv
  <1>1. Monotone /\ TypeOK'
    BY StepMonotone, TypeStep
  <1> DEFINE Backed(r) ==
        /\ event[r.event].status # "ABSENT" /\ event[r.event].by # r.by
        /\ Quorum(ApprovedBy(r.event) \cup {r.by})
        /\ requireEvidence => r.package # {}
        /\ r.package \subseteq evidence[r.event]
  <1>2. ASSUME NEW r \in Request, Backed(r) PROVE Backed(r)'
    <2>1. r.event \in Ids /\ r.by \in Users
      BY DEF Request
    <2>2. Quorum((ApprovedBy(r.event) \cup {r.by})')
      BY <1>1, <1>2, <2>1, ApprovalsGrow DEF Monotone
    <2> QED
      BY <1>1, <1>2, <2>1, <2>2 DEF Monotone
  <1>3. \A r \in sent : Backed(r)'
    BY <1>2 DEF SentBacked, TypeOK
  <1>4. ASSUME NEW i \in Ids, NEW u \in Users, SendAnchor(i, u)
        PROVE  SentBacked' /\ IsFiniteSet(sent)'
    <2>1. PICK request :
            /\ request.event = i /\ request.by = u /\ request.package = evidence[i]
            /\ sent' = sent \cup {request}
      BY <1>4 DEF SendAnchor
    <2>2. Backed(request)
      BY <1>4, <2>1 DEF SendAnchor, MayDecide, EvidenceOK
    <2>3. request \in Request
      BY <1>1, <2>1 DEF TypeOK
    <2>4. Backed(request)'
      BY <1>2, <2>2, <2>3
    <2>5. IsFiniteSet(sent')
      BY <2>1, FS_AddElement
    <2> QED
      BY <1>3, <2>1, <2>4, <2>5 DEF SentBacked
  <1>5. CASE sent' = sent
    BY <1>3, <1>5 DEF SentBacked
  <1> QED
    BY <1>4, <1>5 DEF Next, vars, Submit, AddEvidence, Reject, ApprovePending, Finalize, Rollback, Anchor

\* The commit records the approval its request was sent with.
LEMMA VerifiedStep == IInv /\ [Next]_vars => VerifiedBacked'
  <1> SUFFICES ASSUME IInv, [Next]_vars PROVE VerifiedBacked'
    OBVIOUS
  <1> USE DEF IInv
  <1>1. Monotone /\ TypeOK'
    BY StepMonotone, TypeStep
  <1>2. ASSUME NEW i \in Ids, i \in Verified
        PROVE  (event[i].receipt \in chain /\ event[i].receipt.event = i /\ Quorum(ApprovedBy(i)))'
    <2>1. event[i].receipt \in chain /\ event[i].receipt.event = i
          /\ Quorum(ApprovedBy(i) \cup {})
      BY <1>2 DEF VerifiedBacked
    <2>2. Quorum((ApprovedBy(i) \cup {})')
      BY <1>1, <2>1, ApprovalsGrow DEF Monotone
    <2>3. event'[i] = event[i]
      BY <1>1, <1>2 DEF Monotone, Verified
    <2> QED
      BY <1>1, <2>1, <2>2, <2>3 DEF Monotone
  <1>3. ASSUME Verified' \subseteq Verified PROVE VerifiedBacked'
    BY <1>2, <1>3 DEF VerifiedBacked, Verified
  <1>4. ASSUME NEW u \in Users, NEW i \in Ids, NEW type \in Types, NEW at \in Times,
               Submit(u, i, type, at)
        PROVE  VerifiedBacked'
    <2>1. event'[i].status = "SUBMITTED" /\ \A j \in Ids \ {i} : event'[j] = event[j]
      BY <1>4 DEF Submit, TypeOK
    <2> QED
      BY <1>3, <2>1 DEF Verified
  <1>5. ASSUME NEW i \in Ids, NEW u \in Users, Reject(i, u)
        PROVE  VerifiedBacked'
    BY <1>3, <1>5 DEF Reject, Verified, TypeOK, Event
  <1>6. ASSUME NEW i \in Ids, Finalize(i)
        PROVE  VerifiedBacked'
    <2>1. /\ open[i] \in sent /\ open[i].event = i /\ open[i] \in chain
          /\ event' = [event EXCEPT ![i].status = "VERIFIED", ![i].receipt = open[i]]
          /\ approvals' = approvals \cup {<<i, open[i].by, "APPROVED">>}
          /\ chain' = chain
      BY <1>6 DEF Finalize, OpenSubmitted
    <2>2. Quorum(ApprovedBy(i) \cup {open[i].by}) /\ open[i].by \in Users
      BY <2>1 DEF SentBacked, TypeOK, Request
    <2>3. ApprovedBy(i) \cup {open[i].by} \subseteq ApprovedBy(i)'
          /\ ApprovedBy(i)' \subseteq Users /\ ApprovedBy(i) \subseteq Users
      BY <2>1, <2>2 DEF ApprovedBy
    <2>4. Quorum(ApprovedBy(i)')
      BY <2>2, <2>3, QuorumGrows
    <2>5. Quorum(ApprovedBy(i))'
      BY <2>4 DEF Quorum
    <2>6. event'[i].receipt = open[i] /\ \A j \in Ids \ {i} : event'[j] = event[j]
      BY <2>1 DEF TypeOK, Event
    <2>7. (event[i].receipt \in chain /\ event[i].receipt.event = i /\ Quorum(ApprovedBy(i)))'
      BY <2>1, <2>5, <2>6
    <2> QED
      BY <1>2, <2>6, <2>7 DEF VerifiedBacked, Verified
  <1>7. CASE event' = event
    BY <1>3, <1>7 DEF Verified
  <1> QED
    BY <1>4, <1>5, <1>6, <1>7 DEF Next, vars, AddEvidence, ApprovePending, SendAnchor, Rollback, Anchor

\* REJECTED is final, so a rejection and the status stay together.
LEMMA RejectionStep == IInv /\ [Next]_vars => RejectionsStand'
  <1> SUFFICES ASSUME IInv, [Next]_vars PROVE RejectionsStand'
    OBVIOUS
  <1> USE DEF IInv
  <1>1. Monotone
    BY StepMonotone
  <1>2. \A x \in approvals : x[3] = "REJECTED" => event'[x[1]].status = "REJECTED"
    BY <1>1 DEF Monotone, RejectionsStand, TypeOK
  <1>3. ASSUME NEW i \in Ids, NEW u \in Users, Reject(i, u)
        PROVE  RejectionsStand'
    <2>1. event'[i].status = "REJECTED" /\ approvals' = approvals \cup {<<i, u, "REJECTED">>}
      BY <1>3 DEF Reject, TypeOK, Event
    <2> QED
      BY <1>2, <2>1 DEF RejectionsStand
  <1>4. ASSUME NEW i \in Ids, NEW u, approvals' = approvals \cup {<<i, u, "APPROVED">>}
        PROVE  RejectionsStand'
    BY <1>2, <1>4 DEF RejectionsStand
  <1>5. CASE approvals' = approvals
    BY <1>2, <1>5 DEF RejectionsStand
  <1> QED
    BY <1>3, <1>4, <1>5
    DEF Next, vars, Submit, AddEvidence, ApprovePending, SendAnchor, Finalize, Rollback, Anchor

\* What the rules required at the submission was verified then and stays so.
LEMMA PrerequisitesStep == IInv /\ [Next]_vars => PrerequisitesVerified'
  <1> SUFFICES ASSUME IInv, [Next]_vars PROVE PrerequisitesVerified'
    OBVIOUS
  <1> USE DEF IInv
  <1>1. Monotone
    BY StepMonotone
  <1>2. Finalized \subseteq Finalized'
    BY <1>1 DEF Monotone, Finalized, Verified
  <1>3. ASSUME \A i \in Ids : event'[i].checked = event[i].checked /\ event'[i].type = event[i].type
        PROVE  PrerequisitesVerified'
    BY <1>2, <1>3 DEF PrerequisitesVerified
  <1>4. ASSUME NEW u \in Users, NEW i \in Ids, NEW type \in Types, NEW at \in Times,
               Submit(u, i, type, at)
        PROVE  PrerequisitesVerified'
    <2> DEFINE ok == TransitionOK(type, currentState, Finalized)
    <2>1. event'[i].checked = ok /\ event'[i].type = type
          /\ \A j \in Ids \ {i} : event'[j] = event[j]
      BY <1>4 DEF Submit, TypeOK
    <2>2. ok => stateTransitionRegistry[type].required \subseteq Finalized
      BY EventsAssumption DEF TransitionOK
    <2> HIDE DEF ok
    <2> QED
      BY <1>2, <2>1, <2>2 DEF PrerequisitesVerified
  <1>5. ASSUME NEW i \in Ids, NEW u \in Users, Reject(i, u)
        PROVE  PrerequisitesVerified'
    BY <1>3, <1>5 DEF Reject, TypeOK, Event
  <1>6. ASSUME NEW i \in Ids, Finalize(i)
        PROVE  PrerequisitesVerified'
    BY <1>3, <1>6 DEF Finalize, TypeOK, Event
  <1>7. CASE event' = event
    BY <1>3, <1>7
  <1> QED
    BY <1>4, <1>5, <1>6, <1>7 DEF Next, vars, AddEvidence, ApprovePending, SendAnchor, Rollback, Anchor

\* IInv is an inductive invariant of the specification.
THEOREM Invariance == Spec => []IInv
  <1>1. IInv /\ [Next]_vars => IInv'
    BY TypeStep, SeparationStep, OpenStep, SentStep, VerifiedStep, RejectionStep,
       PrerequisitesStep
    DEF IInv
  <1> QED
    BY InitInv, <1>1, PTL DEF Spec

\* Every reachable state is of the types the tables declare.
THEOREM TypeCorrect == Spec => []TypeOK
  BY Invariance, PTL DEF IInv

\* Whatever reaches the chain was approved by a quorum without its performer and
\* has its evidence, for any policy and any number of lost answers.
THEOREM Backed == Spec => []AnchorBacked
  <1>1. IInv => AnchorBacked
    <2> SUFFICES ASSUME IInv, NEW r \in chain
                 PROVE  /\ Cardinality((ApprovedBy(r.event) \cup {r.by}) \ {event[r.event].by})
                              >= approvalsRequired
                        /\ requireEvidence => r.package # {}
                        /\ r.package \subseteq evidence[r.event]
      BY DEF AnchorBacked
    <2>1. r \in sent /\ r.event \in Ids
      BY DEF IInv, TypeOK, Request
    <2>2. event[r.event].by \notin ApprovedBy(r.event) \cup {r.by}
      BY <2>1 DEF IInv, SentBacked, SeparationOfDuties, ApprovedBy
    <2>3. (ApprovedBy(r.event) \cup {r.by}) \ {event[r.event].by} = ApprovedBy(r.event) \cup {r.by}
      BY <2>2
    <2> QED
      BY <2>1, <2>3 DEF IInv, SentBacked, Quorum
  <1> QED
    BY Invariance, <1>1, PTL

\* A VERIFIED event is on the chain with a committed quorum and no rejection.
THEOREM Anchored == Spec => []VerifiedIsAnchored
  <1>1. IInv => VerifiedIsAnchored
    BY DEF IInv, VerifiedBacked, VerifiedIsAnchored, RejectionsStand, Verified, Quorum
  <1> QED
    BY Invariance, <1>1, PTL

\* Events accepted by the transition rules keep their prerequisites verified,
\* whatever the registry's rules are.
THEOREM Prerequisites == Spec => []PrerequisitesVerified
  BY Invariance, PTL DEF IInv

\* VERIFIED and REJECTED are final.
THEOREM Final == Spec => FinalStatusesStay
  <1>1. IInv /\ [Next]_vars =>
          [\A i \in Ids : event[i].status \in {"VERIFIED", "REJECTED"} => event'[i] = event[i]]_vars
    BY StepMonotone DEF IInv, Monotone
  <1> QED
    BY Invariance, <1>1, PTL DEF Spec, FinalStatusesStay

------------------------------------------------------------------------------
\* A submitted event has a performer, and one that has none is absent.
Performed ==
    \A i \in Ids : event[i].status = "ABSENT" <=> event[i].by = NONE

LEMMA PerformedStep == IInv /\ Performed /\ [Next]_vars => Performed'
  <1> SUFFICES ASSUME IInv, Performed, [Next]_vars PROVE Performed'
    OBVIOUS
  <1> USE DEF IInv
  <1>1. ASSUME NEW u \in Users, NEW i \in Ids, NEW type \in Types, NEW at \in Times,
               Submit(u, i, type, at)
        PROVE  Performed'
    <2>1. /\ event'[i].status = "SUBMITTED" /\ event'[i].by = u
          /\ \A j \in Ids \ {i} : event'[j] = event[j]
      BY <1>1 DEF Submit, TypeOK
    <2> QED
      BY <2>1, RequestsAssumption DEF Performed
  <1>2. ASSUME NEW i \in Ids, NEW u \in Users, Reject(i, u)
        PROVE  Performed'
    <2>1. /\ event[i].status = "SUBMITTED"
          /\ event'[i].status = "REJECTED" /\ event'[i].by = event[i].by
          /\ \A j \in Ids \ {i} : event'[j] = event[j]
      BY <1>2 DEF Reject, MayDecide, TypeOK, Event
    <2> QED
      BY <2>1 DEF Performed
  <1>3. ASSUME NEW i \in Ids, Finalize(i)
        PROVE  Performed'
    <2>1. /\ event[i].status = "SUBMITTED"
          /\ event'[i].status = "VERIFIED" /\ event'[i].by = event[i].by
          /\ \A j \in Ids \ {i} : event'[j] = event[j]
      BY <1>3 DEF Finalize, OpenSubmitted, TypeOK, Event
    <2> QED
      BY <2>1 DEF Performed
  <1>4. CASE event' = event
    BY <1>4 DEF Performed
  <1> QED
    BY <1>1, <1>2, <1>3, <1>4
    DEF Next, vars, AddEvidence, ApprovePending, SendAnchor, Rollback, Anchor

\* A committed approval adds one approver to one event.
LEMMA ApproverAdded ==
    ASSUME TypeOK, NEW i \in Ids, NEW u \in Users, approvals' = approvals \cup {<<i, u, "APPROVED">>}
    PROVE  Approving' = [Approving EXCEPT ![i] = @ \cup {u}]
  <1>1. \A j \in Ids \ {i} : ApprovedBy(j)' = ApprovedBy(j)
    BY DEF ApprovedBy
  <1>2. ApprovedBy(i)' = ApprovedBy(i) \cup {u}
    BY DEF ApprovedBy
  <1> QED
    BY <1>1, <1>2 DEF Approving

\* Each step of the routes is a step of the ledger or leaves it alone.
LEMMA LedgerStep == IInv /\ Performed /\ [Next]_vars => [Ledger!Next]_Ledger!vars
  <1> SUFFICES ASSUME IInv, Performed, [Next]_vars, ~UNCHANGED Ledger!vars
               PROVE  Ledger!Next
    OBVIOUS
  <1> USE DEF IInv
  <1>1. ASSUME NEW u \in Users, NEW i \in Ids, NEW type \in Types, NEW at \in Times,
               Submit(u, i, type, at)
        PROVE  Ledger!Submit(i, u)
    <2>1. /\ event[i].status = "ABSENT" /\ UNCHANGED <<evidence, approvals, chain>>
          /\ event'[i].status = "SUBMITTED" /\ event'[i].by = u
          /\ \A j \in Ids \ {i} : event'[j] = event[j]
      BY <1>1 DEF Submit, TypeOK
    <2>2. Performers[i] = NONE /\ Performers' = [Performers EXCEPT ![i] = u]
      BY <2>1 DEF Performed, Performers
    <2>3. Outcome' = Outcome /\ Approving' = Approving /\ Recorded' = Recorded
      BY <2>1 DEF Outcome, Approving, ApprovedBy, Recorded
    <2> QED
      BY <2>1, <2>2, <2>3 DEF Ledger!Submit
  <1>2. ASSUME NEW i \in Ids, NEW f \in Files, AddEvidence(i, f)
        PROVE  Ledger!AddEvidence(i, f)
    <2>1. UNCHANGED <<Performers, Outcome, Approving, Recorded>>
      BY <1>2 DEF AddEvidence, Performers, Outcome, Approving, ApprovedBy, Recorded
    <2>2. Performers[i] # NONE
      BY <1>2 DEF AddEvidence, Performed, Performers
    <2> QED
      BY <1>2, <2>1, <2>2 DEF AddEvidence, Ledger!AddEvidence
  \* What a decision was allowed by.
  <1>3. ASSUME NEW i \in Ids, NEW u \in Users, event[i].status = "SUBMITTED", event[i].by # u
        PROVE  Ledger!MayDecide(i, u)
    BY <1>3 DEF Ledger!MayDecide, Performed, Performers, Outcome
  <1>4. ASSUME NEW i \in Ids, NEW u \in Users, Quorum(ApprovedBy(i) \cup {u})
        PROVE  Ledger!Completes(i, u)
    BY <1>4 DEF Ledger!Completes, Quorums, Approving, ApprovedBy
  <1>5. ASSUME NEW i \in Ids, NEW u \in Users, Reject(i, u)
        PROVE  Ledger!Reject(i, u)
    <2>1. /\ event[i].status = "SUBMITTED" /\ event[i].by # u
          /\ <<i, u, "APPROVED">> \notin approvals
          /\ approvals' = approvals \cup {<<i, u, "REJECTED">>}
          /\ UNCHANGED <<evidence, chain>>
      BY <1>5 DEF Reject, MayDecide
    <2>2. /\ event'[i].status = "REJECTED" /\ event'[i].by = event[i].by
          /\ \A j \in Ids \ {i} : event'[j] = event[j]
      BY <1>5 DEF Reject, TypeOK, Event
    <2>3. Performers' = Performers /\ Outcome' = [Outcome EXCEPT ![i] = "REJECTED"]
      BY <2>1, <2>2 DEF Performers, Outcome
    <2>4. Approving' = Approving /\ u \notin Approving[i] /\ Recorded' = Recorded
      BY <2>1 DEF Approving, ApprovedBy, Recorded
    <2> QED
      BY <1>3, <2>1, <2>3, <2>4 DEF Ledger!Reject
  <1>6. ASSUME NEW i \in Ids, NEW u \in Users, ApprovePending(i, u)
        PROVE  Ledger!Approve(i, u)
    <2>1. /\ event[i].status = "SUBMITTED" /\ event[i].by # u
          /\ requireEvidence => evidence[i] # {}
          /\ ~(Cardinality(ApprovedBy(i) \cup {u}) >= approvalsRequired)
          /\ approvals' = approvals \cup {<<i, u, "APPROVED">>}
          /\ UNCHANGED <<event, evidence, chain>>
      <3>1. ApprovedBy(i) \cup {u} \subseteq Users
        BY DEF ApprovedBy
      <3>2. IsFiniteSet(ApprovedBy(i) \cup {u})
        BY <3>1, FS_Subset, PolicyAssumption
      <3>3. Cardinality(ApprovedBy(i) \cup {u}) \in Nat
        BY <3>2, FS_CardinalityType
      <3> QED
        BY <1>6, <3>3, PolicyAssumption DEF ApprovePending, MayDecide, EvidenceOK
    <2>2. Performers' = Performers /\ Outcome' = Outcome /\ Recorded' = Recorded
      BY <2>1 DEF Performers, Outcome, Recorded
    <2>3. ~Ledger!Completes(i, u)
      BY <2>1 DEF Ledger!Completes, Quorums, Quorum, Approving
    <2> QED
      BY <1>3, <2>1, <2>2, <2>3, ApproverAdded DEF Ledger!Approve
  <1>7. ASSUME NEW r \in sent, Anchor(r)
        PROVE  Ledger!Anchor(r.event, r.by, r.package)
    <2>1. r \in Request /\ chain' = chain \cup {r}
          /\ UNCHANGED <<event, evidence, approvals>>
      BY <1>7 DEF Anchor, TypeOK
    <2>2. /\ event[r.event].status # "ABSENT" /\ event[r.event].by # r.by
          /\ Quorum(ApprovedBy(r.event) \cup {r.by})
          /\ requireEvidence => r.package # {}
          /\ r.package \subseteq evidence[r.event]
      BY DEF SentBacked
    <2>3. r.event \in Ids /\ r.by \in Users
      BY <2>1 DEF Request
    <2>4. Performers[r.event] \notin {NONE, r.by}
      BY <2>2, <2>3 DEF Performed, Performers
    <2>5. Recorded' = Recorded \cup {[event |-> r.event, by |-> r.by, package |-> r.package]}
      BY <2>1 DEF Recorded
    <2>6. Performers' = Performers /\ Outcome' = Outcome /\ Approving' = Approving
      BY <2>1 DEF Performers, Outcome, Approving, ApprovedBy
    <2> QED
      BY <1>4, <2>1, <2>2, <2>3, <2>4, <2>5, <2>6 DEF Ledger!Anchor
  <1>8. ASSUME NEW i \in Ids, Finalize(i)
        PROVE  \E u \in Users : Ledger!Verify(i, u)
    <2> DEFINE r == open[i]
    <2>1. /\ r \in sent /\ r \in chain /\ r.event = i /\ event[i].status = "SUBMITTED"
          /\ approvals' = approvals \cup {<<i, r.by, "APPROVED">>}
          /\ UNCHANGED <<evidence, chain>>
      BY <1>8 DEF Finalize, OpenSubmitted
    <2>2. r.by \in Users
      BY <2>1 DEF TypeOK, Request
    <2>3. event[i].by # r.by /\ Quorum(ApprovedBy(i) \cup {r.by})
      BY <2>1 DEF SentBacked
    <2>4. /\ event'[i].status = "VERIFIED" /\ event'[i].by = event[i].by
          /\ \A j \in Ids \ {i} : event'[j] = event[j]
      BY <1>8 DEF Finalize, TypeOK, Event
    <2> HIDE DEF r
    <2>5. Performers' = Performers /\ Outcome' = [Outcome EXCEPT ![i] = "VERIFIED"]
      BY <2>1, <2>4 DEF Performers, Outcome
    <2>6. Recorded' = Recorded /\ \E x \in Recorded : x.event = i /\ x.by = r.by
      <3> DEFINE x == [event |-> r.event, by |-> r.by, package |-> r.package]
      <3>1. x \in Recorded /\ x.event = i /\ x.by = r.by
        BY <2>1 DEF Recorded
      <3> QED
        BY <2>1, <3>1 DEF Recorded
    <2>7. Ledger!MayDecide(i, r.by) /\ Ledger!Completes(i, r.by)
      BY <1>3, <1>4, <2>1, <2>2, <2>3
    <2>8. Approving' = [Approving EXCEPT ![i] = @ \cup {r.by}]
      BY <2>1, <2>2, ApproverAdded
    <2> QED
      BY <2>1, <2>2, <2>5, <2>6, <2>7, <2>8 DEF Ledger!Verify
  <1>9. CASE UNCHANGED <<event, evidence, approvals, chain>>
    BY <1>9 DEF Ledger!vars, Performers, Outcome, Approving, ApprovedBy, Recorded
  <1>10. ASSUME NEW r \in sent, Anchor(r) PROVE r.event \in Ids /\ r.by \in Users /\ r.package \in SUBSET Files
    BY DEF TypeOK, Request
  <1> QED
    BY <1>1, <1>2, <1>5, <1>6, <1>7, <1>8, <1>9, <1>10
    DEF Next, vars, SendAnchor, Rollback, Ledger!Next

\* The approval, its record on the chain and the status VERIFIED are one step of
\* the ledger, however the routes, the remote call, lost answers and rollbacks
\* interleave (POST of lifecycle, evidence and approvals).
THEOREM Refinement == Spec => ImplementsLedger
  <1>1. Init => Performed /\ Ledger!Init
    <2> SUFFICES ASSUME Init PROVE Performed /\ Ledger!Init
      OBVIOUS
    <2>1. \A i \in Ids : event[i].by = NONE /\ event[i].status = "ABSENT"
      BY DEF Init, NoEvent
    <2>2. approvals = {} /\ chain = {} /\ evidence = [i \in Ids |-> {}]
      BY DEF Init
    <2>3. Performers = [i \in Ids |-> NONE] /\ Outcome = [i \in Ids |-> "OPEN"]
      BY <2>1 DEF Performers, Outcome
    <2>4. Approving = [i \in Ids |-> {}] /\ Recorded = {}
      BY <2>2 DEF Approving, ApprovedBy, Recorded
    <2> QED
      BY <2>1, <2>2, <2>3, <2>4 DEF Performed, Ledger!Init
  <1> QED
    BY <1>1, Invariance, PerformedStep, LedgerStep, PTL DEF Spec, ImplementsLedger, Ledger!Spec
================================================================================
