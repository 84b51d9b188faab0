-------------------------- MODULE LifecycleApproval --------------------------
(***************************************************************************)
(* The lifecycle events of one asset, from submission to finality:         *)
(* src/app/api/lifecycle/route.ts, src/app/api/evidence/route.ts and       *)
(* src/app/api/approvals/route.ts over their database tables, and the DIR  *)
(* RPC service they call.                                                  *)
(*                                                                         *)
(* A submission is one transaction without any lock on the asset.  An      *)
(* approval holds a lock on its event (an advisory lock and FOR UPDATE,    *)
(* which also blocks evidence inserts) through the RPC call that anchors   *)
(* it, so the approvals of one event come one after the other while those  *)
(* of other events interleave with them.  The call may be answered, fail,  *)
(* or succeed with its answer lost, and a request already sent may be      *)
(* anchored at any later time.  A legacy event type goes by its canonical  *)
(* event: src/lib/redbook/adapters/lifecycle.ts maps them one to one.      *)
(* Left out: tenants, projects and roles other than who may approve,       *)
(* signatures, payloads, and the replay of a submission by its requestId,  *)
(* which changes nothing.  No status but these four is ever written.       *)
(***************************************************************************)
EXTENDS AssetTransitions, Integers, FiniteSets

CONSTANTS
    Ids,                \* event ids, in their order
    Types,              \* event types submitted
    Times,              \* occurred_at, which the client supplies
    Users, Approvers,   \* everybody; those whose role the policy allows
    Files,              \* evidence
    approvalsRequired, requireEvidence,     \* the project's approval policy
    MaxRequests,        \* bound on the anchor requests for one event
    NONE

VARIABLES
    event,              \* lifecycle_events, with the ledger_records row in receipt
    evidence,           \* evidence of each event
    approvals,          \* approvals, as <<event, approver, decision>>
    open,               \* the approval transaction of each event that awaits its
                        \* anchor, by the request it sent, or NONE
    sent,               \* anchor requests sent so far
    chain               \* those the DIR chain has anchored

vars == <<event, evidence, approvals, open, sent, chain>>

ASSUME EventsAssumption ==
    /\ Ids \subseteq Nat /\ Times \subseteq Nat
    /\ Types \subseteq RuledEvents \ {"ASSET_VERIFIED", "CONFIGURATION_CHANGED"}
ASSUME PolicyAssumption ==
    /\ Approvers \subseteq Users /\ IsFiniteSet(Users)
    /\ approvalsRequired \in 1 .. 5 /\ requireEvidence \in BOOLEAN
ASSUME RequestsAssumption == MaxRequests \in Nat /\ NONE \notin Types \cup Users

Request == [event : Ids, attempt : 1 .. MaxRequests, by : Users, package : SUBSET Files]
Event ==
    [type : Types \cup {NONE}, at : Times \cup {0}, by : Users \cup {NONE},
     checked : BOOLEAN,     \* transitionValidated
     status : {"ABSENT", "SUBMITTED", "VERIFIED", "REJECTED"}, receipt : Request \cup {NONE}]
NoEvent == [type |-> NONE, at |-> 0, by |-> NONE, checked |-> FALSE,
            status |-> "ABSENT", receipt |-> NONE]

------------------------------------------------------------------------------
Verified == {i \in Ids : event[i].status = "VERIFIED"}

Before(i, j) ==
    event[i].at < event[j].at \/ (event[i].at = event[j].at /\ i < j)

\* The verified events by occurred_at and id, the state they derive and the set
\* of their types.
History      == LET order == SetToSortSeq(Verified, Before)
                IN  [k \in DOMAIN order |-> event[order[k]].type]
currentState == DeriveState(History)
Finalized    == {event[i].type : i \in Verified}

ApprovedBy(i) == {u \in Users : <<i, u, "APPROVED">> \in approvals}

Init ==
    /\ event = [i \in Ids |-> NoEvent]
    /\ evidence = [i \in Ids |-> {}]
    /\ approvals = {}
    /\ open = [i \in Ids |-> NONE]
    /\ sent = {} /\ chain = {}

\* POST /api/lifecycle.  An asset without verified history may start with any
\* event (migrationBootstrap).
Submit(u, i, type, at) ==
    /\ event[i].status = "ABSENT"
    /\ LET ok == TransitionOK(type, currentState, Finalized)
       IN  /\ ok \/ (Verified = {} /\ type # "ASSET_REGISTERED")
           /\ event' = [event EXCEPT ![i] =
                [type |-> type, at |-> at, by |-> u, checked |-> ok,
                 status |-> "SUBMITTED", receipt |-> NONE]]
    /\ UNCHANGED <<evidence, approvals, open, sent, chain>>

\* POST /api/evidence, whatever the status of the event.
AddEvidence(i, f) ==
    /\ event[i].status # "ABSENT" /\ open[i] = NONE
    /\ evidence' = [evidence EXCEPT ![i] = @ \cup {f}]
    /\ UNCHANGED <<event, approvals, open, sent, chain>>

------------------------------------------------------------------------------
\* Variant: the locks on the event are not taken.
MayDecideUnlocked(i, u, decision) ==
    /\ event[i].status = "SUBMITTED"
    /\ event[i].by # u /\ u \in Approvers
    /\ \A d \in {"APPROVED", "REJECTED"} : <<i, u, d>> \in approvals => d = decision

\* Variant: a REJECTED event is decided again.
MayDecideRejected(i, u, decision) ==
    /\ open[i] = NONE
    /\ event[i].status \in {"SUBMITTED", "REJECTED"}
    /\ event[i].by # u /\ u \in Approvers
    /\ \A d \in {"APPROVED", "REJECTED"} : <<i, u, d>> \in approvals => d = decision

\* The checks that come before a decision of u is recorded.
MayDecide(i, u, decision) ==
    /\ open[i] = NONE
    /\ event[i].status = "SUBMITTED"
    /\ event[i].by # u /\ u \in Approvers
    /\ \A d \in {"APPROVED", "REJECTED"} : <<i, u, d>> \in approvals => d = decision

Reject(i, u) ==
    /\ MayDecide(i, u, "REJECTED")
    /\ approvals' = approvals \cup {<<i, u, "REJECTED">>}
    /\ event' = [event EXCEPT ![i].status = "REJECTED"]
    /\ UNCHANGED <<evidence, open, sent, chain>>

EvidenceOK(i) == requireEvidence => evidence[i] # {}

\* Variant: the answer to the approver is also written to the event.
ApprovePendingStatus(i, u) ==
    /\ MayDecide(i, u, "APPROVED")
    /\ EvidenceOK(i)
    /\ Cardinality(ApprovedBy(i) \cup {u}) < approvalsRequired
    /\ approvals' = approvals \cup {<<i, u, "APPROVED">>}
    /\ event' = [event EXCEPT ![i].status = "APPROVAL_PENDING"]
    /\ UNCHANGED <<evidence, open, sent, chain>>

\* A decision that leaves the quorum incomplete.
ApprovePending(i, u) ==
    /\ MayDecide(i, u, "APPROVED")
    /\ EvidenceOK(i)
    /\ Cardinality(ApprovedBy(i) \cup {u}) < approvalsRequired
    /\ approvals' = approvals \cup {<<i, u, "APPROVED">>}
    /\ UNCHANGED <<event, evidence, open, sent, chain>>

\* Variant: one approval too few is enough.
AlmostQuorum(S) == Cardinality(S) >= approvalsRequired - 1

Quorum(S) == Cardinality(S) >= approvalsRequired

\* The approval completes the quorum: it stays uncommitted while the request
\* to anchor the event with the evidence read under the lock is out.
SendAnchor(i, u) ==
    /\ MayDecide(i, u, "APPROVED")
    /\ EvidenceOK(i)
    /\ Quorum(ApprovedBy(i) \cup {u})
    /\ LET attempt == Cardinality({r \in sent : r.event = i}) + 1
           request == [event |-> i, attempt |-> attempt, by |-> u, package |-> evidence[i]]
       IN  /\ attempt <= MaxRequests
           /\ sent' = sent \cup {request}
           /\ open' = [open EXCEPT ![i] = request]
    /\ UNCHANGED <<event, evidence, approvals, chain>>

\* The DIR chain finalizes a request, also one whose sender is gone.
Anchor(r) ==
    /\ r \in sent \ chain
    /\ chain' = chain \cup {r}
    /\ UNCHANGED <<event, evidence, approvals, open, sent>>

\* The receipt arrives and the transaction commits: approval, status and
\* ledger_records row together.
Finalize(i) ==
    /\ open[i] # NONE /\ open[i] \in chain
    /\ event' = [event EXCEPT ![i].status = "VERIFIED", ![i].receipt = open[i]]
    /\ approvals' = approvals \cup {<<i, open[i].by, "APPROVED">>}
    /\ open' = [open EXCEPT ![i] = NONE]
    /\ UNCHANGED <<evidence, sent, chain>>

\* The call fails, its answer is lost or refused, or the server dies: the
\* transaction rolls back and the lock is free.
Rollback(i) ==
    /\ open[i] # NONE
    /\ open' = [open EXCEPT ![i] = NONE]
    /\ UNCHANGED <<event, evidence, approvals, sent, chain>>

Next ==
    \/ \E u \in Users, i \in Ids, type \in Types, at \in Times : Submit(u, i, type, at)
    \/ \E i \in Ids :
          \/ \E f \in Files : AddEvidence(i, f)
          \/ \E u \in Users : Reject(i, u) \/ ApprovePending(i, u) \/ SendAnchor(i, u)
          \/ Finalize(i) \/ Rollback(i)
    \/ \E r \in sent : Anchor(r)

Spec == Init /\ [][Next]_vars

------------------------------------------------------------------------------
TypeOK ==
    /\ event \in [Ids -> Event]
    /\ evidence \in [Ids -> SUBSET Files]
    /\ approvals \subseteq Ids \X Users \X {"APPROVED", "REJECTED"}
    /\ open \in [Ids -> Request \cup {NONE}]
    /\ sent \subseteq Request /\ chain \subseteq sent

\* Whatever reaches the chain, also from transactions that were rolled back, had
\* a quorum of approvers other than the performer and, where the policy asks for
\* it, evidence.
AnchorBacked ==
    \A r \in chain :
        /\ Cardinality((ApprovedBy(r.event) \cup {r.by}) \ {event[r.event].by})
              >= approvalsRequired
        /\ requireEvidence => r.package # {}
        /\ r.package \subseteq evidence[r.event]

\* A VERIFIED event has its receipt on the chain, a committed quorum and no
\* rejection, whichever approvers decided concurrently.
VerifiedIsAnchored ==
    \A i \in Verified :
        /\ event[i].receipt \in chain /\ event[i].receipt.event = i
        /\ Cardinality(ApprovedBy(i)) >= approvalsRequired
        /\ \A u \in Users : <<i, u, "REJECTED">> \notin approvals

\* An event accepted by the transition rules keeps its required events verified
\* forever, however the approvals of the asset's events interleave.
PrerequisitesVerified ==
    \A i \in Ids :
        event[i].checked => stateTransitionRegistry[event[i].type].required \subseteq Finalized

\* The routes over their tables and the chain implement ApprovalLedger: however
\* approvals, lost answers, rollbacks and late anchoring interleave, an event is
\* decided once, and the last approval, the record on the chain and the status
\* VERIFIED belong together.
Performers == [i \in Ids |-> event[i].by]
Approving  == [i \in Ids |-> ApprovedBy(i)]
Outcome    == [i \in Ids |-> IF event[i].status \in {"VERIFIED", "REJECTED"}
                             THEN event[i].status ELSE "OPEN"]
Recorded   == {[event |-> r.event, by |-> r.by, package |-> r.package] : r \in chain}
Quorums    == {S \in SUBSET Users : Quorum(S)}
Ledger == INSTANCE ApprovalLedger WITH
    performer <- Performers, approved <- Approving, decision <- Outcome, anchored <- Recorded
ImplementsLedger == Ledger!Spec

\* Nothing changes an event that is VERIFIED or REJECTED ("Rejected lifecycle
\* events cannot be approved; submit a new corrected event").
FinalStatusesStay ==
    [][\A i \in Ids : event[i].status \in {"VERIFIED", "REJECTED"} => event'[i] = event[i]]_vars
==============================================================================
