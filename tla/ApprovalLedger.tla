--------------------------- MODULE ApprovalLedger ---------------------------
(***************************************************************************)
(* What those who rely on a lifecycle event may count on: it is decided    *)
(* once, by others than who performed it; the chain holds it only with a   *)
(* quorum and its evidence behind it; and the approval that completes the  *)
(* quorum, the record on the chain and the VERIFIED status are one step.   *)
(* There are no locks, transactions, requests, answers or rollbacks here,  *)
(* but the chain may hold an approval that was not committed after all.    *)
(***************************************************************************)
CONSTANTS Ids, Users, Files, NONE,
          Quorums,          \* the sets of users whose approvals are enough
          requireEvidence

VARIABLES
    performer,  \* who submitted each event, NONE before
    evidence,   \* its evidence
    approved,   \* who has approved it
    decision,   \* what became of it
    anchored    \* the chain: event, the approver that completed the quorum, evidence

vars == <<performer, evidence, approved, decision, anchored>>

Init ==
    /\ performer = [i \in Ids |-> NONE]
    /\ evidence = [i \in Ids |-> {}]
    /\ approved = [i \in Ids |-> {}]
    /\ decision = [i \in Ids |-> "OPEN"]
    /\ anchored = {}

Submit(i, u) ==
    /\ performer[i] = NONE
    /\ performer' = [performer EXCEPT ![i] = u]
    /\ UNCHANGED <<evidence, approved, decision, anchored>>

AddEvidence(i, f) ==
    /\ performer[i] # NONE
    /\ evidence' = [evidence EXCEPT ![i] = @ \cup {f}]
    /\ UNCHANGED <<performer, approved, decision, anchored>>

MayDecide(i, u) == performer[i] \notin {NONE, u} /\ decision[i] = "OPEN"
Completes(i, u) == approved[i] \cup {u} \in Quorums

Reject(i, u) ==
    /\ MayDecide(i, u) /\ u \notin approved[i]
    /\ decision' = [decision EXCEPT ![i] = "REJECTED"]
    /\ UNCHANGED <<performer, evidence, approved, anchored>>

Approve(i, u) ==
    /\ MayDecide(i, u) /\ ~Completes(i, u)
    /\ requireEvidence => evidence[i] # {}
    /\ approved' = [approved EXCEPT ![i] = @ \cup {u}]
    /\ UNCHANGED <<performer, evidence, decision, anchored>>

\* At any time, also when the event is decided or the approval was given up.
Anchor(i, u, package) ==
    /\ performer[i] \notin {NONE, u} /\ Completes(i, u)
    /\ package \subseteq evidence[i]
    /\ requireEvidence => package # {}
    /\ anchored' = anchored \cup {[event |-> i, by |-> u, package |-> package]}
    /\ UNCHANGED <<performer, evidence, approved, decision>>

Verify(i, u) ==
    /\ MayDecide(i, u) /\ Completes(i, u)
    /\ \E r \in anchored : r.event = i /\ r.by = u
    /\ approved' = [approved EXCEPT ![i] = @ \cup {u}]
    /\ decision' = [decision EXCEPT ![i] = "VERIFIED"]
    /\ UNCHANGED <<performer, evidence, anchored>>

Next ==
    \E i \in Ids :
        \/ \E f \in Files : AddEvidence(i, f)
        \/ \E u \in Users :
              \/ Submit(i, u) \/ Reject(i, u) \/ Approve(i, u) \/ Verify(i, u)
              \/ \E package \in SUBSET Files : Anchor(i, u, package)

Spec == Init /\ [][Next]_vars
=============================================================================
