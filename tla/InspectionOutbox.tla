-------------------------- MODULE InspectionOutbox --------------------------
(***************************************************************************)
(* What the field queue promises an inspector: an inspection is posted     *)
(* once, with its files; in the name of each user the server records it at *)
(* most once and each of its files once, files after the record; it stops  *)
(* being pending, and is shown as delivered, only when all of it is there  *)
(* in the name of one user, and nothing is recorded that was not posted.   *)
(* There are no pages, drafts, stores, requests, answers or retries here.  *)
(***************************************************************************)
EXTENDS Naturals

CONSTANTS Requests, Files, Users

VARIABLES
    posted,   \* the files of each inspection, none before it is posted
    pending,  \* the inspections still to be delivered
    events,   \* how often the server has recorded each for a user
    rows,     \* how often it has each file of each for a user
    shown     \* the inspections shown as delivered

vars == <<posted, pending, events, rows, shown>>

Delivered(r) ==
    /\ posted[r] # {}
    /\ \E u \in Users : events[r][u] = 1 /\ \A s \in posted[r] : rows[r][u][s] = 1

Init ==
    /\ posted = [r \in Requests |-> {}]
    /\ pending = {}
    /\ events = [r \in Requests |-> [u \in Users |-> 0]]
    /\ rows = [r \in Requests |-> [u \in Users |-> [s \in Files |-> 0]]]
    /\ shown = {}

Post(r) ==
    /\ posted[r] = {}
    /\ \E files \in (SUBSET Files) \ {{}} : posted' = [posted EXCEPT ![r] = files]
    /\ pending' = pending \cup {r}
    /\ UNCHANGED <<events, rows, shown>>

Record(r, u) ==
    /\ posted[r] # {} /\ events[r][u] = 0
    /\ events' = [events EXCEPT ![r][u] = 1]
    /\ UNCHANGED <<posted, pending, rows, shown>>

Store(r, u, s) ==
    /\ events[r][u] = 1 /\ s \in posted[r] /\ rows[r][u][s] = 0
    /\ rows' = [rows EXCEPT ![r][u][s] = 1]
    /\ UNCHANGED <<posted, pending, events, shown>>

Settle(r) ==
    /\ Delivered(r)
    /\ pending' = pending \ {r}
    /\ UNCHANGED <<posted, events, rows, shown>>

\* It may be taken up again, even when it has been delivered.
TakeUp(r) ==
    /\ posted[r] # {}
    /\ pending' = pending \cup {r}
    /\ UNCHANGED <<posted, events, rows, shown>>

Show(r) ==
    /\ Delivered(r)
    /\ shown' = shown \cup {r}
    /\ UNCHANGED <<posted, pending, events, rows>>

Next ==
    \E r \in Requests :
        \/ Post(r) \/ Settle(r) \/ TakeUp(r) \/ Show(r)
        \/ \E u \in Users : Record(r, u) \/ (\E s \in Files : Store(r, u, s))

Spec == Init /\ [][Next]_vars
=============================================================================
