---------------------------- MODULE FIFODelivery ----------------------------
(***************************************************************************)
(* What authenticated peers count on: envelopes are posted one after the   *)
(* other, and a validator delivers those of each sender in the order they  *)
(* were posted, each at most once, some not at all, and never takes a      *)
(* delivery back.  What goes to or comes from a validator that has         *)
(* forgotten all it knew is exempt.  There are no sequence numbers,        *)
(* nonces, watermarks, files or processes here.                            *)
(***************************************************************************)
EXTENDS Naturals, Sequences

CONSTANTS Validators,
          Forgetful  \* those that may forget

VARIABLES
    posted,    \* the sender of each envelope, in the order of posting
    delivered, \* the envelopes each validator delivered, by place in posted
    forgot     \* the validators that have forgotten

Init == posted = <<>> /\ delivered = [v \in Validators |-> <<>>] /\ forgot = {}

Post(v) == posted' = Append(posted, v) /\ UNCHANGED <<delivered, forgot>>

Deliver(v, i) ==
    /\ {v, posted[i]} \cap forgot = {} =>
           \A k \in DOMAIN delivered[v] :
               posted[delivered[v][k]] = posted[i] => delivered[v][k] < i
    /\ delivered' = [delivered EXCEPT ![v] = Append(@, i)]
    /\ UNCHANGED <<posted, forgot>>

Forget(v) ==
    /\ v \in Forgetful
    /\ forgot' = forgot \cup {v}
    /\ UNCHANGED <<posted, delivered>>

Next ==
    \E v \in Validators : Post(v) \/ Forget(v) \/ \E i \in DOMAIN posted : Deliver(v, i)

Spec == Init /\ [][Next]_<<posted, delivered, forgot>>
=============================================================================
