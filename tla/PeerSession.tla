---------------------------- MODULE PeerSession ----------------------------
(***************************************************************************)
(* Signed envelopes between validators: each carries the sequence number   *)
(* of its sender, and a receiver takes only what is newer than everything  *)
(* it has taken from that sender (tools/portable-validator/                *)
(* peer_session.go, peer_transport.go).  The counter and the watermarks    *)
(* survive restarts in one file per validator directory; a process reads   *)
(* it when it starts, keeps it in memory and writes it whole.  Where the   *)
(* Windows build runs, a save removes the file before it puts the new one  *)
(* in its place, and one that gets no further leaves none.                 *)
(*                                                                         *)
(* The network loses, repeats, delays and reorders envelopes, and an       *)
(* envelope names no receiver: it may arrive anywhere.  What it carries    *)
(* and what verifyPeerEnvelope finds in it alone is left out; an envelope  *)
(* it refuses is one that does not arrive.                                 *)
(***************************************************************************)
EXTENDS Naturals, Sequences

CONSTANTS Validators,
          Processes,  \* runtimes: servers, probes, followers
          Identity,   \* the validator whose directory a process works on
          Windows,    \* the processes that run the Windows build
          MaxSent,    \* bound on the envelopes sent
          MaxAccepted \* bound on those a validator accepts, repeatedly if it forgets

ASSUME SessionAssumption ==
    /\ Identity \in [Processes -> Validators]
    /\ Windows \subseteq Processes
    /\ MaxSent \in Nat /\ MaxAccepted \in Nat

\* No two processes share a state file.
OneProcess == \A p, q \in Processes : Identity[p] = Identity[q] => p = q

VARIABLES
    disk,     \* the last PeerSessionState saved for each validator
    gone,     \* the validators whose file was removed and not replaced
    forgot,   \* those that a process has started for without it
    mem,      \* the one each process holds
    sent,     \* the envelopes sent; the place of one is its nonce
    accepted  \* the nonces each validator has accepted, in their order

files == <<disk, gone, forgot>>
vars  == <<files, mem, sent, accepted>>

Envelope == [from : Validators, sequence : Nat \ {0}]

\* out: the last sequence number signed; last: the highest one accepted of
\* each sender; seen: the nonces accepted that are not pruned.
State == [out : Nat, last : [Validators -> Nat], seen : SUBSET Nat]

\* The validators whose file may be removed.
Removed == {Identity[p] : p \in Windows}

TypeOK ==
    /\ disk \in [Validators -> State]
    /\ gone \subseteq Removed
    /\ forgot \subseteq Removed
    /\ mem \in [Processes -> State]
    /\ sent \in Seq(Envelope)
    /\ accepted \in [Validators -> Seq(Nat)]

DefaultState == [out |-> 0, last |-> [v \in Validators |-> 0], seen |-> {}]

Init ==
    /\ disk = [v \in Validators |-> DefaultState]
    /\ gone = {} /\ forgot = {}
    /\ mem = [p \in Processes |-> DefaultState]
    /\ sent = <<>>
    /\ accepted = [v \in Validators |-> <<>>]

-----------------------------------------------------------------------------
\* The process dies, at any point, and another one starts.

\* Variant: a file that cannot be read is a file that is not there.
LoadedOrDefault(v) == IF disk[v].last = DefaultState.last THEN DefaultState ELSE disk[v]

\* Without a file a process starts from nothing.
Loaded(v) == IF v \in gone THEN DefaultState ELSE disk[v]

Restart(p) ==
    /\ mem' = [mem EXCEPT ![p] = Loaded(Identity[p])]
    /\ forgot' = forgot \cup ({Identity[p]} \cap gone)
    /\ UNCHANGED <<disk, gone, sent, accepted>>

Save(p) ==
    /\ disk' = [disk EXCEPT ![Identity[p]] = mem'[p]]
    /\ gone' = gone \ {Identity[p]}
    /\ UNCHANGED forgot

\* A save that fails, or in which the process dies.
SaveFails(p) ==
    \/ UNCHANGED files
    \/ /\ p \in Windows
       /\ gone' = gone \cup {Identity[p]}
       /\ UNCHANGED <<disk, forgot>>

-----------------------------------------------------------------------------
\* Signing.

Raised(p) == mem[p].out + 1

Signed(p) == [from |-> Identity[p], sequence |-> Raised(p)]

\* Variant: the envelope leaves, then the state is saved, or is not.
SignThenSave(p) ==
    /\ Len(sent) < MaxSent
    /\ sent' = Append(sent, Signed(p))
    /\ \/ mem' = [mem EXCEPT ![p].out = Raised(p)] /\ Save(p)
       \/ UNCHANGED <<mem, files>>
    /\ UNCHANGED accepted

\* Variant: a failed save lowers a counter that was not raised.
SignOrLower(p) ==
    /\ Len(sent) < MaxSent
    /\ \/ /\ mem' = [mem EXCEPT ![p].out = Raised(p)]
          /\ Save(p)
          /\ sent' = Append(sent, Signed(p))
       \/ /\ mem' = [mem EXCEPT ![p].out = @ - 1]
          /\ SaveFails(p)
          /\ UNCHANGED sent
    /\ UNCHANGED accepted

\* The raised counter is saved before the envelope leaves.  When it cannot be
\* saved the counter is lowered again and no envelope leaves.
Sign(p) ==
    /\ Len(sent) < MaxSent
    /\ \/ /\ mem' = [mem EXCEPT ![p].out = Raised(p)]
          /\ Save(p)
          /\ sent' = Append(sent, Signed(p))
       \/ /\ SaveFails(p)
          /\ UNCHANGED <<mem, sent>>
    /\ UNCHANGED accepted

-----------------------------------------------------------------------------
\* Receiving: an answer that a client waits for, or a request that a server
\* then answers with Sign, under the same mutex.

\* Nonces of envelopes that have expired are forgotten first.
Pruned(p) == SUBSET mem[p].seen

\* Variant: a nonce that is not known is enough.
NewNonce(p, i, kept) == i \notin kept

NotReplayed(p, i, kept) ==
    /\ sent[i].sequence > mem[p].last[sent[i].from]
    /\ i \notin kept

Watermarked(p, i, kept) ==
    [mem[p] EXCEPT !.last[sent[i].from] = sent[i].sequence, !.seen = kept \cup {i}]

\* Variant: the envelope is handed over although its watermark was not saved.
ReceiveUnsaved(p, i) ==
    /\ \E kept \in Pruned(p) :
          /\ NotReplayed(p, i, kept)
          /\ mem' = [mem EXCEPT ![p] = Watermarked(p, i, kept)]
    /\ Save(p) \/ SaveFails(p)
    /\ accepted' = [accepted EXCEPT ![Identity[p]] = Append(@, i)]
    /\ UNCHANGED sent

\* The watermark is raised in memory, then saved.  When it cannot be saved the
\* envelope is refused and the watermark stays.
Receive(p, i) ==
    /\ \E kept \in Pruned(p) :
          /\ NotReplayed(p, i, kept)
          /\ mem' = [mem EXCEPT ![p] = Watermarked(p, i, kept)]
    /\ \/ /\ Len(accepted[Identity[p]]) < MaxAccepted
          /\ Save(p)
          /\ accepted' = [accepted EXCEPT ![Identity[p]] = Append(@, i)]
       \/ SaveFails(p) /\ UNCHANGED accepted
    /\ UNCHANGED sent

\* A replay is refused; the pruning in memory remains.
Refuse(p, i) ==
    /\ \E kept \in Pruned(p) :
          /\ ~NotReplayed(p, i, kept)
          /\ mem' = [mem EXCEPT ![p].seen = kept]
    /\ UNCHANGED <<files, sent, accepted>>

Next ==
    \E p \in Processes :
        \/ Restart(p) \/ Sign(p)
        \/ \E i \in DOMAIN sent : Receive(p, i) \/ Refuse(p, i)

Spec == Init /\ [][Next]_vars

-----------------------------------------------------------------------------
\* No validator signs two envelopes with one sequence number, whatever saves
\* fail and wherever its process dies, unless a process has started for it
\* without the file a save had removed: a second one would be taken for a
\* replay of the first.
SequenceUnique ==
    \A i, j \in DOMAIN sent :
        sent[i].from = sent[j].from /\ sent[i].sequence = sent[j].sequence =>
            i = j \/ sent[i].from \in forgot

\* A validator accepts the envelopes of a sender with rising sequence numbers,
\* so none of them twice, across its restarts and after their nonces are
\* forgotten, unless it has started without its own file.
AcceptedInOrder ==
    \A v \in Validators \ forgot : \A j, k \in DOMAIN accepted[v] :
        LET d == sent[accepted[v][j]]
            e == sent[accepted[v][k]]
        IN  j < k /\ d.from = e.from => d.sequence < e.sequence

\* No watermark is ahead of the counter of its sender, so that a sender that
\* restarted, or whose saves failed, is never taken for an old one: whatever
\* it signs next is new to everybody, unless it has started without its file.
NeverLockedOut ==
    \A p, q \in Processes :
        Identity[p] \notin forgot => mem[q].last[Identity[p]] <= mem[p].out

\* Seen through the order in which envelopes were signed, sequence numbers,
\* watermarks and state files amount to delivery in order and at most once
\* between every two validators, whatever restarts, failed saves and pruning
\* happen and whatever the network repeats and reorders (acceptInboundEnvelope,
\* nextSignedEnvelope), until a process of one of the two starts without its
\* file, which only a Windows build brings about.
Delivery == INSTANCE FIFODelivery WITH
    Forgetful <- Removed, posted <- [i \in DOMAIN sent |-> sent[i].from], delivered <- accepted
DeliversInOrder == Delivery!Spec

=============================================================================
