---------------------------- MODULE PeerEvidence ----------------------------
(***************************************************************************)
(* The files in which a node keeps what it holds against its peers: the    *)
(* evidence journal, the quarantine entries that cite it and the bound on  *)
(* the evidence nothing cites (peer_sync_evidence_journal.go,              *)
(* peer_sync_quarantine.go, peer_sync_evidence_retention.go).              *)
(*                                                                         *)
(* A piece of evidence is known by its peer and type: its heights, hashes  *)
(* and time, which make every one of them distinct, are abstracted.        *)
(***************************************************************************)
EXTENDS FiniteSets, Naturals

CONSTANTS EvidencePeers,   \* the authenticated validator identities
          MaxUnpinned      \* bound on the evidence no quarantine entry cites

EvidenceTypes == {"HEAD_EQUIVOCATION", "PROOF_HEAD_MISMATCH",
                  "FINALIZED_HEAD_CONFLICT", "HISTORICAL_DIVERGENCE"}
Evidence == [peer : EvidencePeers, type : EvidenceTypes]

QuarantineStatus == {"NONE", "QUARANTINED", "RELEASED_BY_OPERATOR"}
Entry      == [status : QuarantineStatus, hashes : SUBSET Evidence]
Quarantine == [EvidencePeers -> Entry]

NoEntry == [status |-> "NONE", hashes |-> {}]

IsQuarantined(quarantine, p) == quarantine[p].status = "QUARANTINED"

\* Repeated evidence is cited once, a released peer goes back in.
QuarantinePeer(quarantine, e) ==
    [quarantine EXCEPT ![e.peer] = [status |-> "QUARANTINED", hashes |-> @.hashes \cup {e}]]

\* An operator's release keeps the entry and what it cites.
ReleasePeer(quarantine, p) == [quarantine EXCEPT ![p].status = "RELEASED_BY_OPERATOR"]

Pinned(quarantine) == UNION {quarantine[p].hashes : p \in EvidencePeers}

\* Retention is refused while an entry cites evidence that is not there.
RetentionRefused(journal, quarantine) == ~(Pinned(quarantine) \subseteq journal)

\* Variant: the bound is on the whole journal.
RetainedUnpinned(journal, quarantine) ==
    {kept \in SUBSET journal :
        Cardinality(kept) = IF Cardinality(journal) < MaxUnpinned
                            THEN Cardinality(journal) ELSE MaxUnpinned}

\* What it leaves: everything cited, and the newest of the rest.
Retained(journal, quarantine) ==
    LET unpinned == journal \ Pinned(quarantine)
    IN  IF Cardinality(unpinned) <= MaxUnpinned THEN {journal}
        ELSE {(journal \cap Pinned(quarantine)) \cup kept :
                 kept \in {k \in SUBSET unpinned : Cardinality(k) = MaxUnpinned}}

=============================================================================
