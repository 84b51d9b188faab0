--------------------------- MODULE MCSafetyJournal ---------------------------
(***************************************************************************)
(* SafetyJournal for TLC: two proposals, two digests and a set of          *)
(* decisions at two heights and three rounds that contains, for one slot,  *)
(* conflicting votes, a legal and an illegal unlock, a lock that moves from *)
(* A to B, round changes that skip a round and one malformed decision.     *)
(***************************************************************************)
EXTENDS SafetyJournal

CONSTANTS A, B, m, n

Decision(h, r, step, dir, msg) ==
    [height |-> h, round |-> r, newRound |-> NoRound, step |-> step,
     proposal |-> dir, msg |-> msg, unlockRound |-> NoRound, finalized |-> NONE]
RoundChange(h, r, new, msg) ==
    [Decision(h, r, "ROUND_CHANGE", NONE, msg) EXCEPT !.newRound = new]
Finalize(h, r, dir, hash) ==
    [Decision(h, r, "FINALIZE", dir, NONE) EXCEPT !.finalized = hash]
Unlocking(r, d) == [d EXCEPT !.unlockRound = r]

TwoDIRs    == {A, B}
TwoDigests == {m, n}

\* Everything one validator may be asked to decide.
AllDecisions ==
    {Decision(1, 0, "VERIFY", A, m), Decision(1, 0, "VERIFY", B, n),
     Decision(1, 0, "LOCK", A, NONE), Decision(1, 0, "COMMIT", A, m),
     RoundChange(1, 0, 2, m), RoundChange(1, 0, 2, n), RoundChange(1, 1, 1, m),
     Decision(1, 2, "VERIFY", B, n), Unlocking(1, Decision(1, 2, "VERIFY", B, n)),
     Decision(1, 2, "LOCK", B, NONE), Decision(1, 2, "COMMIT", B, n),
     Finalize(1, 0, A, m), Finalize(1, 2, B, n),
     Decision(2, 0, "VERIFY", B, m), Decision(2, 0, "LOCK", B, NONE)}

\* One vote, a lock, a round change and a finalization after it.
FewDecisions ==
    {Decision(1, 0, "VERIFY", A, m), Decision(1, 0, "VERIFY", B, n),
     Decision(1, 0, "LOCK", A, NONE), RoundChange(1, 0, 1, m), Finalize(1, 1, A, n)}
=============================================================================
