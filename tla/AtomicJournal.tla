---------------------------- MODULE AtomicJournal ----------------------------
(***************************************************************************)
(* What a validator promises about its votes: one log of decisions that    *)
(* only grows, each decision legal after the one before and the only one   *)
(* of its slot, and signatures only of votes in the log.  There are no     *)
(* files, caches, processes or crashes here; a decision is taken and kept  *)
(* in one step.                                                            *)
(***************************************************************************)
EXTENDS SafetyRules, Sequences

CONSTANT Decisions
VARIABLES log, signed

SameSlot(r, d) == r.height = d.height /\ r.round = d.round /\ r.step = d.step

Init == log = <<>> /\ signed = {}

Begin == log = <<>> /\ log' = <<Bootstrap>> /\ UNCHANGED signed

Decide(d) ==
    /\ log # <<>>
    /\ WellShaped(d)
    /\ \A i \in DOMAIN log : ~SameSlot(log[i], d)
    /\ Accepts(log[Len(log)], d)
    /\ log' = Append(log, NextRecord(log[Len(log)], d))
    /\ UNCHANGED signed

Sign(i) ==
    /\ log[i].step \in VoteSteps
    /\ signed' = signed \cup {[height |-> log[i].height, round |-> log[i].round,
                               step |-> log[i].step, msg |-> log[i].msg]}
    /\ UNCHANGED log

Next == Begin \/ (\E d \in Decisions : Decide(d)) \/ (\E i \in DOMAIN log : Sign(i))

Spec == Init /\ [][Next]_<<log, signed>>
==============================================================================
