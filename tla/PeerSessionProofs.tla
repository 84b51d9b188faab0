-------------------------- MODULE PeerSessionProofs --------------------------
(***************************************************************************)
(* Proofs about PeerSession: type correctness, and, when no two processes  *)
(* share a state file, that a sequence number is signed once, an envelope  *)
(* accepted once and in order, and no sender locked out, for every         *)
(* validator that has not started without the file a save had removed.     *)
(***************************************************************************)
EXTENDS PeerSession, TLAPS

\* The state of every process and of every validator, its watermarks and its
\* accepted envelopes have their types in every reachable state, for all sets
\* of validators and processes (the file and the memory of peer_session.go).
LEMMA TypeInit == Init => TypeOK
<1> USE SessionAssumption
<1> QED  BY DEF Init, TypeOK, State, DefaultState, Envelope

\* A step keeps the types.
LEMMA TypeStep == TypeOK /\ [Next]_vars => TypeOK'
<1> SUFFICES ASSUME TypeOK, [Next]_vars PROVE TypeOK'
  OBVIOUS
<1> USE SessionAssumption DEF TypeOK
<1>1. ASSUME NEW p \in Processes, Restart(p) PROVE TypeOK'
  BY <1>1 DEF Restart, Loaded, Removed, DefaultState, State
<1>2. ASSUME NEW p \in Processes, Sign(p) PROVE TypeOK'
  <2>1. Raised(p) \in Nat \ {0}
    BY DEF Raised, State
  <2>2. [mem[p] EXCEPT !.out = Raised(p)] \in State
    BY <2>1 DEF State
  <2>3. mem' \in [Processes -> State]
    BY <1>2, <2>2 DEF Sign
  <2>4. disk' \in [Validators -> State]
    BY <1>2, <2>3 DEF Sign, Save, SaveFails, files
  <2>5. sent' \in Seq(Envelope)
    <3>1. Signed(p) \in Envelope
      BY <2>1 DEF Signed, Envelope
    <3>2. sent' = Append(sent, Signed(p)) \/ sent' = sent
      BY <1>2 DEF Sign
    <3>3. sent \in Seq(Envelope)
      OBVIOUS
    <3>4. Append(sent, Signed(p)) \in Seq(Envelope)
      BY <3>1, <3>3
    <3> QED  BY <3>2, <3>3, <3>4
  <2>6. gone' \subseteq Removed /\ forgot' = forgot
    BY <1>2 DEF Sign, Save, SaveFails, files, Removed
  <2> QED  BY <1>2, <2>3, <2>4, <2>5, <2>6 DEF Sign
<1>3. ASSUME NEW p \in Processes, NEW i \in DOMAIN sent, Receive(p, i) PROVE TypeOK'
  <2>1. sent[i] \in Envelope /\ i \in Nat
    OBVIOUS
  <2>2. mem' \in [Processes -> State]
    <3>1. PICK kept \in Pruned(p) : mem' = [mem EXCEPT ![p] = Watermarked(p, i, kept)]
      BY <1>3 DEF Receive
    <3>2. Watermarked(p, i, kept) \in State
      <4>1. /\ mem[p] \in State /\ kept \cup {i} \subseteq Nat
            /\ sent[i].from \in Validators /\ sent[i].sequence \in Nat
        BY <2>1 DEF Pruned, State, Envelope
      <4>2. [mem[p].last EXCEPT ![sent[i].from] = sent[i].sequence] \in [Validators -> Nat]
        BY <4>1 DEF State
      <4> QED  BY <4>1, <4>2 DEF Watermarked, State
    <3> QED  BY <3>1, <3>2
  <2>3. disk' \in [Validators -> State]
    BY <1>3, <2>2 DEF Receive, Save, SaveFails, files
  <2>4. accepted' \in [Validators -> Seq(Nat)]
    <3>1. Append(accepted[Identity[p]], i) \in Seq(Nat)
      BY <2>1
    <3> QED  BY <1>3, <3>1 DEF Receive
  <2>5. gone' \subseteq Removed /\ forgot' = forgot
    BY <1>3 DEF Receive, Save, SaveFails, files, Removed
  <2> QED  BY <1>3, <2>2, <2>3, <2>4, <2>5 DEF Receive
<1>4. ASSUME NEW p \in Processes, NEW i \in DOMAIN sent, Refuse(p, i) PROVE TypeOK'
  <2>1. PICK kept \in Pruned(p) : mem' = [mem EXCEPT ![p].seen = kept]
    BY <1>4 DEF Refuse
  <2>2. mem[p] \in State /\ kept \subseteq Nat
    BY DEF Pruned, State
  <2>3. [mem[p] EXCEPT !.seen = kept] \in State
    BY <2>2 DEF State
  <2>4. mem' \in [Processes -> State]
    BY <2>1, <2>3
  <2> QED  BY <1>4, <2>4 DEF Refuse, files
<1>5. CASE UNCHANGED vars
  BY <1>5 DEF vars, files
<1> QED  BY <1>1, <1>2, <1>3, <1>4, <1>5 DEF Next

\* Every reachable state is well typed (peer_session.go: what
\* loadPeerSessionState reads and savePeerSessionStateAtomic writes).
THEOREM Typed == Spec => []TypeOK
BY TypeInit, TypeStep, PTL DEF Spec

-----------------------------------------------------------------------------
\* What one step keeps for the validators that have not forgotten.  A file that
\* was removed and not replaced takes nothing away yet: the process that wrote
\* it has in memory what it held, and forgets it only by starting again.

\* The counter in memory is the saved one: nextSignedEnvelope lowers it again
\* when the save fails.
CounterSaved ==
    \A p \in Processes : Identity[p] \notin forgot => mem[p].out = disk[Identity[p]].out

\* What is sent is counted, in the order it was signed.
SentCounted ==
    /\ \A i \in DOMAIN sent :
          sent[i].from \notin forgot => sent[i].sequence <= disk[sent[i].from].out
    /\ \A i, j \in DOMAIN sent :
          i < j /\ sent[i].from = sent[j].from /\ sent[i].from \notin forgot =>
              sent[i].sequence < sent[j].sequence

\* A saved watermark is not ahead of the saved counter of its sender, one in
\* memory may be ahead of the saved one but of no counter.
WatermarksCounted ==
    /\ \A v, w \in Validators : w \notin forgot => disk[v].last[w] <= disk[w].out
    /\ \A p \in Processes, w \in Validators :
          /\ Identity[p] \notin forgot => disk[Identity[p]].last[w] <= mem[p].last[w]
          /\ w \notin forgot => mem[p].last[w] <= disk[w].out

\* What is accepted is at or below the saved watermark, and in order.
AcceptedSaved ==
    /\ \A v \in Validators : \A k \in DOMAIN accepted[v] :
          /\ accepted[v][k] \in DOMAIN sent
          /\ v \notin forgot =>
                sent[accepted[v][k]].sequence <= disk[v].last[sent[accepted[v][k]].from]
    /\ AcceptedInOrder

Safe == TypeOK /\ CounterSaved /\ SentCounted /\ WatermarksCounted /\ AcceptedSaved

\* The counters and watermarks are numbers.
LEMMA Numbers ==
    TypeOK => /\ \A v, w \in Validators : disk[v].out \in Nat /\ disk[v].last[w] \in Nat
              /\ \A p \in Processes, w \in Validators :
                    mem[p].out \in Nat /\ mem[p].last[w] \in Nat
BY DEF TypeOK, State

\* So are the places and the numbers of what was sent.
LEMMA SentType ==
    TypeOK => \A i \in DOMAIN sent :
                  i \in Nat /\ sent[i].from \in Validators /\ sent[i].sequence \in Nat
<1> SUFFICES ASSUME TypeOK, NEW i \in DOMAIN sent
             PROVE  i \in Nat /\ sent[i].from \in Validators /\ sent[i].sequence \in Nat
  OBVIOUS
<1>1. i \in Nat /\ sent[i] \in Envelope
  BY DEF TypeOK
<1> QED  BY <1>1 DEF Envelope

\* Appending keeps the earlier elements and adds one.
LEMMA Appended ==
    ASSUME NEW S, NEW sq \in Seq(S), NEW x \in S, NEW k \in DOMAIN Append(sq, x)
    PROVE  \/ k \in DOMAIN sq /\ Append(sq, x)[k] = sq[k]
           \/ k = Len(sq) + 1 /\ Append(sq, x)[k] = x
OBVIOUS

\* The initial states have all of it.
LEMMA SafeInit == Init => Safe
<1> SUFFICES ASSUME Init PROVE Safe
  OBVIOUS
<1>1. TypeOK
  BY TypeInit
<1> QED
  BY <1>1, SessionAssumption
  DEF Init, Safe, CounterSaved, SentCounted, WatermarksCounted, AcceptedSaved,
      AcceptedInOrder, DefaultState

\* A step that changes no counter, watermark or file keeps it.
LEMMA SafeKept ==
    ASSUME Safe, TypeOK', UNCHANGED <<disk, forgot, sent, accepted>>,
           \A q \in Processes : mem'[q].out = mem[q].out /\ mem'[q].last = mem[q].last
    PROVE  Safe'
BY DEF Safe, CounterSaved, SentCounted, WatermarksCounted, AcceptedSaved, AcceptedInOrder

\* A process that starts has what was saved, or has forgotten.
LEMMA SafeRestart ==
    ASSUME Safe, TypeOK', NEW p \in Processes, Restart(p)
    PROVE  Safe'
<1> USE SessionAssumption DEF Safe
<1>0. /\ UNCHANGED <<disk, sent, accepted>>
      /\ \A v \in Validators : v \notin forgot' => v \notin forgot
      /\ Identity[p] \notin forgot' => Identity[p] \notin gone
      /\ \A q \in Processes : mem'[q] = IF q = p THEN Loaded(Identity[p]) ELSE mem[q]
  BY DEF Restart, TypeOK
<1>1. CounterSaved'
  BY <1>0 DEF CounterSaved, Loaded
<1>2. SentCounted'
  BY <1>0, SentType DEF SentCounted
<1>3. WatermarksCounted'
  <2>1. \A v, w \in Validators : disk[v].last[w] \in Nat /\ disk[w].out \in Nat
    BY Numbers
  <2>2. ASSUME NEW q \in Processes, Identity[q] \notin forgot', NEW w \in Validators
        PROVE  disk[Identity[q]].last[w] <= mem'[q].last[w]
    <3>1. CASE q = p
      BY <1>0, <2>1, <2>2, <3>1 DEF Loaded
    <3>2. CASE q # p
      BY <1>0, <2>2, <3>2 DEF WatermarksCounted
    <3> QED  BY <3>1, <3>2
  <2>3. ASSUME NEW q \in Processes, NEW w \in Validators, w \notin forgot'
        PROVE  mem'[q].last[w] <= disk[w].out
    <3>1. CASE q = p
      BY <1>0, <2>1, <2>3, <3>1 DEF WatermarksCounted, Loaded, DefaultState
    <3>2. CASE q # p
      BY <1>0, <2>3, <3>2 DEF WatermarksCounted
    <3> QED  BY <3>1, <3>2
  <2> QED  BY <1>0, <2>2, <2>3 DEF WatermarksCounted
<1>4. AcceptedSaved'
  BY <1>0 DEF AcceptedSaved, AcceptedInOrder
<1> QED  BY <1>1, <1>2, <1>3, <1>4

\* The new envelope is above everything its validator has signed.
LEMMA SafeSign ==
    ASSUME Safe, TypeOK', OneProcess, NEW p \in Processes, Sign(p), ~UNCHANGED sent
    PROVE  Safe'
<1> USE SessionAssumption DEF Safe
<1> DEFINE v == Identity[p]
           n == Len(sent) + 1
<1>0. /\ v \in Validators
      /\ \A q \in Processes : mem[q] \in State
      /\ \A w \in Validators : disk[w] \in State
      /\ \A i \in DOMAIN sent : sent[i] \in Envelope
      /\ Len(sent) \in Nat /\ DOMAIN sent = 1..Len(sent)
  BY DEF TypeOK
<1>1. /\ DOMAIN sent' = 1..n
      /\ \A i \in DOMAIN sent : sent'[i] = sent[i]
      /\ sent'[n] = [from |-> v, sequence |-> mem[p].out + 1]
  BY <1>0 DEF Sign, Signed, Raised, TypeOK
<1>2. /\ mem' = [mem EXCEPT ![p].out = mem[p].out + 1] /\ disk' = [disk EXCEPT ![v] = mem'[p]]
      /\ forgot' = forgot
  BY DEF Sign, Save, Raised
<1>3. mem[p].out \in Nat /\ (v \notin forgot => mem[p].out = disk[v].out)
  BY <1>0 DEF CounterSaved, State
<1>4. /\ \A w \in Validators : disk'[w].out = IF w = v THEN mem[p].out + 1 ELSE disk[w].out
      /\ \A w \in Validators : disk'[w].last = IF w = v THEN mem[p].last ELSE disk[w].last
      /\ \A q \in Processes : mem'[q].last = mem[q].last
      /\ \A q \in Processes : mem'[q].out = IF q = p THEN mem[q].out + 1 ELSE mem[q].out
  BY <1>0, <1>2, <1>3 DEF TypeOK, State
<1>5. CounterSaved'
  BY <1>2, <1>4, OneProcess DEF CounterSaved, OneProcess
<1>6. SentCounted'
  <2>1. ASSUME NEW i \in DOMAIN sent', sent'[i].from \notin forgot
        PROVE  sent'[i].sequence <= disk'[sent'[i].from].out
    <3>1. CASE i = n
      BY <1>0, <1>1, <1>3, <1>4, <3>1
    <3>2. CASE i \in DOMAIN sent
      <4>1. sent[i].from \in Validators /\ sent[i].sequence \in Nat /\ sent'[i] = sent[i]
        BY <1>0, <1>1, <3>2 DEF Envelope
      <4>2. sent[i].sequence <= disk[sent[i].from].out /\ disk[sent[i].from].out \in Nat
        BY <1>0, <2>1, <3>2, <4>1 DEF SentCounted, State
      <4> QED  BY <1>3, <1>4, <2>1, <4>1, <4>2
    <3> QED  BY <1>0, <1>1, <3>1, <3>2
  <2>2. ASSUME NEW i \in DOMAIN sent', NEW j \in DOMAIN sent', i < j, sent'[i].from = sent'[j].from,
               sent'[i].from \notin forgot
        PROVE  sent'[i].sequence < sent'[j].sequence
    <3>1. i \in DOMAIN sent
      BY <1>0, <1>1, <2>2
    <3>2. CASE j = n
      BY <1>0, <1>1, <1>3, <2>2, <3>1, <3>2 DEF SentCounted, Envelope
    <3>3. CASE j \in DOMAIN sent
      BY <1>1, <2>2, <3>1, <3>3 DEF SentCounted
    <3> QED  BY <1>0, <1>1, <2>2, <3>2, <3>3
  <2> QED  BY <1>2, <2>1, <2>2 DEF SentCounted
<1>7. WatermarksCounted'
  <2>1. /\ \A w, u \in Validators : disk[w].out \in Nat /\ disk[w].last[u] \in Nat
        /\ \A q \in Processes, u \in Validators : mem[q].last[u] \in Nat
    BY Numbers
  <2>2. \A w \in Validators :
           w \notin forgot => disk[w].out <= disk'[w].out /\ disk'[w].out \in Nat
    BY <1>3, <1>4, <2>1
  <2>3. ASSUME NEW w \in Validators, NEW u \in Validators, u \notin forgot
        PROVE  disk'[w].last[u] <= disk'[u].out
    <3>1. disk'[w].last[u] <= disk[u].out /\ disk'[w].last[u] \in Nat
      BY <1>4, <2>1, <2>3 DEF WatermarksCounted
    <3> QED  BY <3>1, <2>1, <2>2, <2>3
  <2>4. ASSUME NEW q \in Processes, NEW u \in Validators, u \notin forgot
        PROVE  mem'[q].last[u] <= disk'[u].out
    <3>1. mem[q].last[u] <= disk'[u].out
      BY <2>1, <2>2, <2>4 DEF WatermarksCounted
    <3> QED  BY <1>4, <3>1
  <2>5. ASSUME NEW q \in Processes, Identity[q] \notin forgot, NEW u \in Validators
        PROVE  disk'[Identity[q]].last[u] <= mem'[q].last[u]
    <3>1. CASE q = p
      BY <1>4, <2>1, <3>1
    <3>2. CASE q # p
      BY <1>4, <2>5, <3>2 DEF WatermarksCounted, OneProcess
    <3> QED  BY <3>1, <3>2
  <2> QED  BY <1>2, <2>3, <2>4, <2>5 DEF WatermarksCounted
<1>8. AcceptedSaved'
  <2>1. ASSUME NEW w \in Validators, NEW k \in DOMAIN accepted[w]
        PROVE  /\ accepted[w][k] \in DOMAIN sent
               /\ sent'[accepted[w][k]] = sent[accepted[w][k]]
    BY <1>1 DEF AcceptedSaved
  <2>2. ASSUME NEW w \in Validators, w \notin forgot, NEW k \in DOMAIN accepted[w]
        PROVE  sent[accepted[w][k]].sequence <= disk'[w].last[sent[accepted[w][k]].from]
    <3> DEFINE e == sent[accepted[w][k]]
    <3>1. e.from \in Validators /\ e.sequence \in Nat /\ e.sequence <= disk[w].last[e.from]
      BY <1>0, <2>1, <2>2 DEF AcceptedSaved, Envelope
    <3> HIDE DEF e
    <3>2. disk[w].last[e.from] \in Nat /\ disk'[w].last[e.from] \in Nat
      BY <1>4, <3>1, Numbers
    <3>3. disk[w].last[e.from] <= disk'[w].last[e.from]
      BY <1>4, <2>2, <3>1, <3>2 DEF WatermarksCounted
    <3>4. e.sequence <= disk'[w].last[e.from]
      BY <3>1, <3>2, <3>3
    <3> QED  BY <3>4 DEF e
  <2>3. accepted' = accepted /\ DOMAIN sent \subseteq DOMAIN sent'
    BY <1>0, <1>1 DEF Sign
  <2>4. AcceptedInOrder'
    BY <1>2, <2>1, <2>3 DEF AcceptedSaved, AcceptedInOrder
  <2> QED  BY <1>2, <2>1, <2>2, <2>3, <2>4 DEF AcceptedSaved
<1> QED  BY <1>5, <1>6, <1>7, <1>8

\* What is accepted is above the watermark, which covers all of that sender
\* accepted before.
LEMMA SafeReceive ==
    ASSUME Safe, TypeOK', OneProcess, NEW p \in Processes, NEW i \in DOMAIN sent, Receive(p, i)
    PROVE  Safe'
<1> USE SessionAssumption DEF Safe
<1> DEFINE v == Identity[p]
           f == sent[i].from
           s == sent[i].sequence
<1>0. /\ v \in Validators /\ f \in Validators /\ s \in Nat
      /\ \A w, u \in Validators : disk[w].out \in Nat /\ disk[w].last[u] \in Nat
      /\ \A q \in Processes, u \in Validators : mem[q].out \in Nat /\ mem[q].last[u] \in Nat
      /\ f \notin forgot => s <= disk[f].out
  <2>1. sent[i] \in Envelope
    BY DEF TypeOK
  <2>2. v \in Validators /\ f \in Validators /\ s \in Nat
    BY <2>1 DEF Envelope
  <2> HIDE DEF f, s
  <2>3. f \notin forgot => s <= disk[f].out
    BY DEF SentCounted, f, s
  <2> QED  BY <2>2, <2>3, Numbers
<1>1. PICK kept \in Pruned(p) :
         NotReplayed(p, i, kept) /\ mem' = [mem EXCEPT ![p] = Watermarked(p, i, kept)]
  BY DEF Receive
<1>2. s > mem[p].last[f]
  BY <1>1 DEF NotReplayed
<1>3. /\ \A q \in Processes : mem'[q].out = mem[q].out
      /\ \A q \in Processes, u \in Validators :
            mem'[q].last[u] = IF q = p /\ u = f THEN s ELSE mem[q].last[u]
  BY <1>1 DEF Watermarked, TypeOK, State
<1> HIDE DEF f, s
<1>4. \A q \in Processes, u \in Validators :
         /\ mem[q].last[u] <= mem'[q].last[u]
         /\ u \notin forgot => mem'[q].last[u] <= disk[u].out
  BY <1>0, <1>2, <1>3 DEF WatermarksCounted
<1>5. ASSUME UNCHANGED <<disk, forgot, accepted>>
      PROVE  Safe'
  <2>1. CounterSaved' /\ SentCounted' /\ AcceptedSaved'
    BY <1>3, <1>5 DEF CounterSaved, SentCounted, AcceptedSaved, AcceptedInOrder, Receive
  <2>2. WatermarksCounted'
    <3>1. ASSUME NEW q \in Processes, NEW u \in Validators, Identity[q] \notin forgot
          PROVE  disk[Identity[q]].last[u] <= mem'[q].last[u]
      <4>1. disk[Identity[q]].last[u] <= mem[q].last[u] /\ mem[q].last[u] <= mem'[q].last[u]
        BY <1>4, <3>1 DEF WatermarksCounted
      <4> QED  BY <1>0, <1>3, <4>1
    <3> QED  BY <1>4, <1>5, <3>1 DEF WatermarksCounted
  <2> QED  BY <2>1, <2>2
<1>6. ASSUME Save(p), accepted' = [accepted EXCEPT ![v] = Append(@, i)]
      PROVE  Safe'
  <2>1. \A w \in Validators : disk'[w] = IF w = v THEN mem'[p] ELSE disk[w]
    BY <1>6 DEF Save, TypeOK
  <2>2. sent' = sent /\ forgot' = forgot
    BY <1>6 DEF Receive, Save
  <2>3. CounterSaved' /\ \A w \in Validators \ forgot : disk'[w].out = disk[w].out
    BY <1>0, <1>3, <2>1, <2>2 DEF CounterSaved, OneProcess
  <2>4. SentCounted'
    <3>1. \A k \in DOMAIN sent : sent[k].from \in Validators
      BY SentType
    <3> QED  BY <2>2, <2>3, <3>1 DEF SentCounted
  <2>5. WatermarksCounted'
    <3>1. ASSUME NEW w \in Validators, NEW u \in Validators, u \notin forgot
          PROVE  disk'[w].last[u] <= disk'[u].out
      BY <1>4, <2>1, <2>3, <3>1 DEF WatermarksCounted
    <3>2. ASSUME NEW q \in Processes, NEW u \in Validators, Identity[q] \notin forgot
          PROVE  disk'[Identity[q]].last[u] <= mem'[q].last[u]
      <4>1. CASE q = p
        BY <1>0, <1>3, <2>1, <4>1
      <4>2. CASE q # p
        BY <1>3, <2>1, <3>2, <4>2 DEF WatermarksCounted, OneProcess
      <4> QED  BY <4>1, <4>2
    <3> QED  BY <1>4, <2>2, <2>3, <3>1, <3>2 DEF WatermarksCounted
  <2>6. \A w, u \in Validators :
           /\ w \notin forgot => disk[w].last[u] <= disk'[w].last[u]
           /\ disk'[w].last[u] \in Nat
    <3>1. ASSUME NEW u \in Validators, v \notin forgot
          PROVE  disk[v].last[u] <= mem'[p].last[u]
      <4>1. disk[v].last[u] <= mem[p].last[u] /\ mem[p].last[u] <= mem'[p].last[u]
        BY <1>4, <3>1 DEF WatermarksCounted
      <4> QED  BY <1>0, <1>3, <4>1
    <3> QED  BY <1>0, <1>3, <2>1, <3>1
  <2>7. AcceptedSaved'
    <3>1. \A w \in Validators :
             accepted'[w] = IF w = v THEN Append(accepted[w], i) ELSE accepted[w]
      BY <1>6 DEF TypeOK
    <3>2. ASSUME NEW w \in Validators, NEW k \in DOMAIN accepted[w]
          PROVE  /\ accepted[w][k] \in DOMAIN sent
                 /\ sent[accepted[w][k]] \in Envelope
                 /\ w \notin forgot =>
                       /\ sent[accepted[w][k]].sequence <= disk[w].last[sent[accepted[w][k]].from]
                       /\ sent[accepted[w][k]].sequence <= disk'[w].last[sent[accepted[w][k]].from]
      <4> DEFINE e == sent[accepted[w][k]]
      <4>1. accepted[w][k] \in DOMAIN sent /\ e \in Envelope
        BY DEF AcceptedSaved, TypeOK
      <4>2. /\ e.from \in Validators /\ e.sequence \in Nat
            /\ w \notin forgot => e.sequence <= disk[w].last[e.from]
        BY <4>1 DEF AcceptedSaved, Envelope
      <4> HIDE DEF e
      <4>3. w \notin forgot => e.sequence <= disk'[w].last[e.from]
        BY <1>0, <2>6, <4>2
      <4> QED  BY <4>1, <4>2, <4>3 DEF e
    <3>3. disk'[v].last[f] = s /\ (v \notin forgot => disk[v].last[f] < s)
      <4>1. v \notin forgot => disk[v].last[f] <= mem[p].last[f]
        BY <1>0 DEF WatermarksCounted
      <4> QED  BY <1>0, <1>2, <1>3, <2>1, <4>1
    <3>4. ASSUME NEW w \in Validators, NEW k \in DOMAIN accepted'[w]
          PROVE  \/ k \in DOMAIN accepted[w] /\ accepted'[w][k] = accepted[w][k]
                 \/ w = v /\ k = Len(accepted[v]) + 1 /\ accepted'[w][k] = i
      <4>1. accepted[w] \in Seq(Nat) /\ i \in Nat
        BY DEF TypeOK
      <4>2. CASE w = v
        <5>1. k \in DOMAIN Append(accepted[w], i) /\ accepted'[w][k] = Append(accepted[w], i)[k]
          BY <3>1, <3>4, <4>2
        <5> HIDE DEF v
        <5> QED  BY <4>1, <4>2, <5>1, Appended
      <4>3. CASE w # v
        BY <3>1, <3>4, <4>3
      <4> QED  BY <4>2, <4>3
    <3>5. ASSUME NEW w \in Validators, NEW k \in DOMAIN accepted'[w]
          PROVE  /\ accepted'[w][k] \in DOMAIN sent
                 /\ w \notin forgot =>
                       sent[accepted'[w][k]].sequence <= disk'[w].last[sent[accepted'[w][k]].from]
      <4>1. CASE k \in DOMAIN accepted[w] /\ accepted'[w][k] = accepted[w][k]
        BY <3>2, <4>1
      <4>2. CASE w = v /\ accepted'[w][k] = i
        <5>1. s <= disk'[v].last[f]
          BY <1>0, <3>3
        <5> QED  BY <4>2, <5>1 DEF f, s
      <4> QED  BY <3>4, <4>1, <4>2
    <3>6. ASSUME NEW w \in Validators, w \notin forgot,
                 NEW j \in DOMAIN accepted'[w], NEW k \in DOMAIN accepted'[w], j < k,
                 sent[accepted'[w][j]].from = sent[accepted'[w][k]].from
          PROVE  sent[accepted'[w][j]].sequence < sent[accepted'[w][k]].sequence
      <4>1. accepted[w] \in Seq(Nat) /\ accepted[v] \in Seq(Nat)
        BY <1>0 DEF TypeOK
      <4>2. j \in DOMAIN accepted[w] /\ accepted'[w][j] = accepted[w][j]
        <5>1. CASE w = v
          <6>1. accepted'[w] = Append(accepted[w], i)
            BY <3>1, <5>1
          <6>2. DOMAIN accepted'[w] = 1 .. Len(accepted[w]) + 1
            BY <4>1, <6>1
          <6>3. j # Len(accepted[w]) + 1
            BY <3>6, <4>1, <6>2
          <6> QED  BY <3>4, <5>1, <6>3
        <5>2. CASE w # v
          BY <3>1, <5>2
        <5> QED  BY <5>1, <5>2
      <4>3. CASE k \in DOMAIN accepted[w] /\ accepted'[w][k] = accepted[w][k]
        BY <3>6, <4>2, <4>3 DEF AcceptedSaved, AcceptedInOrder
      <4>4. CASE w = v /\ accepted'[w][k] = i
        <5>1. sent[accepted[v][j]].sequence <= disk[v].last[f] /\ sent[accepted[v][j]].sequence \in Nat
          BY <3>2, <3>6, <4>2, <4>4 DEF f, Envelope
        <5>2. disk[v].last[f] < s /\ disk[v].last[f] \in Nat
          BY <1>0, <3>3, <3>6, <4>4
        <5>3. sent[accepted'[w][k]].sequence = s /\ accepted'[w][j] = accepted[v][j]
          BY <4>2, <4>4 DEF s
        <5> QED  BY <1>0, <5>1, <5>2, <5>3
      <4> QED  BY <3>4, <4>3, <4>4
    <3>7. AcceptedInOrder'
      BY <2>2, <3>6 DEF AcceptedInOrder
    <3> QED  BY <2>2, <3>5, <3>7 DEF AcceptedSaved
  <2> QED  BY <2>3, <2>4, <2>5, <2>7
<1> QED  BY <1>5, <1>6 DEF Receive, SaveFails, files

\* All of it holds in every step when no state file is shared.
LEMMA SafeStep == OneProcess /\ Safe /\ [Next]_vars => Safe'
<1> SUFFICES ASSUME OneProcess, Safe, [Next]_vars PROVE Safe'
  OBVIOUS
<1>0. TypeOK'
  BY TypeStep DEF Safe
<1>1. ASSUME NEW p \in Processes, NEW i \in DOMAIN sent, Refuse(p, i) PROVE Safe'
  <2>1. /\ \A q \in Processes : mem'[q].out = mem[q].out /\ mem'[q].last = mem[q].last
        /\ UNCHANGED <<disk, forgot, sent, accepted>>
    BY <1>1 DEF Refuse, files, Safe, TypeOK, State
  <2> QED  BY <1>0, <2>1, SafeKept
<1>2. ASSUME NEW p \in Processes, Sign(p) PROVE Safe'
  <2>1. CASE UNCHANGED sent
    <3>1. UNCHANGED <<disk, forgot, mem, sent, accepted>>
      BY <1>2, <2>1 DEF Sign, Signed, SaveFails, files, Safe, TypeOK
    <3> QED  BY <1>0, <3>1, SafeKept
  <2> QED  BY <1>0, <1>2, <2>1, SafeSign
<1>3. CASE UNCHANGED vars
  BY <1>0, <1>3, SafeKept DEF vars, files
<1> QED
  BY <1>0, <1>1, <1>2, <1>3, SafeRestart, SafeReceive DEF Next

\* What the properties ask.
LEMMA SafeSuffices == Safe => SequenceUnique /\ AcceptedInOrder /\ NeverLockedOut
<1> SUFFICES ASSUME Safe PROVE SequenceUnique /\ AcceptedInOrder /\ NeverLockedOut
  OBVIOUS
<1>1. SequenceUnique
  <2>1. \A i \in DOMAIN sent : i \in Nat /\ sent[i].sequence \in Nat
    BY SentType DEF Safe
  <2>2. ASSUME NEW i \in DOMAIN sent, NEW j \in DOMAIN sent,
               sent[i].from = sent[j].from, sent[i].sequence = sent[j].sequence,
               sent[i].from \notin forgot
        PROVE  i = j
    <3>1. ~(i < j) /\ ~(j < i)
      BY <2>1, <2>2 DEF Safe, SentCounted
    <3> QED  BY <2>1, <3>1
  <2> QED  BY <2>2 DEF SequenceUnique
<1>2. NeverLockedOut
  BY SessionAssumption DEF Safe, CounterSaved, WatermarksCounted, NeverLockedOut
<1> QED  BY <1>1, <1>2 DEF Safe, AcceptedSaved

\* No sequence number is signed twice by a validator whose state file one
\* process uses, whatever restarts and failed saves, until a process starts
\* without the file that a save had removed (nextSignedEnvelope).
THEOREM SequencesNeverReused == ASSUME OneProcess PROVE Spec => []SequenceUnique
<1>1. Safe /\ [Next]_vars => Safe'
  BY OneProcess, SafeStep
<1> QED  BY <1>1, SafeInit, SafeSuffices, PTL DEF Spec

\* No envelope is accepted twice or after a later one of its sender, whatever
\* is pruned and restarted, by a validator that has not started without its
\* file (acceptInboundEnvelope, applyPeerReplayProtection).
THEOREM NothingReplayed == ASSUME OneProcess PROVE Spec => []AcceptedInOrder
<1>1. Safe /\ [Next]_vars => Safe'
  BY OneProcess, SafeStep
<1> QED  BY <1>1, SafeInit, SafeSuffices, PTL DEF Spec

\* No watermark is ahead of its sender, unless that one has started without
\* its file (the save before the envelope leaves, in nextSignedEnvelope).
THEOREM SendersStayAcceptable == ASSUME OneProcess PROVE Spec => []NeverLockedOut
<1>1. Safe /\ [Next]_vars => Safe'
  BY OneProcess, SafeStep
<1> QED  BY <1>1, SafeInit, SafeSuffices, PTL DEF Spec

-----------------------------------------------------------------------------
\* What is accepted was signed after everything accepted of its sender before.
LEMMA AcceptedLater ==
    ASSUME Safe, NEW p \in Processes, NEW i \in DOMAIN sent, Receive(p, i),
           NEW k \in DOMAIN accepted[Identity[p]],
           sent[accepted[Identity[p]][k]].from = sent[i].from,
           {Identity[p], sent[i].from} \cap forgot = {}
    PROVE  accepted[Identity[p]][k] < i
<1> DEFINE v == Identity[p]
           n == accepted[v][k]
           f == sent[i].from
<1>1. /\ v \in Validators /\ n \in DOMAIN sent
      /\ sent[n].sequence <= disk[v].last[f]
  BY SessionAssumption DEF Safe, AcceptedSaved
<1>2. sent[i].sequence > mem[p].last[f]
  BY DEF Receive, NotReplayed
<1>3. /\ i \in Nat /\ n \in Nat /\ f \in Validators
      /\ sent[i].sequence \in Nat /\ sent[n].sequence \in Nat
  BY <1>1, SentType DEF Safe
<1>4. /\ disk[v].last[f] <= mem[p].last[f]
      /\ disk[v].last[f] \in Nat /\ mem[p].last[f] \in Nat
  BY <1>1, <1>3, Numbers DEF Safe, WatermarksCounted
<1> HIDE DEF f
<1>5. sent[n].sequence < sent[i].sequence
  BY <1>1, <1>2, <1>3, <1>4
<1>6. ~ (i < n) /\ i # n
  BY <1>1, <1>3, <1>5 DEF Safe, SentCounted
<1> QED  BY <1>3, <1>6

\* Sequence numbers and saved watermarks, for any network, restarts and failed
\* saves, deliver in order and at most once between validators neither of
\* which has started without its file; on a build whose saves replace the file
\* in one step no validator ever does, and that is for all of them
\* (peer_session.go seen from the handlers behind it).
THEOREM Refinement == ASSUME OneProcess PROVE Spec => DeliversInOrder
<1> DEFINE posted == [i \in DOMAIN sent |-> sent[i].from]
<1>1. Init => Delivery!Init
  BY DEF Init, Delivery!Init
<1>2. Safe /\ [Next]_vars => [Delivery!Next]_<<posted, accepted, forgot>>
  <2> SUFFICES ASSUME Safe, [Next]_vars
               PROVE  Delivery!Next \/ UNCHANGED <<posted, accepted, forgot>>
    OBVIOUS
  <2>1. ASSUME NEW p \in Processes, Sign(p), ~UNCHANGED sent PROVE Delivery!Next
    <3>1. /\ sent \in Seq(Envelope) /\ sent' = Append(sent, Signed(p))
          /\ UNCHANGED <<accepted, forgot>>
      BY <2>1 DEF Sign, Save, Safe, TypeOK
    <3>2. posted' = Append(posted, Identity[p])
      <4>1. /\ Len(sent) \in Nat /\ DOMAIN sent = 1 .. Len(sent)
            /\ DOMAIN sent' = 1 .. Len(sent) + 1
            /\ sent'[Len(sent) + 1].from = Identity[p]
            /\ \A i \in 1 .. Len(sent) : sent'[i] = sent[i]
        BY <3>1 DEF Signed
      <4>2. posted \in Seq(Validators) /\ Len(posted) = Len(sent)
        BY <3>1, <4>1, SentType DEF Safe
      <4>3. posted' = [i \in 1 .. Len(sent) + 1 |-> IF i = Len(sent) + 1 THEN Identity[p] ELSE posted[i]]
        BY <4>1
      <4> HIDE DEF posted
      <4> QED  BY <4>1, <4>2, <4>3
    <3>3. Identity[p] \in Validators
      BY SessionAssumption
    <3> QED  BY <3>1, <3>2, <3>3 DEF Delivery!Next, Delivery!Post
  <2>2. ASSUME NEW p \in Processes, NEW i \in DOMAIN sent, Receive(p, i)
        PROVE  Delivery!Next \/ UNCHANGED <<posted, accepted, forgot>>
    <3>1. UNCHANGED <<sent, forgot>>
      BY <2>2 DEF Receive, Save, SaveFails, files
    <3>2. CASE accepted' = [accepted EXCEPT ![Identity[p]] = Append(@, i)]
      <4>1. Identity[p] \in Validators
        BY SessionAssumption
      <4>2. \A k \in DOMAIN accepted[Identity[p]] :
               /\ accepted[Identity[p]][k] \in DOMAIN sent
               /\ posted[accepted[Identity[p]][k]] = posted[i]
                  /\ {Identity[p], posted[i]} \cap forgot = {} => accepted[Identity[p]][k] < i
        BY <2>2, <4>1, AcceptedLater DEF Safe, AcceptedSaved
      <4>3. Delivery!Deliver(Identity[p], i)
        BY <3>1, <3>2, <4>2 DEF Delivery!Deliver
      <4> QED  BY <4>1, <4>3 DEF Delivery!Next
    <3> QED  BY <2>2, <3>1, <3>2 DEF Receive
  <2>3. ASSUME NEW p \in Processes, Restart(p)
        PROVE  Delivery!Next \/ UNCHANGED <<posted, accepted, forgot>>
    <3>1. UNCHANGED <<sent, accepted>> /\ forgot' = forgot \cup ({Identity[p]} \cap gone)
      BY <2>3 DEF Restart
    <3>2. CASE Identity[p] \in gone
      <4>1. Identity[p] \in Removed /\ Identity[p] \in Validators
        BY <3>2, SessionAssumption DEF Safe, TypeOK
      <4>2. Delivery!Forget(Identity[p])
        BY <3>1, <3>2, <4>1 DEF Delivery!Forget
      <4> QED  BY <4>1, <4>2 DEF Delivery!Next
    <3>3. CASE Identity[p] \notin gone
      BY <3>1, <3>3
    <3> QED  BY <3>2, <3>3
  <2>4. CASE UNCHANGED <<sent, accepted, forgot>>
    BY <2>4
  <2>5. \A p \in Processes : Sign(p) /\ UNCHANGED sent => UNCHANGED <<accepted, forgot>>
    BY DEF Sign, Save, SaveFails, files
  <2> QED  BY <2>1, <2>2, <2>3, <2>4, <2>5 DEF Next, vars, files, Refuse
<1>3. Safe /\ [Next]_vars => Safe'
  BY OneProcess, SafeStep
<1> QED  BY <1>1, <1>2, <1>3, SafeInit, PTL DEF Spec, DeliversInOrder, Delivery!Spec
=============================================================================
