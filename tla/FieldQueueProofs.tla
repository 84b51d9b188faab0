-------------------------- MODULE FieldQueueProofs --------------------------
(***************************************************************************)
(* Proofs about FieldQueue, for any number of pages, requests, files and   *)
(* users, however often another one signs in: no inspection is lost, none  *)
(* is shown as synchronised too early, and the server has each record and  *)
(* each file of a user once.  What makes them inductive: an inspection a   *)
(* page works on has its files listed for good, and what a page has still  *)
(* to send is all that the server may lack of it in the name of the user.  *)
(***************************************************************************)
EXTENDS FieldQueue, TLAPS

\* A page that works on an inspection works on one that exists.
Working ==
    \A p \in Pages :
        pc[p] \in {"queued", "post", "upload", "clean", "failed", "reput"} =>
            /\ item[p] \in Requests /\ content[item[p]] # {}
            /\ pc[p] \in {"post", "upload"} => by[p] \in Users

\* So does one that is queued or listed by a page.
Listed ==
    /\ \A r \in queue : content[r] # {}
    /\ \A p \in Pages : \A r \in todo[p] : content[r] # {}

\* Only the page of the asset submits, and only once per draft.
DraftKept ==
    /\ \A p \in Pages : pc[p] = "queued" => p = Editor /\ ~draft.submitted
    /\ draft.request # None => draft.queued \/ draft.submitted

\* The server has what a page that uploads or cleans up has sent.
Progress ==
    \A p \in Pages :
        /\ pc[p] = "upload" =>
              /\ records[item[p]][by[p]] > 0
              /\ \A s \in content[item[p]] \ left[p] : evidence[item[p]][by[p]][s] > 0
        /\ pc[p] = "clean" => Complete(item[p])

Shown == draft.submitted => draft.request \in Requests /\ Complete(draft.request)

IInv ==
    /\ TypeOK
    /\ Working
    /\ Listed
    /\ DraftKept
    /\ Progress
    /\ NeverLost
    /\ Shown
    /\ OnceOnServer

\* The initial states have all of it.
LEMMA InitInv == Init => IInv
<1> SUFFICES ASSUME Init PROVE IInv
  OBVIOUS
<1>1. TypeOK
  BY FieldAssumption DEF Init, TypeOK, Draft, Steps, Message, None, Requests
<1> QED
  BY <1>1 DEF Init, IInv, Working, Listed, DraftKept, Progress, NeverLost, Shown, OnceOnServer

-----------------------------------------------------------------------------
\* A table stays one when a row is replaced.
LEMMA RowReplaced ==
    ASSUME NEW R, NEW S, NEW f \in [R -> S], NEW q \in R, NEW x \in S
    PROVE  [f EXCEPT ![q] = x] \in [R -> S]
OBVIOUS

\* One entry of a table of tables is replaced.
LEMMA EntryReplaced ==
    ASSUME NEW R, NEW S, NEW T, NEW f \in [R -> [S -> T]], NEW q \in R, NEW u \in S, NEW x \in T
    PROVE  /\ [f EXCEPT ![q][u] = x] \in [R -> [S -> T]]
           /\ \A p \in R, v \in S :
                 [f EXCEPT ![q][u] = x][p][v] = IF p = q /\ v = u THEN x ELSE f[p][v]
<1> DEFINE row == [f[q] EXCEPT ![u] = x]
<1>1. row \in [S -> T] /\ \A v \in S : row[v] = IF v = u THEN x ELSE f[q][v]
  OBVIOUS
<1>2. [f EXCEPT ![q][u] = x] = [f EXCEPT ![q] = row]
  OBVIOUS
<1> HIDE DEF row
<1> QED  BY <1>1, <1>2, RowReplaced

\* What the server has it keeps: both routes only add, at most one of each.
LEMMA Handled ==
    ASSUME TypeOK, OnceOnServer, NEW m \in Message, Handle(m)
    PROVE  /\ records' \in [Requests -> [Users -> Nat]]
           /\ evidence' \in [Requests -> [Users -> [Files -> Nat]]]
           /\ \A r \in Requests, u \in Users : records[r][u] > 0 => records'[r][u] > 0
           /\ \A r \in Requests, u \in Users, s \in Files :
                 evidence[r][u][s] > 0 => evidence'[r][u][s] > 0
           /\ OnceOnServer'
           /\ m.kind = "lifecycle" /\ Grants(m) => records'[m.request][m.user] > 0
           /\ m.kind = "evidence" /\ Grants(m) => evidence'[m.request][m.user][m.file] > 0
<1> DEFINE q == m.request
           v == m.user
<1>1. q \in Requests /\ v \in Users /\ (m.kind = "evidence" => m.file \in Files)
  BY DEF Message
<1>2. /\ records \in [Requests -> [Users -> Nat]]
      /\ evidence \in [Requests -> [Users -> [Files -> Nat]]]
      /\ \A r \in Requests, u \in Users : records[r][u] \in Nat /\ records[r][u] <= 1
      /\ \A r \in Requests, u \in Users, s \in Files :
            evidence[r][u][s] \in Nat /\ evidence[r][u][s] <= 1
  BY DEF TypeOK, OnceOnServer
<1>3. CASE m.kind = "lifecycle" /\ Grants(m)
  <2>1. evidence' = evidence
        /\ records' = IF records[q][v] > 0 THEN records
                      ELSE [records EXCEPT ![q][v] = records[q][v] + 1]
    BY <1>1, <1>2, <1>3 DEF Handle, Recorded
  <2> HIDE DEF q, v
  <2>2. /\ records' \in [Requests -> [Users -> Nat]]
        /\ \A r \in Requests, u \in Users :
              records'[r][u] = IF r = q /\ u = v THEN 1 ELSE records[r][u]
    <3>1. CASE records[q][v] > 0
      BY <1>1, <1>2, <2>1, <3>1
    <3>2. CASE ~(records[q][v] > 0)
      <4>1. records[q][v] + 1 = 1
        BY <1>1, <1>2, <3>2
      <4>2. records' = [records EXCEPT ![q][v] = 1]
        BY <2>1, <3>2, <4>1
      <4> QED  BY <1>1, <1>2, <4>2, EntryReplaced
    <3> QED  BY <3>1, <3>2
  <2>3. /\ \A r \in Requests, u \in Users : records'[r][u] \in Nat /\ records'[r][u] <= 1
        /\ \A r \in Requests, u \in Users : records[r][u] > 0 => records'[r][u] > 0
        /\ records'[q][v] > 0
    <3>1. \A r \in Requests, u \in Users :
             records'[r][u] = 1 \/ records'[r][u] = records[r][u]
      BY <2>2
    <3>2. records'[q][v] = 1
      BY <1>1, <2>2
    <3>3. \A r \in Requests, u \in Users : records[r][u] \in Nat /\ records[r][u] <= 1
      BY <1>2
    <3>4. /\ \A r \in Requests, u \in Users : records'[r][u] \in Nat /\ records'[r][u] <= 1
          /\ \A r \in Requests, u \in Users : records[r][u] > 0 => records'[r][u] > 0
      BY <3>1, <3>3
    <3> QED  BY <3>2, <3>4
  <2> QED  BY <1>2, <1>3, <2>1, <2>2, <2>3 DEF OnceOnServer, q, v
<1>4. CASE ~Grants(m)
  BY <1>2, <1>4 DEF Handle, OnceOnServer
<1>5. CASE m.kind = "evidence" /\ Grants(m)
  <2> DEFINE f == m.file
  <2>1. records' = records
        /\ evidence' = IF evidence[q][v][f] > 0 THEN evidence
                       ELSE [evidence EXCEPT ![q][v][f] = evidence[q][v][f] + 1]
    BY <1>1, <1>2, <1>5 DEF Handle, Stored
  <2>2. f \in Files
    BY <1>1, <1>5
  <2> HIDE DEF q, v, f
  <2>3. /\ evidence' \in [Requests -> [Users -> [Files -> Nat]]]
        /\ \A r \in Requests, u \in Users, s \in Files :
              evidence'[r][u][s] = IF r = q /\ u = v /\ s = f THEN 1 ELSE evidence[r][u][s]
    <3>1. CASE evidence[q][v][f] > 0
      BY <1>1, <1>2, <2>1, <2>2, <3>1
    <3>2. CASE ~(evidence[q][v][f] > 0)
      <4>1. evidence[q][v][f] + 1 = 1
        BY <1>1, <1>2, <2>2, <3>2
      <4> DEFINE row == [evidence[q][v] EXCEPT ![f] = 1]
      <4>2. row \in [Files -> Nat]
            /\ \A s \in Files : row[s] = IF s = f THEN 1 ELSE evidence[q][v][s]
        BY <1>1, <1>2, <2>2
      <4>3. evidence' = [evidence EXCEPT ![q][v] = row]
        BY <1>1, <1>2, <2>1, <3>2, <4>1
      <4> HIDE DEF row
      <4>4. /\ evidence' \in [Requests -> [Users -> [Files -> Nat]]]
            /\ \A r \in Requests, u \in Users :
                  evidence'[r][u] = IF r = q /\ u = v THEN row ELSE evidence[r][u]
        BY <1>1, <1>2, <4>2, <4>3, EntryReplaced
      <4> QED  BY <4>2, <4>4
    <3> QED  BY <3>1, <3>2
  <2>4. /\ \A r \in Requests, u \in Users, s \in Files :
              evidence'[r][u][s] \in Nat /\ evidence'[r][u][s] <= 1
        /\ \A r \in Requests, u \in Users, s \in Files :
              evidence[r][u][s] > 0 => evidence'[r][u][s] > 0
        /\ evidence'[q][v][f] > 0
    <3>1. \A r \in Requests, u \in Users, s \in Files :
             evidence'[r][u][s] = 1 \/ evidence'[r][u][s] = evidence[r][u][s]
      BY <2>3
    <3>2. evidence'[q][v][f] = 1
      BY <1>1, <2>2, <2>3
    <3>3. \A r \in Requests, u \in Users, s \in Files :
             evidence[r][u][s] \in Nat /\ evidence[r][u][s] <= 1
      BY <1>2
    <3>4. \A r \in Requests, u \in Users, s \in Files :
             /\ evidence'[r][u][s] \in Nat /\ evidence'[r][u][s] <= 1
             /\ evidence[r][u][s] > 0 => evidence'[r][u][s] > 0
      BY <3>1, <3>3
    <3> QED  BY <3>2, <3>4
  <2> QED  BY <1>2, <1>5, <2>1, <2>3, <2>4 DEF OnceOnServer, q, v, f
<1> QED  BY <1>3, <1>4, <1>5 DEF Message

\* A complete inspection stays complete while its files are listed for good.
LEMMA StaysComplete ==
    ASSUME TypeOK, NEW r \in Requests, Complete(r), content'[r] = content[r],
           \A u \in Users : records[r][u] > 0 => records'[r][u] > 0,
           \A u \in Users, s \in Files : evidence[r][u][s] > 0 => evidence'[r][u][s] > 0
    PROVE  Complete(r)'
BY DEF Complete, TypeOK

\* Steps that leave the inspections and the server alone.
LEMMA ServerKept ==
    ASSUME UNCHANGED <<content, records, evidence>>
    PROVE  /\ \A q : Complete(q)' <=> Complete(q)
           /\ OnceOnServer' <=> OnceOnServer
BY DEF Complete, OnceOnServer

\* What a page has sent names the inspection it works on.
LEMMA SentType ==
    ASSUME TypeOK, Working, NEW p \in Pages
    PROVE  /\ Sent(p) \subseteq Message
           /\ \A m \in Sent(p) : /\ m.request = item[p] /\ m.user = by[p]
                                 /\ m.kind = "lifecycle" => pc[p] = "post"
                                 /\ m.kind = "evidence" => pc[p] = "upload" /\ m.file \in left[p]
<1>1. left[p] \subseteq Files
  BY DEF TypeOK
<1>2. left[p] # {} => FirstLeft(p) \in left[p]
  BY DEF FirstLeft
<1>3. pc[p] \in {"post", "upload"} => item[p] \in Requests /\ by[p] \in Users
  BY DEF Working
<1> QED  BY <1>1, <1>2, <1>3 DEF Sent, Message

-----------------------------------------------------------------------------
\* Opening and closing a page, and the end of trouble.
LEMMA PagesInv ==
    ASSUME IInv,
           \/ CalmDown \/ SwitchUser
           \/ \E p \in Pages : Open(p) \/ Close(p) \/ NetworkError(p)
    PROVE  IInv'
<1>1. CASE CalmDown \/ SwitchUser
  <2>1. TypeOK'
    <3>1. CASE CalmDown
      BY <1>1, <3>1 DEF CalmDown, IInv, TypeOK, device, session, server, pages
    <3>2. CASE SwitchUser
      BY <1>1, <3>2 DEF SwitchUser, IInv, TypeOK, server, pages
    <3> QED  BY <1>1, <3>1, <3>2
  <2>2. UNCHANGED <<queue, content, draft, records, evidence, pc, todo, item, by, left>>
    BY <1>1 DEF CalmDown, SwitchUser, device, server, pages
  <2> QED
    BY <2>1, <2>2, ServerKept DEF IInv, Working, Listed, DraftKept, Progress, NeverLost, Shown
<1>2. ASSUME NEW p \in Pages, Open(p) PROVE IInv'
  <2>1. TypeOK'
    BY <1>2 DEF Open, At, IInv, TypeOK, Steps, device, session, server
  <2>2. UNCHANGED <<queue, content, draft, records, evidence, todo, item, by, left>>
        /\ pc' = [pc EXCEPT ![p] = "idle"]
    BY <1>2 DEF Open, At, device, server
  <2> QED
    BY <2>1, <2>2, ServerKept DEF IInv, TypeOK, Working, Listed, DraftKept, Progress, NeverLost, Shown
<1>3. ASSUME NEW p \in Pages, Abandon(p) PROVE late' \subseteq Message
  <2>1. Sent(p) \subseteq Message
    BY <1>3, SentType DEF IInv
  <2> QED  BY <1>3, <2>1 DEF Abandon, IInv, TypeOK
<1>4. ASSUME NEW p \in Pages, Close(p) PROVE IInv'
  <2>1. late' \subseteq Message
    BY <1>3, <1>4 DEF Close
  <2>2. TypeOK'
    BY <1>4, <2>1 DEF Close, At, IInv, TypeOK, Steps, None, session, server
  <2>3. /\ UNCHANGED <<queue, content, draft, records, evidence>>
        /\ \A q \in Pages \ {p} : pc'[q] = pc[q] /\ todo'[q] = todo[q] /\ item'[q] = item[q]
                                  /\ by'[q] = by[q] /\ left'[q] = left[q]
        /\ pc'[p] = "closed" /\ todo'[p] = {}
    BY <1>4 DEF Close, At, server, IInv, TypeOK
  <2> QED
    BY <2>2, <2>3, ServerKept DEF IInv, Working, Listed, DraftKept, Progress, NeverLost, Shown
<1>5. ASSUME NEW p \in Pages, NetworkError(p) PROVE IInv'
  <2>1. late' \subseteq Message
    BY <1>3, <1>5 DEF NetworkError
  <2>2. pc[p] \in {"post", "upload"}
    BY <1>5 DEF NetworkError, Sent
  <2>3. TypeOK'
    BY <1>5, <2>1 DEF NetworkError, At, IInv, TypeOK, Steps, None, device, session, server
  <2>4. /\ UNCHANGED <<queue, content, draft, records, evidence, todo, item, left>>
        /\ \A q \in Pages \ {p} : pc'[q] = pc[q] /\ by'[q] = by[q]
        /\ pc'[p] = "failed"
    BY <1>5 DEF NetworkError, At, device, server, IInv, TypeOK
  <2> QED
    BY <2>2, <2>3, <2>4, ServerKept
    DEF IInv, Working, Listed, DraftKept, Progress, NeverLost, Shown
<1> QED  BY <1>1, <1>2, <1>4, <1>5

-----------------------------------------------------------------------------
\* The inspector adds and removes files, submits, and the draft is marked.
LEMMA DraftInv ==
    ASSUME IInv, (\E s \in Files : AddEvidence(s) \/ RemoveEvidence(s)) \/ Submit \/ MarkQueued
    PROVE  IInv'
<1>1. ASSUME NEW s \in Files, AddEvidence(s) \/ RemoveEvidence(s) PROVE IInv'
  <2>1. TypeOK' /\ draft'.queued = draft.queued /\ draft'.submitted = draft.submitted
        /\ draft'.request = draft.request
    BY <1>1 DEF AddEvidence, RemoveEvidence, IInv, TypeOK, Draft, session, server, pages
  <2>2. UNCHANGED <<queue, content, records, evidence, pc, todo, item, by, left>>
    BY <1>1 DEF AddEvidence, RemoveEvidence, server, pages
  <2> QED
    BY <2>1, <2>2, ServerKept DEF IInv, Working, Listed, DraftKept, Progress, NeverLost, Shown
<1>2. ASSUME Submit PROVE IInv'
  <2> USE <1>2, FieldAssumption DEF IInv
  <2>1. PICK r \in RequestOfDraft :
           /\ queue' = queue \cup {r}
           /\ content' = [content EXCEPT ![r] = draft.files]
           /\ item' = [item EXCEPT ![Editor] = r]
    BY DEF Submit
  <2>2. draft.request = None
    BY DEF Submit, DraftKept
  <2>3. r \in Requests /\ content[r] = {}
    BY <2>1, <2>2 DEF RequestOfDraft, Fresh
  <2>4. /\ pc' = [pc EXCEPT ![Editor] = "queued"] /\ pc[Editor] = "idle"
        /\ draft.files # {} /\ draft.files \subseteq Files /\ ~draft.submitted
        /\ held' \subseteq Files
        /\ UNCHANGED <<blobs, draft, late, signed, switches, records, evidence, oversize, open, calm,
                       todo, by, left>>
    BY DEF Submit, At, session, server, TypeOK, Draft
  <2>5. TypeOK'
    BY <2>1, <2>3, <2>4 DEF TypeOK, Steps
  <2>6. /\ content'[r] # {}
        /\ \A q \in Requests : content[q] # {} => content'[q] = content[q]
        /\ \A q \in Requests : content'[q] # {} => q = r \/ content[q] # {}
    BY <2>1, <2>3, <2>4 DEF TypeOK
  <2>7. Working'
    BY <2>1, <2>3, <2>4, <2>6 DEF Working, TypeOK
  <2>8. Listed'
    BY <2>1, <2>4, <2>6 DEF Listed, TypeOK
  <2>9. DraftKept'
    BY <2>2, <2>4 DEF DraftKept, TypeOK
  <2>10. \A q \in Requests : content[q] # {} => (Complete(q)' <=> Complete(q))
    BY <2>4, <2>6 DEF Complete
  <2>11. Progress'
    <3>1. \A p \in Pages : pc'[p] \in {"upload", "clean"} =>
             /\ pc[p] = pc'[p] /\ item'[p] = item[p] /\ item[p] \in Requests
             /\ content[item[p]] # {} /\ content'[item[p]] = content[item[p]]
      BY <2>1, <2>4, <2>6 DEF Working, TypeOK
    <3> QED  BY <2>4, <2>10, <3>1 DEF Progress
  <2>12. NeverLost'
    BY <2>1, <2>4, <2>6, <2>10 DEF NeverLost
  <2>13. Shown' /\ OnceOnServer'
    BY <2>4 DEF Shown, OnceOnServer
  <2> QED  BY <2>5, <2>7, <2>8, <2>9, <2>11, <2>12, <2>13
<1>3. ASSUME MarkQueued PROVE IInv'
  <2> USE <1>3, FieldAssumption DEF IInv
  <2> DEFINE r == item[Editor]
  <2>1. /\ pc[Editor] = "queued" /\ r \in Requests /\ content[r] # {}
        /\ draft' = [draft EXCEPT !.queued = TRUE, !.request = r]
        /\ item' = [item EXCEPT ![Editor] = None]
        /\ \/ pc' = [pc EXCEPT ![Editor] = "next"] /\ todo' = [todo EXCEPT ![Editor] = {r}]
           \/ pc' = [pc EXCEPT ![Editor] = "idle"] /\ UNCHANGED todo
        /\ UNCHANGED <<blobs, queue, content, held, late, signed, switches, records, evidence,
                       oversize, open, calm, by, left>>
    BY DEF MarkQueued, At, session, server, Working
  <2>2. draft' \in Draft /\ draft'.queued /\ draft'.submitted = draft.submitted /\ ~draft.submitted
    BY <2>1 DEF TypeOK, Draft, DraftKept
  <2> HIDE DEF r
  <2>3. TypeOK'
    <3>1. item' \in [Pages -> Requests \cup {None}]
      BY <2>1 DEF TypeOK
    <3>2. todo' \in [Pages -> SUBSET Requests]
      <4>1. todo \in [Pages -> SUBSET Requests]
        BY DEF TypeOK
      <4>2. todo' = [todo EXCEPT ![Editor] = {r}] \/ todo' = todo
        BY <2>1
      <4>3. {r} \in SUBSET Requests
        BY <2>1
      <4> QED  BY <4>1, <4>2, <4>3, RowReplaced
    <3>3. pc' \in [Pages -> Steps]
      BY <2>1 DEF TypeOK, Steps
    <3>4. UNCHANGED <<blobs, queue, content, held, late, signed, switches, records, evidence,
                      oversize, open, calm, by, left>>
      BY <2>1
    <3> QED  BY <2>2, <3>1, <3>2, <3>3, <3>4 DEF TypeOK
  <2>4. Working'
    BY <2>1 DEF Working, TypeOK
  <2>5. Listed'
    <3>1. \A p \in Pages : todo'[p] \subseteq todo[p] \cup {r}
      BY <2>1 DEF TypeOK
    <3> QED  BY <2>1, <3>1 DEF Listed
  <2>6. DraftKept'
    BY <2>1, <2>2 DEF DraftKept, TypeOK
  <2>7. Progress'
    BY <2>1, ServerKept DEF Progress, TypeOK
  <2>8. NeverLost' /\ Shown' /\ OnceOnServer'
    BY <2>1, <2>2, ServerKept DEF NeverLost, Shown
  <2> QED  BY <2>3, <2>4, <2>5, <2>6, <2>7, <2>8
<1> QED  BY <1>1, <1>2, <1>3

-----------------------------------------------------------------------------
\* A page lists the queue, takes an inspection, and notes an error.
LEMMA QueueInv ==
    ASSUME IInv, NEW p \in Pages, SyncAll(p) \/ Take(p) \/ ReadForError(p) \/ PutError(p)
    PROVE  IInv'
<1> USE DEF IInv
<1>1. UNCHANGED <<blobs, content, draft, held, late, signed, switches, records, evidence,
                   oversize, open, calm>>
  BY DEF session, SyncAll, Take, ReadForError, PutError, device, server
<1>2. /\ TypeOK'
      /\ \A r \in queue' : r \in queue \/ (r \in Requests /\ content[r] # {})
      /\ queue \subseteq queue'
      /\ \A q \in Pages \ {p} : pc'[q] = pc[q] /\ todo'[q] = todo[q] /\ item'[q] = item[q] /\ left'[q] = left[q] /\ by'[q] = by[q]
      /\ pc'[p] \in {"next", "idle", "post", "failed", "reput"}
      /\ \A r \in todo'[p] : content[r] # {}
      /\ pc'[p] \in {"post", "failed", "reput"} => item'[p] \in Requests /\ content[item'[p]] # {}
      /\ pc'[p] = "post" => by'[p] \in Users
  <2>1. CASE SyncAll(p)
    <3>1. /\ todo' = [todo EXCEPT ![p] = queue] /\ pc' = [pc EXCEPT ![p] = "next"]
          /\ UNCHANGED <<queue, item, by, left>>
      BY <2>1 DEF SyncAll, At, device
    <3>2. todo' \in [Pages -> SUBSET Requests] /\ pc' \in [Pages -> Steps]
      BY <3>1 DEF TypeOK, Steps
    <3>3. TypeOK'
      BY <1>1, <3>1, <3>2 DEF TypeOK
    <3> QED  BY <1>1, <3>1, <3>3 DEF TypeOK, Listed
  <2>2. CASE Take(p) /\ todo[p] = {}
    BY <1>1, <2>2 DEF Take, At, TypeOK, Steps, device
  <2>3. CASE Take(p) /\ todo[p] # {}
    <3>1. PICK r \in todo[p] :
             /\ todo' = [todo EXCEPT ![p] = @ \ {r}]
             /\ item' = [item EXCEPT ![p] = r]
             /\ \/ pc' = [pc EXCEPT ![p] = "post"] /\ by' = [by EXCEPT ![p] = signed]
                \/ pc' = [pc EXCEPT ![p] = "failed"] /\ UNCHANGED by
      BY <2>3 DEF Take, At
    <3>2. r \in Requests /\ content[r] # {} /\ UNCHANGED <<queue, left>>
      BY <2>3 DEF TypeOK, Listed, Take, device
    <3>3. /\ todo' \in [Pages -> SUBSET Requests] /\ item' \in [Pages -> Requests \cup {None}]
          /\ pc' \in [Pages -> Steps] /\ by' \in [Pages -> Users \cup {None}]
      BY <3>1, <3>2 DEF TypeOK, Steps
    <3>4. TypeOK'
      BY <1>1, <3>2, <3>3 DEF TypeOK
    <3>5. /\ todo'[p] \subseteq todo[p] /\ item'[p] = r
          /\ \/ pc'[p] = "post" /\ by'[p] = signed
             \/ pc'[p] = "failed"
          /\ \A q \in Pages \ {p} : pc'[q] = pc[q] /\ todo'[q] = todo[q] /\ item'[q] = item[q] /\ by'[q] = by[q]
      BY <3>1 DEF TypeOK
    <3>6. signed \in Users /\ \A q \in todo'[p] : content[q] # {}
      BY <3>5 DEF TypeOK, Listed
    <3> QED  BY <3>2, <3>4, <3>5, <3>6
  <2>4. CASE ReadForError(p)
    BY <1>1, <2>4 DEF ReadForError, At, TypeOK, Steps, Listed, Working, device
  <2>5. CASE PutError(p)
    BY <1>1, <2>5 DEF PutError, At, TypeOK, Steps, Listed, Working
  <2> QED  BY <2>1, <2>2, <2>3, <2>4, <2>5
<1>3. Working' /\ Listed'
  BY <1>1, <1>2 DEF Working, Listed
<1>4. DraftKept'
  BY <1>1, <1>2 DEF DraftKept
<1>5. Progress'
  BY <1>1, <1>2, ServerKept DEF Progress
<1>6. NeverLost' /\ Shown' /\ OnceOnServer'
  BY <1>1, <1>2, ServerKept DEF NeverLost, Shown
<1> QED  BY <1>2, <1>3, <1>4, <1>5, <1>6

\* A finished inspection leaves the queue, its files the store, and its draft
\* is shown as synchronised.
LEMMA FinishInv ==
    ASSUME IInv, NEW p \in Pages, Remove(p) \/ Clean(p) \/ Mark(p)
    PROVE  IInv'
<1> USE DEF IInv
<1>1. /\ UNCHANGED <<content, late, signed, switches, records, evidence, oversize, open, calm, todo>>
      /\ pc[p] \in {"upload", "clean"} /\ item[p] \in Requests /\ content[item[p]] # {}
  BY DEF Remove, Clean, Mark, AllSent, session, server, Working
<1>2. Complete(item[p])
  BY <1>1 DEF Remove, Clean, Mark, AllSent, Progress, Complete, Working
<1>3. /\ TypeOK'
      /\ queue' \subseteq queue /\ queue \ queue' \subseteq {item[p]}
      /\ \A q \in Pages \ {p} : pc'[q] = pc[q] /\ item'[q] = item[q] /\ left'[q] = left[q] /\ by'[q] = by[q]
      /\ pc'[p] \in {"next", "clean"}
      /\ pc'[p] = "clean" => item'[p] = item[p]
      /\ draft'.request = draft.request
      /\ \/ draft'.queued = draft.queued /\ draft'.submitted = draft.submitted
         \/ p = Editor /\ draft'.submitted /\ draft.request = item[p]
  <2>1. CASE Remove(p)
    BY <1>1, <2>1 DEF Remove, AllSent, At, TypeOK, Steps, None
  <2>2. CASE Clean(p)
    BY <1>1, <2>2 DEF Clean, TypeOK
  <2>3. CASE Mark(p) /\ UNCHANGED draft
    BY <1>1, <2>3 DEF Mark, At, TypeOK, Steps, None
  <2>4. CASE Mark(p) /\ p = Editor /\ draft.request = item[p]
             /\ draft' = [draft EXCEPT !.queued = FALSE, !.submitted = TRUE]
    BY <1>1, <2>4 DEF Mark, At, TypeOK, Draft, Steps, None
  <2> QED  BY <2>1, <2>2, <2>3, <2>4 DEF Mark
<1>4. Working' /\ Listed'
  BY <1>1, <1>3 DEF Working, Listed
<1>5. DraftKept'
  BY <1>3 DEF DraftKept
<1>6. Progress'
  BY <1>1, <1>2, <1>3, ServerKept DEF Progress
<1>7. NeverLost' /\ Shown' /\ OnceOnServer'
  BY <1>1, <1>2, <1>3, ServerKept DEF NeverLost, Shown
<1> QED  BY <1>3, <1>4, <1>5, <1>6, <1>7

-----------------------------------------------------------------------------
\* The server handles a request, and its answer may reach the page.
LEMMA ServerInv ==
    ASSUME IInv, (\E m \in late : HandleLate(m)) \/ (\E p \in Pages : Answer(p))
    PROVE  IInv'
<1> USE DEF IInv
<1>1. PICK m \in Message : Handle(m)
  BY SentType DEF HandleLate, Answer, TypeOK
<1>2. /\ \A r \in Requests, u \in Users : records[r][u] > 0 => records'[r][u] > 0
      /\ \A r \in Requests, u \in Users, s \in Files :
            evidence[r][u][s] > 0 => evidence'[r][u][s] > 0
      /\ records' \in [Requests -> [Users -> Nat]]
      /\ evidence' \in [Requests -> [Users -> [Files -> Nat]]]
      /\ OnceOnServer'
      /\ UNCHANGED <<blobs, queue, content, draft, held, signed, switches, oversize, open, calm,
                     todo, item>>
  BY <1>1, Handled DEF Handle, HandleLate, Answer, device, session, pages
<1>3. \A r \in Requests : Complete(r) => Complete(r)'
  BY <1>2, StaysComplete
<1>4. NeverLost' /\ Shown'
  BY <1>2, <1>3 DEF NeverLost, Shown
<1>5. ASSUME NEW n \in late, HandleLate(n) PROVE IInv'
  <2>1. TypeOK' /\ UNCHANGED <<pc, by, left>>
    BY <1>2, <1>5 DEF HandleLate, TypeOK, pages, device
  <2>2. Working' /\ Listed' /\ DraftKept'
    BY <1>2, <2>1 DEF Working, Listed, DraftKept
  <2>3. Progress'
    <3>1. \A p \in Pages : pc[p] \in {"upload", "clean"} =>
             /\ item[p] \in Requests /\ content[item[p]] \subseteq Files
             /\ pc[p] = "upload" => by[p] \in Users
      BY DEF Working, TypeOK
    <3> QED  BY <1>2, <1>3, <2>1, <3>1 DEF Progress
  <2> QED  BY <1>2, <1>4, <2>1, <2>2, <2>3
<1>6. ASSUME NEW p \in Pages, Answer(p) PROVE IInv'
  <2>1. PICK n \in Sent(p) :
           /\ Handle(n)
           /\ \/ /\ Grants(n)
                 /\ pc' = [pc EXCEPT ![p] = "upload"]
                 /\ left' = [left EXCEPT ![p] =
                                IF n.kind = "lifecycle" THEN content[n.request] ELSE @ \ {n.file}]
                 /\ by' = by
              \/ /\ pc' = [pc EXCEPT ![p] = "failed"] /\ UNCHANGED left
                 /\ by' = [by EXCEPT ![p] = None]
    BY <1>6 DEF Answer, At
  <2>2. /\ n \in Message /\ n.request = item[p] /\ item[p] \in Requests
        /\ content[item[p]] # {} /\ content[item[p]] \subseteq Files
        /\ n.user = by[p] /\ by[p] \in Users
        /\ n.kind = "lifecycle" => pc[p] = "post"
        /\ n.kind = "evidence" => pc[p] = "upload" /\ n.file \in left[p]
    BY SentType DEF Message, Working, TypeOK, Sent
  <2>3. /\ n.kind = "lifecycle" /\ Grants(n) => records'[item[p]][by[p]] > 0
        /\ n.kind = "evidence" /\ Grants(n) => evidence'[item[p]][by[p]][n.file] > 0
    BY <2>1, <2>2, Handled
  <2>4. TypeOK' /\ UNCHANGED late
    <3>1. (IF n.kind = "lifecycle" THEN content[n.request] ELSE left[p] \ {n.file}) \in SUBSET Files
      BY <2>2 DEF TypeOK
    <3>2. left' \in [Pages -> SUBSET Files]
      BY <2>1, <3>1 DEF TypeOK
    <3>3. pc' \in [Pages -> Steps]
      BY <2>1 DEF TypeOK, Steps
    <3>4. by' \in [Pages -> Users \cup {None}]
      BY <2>1 DEF TypeOK
    <3> QED  BY <1>2, <1>6, <3>2, <3>3, <3>4 DEF Answer, TypeOK
  <2>5. Working' /\ Listed' /\ DraftKept'
    BY <1>2, <2>1, <2>2 DEF Working, Listed, DraftKept, TypeOK
  <2>6. Progress'
    <3>1. ASSUME NEW q \in Pages, q # p
          PROVE  /\ pc'[q] = "upload" =>
                       /\ records'[item[q]][by'[q]] > 0
                       /\ \A s \in content[item[q]] \ left'[q] : evidence'[item[q]][by'[q]][s] > 0
                 /\ pc'[q] = "clean" => Complete(item[q])'
      <4>1. pc[q] \in {"upload", "clean"} =>
               /\ item[q] \in Requests /\ content[item[q]] \subseteq Files
               /\ pc[q] = "upload" => by[q] \in Users
        BY DEF Working, TypeOK
      <4>2. pc'[q] = pc[q] /\ left'[q] = left[q] /\ by'[q] = by[q]
        BY <2>1, <3>1 DEF TypeOK
      <4> QED  BY <1>2, <1>3, <4>1, <4>2 DEF Progress
    <3>2. pc'[p] # "clean"
      BY <2>1 DEF TypeOK
    <3>3. ASSUME pc'[p] = "upload"
          PROVE  /\ records'[item[p]][by'[p]] > 0
                 /\ \A s \in content[item[p]] \ left'[p] : evidence'[item[p]][by'[p]][s] > 0
      <4>1. Grants(n) /\ by' = by /\ left'[p] = IF n.kind = "lifecycle" THEN content[item[p]] ELSE left[p] \ {n.file}
        BY <2>1, <2>2, <3>3 DEF TypeOK
      <4>2. CASE n.kind = "lifecycle"
        BY <2>3, <4>1, <4>2
      <4>3. CASE n.kind = "evidence"
        BY <1>2, <2>2, <2>3, <4>1, <4>3 DEF Progress
      <4> QED  BY <2>2, <4>2, <4>3 DEF Message
    <3> QED  BY <1>2, <3>1, <3>2, <3>3 DEF Progress
  <2> QED  BY <1>2, <1>4, <2>4, <2>5, <2>6
<1> QED  BY <1>5, <1>6

-----------------------------------------------------------------------------
\* Every step keeps all of it.
LEMMA StepInv == IInv /\ [Next]_vars => IInv'
<1> SUFFICES ASSUME IInv, [Next]_vars PROVE IInv'
  OBVIOUS
<1>1. CASE UNCHANGED vars
  <2>1. TypeOK'
    BY <1>1 DEF vars, device, session, server, pages, IInv, TypeOK
  <2>2. UNCHANGED <<queue, content, draft, records, evidence, pc, todo, item, by, left>>
    BY <1>1 DEF vars, device, server, pages
  <2> QED
    BY <2>1, <2>2, ServerKept DEF IInv, Working, Listed, DraftKept, Progress, NeverLost, Shown
<1> QED
  BY <1>1, PagesInv, DraftInv, QueueInv, FinishInv, ServerInv DEF Next, PageStep

LEMMA Invariant == Spec => []IInv
BY InitInv, StepInv, PTL DEF Spec

\* The browser, the server and the pages are well typed in every reachable
\* state (submit, syncQueuedInspection and the two routes).
THEOREM Typed == Spec => []TypeOK
<1>1. IInv => TypeOK
  BY DEF IInv
<1> QED  BY <1>1, Invariant, PTL

\* A submitted inspection stays in the queue until the server has it with every
\* file it lists (syncQueuedInspection removes it last; the routes replay).
THEOREM InspectionsAreKept == Spec => []NeverLost
<1>1. IInv => NeverLost
  BY DEF IInv
<1> QED  BY <1>1, Invariant, PTL

\* The page shows an inspection as synchronised only when the server has it
\* (submit and syncAll set submitted after syncQueuedInspection returns).
THEOREM ShownIsSynchronised == Spec => []SubmittedIsTrue
<1>1. IInv => SubmittedIsTrue
  BY DEF IInv, Shown, SubmittedIsTrue
<1> QED  BY <1>1, Invariant, PTL

\* Retries from any number of pages leave one event per request and user and one
\* row per event and file (the replay checks under the advisory locks of the
\* routes, the first of them keyed by the user too).
THEOREM RetriesAreIdempotent == Spec => []OnceOnServer
<1>1. IInv => OnceOnServer
  BY DEF IInv
<1> QED  BY <1>1, Invariant, PTL

-----------------------------------------------------------------------------
\* What is sent, and what a page has still to send, is of inspections that were
\* submitted and of files they list.
Posted(m) ==
    /\ m.request \in Requests /\ m.user \in Users /\ content[m.request] # {}
    /\ m.kind = "evidence" => m.file \in content[m.request]

Messages ==
    /\ \A m \in late : Posted(m)
    /\ \A p \in Pages : pc[p] = "upload" => left[p] \subseteq content[item[p]]

\* Once an inspection is submitted its files are listed for good: an identifier
\* it has is not given to another.
LEMMA SubmitIsNew ==
    ASSUME IInv, Submit
    PROVE  \E r \in Requests : /\ content[r] = {} /\ draft.files # {} /\ draft.files \subseteq Files
                               /\ content' = [content EXCEPT ![r] = draft.files]
                               /\ queue' = queue \cup {r}
<1>1. PICK r \in RequestOfDraft : /\ queue' = queue \cup {r}
                                  /\ content' = [content EXCEPT ![r] = draft.files]
  BY DEF Submit
<1>2. draft.request = None
  BY DEF Submit, IInv, DraftKept
<1>3. r \in Requests /\ content[r] = {}
  BY <1>1, <1>2 DEF RequestOfDraft, Fresh
<1>4. draft.files # {} /\ draft.files \subseteq Files
  BY DEF Submit, IInv, TypeOK, Draft
<1> QED  BY <1>1, <1>3, <1>4

LEMMA ContentKept ==
    ASSUME IInv, [Next]_vars, NEW r \in Requests, content[r] # {}
    PROVE  content'[r] = content[r]
<1>1. CASE Submit
  <2>1. PICK q \in Requests : content[q] = {} /\ content' = [content EXCEPT ![q] = draft.files]
    BY <1>1, SubmitIsNew
  <2> QED  BY <2>1 DEF IInv, TypeOK
<1>2. CASE ~Submit
  BY <1>2 DEF Next, PageStep, vars, device, pages, CalmDown, SwitchUser, AddEvidence, RemoveEvidence, MarkQueued,
              Open, Close, SyncAll, NetworkError, Take, Answer, Remove, Clean, Mark, ReadForError,
              PutError, HandleLate
<1> QED  BY <1>1, <1>2

LEMMA SentPosted ==
    ASSUME IInv, Messages, NEW p \in Pages, NEW m \in Sent(p)
    PROVE  m \in Message /\ Posted(m)
<1>1. m \in Message /\ m.request = item[p] /\ (m.kind = "evidence" => pc[p] = "upload" /\ m.file \in left[p])
  BY SentType DEF IInv
<1>2. pc[p] \in {"post", "upload"}
  BY DEF Sent
<1>3. item[p] \in Requests /\ content[item[p]] # {} /\ by[p] \in Users
  BY <1>2 DEF IInv, Working
<1>4. m.user = by[p]
  BY SentType DEF IInv
<1> QED  BY <1>1, <1>3, <1>4 DEF Messages, Posted

LEMMA MessagesStep ==
    ASSUME IInv, Messages, [Next]_vars
    PROVE  Messages'
<1>1. \A m : Posted(m) => Posted(m)'
  BY ContentKept DEF Posted
<1>2. \A p \in Pages : pc[p] = "upload" =>
          /\ item[p] \in Requests
          /\ content'[item[p]] = content[item[p]]
  BY ContentKept DEF IInv, Working
\* Steps that send nothing new and start no upload.
<1>3. ASSUME late' \subseteq late,
             \A p \in Pages : pc'[p] = "upload" =>
                 pc[p] = "upload" /\ item'[p] = item[p] /\ left'[p] \subseteq left[p]
      PROVE  Messages'
  BY <1>1, <1>2, <1>3 DEF Messages
<1>4. ASSUME NEW p \in Pages, Abandon(p),
             \A q \in Pages : pc'[q] = "upload" =>
                 pc[q] = "upload" /\ item'[q] = item[q] /\ left'[q] \subseteq left[q]
      PROVE  Messages'
  <2>1. \A m \in late' : m \in late \/ m \in Sent(p)
    BY <1>4 DEF Abandon
  <2>2. \A m \in late' : Posted(m)'
    BY <1>1, <2>1, SentPosted DEF Messages
  <2> QED  BY <1>2, <1>4, <2>2 DEF Messages
<1>5. ASSUME NEW p \in Pages, Close(p) \/ NetworkError(p) PROVE Messages'
  <2>1. Abandon(p) /\ \A q \in Pages : pc'[q] = "upload" =>
                        pc[q] = "upload" /\ item'[q] = item[q] /\ left'[q] \subseteq left[q]
    BY <1>5 DEF Close, NetworkError, At, IInv, TypeOK
  <2> QED  BY <1>4, <2>1
<1>6. ASSUME NEW p \in Pages, Answer(p) PROVE Messages'
  <2>1. PICK m \in Sent(p) :
           \/ /\ pc' = [pc EXCEPT ![p] = "upload"]
              /\ left' = [left EXCEPT ![p] =
                             IF m.kind = "lifecycle" THEN content[m.request] ELSE @ \ {m.file}]
           \/ pc' = [pc EXCEPT ![p] = "failed"] /\ UNCHANGED left
    BY <1>6 DEF Answer, At
  <2>2. UNCHANGED <<late, item, content>>
    BY <1>6 DEF Answer, device
  <2>3. /\ m.request = item[p] /\ item[p] \in Requests
        /\ m.kind \in {"lifecycle", "evidence"}
        /\ m.kind = "evidence" => pc[p] = "upload"
    BY SentType DEF Message, IInv, Working, Sent
  <2>4. ASSUME NEW q \in Pages, pc'[q] = "upload" PROVE left'[q] \subseteq content[item[q]]
    <3>1. CASE q # p
      BY <2>1, <2>4, <3>1 DEF Messages, IInv, TypeOK
    <3>2. CASE q = p /\ m.kind = "lifecycle"
      BY <2>1, <2>3, <2>4, <3>2 DEF IInv, TypeOK
    <3>3. CASE q = p /\ m.kind = "evidence"
      BY <2>1, <2>3, <2>4, <3>3 DEF Messages, IInv, TypeOK
    <3> QED  BY <2>3, <3>1, <3>2, <3>3
  <2> QED  BY <1>1, <2>2, <2>4 DEF Messages
<1>7. ASSUME \/ UNCHANGED vars \/ CalmDown \/ SwitchUser \/ Submit \/ MarkQueued
             \/ \E s \in Files : AddEvidence(s) \/ RemoveEvidence(s)
      PROVE  Messages'
  <2>1. late' = late /\ \A p \in Pages : pc'[p] = "upload" =>
                           pc[p] = "upload" /\ item'[p] = item[p] /\ left'[p] = left[p]
    BY <1>7, FieldAssumption DEF vars, pages, CalmDown, SwitchUser, Submit, MarkQueued, AddEvidence, RemoveEvidence, At,
                IInv, TypeOK
  <2> QED  BY <1>3, <2>1
<1>8. ASSUME NEW p \in Pages,
             \/ Open(p) \/ SyncAll(p) \/ Take(p) \/ Remove(p) \/ Clean(p) \/ Mark(p)
             \/ ReadForError(p) \/ PutError(p)
      PROVE  Messages'
  <2>1. late' = late /\ \A q \in Pages : pc'[q] = "upload" =>
                           pc[q] = "upload" /\ item'[q] = item[q] /\ left'[q] = left[q]
    BY <1>8 DEF Open, SyncAll, Take, Remove, Clean, Mark, ReadForError, PutError, At, AllSent, IInv, TypeOK
  <2> QED  BY <1>3, <2>1
<1>9. ASSUME NEW m \in late, HandleLate(m) PROVE Messages'
  BY <1>3, <1>9 DEF HandleLate, pages
<1> QED
  BY <1>5, <1>6, <1>7, <1>8, <1>9 DEF Next, PageStep

-----------------------------------------------------------------------------
\* What the server makes of a request is a step of the outbox, or nothing.
LEMMA HandleImplements ==
    ASSUME IInv, NEW m \in Message, Posted(m), Handle(m), UNCHANGED <<content, queue, draft>>
    PROVE  [Outbox!Next]_Outbox!vars
<1> DEFINE r == m.request
           u == m.user
           f == m.file
<1>1. r \in Requests /\ u \in Users /\ content[r] # {}
      /\ records[r][u] \in Nat /\ records[r][u] <= 1
  BY DEF Posted, IInv, TypeOK, OnceOnServer
<1>2. CASE m.kind = "lifecycle" /\ Grants(m)
  <2>1. evidence' = evidence
        /\ records' = IF records[r][u] > 0 THEN records
                      ELSE [records EXCEPT ![r][u] = records[r][u] + 1]
    BY <1>1, <1>2 DEF Handle, Recorded, IInv, TypeOK
  <2>2. CASE records[r][u] > 0
    BY <2>1, <2>2 DEF Outbox!vars
  <2>3. CASE ~(records[r][u] > 0)
    <3>1. records[r][u] = 0 /\ records' = [records EXCEPT ![r][u] = 1]
      <4> HIDE DEF r, u
      <4>1. records[r][u] = 0 /\ records[r][u] + 1 = 1
        BY <1>1, <2>3
      <4> QED  BY <2>1, <2>3, <4>1
    <3>2. Outbox!Record(r, u)
      BY <1>1, <2>1, <3>1 DEF Outbox!Record
    <3> QED  BY <1>1, <3>2 DEF Outbox!Next
  <2> QED  BY <2>2, <2>3
<1>3. CASE ~Grants(m)
  BY <1>3 DEF Handle, Outbox!vars
<1>4. CASE m.kind = "evidence" /\ Grants(m)
  <2>1. records[r][u] > 0 /\ f \in content[r] /\ f \in Files
    BY <1>4 DEF Grants, Posted, IInv, TypeOK
  <2>2. evidence[r][u][f] \in Nat
    BY <1>1, <2>1 DEF IInv, TypeOK
  <2>3. /\ records' = records
        /\ evidence' = IF evidence[r][u][f] > 0 THEN evidence
                       ELSE [evidence EXCEPT ![r][u][f] = evidence[r][u][f] + 1]
    BY <1>1, <1>4, <2>1 DEF Handle, Stored, IInv, TypeOK
  <2>4. CASE evidence[r][u][f] > 0
    BY <2>3, <2>4 DEF Outbox!vars
  <2>5. CASE ~(evidence[r][u][f] > 0)
    <3>1. evidence[r][u][f] = 0 /\ evidence' = [evidence EXCEPT ![r][u][f] = 1]
      <4> HIDE DEF r, u, f
      <4>1. evidence[r][u][f] = 0 /\ evidence[r][u][f] + 1 = 1
        BY <2>2, <2>5
      <4> QED  BY <2>3, <2>5, <4>1
    <3>2. records[r][u] = 1
      BY <1>1, <2>1
    <3>3. Outbox!Store(r, u, f)
      BY <2>1, <2>3, <3>1, <3>2 DEF Outbox!Store
    <3> QED  BY <1>1, <2>1, <3>3 DEF Outbox!Next
  <2> QED  BY <2>4, <2>5
<1> QED  BY <1>2, <1>3, <1>4 DEF Message

\* What is complete counts as delivered.
LEMMA CompleteDelivered ==
    ASSUME IInv, NEW r \in Requests, content[r] # {}, Complete(r)
    PROVE  Outbox!Delivered(r)
<1>1. PICK u \in Users : records[r][u] > 0 /\ \A s \in content[r] : evidence[r][u][s] > 0
  BY DEF Complete
<1>2. records[r][u] = 1
  BY <1>1 DEF IInv, TypeOK, OnceOnServer
<1>3. ASSUME NEW s \in content[r] PROVE evidence[r][u][s] = 1
  <2>1. s \in Files
    BY DEF IInv, TypeOK
  <2> QED  BY <1>1, <2>1 DEF IInv, TypeOK, OnceOnServer
<1> QED  BY <1>2, <1>3 DEF Outbox!Delivered

LEMMA OutboxStep ==
    ASSUME IInv, Messages, [Next]_vars
    PROVE  [Outbox!Next]_Outbox!vars
<1> DEFINE shown == IF draft.submitted THEN {draft.request} ELSE {}
\* Steps between which the outbox does not tell.
<1>1. ASSUME UNCHANGED <<content, queue, records, evidence>>, shown' = shown
      PROVE  [Outbox!Next]_Outbox!vars
  BY <1>1 DEF Outbox!vars
<1>2. ASSUME \/ UNCHANGED vars \/ CalmDown \/ SwitchUser
             \/ \E s \in Files : AddEvidence(s) \/ RemoveEvidence(s)
             \/ \E p \in Pages : \/ Open(p) \/ Close(p) \/ SyncAll(p) \/ NetworkError(p) \/ Take(p)
                                 \/ ReadForError(p) \/ Clean(p)
      PROVE  [Outbox!Next]_Outbox!vars
  <2>1. UNCHANGED <<content, queue, records, evidence>>
    BY <1>2 DEF vars, device, server, CalmDown, SwitchUser, AddEvidence, RemoveEvidence, Open, Close, SyncAll,
                NetworkError, Take, ReadForError, Clean
  <2>2. draft'.submitted = draft.submitted /\ draft'.request = draft.request
    BY <1>2 DEF vars, device, CalmDown, SwitchUser, AddEvidence, RemoveEvidence, Open, Close, SyncAll,
                NetworkError, Take, ReadForError, Clean, IInv, TypeOK, Draft
  <2> QED  BY <1>1, <2>1, <2>2
<1>3. CASE MarkQueued
  <2>1. UNCHANGED <<content, queue, records, evidence>> /\ ~draft.submitted
        /\ draft'.submitted = draft.submitted
    BY <1>3, FieldAssumption DEF MarkQueued, server, IInv, DraftKept, TypeOK, Draft
  <2> QED  BY <1>1, <2>1
<1>4. CASE Submit
  <2>1. PICK r \in Requests : /\ content[r] = {} /\ draft.files # {} /\ draft.files \subseteq Files
                              /\ content' = [content EXCEPT ![r] = draft.files]
                              /\ queue' = queue \cup {r}
    BY <1>4, SubmitIsNew
  <2>2. UNCHANGED <<draft, records, evidence>>
    BY <1>4 DEF Submit, server
  <2>3. draft.files \in (SUBSET Files) \ {{}}
    BY <2>1
  <2>4. \E files \in (SUBSET Files) \ {{}} : content' = [content EXCEPT ![r] = files]
    BY <2>1, <2>3
  <2>5. Outbox!Post(r)
    <3>1. shown' = shown
      BY <2>2
    <3>2. content[r] = {} /\ queue' = queue \cup {r} /\ UNCHANGED <<records, evidence>>
      BY <2>1, <2>2
    <3> QED  BY <2>4, <3>1, <3>2 DEF Outbox!Post
  <2> QED  BY <2>1, <2>5 DEF Outbox!Next
<1>5. ASSUME NEW p \in Pages, Remove(p) \/ Mark(p)
      PROVE  item[p] \in Requests /\ Outbox!Delivered(item[p])
  <2>1. pc[p] \in {"upload", "clean"} /\ item[p] \in Requests /\ content[item[p]] # {}
    BY <1>5 DEF Remove, Mark, AllSent, IInv, Working
  <2>2. Complete(item[p])
    BY <1>5, <2>1 DEF Remove, Mark, AllSent, IInv, Working, Progress, Complete
  <2> QED  BY <2>1, <2>2, CompleteDelivered
<1>6. ASSUME NEW p \in Pages, Remove(p) PROVE [Outbox!Next]_Outbox!vars
  <2>1. Outbox!Settle(item[p])
    BY <1>5, <1>6 DEF Remove, server, Outbox!Settle
  <2> QED  BY <1>5, <1>6, <2>1 DEF Outbox!Next
<1>7. ASSUME NEW p \in Pages, Mark(p) PROVE [Outbox!Next]_Outbox!vars
  <2>1. UNCHANGED <<content, queue, records, evidence>>
    BY <1>7 DEF Mark, server
  <2>2. CASE UNCHANGED draft
    BY <1>1, <2>1, <2>2
  <2>3. CASE draft.request = item[p] /\ draft' = [draft EXCEPT !.queued = FALSE, !.submitted = TRUE]
    <3>1. draft'.submitted /\ draft'.request = item[p]
      BY <2>3 DEF IInv, TypeOK, Draft
    <3>2. shown' = shown \cup {item[p]}
      BY <2>3, <3>1
    <3>3. Outbox!Show(item[p])
      BY <1>5, <1>7, <2>1, <3>2 DEF Outbox!Show
    <3> QED  BY <1>5, <1>7, <3>3 DEF Outbox!Next
  <2> QED  BY <1>7, <2>2, <2>3 DEF Mark
<1>8. ASSUME NEW p \in Pages, PutError(p) PROVE [Outbox!Next]_Outbox!vars
  <2>1. item[p] \in Requests /\ content[item[p]] # {}
    BY <1>8 DEF PutError, IInv, Working
  <2>2. Outbox!TakeUp(item[p])
    BY <1>8, <2>1 DEF PutError, server, Outbox!TakeUp
  <2> QED  BY <2>1, <2>2 DEF Outbox!Next
<1>9. ASSUME NEW p \in Pages, Answer(p) PROVE [Outbox!Next]_Outbox!vars
  <2>1. PICK m \in Sent(p) : Handle(m)
    BY <1>9 DEF Answer
  <2>2. UNCHANGED <<content, queue, draft>>
    BY <1>9 DEF Answer, device
  <2> QED  BY <2>1, <2>2, SentPosted, HandleImplements
<1>10. ASSUME NEW m \in late, HandleLate(m) PROVE [Outbox!Next]_Outbox!vars
  <2>1. m \in Message /\ Posted(m)
    BY DEF Messages, IInv, TypeOK
  <2>2. Handle(m) /\ UNCHANGED <<content, queue, draft>>
    BY <1>10 DEF HandleLate, device
  <2> QED  BY <2>1, <2>2, HandleImplements
<1> QED
  BY <1>2, <1>3, <1>4, <1>6, <1>7, <1>8, <1>9, <1>10 DEF Next, PageStep

\* The browser's pages and stores and the two routes implement the outbox: in
\* the name of a user every submitted inspection is taken over at most once,
\* its files once and nothing else, and it leaves the queue or is shown as
\* synchronised only when all of it has been taken over in one user's name
\* (queueInspection, syncQueuedInspection, removeQueuedInspection, the
\* lifecycle and evidence routes).
THEOREM Refinement == Spec => ImplementsOutbox
<1>1. Init => Messages
  BY DEF Init, Messages
<1>2. Init => Outbox!Init
  BY DEF Init, Outbox!Init
<1>3. IInv /\ Messages /\ [Next]_vars => Messages'
  BY MessagesStep
<1>4. IInv /\ Messages /\ [Next]_vars => [Outbox!Next]_Outbox!vars
  BY OutboxStep
<1> QED
  BY <1>1, <1>2, <1>3, <1>4, Invariant, PTL DEF Spec, ImplementsOutbox, Outbox!Spec

-----------------------------------------------------------------------------
\* How far a page is from the end of a synchronisation: by the inspections it
\* has listed, then by its step, then by the files it is at.
Rank == [closed |-> 0, idle |-> 1, next |-> 2, reput |-> 3, failed |-> 4, clean |-> 5,
         upload |-> 6, post |-> 7, queued |-> 8]

Fewer(S, T) == S \subseteq T /\ S # T

Nearer(p) ==
    \/ Fewer(todo'[p], todo[p])
    \/ /\ todo'[p] = todo[p]
       /\ \/ Rank[pc'[p]] < Rank[pc[p]]
          \/ pc'[p] = pc[p] /\ Fewer(left'[p], left[p])

Synchronising(p) == pc[p] \notin {"closed", "idle", "queued"}

LEMMA PageNearer ==
    ASSUME IInv, NEW p \in Pages, PageStep(p) \/ NetworkError(p) \/ (Close(p) /\ Synchronising(p))
    PROVE  Nearer(p)
<1> USE DEF Nearer, Rank, Fewer, IInv
<1>1. CASE Take(p)
  <2>1. CASE todo[p] = {}
    BY <1>1, <2>1 DEF Take, At, TypeOK
  <2>2. CASE todo[p] # {}
    <3>1. PICK r \in todo[p] : todo' = [todo EXCEPT ![p] = @ \ {r}]
      BY <1>1, <2>2 DEF Take
    <3> QED  BY <3>1 DEF TypeOK
  <2> QED  BY <2>1, <2>2
<1>2. CASE Answer(p)
  <2>1. PICK m \in Sent(p) :
           \/ /\ pc' = [pc EXCEPT ![p] = "upload"]
              /\ left' = [left EXCEPT ![p] =
                             IF m.kind = "lifecycle" THEN content[m.request] ELSE @ \ {m.file}]
           \/ pc' = [pc EXCEPT ![p] = "failed"]
    BY <1>2 DEF Answer, At
  <2>2. /\ pc[p] \in {"post", "upload"} /\ todo' = todo
        /\ m.kind \in {"lifecycle", "evidence"}
        /\ m.kind = "lifecycle" => pc[p] = "post"
        /\ m.kind = "evidence" => pc[p] = "upload" /\ m.file \in left[p]
    BY <1>2, SentType DEF Answer, Sent, Message
  <2>3. CASE pc' = [pc EXCEPT ![p] = "failed"]
    BY <2>2, <2>3 DEF TypeOK
  <2>4. CASE /\ pc' = [pc EXCEPT ![p] = "upload"]
             /\ left' = [left EXCEPT ![p] =
                            IF m.kind = "lifecycle" THEN content[m.request] ELSE @ \ {m.file}]
    <3>1. CASE m.kind = "lifecycle"
      BY <2>2, <2>4, <3>1 DEF TypeOK
    <3>2. CASE m.kind = "evidence"
      <4>1. left'[p] = left[p] \ {m.file} /\ pc'[p] = pc[p]
        BY <2>2, <2>4, <3>2 DEF TypeOK
      <4> QED  BY <2>2, <3>2, <4>1
    <3> QED  BY <2>2, <3>1, <3>2
  <2> QED  BY <2>1, <2>3, <2>4
<1>3. CASE Clean(p)
  <2>1. left[p] # {} /\ left' = [left EXCEPT ![p] = @ \ {FirstLeft(p)}] /\ UNCHANGED <<pc, todo>>
    BY <1>3 DEF Clean
  <2>2. FirstLeft(p) \in left[p]
    BY <2>1 DEF FirstLeft
  <2> QED  BY <2>1, <2>2 DEF TypeOK
<1>4. CASE Remove(p) \/ Mark(p) \/ ReadForError(p) \/ PutError(p)
  <2>1. /\ todo' = todo
        /\ \/ pc[p] = "upload" /\ pc' = [pc EXCEPT ![p] = "clean"]
           \/ pc[p] = "clean" /\ pc' = [pc EXCEPT ![p] = "next"]
           \/ pc[p] = "failed" /\ pc' = [pc EXCEPT ![p] = IF item[p] \in queue THEN "reput" ELSE "next"]
           \/ pc[p] = "reput" /\ pc' = [pc EXCEPT ![p] = "next"]
    BY <1>4 DEF Remove, Mark, ReadForError, PutError, At, AllSent
  <2> QED  BY <2>1 DEF TypeOK
<1>5. CASE NetworkError(p)
  <2>1. pc[p] \in {"post", "upload"} /\ pc' = [pc EXCEPT ![p] = "failed"] /\ todo' = todo
    BY <1>5 DEF NetworkError, At, Sent
  <2> QED  BY <2>1 DEF TypeOK
<1>6. CASE Close(p) /\ Synchronising(p)
  <2>1. pc' = [pc EXCEPT ![p] = "closed"] /\ todo' = [todo EXCEPT ![p] = {}]
        /\ pc[p] \in {"next", "reput", "failed", "clean", "upload", "post"}
    BY <1>6 DEF Close, At, Synchronising, TypeOK, Steps
  <2> QED  BY <2>1 DEF TypeOK
<1> QED  BY <1>1, <1>2, <1>3, <1>4, <1>5, <1>6 DEF PageStep

\* Every step of a synchronisation, also a failed one, brings the page nearer to
\* its end, and nothing another page, the inspector or the server does takes it
\* further from it: with finitely many files and inspections none goes on
\* forever (syncAll, syncQueuedInspection, removeQueuedInspection,
\* updateQueueError).
THEOREM SyncsEnd ==
    Spec => [][\A p \in Pages :
                  /\ PageStep(p) => Nearer(p)
                  /\ Synchronising(p) =>
                         Nearer(p) \/ (pc'[p] = pc[p] /\ todo'[p] = todo[p] /\ left'[p] = left[p])]_vars
<1> DEFINE Same(p) == pc'[p] = pc[p] /\ todo'[p] = todo[p] /\ left'[p] = left[p]
           A == \A p \in Pages : /\ PageStep(p) => Nearer(p)
                                 /\ Synchronising(p) => Nearer(p) \/ Same(p)
<1>1. IInv /\ [Next]_vars => [A]_vars
  <2> SUFFICES ASSUME IInv, Next, NEW p \in Pages
               PROVE  /\ PageStep(p) => Nearer(p)
                      /\ Synchronising(p) => Nearer(p) \/ Same(p)
    OBVIOUS
  <2>1. PageStep(p) => Nearer(p)
    BY PageNearer
  <2> SUFFICES ASSUME Synchronising(p) PROVE Nearer(p) \/ Same(p)
    BY <2>1
  <2>2. ASSUME NEW q \in Pages, q # p,
               Open(q) \/ Close(q) \/ SyncAll(q) \/ NetworkError(q) \/ PageStep(q)
        PROVE  Same(p)
    BY <2>2 DEF IInv, TypeOK, PageStep, Open, Close, SyncAll, NetworkError, Take, Answer, Remove, Clean,
                Mark, ReadForError, PutError, At
  <2>3. ASSUME Open(p) \/ Close(p) \/ SyncAll(p) \/ NetworkError(p) PROVE Nearer(p)
    BY <2>3, PageNearer DEF Open, SyncAll, Synchronising
  <2>4. ASSUME \/ CalmDown \/ SwitchUser \/ (\E s \in Files : AddEvidence(s) \/ RemoveEvidence(s))
               \/ \E m \in late : HandleLate(m)
        PROVE  Same(p)
    BY <2>4 DEF CalmDown, SwitchUser, AddEvidence, RemoveEvidence, HandleLate, pages
  <2>5. ASSUME Submit \/ MarkQueued PROVE Same(p)
    <3>1. p # Editor
      BY <2>5 DEF Submit, MarkQueued, Synchronising
    <3> QED  BY <2>5, <3>1 DEF Submit, MarkQueued, At, IInv, TypeOK
  <2> QED  BY <2>1, <2>2, <2>3, <2>4, <2>5 DEF Next
<1> QED  BY <1>1, Invariant, PTL DEF Spec

=============================================================================
