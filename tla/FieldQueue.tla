----------------------------- MODULE FieldQueue -----------------------------
(***************************************************************************)
(* Inspections taken in the field: an inspection and its evidence files    *)
(* are kept in the browser (IndexedDB, localStorage) until the server has  *)
(* the lifecycle record and every file (lib/field-offline-queue.ts,        *)
(* components/InspectionSession.tsx), and the two routes of the server     *)
(* that make a repeated submission harmless (api/lifecycle,                *)
(* api/evidence/upload).                                                   *)
(*                                                                         *)
(* One asset and the page on which it is inspected; other pages of the     *)
(* same browser synchronise the same queue, as whoever is signed in then.  *)
(* A file is its digest.                                                   *)
(***************************************************************************)
EXTENDS Naturals, FiniteSets

CONSTANTS Pages,       \* the pages open in the browser
          Editor,      \* the one that shows the asset
          MaxRequests, \* bound on the request identifiers
          Files,       \* evidence files
          Users,       \* those who sign in on the device, of one organization
          First,       \* the one whose session it has at first
          MaxSwitches, \* bound on how often another user signs in
          MaxShared,   \* bound on the identifiers from then on
          MaxLate      \* bound on the requests under way that no page waits for

ASSUME FieldAssumption ==
    /\ Editor \in Pages /\ First \in Users
    /\ MaxRequests \in Nat /\ MaxSwitches \in Nat /\ MaxShared \in Nat /\ MaxLate \in Nat

\* Request identifiers are numbered in the order they are made.
Requests == 1..MaxRequests
None     == 0

VARIABLES
    \* The browser's storage.
    blobs,     \* the stored files of the asset
    queue,     \* the queued inspections
    content,   \* the files each queued inspection lists
    draft,     \* the draft of the asset in localStorage
    held,      \* the files the page of the asset has in memory
    signed,    \* the user whose session the browser has
    switches,  \* how often that has changed
    \* The network and the server.
    late,      \* requests under way that no page waits for any more
    records,   \* how many lifecycle events of a user carry a request identifier
    evidence,  \* how many evidence rows such an event has of a file
    oversize,  \* the files the server takes from nobody
    open,      \* the asset's state takes an inspection
    calm,      \* from now on nothing fails, is taken away or newly submitted
    \* Each page.
    pc,
    todo,      \* the queued inspections it has listed
    item,      \* the one it synchronises
    by,        \* in whose name
    left       \* its files still to be sent, or to be removed

session == <<signed, switches>>
device == <<blobs, queue, content, draft, held, session>>
server == <<records, evidence, oversize, open>>
pages  == <<pc, todo, item, by, left>>
vars   == <<device, late, server, calm, pages>>

Draft   == [files : SUBSET Files, request : Requests \cup {None},
            queued : BOOLEAN, submitted : BOOLEAN]
\* A file is sent for the event some user's record of the inspection is.
Message == [kind : {"lifecycle"}, request : Requests, user : Users]
           \cup [kind : {"evidence"}, request : Requests, user : Users, file : Files]
Steps   == {"closed", "idle", "queued", "next", "post", "upload", "clean",
            "failed", "reput"}

TypeOK ==
    /\ blobs \subseteq Files
    /\ queue \subseteq Requests
    /\ content \in [Requests -> SUBSET Files]
    /\ draft \in Draft
    /\ held \subseteq Files
    /\ signed \in Users /\ switches \in Nat
    /\ late \subseteq Message
    /\ records \in [Requests -> [Users -> Nat]]
    /\ evidence \in [Requests -> [Users -> [Files -> Nat]]]
    /\ oversize \subseteq Files
    /\ open \in BOOLEAN
    /\ calm \in BOOLEAN
    /\ pc \in [Pages -> Steps]
    /\ todo \in [Pages -> SUBSET Requests]
    /\ item \in [Pages -> Requests \cup {None}]
    /\ by \in [Pages -> Users \cup {None}]
    /\ left \in [Pages -> SUBSET Files]

Init ==
    /\ blobs = {} /\ held = {} /\ queue = {} /\ late = {}
    /\ content = [r \in Requests |-> {}]
    /\ draft = [files |-> {}, request |-> None, queued |-> FALSE, submitted |-> FALSE]
    /\ signed = First /\ switches = 0
    /\ records = [r \in Requests |-> [u \in Users |-> 0]]
    /\ evidence = [r \in Requests |-> [u \in Users |-> [s \in Files |-> 0]]]
    /\ oversize \in SUBSET Files
    /\ open = TRUE
    /\ calm = FALSE
    /\ pc = [p \in Pages |-> "closed"]
    /\ todo = [p \in Pages |-> {}]
    /\ item = [p \in Pages |-> None]
    /\ by = [p \in Pages |-> None]
    /\ left = [p \in Pages |-> {}]

-----------------------------------------------------------------------------
\* Pages.

\* The page goes to another step of the code it runs.
At(p, step) == pc' = [pc EXCEPT ![p] = step]

Open(p) ==
    /\ pc[p] = "closed"
    /\ At(p, "idle")
    /\ UNCHANGED <<device, late, server, calm, todo, item, by, left>>

\* Files go one at a time, in the order of the item.
FirstLeft(p) == CHOOSE s \in left[p] : TRUE

\* The request the page has sent and whose answer it waits for, if any.
Sent(p) ==
    IF pc[p] = "post" THEN {[kind |-> "lifecycle", request |-> item[p], user |-> by[p]]}
    ELSE IF pc[p] = "upload" /\ left[p] # {}
         THEN {[kind |-> "evidence", request |-> item[p], user |-> by[p], file |-> FirstLeft(p)]}
         ELSE {}

\* It no longer waits: the request does not arrive, or it will all the same.
Abandon(p) ==
    \/ UNCHANGED late
    \/ /\ Sent(p) # {}
       /\ late' = late \cup Sent(p)
       /\ Cardinality(late') <= MaxLate

\* The tab is closed or dies, and what it had in memory is gone.
Close(p) ==
    /\ pc[p] # "closed" /\ ~calm
    /\ held' = IF p = Editor THEN {} ELSE held
    /\ At(p, "closed")
    /\ Abandon(p)
    /\ todo' = [todo EXCEPT ![p] = {}]
    /\ item' = [item EXCEPT ![p] = None]
    /\ by' = [by EXCEPT ![p] = None]
    /\ left' = [left EXCEPT ![p] = {}]
    /\ UNCHANGED <<blobs, queue, content, draft, session, server, calm>>

Submitted == {r \in Requests : content[r] # {}}

\* Another user signs in, with the queue and the drafts of the one before.
SwitchUser ==
    /\ ~calm
    /\ switches < MaxSwitches /\ Cardinality(Submitted) <= MaxShared
    /\ \E u \in Users \ {signed} : signed' = u
    /\ switches' = switches + 1
    /\ UNCHANGED <<blobs, queue, content, draft, held, late, server, calm, pages>>

\* Until then a refusal for the asset's state is an error like any other.
CalmDown ==
    /\ ~calm
    /\ \A p \in Pages : pc[p] \in {"closed", "idle"}
    /\ calm' = TRUE
    /\ open' \in BOOLEAN
    /\ UNCHANGED <<device, late, records, evidence, oversize, pages>>

-----------------------------------------------------------------------------
\* The inspector.

\* The file is stored before the draft lists it.
AddEvidence(s) ==
    /\ pc[Editor] = "idle" /\ ~calm
    /\ blobs' = blobs \cup {s}
    /\ held' = held \cup {s}
    /\ draft' = [draft EXCEPT !.files = @ \cup {s}]
    /\ UNCHANGED <<queue, content, session, late, server, calm, pages>>

\* The file goes whether or not a queued inspection lists it.
RemoveEvidence(s) ==
    /\ pc[Editor] # "closed" /\ ~calm
    /\ s \in draft.files
    /\ blobs' = blobs \ {s}
    /\ held' = held \ {s}
    /\ draft' = [draft EXCEPT !.files = @ \ {s}]
    /\ UNCHANGED <<queue, content, session, late, server, calm, pages>>

\* A new identifier is one that no inspection has.
Fresh == {r \in Requests : content[r] = {} /\ \A q \in 1..r - 1 : content[q] # {}}

\* Variant: a draft without one gets no request identifier.
DraftRequest == {draft.request}

RequestOfDraft == IF draft.request = None THEN Fresh ELSE {draft.request}

\* submit up to queueInspection.  A file that is in memory is not looked for in
\* the store, where another page may have removed it.
Submit ==
    /\ pc[Editor] = "idle" /\ ~calm
    /\ draft.files # {} /\ ~draft.queued /\ ~draft.submitted
    /\ draft.files \subseteq held \cup blobs
    /\ held' = held \cup draft.files
    /\ \E r \in RequestOfDraft :
          /\ queue' = queue \cup {r}
          /\ content' = [content EXCEPT ![r] = draft.files]
          /\ switches > 0 => Cardinality(Submitted') <= MaxShared
          /\ item' = [item EXCEPT ![Editor] = r]
    /\ At(Editor, "queued")
    /\ UNCHANGED <<blobs, draft, session, late, server, calm, todo, by, left>>

\* Variant: the draft is shown as synchronised at once.
MarkSubmitted ==
    /\ pc[Editor] = "queued"
    /\ draft' = [draft EXCEPT !.submitted = TRUE, !.request = item[Editor]]
    /\ item' = [item EXCEPT ![Editor] = None]
    /\ At(Editor, "idle")
    /\ UNCHANGED <<blobs, queue, content, held, session, late, server, calm, todo, by, left>>

\* Only then does the draft say so; when online the item is synchronised.
MarkQueued ==
    LET r == item[Editor]
    IN  /\ pc[Editor] = "queued"
        /\ draft' = [draft EXCEPT !.queued = TRUE, !.request = r]
        /\ item' = [item EXCEPT ![Editor] = None]
        /\ \/ At(Editor, "next") /\ todo' = [todo EXCEPT ![Editor] = {r}]
           \/ At(Editor, "idle") /\ UNCHANGED todo
        /\ UNCHANGED <<blobs, queue, content, held, session, late, server, calm, by, left>>

-----------------------------------------------------------------------------
\* Synchronisation.

\* syncAll, from the button or when the browser comes online.
SyncAll(p) ==
    /\ pc[p] = "idle" /\ queue # {}
    /\ todo' = [todo EXCEPT ![p] = queue]
    /\ At(p, "next")
    /\ UNCHANGED <<device, late, server, calm, item, by, left>>

\* The oldest item left, or none: every file of it must be there before
\* anything is sent.  The event is the user's whose session goes with the
\* request.
Take(p) ==
    /\ pc[p] = "next"
    /\ UNCHANGED <<device, late, server, calm, left>>
    /\ \/ /\ todo[p] = {}
          /\ At(p, "idle")
          /\ UNCHANGED <<todo, item, by>>
       \/ \E r \in todo[p] :
             /\ \A q \in todo[p] : r <= q
             /\ todo' = [todo EXCEPT ![p] = @ \ {r}]
             /\ item' = [item EXCEPT ![p] = r]
             /\ \/ content[r] \subseteq blobs /\ At(p, "post") /\ by' = [by EXCEPT ![p] = signed]
                \/ ~(content[r] \subseteq blobs) /\ At(p, "failed") /\ UNCHANGED by

\* The page sees an error: of the network, or a refusal that may not come the
\* next time (no session, another role, the asset's state).
NetworkError(p) ==
    /\ Sent(p) # {} /\ ~calm
    /\ Abandon(p)
    /\ At(p, "failed")
    /\ by' = [by EXCEPT ![p] = None]
    /\ UNCHANGED <<device, server, calm, todo, item, left>>

\* Variant: the item leaves the queue as soon as it is recorded.
RemovedEarly(p) == pc[p] = "upload"

AllSent(p) == pc[p] = "upload" /\ left[p] = {}

\* The item leaves the queue, then its files the store, one by one.
Remove(p) ==
    /\ AllSent(p)
    /\ queue' = queue \ {item[p]}
    /\ left' = [left EXCEPT ![p] = content[item[p]]]
    /\ At(p, "clean")
    /\ by' = [by EXCEPT ![p] = None]
    /\ UNCHANGED <<blobs, content, draft, held, session, late, server, calm, todo, item>>

Clean(p) ==
    /\ pc[p] = "clean" /\ left[p] # {}
    /\ blobs' = blobs \ {FirstLeft(p)}
    /\ left' = [left EXCEPT ![p] = @ \ {FirstLeft(p)}]
    /\ UNCHANGED <<queue, content, draft, held, session, late, server, calm, pc, todo, item, by>>

\* Variant: whatever draft the page has is shown as synchronised.
MarkAny(p) ==
    /\ pc[p] = "clean" /\ left[p] = {}
    /\ draft' = IF p = Editor THEN [draft EXCEPT !.queued = FALSE, !.submitted = TRUE] ELSE draft
    /\ item' = [item EXCEPT ![p] = None]
    /\ At(p, "next")
    /\ UNCHANGED <<blobs, queue, content, held, session, late, server, calm, todo, by, left>>

\* The draft of this request is shown as synchronised; not by the listener of
\* the online event, which still sees the draft of the first render.
Mark(p) ==
    /\ pc[p] = "clean" /\ left[p] = {}
    /\ \/ /\ p = Editor /\ draft.request = item[p]
          /\ draft' = [draft EXCEPT !.queued = FALSE, !.submitted = TRUE]
       \/ UNCHANGED draft
    /\ item' = [item EXCEPT ![p] = None]
    /\ At(p, "next")
    /\ UNCHANGED <<blobs, queue, content, held, session, late, server, calm, todo, by, left>>

\* updateQueueError reads the queue in one transaction and puts the item back
\* in another.
ReadForError(p) ==
    /\ pc[p] = "failed"
    /\ At(p, IF item[p] \in queue THEN "reput" ELSE "next")
    /\ item' = IF item[p] \in queue THEN item ELSE [item EXCEPT ![p] = None]
    /\ left' = [left EXCEPT ![p] = {}]
    /\ UNCHANGED <<device, late, server, calm, todo, by>>

PutError(p) ==
    /\ pc[p] = "reput"
    /\ queue' = queue \cup {item[p]}
    /\ item' = [item EXCEPT ![p] = None]
    /\ At(p, "next")
    /\ UNCHANGED <<blobs, content, draft, held, session, late, server, calm, todo, by, left>>

-----------------------------------------------------------------------------
\* The server handles a request in one transaction under an advisory lock on
\* the user and the request identifier, or on the event and the digest.

\* Variant: the evidence route inserts without looking for the file.
StoreAgain(m) == [evidence EXCEPT ![m.request][m.user][m.file] = @ + 1]

Stored(m) ==
    IF evidence[m.request][m.user][m.file] > 0 THEN evidence
    ELSE [evidence EXCEPT ![m.request][m.user][m.file] = @ + 1]

\* A record is known again to the user who made it, and to no other.
Recorded(m) ==
    IF records[m.request][m.user] > 0 THEN records
    ELSE [records EXCEPT ![m.request][m.user] = @ + 1]

\* Variant: a request identifier that is known is refused.
GrantsNew(m) ==
    \/ m.kind = "lifecycle" /\ open /\ records[m.request][m.user] = 0
    \/ m.kind = "evidence" /\ records[m.request][m.user] > 0 /\ m.file \notin oversize

\* What was done before is answered like the first time; a file needs its event
\* and its size is limited.  The other refusals do not meet this client: what
\* the queue has for an identifier stays the same, and so its hash; the digest
\* is of the file sent; a row of evidence and its file are stored together.
Grants(m) ==
    \/ m.kind = "lifecycle" /\ (open \/ records[m.request][m.user] > 0)
    \/ m.kind = "evidence" /\ records[m.request][m.user] > 0 /\ m.file \notin oversize

Handle(m) ==
    /\ records' = IF m.kind = "lifecycle" /\ Grants(m) THEN Recorded(m) ELSE records
    /\ evidence' = IF m.kind = "evidence" /\ Grants(m) THEN Stored(m) ELSE evidence
    /\ UNCHANGED <<oversize, open>>

HandleLate(m) ==
    /\ m \in late
    /\ late' = late \ {m}
    /\ Handle(m)
    /\ UNCHANGED <<device, calm, pages>>

\* The answer reaches the page, unless it is lost: after the record the page
\* sends the files, one after the other.
Answer(p) ==
    /\ \E m \in Sent(p) :
          /\ Handle(m)
          /\ \/ /\ Grants(m)
                /\ At(p, "upload")
                /\ left' = [left EXCEPT ![p] =
                               IF m.kind = "lifecycle" THEN content[m.request] ELSE @ \ {m.file}]
                /\ UNCHANGED by
             \/ /\ ~calm \/ ~Grants(m)
                /\ At(p, "failed")
                /\ by' = [by EXCEPT ![p] = None]
                /\ UNCHANGED left
    /\ UNCHANGED <<device, late, calm, todo, item>>

-----------------------------------------------------------------------------
\* The code a page runs once it is started.
PageStep(p) ==
    \/ Take(p) \/ Answer(p) \/ Remove(p) \/ Clean(p) \/ Mark(p)
    \/ ReadForError(p) \/ PutError(p)

Next ==
    \/ CalmDown \/ SwitchUser
    \/ \E s \in Files : AddEvidence(s) \/ RemoveEvidence(s)
    \/ Submit \/ MarkQueued
    \/ \E p \in Pages : Open(p) \/ Close(p) \/ SyncAll(p) \/ NetworkError(p) \/ PageStep(p)
    \/ \E m \in late : HandleLate(m)

Spec == Init /\ [][Next]_vars

\* A page that runs goes on running and the server answers it.  Nothing makes
\* anyone open a page or start a synchronisation.
FairSpec == Spec /\ \A p \in Pages : WF_vars(PageStep(p))

-----------------------------------------------------------------------------
\* A lifecycle record of r and, with it, every file are on the server.
Complete(r) ==
    \E u \in Users : records[r][u] > 0 /\ \A s \in content[r] : evidence[r][u][s] > 0

\* A queued inspection stays in the queue until it is on the server with every
\* file it lists: whatever is lost, repeated, late, refused or synchronised
\* twice.  (Its files may be taken from the device before; then it stays queued.)
NeverLost ==
    \A r \in Requests : content[r] # {} => r \in queue \/ Complete(r)

\* An inspection shown as synchronised is on the server with its evidence.
SubmittedIsTrue == draft.submitted => Complete(draft.request)

\* Retries, lost answers and two pages leave one event per request and user, and
\* one row per file of it.  (Two users who retry one request leave two events.)
OnceOnServer ==
    \A r \in Requests, u \in Users :
        records[r][u] <= 1 /\ \A s \in Files : evidence[r][u][s] <= 1

\* The pages, the stores and the two routes together are an outbox: whatever is
\* repeated, lost, late, refused or done twice, the server takes over each
\* inspection and each of its files once in the name of a user, it stops being
\* pending only when one of them has got all of it there, and nothing is taken
\* over that nobody submitted.
Outbox == INSTANCE InspectionOutbox WITH
    posted  <- content,
    pending <- queue,
    events  <- records,
    rows    <- evidence,
    shown   <- IF draft.submitted THEN {draft.request} ELSE {}
ImplementsOutbox == Outbox!Spec

\* Once nothing fails, a page that has listed an inspection brings it to the
\* server and out of the queue, however far earlier attempts got: provided that
\* the server takes it and its files (the asset's state allows it or the user's
\* record is there, no file is too large), that its files are there, no other
\* inspection lists one of them, and no page is about to put a failed attempt
\* back.
Syncing(r) ==
    /\ calm
    /\ r \in queue /\ \E p \in Pages : r \in todo[p]
    /\ open \/ records[r][signed] > 0
    /\ content[r] \subseteq blobs \ oversize
    /\ \A q \in Requests \ {r} : content[q] \cap content[r] = {}
    /\ \A q \in Pages : pc[q] \in {"failed", "reput"} => item[q] # r

SyncFinishes ==
    \A r \in Requests : Syncing(r) ~> r \notin queue /\ Complete(r)

=============================================================================
