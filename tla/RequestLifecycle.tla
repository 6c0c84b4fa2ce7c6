-------------------------- MODULE RequestLifecycle --------------------------
(***************************************************************************)
(* One signing request of the bridge, from durable intent to final status. *)
(*                                                                         *)
(* A request has parts; each part is to become one native Documenso        *)
(* document.  Calls of the API, the reconcile timer and accepted webhooks  *)
(* work on the same rows concurrently.  A call is a worker: it takes the   *)
(* request's lease (a PostgreSQL session advisory lock), walks over the    *)
(* parts and, for each, talks to Documenso and to the database.  One       *)
(* action below is the code between two awaits that other actors can tell  *)
(* apart.  A worker may die at any await; an HTTP request it had sent may  *)
(* still take effect, later or never.                                      *)
(***************************************************************************)
EXTENDS Integers, FiniteSets

CONSTANTS
  Workers,    \* concurrent calls, over all bridge processes
  PartCount,  \* number of parts of the request
  Docs,       \* identities of native documents
  Jobs,       \* the kinds of call that may be made
  Moves,      \* what people may do inside Documenso
  Scenario,   \* requests.scenario
  NoDoc,      \* provider_id IS NULL
  NoWorker    \* nobody holds the lease

ASSUME PartCountAssumption == PartCount \in Nat \ {0}
ASSUME NoDocAssumption == NoDoc \notin Docs
ASSUME NoWorkerAssumption == NoWorker \notin Workers

Parts == 1..PartCount

JobKinds == {"process", "send", "cancel", "close", "discard",
             "review", "bundle", "read", "hook"}
MoveKinds == {"sign", "cancel", "send", "delete", "duplicate",
              "editFields", "editRecipients"}

ASSUME JobsAssumption == Jobs \subseteq JobKinds
ASSUME MovesAssumption == Moves \subseteq MoveKinds

HrScenarios == {"onboarding", "team_leader", "offboarding"}
PackageScenarios == {"buyer", "seller", "rental", "commercial", "company_file"}

\* Every request of the company's own connections; "custom" is not modelled.
ASSUME ScenarioAssumption == Scenario \in HrScenarios \union PackageScenarios

Hr == Scenario \in HrScenarios
CompanyPackage == Scenario \in PackageScenarios
ReviewRequired == CompanyPackage \/ Scenario = "offboarding"

OperationStates ==
  {"prepared", "creating", "unknown", "linked", "failed", "discarded"}
DeliveryStates == {"idle", "sending", "unknown", "sent"}
NativeStatuses == {"DRAFT", "PENDING", "COMPLETED", "REJECTED", "CANCELLED"}
Final == {"COMPLETED", "REJECTED", "CANCELLED"}
DocStates == NativeStatuses \union {"ABSENT", "DELETED"}
Edits == {"none", "fields", "recipients"}

\* A row of signing.request_parts; "none" is projection IS NULL.
PartRow == [op   : OperationStates,
            pid  : Docs \union {NoDoc},
            del  : DeliveryStates,
            proj : NativeStatuses \union {"none"}]
NewRow == [op |-> "prepared", pid |-> NoDoc, del |-> "idle", proj |-> "none"]

\* A native document; part is the request part its externalId names.
Document == [part : Parts \union {0}, status : DocStates, edit : Edits]
Absent == [part |-> 0, status |-> "ABSENT", edit |-> "none"]

\* Where a call can stand; the first two are outside the lease.
Outside == {"idle", "queued"}
Held == {"scan", "recover", "saveFound", "post", "saveId", "saveFailed",
         "saveUnknown", "hookGet", "hookLink", "get", "commit", "act",
         "sending", "distribute", "sendFailed", "sendUnknown", "sent",
         "delGet", "delPost", "discard", "purge", "cancelGet", "cancelPost",
         "get2", "commit2"}
\* The calls whose failing POST is not covered by a catch of its own.
OnTheWire == {"post", "distribute", "delPost", "cancelPost"}

Seen == [status : DocStates, edit : Edits]
NotSeen == [status |-> "ABSENT", edit |-> "none"]
NoRows == [p \in Parts |-> NewRow]

VARIABLES
  db,         \* signing.request_parts of the request
  uploads,    \* parts whose request_uploads rows exist
  announced,  \* portal_outbox rows: <<part, projected status>>
  inbox,      \* unprocessed webhook_inbox rows, by native document
  docs,       \* Documenso's documents
  lateCreate, \* parts whose create POST may still arrive
  lateDoc,    \* <<operation, document>> POSTs that may still arrive
  lease,      \* the worker holding the advisory lock
  pc,         \* where each worker's call stands
  job,        \* what kind of call it is
  cur,        \* the part it works on
  rows,       \* the rows it read
  seen,       \* the document as its last sync read it
  found,      \* a document id it holds but has not saved
  reviewed,   \* review hashes handed to a client
  posted      \* distribute POSTs per part that were not refused

vars == <<db, uploads, announced, inbox, docs, lateCreate, lateDoc,
          lease, pc, job, cur, rows, seen, found, reviewed, posted>>
tables == <<db, uploads, announced, inbox>>
native == <<docs, lateCreate, lateDoc>>
ghosts == <<reviewed, posted>>
calls == <<pc, job, cur, rows, seen, found>>

TablesOK ==
  /\ db \in [Parts -> PartRow]
  /\ uploads \subseteq Parts
  /\ announced \subseteq Parts \X NativeStatuses
  /\ inbox \subseteq Docs
NativeOK ==
  /\ docs \in [Docs -> Document]
  /\ lateCreate \subseteq Parts
  /\ lateDoc \subseteq {"distribute", "delPost", "cancelPost"} \X Docs
CallsOK ==
  /\ lease \in Workers \union {NoWorker}
  /\ pc \in [Workers -> Outside \union Held]
  /\ job \in [Workers -> JobKinds \union {"none"}]
  /\ cur \in [Workers -> 1..(PartCount + 1)]
  /\ rows \in [Workers -> [Parts -> PartRow]]
  /\ seen \in [Workers -> Seen]
  /\ found \in [Workers -> Docs \union {NoDoc}]
GhostsOK ==
  /\ reviewed \subseteq [Parts -> Docs \union {NoDoc}]
  /\ posted \in [Parts -> Nat]

TypeOK == TablesOK /\ NativeOK /\ CallsOK /\ GhostsOK

\* create() has committed the request: every part prepared, its PDFs stored.
Init ==
  /\ db = [p \in Parts |-> NewRow]
  /\ uploads = Parts
  /\ announced = {}
  /\ inbox = {}
  /\ docs = [d \in Docs |-> Absent]
  /\ lateCreate = {}
  /\ lateDoc = {}
  /\ lease = NoWorker
  /\ pc = [w \in Workers |-> "idle"]
  /\ job = [w \in Workers |-> "none"]
  /\ cur = [w \in Workers |-> 1]
  /\ rows = [w \in Workers |-> NoRows]
  /\ seen = [w \in Workers |-> NotSeen]
  /\ found = [w \in Workers |-> NoDoc]
  /\ reviewed = {}
  /\ posted = [p \in Parts |-> 0]
-----------------------------------------------------------------------------
(***************************************************************************)
(* Helpers.                                                                *)
(***************************************************************************)
Row(w) == rows[w][cur[w]]

Live(d) == d \in Docs /\ docs[d].status \in NativeStatuses
Stored(d) == d \in Docs /\ docs[d].status # "ABSENT"
Matches(p) == {d \in Docs : Live(d) /\ docs[d].part = p}
Hash(w) == [p \in Parts |-> rows[w][p].pid]

\* The row of part p with provider_id d and operation_state 'linked'.
Link(table, p, d) == [table EXCEPT ![p].pid = d, ![p].op = "linked"]

Goto(w, l) ==
  /\ pc' = [pc EXCEPT ![w] = l]
  /\ UNCHANGED <<job, cur, rows, seen, found, lease>>

Clear(w) ==
  /\ pc' = [pc EXCEPT ![w] = "idle"]
  /\ job' = [job EXCEPT ![w] = "none"]
  /\ cur' = [cur EXCEPT ![w] = 1]
  /\ rows' = [rows EXCEPT ![w] = NoRows]
  /\ seen' = [seen EXCEPT ![w] = NotSeen]
  /\ found' = [found EXCEPT ![w] = NoDoc]

\* The call returns or throws; finally releases the advisory lock.
Leave(w) == Clear(w) /\ lease' = NoWorker

\* continue, or the end of the loop body.
NextPart(w) ==
  /\ pc' = [pc EXCEPT ![w] = "scan"]
  /\ cur' = [cur EXCEPT ![w] = cur[w] + 1]
  /\ seen' = [seen EXCEPT ![w] = NotSeen]
  /\ found' = [found EXCEPT ![w] = NoDoc]
  /\ UNCHANGED <<job, rows, lease>>

\* An exception: processRequest catches it per part, every other call ends.
Raise(w) == IF job[w] = "process" THEN NextPart(w) ELSE Leave(w)

SetStatus(d, s) == docs' = [docs EXCEPT ![d].status = s]
-----------------------------------------------------------------------------
(***************************************************************************)
(* Starting a call, and the lease.                                         *)
(***************************************************************************)
\* Calls that read the rows only once they hold the lease.
Begin(w, k) ==
  /\ pc[w] = "idle" /\ k \in Jobs \ {"read", "hook"}
  /\ k = "review" => ReviewRequired
  /\ pc' = [pc EXCEPT ![w] = "queued"]
  /\ job' = [job EXCEPT ![w] = k]
  /\ UNCHANGED <<tables, native, lease, cur, rows, seen, found, ghosts>>

\* The row is read now, the lease is asked for later.
Snapshot(w, k, p, d) ==
  /\ pc' = [pc EXCEPT ![w] = "queued"]
  /\ job' = [job EXCEPT ![w] = k]
  /\ cur' = [cur EXCEPT ![w] = p]
  /\ rows' = [rows EXCEPT ![w] = db]
  /\ found' = [found EXCEPT ![w] = d]

\* access() and download() read the part's row before they ask for the lease.
BeginRead(w, p) ==
  /\ pc[w] = "idle" /\ "read" \in Jobs
  /\ db[p].op = "linked"
  /\ Snapshot(w, "read", p, NoDoc)
  /\ UNCHANGED <<tables, native, lease, seen, ghosts>>

\* reconcile() reads the row a webhook names before it asks for the lease.
BeginHook(w, d) ==
  /\ pc[w] = "idle" /\ d \in inbox
  /\ db[docs[d].part].op # "discarded"
  /\ Snapshot(w, "hook", docs[d].part, d)
  /\ UNCHANGED <<tables, native, lease, seen, ghosts>>

\* A webhook for a discarded part is processed without work.
IgnoreHook(d) ==
  /\ d \in inbox /\ db[docs[d].part].op = "discarded"
  /\ inbox' = inbox \ {d}
  /\ UNCHANGED <<db, uploads, announced, native, lease, calls, ghosts>>

\* receiveWebhook: stored unless the part is linked to another document.
ReceiveWebhook(d) ==
  /\ "hook" \in Jobs /\ Stored(d) /\ d \notin inbox
  /\ db[docs[d].part].pid \in {NoDoc, d}
  /\ inbox' = inbox \union {d}
  /\ UNCHANGED <<db, uploads, announced, native, lease, calls, ghosts>>

\* Mutant of Acquire: downloads do not take the lease.
AcquireUnshared(w) ==
  /\ pc[w] = "queued" /\ (lease = NoWorker \/ job[w] = "read")
  /\ lease' = IF job[w] = "read" THEN lease ELSE w
  /\ pc' = [pc EXCEPT ![w] = CASE job[w] = "read" -> "get"
                                [] job[w] = "hook" -> "hookGet"
                                [] OTHER -> "scan"]
  /\ rows' = IF job[w] \in {"read", "hook"} THEN rows
                                            ELSE [rows EXCEPT ![w] = db]
  /\ UNCHANGED <<tables, native, job, cur, seen, found, ghosts>>

Acquire(w) ==
  /\ pc[w] = "queued" /\ lease = NoWorker
  /\ lease' = w
  /\ pc' = [pc EXCEPT ![w] = CASE job[w] = "read" -> "get"
                                [] job[w] = "hook" -> "hookGet"
                                [] OTHER -> "scan"]
  /\ rows' = IF job[w] \in {"read", "hook"} THEN rows
                                            ELSE [rows EXCEPT ![w] = db]
  /\ UNCHANGED <<tables, native, job, cur, seen, found, ghosts>>

\* REQUEST_BUSY; a readLease waits instead, by staying queued.
Busy(w) ==
  /\ pc[w] = "queued" /\ lease # NoWorker
  /\ Clear(w)
  /\ UNCHANGED <<tables, native, lease, ghosts>>

\* An await fails and nothing happened: the query rolled back, the GET was not
\* answered, or a check of the code's own refused to go on.
Throw(w) ==
  /\ pc[w] \in Held \ (OnTheWire \union {"saveId"})
  /\ cur[w] <= PartCount
  /\ Raise(w)
  /\ UNCHANGED <<tables, native, ghosts>>

\* The process dies.  PostgreSQL frees the lease with the session.
Crash(w) ==
  /\ pc[w] \in Held
  /\ Leave(w)
  /\ lateCreate' = IF pc[w] = "post" THEN lateCreate \union {cur[w]}
                                    ELSE lateCreate
  /\ lateDoc' = IF pc[w] \in OnTheWire \ {"post"}
                THEN lateDoc \union {<<pc[w], Row(w).pid>>} ELSE lateDoc
  /\ posted' = IF pc[w] = "distribute" THEN [posted EXCEPT ![cur[w]] = @ + 1]
                                      ELSE posted
  /\ UNCHANGED <<tables, docs, reviewed>>

\* The loop is over.  A review hands out the hash of what it showed.
Return(w) ==
  /\ pc[w] = "scan" /\ cur[w] > PartCount
  /\ Leave(w)
  /\ reviewed' = IF job[w] = "review" THEN reviewed \union {Hash(w)}
                                      ELSE reviewed
  /\ UNCHANGED <<tables, native, posted>>
-----------------------------------------------------------------------------
(***************************************************************************)
(* The head of the loop body: what the row says is to be done.             *)
(***************************************************************************)
Scanning(w) == pc[w] = "scan" /\ cur[w] <= PartCount

\* Mutant of SkipPart: commands pass over parts that failed, too.
SkipFailedPart(w) ==
  /\ Scanning(w)
  /\ Row(w).op \in {"failed", "discarded"}
  /\ NextPart(w)
  /\ UNCHANGED <<tables, native, ghosts>>

SkipPart(w) ==
  /\ Scanning(w)
  /\ \/ job[w] = "process" /\ Row(w).op \in {"failed", "discarded"}
     \/ job[w] \in {"send", "cancel", "close", "discard"}
        /\ Row(w).op = "discarded"
  /\ NextPart(w)
  /\ UNCHANGED <<tables, native, ghosts>>

\* Mutant of StartSync: the timer leaves a part alone once it is projected.
StartSyncOnce(w) ==
  /\ Scanning(w)
  /\ Row(w).pid # NoDoc
  /\ \/ job[w] = "process" /\ Row(w).op = "linked" /\ Row(w).proj = "none"
     \/ job[w] \in {"send", "cancel", "close", "discard", "review"}
        /\ Row(w).op = "linked"
     \/ job[w] = "bundle"
  /\ Goto(w, "get")
  /\ UNCHANGED <<tables, native, ghosts>>

\* A part with a document is synchronized first, whatever the call is.
StartSync(w) ==
  /\ Scanning(w)
  /\ Row(w).pid # NoDoc
  /\ \/ job[w] = "process" /\ Row(w).op \notin {"failed", "discarded"}
     \/ job[w] \in {"send", "cancel", "close", "discard", "review"}
        /\ Row(w).op = "linked"
     \/ job[w] = "bundle"
  /\ Goto(w, "get")
  /\ UNCHANGED <<tables, native, ghosts>>

\* Mutant of StartRecover: only a crashed create is looked for.
StartRecoverCrashed(w) ==
  /\ Scanning(w) /\ job[w] = "process"
  /\ Row(w).pid = NoDoc /\ Row(w).op = "creating"
  /\ Goto(w, "recover")
  /\ UNCHANGED <<tables, native, ghosts>>

StartRecover(w) ==
  /\ Scanning(w) /\ job[w] = "process"
  /\ Row(w).pid = NoDoc /\ Row(w).op \in {"creating", "unknown"}
  /\ Goto(w, "recover")
  /\ UNCHANGED <<tables, native, ghosts>>

\* Mutant of MarkCreating: the intent is not made durable.
MarkNothing(w) ==
  /\ Scanning(w) /\ job[w] = "process"
  /\ Row(w).pid = NoDoc /\ Row(w).op = "prepared"
  /\ cur[w] \in uploads
  /\ Goto(w, "post")
  /\ UNCHANGED <<tables, native, ghosts>>

\* The durable intent: 'creating' is committed before the POST is sent.
MarkCreating(w) ==
  /\ Scanning(w) /\ job[w] = "process"
  /\ Row(w).pid = NoDoc /\ Row(w).op = "prepared"
  /\ cur[w] \in uploads
  /\ db' = IF db[cur[w]].op = "prepared"
           THEN [db EXCEPT ![cur[w]].op = "creating"] ELSE db
  /\ Goto(w, "post")
  /\ UNCHANGED <<uploads, announced, inbox, native, ghosts>>

\* Mutant of DiscardLocal: the uploads are deleted before the row is marked.
PurgeFirst(w) ==
  /\ Scanning(w) /\ job[w] \in {"discard", "close"}
  /\ Row(w).pid = NoDoc /\ Row(w).op \in {"prepared", "failed"}
  /\ uploads' = uploads \ {cur[w]}
  /\ Goto(w, "discard")
  /\ UNCHANGED <<db, announced, inbox, native, ghosts>>

\* discard and close of a part that never reached Documenso.
DiscardLocal(w) ==
  /\ Scanning(w) /\ job[w] \in {"discard", "close"}
  /\ Row(w).pid = NoDoc /\ Row(w).op \in {"prepared", "failed"}
  /\ db' = [db EXCEPT ![cur[w]].op = "discarded"]
  /\ Goto(w, "purge")
  /\ UNCHANGED <<uploads, announced, inbox, native, ghosts>>

\* DELETE FROM request_uploads is a statement of its own.
Purge(w) ==
  /\ pc[w] = "purge"
  /\ uploads' = uploads \ {cur[w]}
  /\ NextPart(w)
  /\ UNCHANGED <<db, announced, inbox, native, ghosts>>
-----------------------------------------------------------------------------
(***************************************************************************)
(* Creating the native document, or finding the one that was created.      *)
(***************************************************************************)
NewDocument(d, p) ==
  /\ docs[d].status = "ABSENT"
  /\ docs' = [docs EXCEPT ![d] = [part |-> p, status |-> "DRAFT",
                                  edit |-> "none"]]

\* The call has learned the document's id.
Hold(w, l, d) ==
  /\ pc' = [pc EXCEPT ![w] = l]
  /\ found' = [found EXCEPT ![w] = d]
  /\ UNCHANGED <<job, cur, rows, seen>>

\* The id is in the database and in the call's own copy of the row.
Adopt(w) ==
  /\ pc' = [pc EXCEPT ![w] = "get"]
  /\ rows' = [rows EXCEPT ![w] = Link(rows[w], cur[w], found[w])]
  /\ UNCHANGED <<job, cur, seen, found, lease>>

PostAccepted(w, d) ==
  /\ pc[w] = "post"
  /\ NewDocument(d, cur[w])
  /\ Hold(w, "saveId", d)
  /\ UNCHANGED <<tables, lateCreate, lateDoc, lease, ghosts>>

\* A definite 4xx: Documenso created nothing.
PostRefused(w) ==
  /\ pc[w] = "post"
  /\ Goto(w, "saveFailed")
  /\ UNCHANGED <<tables, native, ghosts>>

\* A timeout, a 5xx or an unreadable answer: the document exists, or will
\* exist, or never will.
PostUncertain(w) ==
  /\ pc[w] = "post"
  /\ lateCreate' = lateCreate \union {cur[w]}
  /\ Goto(w, "saveUnknown")
  /\ UNCHANGED <<tables, docs, lateDoc, ghosts>>

\* The UPDATE that saves the id may commit and still be reported as failed.
SaveId(w) ==
  /\ pc[w] = "saveId"
  /\ \/ db' = Link(db, cur[w], found[w]) /\ Adopt(w)
     \/ db' \in {db, Link(db, cur[w], found[w])} /\ Goto(w, "saveUnknown")
  /\ UNCHANGED <<uploads, announced, inbox, native, ghosts>>

\* Mutants of SaveFailure: without "AND provider_id IS NULL"; every error taken
\* for a refusal.
SaveFailureAnyway(w) ==
  /\ pc[w] \in {"saveFailed", "saveUnknown"}
  /\ db' = [db EXCEPT ![cur[w]].op = IF pc[w] = "saveFailed"
                                     THEN "failed" ELSE "unknown"]
  /\ NextPart(w)
  /\ UNCHANGED <<uploads, announced, inbox, native, ghosts>>

SaveRefusal(w) ==
  /\ pc[w] \in {"saveFailed", "saveUnknown"}
  /\ db' = IF db[cur[w]].pid = NoDoc
           THEN [db EXCEPT ![cur[w]].op = "failed"] ELSE db
  /\ NextPart(w)
  /\ UNCHANGED <<uploads, announced, inbox, native, ghosts>>

\* The catch around the POST, then its rethrow into the per-part catch.
SaveFailure(w) ==
  /\ pc[w] \in {"saveFailed", "saveUnknown"}
  /\ db' = IF db[cur[w]].pid = NoDoc
           THEN [db EXCEPT ![cur[w]].op = IF pc[w] = "saveFailed"
                                          THEN "failed" ELSE "unknown"]
           ELSE db
  /\ NextPart(w)
  /\ UNCHANGED <<uploads, announced, inbox, native, ghosts>>

\* recover(): list by external id; exactly one match is adopted.
Recover(w, d) ==
  /\ pc[w] = "recover"
  /\ Matches(cur[w]) = {d}
  /\ Hold(w, "saveFound", d)
  /\ UNCHANGED <<tables, native, lease, ghosts>>

SaveFound(w) ==
  /\ pc[w] = "saveFound"
  /\ db' = IF db[cur[w]].pid = NoDoc
           THEN Link(db, cur[w], found[w]) ELSE db
  /\ Adopt(w)
  /\ UNCHANGED <<uploads, announced, inbox, native, ghosts>>

\* Mutant of HookGet: the webhook is believed, the document not fetched.
HookTrust(w) ==
  /\ pc[w] = "hookGet"
  /\ Row(w).pid \in {NoDoc, found[w]}
  /\ Goto(w, "hookLink")
  /\ UNCHANGED <<tables, native, ghosts>>

\* The webhook's document is read; the row compared is the one read before
\* the lease.
HookGet(w) ==
  /\ pc[w] = "hookGet"
  /\ Row(w).pid \in {NoDoc, found[w]}
  /\ Live(found[w])
  /\ Goto(w, "hookLink")
  /\ UNCHANGED <<tables, native, ghosts>>

HookLink(w) ==
  /\ pc[w] = "hookLink"
  /\ db' = Link(db, cur[w], found[w])
  /\ pc' = [pc EXCEPT ![w] = "get"]
  /\ rows' = [rows EXCEPT ![w][cur[w]].pid = found[w]]
  /\ UNCHANGED <<uploads, announced, inbox, native, lease, job, cur, seen, found,
                 ghosts>>
-----------------------------------------------------------------------------
(***************************************************************************)
(* syncPart: GET the document, then one transaction.                       *)
(***************************************************************************)
\* HR_RECIPIENT_CHANGED and a missing document are left to Throw.
Get(w, from, to) ==
  /\ pc[w] = from
  /\ Live(Row(w).pid)
  /\ docs[Row(w).pid].edit # "recipients"
  /\ pc' = [pc EXCEPT ![w] = to]
  /\ seen' = [seen EXCEPT ![w] = [status |-> docs[Row(w).pid].status,
                                  edit |-> docs[Row(w).pid].edit]]
  /\ UNCHANGED <<tables, native, lease, job, cur, rows, found, ghosts>>

\* Mutant of Commit: the first projection of a part is not announced.
CommitQuietly(w, from) ==
  LET p == cur[w]
      s == seen[w].status
  IN  /\ pc[w] = from
      /\ db' = [db EXCEPT ![p].op = "linked", ![p].proj = s,
                          ![p].del = IF s # "DRAFT" THEN "sent" ELSE @]
      /\ uploads' = uploads \ {p}
      /\ announced' = IF Hr /\ Row(w).proj \notin {"none", s}
                      THEN announced \union {<<p, s>>} ELSE announced
      /\ IF from = "commit" THEN Goto(w, "act") ELSE NextPart(w)
      /\ UNCHANGED <<inbox, native, ghosts>>

\* The old projection compared is the one in the row the call read.
Commit(w, from) ==
  LET p == cur[w]
      s == seen[w].status
  IN  /\ pc[w] = from
      /\ db' = [db EXCEPT ![p].op = "linked", ![p].proj = s,
                          ![p].del = IF s # "DRAFT" THEN "sent" ELSE @]
      /\ uploads' = uploads \ {p}
      /\ announced' = IF Hr /\ Row(w).proj # s
                      THEN announced \union {<<p, s>>} ELSE announced
      /\ IF from = "commit" THEN Goto(w, "act") ELSE NextPart(w)
      /\ UNCHANGED <<inbox, native, ghosts>>
-----------------------------------------------------------------------------
(***************************************************************************)
(* What the call does with the synchronized document.                      *)
(***************************************************************************)
Acting(w, k, statuses) ==
  pc[w] = "act" /\ job[w] = k /\ seen[w].status \in statuses

\* Nothing is left to do for this part.
ActNext(w) ==
  /\ \/ Acting(w, "process", NativeStatuses)
     \/ Acting(w, "send", {"PENDING", "COMPLETED"})
     \/ Acting(w, "cancel", {"COMPLETED", "REJECTED"})
     \/ Acting(w, "close", {"COMPLETED", "REJECTED"})
     \/ Acting(w, "review", {"DRAFT"}) /\ seen[w].edit = "none"
     \/ Acting(w, "bundle", {"COMPLETED"})
  /\ NextPart(w)
  /\ UNCHANGED <<tables, native, ghosts>>

ActRead(w) ==
  /\ Acting(w, "read", NativeStatuses)
  /\ Leave(w)
  /\ UNCHANGED <<tables, native, ghosts>>

\* The webhook's row is marked processed once the part is synchronized.
ActHook(w) ==
  /\ Acting(w, "hook", NativeStatuses)
  /\ inbox' = inbox \ {found[w]}
  /\ Leave(w)
  /\ UNCHANGED <<db, uploads, announced, native, ghosts>>

\* Mutants of ActSend: no check of delivery_state; no check of the review.
SendAgain(w) ==
  /\ Acting(w, "send", {"DRAFT"})
  /\ ReviewRequired => Hash(w) \in reviewed
  /\ seen[w].edit = "none"
  /\ Goto(w, "sending")
  /\ UNCHANGED <<tables, native, ghosts>>

SendUnseen(w) ==
  /\ Acting(w, "send", {"DRAFT"})
  /\ Row(w).del = "idle"
  /\ seen[w].edit = "none"
  /\ Goto(w, "sending")
  /\ UNCHANGED <<tables, native, ghosts>>

\* send: the caller's review hash, the delivery state the row had, and the
\* draft as it was read must all allow it.
ActSend(w) ==
  /\ Acting(w, "send", {"DRAFT"})
  /\ ReviewRequired => Hash(w) \in reviewed
  /\ Row(w).del = "idle"
  /\ seen[w].edit = "none"
  /\ Goto(w, "sending")
  /\ UNCHANGED <<tables, native, ghosts>>

ActDelete(w) ==
  /\ Acting(w, "close", {"DRAFT"}) \/ Acting(w, "discard", NativeStatuses)
  /\ Goto(w, "delGet")
  /\ UNCHANGED <<tables, native, ghosts>>

ActCancel(w) ==
  /\ \E k \in {"cancel", "close"} : Acting(w, k, {"PENDING", "CANCELLED"})
  /\ Goto(w, IF seen[w].status = "PENDING" THEN "cancelGet" ELSE "get2")
  /\ UNCHANGED <<tables, native, ghosts>>

\* 'sending' is committed before the POST is sent.
MarkSending(w) ==
  /\ pc[w] = "sending"
  /\ db' = [db EXCEPT ![cur[w]].del = "sending"]
  /\ Goto(w, "distribute")
  /\ UNCHANGED <<uploads, announced, inbox, native, ghosts>>

DistributeAccepted(w) ==
  /\ pc[w] = "distribute"
  /\ docs[Row(w).pid].status \in {"DRAFT", "PENDING"}
  /\ SetStatus(Row(w).pid, "PENDING")
  /\ posted' = [posted EXCEPT ![cur[w]] = @ + 1]
  /\ Goto(w, "sent")
  /\ UNCHANGED <<tables, lateCreate, lateDoc, reviewed>>

DistributeRefused(w) ==
  /\ pc[w] = "distribute"
  /\ Goto(w, "sendFailed")
  /\ UNCHANGED <<tables, native, ghosts>>

DistributeUncertain(w) ==
  /\ pc[w] = "distribute"
  /\ lateDoc' = lateDoc \union {<<"distribute", Row(w).pid>>}
  /\ posted' = [posted EXCEPT ![cur[w]] = @ + 1]
  /\ Goto(w, "sendUnknown")
  /\ UNCHANGED <<tables, docs, lateCreate, reviewed>>

\* Mutant of SaveSendFailure: an uncertain send may be sent again.
SaveSendIdle(w) ==
  /\ pc[w] \in {"sendFailed", "sendUnknown"}
  /\ db' = [db EXCEPT ![cur[w]].del = "idle"]
  /\ Leave(w)
  /\ UNCHANGED <<uploads, announced, inbox, native, ghosts>>

\* The catch around the POST; the exception then ends the call.
SaveSendFailure(w) ==
  /\ pc[w] \in {"sendFailed", "sendUnknown"}
  /\ db' = [db EXCEPT ![cur[w]].del = IF pc[w] = "sendFailed"
                                      THEN "idle" ELSE "unknown"]
  /\ Leave(w)
  /\ UNCHANGED <<uploads, announced, inbox, native, ghosts>>

MarkSent(w) ==
  /\ pc[w] = "sent"
  /\ db' = [db EXCEPT ![cur[w]].del = "sent"]
  /\ Goto(w, "get2")
  /\ UNCHANGED <<uploads, announced, inbox, native, ghosts>>

\* Mutant of DeleteGet: whatever its status is by now, the document is deleted.
DeleteAny(w) ==
  /\ pc[w] = "delGet"
  /\ Live(Row(w).pid)
  /\ Goto(w, "delPost")
  /\ UNCHANGED <<tables, native, ghosts>>

\* deleteDraft() and cancel() look at the document once more before the POST.
DeleteGet(w) ==
  /\ pc[w] = "delGet"
  /\ Live(Row(w).pid) /\ docs[Row(w).pid].status = "DRAFT"
  /\ Goto(w, "delPost")
  /\ UNCHANGED <<tables, native, ghosts>>

CancelGet(w) ==
  /\ pc[w] = "cancelGet"
  /\ Live(Row(w).pid) /\ docs[Row(w).pid].status \in {"PENDING", "CANCELLED"}
  /\ Goto(w, IF docs[Row(w).pid].status = "PENDING"
             THEN "cancelPost" ELSE "get2")
  /\ UNCHANGED <<tables, native, ghosts>>

DeleteAccepted(w) ==
  /\ pc[w] = "delPost" /\ Live(Row(w).pid)
  /\ SetStatus(Row(w).pid, "DELETED")
  /\ Goto(w, "discard")
  /\ UNCHANGED <<tables, lateCreate, lateDoc, ghosts>>

CancelAccepted(w) ==
  /\ pc[w] = "cancelPost" /\ docs[Row(w).pid].status = "PENDING"
  /\ SetStatus(Row(w).pid, "CANCELLED")
  /\ Goto(w, "get2")
  /\ UNCHANGED <<tables, lateCreate, lateDoc, ghosts>>

\* The POST fails: refused, or with an outcome nobody knows.  No catch here.
DeleteOrCancelFails(w) ==
  /\ pc[w] \in {"delPost", "cancelPost"}
  /\ lateDoc' \in {lateDoc, lateDoc \union {<<pc[w], Row(w).pid>>}}
  /\ Leave(w)
  /\ UNCHANGED <<tables, docs, lateCreate, ghosts>>

\* Mutant of Discard: the state is written to delivery_state.
DiscardDelivery(w) ==
  /\ pc[w] = "discard"
  /\ db' = [db EXCEPT ![cur[w]].del = "discarded"]
  /\ IF job[w] = "discard" THEN Goto(w, "purge") ELSE NextPart(w)
  /\ UNCHANGED <<uploads, announced, inbox, native, ghosts>>

\* After the provider deleted the draft: discarded, then (discard only) the
\* uploads are removed.
Discard(w) ==
  /\ pc[w] = "discard"
  /\ db' = [db EXCEPT ![cur[w]].op = "discarded"]
  /\ IF job[w] = "discard" THEN Goto(w, "purge") ELSE NextPart(w)
  /\ UNCHANGED <<uploads, announced, inbox, native, ghosts>>
-----------------------------------------------------------------------------
(***************************************************************************)
(* Documenso: POSTs that arrive after their caller gave up, and people.    *)
(***************************************************************************)
LateCreateArrives(p, d) ==
  /\ p \in lateCreate
  /\ NewDocument(d, p)
  /\ lateCreate' = lateCreate \ {p}
  /\ UNCHANGED <<tables, lateDoc, lease, calls, ghosts>>

LateCreateLost(p) ==
  /\ p \in lateCreate
  /\ lateCreate' = lateCreate \ {p}
  /\ UNCHANGED <<tables, docs, lateDoc, lease, calls, ghosts>>

\* What the POST does to the document it finds; otherwise it is refused.
Effect(op, d) ==
  CASE op = "distribute" /\ docs[d].status = "DRAFT" -> "PENDING"
    [] op = "cancelPost" /\ docs[d].status = "PENDING" -> "CANCELLED"
    [] op = "delPost" /\ Live(d) -> "DELETED"
    [] OTHER -> docs[d].status

LateArrives(m) ==
  /\ m \in lateDoc
  /\ lateDoc' = lateDoc \ {m}
  /\ \/ SetStatus(m[2], Effect(m[1], m[2]))
     \/ UNCHANGED docs
  /\ UNCHANGED <<tables, lateCreate, lease, calls, ghosts>>

\* Signers and Documenso's own administrators.
Moved(d, k, from, to) ==
  k \in Moves /\ docs[d].status = from /\ SetStatus(d, to)

Edited(d, k, edit) ==
  /\ k \in Moves
  /\ docs[d].status = "DRAFT" /\ docs[d].edit = "none"
  /\ docs' = [docs EXCEPT ![d].edit = edit]

NativeMove(d) ==
  /\ \/ Moved(d, "sign", "PENDING", "COMPLETED")
     \/ Moved(d, "sign", "PENDING", "REJECTED")
     \/ Moved(d, "cancel", "PENDING", "CANCELLED")
     \/ Moved(d, "send", "DRAFT", "PENDING")
     \/ Moved(d, "delete", "DRAFT", "DELETED")
     \/ Edited(d, "editFields", "fields")
     \/ Edited(d, "editRecipients", "recipients")
  /\ UNCHANGED <<tables, lateCreate, lateDoc, lease, calls, ghosts>>

\* A copy that keeps the external id.
NativeDuplicate(d, e) ==
  /\ "duplicate" \in Moves /\ Live(d)
  /\ NewDocument(e, docs[d].part)
  /\ UNCHANGED <<tables, lateCreate, lateDoc, lease, calls, ghosts>>
-----------------------------------------------------------------------------
Starting(w) ==
  \/ \E k \in Jobs : Begin(w, k)
  \/ \E p \in Parts : BeginRead(w, p)
  \/ \E d \in Docs : BeginHook(w, d)

Creating(w) ==
  \/ MarkCreating(w) \/ PostRefused(w) \/ PostUncertain(w) \/ SaveId(w)
  \/ SaveFailure(w) \/ SaveFound(w) \/ HookGet(w) \/ HookLink(w)
  \/ \E d \in Docs : PostAccepted(w, d) \/ Recover(w, d)

Syncing(w) ==
  \/ Get(w, "get", "commit") \/ Commit(w, "commit")
  \/ Get(w, "get2", "commit2") \/ Commit(w, "commit2")

Commanding(w) ==
  \/ ActNext(w) \/ ActRead(w) \/ ActHook(w) \/ ActSend(w) \/ ActDelete(w)
  \/ ActCancel(w) \/ MarkSending(w) \/ DistributeAccepted(w)
  \/ DistributeRefused(w) \/ DistributeUncertain(w) \/ SaveSendFailure(w)
  \/ MarkSent(w) \/ DeleteGet(w) \/ CancelGet(w) \/ DeleteAccepted(w)
  \/ CancelAccepted(w) \/ DeleteOrCancelFails(w) \/ Discard(w)

Walking(w) ==
  \/ Return(w) \/ SkipPart(w) \/ StartSync(w) \/ StartRecover(w)
  \/ DiscardLocal(w) \/ Purge(w)

Step(w) ==
  \/ Acquire(w) \/ Busy(w) \/ Throw(w)
  \/ Walking(w) \/ Creating(w) \/ Syncing(w) \/ Commanding(w)

Environment ==
  \/ \E p \in lateCreate : LateCreateLost(p)
                           \/ \E d \in Docs : LateCreateArrives(p, d)
  \/ \E m \in lateDoc : LateArrives(m)
  \/ \E d \in Docs : \/ ReceiveWebhook(d) \/ IgnoreHook(d) \/ NativeMove(d)
                     \/ \E e \in Docs : NativeDuplicate(d, e)

Next ==
  \/ \E w \in Workers : Starting(w) \/ Step(w) \/ Crash(w)
  \/ Environment

Spec == Init /\ [][Next]_vars

(***************************************************************************)
(* Fairness.  Every await is bounded by a timeout (20 s for Documenso, 5 s *)
(* for the database), so a call that holds the lease ends or moves on.     *)
(* The timer of server.ts starts processRequest again and again, at times   *)
(* when no other call holds the lease, and its requests to Documenso and   *)
(* the database succeed again and again.                                   *)
(***************************************************************************)
Retried(k) ==
  /\ SF_vars(\E w \in Workers : lease = NoWorker /\ Begin(w, k))
  /\ SF_vars(\E w \in Workers : job[w] = k /\ Acquire(w))
  /\ SF_vars(\E w \in Workers : job[w] = k /\ StartSync(w))
  /\ SF_vars(\E w \in Workers : job[w] = k /\ Get(w, "get", "commit"))
  /\ SF_vars(\E w \in Workers : job[w] = k /\ Commit(w, "commit"))

Recovering ==
  /\ SF_vars(\E w \in Workers : StartRecover(w))
  /\ SF_vars(\E w \in Workers, d \in Docs : Recover(w, d))
  /\ SF_vars(\E w \in Workers : SaveFound(w))

Fairness ==
  /\ \A w \in Workers : WF_vars(Step(w))
  /\ Retried("process") /\ Recovering

\* A person who also repeats discard until it succeeds.
Discarding ==
  /\ Retried("discard")
  /\ SF_vars(\E w \in Workers : ActDelete(w))
  /\ SF_vars(\E w \in Workers : DeleteGet(w))
  /\ SF_vars(\E w \in Workers : DeleteAccepted(w))
  /\ SF_vars(\E w \in Workers : Discard(w))

FairSpec == Spec /\ Fairness
RetrySpec == FairSpec /\ Discarding
-----------------------------------------------------------------------------
(***************************************************************************)
(* Properties.                                                             *)
(***************************************************************************)
\* A part never gets two native documents, whatever timed out, crashed or was
\* retried (processRequest persists 'creating' before the POST).
AtMostOneDocument ==
  \A d, e \in Docs : Stored(d) /\ docs[d].part = docs[e].part => d = e

\* operation_state and provider_id agree, and the id names a document of the
\* part: the catch of a failed id save must not undo a save that committed.
LinkConsistent ==
  \A p \in Parts :
    IF db[p].op \in {"prepared", "creating", "unknown", "failed"}
    THEN db[p].pid = NoDoc
    ELSE /\ db[p].op = "linked" => db[p].pid # NoDoc
         /\ db[p].pid # NoDoc => docs[db[p].pid].part = p

\* A document that exists in Documenso is never behind a part whose state says
\* there is none and which no later call would look for.
NoStrandedDocument ==
  \A d \in Docs : Live(d) =>
    db[docs[d].part].op \in {"creating", "unknown", "linked"}

\* The PDFs are there for as long as the part may still have to be created.
UploadsUntilCreated ==
  \A p \in Parts : db[p].op = "prepared" => p \in uploads

\* The distribute POST of a part goes out once: after a crash or an uncertain
\* answer nobody sends again (delivery_state sending/unknown blocks it).
AtMostOneSend == \A p \in Parts : posted[p] <= 1

\* With a mandatory review, what the bridge sent is a document some client was
\* shown in a complete review of the request.
SentWasReviewed ==
  \A p \in Parts : ReviewRequired /\ posted[p] > 0 =>
    \E h \in reviewed : h[p] # NoDoc /\ docs[h[p]].part = p /\ h[p] = db[p].pid

\* Every projection the portal can read was announced to it: the outbox insert
\* compares with a row that may be older than the one it overwrites.
NoSilentChange ==
  \A p \in Parts : Hr /\ db[p].proj # "none" => <<p, db[p].proj>> \in announced

\* A command that returns without an error did its work on every part, also
\* when an earlier attempt had stopped between two parts.
Finished(w, k) == pc[w] = "scan" /\ cur[w] > PartCount /\ job[w] = k
Settled(p, statuses) == db[p].op = "discarded" \/ db[p].proj \in statuses

CommandIsComplete ==
  \A w \in Workers, p \in Parts :
    /\ Finished(w, "send") => Settled(p, NativeStatuses \ {"DRAFT"})
    /\ Finished(w, "cancel") \/ Finished(w, "close") => Settled(p, Final)
    /\ Finished(w, "discard") => Settled(p, {})

Rank(s) == CASE s = "none" -> 0 [] s = "DRAFT" -> 1 [] s = "PENDING" -> 2
             [] OTHER -> 3

\* The stored projection never goes back, and a final one never changes, though
\* every sync writes what an earlier GET answered.
ProjectionMonotone ==
  [][\A p \in Parts : \/ db'[p].proj = db[p].proj
                      \/ Rank(db[p].proj) < Rank(db'[p].proj)]_vars

\* A discarded part stays discarded: no stale reader writes 'linked' over it.
DiscardedIsFinal ==
  [][\A p \in Parts : db[p].op = "discarded" => db'[p].op = "discarded"]_vars

\* A part never moves to another document (WEBHOOK_DOCUMENT_CONFLICT).
LinkStable ==
  [][\A p \in Parts : db[p].pid # NoDoc => db'[p].pid = db[p].pid]_vars

\* The create POST of a part goes out once, and only after the row that said
\* 'prepared' says 'creating': whoever repeats, crashes or copies documents.
Creates(p) == \E w \in Workers : pc[w] # "post" /\ pc'[w] = "post" /\ cur[w] = p

CreatesOnce ==
  [][\A p \in Parts :
       /\ db[p].op # "prepared" => db'[p].op # "prepared"
       /\ Creates(p) => db[p].op = "prepared" /\ db'[p].op = "creating"]_vars

\* The stage of a part's life that its row shows, the status of its document,
\* and what the outbox says of it.
Stage(p) ==
  CASE db[p].op \in {"creating", "unknown"} -> "begun"
    [] db[p].op = "failed" -> "refused"
    [] OTHER -> db[p].op
NativeStatus(p) ==
  IF \E d \in Docs : Stored(d) /\ docs[d].part = p
  THEN docs[CHOOSE d \in Docs : Stored(d) /\ docs[d].part = p].status ELSE "none"
Announcements(p) == {s \in NativeStatuses : <<p, s>> \in announced}

Contract == INSTANCE PartContract WITH
  Parts <- Parts,
  PeopleSend <- "send" \in Moves,
  Announced <- Hr,
  stage <- [p \in Parts |-> Stage(p)],
  document <- [p \in Parts |-> NativeStatus(p)],
  shown <- [p \in Parts |-> db[p].proj],
  told <- [p \in Parts |-> Announcements(p)],
  mailed <- [p \in Parts |-> posted[p] > 0]

\* Each part keeps the contract of PartContract: whatever calls, late POSTs,
\* webhooks and people do between two awaits, and wherever a call dies.
KeepsContract == Contract!Spec

\* A document that was created is found, whoever lost the answer, unless people
\* delete it first.
EventuallyLinked ==
  \A p \in Parts :
    (db[p].op \in {"creating", "unknown"} /\ Matches(p) # {})
      ~> (db[p].op = "linked" \/ Matches(p) = {})

\* The final status of a linked document reaches the database, unless a draft's
\* delete that was on its way removes the document first.
EventuallyProjected ==
  \A p \in Parts, d \in Docs :
    (db[p].op = "linked" /\ db[p].pid = d /\ docs[d].status \in Final)
      ~> (db[p].proj = docs[d].status \/ docs[d].status = "DELETED")

\* "Uncertain/partial operations stay recoverable" (ARCHITECTURE.md:29): neither
\* a create whose answer was lost nor the delete of a draft stays half done.
UncertainResolves ==
  \A p \in Parts :
    /\ db[p].op = "unknown" ~> db[p].op # "unknown"
    /\ \A d \in Docs : (db[p].pid = d /\ docs[d].status = "DELETED")
                        ~> db[p].op = "discarded"
=============================================================================
